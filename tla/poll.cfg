SPECIFICATION FairSpec
CONSTANTS
  Users = {operator, stranger}
  Operator = operator
  Chats = {chat, elsewhere}
  OperatorChat = chat
  Limit = 2
  MaxUpdates = 3
  MaxOthers = 1
  MaxProcesses = 2
  None = None
INVARIANTS HandledInOrder HandledGenuine NoPressLost
PROPERTIES PressesExamined PollerStops
CHECK_DEADLOCK FALSE
