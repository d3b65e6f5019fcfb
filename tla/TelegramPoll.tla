---------------------------- MODULE TelegramPoll ----------------------------
(***************************************************************************)
(* How a button press reaches the gate: Telegram's queue of updates, the   *)
(* long polling of getUpdates, and the checks a callback passes before     *)
(* processCallback (internal/gate/telegram.go).                            *)
(*                                                                         *)
(* Telegram (external) numbers updates consecutively, keeps them until a   *)
(* request with a higher offset arrives, and answers with at most Limit of *)
(* the oldest ones it keeps.  A response may be lost after the offset was  *)
(* applied, and a request that the process gave up may still arrive later. *)
(* The process may die at any point; the next one starts from offset 1     *)
(* with a new HMAC key, and Telegram still keeps what was not confirmed.   *)
(*                                                                         *)
(* What processCallback does with a press is the Callback action of        *)
(* TelegramGate, which accepts any press of any prompt at any time: the    *)
(* feed modelled here is one of the environments it is checked against.    *)
(***************************************************************************)
EXTENDS Naturals, Sequences, FiniteSets

CONSTANTS
  Users,          \* Telegram users who can press a button
  Operator,       \* the configured authorizedUserID
  Chats,          \* chats in which a prompt can be found
  OperatorChat,   \* the configured chat
  Limit,          \* updates in one response of getUpdates (Telegram: 100)
  MaxUpdates,     \* bound: updates Telegram ever queues
  MaxOthers,      \* bound: updates among them that carry no callback
  MaxProcesses,   \* bound: processes, hence HMAC keys, one after the other
  None            \* an update without a callback_query

ASSUME OperatorAssumption == Operator \in Users /\ OperatorChat \in Chats
ASSUME LimitAssumption == Limit \in Nat \ {0}
ASSUME BoundsAssumption ==
  MaxUpdates \in Nat /\ MaxOthers \in Nat /\ MaxProcesses \in Nat \ {0}

(* A press carries the user, the chat of the message and the key that      *)
(* signed the button's data: the process that sent it, or 0 for data that  *)
(* no process signed.                                                      *)
Processes == 1..MaxProcesses
Callback == [user : Users, chat : Chats, key : 0..MaxProcesses]

ASSUME NoneAssumption == None \notin Callback

VARIABLES
  updates,        \* every update Telegram ever queued; the index is update_id
  confirmed,      \* Telegram has dropped every update_id below this one
  asked,          \* the highest offset ever sent to Telegram
  pc,             \* the polling goroutine
  cancelled,      \* Close has cancelled the polling context
  batch,          \* update_ids of the response being worked through
  lastUpdateID,   \* the field of TelegramGate
  process,        \* the running process; also names its HMAC key
  examined,       \* history: <<process, update_id>> seen by the loop
  handled         \* history: the calls of processCallback, in order

telegram == <<updates, confirmed>>
vars == <<updates, confirmed, asked, pc, cancelled, batch, lastUpdateID,
          process, examined, handled>>

IDs == 1..MaxUpdates
States == {"idle", "polling", "examining", "stopped"}
Larger(a, b) == IF a > b THEN a ELSE b

TypeOK ==
  /\ updates \in Seq(Callback \cup {None})
  /\ Len(updates) <= MaxUpdates
  /\ confirmed \in Nat /\ asked \in Nat /\ lastUpdateID \in Nat
  /\ pc \in States
  /\ cancelled \in BOOLEAN
  /\ batch \subseteq 1..Len(updates)
  /\ process \in Processes
  /\ examined \subseteq Processes \X (1..Len(updates))
  /\ handled \in Seq([id : 1..Len(updates), by : Processes])

Init ==
  /\ updates = <<>>
  /\ confirmed = 1
  /\ asked = 1
  /\ pc = "idle"
  /\ cancelled = FALSE
  /\ batch = {}
  /\ lastUpdateID = 0
  /\ process = 1
  /\ examined = {}
  /\ handled = <<>>

-----------------------------------------------------------------------------
(* Telegram *)

(* Updates that a getUpdates can still return. *)
Kept == {i \in 1..Len(updates) : i >= confirmed}

(* The answer to a request: the oldest Limit of the updates from the offset *)
(* on.                                                                      *)
Oldest(offset) ==
  {i \in Kept : i >= offset /\ Cardinality({j \in Kept : offset <= j /\ j < i}) < Limit}

Others == {i \in 1..Len(updates) : updates[i] = None}

(* A press queued now can carry the key of any process so far, because old *)
(* prompts stay in the chat, or no valid signature at all.                 *)
QueueUpdate ==
  /\ Len(updates) < MaxUpdates
  /\ \/ \E cb \in Callback : cb.key <= process /\ updates' = Append(updates, cb)
     \/ Cardinality(Others) < MaxOthers /\ updates' = Append(updates, None)
  /\ UNCHANGED <<confirmed, asked, pc, cancelled, batch, lastUpdateID, process, examined, handled>>

(* A request the process no longer waits for arrives: it only confirms. *)
LateRequest ==
  /\ confirmed < asked
  /\ confirmed' = asked
  /\ UNCHANGED <<updates, asked, pc, cancelled, batch, lastUpdateID, process, examined, handled>>

-----------------------------------------------------------------------------
(* The polling goroutine *)

(* Mutant: skips an update that was never seen. *)
OffsetTooHigh == lastUpdateID + 2

Offset == lastUpdateID + 1

(* Mutant: goes round without looking at the context. *)
PollForEver ==
  /\ pc = "idle"
  /\ pc' = "polling"
  /\ asked' = Larger(asked, Offset)
  /\ UNCHANGED <<telegram, cancelled, batch, lastUpdateID, process, examined, handled>>

(* pollLoop goes round and getUpdates sends its request. *)
Poll ==
  /\ pc = "idle"
  /\ ~cancelled
  /\ pc' = "polling"
  /\ asked' = Larger(asked, Offset)
  /\ UNCHANGED <<telegram, cancelled, batch, lastUpdateID, process, examined, handled>>

(* Telegram applies the offset and its answer arrives, empty when the long  *)
(* poll timed out.                                                          *)
Answered ==
  /\ pc = "polling"
  /\ confirmed' = Larger(confirmed, Offset)
  /\ batch' = Oldest(Offset)
  /\ pc' = "examining"
  /\ UNCHANGED <<updates, asked, cancelled, lastUpdateID, process, examined, handled>>

(* Transport error, status, oversized or malformed body, ok=false, or the   *)
(* context was cancelled.  Whether the offset was applied shows later.      *)
PollFails ==
  /\ pc = "polling"
  /\ pc' = "idle"
  /\ UNCHANGED <<telegram, asked, cancelled, batch, lastUpdateID, process, examined, handled>>

(* The next update of the response. *)
IsNext(i) == i \in batch /\ \A j \in batch : i <= j

Examine(i) ==
  /\ pc = "examining"
  /\ IsNext(i)
  /\ batch' = batch \ {i}
  /\ examined' = examined \cup {<<process, i>>}
  /\ UNCHANGED <<telegram, asked, pc, cancelled, process>>

(* An update without a callback: skipped before lastUpdateID is touched. *)
Skip(i) ==
  /\ updates[i] = None
  /\ Examine(i)
  /\ UNCHANGED <<lastUpdateID, handled>>

(* Mutant: the chat is not compared. *)
validateUserOnly(cb) == cb.user = Operator

validateCallback(cb) == cb.user = Operator /\ cb.chat = OperatorChat

(* Mutant: the key survives a restart, or the signature goes unchecked. *)
decodeUnkeyed(cb) == cb.key # 0

(* The signature is checked with the key of the running process. *)
decodeCallbackData(cb) == cb.key = process

Genuine(cb) == validateCallback(cb) /\ decodeCallbackData(cb)

Seen(i) == Larger(lastUpdateID, i)

(* Mutant: only callbacks that pass the checks are counted as seen. *)
DiscardUncounted(i) ==
  /\ updates[i] # None
  /\ Examine(i)
  /\ UNCHANGED <<lastUpdateID, handled>>

(* A callback of somebody else, from elsewhere, unsigned, signed by an      *)
(* earlier process, or older than the approval TTL (any press may be): it   *)
(* counts as seen, and nothing else happens.                                *)
Discard(i) ==
  /\ updates[i] # None
  /\ Examine(i)
  /\ lastUpdateID' = Seen(i)
  /\ UNCHANGED handled

(* Mutant: a handled callback is not counted as seen. *)
HandleUncounted(i) ==
  /\ updates[i] # None
  /\ Genuine(updates[i])
  /\ Examine(i)
  /\ handled' = Append(handled, [id |-> i, by |-> process])
  /\ UNCHANGED lastUpdateID

(* A genuine callback, young enough: processCallback is called. *)
Handle(i) ==
  /\ updates[i] # None
  /\ Genuine(updates[i])
  /\ Examine(i)
  /\ lastUpdateID' = Seen(i)
  /\ handled' = Append(handled, [id |-> i, by |-> process])

(* The response is worked through and the loop pauses. *)
BatchDone ==
  /\ pc = "examining"
  /\ batch = {}
  /\ pc' = "idle"
  /\ UNCHANGED <<telegram, asked, cancelled, batch, lastUpdateID, process, examined, handled>>

(* Close cancels the context; the goroutine notices between two polls. *)
Cancel ==
  /\ ~cancelled
  /\ cancelled' = TRUE
  /\ UNCHANGED <<telegram, asked, pc, batch, lastUpdateID, process, examined, handled>>

PollExit ==
  /\ pc = "idle"
  /\ cancelled
  /\ pc' = "stopped"
  /\ UNCHANGED <<telegram, asked, cancelled, batch, lastUpdateID, process, examined, handled>>

(* The process dies, in whatever state, or has ended; a new one starts with *)
(* a fresh key and remembers nothing.                                       *)
Restart ==
  /\ process < MaxProcesses
  /\ process' = process + 1
  /\ pc' = "idle"
  /\ cancelled' = FALSE
  /\ batch' = {}
  /\ lastUpdateID' = 0
  /\ UNCHANGED <<telegram, asked, examined, handled>>

Next ==
  \/ QueueUpdate \/ LateRequest
  \/ Poll \/ Answered \/ PollFails \/ BatchDone
  \/ \E i \in 1..Len(updates) : Skip(i) \/ Discard(i) \/ Handle(i)
  \/ Cancel \/ PollExit \/ Restart

Spec == Init /\ [][Next]_vars

(* The goroutine keeps running, and a request that is retried for ever is   *)
(* answered now and then.                                                   *)
Fairness ==
  /\ WF_vars(Poll)
  /\ SF_vars(Answered)
  /\ WF_vars(PollFails)
  /\ WF_vars(BatchDone)
  /\ WF_vars(\E i \in 1..Len(updates) : Skip(i) \/ Discard(i) \/ Handle(i))
  /\ WF_vars(PollExit)

FairSpec == Spec /\ Fairness

-----------------------------------------------------------------------------
(* Properties *)

(* The gate is handed every press at most once, and presses in the order in *)
(* which they were made, across lost responses, repeated deliveries and     *)
(* restarts: getUpdates' lastUpdateID within a process, the key in          *)
(* decodeCallbackData from one process to the next.                         *)
HandledInOrder ==
  \A m, n \in 1..Len(handled) : m < n => handled[m].id < handled[n].id

(* Only presses by the operator, in the operator's chat, of a button that   *)
(* this very process sent reach processCallback (validateCallback,          *)
(* decodeCallbackData).                                                     *)
HandledGenuine ==
  \A n \in 1..Len(handled) :
    updates[handled[n].id] = [user |-> Operator, chat |-> OperatorChat, key |-> handled[n].by]

(* Telegram never drops a press that no process has looked at: the offset   *)
(* getUpdates sends only runs over callbacks the loop has worked through,   *)
(* whatever is lost or delayed and wherever a process dies.                 *)
Examined(i) == \E p \in Processes : <<p, i>> \in examined

NoPressLost ==
  \A i \in 1..Len(updates) :
    i < confirmed /\ updates[i] # None => Examined(i)

(* While fewer than Limit updates are without a callback, every press is    *)
(* looked at, or the goroutine has ended: pollLoop survives every error.    *)
PressesExamined ==
  \A i \in IDs :
    (i <= Len(updates) /\ updates[i] # None) ~> (Examined(i) \/ pc = "stopped")

(* The goroutine Close waits for ends once the context is cancelled, unless *)
(* the process ends first (pollLoop's three checks of ctx.Done).            *)
PollerStops == cancelled ~> (pc = "stopped" \/ ~cancelled)

-----------------------------------------------------------------------------
(* The inductive invariant behind the safety properties *)

(* Whatever the process has ever told Telegram to drop has been examined. *)
OffsetsSound ==
  /\ confirmed <= asked
  /\ asked <= Len(updates) + 1
  /\ lastUpdateID <= Len(updates)
  /\ pc = "polling" => Offset <= asked
  /\ \A i \in 1..Len(updates) :
       (i < asked \/ i <= lastUpdateID) /\ updates[i] # None => Examined(i)

(* What is left of a response lies above lastUpdateID, and leaves no gap. *)
BatchSound ==
  /\ pc # "examining" => batch = {}
  /\ \A i \in batch : lastUpdateID < i
  /\ \A i \in batch, j \in 1..Len(updates) :
       j < i /\ updates[j] # None => j \in batch \/ Examined(j)

(* A press signed by a later process comes after all that earlier processes *)
(* handled.                                                                 *)
KeysSound ==
  /\ \A i \in 1..Len(updates) : updates[i] # None => updates[i].key <= process
  /\ \A n \in 1..Len(handled) :
       /\ handled[n].by <= process
       /\ handled[n].by = process => handled[n].id <= lastUpdateID
       /\ \A i \in 1..Len(updates) :
            updates[i] # None /\ handled[n].by < updates[i].key => handled[n].id < i

IInv == TypeOK /\ OffsetsSound /\ BatchSound /\ KeysSound /\ HandledGenuine /\ HandledInOrder
=============================================================================
