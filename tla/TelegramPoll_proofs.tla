------------------------- MODULE TelegramPoll_proofs -------------------------
(* Proofs about TelegramPoll, for every value of its constants. *)
EXTENDS TelegramPoll, FiniteSetTheorems, WellFoundedInduction, TLAPS

USE OperatorAssumption, LimitAssumption, BoundsAssumption, NoneAssumption

(* What a response of getUpdates holds: updates Telegram still keeps, from  *)
(* the offset on, and none of them is passed over for a later one.          *)
LEMMA OldestNoGap ==
  ASSUME TypeOK, NEW offset \in Nat
  PROVE  /\ Oldest(offset) \subseteq 1..Len(updates)
         /\ \A i \in Oldest(offset) : i >= offset
         /\ \A i \in Oldest(offset), j \in 1..Len(updates) :
              offset <= j /\ j < i /\ j >= confirmed => j \in Oldest(offset)
<1>1. Len(updates) \in Nat /\ confirmed \in Nat
  BY DEF TypeOK
<1>2. Oldest(offset) \subseteq 1..Len(updates) /\ \A i \in Oldest(offset) : i >= offset
  BY DEF Oldest, Kept
<1>3. ASSUME NEW i \in Oldest(offset), NEW j \in 1..Len(updates),
             offset <= j, j < i, j >= confirmed
      PROVE  j \in Oldest(offset)
  <2> DEFINE Below(n) == {k \in Kept : offset <= k /\ k < n}
  <2>1. IsFiniteSet(1..Len(updates))
    BY <1>1, FS_Interval
  <2>2. Below(i) \subseteq 1..Len(updates) /\ Below(j) \subseteq Below(i)
    BY <1>1, <1>2, <1>3 DEF Kept
  <2>3. IsFiniteSet(Below(i)) /\ IsFiniteSet(Below(j))
    BY <2>1, <2>2, FS_Subset
  <2>4. Cardinality(Below(j)) <= Cardinality(Below(i))
    BY <2>2, <2>3, FS_Subset
  <2>5. Cardinality(Below(j)) \in Nat /\ Cardinality(Below(i)) \in Nat
    BY <2>3, FS_CardinalityType
  <2>6. Cardinality(Below(i)) < Limit
    BY <1>3 DEF Oldest
  <2>7. Cardinality(Below(j)) < Limit /\ j \in Kept
    BY <1>3, <2>4, <2>5, <2>6 DEF Kept
  <2> QED BY <1>3, <2>7 DEF Oldest
<1> QED BY <1>2, <1>3

(* The types of what updates and handled hold. *)
LEMMA EntryTypes ==
  ASSUME TypeOK
  PROVE  /\ \A i \in 1..Len(updates) : updates[i] # None => updates[i] \in Callback
         /\ \A n \in 1..Len(handled) :
              handled[n].id \in 1..Len(updates) /\ handled[n].by \in Processes
<1> DEFINE Call == [id : 1..Len(updates), by : Processes]
<1>1. \A i \in 1..Len(updates) : updates[i] \in Callback \cup {None}
  BY DEF TypeOK
<1>2. ASSUME NEW n \in 1..Len(handled)
      PROVE  handled[n].id \in 1..Len(updates) /\ handled[n].by \in Processes
  <2>1. handled \in Seq(Call)
    BY DEF TypeOK
  <2> HIDE DEF Call
  <2>2. handled[n] \in Call
    BY <2>1
  <2> QED BY <2>2 DEF Call
<1> QED BY <1>1, <1>2

LEMMA InitIInv == Init => IInv
<1> SUFFICES ASSUME Init PROVE IInv
  OBVIOUS
<1>1. TypeOK
  <2>1. updates \in Seq(Callback \cup {None}) /\ Len(updates) = 0
    BY DEF Init
  <2>2. handled \in Seq([id : 1..Len(updates), by : Processes])
    BY DEF Init
  <2>3. process \in Processes
    BY DEF Init, Processes
  <2>4. examined \subseteq Processes \X (1..Len(updates)) /\ batch \subseteq 1..Len(updates)
    BY DEF Init
  <2>5. Len(updates) <= MaxUpdates
    BY <2>1
  <2> QED BY <2>1, <2>2, <2>3, <2>4, <2>5 DEF Init, TypeOK, States
<1>2. OffsetsSound /\ BatchSound
  BY DEF Init, OffsetsSound, BatchSound, Offset
<1>3. KeysSound /\ HandledGenuine /\ HandledInOrder
  BY DEF Init, KeysSound, HandledGenuine, HandledInOrder
<1> QED BY <1>1, <1>2, <1>3 DEF IInv

-----------------------------------------------------------------------------
(* The invariant is preserved, action by action. *)

LEMMA LateRequestStep == IInv /\ LateRequest => IInv'
<1> SUFFICES ASSUME IInv, LateRequest PROVE IInv'
  OBVIOUS
<1> USE DEF IInv, LateRequest
<1>1. TypeOK'
  BY DEF TypeOK
<1>2. OffsetsSound'
  <2>1. Len(updates) \in Nat /\ confirmed \in Nat /\ asked \in Nat /\ lastUpdateID \in Nat
    BY DEF TypeOK
  <2>2. \A i \in 1..Len(updates) :
          (i < asked \/ i <= lastUpdateID) /\ updates[i] # None => Examined(i)
    BY DEF OffsetsSound
  <2> QED BY <2>1, <2>2 DEF OffsetsSound, Offset, Examined
<1>3. BatchSound'
  BY DEF BatchSound, Examined
<1>4. KeysSound' /\ HandledGenuine' /\ HandledInOrder'
  BY DEF KeysSound, HandledGenuine, HandledInOrder
<1> QED BY <1>1, <1>2, <1>3, <1>4

LEMMA PollStep == IInv /\ Poll => IInv'
<1> SUFFICES ASSUME IInv, Poll PROVE IInv'
  OBVIOUS
<1> USE DEF IInv, Poll, telegram
<1>1. TypeOK'
  BY DEF TypeOK, States, Larger, Offset
<1>2. OffsetsSound'
  <2>1. Len(updates) \in Nat /\ confirmed \in Nat /\ asked \in Nat /\ lastUpdateID \in Nat
    BY DEF TypeOK
  <2>2. \A i \in 1..Len(updates) :
          (i < asked \/ i <= lastUpdateID) /\ updates[i] # None => Examined(i)
    BY DEF OffsetsSound
  <2>3. confirmed <= asked' /\ asked' <= Len(updates) + 1 /\ Offset <= asked'
    BY <2>1 DEF OffsetsSound, Larger, Offset
  <2>4. \A i \in 1..Len(updates) : i < asked' => i < asked \/ i <= lastUpdateID
    BY <2>1 DEF Larger, Offset
  <2> QED BY <2>1, <2>2, <2>3, <2>4 DEF OffsetsSound, Offset, Examined
<1>3. BatchSound'
  BY DEF BatchSound, Examined
<1>4. KeysSound' /\ HandledGenuine' /\ HandledInOrder'
  BY DEF KeysSound, HandledGenuine, HandledInOrder
<1> QED BY <1>1, <1>2, <1>3, <1>4

LEMMA AnsweredStep == IInv /\ Answered => IInv'
<1> SUFFICES ASSUME IInv, Answered PROVE IInv'
  OBVIOUS
<1> USE DEF IInv, Answered
<1>0. Offset \in Nat
  BY DEF TypeOK, Offset
<1>1. TypeOK'
  <2>1. Oldest(Offset) \subseteq 1..Len(updates)
    BY <1>0, OldestNoGap
  <2> QED BY <1>0, <2>1 DEF TypeOK, States, Larger
<1>2. OffsetsSound'
  BY <1>0 DEF TypeOK, OffsetsSound, Examined, Larger, Offset
<1>3. BatchSound'
  <2>1. \A i \in batch' : lastUpdateID' < i
    BY <1>0, OldestNoGap DEF TypeOK, Offset
  <2>2. ASSUME NEW i \in batch', NEW j \in 1..Len(updates), j < i, updates[j] # None
        PROVE  j \in batch' \/ Examined(j)
    <3>1. CASE j < Offset \/ j < confirmed
      BY <1>0, <3>1, <2>2 DEF OffsetsSound, TypeOK, Offset
    <3>2. CASE j >= Offset /\ j >= confirmed
      BY <1>0, <3>2, <2>2, OldestNoGap
    <3> QED BY <1>0, <3>1, <3>2 DEF TypeOK
  <2> QED BY <2>1, <2>2 DEF BatchSound, Examined
<1>4. KeysSound' /\ HandledGenuine' /\ HandledInOrder'
  BY DEF KeysSound, HandledGenuine, HandledInOrder
<1> QED BY <1>1, <1>2, <1>3, <1>4

(* PollFails, BatchDone, Cancel and PollExit change nothing the invariant   *)
(* relates, except that no batch is left behind.                            *)
LEMMA PauseStep == IInv /\ (PollFails \/ BatchDone \/ Cancel \/ PollExit) => IInv'
<1> SUFFICES ASSUME IInv, PollFails \/ BatchDone \/ Cancel \/ PollExit PROVE IInv'
  OBVIOUS
<1> USE DEF IInv, PollFails, BatchDone, Cancel, PollExit, telegram
<1>1. TypeOK'
  BY DEF TypeOK, States
<1>2. OffsetsSound'
  BY DEF OffsetsSound, Offset, Examined
<1>3. BatchSound'
  BY DEF BatchSound, Examined
<1>4. KeysSound' /\ HandledGenuine' /\ HandledInOrder'
  BY DEF KeysSound, HandledGenuine, HandledInOrder
<1> QED BY <1>1, <1>2, <1>3, <1>4

LEMMA RestartStep == IInv /\ Restart => IInv'
<1> SUFFICES ASSUME IInv, Restart PROVE IInv'
  OBVIOUS
<1> USE DEF IInv, Restart, telegram
<1>1. TypeOK'
  <2>1. process' \in Processes
    BY DEF TypeOK, Processes
  <2> QED BY <2>1 DEF TypeOK, States
<1>2. OffsetsSound'
  <2>1. Len(updates) \in Nat /\ confirmed \in Nat /\ asked \in Nat /\ lastUpdateID \in Nat
    BY DEF TypeOK
  <2>2. \A i \in 1..Len(updates) :
          (i < asked \/ i <= lastUpdateID) /\ updates[i] # None => Examined(i)
    BY DEF OffsetsSound
  <2> QED BY <2>1, <2>2 DEF OffsetsSound, Offset, Examined
<1>3. BatchSound'
  BY DEF BatchSound
<1>4. KeysSound'
  <2>1. \A i \in 1..Len(updates) : updates[i] # None => updates[i].key <= process'
    <3>1. ASSUME NEW i \in 1..Len(updates), updates[i] # None
          PROVE  updates[i].key \in Nat
      BY <3>1, EntryTypes DEF Callback
    <3> QED BY <3>1 DEF KeysSound, TypeOK, Processes
  <2>2. \A n \in 1..Len(handled) : handled[n].by \in Processes
    BY EntryTypes
  <2>3. \A n \in 1..Len(handled) : handled[n].by <= process' /\ handled[n].by # process'
    BY <2>2 DEF KeysSound, TypeOK, Processes
  <2> QED BY <2>1, <2>3 DEF KeysSound
<1>5. HandledGenuine' /\ HandledInOrder'
  BY DEF HandledGenuine, HandledInOrder
<1> QED BY <1>1, <1>2, <1>3, <1>4, <1>5

(* A new update gets the next update_id, which nobody has confirmed, and a  *)
(* key that is not newer than the process.                                  *)
LEMMA QueueUpdateStep == IInv /\ QueueUpdate => IInv'
<1> SUFFICES ASSUME IInv, QueueUpdate PROVE IInv'
  OBVIOUS
<1>1. PICK u \in Callback \cup {None} :
        updates' = Append(updates, u) /\ (u # None => u.key <= process)
  BY DEF QueueUpdate
<1>2. /\ Len(updates) \in Nat /\ updates \in Seq(Callback \cup {None})
      /\ confirmed \in Nat /\ asked \in Nat /\ lastUpdateID \in Nat /\ batch \subseteq 1..Len(updates)
      /\ Len(updates) < MaxUpdates
      /\ UNCHANGED <<confirmed, asked, pc, cancelled, batch, lastUpdateID, process, examined, handled>>
  BY DEF QueueUpdate, IInv, TypeOK
<1>3. /\ Len(updates') = Len(updates) + 1
      /\ \A i \in 1..Len(updates) : updates'[i] = updates[i]
      /\ updates'[Len(updates')] = u
      /\ \A i \in 1..Len(updates') : i \in 1..Len(updates) \/ i = Len(updates')
  BY <1>1, <1>2
<1>4. \A n \in 1..Len(handled) :
        handled[n].id \in 1..Len(updates) /\ handled[n].by \in Processes
  BY EntryTypes DEF IInv
<1>5. TypeOK'
  <2>1. updates' \in Seq(Callback \cup {None}) /\ Len(updates') <= MaxUpdates
    BY <1>1, <1>2, <1>3
  <2>2. handled' \in Seq([id : 1..Len(updates'), by : Processes])
    <3> DEFINE S == [id : 1..Len(updates), by : Processes]
               T == [id : 1..Len(updates'), by : Processes]
    <3>1. S \subseteq T
      BY <1>2, <1>3
    <3>2. handled \in Seq(S)
      BY DEF IInv, TypeOK
    <3> HIDE DEF S, T
    <3>3. handled \in Seq(T)
      BY <3>1, <3>2
    <3> QED BY <1>2, <3>3 DEF T
  <2>3. examined' \subseteq Processes \X (1..Len(updates'))
    BY <1>2, <1>3 DEF IInv, TypeOK
  <2> QED BY <1>2, <1>3, <2>1, <2>2, <2>3 DEF IInv, TypeOK
<1>6. OffsetsSound'
  <2>1. ASSUME NEW i \in 1..Len(updates'), i < asked \/ i <= lastUpdateID, updates'[i] # None
        PROVE  Examined(i)
    <3>1. i \in 1..Len(updates)
      BY <1>2, <1>3, <2>1 DEF IInv, OffsetsSound
    <3> QED BY <1>3, <2>1, <3>1 DEF IInv, OffsetsSound
  <2>2. /\ confirmed <= asked /\ asked <= Len(updates') + 1
        /\ lastUpdateID <= Len(updates')
        /\ pc = "polling" => lastUpdateID + 1 <= asked
    BY <1>2, <1>3 DEF IInv, OffsetsSound, Offset
  <2> QED BY <1>2, <2>1, <2>2 DEF OffsetsSound, Offset, Examined
<1>7. BatchSound'
  <2>1. ASSUME NEW i \in batch, NEW j \in 1..Len(updates'), j < i
        PROVE  j \in 1..Len(updates)
    BY <2>1, <1>2, <1>3
  <2> QED BY <1>2, <1>3, <2>1 DEF IInv, BatchSound, Examined
<1>8. KeysSound'
  <2>1. \A i \in 1..Len(updates') : updates'[i] # None => updates'[i].key <= process'
    BY <1>1, <1>2, <1>3 DEF IInv, KeysSound
  <2>2. ASSUME NEW n \in 1..Len(handled), NEW i \in 1..Len(updates'),
               updates'[i] # None, handled[n].by < updates'[i].key
        PROVE  handled[n].id < i
    <3>1. CASE i \in 1..Len(updates)
      BY <2>2, <3>1, <1>3 DEF IInv, KeysSound
    <3>2. CASE i = Len(updates')
      BY <3>2, <1>2, <1>3, <1>4
    <3> QED BY <1>3, <3>1, <3>2
  <2> QED BY <1>2, <2>1, <2>2 DEF IInv, KeysSound
<1>9. HandledGenuine' /\ HandledInOrder'
  BY <1>2, <1>3, <1>4 DEF IInv, HandledGenuine, HandledInOrder
<1> QED BY <1>5, <1>6, <1>7, <1>8, <1>9 DEF IInv

(* Taking the next update of a response: it is examined, and everything     *)
(* that stays lies above it.                                                *)
LEMMA ExamineStep ==
  ASSUME IInv, NEW i \in 1..Len(updates), Examine(i), HandledInOrder', HandledGenuine',
         lastUpdateID' = Seen(i) \/ (lastUpdateID' = lastUpdateID /\ updates[i] = None),
         handled' = handled \/ (handled' = Append(handled, [id |-> i, by |-> process])
                                /\ updates[i] # None /\ updates[i].key = process)
  PROVE  IInv'
<1>1. /\ Len(updates) \in Nat /\ confirmed \in Nat /\ asked \in Nat /\ lastUpdateID \in Nat
      /\ batch \subseteq 1..Len(updates) /\ process \in Nat /\ process \in Processes
  BY DEF IInv, TypeOK, Processes
<1>2. /\ batch' = batch \ {i} /\ examined' = examined \cup {<<process, i>>}
      /\ UNCHANGED <<updates, confirmed, asked, pc, cancelled, process>>
      /\ pc = "examining" /\ i \in batch /\ \A j \in batch : i <= j
  BY DEF Examine, IsNext, telegram
<1>3. /\ \A j \in 1..Len(updates) : Examined(j) => Examined(j)'
      /\ Examined(i)'
  BY <1>1, <1>2 DEF Examined
<1>4. lastUpdateID < i /\ (\A j \in batch' : i < j)
  BY <1>1, <1>2 DEF IInv, BatchSound
<1>5. lastUpdateID' \in {i, lastUpdateID} /\ lastUpdateID' <= i /\ lastUpdateID <= lastUpdateID'
  BY <1>1, <1>4 DEF Seen, Larger
<1>6. \A j \in 1..Len(updates) : j <= i /\ updates[j] # None => Examined(j)'
  BY <1>1, <1>2, <1>3 DEF IInv, BatchSound
<1>7. handled' \in Seq([id : 1..Len(updates), by : Processes])
  <2> DEFINE S == [id : 1..Len(updates), by : Processes]
  <2>1. handled \in Seq(S)
    BY DEF IInv, TypeOK
  <2>2. [id |-> i, by |-> process] \in S
    BY <1>1
  <2> HIDE DEF S
  <2>3. handled' \in Seq(S)
    BY <2>1, <2>2
  <2> QED BY <2>3 DEF S
<1>8. TypeOK'
  BY <1>1, <1>2, <1>5, <1>7 DEF IInv, TypeOK
<1>9. OffsetsSound'
  BY <1>1, <1>2, <1>3, <1>5, <1>6 DEF IInv, OffsetsSound
<1>10. BatchSound'
  <2>1. \A j \in batch' : lastUpdateID' < j
    BY <1>1, <1>2, <1>4, <1>5
  <2>2. ASSUME NEW k \in batch', NEW j \in 1..Len(updates), j < k, updates[j] # None
        PROVE  j \in batch' \/ Examined(j)'
    BY <2>2, <1>2, <1>3 DEF IInv, BatchSound
  <2> QED BY <1>2, <2>1, <2>2 DEF BatchSound
<1>11. KeysSound'
  <2>1. \A j \in 1..Len(updates) : updates[j] # None => updates[j].key <= process /\ updates[j].key \in Nat
    BY EntryTypes DEF IInv, KeysSound, Callback
  <2>2. ASSUME NEW n \in 1..Len(handled')
        PROVE  \/ n \in 1..Len(handled) /\ handled'[n] = handled[n]
               \/ handled'[n] = [id |-> i, by |-> process] /\ lastUpdateID' = i
    <3>1. Len(handled) \in Nat /\ handled \in Seq([id : 1..Len(updates), by : Processes])
      BY DEF IInv, TypeOK
    <3>2. CASE handled' = handled
      BY <3>2
    <3>3. CASE handled' # handled
      <4>1. handled' = Append(handled, [id |-> i, by |-> process]) /\ lastUpdateID' = i
        BY <3>3, <1>1, <1>4, <1>5 DEF Seen, Larger
      <4> QED BY <3>1, <4>1
    <3> QED BY <3>2, <3>3
  <2>3. ASSUME NEW n \in 1..Len(handled')
        PROVE  /\ handled'[n].by <= process
               /\ handled'[n].by = process => handled'[n].id <= lastUpdateID'
               /\ \A j \in 1..Len(updates) :
                    updates[j] # None /\ handled'[n].by < updates[j].key => handled'[n].id < j
    <3>1. CASE n \in 1..Len(handled) /\ handled'[n] = handled[n]
      <4>1. handled[n].id \in Nat
        BY <3>1, EntryTypes DEF IInv
      <4> QED BY <3>1, <4>1, <1>1, <1>5 DEF IInv, KeysSound
    <3>2. CASE handled'[n] = [id |-> i, by |-> process] /\ lastUpdateID' = i
      BY <3>2, <1>1, <2>1
    <3> QED BY <2>2, <3>1, <3>2
  <2> QED BY <1>2, <2>1, <2>3 DEF KeysSound
<1> QED BY <1>8, <1>9, <1>10, <1>11 DEF IInv

LEMMA SkipStep == ASSUME IInv, NEW i \in 1..Len(updates), Skip(i) PROVE IInv'
<1>1. /\ Examine(i) /\ updates[i] = None
      /\ UNCHANGED <<updates, lastUpdateID, handled>>
  BY DEF Skip, Examine, telegram
<1>2. HandledInOrder' /\ HandledGenuine'
  BY <1>1 DEF IInv, HandledInOrder, HandledGenuine
<1> QED BY <1>1, <1>2, ExamineStep

LEMMA DiscardStep == ASSUME IInv, NEW i \in 1..Len(updates), Discard(i) PROVE IInv'
<1>1. /\ Examine(i) /\ lastUpdateID' = Seen(i)
      /\ UNCHANGED <<updates, handled>>
  BY DEF Discard, Examine, telegram
<1>2. HandledInOrder' /\ HandledGenuine'
  BY <1>1 DEF IInv, HandledInOrder, HandledGenuine
<1> QED BY <1>1, <1>2, ExamineStep

(* A press handed over is later than all before it: this process has seen   *)
(* only lower update_ids, and earlier processes handled only presses made   *)
(* before its key existed.                                                  *)
LEMMA HandleStep == ASSUME IInv, NEW i \in 1..Len(updates), Handle(i) PROVE IInv'
<1>1. /\ Examine(i) /\ lastUpdateID' = Seen(i) /\ UNCHANGED updates
      /\ handled' = Append(handled, [id |-> i, by |-> process])
      /\ updates[i] # None /\ Genuine(updates[i])
  BY DEF Handle, Examine, telegram
<1>2. updates[i] = [user |-> Operator, chat |-> OperatorChat, key |-> process]
  <2>1. updates[i] \in Callback
    BY <1>1, EntryTypes DEF IInv
  <2> QED BY <1>1, <2>1 DEF Genuine, validateCallback, decodeCallbackData, Callback
<1>3. Len(handled) \in Nat /\ handled \in Seq([id : 1..Len(updates), by : Processes])
  BY DEF IInv, TypeOK
<1>4. /\ Len(handled') = Len(handled) + 1
      /\ \A n \in 1..Len(handled) : handled'[n] = handled[n]
      /\ handled'[Len(handled')] = [id |-> i, by |-> process]
      /\ \A n \in 1..Len(handled') : n \in 1..Len(handled) \/ n = Len(handled')
  BY <1>1, <1>3
<1>5. ASSUME NEW n \in 1..Len(handled)
      PROVE  handled[n].id < i
  <2>1. handled[n].id \in Nat /\ handled[n].by \in Nat /\ process \in Nat
    BY EntryTypes DEF IInv, TypeOK, Processes
  <2>2. CASE handled[n].by = process
    <3>1. handled[n].id <= lastUpdateID /\ lastUpdateID < i /\ lastUpdateID \in Nat
      BY <1>1, <2>2 DEF Examine, IsNext, IInv, TypeOK, KeysSound, BatchSound
    <3> QED BY <2>1, <3>1
  <2>3. CASE handled[n].by < process
    BY <1>1, <1>2, <2>3 DEF IInv, KeysSound
  <2> QED BY <2>1, <2>2, <2>3 DEF IInv, KeysSound
<1>6. HandledInOrder'
  <2>1. ASSUME NEW m \in 1..Len(handled'), NEW n \in 1..Len(handled'), m < n
        PROVE  handled'[m].id < handled'[n].id
    <3>1. CASE n \in 1..Len(handled)
      <4>1. m \in 1..Len(handled)
        BY <1>3, <2>1, <3>1
      <4> QED BY <1>4, <2>1, <3>1, <4>1 DEF IInv, HandledInOrder
    <3>2. CASE n = Len(handled')
      <4>1. m \in 1..Len(handled)
        BY <1>3, <1>4, <2>1, <3>2
      <4> QED BY <1>4, <1>5, <3>2, <4>1
    <3> QED BY <1>4, <3>1, <3>2
  <2> QED BY <2>1 DEF HandledInOrder
<1>7. HandledGenuine'
  BY <1>1, <1>2, <1>4 DEF IInv, HandledGenuine
<1> QED BY <1>1, <1>2, <1>6, <1>7, ExamineStep

-----------------------------------------------------------------------------
(* The invariant holds throughout: the feed of presses is in order, free of *)
(* repetitions, genuine and without gaps, for any number of updates,        *)
(* processes and any size of a response.                                    *)
THEOREM Invariance == Spec => []IInv
<1>1. Init => IInv
  BY InitIInv
<1>2. IInv /\ [Next]_vars => IInv'
  <2> SUFFICES ASSUME IInv, [Next]_vars PROVE IInv'
    OBVIOUS
  <2>1. CASE QueueUpdate
    BY <2>1, QueueUpdateStep
  <2>2. CASE LateRequest
    BY <2>2, LateRequestStep
  <2>3. CASE Poll
    BY <2>3, PollStep
  <2>4. CASE Answered
    BY <2>4, AnsweredStep
  <2>5. CASE PollFails \/ BatchDone \/ Cancel \/ PollExit
    BY <2>5, PauseStep
  <2>6. ASSUME NEW i \in 1..Len(updates), Skip(i) \/ Discard(i) \/ Handle(i)
        PROVE  IInv'
    BY <2>6, SkipStep, DiscardStep, HandleStep
  <2>7. CASE Restart
    BY <2>7, RestartStep
  <2>8. CASE UNCHANGED vars
    BY <2>8 DEF vars, IInv, TypeOK, OffsetsSound, Offset, BatchSound, KeysSound,
                HandledGenuine, HandledInOrder, Examined
  <2> QED BY <2>1, <2>2, <2>3, <2>4, <2>5, <2>6, <2>7, <2>8 DEF Next
<1> QED BY <1>1, <1>2, PTL DEF Spec

(* Every press reaches processCallback at most once and in order. *)
THEOREM HandledOnce == Spec => []HandledInOrder
<1>1. IInv => HandledInOrder
  BY DEF IInv
<1> QED BY <1>1, Invariance, PTL

(* Only the operator's presses of this process's buttons are handled. *)
THEOREM GenuineOnly == Spec => []HandledGenuine
<1>1. IInv => HandledGenuine
  BY DEF IInv
<1> QED BY <1>1, Invariance, PTL

(* Telegram drops no press unexamined. *)
THEOREM NothingLost == Spec => []NoPressLost
<1>1. IInv => NoPressLost
  <2> SUFFICES ASSUME IInv PROVE NoPressLost
    OBVIOUS
  <2>1. ASSUME NEW i \in 1..Len(updates), i < confirmed, updates[i] # None
        PROVE  Examined(i)
    <3>1. i < asked
      BY <2>1 DEF IInv, TypeOK, OffsetsSound
    <3> QED BY <2>1, <3>1 DEF IInv, OffsetsSound
  <2> QED BY <2>1 DEF NoPressLost
<1> QED BY <1>1, Invariance, PTL
-----------------------------------------------------------------------------
(* What the liveness properties rest on.                                    *)

(* Only processes so far have examined anything, and the running one has    *)
(* counted every callback it has examined.                                  *)
ExaminedSound ==
  /\ \A p \in Processes, i \in 1..Len(updates) : <<p, i>> \in examined => p <= process
  /\ \A i \in 1..Len(updates) :
       <<process, i>> \in examined /\ updates[i] # None => i <= lastUpdateID

(* Nothing that was asked, dropped, examined or handled is taken back; a     *)
(* process counts upwards, and examines a callback it has already examined   *)
(* never again.                                                              *)
FeedAdvances ==
  /\ asked' >= asked /\ confirmed' >= confirmed
  /\ \A i \in 1..Len(updates) : i \in 1..Len(updates') /\ updates'[i] = updates[i]
  /\ examined \subseteq examined'
  /\ \A n \in 1..Len(handled) : n \in 1..Len(handled') /\ handled'[n] = handled[n]
  /\ process' = process => lastUpdateID' >= lastUpdateID
  /\ \A i \in 1..Len(updates) :
       (Skip(i) \/ Discard(i) \/ Handle(i)) /\ updates[i] # None =>
         <<process, i>> \notin examined

(* As long as fewer than Limit updates carry no callback, the next answer   *)
(* holds a press the running process has not counted, whenever there is one *)
(* that nobody has examined.                                                *)
AnswersServe ==
  Cardinality(Others) < Limit =>
    \A i \in 1..Len(updates) :
      updates[i] # None /\ ~Examined(i) =>
        \E j \in Oldest(Offset) : updates[j] # None /\ lastUpdateID < j /\ j <= i

StopRank == [polling |-> 0, examining |-> 1, idle |-> 2, stopped |-> 3]

(* Once its context is cancelled, the goroutine only moves towards its end: *)
(* it starts no further poll and takes in no further response.              *)
PollerWindsDown ==
  cancelled /\ process' = process =>
    /\ cancelled'
    /\ StopRank[pc'] >= StopRank[pc]
    /\ pc = "examining" => batch' \subseteq batch

(* Among numbers, some are least.                                          *)
LEMMA LeastNumber ==
  ASSUME NEW T, T \subseteq Nat, T # {}
  PROVE  \E m \in T : \A n \in T : m <= n
<1> DEFINE R == {ss \in Nat \X Nat : ss[1] < ss[2]}
<1>1. IsWellFoundedOn(R, Nat)
  BY NatLessThanWellFounded DEF OpToRel
<1>2. PICK m \in T : \A n \in T : ~(<<n, m>> \in R)
  <2> HIDE DEF R
  <2> QED BY <1>1, WFMin
<1>3. ASSUME NEW n \in T PROVE m <= n
  <2>1. n \in Nat /\ m \in Nat
    OBVIOUS
  <2>2. <<n, m>> \in Nat \X Nat /\ <<n, m>>[1] = n /\ <<n, m>>[2] = m
    BY <2>1
  <2>3. ~(n < m)
    BY <1>2, <2>2
  <2> QED BY <2>1, <2>3
<1> QED BY <1>3

(* What a step that examines an update does.                                *)
LEMMA ExamineMoves ==
  ASSUME IInv, NEW i \in 1..Len(updates), Skip(i) \/ Discard(i) \/ Handle(i)
  PROVE  /\ i \in batch /\ lastUpdateID < i
         /\ batch' \subseteq batch /\ examined' = examined \cup {<<process, i>>}
         /\ UNCHANGED <<updates, confirmed, asked, pc, cancelled, process>>
         /\ lastUpdateID' >= lastUpdateID
         /\ updates[i] # None => lastUpdateID' >= i
<1>1. /\ i \in batch /\ batch' \subseteq batch /\ examined' = examined \cup {<<process, i>>}
      /\ UNCHANGED <<updates, confirmed, asked, pc, cancelled, process>>
  BY DEF Skip, Discard, Handle, Examine, IsNext, telegram
<1>2. lastUpdateID \in Nat /\ lastUpdateID < i
  BY <1>1 DEF IInv, TypeOK, BatchSound
<1>3. \/ updates[i] = None /\ lastUpdateID' = lastUpdateID
      \/ lastUpdateID' = i
  BY <1>2 DEF Skip, Discard, Handle, Seen, Larger
<1> QED BY <1>1, <1>2, <1>3

LEMMA ExaminedStep ==
  ASSUME IInv, ExaminedSound, [Next]_vars
  PROVE  ExaminedSound'
<1>1. /\ Len(updates) \in Nat /\ process \in Processes /\ lastUpdateID \in Nat
      /\ examined \subseteq Processes \X (1..Len(updates))
      /\ \A p \in Processes : p \in Nat
  BY DEF IInv, TypeOK, Processes
<1>2. ASSUME UNCHANGED <<updates, process, examined, lastUpdateID>>
      PROVE  ExaminedSound'
  BY <1>2 DEF ExaminedSound
<1>3. CASE QueueUpdate
  <2>1. UNCHANGED <<process, examined, lastUpdateID>>
    BY <1>3 DEF QueueUpdate
  <2>2. \A i \in 1..Len(updates) : updates'[i] = updates[i]
    <3>1. PICK u \in Callback \cup {None} : updates' = Append(updates, u)
      BY <1>3 DEF QueueUpdate
    <3>2. updates \in Seq(Callback \cup {None})
      BY DEF IInv, TypeOK
    <3> QED BY <3>1, <3>2
  <2>3. \A p, i : <<p, i>> \in examined => i \in 1..Len(updates)
    BY <1>1
  <2> QED BY <2>1, <2>2, <2>3 DEF ExaminedSound
<1>4. CASE Restart
  <2>1. process' = process + 1 /\ UNCHANGED <<updates, examined>>
    BY <1>4 DEF Restart, telegram
  <2>2. \A p \in Processes, i \in 1..Len(updates) :
          <<p, i>> \in examined => p <= process /\ p <= process' /\ p # process'
    BY <1>1, <2>1 DEF ExaminedSound
  <2>3. process' \in Processes
    BY <1>1, <1>4 DEF Restart, Processes
  <2> QED BY <2>1, <2>2, <2>3 DEF ExaminedSound
<1>5. ASSUME NEW i \in 1..Len(updates), Skip(i) \/ Discard(i) \/ Handle(i)
      PROVE  ExaminedSound'
  <2>1. /\ examined' = examined \cup {<<process, i>>} /\ UNCHANGED <<updates, process>>
        /\ lastUpdateID' >= lastUpdateID /\ (updates[i] # None => lastUpdateID' >= i)
    BY <1>5, ExamineMoves
  <2>2. lastUpdateID' \in Nat
    BY <1>1, <1>5 DEF Skip, Discard, Handle, Seen, Larger
  <2>3. ASSUME NEW j \in 1..Len(updates), <<process, j>> \in examined', updates[j] # None
        PROVE  j <= lastUpdateID'
    BY <1>1, <2>1, <2>2, <2>3 DEF ExaminedSound
  <2>4. ASSUME NEW p \in Processes, NEW j \in 1..Len(updates), <<p, j>> \in examined'
        PROVE  p <= process
    BY <1>1, <2>1, <2>4 DEF ExaminedSound
  <2> QED BY <2>1, <2>3, <2>4 DEF ExaminedSound
<1>6. CASE LateRequest \/ Poll \/ Answered \/ PollFails \/ BatchDone \/ Cancel \/ PollExit
           \/ UNCHANGED vars
  BY <1>2, <1>6 DEF LateRequest, Poll, Answered, PollFails, BatchDone, Cancel, PollExit,
     telegram, vars
<1> QED BY <1>3, <1>4, <1>5, <1>6 DEF Next

LEMMA FeedStep ==
  ASSUME IInv, ExaminedSound, [Next]_vars
  PROVE  FeedAdvances
<1>1. /\ Len(updates) \in Nat /\ confirmed \in Nat /\ asked \in Nat /\ lastUpdateID \in Nat
      /\ confirmed <= asked
      /\ Len(handled) \in Nat /\ handled \in Seq([id : 1..Len(updates), by : Processes])
  BY DEF IInv, TypeOK, OffsetsSound
<1>2. asked' >= asked /\ confirmed' >= confirmed
  <2>1. CASE UNCHANGED <<asked, confirmed>>
    BY <1>1, <2>1
  <2>2. CASE LateRequest \/ Poll \/ Answered
    BY <1>1, <2>2 DEF LateRequest, Poll, Answered, Larger, Offset, telegram
  <2>3. CASE QueueUpdate \/ PollFails \/ BatchDone \/ Cancel \/ PollExit \/ Restart \/ UNCHANGED vars
    BY <2>1, <2>3 DEF QueueUpdate, PollFails, BatchDone, Cancel, PollExit, Restart, telegram, vars
  <2> QED BY <2>1, <2>2, <2>3, ExamineMoves DEF Next
<1>3. \A i \in 1..Len(updates) : i \in 1..Len(updates') /\ updates'[i] = updates[i]
  <2>1. CASE UNCHANGED updates
    BY <2>1
  <2>2. CASE QueueUpdate
    <3>1. PICK u \in Callback \cup {None} : updates' = Append(updates, u)
      BY <2>2 DEF QueueUpdate
    <3>2. updates \in Seq(Callback \cup {None})
      BY DEF IInv, TypeOK
    <3>3. Len(updates') = Len(updates) + 1 /\ \A i \in 1..Len(updates) : updates'[i] = updates[i]
      BY <3>1, <3>2
    <3> QED BY <1>1, <3>3
  <2>3. CASE LateRequest \/ Poll \/ Answered \/ PollFails \/ BatchDone \/ Cancel \/ PollExit
             \/ Restart \/ UNCHANGED vars
    BY <2>1, <2>3 DEF LateRequest, Poll, Answered, PollFails, BatchDone, Cancel, PollExit,
       Restart, telegram, vars
  <2> QED BY <2>1, <2>2, <2>3, ExamineMoves DEF Next
<1>4. examined \subseteq examined'
  <2>1. CASE UNCHANGED examined
    BY <2>1
  <2>2. CASE QueueUpdate \/ LateRequest \/ Poll \/ Answered \/ PollFails \/ BatchDone \/ Cancel
             \/ PollExit \/ Restart \/ UNCHANGED vars
    BY <2>1, <2>2 DEF QueueUpdate, LateRequest, Poll, Answered, PollFails, BatchDone, Cancel,
       PollExit, Restart, vars
  <2> QED BY <2>2, ExamineMoves DEF Next
<1>5. \A n \in 1..Len(handled) : n \in 1..Len(handled') /\ handled'[n] = handled[n]
  <2>1. CASE UNCHANGED handled
    BY <2>1
  <2>2. ASSUME NEW i \in 1..Len(updates), Handle(i)
        PROVE  \A n \in 1..Len(handled) : n \in 1..Len(handled') /\ handled'[n] = handled[n]
    <3>1. Len(handled') = Len(handled) + 1 /\ \A n \in 1..Len(handled) : handled'[n] = handled[n]
      BY <1>1, <2>2 DEF Handle
    <3> QED BY <1>1, <3>1
  <2>3. CASE QueueUpdate \/ LateRequest \/ Poll \/ Answered \/ PollFails \/ BatchDone \/ Cancel
             \/ PollExit \/ Restart \/ UNCHANGED vars
    BY <2>1, <2>3 DEF QueueUpdate, LateRequest, Poll, Answered, PollFails, BatchDone, Cancel,
       PollExit, Restart, vars
  <2>4. ASSUME NEW i \in 1..Len(updates), Skip(i) \/ Discard(i) PROVE UNCHANGED handled
    BY <2>4 DEF Skip, Discard
  <2> QED BY <2>1, <2>2, <2>3, <2>4 DEF Next
<1>6. ASSUME process' = process PROVE lastUpdateID' >= lastUpdateID
  <2>1. ~Restart
    BY <1>6 DEF Restart, IInv, TypeOK, Processes
  <2>2. CASE QueueUpdate \/ LateRequest \/ Poll \/ Answered \/ PollFails \/ BatchDone \/ Cancel
             \/ PollExit \/ UNCHANGED vars
    <3>1. UNCHANGED lastUpdateID
      BY <2>2 DEF QueueUpdate, LateRequest, Poll, Answered, PollFails, BatchDone, Cancel,
         PollExit, vars
    <3> QED BY <1>1, <3>1
  <2> QED BY <2>1, <2>2, ExamineMoves DEF Next
<1>7. ASSUME NEW i \in 1..Len(updates), Skip(i) \/ Discard(i) \/ Handle(i), updates[i] # None
      PROVE  <<process, i>> \notin examined
  <2>1. lastUpdateID < i
    BY <1>7, ExamineMoves
  <2> QED BY <1>1, <1>7, <2>1 DEF ExaminedSound
<1> QED BY <1>2, <1>3, <1>4, <1>5, <1>6, <1>7 DEF FeedAdvances

(* The bookkeeping of the feed only moves forward, whatever is lost, late   *)
(* or repeated and however often the process dies: Telegram's offsets, the  *)
(* running process's lastUpdateID, what was examined and what was handled;  *)
(* and no process works through one callback twice.                         *)
THEOREM FeedForward == Spec => [][FeedAdvances]_vars
<1>1. Init => ExaminedSound
  BY DEF Init, ExaminedSound
<1>2. IInv /\ ExaminedSound /\ [Next]_vars => ExaminedSound'
  BY ExaminedStep
<1>3. Spec => []ExaminedSound
  BY <1>1, <1>2, Invariance, PTL DEF Spec
<1>4. IInv /\ ExaminedSound /\ [Next]_vars => [FeedAdvances]_vars
  BY FeedStep
<1> QED BY <1>3, <1>4, Invariance, PTL DEF Spec

LEMMA AnswerServes ==
  ASSUME IInv, Cardinality(Others) < Limit,
         NEW i \in 1..Len(updates), updates[i] # None, ~Examined(i)
  PROVE  \E j \in Oldest(Offset) : updates[j] # None /\ lastUpdateID < j /\ j <= i
<1> DEFINE T == {k \in 1..Len(updates) : updates[k] # None /\ k >= confirmed /\ k >= Offset}
<1>1. /\ Len(updates) \in Nat /\ confirmed \in Nat /\ asked \in Nat /\ lastUpdateID \in Nat
      /\ confirmed <= asked
  BY DEF IInv, TypeOK, OffsetsSound
<1>2. i \in T
  <2>1. ~(i < asked) /\ ~(i <= lastUpdateID)
    BY DEF IInv, OffsetsSound
  <2> QED BY <1>1, <2>1 DEF Offset
<1>3. PICK j \in T : \A k \in T : j <= k
  <2>1. T \subseteq Nat /\ T # {}
    BY <1>2
  <2> HIDE DEF T
  <2> QED BY <2>1, LeastNumber
<1>4. j \in Oldest(Offset)
  <2> DEFINE Before == {k \in Kept : Offset <= k /\ k < j}
  <2>1. Before \subseteq Others
    <3> SUFFICES ASSUME NEW k \in Before, updates[k] # None PROVE FALSE
      BY DEF Others, Kept
    <3>1. k \in T
      BY <1>1 DEF Kept, Offset
    <3> QED BY <1>1, <1>3, <3>1 DEF Kept
  <2>2. IsFiniteSet(Others)
    <3>1. IsFiniteSet(1..Len(updates))
      BY <1>1, FS_Interval
    <3> QED BY <3>1, FS_Subset DEF Others
  <2>3. Cardinality(Before) <= Cardinality(Others) /\ IsFiniteSet(Before)
    BY <2>1, <2>2, FS_Subset
  <2>4. Cardinality(Before) \in Nat /\ Cardinality(Others) \in Nat
    BY <2>2, <2>3, FS_CardinalityType
  <2>5. Cardinality(Before) < Limit
    BY <2>3, <2>4
  <2> QED BY <1>3, <2>5 DEF Oldest, Kept
<1>5. updates[j] # None /\ lastUpdateID < j /\ j <= i
  BY <1>1, <1>2, <1>3 DEF Offset
<1> QED BY <1>4, <1>5

(* Why every press is looked at in the end, as far as it does not need      *)
(* fairness: at every moment the next answer of getUpdates would bring the  *)
(* loop a press it has not counted, while one is outstanding.  The          *)
(* condition is what updates without a callback can break: they are never   *)
(* confirmed on their own (telegram.go, getUpdates), and Limit of them in   *)
(* front of a press hide it.                                                *)
THEOREM PollServes == Spec => []AnswersServe
<1>1. IInv => AnswersServe
  BY AnswerServes DEF AnswersServe
<1> QED BY <1>1, Invariance, PTL

(* Why the goroutine Close waits for ends, as far as it does not need       *)
(* fairness: from the cancellation on it starts nothing new, whatever       *)
(* Telegram answers or queues.                                              *)
THEOREM PollerForward == Spec => [][PollerWindsDown]_vars
<1>1. IInv /\ [Next]_vars => [PollerWindsDown]_vars
  <2> SUFFICES ASSUME IInv, [Next]_vars, cancelled, process' = process
               PROVE  /\ cancelled'
                      /\ StopRank[pc'] >= StopRank[pc]
                      /\ pc = "examining" => batch' \subseteq batch
    BY DEF PollerWindsDown
  <2>1. pc \in States /\ ~Restart
    BY DEF IInv, TypeOK, Restart, Processes
  <2>2. CASE UNCHANGED <<cancelled, pc, batch>>
    BY <2>1, <2>2 DEF StopRank, States
  <2>3. CASE Answered \/ PollFails \/ BatchDone \/ PollExit
    <3>1. cancelled' = cancelled /\ (pc = "examining" => batch' = batch)
      BY <2>3 DEF Answered, PollFails, BatchDone, PollExit
    <3>2. StopRank[pc'] >= StopRank[pc]
      <4>1. \/ pc = "polling" /\ pc' \in {"examining", "idle"}
            \/ pc = "examining" /\ pc' = "idle"
            \/ pc = "idle" /\ pc' = "stopped"
        BY <2>3 DEF Answered, PollFails, BatchDone, PollExit
      <4> QED BY <4>1 DEF StopRank
    <3> QED BY <3>1, <3>2
  <2>4. ASSUME NEW i \in 1..Len(updates), Skip(i) \/ Discard(i) \/ Handle(i)
        PROVE  /\ cancelled'
               /\ StopRank[pc'] >= StopRank[pc]
               /\ pc = "examining" => batch' \subseteq batch
    <3>1. UNCHANGED <<pc, cancelled>> /\ batch' \subseteq batch
      BY <2>4, ExamineMoves
    <3> QED BY <2>1, <3>1 DEF StopRank, States
  <2>5. CASE QueueUpdate \/ LateRequest \/ UNCHANGED vars
    BY <2>2, <2>5 DEF QueueUpdate, LateRequest, vars
  <2>6. ~Poll /\ ~Cancel
    BY DEF Poll, Cancel
  <2> QED BY <2>1, <2>3, <2>4, <2>5, <2>6 DEF Next
<1> QED BY <1>1, Invariance, PTL DEF Spec
=============================================================================
