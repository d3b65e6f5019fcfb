------------------------ MODULE TelegramGate_proofs ------------------------
(***************************************************************************)
(* Proofs about the Telegram gate, for every set of devices and callers,    *)
(* every limit and every TTL.  IInv is inductive; the theorems at the end    *)
(* are what it gives.                                                        *)
(***************************************************************************)
EXTENDS TelegramGate, FiniteSetTheorems, TLAPS

LEMMA HorizonBounds ==
  Horizon \in Nat /\ Horizon > ApprovalTTL /\ Horizon > PromptInterval
BY TTLAssumption DEF Horizon

LEMMA InitIInv == Init => IInv
<1> SUFFICES ASSUME Init PROVE IInv
  OBVIOUS
<1> USE NoneAssumption, LimitsAssumption, TTLAssumption, HorizonBounds
<1>1. TypeOK
  <2>1. NoRequest \in RequestType
    BY DEF NoRequest, RequestType, Decisions
  <2>2. request \in [Requests -> RequestType]
    BY <2>1 DEF Init
  <2>3. caller \in [Callers -> CallerType]
    BY DEF Init, CallerType
  <2>4. /\ lastPrompt \in [Devices -> {NoEntry} \cup 0..PromptInterval]
        /\ approvedCache \in [Devices -> {NoEntry} \cup 0..ApprovalCacheTTL]
        /\ pendingRequests \in [Devices -> Requests \cup {None}]
        /\ sender \in [Requests -> {"exited", "sending", "awaiting", "failing"}]
    BY DEF Init
  <2>5. /\ closed \in BOOLEAN /\ polling \in BOOLEAN /\ secrets \in BOOLEAN
        /\ closer \in {"open", "draining", "zeroed", "closed"}
        /\ approvals \subseteq Requests /\ withdrawn \subseteq Devices
    BY Zenon DEF Init
  <2>6. sends \in 0..MaxConcurrentSends
    BY DEF Init
  <2> QED  BY <2>2, <2>3, <2>4, <2>5, <2>6 DEF TypeOK
<1>2. WaitersCounted
  <2> SUFFICES ASSUME NEW r \in Requests
               PROVE request[r].waiters = Cardinality(Waiting(r))
    BY DEF WaitersCounted
  <2>1. Waiting(r) = {}
    BY DEF Init, Waiting
  <2> QED  BY <2>1, FS_EmptySet DEF Init, NoRequest
<1>3. SendsCounted
  <2>1. {r \in Requests : sender[r] = "sending"} = {}
    BY DEF Init
  <2> QED  BY <2>1, FS_EmptySet DEF Init, SendsCounted
<1>4. CallerSound
  BY DEF Init, CallerSound
<1>5. PendingSound
  BY DEF Init, PendingSound, IsPending, NoRequest
<1>6. CloserSound /\ SecretsOutliveUsers /\ ApprovedByOwnButton
  BY DEF Init, CloserSound, SecretsOutliveUsers, ApprovedByOwnButton, NoRequest
<1> QED  BY <1>1, <1>2, <1>3, <1>4, <1>5, <1>6 DEF IInv

(***************************************************************************)
(* Facts about the helpers.                                                 *)
(***************************************************************************)

\* A Check that waits is counted, so its request has at least one waiter.
LEMMA WaiterCounted ==
  ASSUME IInv, NEW c \in Callers, caller[c].pc = "waiting"
  PROVE  /\ caller[c].request \in Requests
         /\ request[caller[c].request].waiters \in Nat \ {0}
<1> DEFINE r == caller[c].request
<1>1. r \in Requests
  BY DEF IInv, CallerSound
<1>2. c \in Waiting(r) /\ Waiting(r) \subseteq Callers
  BY DEF Waiting
<1>3. IsFiniteSet(Waiting(r))
  BY <1>2, FiniteAssumption, FS_Subset
<1>4. Cardinality(Waiting(r)) \in Nat /\ Cardinality(Waiting(r)) # 0
  BY <1>2, <1>3, FS_CardinalityType, FS_EmptySet
<1> QED  BY <1>1, <1>4 DEF IInv, WaitersCounted

\* A goroutine that sends holds a token.
LEMMA SenderCounted ==
  ASSUME IInv, NEW r \in Requests, sender[r] = "sending"
  PROVE  sends \in Nat \ {0}
<1> DEFINE S == {q \in Requests : sender[q] = "sending"}
<1>1. r \in S /\ S \subseteq Requests
  OBVIOUS
<1>2. IsFiniteSet(S)
  BY <1>1, FiniteAssumption, FS_Subset
<1>3. Cardinality(S) \in Nat /\ Cardinality(S) # 0
  BY <1>1, <1>2, FS_CardinalityType, FS_EmptySet
<1> QED  BY <1>3 DEF IInv, SendsCounted

LEMMA PurgeTypes ==
  ASSUME TypeOK
  PROVE  /\ LiveCache \in [Devices -> {NoEntry} \cup 0..ApprovalCacheTTL]
         /\ LivePrompts \in [Devices -> {NoEntry} \cup 0..PromptInterval]
BY DEF TypeOK, LiveCache, LivePrompts

\* finishPendingLocked keeps the types, whatever the request.
LEMMA FinishTypes ==
  ASSUME TypeOK, NEW r \in Requests, NEW decision \in Decisions
  PROVE  /\ Finished(r, decision) \in RequestType
         /\ PendingWithout(r) \in [Devices -> Requests \cup {None}]
<1>1. request[r] \in RequestType
  BY DEF TypeOK
<1>2. [request[r] EXCEPT !.decision = decision, !.done = TRUE] \in RequestType
  BY <1>1 DEF RequestType
<1>3. PendingWithout(r) \in [Devices -> Requests \cup {None}]
  BY DEF TypeOK, PendingWithout
<1> QED  BY <1>1, <1>2, <1>3 DEF Finished

\* A saturating age stays within its bound.
LEMMA OlderType ==
  ASSUME NEW bound \in Nat, NEW age \in {NoEntry} \cup 0..bound
  PROVE  /\ Older(age, bound) \in {NoEntry} \cup 0..bound
         /\ age \in 0..bound => Older(age, bound) \in 0..bound
BY DEF Older, NoEntry

LEMMA CacheType ==
  ASSUME TypeOK, NEW d
  PROVE  CacheApproval(d) \in [Devices -> {NoEntry} \cup 0..ApprovalCacheTTL]
<1>1. ApprovalCacheTTL \in {NoEntry} \cup 0..ApprovalCacheTTL
  BY TTLAssumption
<1>2. [approvedCache EXCEPT ![d] = ApprovalCacheTTL]
        \in [Devices -> {NoEntry} \cup 0..ApprovalCacheTTL]
  BY <1>1 DEF TypeOK
<1> QED  BY <1>2 DEF CacheApproval, TypeOK

(***************************************************************************)
(* One lemma per part of IInv, one step per action.                         *)
(***************************************************************************)

LEMMA TypeStep == IInv /\ [Next]_vars => TypeOK'
<1> SUFFICES ASSUME IInv, [Next]_vars PROVE TypeOK'
  OBVIOUS
<1> USE NoneAssumption, LimitsAssumption, TTLAssumption, HorizonBounds
<1> USE DEF IInv
<1>1. ASSUME NEW c \in Callers, Check(c) PROVE TypeOK'
  <2>1. ASSUME NEW d \in Devices, CheckEnter(c, d) PROVE TypeOK'
    BY <2>1 DEF CheckEnter, TypeOK, CallerType
  <2>2. ASSUME NEW res \in {"Denied", "Error"}, CheckReject(c, res) PROVE TypeOK'
    BY <2>2 DEF CheckReject, Return, TypeOK, CallerType
  <2>3. ASSUME CancelCtx(c) PROVE TypeOK'
    <3>1. [caller[c] EXCEPT !.cancelled = TRUE] \in CallerType
      BY DEF TypeOK, CallerType
    <3> QED  BY <2>3, <3>1 DEF CancelCtx, TypeOK
  <2> QED  BY <1>1, <2>1, <2>2, <2>3 DEF Check
<1>2. ASSUME NEW c \in Callers, Admit(c) PROVE TypeOK'
  <2>1. ASSUME AdmitClosed(c) PROVE TypeOK'
    BY <2>1 DEF AdmitClosed, Return, TypeOK, CallerType
  <2>2. ASSUME AdmitCached(c) PROVE TypeOK'
    BY <2>2, PurgeTypes DEF AdmitCached, Purge, Return, TypeOK, CallerType
  <2>3. ASSUME AdmitRefused(c) PROVE TypeOK'
    BY <2>3, PurgeTypes DEF AdmitRefused, Purge, Return, TypeOK, CallerType
  <2>4. ASSUME NEW r \in Requests, AdmitNew(c, r) PROVE TypeOK'
    <3> DEFINE d == caller[c].device
    <3>1. d \in Devices
      BY <2>4 DEF AdmitNew, CallerSound
    <3>2. request' \in [Requests -> RequestType]
      <4>1. NewRequest(d) \in RequestType
        BY <3>1 DEF NewRequest, RequestType, Decisions
      <4> QED  BY <2>4, <4>1 DEF AdmitNew, TypeOK
    <3>3. caller' \in [Callers -> CallerType]
      <4>1. [caller[c] EXCEPT !.pc = "waiting", !.request = r] \in CallerType
        BY DEF TypeOK, CallerType
      <4> QED  BY <2>4, <4>1 DEF AdmitNew, TypeOK
    <3>4. sends' \in 0..MaxConcurrentSends
      BY <2>4 DEF AdmitNew, PromptRefused, TypeOK
    <3>5. /\ lastPrompt' \in [Devices -> {NoEntry} \cup 0..PromptInterval]
          /\ approvedCache' \in [Devices -> {NoEntry} \cup 0..ApprovalCacheTTL]
      <4>1. 0 \in {NoEntry} \cup 0..PromptInterval
        OBVIOUS
      <4>2. [LivePrompts EXCEPT ![d] = 0] \in [Devices -> {NoEntry} \cup 0..PromptInterval]
        BY <4>1, PurgeTypes
      <4> QED  BY <2>4, <4>2, PurgeTypes DEF AdmitNew
    <3>6. /\ pendingRequests' \in [Devices -> Requests \cup {None}]
          /\ sender' \in [Requests -> {"exited", "sending", "awaiting", "failing"}]
          /\ approvals' \subseteq Requests /\ withdrawn' \subseteq Devices
      BY <2>4 DEF AdmitNew, TypeOK
    <3>7. UNCHANGED <<closed, polling, closer, secrets>>
      BY <2>4 DEF AdmitNew
    <3> QED  BY <3>2, <3>3, <3>4, <3>5, <3>6, <3>7 DEF TypeOK
  <2>5. ASSUME AdmitJoin(c) PROVE TypeOK'
    <3> DEFINE r == pendingRequests[caller[c].device]
    <3>1. r \in Requests
      BY <2>5 DEF AdmitJoin, CallerSound, TypeOK
    <3>2. [request[r] EXCEPT !.waiters = @ + 1] \in RequestType
      BY <3>1 DEF TypeOK, RequestType
    <3>3. request' \in [Requests -> RequestType]
      BY <2>5, <3>2 DEF AdmitJoin, TypeOK
    <3>4. [caller[c] EXCEPT !.pc = "waiting", !.request = r] \in CallerType
      BY <3>1 DEF TypeOK, CallerType
    <3>5. caller' \in [Callers -> CallerType]
      BY <2>5, <3>4 DEF AdmitJoin, TypeOK
    <3> QED  BY <2>5, <3>3, <3>5, PurgeTypes DEF AdmitJoin, Purge, TypeOK
  <2> QED  BY <1>2, <2>1, <2>2, <2>3, <2>4, <2>5 DEF Admit
<1>3. ASSUME NEW c \in Callers, Leave(c) PROVE TypeOK'
  <2> DEFINE r == caller[c].request
  <2>1. /\ r \in Requests
        /\ request[r].waiters \in Nat \ {0}
        /\ caller[c].device \in Devices
    BY <1>3, WaiterCounted DEF Leave, CallerSound
  <2>2. Finished(r, "Denied") \in RequestType
    BY <2>1, FinishTypes DEF Decisions
  <2>3. Finished(r, "Denied").waiters = request[r].waiters
    BY <2>1 DEF Finished, TypeOK, RequestType
  <2>4. [Finished(r, "Denied") EXCEPT !.waiters = @ - 1] \in RequestType
    BY <2>1, <2>2, <2>3 DEF RequestType
  <2>5. [request[r] EXCEPT !.waiters = @ - 1] \in RequestType
    <3>1. request[r] \in RequestType /\ request[r].waiters - 1 \in Nat
      BY <2>1 DEF TypeOK
    <3> QED  BY <3>1 DEF RequestType
  <2>6. request' \in [Requests -> RequestType]
    BY <1>3, <2>1, <2>4, <2>5 DEF Leave, TypeOK
  <2>7. /\ pendingRequests' \in [Devices -> Requests \cup {None}]
        /\ lastPrompt' \in [Devices -> {NoEntry} \cup 0..PromptInterval]
    BY <1>3, <2>1, FinishTypes DEF Leave, TypeOK, Decisions, PromptsAfterLastWaiter
  <2>8. Result(c, r) \in {"none", "Approved", "Denied", "Error"}
    BY <2>1 DEF Result, TypeOK, RequestType, Decisions
  <2>9. caller' \in [Callers -> CallerType]
    <3>1. PICK res \in {"none", "Approved", "Denied", "Error"} : Return(c, res)
      BY <1>3, <2>8 DEF Leave
    <3> QED  BY <3>1 DEF Return, TypeOK, CallerType
  <2>10. withdrawn' \subseteq Devices
    BY <1>3, <2>1 DEF Leave, TypeOK
  <2> QED  BY <1>3, <2>6, <2>7, <2>9, <2>10 DEF Leave, TypeOK
<1>4. ASSUME NEW r \in Requests, Send(r) PROVE TypeOK'
  <2>1. sender[r] = "sending"
    BY <1>4 DEF Send, SendOK, SendFail
  <2>2. sends' \in 0..MaxConcurrentSends
    BY <1>4, <2>1, SenderCounted DEF Send, SendOK, SendFail, TypeOK
  <2>3. sender' \in [Requests -> {"exited", "sending", "awaiting", "failing"}]
    BY <1>4 DEF Send, SendOK, SendFail, TypeOK
  <2> QED  BY <1>4, <2>2, <2>3 DEF Send, SendOK, SendFail, TypeOK
<1>5. ASSUME NEW r \in Requests, SenderExit(r) PROVE TypeOK'
  BY <1>5, FinishTypes DEF SenderExit, finishPendingLocked, TypeOK, Decisions
<1>6. ASSUME NEW r \in Requests, Callback(r) PROVE TypeOK'
  <2>1. CacheApproval(request[r].device) \in [Devices -> {NoEntry} \cup 0..ApprovalCacheTTL]
    BY CacheType
  <2>2. ASSUME CallbackApprove(r) PROVE TypeOK'
    BY <2>1, <2>2, FinishTypes DEF CallbackApprove, finishPendingLocked, TypeOK, Decisions
  <2>3. ASSUME CallbackDeny(r) PROVE TypeOK'
    BY <2>3, FinishTypes DEF CallbackDeny, finishPendingLocked, TypeOK, Decisions
  <2> QED  BY <1>6, <2>2, <2>3 DEF Callback
<1>7. ASSUME PollExit PROVE TypeOK'
  BY <1>7 DEF PollExit, TypeOK
<1>8. ASSUME Close PROVE TypeOK'
  <2>1. ASSUME CloseBegin PROVE TypeOK'
    <3>1. request' \in [Requests -> RequestType]
      BY <2>1, FinishTypes DEF CloseBegin, Decisions
    <3> QED  BY <2>1, <3>1 DEF CloseBegin, TypeOK
  <2>2. ASSUME CloseZero PROVE TypeOK'
    BY <2>2 DEF CloseZero, TypeOK
  <2>3. ASSUME CloseClear PROVE TypeOK'
    BY <2>3 DEF CloseClear, TypeOK
  <2> QED  BY <1>8, <2>1, <2>2, <2>3 DEF Close
<1>9. ASSUME Tick PROVE TypeOK'
  <2>1. ASSUME NEW r \in Requests
        PROVE  [request[r] EXCEPT !.age = Older(@, Horizon)] \in RequestType
    <3>1. request[r] \in RequestType /\ request[r].age \in 0..Horizon
      BY DEF TypeOK, RequestType
    <3>2. Older(request[r].age, Horizon) \in 0..Horizon
      BY <3>1, OlderType
    <3> QED  BY <3>1, <3>2 DEF RequestType
  <2>2. request' \in [Requests -> RequestType]
    BY <1>9, <2>1 DEF Tick
  <2>3. lastPrompt' \in [Devices -> {NoEntry} \cup 0..PromptInterval]
    BY <1>9, OlderType DEF Tick, TypeOK
  <2>4. approvedCache' \in [Devices -> {NoEntry} \cup 0..ApprovalCacheTTL]
    BY <1>9 DEF Tick, TypeOK, NoEntry
  <2> QED  BY <1>9, <2>2, <2>3, <2>4 DEF Tick, TypeOK
<1>10. CASE UNCHANGED vars
  BY <1>10 DEF vars, TypeOK
<1> QED  BY <1>1, <1>2, <1>3, <1>4, <1>5, <1>6, <1>7, <1>8, <1>9, <1>10 DEF Next

LEMMA SendsStep == IInv /\ [Next]_vars => SendsCounted'
<1> SUFFICES ASSUME IInv, [Next]_vars PROVE SendsCounted'
  OBVIOUS
<1> DEFINE S == {q \in Requests : sender[q] = "sending"}
<1>1. IsFiniteSet(S) /\ S \subseteq Requests /\ sends = Cardinality(S)
  BY FiniteAssumption, FS_Subset DEF IInv, SendsCounted
<1>2. sender \in [Requests -> {"exited", "sending", "awaiting", "failing"}]
  BY DEF IInv, TypeOK
<1>3. CASE UNCHANGED <<sends, sender>>
  BY <1>3 DEF IInv, SendsCounted
<1>4. ASSUME NEW c \in Callers, NEW r \in Requests, AdmitNew(c, r) PROVE SendsCounted'
  <2>1. r \notin S
    BY <1>4 DEF AdmitNew, Reusable
  <2>2. {q \in Requests : sender'[q] = "sending"} = S \cup {r}
    BY <1>2, <1>4 DEF AdmitNew
  <2>3. Cardinality(S \cup {r}) = Cardinality(S) + 1
    BY <1>1, <2>1, FS_AddElement
  <2> QED  BY <1>1, <1>4, <2>2, <2>3 DEF AdmitNew, SendsCounted
<1>5. ASSUME NEW r \in Requests, Send(r) PROVE SendsCounted'
  <2>1. r \in S /\ sends' = sends - 1
    BY <1>5 DEF Send, SendOK, SendFail
  <2>2. {q \in Requests : sender'[q] = "sending"} = S \ {r}
    BY <1>2, <1>5 DEF Send, SendOK, SendFail
  <2>3. Cardinality(S \ {r}) = Cardinality(S) - 1
    BY <1>1, <2>1, FS_RemoveElement
  <2> QED  BY <1>1, <2>1, <2>2, <2>3 DEF SendsCounted
<1>6. ASSUME NEW r \in Requests, SenderExit(r) PROVE SendsCounted'
  <2>1. {q \in Requests : sender'[q] = "sending"} = S
    BY <1>2, <1>6 DEF SenderExit
  <2> QED  BY <1>1, <1>6, <2>1 DEF SenderExit, SendsCounted
<1>7. ASSUME NEW c \in Callers, Check(c) PROVE UNCHANGED <<sends, sender>>
  BY <1>7 DEF Check, CheckEnter, CheckReject, CancelCtx
<1>8. ASSUME NEW c \in Callers, Admit(c), \A r \in Requests : ~AdmitNew(c, r)
      PROVE  UNCHANGED <<sends, sender>>
  BY <1>8 DEF Admit, AdmitClosed, AdmitCached, AdmitRefused, AdmitJoin
<1>9. ASSUME NEW c \in Callers, Leave(c) PROVE UNCHANGED <<sends, sender>>
  BY <1>9 DEF Leave
<1>10. ASSUME NEW r \in Requests, Callback(r) PROVE UNCHANGED <<sends, sender>>
  BY <1>10 DEF Callback, CallbackApprove, CallbackDeny
<1>11. CASE PollExit \/ Close \/ Tick \/ UNCHANGED vars
  BY <1>3, <1>11 DEF PollExit, Close, CloseBegin, CloseZero, CloseClear, Tick, vars
<1> QED  BY <1>3, <1>4, <1>5, <1>6, <1>7, <1>8, <1>9, <1>10, <1>11 DEF Next

\* Waiting(r) and the counter change together or not at all.
LEMMA WaitersStep == IInv /\ [Next]_vars => WaitersCounted'
<1> SUFFICES ASSUME IInv, [Next]_vars, NEW r \in Requests
             PROVE  request'[r].waiters = Cardinality(Waiting(r)')
  BY DEF WaitersCounted
<1> DEFINE Goal == request'[r].waiters = Cardinality(Waiting(r)')
<1>1. /\ request \in [Requests -> RequestType]
      /\ caller \in [Callers -> CallerType]
      /\ request[r].waiters = Cardinality(Waiting(r))
      /\ \A c \in Waiting(r) : c \in Callers
      /\ IsFiniteSet(Waiting(r))
  <2>1. Waiting(r) \subseteq Callers
    BY DEF Waiting
  <2> QED  BY <2>1, FiniteAssumption, FS_Subset DEF IInv, TypeOK, WaitersCounted
<1>2. ASSUME Waiting(r)' = Waiting(r), request'[r].waiters = request[r].waiters PROVE Goal
  BY <1>1, <1>2
<1>3. ASSUME NEW c \in Callers, Check(c) PROVE Goal
  <2>1. Waiting(r)' = Waiting(r)
    BY <1>1, <1>3 DEF Check, CheckEnter, CheckReject, CancelCtx, Return, Waiting, CallerType
  <2> QED  BY <1>2, <1>3, <2>1 DEF Check, CheckEnter, CheckReject, CancelCtx
<1>4. ASSUME NEW c \in Callers, Admit(c) PROVE Goal
  <2>1. CASE AdmitClosed(c) \/ AdmitCached(c) \/ AdmitRefused(c)
    <3>1. Waiting(r)' = Waiting(r)
      BY <1>1, <2>1 DEF AdmitClosed, AdmitCached, AdmitRefused, Return, Waiting
    <3> QED  BY <1>2, <2>1, <3>1 DEF AdmitClosed, AdmitCached, AdmitRefused
  <2>2. ASSUME NEW q \in Requests, AdmitNew(c, q) PROVE Goal
    <3>1. CASE q = r
      <4>1. Waiting(r) = {}
        BY <1>1, <2>2, <3>1, FS_EmptySet DEF AdmitNew, Reusable
      <4>2. Waiting(r)' = {c}
        BY <1>1, <2>2, <3>1, <4>1 DEF AdmitNew, Waiting, CallerType
      <4>3. request'[r].waiters = 1
        BY <1>1, <2>2, <3>1 DEF AdmitNew, NewRequest
      <4> QED  BY <4>2, <4>3, FS_Singleton
    <3>2. CASE q # r
      <4>1. Waiting(r)' = Waiting(r)
        BY <1>1, <2>2, <3>2 DEF AdmitNew, Waiting, CallerType
      <4> QED  BY <1>1, <1>2, <2>2, <3>2, <4>1 DEF AdmitNew
    <3> QED  BY <3>1, <3>2
  <2>3. ASSUME AdmitJoin(c) PROVE Goal
    <3> DEFINE q == pendingRequests[caller[c].device]
    <3>1. CASE q = r
      <4>1. c \notin Waiting(r)
        BY <2>3 DEF AdmitJoin, Waiting
      <4>2. Waiting(r)' = Waiting(r) \cup {c}
        BY <1>1, <2>3, <3>1 DEF AdmitJoin, Waiting, CallerType
      <4>3. request'[r].waiters = request[r].waiters + 1
        BY <1>1, <2>3, <3>1 DEF AdmitJoin, RequestType
      <4> QED  BY <1>1, <4>1, <4>2, <4>3, FS_AddElement
    <3>2. CASE q # r
      <4>1. Waiting(r)' = Waiting(r)
        BY <1>1, <2>3, <3>2 DEF AdmitJoin, Waiting, CallerType
      <4> QED  BY <1>1, <1>2, <2>3, <3>2, <4>1 DEF AdmitJoin
    <3> QED  BY <3>1, <3>2
  <2> QED  BY <1>4, <2>1, <2>2, <2>3 DEF Admit
<1>5. ASSUME NEW c \in Callers, Leave(c) PROVE Goal
  <2> DEFINE q == caller[c].request
  <2>1. q \in Requests
    BY <1>5, WaiterCounted DEF Leave
  <2>2. CASE q = r
    <3>1. c \in Waiting(r)
      BY <1>5, <2>2 DEF Leave, Waiting
    <3>2. Waiting(r)' = Waiting(r) \ {c}
      BY <1>1, <1>5, <2>2 DEF Leave, Return, Waiting
    <3>3. Finished(r, "Denied").waiters = request[r].waiters
      BY <1>1 DEF Finished, RequestType
    <3>4. Finished(r, "Denied") \in RequestType
      BY FinishTypes DEF IInv, Decisions
    <3>5. request'[r].waiters = request[r].waiters - 1
      BY <1>1, <1>5, <2>2, <3>3, <3>4 DEF Leave, RequestType
    <3> QED  BY <1>1, <3>1, <3>2, <3>5, FS_RemoveElement
  <2>3. CASE q # r
    <3>1. Waiting(r)' = Waiting(r)
      BY <1>1, <1>5, <2>3 DEF Leave, Return, Waiting
    <3> QED  BY <1>1, <1>2, <1>5, <2>3, <3>1 DEF Leave
  <2> QED  BY <2>2, <2>3
<1>6. ASSUME UNCHANGED caller, request' = request PROVE Goal
  BY <1>1, <1>6 DEF Waiting
<1>7. ASSUME NEW q \in Requests, NEW decision \in Decisions, UNCHANGED caller,
             finishPendingLocked(q, decision)
      PROVE  Goal
  <2>1. request'[r].waiters = request[r].waiters
    BY <1>1, <1>7 DEF finishPendingLocked, Finished, RequestType
  <2> QED  BY <1>2, <1>7, <2>1 DEF Waiting
<1>8. ASSUME NEW q \in Requests, Send(q) PROVE Goal
  BY <1>6, <1>8 DEF Send, SendOK, SendFail
<1>9. ASSUME NEW q \in Requests, SenderExit(q) \/ Callback(q) PROVE Goal
  BY <1>7, <1>9 DEF SenderExit, Callback, CallbackApprove, CallbackDeny, Decisions
<1>10. CASE CloseBegin
  <2>1. request'[r].waiters = request[r].waiters
    BY <1>1, <1>10 DEF CloseBegin, Finished, RequestType
  <2> QED  BY <1>2, <1>10, <2>1 DEF CloseBegin, Waiting
<1>11. CASE Tick
  <2>1. request'[r].waiters = request[r].waiters
    BY <1>1, <1>11 DEF Tick, RequestType
  <2> QED  BY <1>2, <1>11, <2>1 DEF Tick, Waiting
<1>12. CASE PollExit \/ CloseZero \/ CloseClear \/ UNCHANGED vars
  BY <1>6, <1>12 DEF PollExit, CloseZero, CloseClear, vars
<1> QED  BY <1>3, <1>4, <1>5, <1>8, <1>9, <1>10, <1>11, <1>12 DEF Next, Close

\* A slot is reused only when nobody waits on it, so a waiting caller keeps its
\* request, and the request keeps its device.
LEMMA CallerStep == IInv /\ [Next]_vars => CallerSound'
<1> SUFFICES ASSUME IInv, [Next]_vars PROVE CallerSound'
  OBVIOUS
<1>1. /\ request \in [Requests -> RequestType]
      /\ caller \in [Callers -> CallerType]
      /\ pendingRequests \in [Devices -> Requests \cup {None}]
      /\ CallerSound
  BY DEF IInv, TypeOK
<1>2. ASSUME UNCHANGED caller, \A r \in Requests : request'[r].device = request[r].device
      PROVE  CallerSound'
  BY <1>1, <1>2 DEF CallerSound
<1>3. ASSUME NEW c \in Callers, Check(c) PROVE CallerSound'
  BY <1>1, <1>3 DEF Check, CheckEnter, CheckReject, CancelCtx, Return, CallerSound, CallerType
<1>4. ASSUME NEW c \in Callers, Admit(c) PROVE CallerSound'
  <2>1. CASE AdmitClosed(c) \/ AdmitCached(c) \/ AdmitRefused(c)
    BY <1>1, <2>1 DEF AdmitClosed, AdmitCached, AdmitRefused, Return, CallerSound
  <2>2. ASSUME NEW r \in Requests, AdmitNew(c, r) PROVE CallerSound'
    <3>1. \A b \in Callers : caller[b].pc = "waiting" => caller[b].request # r
      BY <2>2, WaiterCounted DEF AdmitNew, Reusable
    <3>2. request'[r].device = caller[c].device
      BY <1>1, <2>2 DEF AdmitNew, NewRequest
    <3>3. \A q \in Requests : q # r => request'[q] = request[q]
      BY <1>1, <2>2 DEF AdmitNew
    <3>4. /\ caller'[c].pc = "waiting" /\ caller'[c].request = r
          /\ caller'[c].device = caller[c].device
          /\ \A b \in Callers : b # c => caller'[b] = caller[b]
      BY <1>1, <2>2 DEF AdmitNew, CallerType
    <3> QED  BY <1>1, <2>2, <3>1, <3>2, <3>3, <3>4 DEF AdmitNew, CallerSound
  <2>3. ASSUME AdmitJoin(c) PROVE CallerSound'
    <3> DEFINE r == pendingRequests[caller[c].device]
    <3>1. r \in Requests /\ request[r].device = caller[c].device
      BY <1>1, <2>3 DEF AdmitJoin, CallerSound, IInv, PendingSound
    <3>2. \A q \in Requests : request'[q].device = request[q].device
      BY <1>1, <2>3 DEF AdmitJoin, RequestType
    <3>3. /\ caller'[c].pc = "waiting" /\ caller'[c].request = r
          /\ caller'[c].device = caller[c].device
          /\ \A b \in Callers : b # c => caller'[b] = caller[b]
      BY <1>1, <2>3 DEF AdmitJoin, CallerType
    <3> QED  BY <1>1, <2>3, <3>1, <3>2, <3>3 DEF AdmitJoin, CallerSound
  <2> QED  BY <1>4, <2>1, <2>2, <2>3 DEF Admit
<1>5. ASSUME NEW c \in Callers, Leave(c) PROVE CallerSound'
  <2> DEFINE r == caller[c].request
  <2>1. r \in Requests
    BY <1>5, WaiterCounted DEF Leave
  <2>2. Finished(r, "Denied") \in RequestType
    BY <2>1, FinishTypes DEF IInv, Decisions
  <2>3. Finished(r, "Denied").device = request[r].device
    BY <1>1, <2>1 DEF Finished, RequestType
  <2>4. \A q \in Requests : request'[q].device = request[q].device
    BY <1>1, <1>5, <2>1, <2>2, <2>3 DEF Leave, RequestType
  <2> QED  BY <1>1, <1>5, <2>4 DEF Leave, Return, CallerSound
<1>6. ASSUME NEW r \in Requests, NEW decision \in Decisions, UNCHANGED caller,
             finishPendingLocked(r, decision)
      PROVE  CallerSound'
  <2>1. \A q \in Requests : request'[q].device = request[q].device
    BY <1>1, <1>6 DEF finishPendingLocked, Finished, RequestType
  <2> QED  BY <1>2, <1>6, <2>1
<1>7. ASSUME NEW r \in Requests, Send(r) PROVE CallerSound'
  BY <1>2, <1>7 DEF Send, SendOK, SendFail
<1>8. ASSUME NEW r \in Requests, SenderExit(r) \/ Callback(r) PROVE CallerSound'
  BY <1>6, <1>8 DEF SenderExit, Callback, CallbackApprove, CallbackDeny, Decisions
<1>9. CASE CloseBegin
  <2>1. \A q \in Requests : request'[q].device = request[q].device
    BY <1>1, <1>9 DEF CloseBegin, Finished, RequestType
  <2> QED  BY <1>2, <1>9, <2>1 DEF CloseBegin
<1>10. CASE Tick
  <2>1. \A q \in Requests : request'[q].device = request[q].device
    BY <1>1, <1>10 DEF Tick, RequestType
  <2> QED  BY <1>2, <1>10, <2>1 DEF Tick
<1>11. CASE PollExit \/ CloseZero \/ CloseClear \/ UNCHANGED vars
  BY <1>2, <1>11 DEF PollExit, CloseZero, CloseClear, vars
<1> QED  BY <1>3, <1>4, <1>5, <1>7, <1>8, <1>9, <1>10, <1>11 DEF Next, Close

\* closed and secrets follow closer.
LEMMA CloserStep == IInv /\ [Next]_vars => CloserSound'
<1> SUFFICES ASSUME IInv, [Next]_vars PROVE CloserSound'
  OBVIOUS
<1>1. CloserSound
  BY DEF IInv
<1>2. CASE UNCHANGED <<closed, closer, secrets>>
  BY <1>1, <1>2 DEF CloserSound
<1>3. CASE CloseBegin
  BY <1>1, <1>3, Zenon DEF CloseBegin, CloserSound
<1>4. CASE CloseZero
  BY <1>1, <1>4, Zenon DEF CloseZero, CloserSound
<1>5. CASE CloseClear
  BY <1>1, <1>5, Zenon DEF CloseClear, CloserSound
<1>6. ASSUME NEW c \in Callers, Check(c) \/ Admit(c) \/ Leave(c)
      PROVE  UNCHANGED <<closed, closer, secrets>>
  BY <1>6 DEF Check, CheckEnter, CheckReject, CancelCtx, Admit, AdmitClosed, AdmitCached,
     AdmitRefused, AdmitNew, AdmitJoin, Leave
<1>7. ASSUME NEW r \in Requests, Send(r) \/ SenderExit(r) \/ Callback(r)
      PROVE  UNCHANGED <<closed, closer, secrets>>
  BY <1>7 DEF Send, SendOK, SendFail, SenderExit, Callback, CallbackApprove, CallbackDeny
<1>8. CASE PollExit \/ Tick \/ UNCHANGED vars
  BY <1>2, <1>8 DEF PollExit, Tick, vars
<1> QED  BY <1>2, <1>3, <1>4, <1>5, <1>6, <1>7, <1>8 DEF Next, Close

\* Once the secrets are zeroed nothing that uses them starts again: a new sender
\* needs an open gate.
LEMMA SecretsStep == IInv /\ [Next]_vars => SecretsOutliveUsers'
<1> SUFFICES ASSUME IInv, [Next]_vars PROVE SecretsOutliveUsers'
  OBVIOUS
<1>1. /\ sender \in [Requests -> {"exited", "sending", "awaiting", "failing"}]
      /\ SecretsOutliveUsers
      /\ ~secrets => closed
  BY DEF IInv, TypeOK, CloserSound
<1>2. CASE UNCHANGED <<secrets, polling, sender>>
  BY <1>1, <1>2 DEF SecretsOutliveUsers
<1>3. ASSUME NEW c \in Callers, Check(c) \/ Leave(c) PROVE UNCHANGED <<secrets, polling, sender>>
  BY <1>3 DEF Check, CheckEnter, CheckReject, CancelCtx, Leave
<1>4. ASSUME NEW c \in Callers, Admit(c) PROVE SecretsOutliveUsers'
  <2>1. ASSUME NEW r \in Requests, AdmitNew(c, r) PROVE SecretsOutliveUsers'
    BY <1>1, <2>1 DEF AdmitNew, SecretsOutliveUsers
  <2>2. CASE AdmitClosed(c) \/ AdmitCached(c) \/ AdmitRefused(c) \/ AdmitJoin(c)
    BY <1>2, <2>2 DEF AdmitClosed, AdmitCached, AdmitRefused, AdmitJoin
  <2> QED  BY <1>4, <2>1, <2>2 DEF Admit
<1>5. ASSUME NEW r \in Requests, Send(r) \/ SenderExit(r) PROVE SecretsOutliveUsers'
  BY <1>1, <1>5 DEF Send, SendOK, SendFail, SenderExit, SecretsOutliveUsers
<1>6. ASSUME NEW r \in Requests, Callback(r) PROVE UNCHANGED <<secrets, polling, sender>>
  BY <1>6 DEF Callback, CallbackApprove, CallbackDeny
<1>7. CASE PollExit
  BY <1>1, <1>7 DEF PollExit, SecretsOutliveUsers
<1>8. CASE CloseZero
  BY <1>1, <1>8 DEF CloseZero, Drained, SecretsOutliveUsers
<1>9. CASE CloseBegin \/ CloseClear \/ Tick \/ UNCHANGED vars
  BY <1>2, <1>9 DEF CloseBegin, CloseClear, Tick, vars
<1> QED  BY <1>2, <1>3, <1>4, <1>5, <1>6, <1>7, <1>8, <1>9 DEF Next, Close

\* Finishing q takes exactly q out of what is pending, whether it was or not.
LEMMA FinishPending ==
  ASSUME IInv, NEW q \in Requests, NEW decision \in Decisions,
         pendingRequests' = PendingWithout(q),
         \A r \in Requests : request'[r].device = request[r].device
  PROVE  /\ \A r \in Requests : IsPending(r)' <=> IsPending(r) /\ r # q
         /\ \A d \in Devices : pendingRequests'[d] # None =>
              request'[pendingRequests'[d]].device = d
<1>1. /\ pendingRequests \in [Devices -> Requests \cup {None}]
      /\ \A r \in Requests : request[r].device \in Devices \cup {None}
      /\ \A d \in Devices : pendingRequests[d] # None => request[pendingRequests[d]].device = d
  BY DEF IInv, TypeOK, RequestType, PendingSound
<1>2. \A d \in Devices : pendingRequests'[d] = IF pendingRequests[d] = q THEN None
                                               ELSE pendingRequests[d]
  BY DEF PendingWithout
<1>3. \A r \in Requests : IsPending(r)' <=> IsPending(r) /\ r # q
  BY <1>1, <1>2, NoneAssumption DEF IsPending
<1> QED  BY <1>1, <1>2, <1>3

LEMMA FinishSound ==
  ASSUME IInv, NEW q \in Requests, NEW decision \in Decisions,
         finishPendingLocked(q, decision), UNCHANGED closed,
         \A r \in Requests : r # q => sender'[r] = sender[r]
  PROVE  PendingSound'
<1>1. /\ request \in [Requests -> RequestType]
      /\ PendingSound
  BY DEF IInv, TypeOK
<1>2. \A r \in Requests : r # q => request'[r] = request[r]
  BY <1>1 DEF finishPendingLocked
<1>3. /\ request'[q].device = request[q].device
      /\ request'[q].done
  BY <1>1 DEF finishPendingLocked, Finished, RequestType, PendingSound
<1>4. \A r \in Requests : request'[r].device = request[r].device
  BY <1>2, <1>3
<1>5. /\ \A r \in Requests : IsPending(r)' <=> IsPending(r) /\ r # q
      /\ \A d \in Devices : pendingRequests'[d] # None =>
           request'[pendingRequests'[d]].device = d
  BY <1>4, FinishPending DEF finishPendingLocked
<1>6. \A r \in Requests : IsPending(r)' <=> ~request'[r].done
  BY <1>1, <1>2, <1>3, <1>5 DEF PendingSound
<1>7. \A r \in Requests : IsPending(r)' => /\ sender'[r] # "exited"
                                        /\ request'[r].waiters > 0
                                        /\ ~closed'
  BY <1>1, <1>2, <1>5 DEF PendingSound
<1> QED  BY <1>5, <1>6, <1>7 DEF PendingSound

LEMMA PendingStep == IInv /\ [Next]_vars => PendingSound'
<1> SUFFICES ASSUME IInv, [Next]_vars PROVE PendingSound'
  OBVIOUS
<1>1. /\ request \in [Requests -> RequestType]
      /\ pendingRequests \in [Devices -> Requests \cup {None}]
      /\ sender \in [Requests -> {"exited", "sending", "awaiting", "failing"}]
      /\ PendingSound
  BY DEF IInv, TypeOK
<1>2. ASSUME UNCHANGED <<pendingRequests, closed>>,
             \A r \in Requests : /\ request'[r].device = request[r].device
                                 /\ request'[r].done = request[r].done
                                 /\ request[r].waiters > 0 => request'[r].waiters > 0
                                 /\ sender'[r] = "exited" => sender[r] = "exited"
      PROVE  PendingSound'
  <2>1. \A r \in Requests : IsPending(r)' <=> IsPending(r)
    BY <1>2 DEF IsPending
  <2>2. \A d \in Devices : pendingRequests'[d] # None =>
          request'[pendingRequests'[d]].device = d
    BY <1>1, <1>2 DEF PendingSound
  <2>3. \A r \in Requests : IsPending(r)' <=> ~request'[r].done
    BY <1>1, <1>2, <2>1 DEF PendingSound
  <2>4. \A r \in Requests : IsPending(r)' => /\ sender'[r] # "exited"
                                          /\ request'[r].waiters > 0
                                          /\ ~closed'
    BY <1>1, <1>2, <2>1 DEF PendingSound
  <2> QED  BY <2>2, <2>3, <2>4 DEF PendingSound
<1>3. ASSUME NEW c \in Callers, Check(c) PROVE PendingSound'
  BY <1>2, <1>3 DEF Check, CheckEnter, CheckReject, CancelCtx
<1>4. ASSUME NEW c \in Callers, Admit(c) PROVE PendingSound'
  <2>1. CASE AdmitClosed(c) \/ AdmitCached(c) \/ AdmitRefused(c)
    BY <1>2, <2>1 DEF AdmitClosed, AdmitCached, AdmitRefused
  <2>2. ASSUME NEW q \in Requests, AdmitNew(c, q) PROVE PendingSound'
    <3> DEFINE d == caller[c].device
    <3>1. d \in Devices /\ pendingRequests[d] = None /\ ~closed' /\ ~IsPending(q)
      BY <1>1, <2>2 DEF AdmitNew, IInv, CallerSound, PendingSound, Reusable
    <3>2. /\ request'[q] = NewRequest(d) /\ sender'[q] = "sending"
          /\ \A r \in Requests : r # q => request'[r] = request[r] /\ sender'[r] = sender[r]
          /\ pendingRequests' = [pendingRequests EXCEPT ![d] = q]
      BY <1>1, <2>2 DEF AdmitNew
    <3>3. /\ IsPending(q)' /\ ~request'[q].done /\ request'[q].waiters > 0
          /\ request'[q].device = d
      BY <1>1, <3>1, <3>2, NoneAssumption DEF IsPending, NewRequest
    <3>4. ASSUME NEW r \in Requests, r # q PROVE IsPending(r)' <=> IsPending(r)
      <4>1. request[r].device \in Devices \cup {None}
        BY <1>1 DEF RequestType
      <4> QED  BY <1>1, <3>1, <3>2, <3>4, <4>1, NoneAssumption DEF IsPending
    <3>5. \A e \in Devices : pendingRequests[e] # q
      BY <1>1, <3>1, NoneAssumption DEF PendingSound, IsPending
    <3>6. \A e \in Devices : pendingRequests'[e] # None =>
            request'[pendingRequests'[e]].device = e
      BY <1>1, <3>2, <3>3, <3>5 DEF PendingSound
    <3>7. \A r \in Requests : IsPending(r)' <=> ~request'[r].done
      BY <1>1, <3>2, <3>3, <3>4 DEF PendingSound
    <3>8. \A r \in Requests : IsPending(r)' => /\ sender'[r] # "exited"
                                            /\ request'[r].waiters > 0
                                            /\ ~closed'
      BY <1>1, <3>1, <3>2, <3>3, <3>4 DEF PendingSound
    <3> QED  BY <3>6, <3>7, <3>8 DEF PendingSound
  <2>3. ASSUME AdmitJoin(c) PROVE PendingSound'
    <3> DEFINE q == pendingRequests[caller[c].device]
    <3>1. q \in Requests /\ request[q].waiters \in Nat
      BY <1>1, <2>3 DEF AdmitJoin, IInv, CallerSound, RequestType
    <3>2. \A r \in Requests : /\ request'[r].device = request[r].device
                              /\ request'[r].done = request[r].done
                              /\ request[r].waiters > 0 => request'[r].waiters > 0
      BY <1>1, <2>3, <3>1 DEF AdmitJoin, RequestType
    <3> QED  BY <1>2, <2>3, <3>2 DEF AdmitJoin
  <2> QED  BY <1>4, <2>1, <2>2, <2>3 DEF Admit
<1>5. ASSUME NEW c \in Callers, Leave(c) PROVE PendingSound'
  <2> DEFINE q == caller[c].request
  <2>1. q \in Requests /\ request[q].waiters \in Nat \ {0}
    BY <1>5, WaiterCounted DEF Leave
  <2>2. UNCHANGED <<closed, sender>>
    BY <1>5 DEF Leave
  <2>3. CASE LastWaiter(q)
    <3>1. Finished(q, "Denied") \in RequestType
      BY <2>1, FinishTypes DEF IInv, Decisions
    <3>2. /\ \A r \in Requests : r # q => request'[r] = request[r]
          /\ request'[q] = [Finished(q, "Denied") EXCEPT !.waiters = @ - 1]
          /\ pendingRequests' = PendingWithout(q)
      BY <1>1, <1>5, <2>1, <2>3 DEF Leave
    <3>3. request'[q].device = request[q].device /\ request'[q].done
      BY <1>1, <2>1, <3>1, <3>2 DEF Finished, RequestType, PendingSound
    <3>4. \A r \in Requests : request'[r].device = request[r].device
      BY <3>2, <3>3
    <3>5. /\ \A r \in Requests : IsPending(r)' <=> IsPending(r) /\ r # q
          /\ \A d \in Devices : pendingRequests'[d] # None =>
               request'[pendingRequests'[d]].device = d
      BY <2>1, <3>2, <3>4, FinishPending DEF Decisions
    <3>6. \A r \in Requests : IsPending(r)' <=> ~request'[r].done
      BY <1>1, <3>2, <3>3, <3>5 DEF PendingSound
    <3>7. \A r \in Requests : IsPending(r)' => /\ sender'[r] # "exited"
                                            /\ request'[r].waiters > 0
                                            /\ ~closed'
      BY <1>1, <2>2, <3>2, <3>5 DEF PendingSound
    <3> QED  BY <3>5, <3>6, <3>7 DEF PendingSound
  <2>4. CASE ~LastWaiter(q)
    <3>1. request' = [request EXCEPT ![q].waiters = @ - 1] /\ UNCHANGED pendingRequests
      BY <1>5, <2>4 DEF Leave
    <3>2. request[q].waiters - 1 > 0
      BY <2>1, <2>4 DEF LastWaiter
    <3>3. \A r \in Requests : /\ request'[r].device = request[r].device
                              /\ request'[r].done = request[r].done
                              /\ request[r].waiters > 0 => request'[r].waiters > 0
      BY <1>1, <2>1, <3>1, <3>2 DEF RequestType
    <3> QED  BY <1>2, <2>2, <3>1, <3>3
  <2> QED  BY <2>3, <2>4
<1>6. ASSUME NEW r \in Requests, Send(r) PROVE PendingSound'
  <2>1. \A q \in Requests : sender'[q] = "exited" => sender[q] = "exited"
    BY <1>1, <1>6 DEF Send, SendOK, SendFail
  <2> QED  BY <1>2, <1>6, <2>1 DEF Send, SendOK, SendFail
<1>7. ASSUME NEW r \in Requests, SenderExit(r) PROVE PendingSound'
  <2>1. \A q \in Requests : q # r => sender'[q] = sender[q]
    BY <1>1, <1>7 DEF SenderExit
  <2> QED  BY <1>7, <2>1, FinishSound DEF SenderExit, Decisions
<1>8. ASSUME NEW r \in Requests, Callback(r) PROVE PendingSound'
  BY <1>8, FinishSound DEF Callback, CallbackApprove, CallbackDeny, Decisions
<1>9. CASE CloseBegin
  <2>1. \A r \in Requests : /\ request'[r].device = request[r].device
                            /\ request'[r].done
    BY <1>1, <1>9 DEF CloseBegin, Finished, RequestType, PendingSound
  <2>2. \A d \in Devices : pendingRequests'[d] = None
    BY <1>9 DEF CloseBegin
  <2>3. \A r \in Requests : ~IsPending(r)'
    BY <1>1, <2>1, <2>2, NoneAssumption DEF IsPending, RequestType
  <2> QED  BY <2>1, <2>2, <2>3 DEF PendingSound
<1>10. CASE CloseClear
  <2>1. closed /\ UNCHANGED <<closed, request, sender>>
    BY <1>10 DEF CloseClear, IInv, CloserSound
  <2>2. \A d \in Devices : pendingRequests'[d] = None
    BY <1>10 DEF CloseClear
  <2>3. \A r \in Requests : ~IsPending(r)' /\ ~IsPending(r)
    BY <1>1, <2>1, <2>2, NoneAssumption DEF IsPending, RequestType, PendingSound
  <2> QED  BY <1>1, <2>1, <2>2, <2>3 DEF PendingSound
<1>11. CASE Tick
  <2>1. \A r \in Requests : /\ request'[r].device = request[r].device
                            /\ request'[r].done = request[r].done
                            /\ request'[r].waiters = request[r].waiters
    BY <1>1, <1>11 DEF Tick, RequestType
  <2> QED  BY <1>2, <1>11, <2>1 DEF Tick
<1>12. CASE PollExit \/ CloseZero \/ UNCHANGED vars
  BY <1>2, <1>12 DEF PollExit, CloseZero, vars
<1> QED  BY <1>3, <1>4, <1>5, <1>6, <1>7, <1>8, <1>9, <1>10, <1>11, <1>12 DEF Next, Close

\* Only CallbackApprove makes a decision Approved, and it records the button.
LEMMA ApprovedStep == IInv /\ [Next]_vars => ApprovedByOwnButton'
<1> SUFFICES ASSUME IInv, [Next]_vars PROVE ApprovedByOwnButton'
  OBVIOUS
<1>1. request \in [Requests -> RequestType] /\ ApprovedByOwnButton
  BY DEF IInv, TypeOK
<1>2. ASSUME UNCHANGED approvals,
             \A r \in Requests : \/ request'[r].decision = request[r].decision
                                \/ request'[r].decision = "Denied"
      PROVE  ApprovedByOwnButton'
  BY <1>1, <1>2 DEF ApprovedByOwnButton
<1>3. ASSUME NEW c \in Callers, Check(c) PROVE ApprovedByOwnButton'
  BY <1>2, <1>3 DEF Check, CheckEnter, CheckReject, CancelCtx
<1>4. ASSUME NEW c \in Callers, Admit(c) PROVE ApprovedByOwnButton'
  <2>1. CASE AdmitClosed(c) \/ AdmitCached(c) \/ AdmitRefused(c)
    BY <1>2, <2>1 DEF AdmitClosed, AdmitCached, AdmitRefused
  <2>2. ASSUME NEW r \in Requests, AdmitNew(c, r) PROVE ApprovedByOwnButton'
    BY <1>1, <2>2 DEF AdmitNew, NewRequest, ApprovedByOwnButton
  <2>3. ASSUME AdmitJoin(c) PROVE ApprovedByOwnButton'
    BY <1>1, <1>2, <2>3 DEF AdmitJoin, RequestType
  <2> QED  BY <1>4, <2>1, <2>2, <2>3 DEF Admit
<1>5. ASSUME NEW c \in Callers, Leave(c) PROVE ApprovedByOwnButton'
  <2> DEFINE r == caller[c].request
  <2>1. r \in Requests
    BY <1>5, WaiterCounted DEF Leave
  <2>2. Finished(r, "Denied") \in RequestType
    BY <2>1, FinishTypes DEF IInv, Decisions
  <2>3. Finished(r, "Denied").decision \in {request[r].decision, "Denied"}
    BY <1>1, <2>1 DEF Finished, RequestType
  <2>4. \A q \in Requests : request'[q].decision \in {request[q].decision, "Denied"}
    BY <1>1, <1>5, <2>1, <2>2, <2>3 DEF Leave, RequestType
  <2> QED  BY <1>2, <1>5, <2>4 DEF Leave
<1>6. ASSUME NEW r \in Requests, finishPendingLocked(r, "Denied"), UNCHANGED approvals
      PROVE  ApprovedByOwnButton'
  BY <1>1, <1>2, <1>6 DEF finishPendingLocked, Finished, RequestType
<1>7. ASSUME NEW r \in Requests, Send(r) PROVE ApprovedByOwnButton'
  BY <1>2, <1>7 DEF Send, SendOK, SendFail
<1>8. ASSUME NEW r \in Requests, SenderExit(r) \/ CallbackDeny(r) PROVE ApprovedByOwnButton'
  BY <1>6, <1>8 DEF SenderExit, CallbackDeny
<1>9. ASSUME NEW r \in Requests, CallbackApprove(r) PROVE ApprovedByOwnButton'
  <2>1. \A q \in Requests : q # r => request'[q] = request[q]
    BY <1>1, <1>9 DEF CallbackApprove, finishPendingLocked
  <2> QED  BY <1>1, <1>9, <2>1 DEF CallbackApprove, ApprovedByOwnButton
<1>10. CASE CloseBegin
  BY <1>1, <1>2, <1>10 DEF CloseBegin, Finished, RequestType
<1>11. CASE Tick
  BY <1>1, <1>2, <1>11 DEF Tick, RequestType
<1>12. CASE PollExit \/ CloseZero \/ CloseClear \/ UNCHANGED vars
  BY <1>2, <1>12 DEF PollExit, CloseZero, CloseClear, vars
<1> QED  BY <1>3, <1>4, <1>5, <1>7, <1>8, <1>9, <1>10, <1>11, <1>12 DEF Next, Close, Callback

\* finishPendingLocked leaves a finished request alone, so a decision stands.
LEMMA DecisionStep ==
  IInv /\ [Next]_vars =>
    \A r \in Requests :
      request[r].done /\ request'[r].done => request'[r].decision = request[r].decision
<1> SUFFICES ASSUME IInv, [Next]_vars, NEW r \in Requests,
                    request[r].done, request'[r].done
             PROVE  request'[r].decision = request[r].decision
  OBVIOUS
<1> DEFINE Goal == request'[r].decision = request[r].decision
<1>1. request \in [Requests -> RequestType] /\ ~IsPending(r)
  BY DEF IInv, TypeOK, PendingSound
<1>2. \A decision \in Decisions : Finished(r, decision) = request[r]
  BY <1>1 DEF Finished
<1>3. ASSUME NEW c \in Callers, Admit(c) PROVE Goal
  <2>1. ASSUME NEW q \in Requests, AdmitNew(c, q) PROVE Goal
    BY <1>1, <2>1 DEF AdmitNew, NewRequest
  <2>2. CASE AdmitClosed(c) \/ AdmitCached(c) \/ AdmitRefused(c)
    BY <2>2 DEF AdmitClosed, AdmitCached, AdmitRefused
  <2>3. ASSUME AdmitJoin(c) PROVE Goal
    BY <1>1, <2>3 DEF AdmitJoin, RequestType
  <2> QED  BY <1>3, <2>1, <2>2, <2>3 DEF Admit
<1>4. ASSUME NEW c \in Callers, Leave(c) PROVE Goal
  BY <1>1, <1>2, <1>4 DEF Leave, RequestType, Decisions
<1>5. ASSUME NEW q \in Requests, SenderExit(q) \/ Callback(q) PROVE Goal
  BY <1>1, <1>2, <1>5 DEF SenderExit, Callback, CallbackApprove, CallbackDeny,
     finishPendingLocked, Decisions
<1>6. CASE CloseBegin
  BY <1>2, <1>6 DEF CloseBegin, Decisions
<1>7. CASE Tick
  BY <1>1, <1>7 DEF Tick, RequestType
<1>8. CASE UNCHANGED request
  BY <1>8
<1>9. ASSUME NEW c \in Callers, Check(c) PROVE UNCHANGED request
  BY <1>9 DEF Check, CheckEnter, CheckReject, CancelCtx
<1>10. ASSUME NEW q \in Requests, Send(q) PROVE UNCHANGED request
  BY <1>10 DEF Send, SendOK, SendFail
<1>11. ASSUME PollExit \/ CloseZero \/ CloseClear \/ UNCHANGED vars PROVE UNCHANGED request
  BY <1>11 DEF PollExit, CloseZero, CloseClear, vars
<1> QED  BY <1>3, <1>4, <1>5, <1>6, <1>7, <1>8, <1>9, <1>10, <1>11 DEF Next, Close

\* An approval is cached only when nothing else is pending for the device, and a
\* caller starts to wait beside a live approval only if its context is dead.
LEMMA NoWaitStep == IInv /\ NoWaitBesideApproval /\ [Next]_vars => NoWaitBesideApproval'
<1> SUFFICES ASSUME IInv, NoWaitBesideApproval, [Next]_vars, NEW b \in Callers,
                    caller'[b].pc = "waiting", ~request'[caller'[b].request].done,
                    approvedCache'[caller'[b].device] > 0
             PROVE  caller'[b].cancelled
  BY DEF NoWaitBesideApproval
<1> DEFINE Goal == caller'[b].cancelled
<1>1. /\ request \in [Requests -> RequestType]
      /\ caller \in [Callers -> CallerType]
      /\ approvedCache \in [Devices -> {NoEntry} \cup 0..ApprovalCacheTTL]
      /\ pendingRequests \in [Devices -> Requests \cup {None}]
  BY DEF IInv, TypeOK
<1>2. caller[b].pc = "waiting" => /\ caller[b].request \in Requests
                                  /\ caller[b].device \in Devices
                                  /\ request[caller[b].request].device = caller[b].device
  BY DEF IInv, CallerSound
<1>3. ASSUME UNCHANGED caller,
             caller[b].pc = "waiting" => /\ ~request[caller[b].request].done
                                         /\ approvedCache[caller[b].device] > 0
      PROVE  Goal
  BY <1>3 DEF NoWaitBesideApproval
<1>4. ASSUME NEW c \in Callers, Check(c) PROVE Goal
  <2>1. /\ caller'[b].pc = "waiting" => caller[b].pc = "waiting" /\ caller'[b].request = caller[b].request
                                         /\ caller'[b].device = caller[b].device
        /\ caller'[b].pc = "waiting" /\ caller[b].cancelled => caller'[b].cancelled
        /\ UNCHANGED <<request, approvedCache>>
    BY <1>1, <1>4 DEF Check, CheckEnter, CheckReject, CancelCtx, Return, CallerType
  <2> QED  BY <2>1 DEF NoWaitBesideApproval
<1>5. ASSUME NEW c \in Callers, Admit(c) PROVE Goal
  <2>1. CASE b = c
    <3>1. ASSUME NEW q \in Requests, AdmitNew(c, q) PROVE Goal
      <4>1. /\ caller'[b].device = caller[b].device
            /\ caller'[b].cancelled = caller[b].cancelled
            /\ approvedCache' = LiveCache /\ ~CacheHit(b)
        BY <1>1, <2>1, <3>1 DEF AdmitNew, CallerType
      <4> QED  BY <4>1 DEF CacheHit, NoEntry
    <3>2. ASSUME AdmitJoin(c) PROVE Goal
      <4>1. /\ caller'[b].device = caller[b].device
            /\ caller'[b].cancelled = caller[b].cancelled
            /\ approvedCache' = LiveCache /\ ~CacheHit(b)
        BY <1>1, <2>1, <3>2 DEF AdmitJoin, Purge, CallerType
      <4> QED  BY <4>1 DEF CacheHit, NoEntry
    <3>3. CASE AdmitClosed(c) \/ AdmitCached(c) \/ AdmitRefused(c)
      BY <1>1, <2>1, <3>3 DEF AdmitClosed, AdmitCached, AdmitRefused, Return
    <3> QED  BY <1>5, <3>1, <3>2, <3>3 DEF Admit
  <2>2. CASE b # c
    <3>1. caller'[b] = caller[b]
      BY <1>1, <1>5, <2>2 DEF Admit, AdmitClosed, AdmitCached, AdmitRefused, AdmitNew,
         AdmitJoin, Return
    <3>2. approvedCache' = approvedCache \/ approvedCache' = LiveCache
      BY <1>5 DEF Admit, AdmitClosed, AdmitCached, AdmitRefused, AdmitNew, AdmitJoin, Purge
    <3>3. approvedCache[caller[b].device] > 0
      BY <1>1, <1>2, <3>1, <3>2 DEF LiveCache, NoEntry
    <3>4. ~request[caller[b].request].done
      <4>1. ASSUME NEW q \in Requests, AdmitNew(c, q) PROVE ~request[caller[b].request].done
        <5>1. caller[b].request # q
          BY <3>1, <4>1, WaiterCounted DEF AdmitNew, Reusable
        <5> QED  BY <1>1, <1>2, <3>1, <4>1, <5>1 DEF AdmitNew
      <4>2. ASSUME AdmitJoin(c) PROVE ~request[caller[b].request].done
        BY <1>1, <1>2, <3>1, <4>2 DEF AdmitJoin, RequestType
      <4>3. CASE AdmitClosed(c) \/ AdmitCached(c) \/ AdmitRefused(c)
        BY <3>1, <4>3 DEF AdmitClosed, AdmitCached, AdmitRefused
      <4> QED  BY <1>5, <4>1, <4>2, <4>3 DEF Admit
    <3> QED  BY <3>1, <3>3, <3>4 DEF NoWaitBesideApproval
  <2> QED  BY <2>1, <2>2
<1>6. ASSUME NEW c \in Callers, Leave(c) PROVE Goal
  <2> DEFINE q == caller[c].request
  <2>1. b # c
    BY <1>1, <1>6 DEF Leave, Return
  <2>2. caller'[b] = caller[b] /\ UNCHANGED approvedCache
    BY <1>1, <1>6, <2>1 DEF Leave, Return
  <2>3. q \in Requests
    BY <1>6, WaiterCounted DEF Leave
  <2>4. Finished(q, "Denied") \in RequestType
    BY <2>3, FinishTypes DEF IInv, Decisions
  <2>5. request[q].done => Finished(q, "Denied").done
    BY <1>1, <2>3 DEF Finished, RequestType
  <2>6. \A r \in Requests : request[r].done => request'[r].done
    BY <1>1, <1>6, <2>3, <2>4, <2>5 DEF Leave, RequestType
  <2> QED  BY <1>2, <2>2, <2>6 DEF NoWaitBesideApproval
<1>7. ASSUME NEW r \in Requests, NEW decision \in Decisions, UNCHANGED <<caller, approvedCache>>,
             finishPendingLocked(r, decision)
      PROVE  Goal
  <2>1. \A q \in Requests : request[q].done => request'[q].done
    BY <1>1, <1>7 DEF finishPendingLocked, Finished, RequestType
  <2> QED  BY <1>2, <1>3, <1>7, <2>1
<1>8. ASSUME NEW r \in Requests, Send(r) PROVE Goal
  BY <1>3, <1>8 DEF Send, SendOK, SendFail
<1>9. ASSUME NEW r \in Requests, SenderExit(r) \/ CallbackDeny(r) PROVE Goal
  BY <1>7, <1>9 DEF SenderExit, CallbackDeny, Decisions
<1>10. ASSUME NEW r \in Requests, CallbackApprove(r) PROVE Goal
  <2> DEFINE q == caller[b].request
             d == request[r].device
  <2>1. UNCHANGED caller /\ q \in Requests /\ d \in Devices
    BY <1>1, <1>2, <1>10 DEF CallbackApprove, CallbackLive, RequestType
  <2>2. ~request[q].done /\ request'[r].done
    BY <1>1, <1>10, <2>1 DEF CallbackApprove, finishPendingLocked, Finished, RequestType,
       IInv, PendingSound
  <2>3. pendingRequests[caller[b].device] = q /\ q # r
    BY <1>2, <2>1, <2>2 DEF IInv, PendingSound, IsPending
  <2>4. caller[b].device # d
    BY <1>1, <1>10, <2>1, <2>3, NoneAssumption DEF CallbackApprove, CallbackMatches
  <2>5. approvedCache'[caller[b].device] = approvedCache[caller[b].device]
    BY <1>1, <1>2, <1>10, <2>1, <2>4 DEF CallbackApprove, CacheApproval
  <2> QED  BY <1>3, <2>1, <2>2, <2>5
<1>11. CASE CloseBegin
  <2>1. \A r \in Requests : request'[r].done
    BY <1>1, <1>11 DEF CloseBegin, Finished, RequestType, IInv, PendingSound
  <2> QED  BY <1>2, <1>11, <2>1 DEF CloseBegin
<1>12. CASE CloseClear
  BY <1>2, <1>12 DEF CloseClear, NoEntry
<1>13. CASE Tick
  <2>1. \A r \in Requests : request'[r].done = request[r].done
    BY <1>1, <1>13 DEF Tick, RequestType
  <2>2. \A d \in Devices : approvedCache'[d] > 0 => approvedCache[d] > 0
    BY <1>1, <1>13, TTLAssumption DEF Tick, NoEntry
  <2> QED  BY <1>2, <1>3, <1>13, <2>1, <2>2 DEF Tick
<1>14. CASE PollExit \/ CloseZero \/ UNCHANGED vars
  BY <1>3, <1>14 DEF PollExit, CloseZero, vars
<1> QED  BY <1>4, <1>5, <1>6, <1>8, <1>9, <1>10, <1>11, <1>12, <1>13, <1>14
         DEF Next, Close, Callback

(***************************************************************************)
(* The theorems.                                                             *)
(***************************************************************************)

\* IInv holds in every reachable state of the gate, whatever its limits, TTLs,
\* devices and callers: the bookkeeping of waitForApproval, runPending,
\* processCallback and Close stays consistent under every interleaving.
THEOREM Invariance == Spec => []IInv
<1>1. Init => IInv
  BY InitIInv
<1>2. IInv /\ [Next]_vars => IInv'
  BY TypeStep, WaitersStep, SendsStep, CallerStep, PendingStep, CloserStep, SecretsStep,
     ApprovedStep DEF IInv
<1> QED  BY <1>1, <1>2, PTL DEF Spec

\* Every variable keeps its type; in particular no token of g.sends is released
\* twice and no waiter is subtracted twice.
THEOREM TypeCorrect == Spec => []TypeOK
<1>1. IInv => TypeOK
  BY DEF IInv
<1> QED  BY <1>1, Invariance, PTL

\* The counter waiters of a request is the number of Check calls blocked on it.
THEOREM WaitersCorrect == Spec => []WaitersCounted
<1>1. IInv => WaitersCounted
  BY DEF IInv
<1> QED  BY <1>1, Invariance, PTL

\* No token of g.sends leaks.
THEOREM SendsCorrect == Spec => []SendsCounted
<1>1. IInv => SendsCounted
  BY DEF IInv
<1> QED  BY <1>1, Invariance, PTL

\* A request is pending exactly until its done channel is closed, and until then a
\* goroutine holds its deadline and somebody waits for it.
THEOREM PendingCorrect == Spec => []PendingSound
<1>1. IInv => PendingSound
  BY DEF IInv
<1> QED  BY <1>1, Invariance, PTL

\* Only its own Approve button approves a request.
THEOREM ApprovalBound == Spec => []ApprovedByOwnButton
<1>1. IInv => ApprovedByOwnButton
  BY DEF IInv
<1> QED  BY <1>1, Invariance, PTL

\* Close zeroes the bot token and the HMAC key only after their last user is gone.
THEOREM SecretsCorrect == Spec => []SecretsOutliveUsers
<1>1. IInv => SecretsOutliveUsers
  BY DEF IInv
<1> QED  BY <1>1, Invariance, PTL

\* A decision once taken is never overwritten by the deadline, by the last waiter,
\* by a failed send, by another press or by Close.
THEOREM DecisionFinal == Spec => DecisionIsFinal
<1> DEFINE Stands == \A r \in Requests :
             request[r].done /\ request'[r].done => request'[r].decision = request[r].decision
<1>1. IInv /\ [Next]_vars => [Stands]_vars
  BY DecisionStep
<1>2. []IInv /\ [][Next]_vars => [][Stands]_vars
  BY <1>1, PTL
<1> QED  BY <1>2, Invariance, PTL DEF Spec, DecisionIsFinal

\* No caller with a live context waits for a device that holds a live approval.
THEOREM NoWaitCorrect == Spec => []NoWaitBesideApproval
<1>1. Init => NoWaitBesideApproval
  BY DEF Init, NoWaitBesideApproval
<1>2. IInv /\ NoWaitBesideApproval /\ [Next]_vars => NoWaitBesideApproval'
  BY NoWaitStep
<1> QED  BY <1>1, <1>2, Invariance, PTL DEF Spec
=============================================================================
