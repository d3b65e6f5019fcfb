-------------------- MODULE TelegramGateContract_proofs --------------------
(***************************************************************************)
(* More about the Telegram gate, on top of the invariant IInv: its limits,   *)
(* who authorises an Approved, what one caller's leave does to another,      *)
(* when a device is prompted again, that it implements the contract Gate,    *)
(* and that neither a waiting caller nor Close is ever without a way out.    *)
(***************************************************************************)
EXTENDS TelegramGate_proofs

(***************************************************************************)
(* The limits.                                                              *)
(***************************************************************************)

\* The sets whose size is limited are finite, whatever Devices is.
LimitsSound ==
  /\ IsFiniteSet(PendingDevices)
  /\ IsFiniteSet(Keys(lastPrompt))
  /\ IsFiniteSet(Keys(approvedCache))
  /\ LimitsRespected

\* S fits a limit.
Fits(S, limit) == IsFiniteSet(S) /\ Cardinality(S) <= limit

LEMMA FitsSubset ==
  ASSUME NEW limit \in Nat, NEW S, Fits(S, limit), NEW T, T \subseteq S
  PROVE  Fits(T, limit)
<1>1. IsFiniteSet(T) /\ Cardinality(T) <= Cardinality(S)
  BY FS_Subset DEF Fits
<1>2. Cardinality(T) \in Nat /\ Cardinality(S) \in Nat
  BY <1>1, FS_CardinalityType DEF Fits
<1> QED  BY <1>1, <1>2 DEF Fits

LEMMA FitsOneMore ==
  ASSUME NEW limit \in Nat, NEW S, IsFiniteSet(S), ~(Cardinality(S) >= limit),
         NEW d, NEW T, T \subseteq S \cup {d}
  PROVE  Fits(T, limit)
<1>1. IsFiniteSet(S \cup {d}) /\ Cardinality(S \cup {d}) <= Cardinality(S) + 1
  BY FS_AddElement, FS_CardinalityType
<1>2. Cardinality(S) \in Nat /\ Cardinality(S \cup {d}) \in Nat
  BY <1>1, FS_CardinalityType
<1>3. Fits(S \cup {d}, limit)
  BY <1>1, <1>2 DEF Fits
<1> QED  BY <1>3, FitsSubset

\* What a step other than AdmitNew or an approval does to the three maps.
Shrink ==
  /\ PendingDevices' \subseteq PendingDevices
  /\ Keys(lastPrompt)' \subseteq Keys(lastPrompt)
  /\ Keys(approvedCache)' \subseteq Keys(approvedCache)

LEMMA PurgeShrinks ==
  ASSUME TypeOK
  PROVE  /\ Keys(LivePrompts) \subseteq Keys(lastPrompt)
         /\ Keys(LiveCache) \subseteq Keys(approvedCache)
BY DEF TypeOK, Keys, LivePrompts, LiveCache, NoEntry

LEMMA PendingWithoutShrinks ==
  ASSUME TypeOK, NEW r \in Requests, pendingRequests' = PendingWithout(r)
  PROVE  PendingDevices' \subseteq PendingDevices
BY DEF TypeOK, PendingWithout, PendingDevices

LEMMA MapsShrink ==
  ASSUME IInv, [Next]_vars
  PROVE  \/ Shrink
         \/ \E c \in Callers, r \in Requests : AdmitNew(c, r)
         \/ \E r \in Requests : CallbackApprove(r)
<1> SUFFICES ASSUME ~ \E c \in Callers, r \in Requests : AdmitNew(c, r),
                    ~ \E r \in Requests : CallbackApprove(r)
             PROVE  Shrink
  OBVIOUS
<1>1. TypeOK
  BY DEF IInv
<1>2. ASSUME UNCHANGED <<pendingRequests, lastPrompt, approvedCache>> PROVE Shrink
  BY <1>2 DEF Shrink, PendingDevices, Keys
<1>3. ASSUME NEW c \in Callers, Check(c) PROVE Shrink
  BY <1>2, <1>3 DEF Check, CheckEnter, CheckReject, CancelCtx
<1>4. ASSUME NEW c \in Callers, Admit(c) PROVE Shrink
  <2>1. CASE AdmitClosed(c)
    BY <1>2, <2>1 DEF AdmitClosed
  <2>2. CASE AdmitCached(c) \/ AdmitRefused(c) \/ AdmitJoin(c)
    <3>1. UNCHANGED pendingRequests /\ lastPrompt' = LivePrompts /\ approvedCache' = LiveCache
      BY <2>2 DEF AdmitCached, AdmitRefused, AdmitJoin, Purge
    <3>2. Keys(lastPrompt)' = Keys(LivePrompts) /\ Keys(approvedCache)' = Keys(LiveCache)
      BY <3>1 DEF Keys
    <3> QED  BY <1>1, <3>1, <3>2, PurgeShrinks DEF Shrink, PendingDevices
  <2> QED  BY <1>4, <2>1, <2>2 DEF Admit
<1>5. ASSUME NEW c \in Callers, Leave(c) PROVE Shrink
  <2>1. caller[c].request \in Requests /\ caller[c].device \in Devices
    BY <1>5, WaiterCounted DEF Leave, IInv, CallerSound
  <2>2. PendingDevices' \subseteq PendingDevices
    BY <1>1, <1>5, <2>1, PendingWithoutShrinks DEF Leave, PendingDevices
  <2>3. Keys(lastPrompt)' \subseteq Keys(lastPrompt)
    BY <1>1, <1>5, <2>1 DEF Leave, PromptsAfterLastWaiter, Keys, TypeOK
  <2> QED  BY <1>5, <2>2, <2>3 DEF Shrink, Leave, Keys
<1>6. ASSUME NEW r \in Requests, Send(r) PROVE Shrink
  BY <1>2, <1>6 DEF Send, SendOK, SendFail
<1>7. ASSUME NEW r \in Requests, SenderExit(r) \/ CallbackDeny(r) PROVE Shrink
  <2>1. pendingRequests' = PendingWithout(r) /\ UNCHANGED <<lastPrompt, approvedCache>>
    BY <1>7 DEF SenderExit, CallbackDeny, finishPendingLocked
  <2> QED  BY <1>1, <2>1, PendingWithoutShrinks DEF Shrink, Keys
<1>8. CASE CloseBegin \/ CloseClear
  BY <1>8 DEF CloseBegin, CloseClear, Shrink, PendingDevices, Keys
<1>9. CASE Tick
  <2>1. \A d \in Devices : lastPrompt[d] = NoEntry => lastPrompt'[d] = NoEntry
    BY <1>9 DEF Tick, Older
  <2>2. \A d \in Devices : approvedCache[d] = NoEntry => approvedCache'[d] = NoEntry
    BY <1>9 DEF Tick, NoEntry
  <2> QED  BY <1>9, <2>1, <2>2 DEF Tick, Shrink, PendingDevices, Keys
<1>10. CASE PollExit \/ CloseZero \/ UNCHANGED vars
  BY <1>2, <1>10 DEF PollExit, CloseZero, vars
<1> QED  BY <1>3, <1>4, <1>5, <1>6, <1>7, <1>8, <1>9, <1>10 DEF Next, Close, Callback

LEMMA WaitersFit ==
  ASSUME IInv, [Next]_vars, LimitsRespected, NEW r \in Requests
  PROVE  request'[r].waiters <= MaxWaitersPerDevice
<1> USE LimitsAssumption
<1>1. /\ request \in [Requests -> RequestType]
      /\ pendingRequests \in [Devices -> Requests \cup {None}]
  BY DEF IInv, TypeOK
<1>2. request[r].waiters \in Nat /\ request[r].waiters <= MaxWaitersPerDevice
  BY <1>1 DEF LimitsRespected, RequestType
<1>3. ASSUME NEW c \in Callers, NEW q \in Requests, AdmitNew(c, q)
      PROVE  request'[r].waiters <= MaxWaitersPerDevice
  BY <1>1, <1>2, <1>3 DEF AdmitNew, NewRequest
<1>4. ASSUME NEW c \in Callers, AdmitJoin(c)
      PROVE  request'[r].waiters <= MaxWaitersPerDevice
  <2> DEFINE q == pendingRequests[caller[c].device]
  <2>1. \/ request'[r].waiters = request[r].waiters
        \/ r = q /\ request'[r].waiters = request[r].waiters + 1
    <3>1. request' = [request EXCEPT ![q].waiters = @ + 1]
      BY <1>4 DEF AdmitJoin
    <3>2. CASE r = q
      BY <1>1, <3>1, <3>2 DEF RequestType
    <3>3. CASE r # q
      BY <1>1, <3>1, <3>3
    <3> QED  BY <3>2, <3>3
  <2>2. ~(request[q].waiters >= MaxWaitersPerDevice)
    BY <1>4 DEF AdmitJoin, WaitersFull
  <2> QED  BY <1>2, <2>1, <2>2
<1>5. ASSUME NEW c \in Callers, Leave(c)
      PROVE  request'[r].waiters <= MaxWaitersPerDevice
  <2> DEFINE q == caller[c].request
  <2>1. q \in Requests /\ request[q].waiters \in Nat \ {0}
    BY <1>5, WaiterCounted DEF Leave
  <2>2. Finished(q, "Denied") \in RequestType /\ Finished(q, "Denied").waiters = request[q].waiters
    BY <1>1, <2>1, FinishTypes DEF IInv, Decisions, Finished, RequestType
  <2>3. \/ request'[r].waiters = request[r].waiters
        \/ r = q /\ request'[r].waiters = request[r].waiters - 1
    <3>1. CASE r = q
      <4>1. \/ request' = [request EXCEPT ![q] = [Finished(q, "Denied") EXCEPT !.waiters = @ - 1]]
            \/ request' = [request EXCEPT ![q].waiters = @ - 1]
        BY <1>5 DEF Leave
      <4> QED  BY <1>1, <2>1, <2>2, <3>1, <4>1 DEF RequestType
    <3>2. CASE r # q
      BY <1>1, <1>5, <3>2 DEF Leave
    <3> QED  BY <3>1, <3>2
  <2> QED  BY <1>2, <2>1, <2>3
<1>6. ASSUME NEW q \in Requests, NEW decision \in Decisions, finishPendingLocked(q, decision)
      PROVE  request'[r].waiters <= MaxWaitersPerDevice
  BY <1>1, <1>2, <1>6 DEF finishPendingLocked, Finished, RequestType
<1>7. ASSUME UNCHANGED request
      PROVE  request'[r].waiters <= MaxWaitersPerDevice
  BY <1>2, <1>7
<1>8. ASSUME NEW c \in Callers, Check(c) \/ AdmitClosed(c) \/ AdmitCached(c) \/ AdmitRefused(c)
      PROVE  UNCHANGED request
  BY <1>8 DEF Check, CheckEnter, CheckReject, CancelCtx, AdmitClosed, AdmitCached, AdmitRefused
<1>9. ASSUME NEW q \in Requests, SenderExit(q) \/ Callback(q)
      PROVE  \E decision \in Decisions : finishPendingLocked(q, decision)
  BY <1>9 DEF SenderExit, Callback, CallbackApprove, CallbackDeny, Decisions
<1>10. CASE CloseBegin
  BY <1>1, <1>2, <1>10 DEF CloseBegin, Finished, RequestType
<1>11. CASE Tick
  BY <1>1, <1>2, <1>11 DEF Tick, RequestType
<1>12. CASE (\E q \in Requests : Send(q)) \/ PollExit \/ CloseZero \/ CloseClear \/ UNCHANGED vars
  BY <1>7, <1>12 DEF Send, SendOK, SendFail, PollExit, CloseZero, CloseClear, vars
<1> QED  BY <1>3, <1>4, <1>5, <1>6, <1>7, <1>8, <1>9, <1>10, <1>11, <1>12
         DEF Next, Admit, Close

LEMMA LimitsStep ==
  ASSUME IInv, LimitsSound, [Next]_vars
  PROVE  LimitsSound'
<1> USE LimitsAssumption
<1>1. \A r \in Requests : request'[r].waiters <= MaxWaitersPerDevice
  BY WaitersFit DEF LimitsSound
<1>2. /\ Fits(PendingDevices, MaxPendingRequests)
      /\ Fits(Keys(lastPrompt), MaxTrackedDevices)
      /\ Fits(Keys(approvedCache), MaxTrackedDevices)
  BY DEF LimitsSound, LimitsRespected, Fits
<1>3. SUFFICES /\ Fits(PendingDevices', MaxPendingRequests)
               /\ Fits(Keys(lastPrompt)', MaxTrackedDevices)
               /\ Fits(Keys(approvedCache)', MaxTrackedDevices)
  BY <1>1 DEF LimitsSound, LimitsRespected, Fits
<1>4. CASE Shrink
  BY <1>2, <1>4, FitsSubset DEF Shrink
<1>5. ASSUME NEW c \in Callers, NEW r \in Requests, AdmitNew(c, r)
      PROVE  /\ Fits(PendingDevices', MaxPendingRequests)
             /\ Fits(Keys(lastPrompt)', MaxTrackedDevices)
             /\ Fits(Keys(approvedCache)', MaxTrackedDevices)
  <2> DEFINE d == caller[c].device
  <2>1. /\ ~(Cardinality(PendingDevices) >= MaxPendingRequests)
        /\ ~(Cardinality(Keys(LivePrompts)) >= MaxTrackedDevices)
    BY <1>5 DEF AdmitNew, PromptRefused
  <2>2. /\ Keys(LivePrompts) \subseteq Keys(lastPrompt)
        /\ Keys(LiveCache) \subseteq Keys(approvedCache)
    BY PurgeShrinks DEF IInv
  <2>3. IsFiniteSet(Keys(LivePrompts))
    BY <1>2, <2>2, FS_Subset DEF Fits
  <2>4. PendingDevices' \subseteq PendingDevices \cup {d}
    BY <1>5 DEF AdmitNew, PendingDevices, IInv, TypeOK
  <2>5. Keys(lastPrompt)' \subseteq Keys(LivePrompts) \cup {d}
    BY <1>5 DEF AdmitNew, Keys, LivePrompts
  <2>6. Keys(approvedCache)' = Keys(LiveCache)
    BY <1>5 DEF AdmitNew, Keys
  <2>7. Fits(PendingDevices', MaxPendingRequests)
    BY <1>2, <2>1, <2>4, FitsOneMore DEF Fits
  <2>8. Fits(Keys(lastPrompt)', MaxTrackedDevices)
    BY <2>1, <2>3, <2>5, FitsOneMore
  <2>9. Fits(Keys(approvedCache)', MaxTrackedDevices)
    BY <1>2, <2>2, <2>6, FitsSubset
  <2> QED  BY <2>7, <2>8, <2>9
<1>6. ASSUME NEW r \in Requests, CallbackApprove(r)
      PROVE  /\ Fits(PendingDevices', MaxPendingRequests)
             /\ Fits(Keys(lastPrompt)', MaxTrackedDevices)
             /\ Fits(Keys(approvedCache)', MaxTrackedDevices)
  <2> DEFINE d == request[r].device
  <2>1. PendingDevices' \subseteq PendingDevices
    BY <1>6, PendingWithoutShrinks DEF CallbackApprove, finishPendingLocked, IInv
  <2>2. Keys(lastPrompt)' = Keys(lastPrompt)
    BY <1>6 DEF CallbackApprove, Keys
  <2>3. Fits(Keys(approvedCache)', MaxTrackedDevices)
    <3>1. CASE Cardinality(Keys(approvedCache)) < MaxTrackedDevices
      <4>1. ~(Cardinality(Keys(approvedCache)) >= MaxTrackedDevices)
        BY <1>2, <3>1, FS_CardinalityType DEF Fits
      <4>2. Keys(approvedCache)' \subseteq Keys(approvedCache) \cup {d}
        BY <1>6 DEF CallbackApprove, CacheApproval, Keys, IInv, TypeOK
      <4> QED  BY <1>2, <4>1, <4>2, FitsOneMore DEF Fits
    <3>2. CASE ~(Cardinality(Keys(approvedCache)) < MaxTrackedDevices)
      <4>1. Keys(approvedCache)' = Keys(approvedCache)
        BY <1>6, <3>2 DEF CallbackApprove, CacheApproval, Keys
      <4> QED  BY <1>2, <4>1
    <3> QED  BY <3>1, <3>2
  <2> QED  BY <1>2, <2>1, <2>2, <2>3, FitsSubset
<1> QED  BY <1>4, <1>5, <1>6, MapsShrink

\* Retained state never exceeds the fixed limits, whatever they are: waitForApproval
\* and processCallback compare before they insert, and nothing else inserts.
THEOREM LimitsCorrect == Spec => []LimitsRespected
<1>1. Init => LimitsSound
  <2> SUFFICES ASSUME Init PROVE LimitsSound
    OBVIOUS
  <2>1. PendingDevices = {} /\ Keys(lastPrompt) = {} /\ Keys(approvedCache) = {}
    BY DEF Init, PendingDevices, Keys
  <2>2. \A r \in Requests : request[r].waiters = 0
    BY DEF Init, NoRequest
  <2> QED  BY <2>1, <2>2, FS_EmptySet, LimitsAssumption DEF LimitsSound, LimitsRespected
<1>2. IInv /\ LimitsSound /\ [Next]_vars => LimitsSound'
  BY LimitsStep
<1>3. LimitsSound => LimitsRespected
  BY DEF LimitsSound
<1> QED  BY <1>1, <1>2, <1>3, Invariance, PTL DEF Spec

(***************************************************************************)
(* One caller's leave and the others.                                       *)
(***************************************************************************)

\* Two callers that wait for one request are two waiters.
LEMMA TwoWaiters ==
  ASSUME IInv, NEW r \in Requests, NEW b \in Waiting(r), NEW c \in Waiting(r), b # c
  PROVE  ~LastWaiter(r)
<1>1. Waiting(r) \subseteq Callers /\ IsFiniteSet(Waiting(r))
  BY FiniteAssumption, FS_Subset DEF Waiting
<1>2. Cardinality(Waiting(r)) \in Nat /\ Cardinality(Waiting(r) \ {b}) \in Nat
  BY <1>1, FS_CardinalityType, FS_Subset
<1>3. /\ IsFiniteSet(Waiting(r) \ {b})
      /\ Cardinality(Waiting(r) \ {b}) = Cardinality(Waiting(r)) - 1
  BY <1>1, FS_RemoveElement
<1>4. Cardinality(Waiting(r) \ {b}) # 0
  BY <1>3, FS_EmptySet
<1> QED  BY <1>2, <1>3, <1>4 DEF LastWaiter, IInv, WaitersCounted

LEMMA IndependentStep ==
  ASSUME IInv, [Next]_vars, NEW c \in Callers,
         caller[c].pc = "waiting", caller'[c].pc = "waiting",
         ~request[caller[c].request].done, request'[caller[c].request].done
  PROVE  caller' = caller
<1> DEFINE q == caller[c].request
<1>1. /\ request \in [Requests -> RequestType]
      /\ caller \in [Callers -> CallerType]
      /\ pendingRequests \in [Devices -> Requests \cup {None}]
      /\ q \in Requests
  BY DEF IInv, TypeOK, CallerSound
<1>2. request' # request
  OBVIOUS
<1>3. ASSUME NEW b \in Callers, Check(b) PROVE FALSE
  BY <1>2, <1>3 DEF Check, CheckEnter, CheckReject, CancelCtx
<1>4. ASSUME NEW b \in Callers, Admit(b) PROVE FALSE
  <2>1. ASSUME NEW r \in Requests, AdmitNew(b, r) PROVE FALSE
    <3>1. ~NewRequest(caller[b].device).done
      BY DEF NewRequest
    <3>2. request' = [request EXCEPT ![r] = NewRequest(caller[b].device)]
      BY <2>1 DEF AdmitNew
    <3> QED  BY <1>1, <3>1, <3>2
  <2>2. CASE AdmitJoin(b)
    BY <1>1, <2>2 DEF AdmitJoin, RequestType
  <2> QED  BY <1>2, <1>4, <2>1, <2>2 DEF Admit, AdmitClosed, AdmitCached, AdmitRefused
<1>5. ASSUME NEW b \in Callers, Leave(b) PROVE FALSE
  <2> DEFINE p == caller[b].request
  <2>1. b # c
    BY <1>1, <1>5 DEF Leave, Return
  <2>2. p \in Requests /\ caller[b].pc = "waiting"
    BY <1>5, WaiterCounted DEF Leave
  <2>3. p = q
    BY <1>1, <1>5, <2>2 DEF Leave
  <2>4. ~LastWaiter(q)
    BY <1>1, <2>1, <2>2, <2>3, TwoWaiters DEF Waiting
  <2>5. request' = [request EXCEPT ![q].waiters = @ - 1]
    BY <1>5, <2>3, <2>4 DEF Leave
  <2> QED  BY <1>1, <2>5 DEF RequestType
<1>6. ASSUME NEW r \in Requests, Send(r) PROVE FALSE
  BY <1>2, <1>6 DEF Send, SendOK, SendFail
<1>7. ASSUME NEW r \in Requests, SenderExit(r) \/ Callback(r) PROVE caller' = caller
  BY <1>7 DEF SenderExit, Callback, CallbackApprove, CallbackDeny
<1>8. CASE PollExit \/ Close \/ Tick \/ UNCHANGED vars
  BY <1>8 DEF PollExit, Close, CloseBegin, CloseZero, CloseClear, Tick, vars
<1> QED  BY <1>3, <1>4, <1>5, <1>6, <1>7, <1>8 DEF Next

\* However callers of one device come and go, none of them ends the request of another
\* (the count of waiters in waitForApproval).
THEOREM IndependentCorrect == Spec => IndependentCancellation
<1> DEFINE Stay ==
  \A c \in Callers :
    caller[c].pc = "waiting" /\ caller'[c].pc = "waiting"
      /\ ~request[caller[c].request].done /\ request'[caller[c].request].done =>
        caller' = caller
<1>1. IInv /\ [Next]_vars => [Stay]_vars
  BY IndependentStep
<1>2. []IInv /\ [][Next]_vars => [][Stay]_vars
  BY <1>1, PTL
<1> QED  BY <1>2, Invariance, PTL DEF Spec, IndependentCancellation

(***************************************************************************)
(* Who authorises an Approved.                                              *)
(***************************************************************************)

\* A live cache entry goes back to an approval young enough for it.
LeasesSound ==
  \A d \in Devices : approvedCache[d] > 0 =>
    \E r \in approvals :
      /\ request[r].device = d
      /\ request[r].age + approvedCache[d] <= ApprovalTTL + ApprovalCacheTTL

\* A step that makes no entry and touches neither ages nor devices keeps LeasesSound.
LEMMA LeasesFrame ==
  ASSUME LeasesSound, TypeOK, approvals \subseteq approvals',
         \A d \in Devices : approvedCache'[d] > 0 => approvedCache'[d] = approvedCache[d],
         \A r \in Requests : /\ request'[r].device = request[r].device
                             /\ request'[r].age = request[r].age
  PROVE  LeasesSound'
<1> SUFFICES ASSUME NEW d \in Devices, approvedCache'[d] > 0
             PROVE  \E r \in approvals' :
                      /\ request'[r].device = d
                      /\ request'[r].age + approvedCache'[d] <= ApprovalTTL + ApprovalCacheTTL
  BY DEF LeasesSound
<1>1. approvedCache'[d] = approvedCache[d] /\ approvals \subseteq Requests
  BY DEF TypeOK
<1>2. PICK r \in approvals :
        /\ request[r].device = d
        /\ request[r].age + approvedCache[d] <= ApprovalTTL + ApprovalCacheTTL
  BY <1>1 DEF LeasesSound
<1> QED  BY <1>1, <1>2

LEMMA PurgedEntry ==
  ASSUME TypeOK, NEW d \in Devices, LiveCache[d] > 0
  PROVE  LiveCache[d] = approvedCache[d]
BY DEF TypeOK, LiveCache, NoEntry

LEMMA LeasesStep ==
  ASSUME IInv, LeasesSound, [Next]_vars
  PROVE  LeasesSound'
<1> USE TTLAssumption
<1>1. /\ TypeOK
      /\ request \in [Requests -> RequestType]
      /\ approvedCache \in [Devices -> {NoEntry} \cup 0..ApprovalCacheTTL]
      /\ pendingRequests \in [Devices -> Requests \cup {None}]
      /\ approvals \subseteq Requests
  BY DEF IInv, TypeOK
<1>2. ASSUME UNCHANGED <<request, approvedCache, approvals>> PROVE LeasesSound'
  BY <1>2 DEF LeasesSound
<1>3. ASSUME NEW c \in Callers, Check(c) PROVE LeasesSound'
  BY <1>2, <1>3 DEF Check, CheckEnter, CheckReject, CancelCtx
<1>4. ASSUME NEW c \in Callers, AdmitClosed(c) \/ AdmitCached(c) \/ AdmitRefused(c)
      PROVE  LeasesSound'
  <2>1. UNCHANGED <<request, approvals>>
          /\ (approvedCache' = approvedCache \/ approvedCache' = LiveCache)
    BY <1>4 DEF AdmitClosed, AdmitCached, AdmitRefused, Purge
  <2> QED  BY <1>1, <2>1, PurgedEntry, LeasesFrame
<1>5. ASSUME NEW c \in Callers, AdmitJoin(c) PROVE LeasesSound'
  <2>1. UNCHANGED approvals /\ approvedCache' = LiveCache
    BY <1>5 DEF AdmitJoin, Purge
  <2>2. \A r \in Requests : /\ request'[r].device = request[r].device
                            /\ request'[r].age = request[r].age
    BY <1>1, <1>5 DEF AdmitJoin, RequestType
  <2> QED  BY <1>1, <2>1, <2>2, PurgedEntry, LeasesFrame
<1>6. ASSUME NEW c \in Callers, NEW q \in Requests, AdmitNew(c, q) PROVE LeasesSound'
  <2> SUFFICES ASSUME NEW d \in Devices, approvedCache'[d] > 0
               PROVE  \E r \in approvals' :
                        /\ request'[r].device = d
                        /\ request'[r].age + approvedCache'[d] <= ApprovalTTL + ApprovalCacheTTL
    BY DEF LeasesSound
  <2>1. approvedCache'[d] = approvedCache[d]
    BY <1>1, <1>6, PurgedEntry DEF AdmitNew
  <2>2. PICK r \in approvals :
          /\ request[r].device = d
          /\ request[r].age + approvedCache[d] <= ApprovalTTL + ApprovalCacheTTL
    BY <2>1 DEF LeasesSound
  <2>3. r # q
    <3>1. request[q].age = Horizon /\ Horizon > ApprovalTTL + ApprovalCacheTTL
      BY <1>6 DEF AdmitNew, Reusable, Horizon
    <3>2. request[r].age \in Nat
      BY <1>1, <2>2, HorizonBounds DEF RequestType
    <3>3. approvedCache[d] \in Nat /\ approvedCache[d] > 0
      <4>1. approvedCache[d] > 0 /\ approvedCache[d] \in {NoEntry} \cup 0..ApprovalCacheTTL
        BY <1>1, <2>1
      <4> QED  BY <4>1 DEF NoEntry
    <3> QED  BY <2>2, <3>1, <3>2, <3>3, HorizonBounds
  <2>4. r \in approvals' /\ request'[r] = request[r]
    BY <1>1, <1>6, <2>2, <2>3 DEF AdmitNew
  <2> QED  BY <2>1, <2>2, <2>4
<1>7. ASSUME NEW c \in Callers, Leave(c) PROVE LeasesSound'
  <2> DEFINE q == caller[c].request
  <2>1. q \in Requests
    BY <1>7, WaiterCounted DEF Leave
  <2>2. /\ Finished(q, "Denied") \in RequestType
        /\ Finished(q, "Denied").device = request[q].device
        /\ Finished(q, "Denied").age = request[q].age
    BY <1>1, <2>1, FinishTypes DEF Decisions, Finished, RequestType
  <2>3. \/ request' = [request EXCEPT ![q] = [Finished(q, "Denied") EXCEPT !.waiters = @ - 1]]
        \/ request' = [request EXCEPT ![q].waiters = @ - 1]
    BY <1>7 DEF Leave
  <2>4. ASSUME NEW r \in Requests PROVE /\ request'[r].device = request[r].device
                                        /\ request'[r].age = request[r].age
    BY <1>1, <2>1, <2>2, <2>3 DEF RequestType
  <2> QED  BY <1>1, <1>7, <2>4, LeasesFrame DEF Leave
<1>8. ASSUME NEW r \in Requests, NEW decision \in Decisions, finishPendingLocked(r, decision)
      PROVE  \A q \in Requests : /\ request'[q].device = request[q].device
                                 /\ request'[q].age = request[q].age
  BY <1>1, <1>8 DEF finishPendingLocked, Finished, RequestType
<1>9. ASSUME NEW r \in Requests, Send(r) PROVE LeasesSound'
  BY <1>2, <1>9 DEF Send, SendOK, SendFail
<1>10. ASSUME NEW r \in Requests, SenderExit(r) \/ CallbackDeny(r) PROVE LeasesSound'
  BY <1>1, <1>8, <1>10, LeasesFrame DEF SenderExit, CallbackDeny, Decisions
<1>11. ASSUME NEW r \in Requests, CallbackApprove(r) PROVE LeasesSound'
  <2>1. /\ r \in approvals' /\ approvals \subseteq approvals'
        /\ request[r].age \in Nat /\ request[r].age <= ApprovalTTL
        /\ request[r].device \in Devices
    BY <1>1, <1>11, HorizonBounds DEF CallbackApprove, CallbackLive, RequestType
  <2>2. \A q \in Requests : /\ request'[q].device = request[q].device
                            /\ request'[q].age = request[q].age
    BY <1>8, <1>11 DEF CallbackApprove, Decisions
  <2>3. CASE approvedCache' = approvedCache
    BY <1>1, <2>1, <2>2, <2>3, LeasesFrame
  <2>4. CASE approvedCache' = [approvedCache EXCEPT ![request[r].device] = ApprovalCacheTTL]
    <3> SUFFICES ASSUME NEW d \in Devices, approvedCache'[d] > 0
                 PROVE  \E q \in approvals' :
                          /\ request'[q].device = d
                          /\ request'[q].age + approvedCache'[d] <= ApprovalTTL + ApprovalCacheTTL
      BY DEF LeasesSound
    <3>1. CASE d = request[r].device
      BY <1>1, <2>1, <2>2, <2>4, <3>1
    <3>2. CASE d # request[r].device
      <4>1. approvedCache'[d] = approvedCache[d]
        BY <1>1, <2>4, <3>2
      <4>2. PICK q \in approvals :
              /\ request[q].device = d
              /\ request[q].age + approvedCache[d] <= ApprovalTTL + ApprovalCacheTTL
        BY <4>1 DEF LeasesSound
      <4> QED  BY <1>1, <2>1, <2>2, <4>1, <4>2
    <3> QED  BY <3>1, <3>2
  <2> QED  BY <1>11, <2>3, <2>4 DEF CallbackApprove, CacheApproval
<1>12. CASE CloseBegin
  <2>1. \A r \in Requests : /\ request'[r].device = request[r].device
                            /\ request'[r].age = request[r].age
    BY <1>1, <1>12 DEF CloseBegin, Finished, RequestType
  <2> QED  BY <1>1, <1>12, <2>1, LeasesFrame DEF CloseBegin
<1>13. CASE CloseClear
  BY <1>13 DEF CloseClear, LeasesSound, NoEntry
<1>14. CASE Tick
  <2> SUFFICES ASSUME NEW d \in Devices, approvedCache'[d] > 0
               PROVE  \E r \in approvals' :
                        /\ request'[r].device = d
                        /\ request'[r].age + approvedCache'[d] <= ApprovalTTL + ApprovalCacheTTL
    BY DEF LeasesSound
  <2>1. approvedCache[d] > 0 /\ approvedCache'[d] = approvedCache[d] - 1
    BY <1>1, <1>14 DEF Tick, NoEntry
  <2>2. PICK r \in approvals :
          /\ request[r].device = d
          /\ request[r].age + approvedCache[d] <= ApprovalTTL + ApprovalCacheTTL
    BY <2>1 DEF LeasesSound
  <2>3. /\ request'[r].device = d /\ request'[r].age = Older(request[r].age, Horizon)
        /\ r \in approvals'
    BY <1>1, <1>14, <2>2 DEF Tick, RequestType
  <2>4. request[r].age \in Nat /\ approvedCache[d] \in Nat
    BY <1>1, <2>1, <2>2, HorizonBounds DEF RequestType, NoEntry
  <2>5. Older(request[r].age, Horizon) \in {request[r].age, request[r].age + 1}
    BY DEF Older
  <2> QED  BY <2>1, <2>2, <2>3, <2>4, <2>5
<1>15. CASE PollExit \/ CloseZero \/ UNCHANGED vars
  BY <1>2, <1>15 DEF PollExit, CloseZero, vars
<1> QED  BY <1>3, <1>4, <1>5, <1>6, <1>7, <1>9, <1>10, <1>11, <1>12, <1>13, <1>14, <1>15
         DEF Next, Admit, Close, Callback

LEMMA AuthorizedStep ==
  ASSUME IInv, LeasesSound, [Next]_vars, NEW c \in Callers,
         caller'[c].result = "Approved", caller[c].result # "Approved"
  PROVE  \E r \in approvals :
           /\ request[r].device = caller[c].device
           /\ \/ caller[c].request = r
              \/ ApprovalCacheTTL > 0 /\ request[r].age < ApprovalTTL + ApprovalCacheTTL
<1> DEFINE Goal == \E r \in approvals :
                     /\ request[r].device = caller[c].device
                     /\ \/ caller[c].request = r
                        \/ ApprovalCacheTTL > 0 /\ request[r].age < ApprovalTTL + ApprovalCacheTTL
<1> USE TTLAssumption
<1>1. /\ caller \in [Callers -> CallerType] /\ request \in [Requests -> RequestType]
      /\ approvedCache \in [Devices -> {NoEntry} \cup 0..ApprovalCacheTTL]
      /\ approvals \subseteq Requests
  BY DEF IInv, TypeOK
<1>2. caller'[c] # caller[c]
  OBVIOUS
<1>3. ASSUME NEW b \in Callers, Check(b) PROVE FALSE
  BY <1>1, <1>2, <1>3 DEF Check, CheckEnter, CheckReject, CancelCtx, Return, CallerType
<1>4. ASSUME NEW b \in Callers, Admit(b) PROVE Goal
  <2>1. CASE AdmitClosed(b) \/ AdmitRefused(b)
    BY <1>1, <1>2, <2>1 DEF AdmitClosed, AdmitRefused, Return
  <2>2. CASE AdmitJoin(b)
    BY <1>1, <1>2, <2>2 DEF AdmitJoin, CallerType
  <2>3. ASSUME NEW q \in Requests, AdmitNew(b, q) PROVE Goal
    BY <1>1, <1>2, <2>3 DEF AdmitNew, CallerType
  <2>4. CASE AdmitCached(b)
    <3> DEFINE d == caller[c].device
    <3>1. b = c
      BY <1>1, <1>2, <2>4 DEF AdmitCached, Return
    <3>2. d \in Devices /\ LiveCache[d] # NoEntry
      BY <2>4, <3>1 DEF AdmitCached, CacheHit, IInv, CallerSound
    <3>3. approvedCache[d] > 0 /\ approvedCache[d] <= ApprovalCacheTTL /\ approvedCache[d] \in Nat
      BY <1>1, <3>2 DEF LiveCache, NoEntry
    <3>4. PICK r \in approvals :
            /\ request[r].device = d
            /\ request[r].age + approvedCache[d] <= ApprovalTTL + ApprovalCacheTTL
      BY <3>2, <3>3 DEF LeasesSound
    <3>5. request[r].age \in Nat
      BY <1>1, <3>4, HorizonBounds DEF RequestType
    <3> QED  BY <3>3, <3>4, <3>5
  <2> QED  BY <1>4, <2>1, <2>2, <2>3, <2>4 DEF Admit
<1>5. ASSUME NEW b \in Callers, Leave(b) PROVE Goal
  <2> DEFINE r == caller[c].request
  <2>1. b = c
    BY <1>1, <1>2, <1>5 DEF Leave, Return
  <2>2. Result(c, r) = "Approved"
    BY <1>1, <1>5, <2>1 DEF Leave, Return
  <2>3. r \in Requests /\ request[r].device = caller[c].device
    BY <1>5, <2>1 DEF Leave, IInv, CallerSound
  <2>4. r \in approvals
    BY <2>2, <2>3 DEF Result, IInv, ApprovedByOwnButton
  <2> QED  BY <2>3, <2>4
<1>6. ASSUME NEW r \in Requests, Send(r) \/ SenderExit(r) \/ Callback(r) PROVE FALSE
  BY <1>2, <1>6 DEF Send, SendOK, SendFail, SenderExit, Callback, CallbackApprove, CallbackDeny
<1>7. CASE PollExit \/ Close \/ Tick \/ UNCHANGED vars
  BY <1>2, <1>7 DEF PollExit, Close, CloseBegin, CloseZero, CloseClear, Tick, vars
<1> QED  BY <1>3, <1>4, <1>5, <1>6, <1>7 DEF Next

\* Every Approved goes back to a press of the operator for that very request, or, with
\* caching on, for the device and less than ApprovalTTL + ApprovalCacheTTL after its
\* prompt (Check, processCallback).
THEOREM AuthorizedCorrect == Spec => AuthorizedByOperator
<1> DEFINE Authorized ==
  \A c \in Callers :
    caller'[c].result = "Approved" /\ caller[c].result # "Approved" =>
      \E r \in approvals :
        /\ request[r].device = caller[c].device
        /\ \/ caller[c].request = r
           \/ ApprovalCacheTTL > 0 /\ request[r].age < ApprovalTTL + ApprovalCacheTTL
<1>1. Init => LeasesSound
  BY DEF Init, LeasesSound, NoEntry
<1>2. IInv /\ LeasesSound /\ [Next]_vars => LeasesSound'
  BY LeasesStep
<1>3. IInv /\ LeasesSound /\ [Next]_vars => [Authorized]_vars
  BY AuthorizedStep
<1>4. Spec => []LeasesSound
  BY <1>1, <1>2, Invariance, PTL DEF Spec
<1>5. []IInv /\ []LeasesSound /\ [][Next]_vars => [][Authorized]_vars
  BY <1>3, PTL
<1> QED  BY <1>4, <1>5, Invariance, PTL DEF Spec, AuthorizedByOperator

(***************************************************************************)
(* When a device is prompted again.                                         *)
(***************************************************************************)

\* Only a new request and time change ages and devices.
LEMMA AgesKept ==
  ASSUME IInv, [Next]_vars, ~Tick,
         \A c \in Callers, r \in Requests : ~AdmitNew(c, r),
         NEW q \in Requests
  PROVE  request'[q].device = request[q].device /\ request'[q].age = request[q].age
<1> DEFINE Goal == request'[q].device = request[q].device /\ request'[q].age = request[q].age
<1>1. TypeOK /\ request \in [Requests -> RequestType]
  BY DEF IInv, TypeOK
<1>2. ASSUME NEW c \in Callers, Check(c) \/ Admit(c) PROVE Goal
  <2>1. CASE AdmitJoin(c)
    BY <1>1, <2>1 DEF AdmitJoin, RequestType
  <2> QED  BY <1>2, <2>1 DEF Check, CheckEnter, CheckReject, CancelCtx, Admit, AdmitClosed,
             AdmitCached, AdmitRefused
<1>3. ASSUME NEW c \in Callers, Leave(c) PROVE Goal
  <2> DEFINE r == caller[c].request
  <2>1. r \in Requests
    BY <1>3, WaiterCounted DEF Leave
  <2>2. /\ Finished(r, "Denied") \in RequestType
        /\ Finished(r, "Denied").device = request[r].device
        /\ Finished(r, "Denied").age = request[r].age
    BY <1>1, <2>1, FinishTypes DEF Decisions, Finished, RequestType
  <2>3. \/ request' = [request EXCEPT ![r] = [Finished(r, "Denied") EXCEPT !.waiters = @ - 1]]
        \/ request' = [request EXCEPT ![r].waiters = @ - 1]
    BY <1>3 DEF Leave
  <2> QED  BY <1>1, <2>1, <2>2, <2>3 DEF RequestType
<1>4. ASSUME NEW r \in Requests, SenderExit(r) \/ Callback(r) PROVE Goal
  <2>1. PICK decision \in Decisions : finishPendingLocked(r, decision)
    BY <1>4 DEF SenderExit, Callback, CallbackApprove, CallbackDeny, Decisions
  <2> QED  BY <1>1, <2>1 DEF finishPendingLocked, Finished, RequestType
<1>5. CASE CloseBegin
  BY <1>1, <1>5 DEF CloseBegin, Finished, RequestType
<1>6. CASE (\E r \in Requests : Send(r)) \/ PollExit \/ CloseZero \/ CloseClear \/ UNCHANGED vars
  BY <1>6 DEF Send, SendOK, SendFail, PollExit, CloseZero, CloseClear, vars
<1> QED  BY <1>2, <1>3, <1>4, <1>5, <1>6 DEF Next, Close

\* While the gate is open, a prompt younger than PromptInterval is remembered, unless
\* a caller of its device has since left with its context cancelled.
Remembered(q) ==
  LET d == request[q].device IN
  \/ request[q].age >= PromptInterval
  \/ lastPrompt[d] # NoEntry /\ lastPrompt[d] <= request[q].age

PromptsSound ==
  ~closed => \A q \in Requests : request[q].device \in Devices \ withdrawn => Remembered(q)

\* Forgetting the prompts of withdrawn devices and those older than PromptInterval is sound.
LEMMA PromptsFrame ==
  ASSUME IInv, PromptsSound, closed => closed', withdrawn \subseteq withdrawn',
         NEW q \in Requests, ~closed', request[q].device \in Devices \ withdrawn',
         request'[q].device = request[q].device, request'[q].age = request[q].age,
         \/ lastPrompt'[request[q].device] = lastPrompt[request[q].device]
         \/ lastPrompt[request[q].device] >= PromptInterval
  PROVE  Remembered(q)'
<1>1. Remembered(q)
  BY DEF PromptsSound
<1>2. /\ request[q].age \in Nat
      /\ lastPrompt[request[q].device] \in {NoEntry} \cup 0..PromptInterval
  BY HorizonBounds DEF IInv, TypeOK, RequestType
<1> QED  BY <1>1, <1>2, TTLAssumption DEF Remembered

LEMMA PromptsStep ==
  ASSUME IInv, PromptsSound, [Next]_vars
  PROVE  PromptsSound'
<1> SUFFICES ASSUME ~closed', NEW q \in Requests, request'[q].device \in Devices \ withdrawn'
             PROVE  Remembered(q)'
  BY DEF PromptsSound
<1> DEFINE d == request[q].device
<1>1. /\ request \in [Requests -> RequestType]
      /\ lastPrompt \in [Devices -> {NoEntry} \cup 0..PromptInterval]
      /\ request[q].age \in 0..Horizon
  BY DEF IInv, TypeOK, RequestType
<1>2. closed => closed'
  BY DEF Next, Check, CheckEnter, CheckReject, CancelCtx, Admit, AdmitClosed, AdmitCached,
     AdmitRefused, AdmitNew, AdmitJoin, Leave, Send, SendOK, SendFail, SenderExit, Callback,
     CallbackApprove, CallbackDeny, PollExit, Close, CloseBegin, CloseZero, CloseClear, Tick, vars
<1>3. \A e \in Devices : LivePrompts[e] = lastPrompt[e] \/ lastPrompt[e] >= PromptInterval
  <2> SUFFICES ASSUME NEW e \in Devices
               PROVE  LivePrompts[e] = lastPrompt[e] \/ lastPrompt[e] >= PromptInterval
    OBVIOUS
  <2>1. lastPrompt[e] \in Int
    BY <1>1, TTLAssumption DEF NoEntry
  <2> QED  BY <2>1, TTLAssumption DEF LivePrompts
<1>4. ASSUME NEW c \in Callers, NEW r \in Requests, AdmitNew(c, r) PROVE Remembered(q)'
  <2> DEFINE e == caller[c].device
  <2>1. e \in Devices /\ withdrawn' = withdrawn \ {e} /\ UNCHANGED closed
    BY <1>4 DEF AdmitNew, IInv, CallerSound
  <2>2. /\ request' = [request EXCEPT ![r] = NewRequest(e)]
        /\ lastPrompt' = [LivePrompts EXCEPT ![e] = 0]
    BY <1>4 DEF AdmitNew
  <2>3. request'[q].age \in Nat
    BY <1>1, <2>2, HorizonBounds DEF NewRequest
  <2>4. CASE request'[q].device = e
    <3>1. lastPrompt'[e] = 0
      BY <2>1, <2>2 DEF LivePrompts
    <3> QED  BY <2>3, <2>4, <3>1 DEF Remembered, NoEntry
  <2>5. CASE request'[q].device # e
    <3>1. q # r
      BY <1>1, <2>2, <2>5 DEF NewRequest
    <3>2. request'[q] = request[q] /\ d \in Devices \ withdrawn /\ d # e
      BY <2>1, <2>2, <2>5, <3>1
    <3>3. Remembered(q) /\ lastPrompt'[d] = LivePrompts[d]
      BY <2>1, <2>2, <3>2 DEF PromptsSound, LivePrompts
    <3>4. lastPrompt'[d] = lastPrompt[d] \/ lastPrompt[d] >= PromptInterval
      BY <1>3, <3>2, <3>3
    <3>5. lastPrompt[d] \in {NoEntry} \cup 0..PromptInterval
      BY <1>1, <3>2
    <3> QED  BY <1>1, <3>2, <3>3, <3>4, <3>5, TTLAssumption, HorizonBounds DEF Remembered
  <2> QED  BY <2>4, <2>5
<1>5. CASE Tick
  <2>1. /\ request'[q].device = d
        /\ request'[q].age = Older(request[q].age, Horizon)
        /\ UNCHANGED <<closed, withdrawn>>
    BY <1>1, <1>5 DEF Tick, RequestType
  <2>2. d \in Devices \ withdrawn /\ Remembered(q)
    BY <2>1 DEF PromptsSound
  <2>3. /\ lastPrompt'[d] = Older(lastPrompt[d], PromptInterval)
        /\ lastPrompt[d] \in {NoEntry} \cup 0..PromptInterval
    BY <1>1, <1>5, <2>2 DEF Tick
  <2>4. CASE request[q].age >= PromptInterval
    BY <1>1, <2>1, <2>4, TTLAssumption, HorizonBounds DEF Remembered, Older
  <2>5. CASE lastPrompt[d] # NoEntry /\ lastPrompt[d] <= request[q].age
    <3>1. Older(lastPrompt[d], PromptInterval) # NoEntry
      BY <2>3, <2>5, TTLAssumption DEF Older, NoEntry
    <3>2. \/ Older(lastPrompt[d], PromptInterval) <= Older(request[q].age, Horizon)
          \/ Older(request[q].age, Horizon) >= PromptInterval
      BY <1>1, <2>3, <2>5, TTLAssumption, HorizonBounds DEF Older, NoEntry
    <3> QED  BY <2>1, <2>3, <3>1, <3>2 DEF Remembered
  <2> QED  BY <2>2, <2>4, <2>5 DEF Remembered
<1>6. CASE ~Tick /\ \A c \in Callers, r \in Requests : ~AdmitNew(c, r)
  <2>1. request'[q].device = d /\ request'[q].age = request[q].age
    BY <1>6, AgesKept
  <2>2. SUFFICES /\ withdrawn \subseteq withdrawn'
                 /\ lastPrompt'[d] = lastPrompt[d] \/ lastPrompt[d] >= PromptInterval
    BY <1>2, <2>1, PromptsFrame
  <2>3. d \in Devices \ withdrawn'
    BY <2>1
  <2>4. ASSUME NEW c \in Callers, Admit(c)
        PROVE  UNCHANGED withdrawn /\ (lastPrompt' = lastPrompt \/ lastPrompt' = LivePrompts)
    BY <1>6, <2>4 DEF Admit, AdmitClosed, AdmitCached, AdmitRefused, AdmitJoin, Purge
  <2>5. ASSUME NEW c \in Callers, Leave(c)
        PROVE  withdrawn \subseteq withdrawn' /\ lastPrompt'[d] = lastPrompt[d]
    BY <1>1, <2>3, <2>5 DEF Leave, PromptsAfterLastWaiter
  <2>6. ASSUME NEW c \in Callers, Check(c) PROVE UNCHANGED <<withdrawn, lastPrompt>>
    BY <2>6 DEF Check, CheckEnter, CheckReject, CancelCtx
  <2>7. ASSUME NEW r \in Requests, Send(r) \/ SenderExit(r) \/ Callback(r)
        PROVE  UNCHANGED <<withdrawn, lastPrompt>>
    BY <2>7 DEF Send, SendOK, SendFail, SenderExit, Callback, CallbackApprove, CallbackDeny
  <2>8. ASSUME PollExit \/ CloseBegin \/ CloseZero \/ UNCHANGED vars
        PROVE  UNCHANGED <<withdrawn, lastPrompt>>
    BY <2>8 DEF PollExit, CloseBegin, CloseZero, vars
  <2>9. ~CloseClear
    BY DEF CloseClear, IInv, CloserSound
  <2> QED  BY <1>3, <1>6, <2>3, <2>4, <2>5, <2>6, <2>7, <2>8, <2>9 DEF Next, Close
<1> QED  BY <1>4, <1>5, <1>6

LEMMA SpacingStep ==
  ASSUME IInv, PromptsSound, [Next]_vars, NEW r \in Requests, NEW q \in Requests,
         Created(r), q # r, request[q].device = request'[r].device
  PROVE  request[q].age >= PromptInterval \/ request[q].device \in withdrawn
<1>1. /\ request \in [Requests -> RequestType]
      /\ lastPrompt \in [Devices -> {NoEntry} \cup 0..PromptInterval]
      /\ request[q].age \in Nat
  BY HorizonBounds DEF IInv, TypeOK, RequestType
<1>2. request[r].age = Horizon /\ request'[r].age = 0 /\ Horizon # 0
  BY HorizonBounds, TTLAssumption DEF Created
<1>3. ~Tick
  BY <1>1, <1>2 DEF Tick, Older, RequestType
<1>4. PICK c \in Callers, p \in Requests : AdmitNew(c, p)
  BY <1>2, <1>3, AgesKept
<1> DEFINE d == caller[c].device
<1>5. request' = [request EXCEPT ![p] = NewRequest(d)] /\ d \in Devices /\ ~closed
  BY <1>4 DEF AdmitNew, IInv, CallerSound
<1>6. p = r
  BY <1>2, <1>5
<1>7. request[q].device = d
  BY <1>1, <1>5, <1>6 DEF NewRequest
<1>8. lastPrompt[d] \in {NoEntry} \cup 0..PromptInterval /\ lastPrompt[d] \in Int
  BY <1>1, <1>5, TTLAssumption DEF NoEntry
<1>9. lastPrompt[d] = NoEntry \/ lastPrompt[d] >= PromptInterval
  <2>1. LivePrompts[d] = NoEntry
    BY <1>4 DEF AdmitNew, PromptRefused
  <2> QED  BY <1>5, <1>8, <2>1, TTLAssumption DEF LivePrompts
<1> QED  BY <1>1, <1>5, <1>7, <1>8, <1>9, TTLAssumption DEF PromptsSound, Remembered, NoEntry

\* Denials, timeouts, failed sends and approvals that were not cached or ran out leave a
\* device unprompted for PromptInterval; only a cancelled caller that left does not
\* (the purge, the insertion and the deletion in waitForApproval).
THEOREM SpacingCorrect == Spec => PromptSpacingUnlessCancelled
<1> DEFINE Spaced ==
  \A r, q \in Requests :
    Created(r) /\ q # r /\ request[q].device = request'[r].device =>
      request[q].age >= PromptInterval \/ request[q].device \in withdrawn
<1>1. Init => PromptsSound
  BY NoneAssumption DEF Init, PromptsSound, NoRequest
<1>2. IInv /\ PromptsSound /\ [Next]_vars => PromptsSound'
  BY PromptsStep
<1>3. IInv /\ PromptsSound /\ [Next]_vars => [Spaced]_vars
  BY SpacingStep
<1>4. Spec => []PromptsSound
  BY <1>1, <1>2, Invariance, PTL DEF Spec
<1>5. []IInv /\ []PromptsSound /\ [][Next]_vars => [][Spaced]_vars
  BY <1>3, PTL
<1> QED  BY <1>4, <1>5, Invariance, PTL DEF Spec, PromptSpacingUnlessCancelled

(***************************************************************************)
(* The gate implements the contract Gate: every step is a step of the       *)
(* contract or leaves what the contract sees alone.                         *)
(***************************************************************************)

\* What the contract sees, besides GrantedCallers and closed.
CallOf   == [c \in Callers |-> caller[c].device]
ResultOf == [c \in Callers |-> caller[c].result]
Leased   == {d \in Devices : approvedCache[d] > 0}

Seen == <<CallOf, ResultOf, GrantedCallers, Leased, closed>>

\* A goroutine outside Check asks for no device.
IdleSound == \A c \in Callers : caller[c].pc = "idle" => caller[c].device = None

LEMMA IdleStep ==
  ASSUME IInv, IdleSound, [Next]_vars
  PROVE  IdleSound'
<1>1. caller \in [Callers -> CallerType]
  BY DEF IInv, TypeOK
<1>2. ASSUME UNCHANGED caller PROVE IdleSound'
  BY <1>2 DEF IdleSound
<1>3. ASSUME NEW c \in Callers, Check(c) PROVE IdleSound'
  BY <1>1, <1>3 DEF Check, CheckEnter, CheckReject, CancelCtx, Return, IdleSound, CallerType
<1>4. ASSUME NEW c \in Callers, Admit(c) PROVE IdleSound'
  BY <1>1, <1>4 DEF Admit, AdmitClosed, AdmitCached, AdmitRefused, AdmitNew, AdmitJoin,
     Return, IdleSound, CallerType
<1>5. ASSUME NEW c \in Callers, Leave(c) PROVE IdleSound'
  BY <1>1, <1>5 DEF Leave, Return, IdleSound
<1>6. ASSUME NEW r \in Requests, Send(r) \/ SenderExit(r) \/ Callback(r) PROVE UNCHANGED caller
  BY <1>6 DEF Send, SendOK, SendFail, SenderExit, Callback, CallbackApprove, CallbackDeny
<1>7. ASSUME PollExit \/ Close \/ Tick \/ UNCHANGED vars PROVE UNCHANGED caller
  BY <1>7 DEF PollExit, Close, CloseBegin, CloseZero, CloseClear, Tick, vars
<1> QED  BY <1>2, <1>3, <1>4, <1>5, <1>6, <1>7 DEF Next

\* The purge takes no lease that is still alive.
LEMMA PurgeKeepsLeases ==
  ASSUME TypeOK, approvedCache' = LiveCache
  PROVE  Leased' = Leased
BY DEF TypeOK, LiveCache, Leased, NoEntry

\* A finished request stays granted or not; denying a pending one grants nobody.
LEMMA DenialGrantsNobody ==
  ASSUME IInv, UNCHANGED caller,
         \A r \in Requests : request'[r] \in {request[r], Finished(r, "Denied")}
  PROVE  GrantedCallers' = GrantedCallers
<1>1. ASSUME NEW r \in Requests
      PROVE  (request'[r].done /\ request'[r].decision = "Approved") <=>
             (request[r].done /\ request[r].decision = "Approved")
  <2>1. request[r] \in RequestType
    BY DEF IInv, TypeOK
  <2>2. IsPending(r) => ~request[r].done
    BY DEF IInv, PendingSound
  <2>3. Finished(r, "Denied") = request[r] \/
        (IsPending(r) /\ Finished(r, "Denied").decision = "Denied")
    BY <2>1 DEF Finished, RequestType
  <2> QED  BY <2>2, <2>3
<1>2. \A c \in Callers : caller[c].pc = "waiting" => caller[c].request \in Requests
  BY DEF IInv, CallerSound
<1> QED  BY <1>1, <1>2 DEF GrantedCallers

\* A goroutine that leaves Check is no longer granted, and nobody else's grant changes.
LEMMA GrantsAfterReturn ==
  ASSUME IInv, NEW c \in Callers, NEW res, Return(c, res),
         \A b \in Callers : b # c /\ caller[b].pc = "waiting" =>
           /\ request'[caller[b].request].done = request[caller[b].request].done
           /\ request'[caller[b].request].decision = request[caller[b].request].decision
  PROVE  /\ CallOf' = [CallOf EXCEPT ![c] = None]
         /\ ResultOf' = [ResultOf EXCEPT ![c] = res]
         /\ GrantedCallers' = GrantedCallers \ {c}
<1>1. caller \in [Callers -> CallerType]
  BY DEF IInv, TypeOK
<1>2. /\ caller'[c].pc = "idle" /\ caller'[c].device = None /\ caller'[c].result = res
      /\ \A b \in Callers : b # c => caller'[b] = caller[b]
  BY <1>1 DEF Return
<1>3. CallOf' = [CallOf EXCEPT ![c] = None] /\ ResultOf' = [ResultOf EXCEPT ![c] = res]
  BY <1>2 DEF CallOf, ResultOf
<1>4. GrantedCallers' = GrantedCallers \ {c}
  BY <1>2 DEF GrantedCallers
<1> QED  BY <1>3, <1>4

\* What makes a step a Return of the contract.
LEMMA ReturnImplemented ==
  ASSUME NEW c \in Callers, NEW res \in {"Approved", "Denied", "Error"},
         CallOf' = [CallOf EXCEPT ![c] = None],
         ResultOf' = [ResultOf EXCEPT ![c] = res],
         GrantedCallers' = GrantedCallers \ {c},
         Leased' = Leased, UNCHANGED closed,
         caller[c].device \in Devices,
         res = "Approved" => ~closed /\ (c \in GrantedCallers \/ caller[c].device \in Leased)
  PROVE  Contract!Next
<1>1. Contract!Return(c, res)
  BY NoneAssumption DEF Contract!Return, CallOf, ResultOf, Leased
<1>2. res \in Contract!Results \ {"none"}
  BY DEF Contract!Results
<1> QED  BY <1>1, <1>2 DEF Contract!Next

LEMMA SeenIsGateVars == Seen' = Seen => UNCHANGED Contract!gateVars
BY DEF Seen, CallOf, ResultOf, Leased, Contract!gateVars

LEMMA CheckImplemented ==
  ASSUME IInv, IdleSound, NEW c \in Callers, Check(c)
  PROVE  Contract!Next \/ Seen' = Seen
<1>1. caller \in [Callers -> CallerType]
  BY DEF IInv, TypeOK
<1>2. ASSUME NEW d \in Devices, CheckEnter(c, d) PROVE Contract!Next
  <2>1. caller[c].device = None /\ caller[c].pc = "idle"
    BY <1>2 DEF CheckEnter, IdleSound
  <2>2. /\ CallOf' = [CallOf EXCEPT ![c] = d] /\ ResultOf' = [ResultOf EXCEPT ![c] = "none"]
    BY <1>1, <1>2 DEF CheckEnter, CallOf, ResultOf
  <2>3. GrantedCallers' = GrantedCallers
    BY <1>1, <1>2, <2>1 DEF CheckEnter, GrantedCallers
  <2>4. Leased' = Leased /\ UNCHANGED closed
    BY <1>2 DEF CheckEnter, Leased
  <2>5. Contract!Call(c, d)
    BY <2>1, <2>2, <2>3, <2>4 DEF Contract!Call, CallOf, ResultOf, Leased
  <2> QED  BY <2>5 DEF Contract!Next
<1>3. ASSUME NEW res \in {"Denied", "Error"}, CheckReject(c, res) PROVE Contract!Next
  <2>1. caller[c].device = None /\ caller[c].pc = "idle"
    BY <1>3 DEF CheckReject, IdleSound
  <2>2. /\ CallOf' = CallOf /\ ResultOf' = [ResultOf EXCEPT ![c] = res]
    BY <1>1, <1>3, <2>1 DEF CheckReject, Return, CallOf, ResultOf
  <2>3. GrantedCallers' = GrantedCallers
    BY <1>1, <1>3, <2>1 DEF CheckReject, Return, GrantedCallers
  <2>4. Leased' = Leased /\ UNCHANGED closed
    BY <1>3 DEF CheckReject, Leased
  <2>5. Contract!Refuse(c, res)
    BY <2>1, <2>2, <2>3, <2>4 DEF Contract!Refuse, CallOf, ResultOf, Leased
  <2>6. res \in Contract!Results \ {"none"}
    BY DEF Contract!Results
  <2> QED  BY <2>5, <2>6 DEF Contract!Next
<1>4. CASE CancelCtx(c)
  <2>1. \A b \in Callers : /\ caller'[b].pc = caller[b].pc
                           /\ caller'[b].device = caller[b].device
                           /\ caller'[b].request = caller[b].request
                           /\ caller'[b].result = caller[b].result
    BY <1>1, <1>4 DEF CancelCtx, CallerType
  <2>2. CallOf' = CallOf /\ ResultOf' = ResultOf
    BY <2>1 DEF CallOf, ResultOf
  <2>3. GrantedCallers' = GrantedCallers
    BY <1>4, <2>1 DEF CancelCtx, GrantedCallers
  <2> QED  BY <1>4, <2>2, <2>3 DEF CancelCtx, Seen, Leased
<1> QED  BY <1>2, <1>3, <1>4 DEF Check

LEMMA AdmitImplemented ==
  ASSUME IInv, NEW c \in Callers, Admit(c)
  PROVE  Contract!Next \/ Seen' = Seen
<1> DEFINE d == caller[c].device
<1>1. /\ TypeOK
      /\ caller \in [Callers -> CallerType]
      /\ request \in [Requests -> RequestType]
      /\ approvedCache \in [Devices -> {NoEntry} \cup 0..ApprovalCacheTTL]
  BY DEF IInv, TypeOK
<1>2. caller[c].pc = "checked" /\ d \in Devices /\ c \notin GrantedCallers
  BY DEF Admit, AdmitClosed, AdmitCached, AdmitRefused, AdmitNew, AdmitJoin, IInv, CallerSound,
     GrantedCallers
<1>3. CASE AdmitClosed(c)
  <2>1. Return(c, "Denied") /\ UNCHANGED <<request, approvedCache, closed>>
    BY <1>3 DEF AdmitClosed
  <2>2. Leased' = Leased
    BY <2>1 DEF Leased
  <2> QED  BY <1>2, <2>1, <2>2, GrantsAfterReturn, ReturnImplemented
<1>4. CASE AdmitRefused(c)
  <2>1. Return(c, "Denied") /\ approvedCache' = LiveCache /\ UNCHANGED <<request, closed>>
    BY <1>4 DEF AdmitRefused, Purge
  <2>2. Leased' = Leased
    BY <1>1, <2>1, PurgeKeepsLeases
  <2> QED  BY <1>2, <2>1, <2>2, GrantsAfterReturn, ReturnImplemented
<1>5. CASE AdmitCached(c)
  <2>1. /\ Return(c, "Approved") /\ approvedCache' = LiveCache /\ UNCHANGED <<request, closed>>
        /\ ~closed /\ LiveCache[d] # NoEntry
    BY <1>5 DEF AdmitCached, Purge, CacheHit
  <2>2. Leased' = Leased
    BY <1>1, <2>1, PurgeKeepsLeases
  <2>3. d \in Leased
    BY <1>2, <2>1 DEF LiveCache, Leased
  <2>4. /\ CallOf' = [CallOf EXCEPT ![c] = None]
        /\ ResultOf' = [ResultOf EXCEPT ![c] = "Approved"]
        /\ GrantedCallers' = GrantedCallers \ {c}
    BY <2>1, GrantsAfterReturn
  <2> QED  BY <1>2, <2>1, <2>2, <2>3, <2>4, ReturnImplemented
<1>6. ASSUME NEW r \in Requests, caller' = [caller EXCEPT ![c].pc = "waiting", ![c].request = r],
             ~request'[r].done, approvedCache' = LiveCache, UNCHANGED closed,
             \A b \in Callers : caller[b].pc = "waiting" =>
               /\ request'[caller[b].request].done = request[caller[b].request].done
               /\ request'[caller[b].request].decision = request[caller[b].request].decision
      PROVE  Seen' = Seen
  <2>1. /\ caller'[c].pc = "waiting" /\ caller'[c].request = r
        /\ caller'[c].device = d /\ caller'[c].result = caller[c].result
        /\ \A b \in Callers : b # c => caller'[b] = caller[b]
    BY <1>1, <1>6 DEF CallerType
  <2>2. CallOf' = CallOf /\ ResultOf' = ResultOf
    BY <2>1 DEF CallOf, ResultOf
  <2>3. GrantedCallers' = GrantedCallers
    <3>1. ASSUME NEW b \in Callers PROVE b \in GrantedCallers' <=> b \in GrantedCallers
      <4>1. CASE b = c
        BY <1>2, <1>6, <2>1, <4>1 DEF GrantedCallers
      <4>2. CASE b # c
        <5>1. caller'[b] = caller[b]
          BY <2>1, <4>2
        <5>2. caller[b].pc = "waiting" =>
                /\ request'[caller[b].request].done = request[caller[b].request].done
                /\ request'[caller[b].request].decision = request[caller[b].request].decision
          BY <1>6
        <5> QED  BY <5>1, <5>2 DEF GrantedCallers
      <4> QED  BY <4>1, <4>2
    <3>2. GrantedCallers' \subseteq Callers /\ GrantedCallers \subseteq Callers
      BY DEF GrantedCallers
    <3> QED  BY <3>1, <3>2
  <2>4. Leased' = Leased
    BY <1>1, <1>6, PurgeKeepsLeases
  <2> QED  BY <1>6, <2>2, <2>3, <2>4 DEF Seen
<1>7. ASSUME NEW r \in Requests, AdmitNew(c, r) PROVE Seen' = Seen
  <2>1. /\ ~request'[r].done
        /\ \A q \in Requests : q # r => request'[q] = request[q]
    BY <1>1, <1>7 DEF AdmitNew, NewRequest
  <2>2. \A b \in Callers : caller[b].pc = "waiting" =>
          caller[b].request \in Requests /\ caller[b].request # r
    BY <1>7, WaiterCounted DEF AdmitNew, Reusable
  <2> QED  BY <1>6, <1>7, <2>1, <2>2 DEF AdmitNew
<1>8. CASE AdmitJoin(c)
  <2> DEFINE r == pendingRequests[d]
  <2>1. r \in Requests /\ ~request[r].done
    <3>1. r \in Requests
      BY <1>2, <1>8 DEF AdmitJoin, IInv, TypeOK
    <3>2. IsPending(r)
      BY <1>2, <1>8, NoneAssumption DEF AdmitJoin, IInv, PendingSound, IsPending
    <3> QED  BY <3>1, <3>2 DEF IInv, PendingSound
  <2>2. \A q \in Requests : /\ request'[q].done = request[q].done
                            /\ request'[q].decision = request[q].decision
    BY <1>1, <1>8 DEF AdmitJoin, RequestType
  <2>3. \A b \in Callers : caller[b].pc = "waiting" => caller[b].request \in Requests
    BY DEF IInv, CallerSound
  <2>4. /\ caller' = [caller EXCEPT ![c].pc = "waiting", ![c].request = r]
        /\ approvedCache' = LiveCache /\ UNCHANGED closed
    BY <1>8 DEF AdmitJoin, Purge
  <2> QED  BY <1>6, <2>1, <2>2, <2>3, <2>4
<1> QED  BY <1>3, <1>4, <1>5, <1>7, <1>8 DEF Admit

LEMMA LeaveImplemented ==
  ASSUME IInv, NEW c \in Callers, Leave(c)
  PROVE  Contract!Next
<1> DEFINE r == caller[c].request
<1>1. /\ caller \in [Callers -> CallerType]
      /\ request \in [Requests -> RequestType]
      /\ r \in Requests /\ caller[c].device \in Devices /\ caller[c].pc = "waiting"
      /\ UNCHANGED <<approvedCache, closed>>
  BY DEF Leave, IInv, TypeOK, CallerSound
<1>2. PICK res \in {"Approved", "Denied", "Error"} :
        Return(c, res) /\ res \in {"Error", Result(c, r)}
  BY <1>1 DEF Leave, Result, RequestType, Decisions
<1>3. res = "Approved" => ~closed /\ c \in GrantedCallers
  BY <1>1, <1>2 DEF Leave, Result, GrantedCallers
<1>4. ASSUME NEW b \in Callers, b # c, caller[b].pc = "waiting"
      PROVE  /\ request'[caller[b].request].done = request[caller[b].request].done
             /\ request'[caller[b].request].decision = request[caller[b].request].decision
  <2>1. caller[b].request \in Requests
    BY <1>4 DEF IInv, CallerSound
  <2>2. CASE caller[b].request = r
    <3>1. ~LastWaiter(r)
      BY <1>1, <1>4, <2>2, TwoWaiters DEF Waiting
    <3>2. request' = [request EXCEPT ![r].waiters = @ - 1]
      BY <3>1 DEF Leave
    <3> QED  BY <1>1, <2>2, <3>2 DEF RequestType
  <2>3. CASE caller[b].request # r
    BY <1>1, <2>1, <2>3 DEF Leave
  <2> QED  BY <2>2, <2>3
<1>5. /\ CallOf' = [CallOf EXCEPT ![c] = None]
      /\ ResultOf' = [ResultOf EXCEPT ![c] = res]
      /\ GrantedCallers' = GrantedCallers \ {c}
  BY <1>1, <1>2, <1>4, GrantsAfterReturn
<1>6. Leased' = Leased
  BY <1>1 DEF Leased
<1> QED  BY <1>1, <1>2, <1>3, <1>5, <1>6, ReturnImplemented

LEMMA ApproveImplemented ==
  ASSUME IInv, NEW r \in Requests, CallbackApprove(r)
  PROVE  Contract!Next
<1> DEFINE d == request[r].device
           W == IF IsPending(r) THEN Waiting(r) ELSE {}
<1> USE TTLAssumption
<1>1. /\ request \in [Requests -> RequestType]
      /\ approvedCache \in [Devices -> {NoEntry} \cup 0..ApprovalCacheTTL]
      /\ d \in Devices /\ ~closed /\ UNCHANGED <<caller, closed>>
      /\ request' = [request EXCEPT ![r] = Finished(r, "Approved")]
  BY DEF IInv, TypeOK, CallbackApprove, CallbackLive, RequestType, finishPendingLocked
<1>2. CallOf' = CallOf /\ ResultOf' = ResultOf
  BY <1>1 DEF CallOf, ResultOf
<1>3. W \in SUBSET {c \in Callers : CallOf[c] = d}
  BY DEF Waiting, CallOf, IInv, CallerSound
<1>4. GrantedCallers' = GrantedCallers \cup W
  <2>1. \A c \in Callers : caller[c].pc = "waiting" => caller[c].request \in Requests
    BY DEF IInv, CallerSound
  <2>2. CASE IsPending(r)
    <3>1. ~request[r].done /\ request'[r].done /\ request'[r].decision = "Approved"
      BY <1>1, <2>2 DEF Finished, RequestType, IInv, PendingSound
    <3>2. \A q \in Requests : q # r => request'[q] = request[q]
      BY <1>1
    <3> QED  BY <1>1, <2>1, <2>2, <3>1, <3>2 DEF GrantedCallers, Waiting
  <2>3. CASE ~IsPending(r)
    BY <1>1, <2>3 DEF Finished, GrantedCallers
  <2> QED  BY <2>2, <2>3
<1>5. PICK lease \in BOOLEAN : Leased' = IF lease THEN Leased \cup {d} ELSE Leased
  <2>1. CASE approvedCache' = approvedCache
    <3>1. Leased' = IF FALSE THEN Leased \cup {d} ELSE Leased
      BY <2>1 DEF Leased
    <3> QED  BY <3>1
  <2>2. CASE ApprovalCacheTTL > 0 /\ approvedCache' = [approvedCache EXCEPT ![d] = ApprovalCacheTTL]
    <3>1. Leased' = IF TRUE THEN Leased \cup {d} ELSE Leased
      BY <1>1, <2>2 DEF Leased
    <3> QED  BY <3>1
  <2> QED  BY <2>1, <2>2 DEF CallbackApprove, CacheApproval
<1>6. Contract!Approve(d, lease)
  BY <1>1, <1>2, <1>3, <1>4, <1>5 DEF Contract!Approve, CallOf, ResultOf, Leased
<1> QED  BY <1>1, <1>6 DEF Contract!Next

LEMMA CloseImplemented ==
  ASSUME IInv, Close
  PROVE  Contract!Next \/ Seen' = Seen
<1>1. CASE CloseBegin
  <2>1. ~closed /\ closed' /\ UNCHANGED <<caller, approvedCache>>
    BY <1>1 DEF CloseBegin, IInv, CloserSound
  <2>2. GrantedCallers' = GrantedCallers
    BY <1>1, <2>1, DenialGrantsNobody DEF CloseBegin
  <2>3. Contract!Close
    BY <1>1, <2>1, <2>2 DEF CloseBegin, Contract!Close
  <2> QED  BY <2>3 DEF Contract!Next
<1>2. CASE CloseZero
  BY <1>2 DEF CloseZero, Seen, CallOf, ResultOf, Leased, GrantedCallers
<1>3. CASE CloseClear
  <2>1. {e \in Devices : approvedCache'[e] > 0} = {}
    BY <1>3 DEF CloseClear, NoEntry
  <2>2. UNCHANGED <<caller, closed>> /\ GrantedCallers' = GrantedCallers
    BY <1>3 DEF CloseClear, GrantedCallers
  <2>3. Contract!Expire(Devices)
    BY <2>1, <2>2 DEF Contract!Expire
  <2> QED  BY <2>3 DEF Contract!Next
<1> QED  BY <1>1, <1>2, <1>3 DEF Close

LEMMA TickImplemented ==
  ASSUME IInv, Tick
  PROVE  Contract!Next
<1> DEFINE S == {d \in Devices : approvedCache[d] = 1}
<1>1. /\ request \in [Requests -> RequestType]
      /\ approvedCache \in [Devices -> {NoEntry} \cup 0..ApprovalCacheTTL]
  BY DEF IInv, TypeOK
<1>2. UNCHANGED <<caller, closed>>
  BY DEF Tick
<1>3. \A r \in Requests : /\ request'[r].done = request[r].done
                          /\ request'[r].decision = request[r].decision
  BY <1>1 DEF Tick, RequestType
<1>4. GrantedCallers' = GrantedCallers
  <2>1. \A c \in Callers : caller[c].pc = "waiting" => caller[c].request \in Requests
    BY DEF IInv, CallerSound
  <2> QED  BY <1>2, <1>3, <2>1 DEF GrantedCallers
<1>5. ASSUME NEW d \in Devices
      PROVE  approvedCache'[d] > 0 <=> approvedCache[d] > 0 /\ approvedCache[d] # 1
  <2>1. approvedCache[d] \in Int
    BY <1>1, TTLAssumption DEF NoEntry
  <2>2. approvedCache'[d] = IF approvedCache[d] > 0 THEN approvedCache[d] - 1 ELSE approvedCache[d]
    BY DEF Tick
  <2> QED  BY <2>1, <2>2
<1>6. Leased' = Leased \ S
  BY <1>5 DEF Leased
<1>7. S \in SUBSET Devices
  OBVIOUS
<1>8. \E T \in SUBSET Devices : Contract!Expire(T)
  BY <1>2, <1>4, <1>6, <1>7 DEF Contract!Expire, Leased
<1> QED  BY <1>8 DEF Contract!Next

LEMMA NextImplemented ==
  ASSUME IInv, IdleSound, [Next]_vars
  PROVE  [Contract!Next]_Contract!gateVars
<1> SUFFICES Contract!Next \/ Seen' = Seen
  BY SeenIsGateVars
<1>1. ASSUME NEW c \in Callers, Check(c) \/ Admit(c) \/ Leave(c)
      PROVE  Contract!Next \/ Seen' = Seen
  BY <1>1, CheckImplemented, AdmitImplemented, LeaveImplemented
<1>2. ASSUME NEW r \in Requests, Send(r) PROVE Seen' = Seen
  BY <1>2 DEF Send, SendOK, SendFail, Seen, CallOf, ResultOf, Leased, GrantedCallers
<1>3. ASSUME NEW r \in Requests, SenderExit(r) \/ CallbackDeny(r) PROVE Seen' = Seen
  <2>1. /\ request' = [request EXCEPT ![r] = Finished(r, "Denied")]
        /\ UNCHANGED <<caller, approvedCache, closed>>
    BY <1>3 DEF SenderExit, CallbackDeny, finishPendingLocked
  <2>2. \A q \in Requests : request'[q] \in {request[q], Finished(q, "Denied")}
    BY <2>1 DEF IInv, TypeOK
  <2>3. GrantedCallers' = GrantedCallers
    BY <2>1, <2>2, DenialGrantsNobody
  <2> QED  BY <2>1, <2>3 DEF Seen, CallOf, ResultOf, Leased
<1>4. ASSUME NEW r \in Requests, CallbackApprove(r) PROVE Contract!Next
  BY <1>4, ApproveImplemented
<1>5. CASE Close
  BY <1>5, CloseImplemented
<1>6. CASE Tick
  BY <1>6, TickImplemented
<1>7. CASE PollExit \/ UNCHANGED vars
  BY <1>7 DEF PollExit, vars, Seen, CallOf, ResultOf, Leased, GrantedCallers
<1> QED  BY <1>1, <1>2, <1>3, <1>4, <1>5, <1>6, <1>7 DEF Next, Callback

\* The gate keeps the promise of gate.go: whatever the prompts, timers, limits and
\* shutdown do, a Check returns Approved only under the operator's authority for its
\* device and never after Close has begun.
THEOREM GateImplemented == Spec => ImplementsGate
<1>1. Init => IdleSound
  BY DEF Init, IdleSound
<1>2. IInv /\ IdleSound /\ [Next]_vars => IdleSound'
  BY IdleStep
<1>3. IInv /\ IdleSound /\ [Next]_vars => [Contract!Next]_Contract!gateVars
  BY NextImplemented
<1>4. Init => Contract!Init
  <2> SUFFICES ASSUME Init PROVE Contract!Init
    OBVIOUS
  <2>1. GrantedCallers = {}
    BY DEF Init, GrantedCallers
  <2>2. {d \in Devices : approvedCache[d] > 0} = {}
    BY DEF Init, NoEntry
  <2> QED  BY <2>1, <2>2 DEF Init, Contract!Init
<1>5. Spec => []IdleSound
  BY <1>1, <1>2, Invariance, PTL DEF Spec
<1> QED  BY <1>3, <1>4, <1>5, Invariance, PTL DEF Spec, ImplementsGate, Contract!Spec
(***************************************************************************)
(* What the liveness properties rest on: which way the goroutines move.     *)
(***************************************************************************)

SenderRank == [sending |-> 1, awaiting |-> 2, failing |-> 2, exited |-> 3]

CloserRank == [open |-> 0, draining |-> 1, zeroed |-> 2, closed |-> 3]

\* A blocked Check can return at once, or its request is the pending one and the
\* goroutine that keeps its deadline still runs.
WaitersAnswerable ==
  \A c \in Callers :
    caller[c].pc = "waiting" /\ ~request[caller[c].request].done =>
      /\ IsPending(caller[c].request)
      /\ sender[caller[c].request] # "exited"

\* While a Check stays blocked, everything that will release it only moves on.
WaitAdvances ==
  \A c \in Callers :
    caller[c].pc = "waiting" /\ caller'[c].pc = "waiting" =>
      LET r == caller[c].request IN
      /\ caller'[c].request = r
      /\ caller[c].cancelled => caller'[c].cancelled
      /\ request[r].done => request'[r].done
      /\ request'[r].age >= request[r].age
      /\ SenderRank[sender'[r]] >= SenderRank[sender[r]]

Running == {r \in Requests : sender[r] # "exited"}

Blocked == {c \in Callers : caller[c].pc = "waiting"}

\* From shutdown on, none of the goroutines counted in g.wg waits for another or for
\* the operator: each can leave by itself.
DrainUnblocked ==
  closed => /\ PendingDevices = {}
            /\ \A r \in Running : SendCtxDone(r)
            /\ \A c \in Blocked : request[caller[c].request].done

\* From shutdown on, no goroutine joins those that Close waits for, Close does not
\* turn back, and nothing is approved any more.
DrainAdvances ==
  closed => /\ closed'
            /\ polling' => polling
            /\ Running' \subseteq Running
            /\ Blocked' \subseteq Blocked
            /\ secrets' => secrets
            /\ CloserRank[closer'] >= CloserRank[closer]
            /\ approvals' = approvals
            /\ \A c \in Callers : caller'[c].result = "Approved" => caller[c].result = "Approved"

\* Finishing a request never reopens it and leaves its age alone.
LEMMA FinishAdvances ==
  ASSUME IInv, NEW r \in Requests
  PROVE  \A decision \in Decisions :
           /\ request[r].done => Finished(r, decision).done
           /\ Finished(r, decision).age = request[r].age
<1>1. request[r] \in RequestType
  BY DEF IInv, TypeOK
<1> QED  BY <1>1 DEF Finished, RequestType

\* No step takes a request away from a Check that stays blocked on it.
LEMMA WaitStep ==
  ASSUME IInv, [Next]_vars
  PROVE  WaitAdvances
<1> SUFFICES ASSUME NEW c \in Callers, caller[c].pc = "waiting", caller'[c].pc = "waiting"
             PROVE  LET r == caller[c].request IN
                    /\ caller'[c].request = r
                    /\ caller[c].cancelled => caller'[c].cancelled
                    /\ request[r].done => request'[r].done
                    /\ request'[r].age >= request[r].age
                    /\ SenderRank[sender'[r]] >= SenderRank[sender[r]]
  BY DEF WaitAdvances
<1> DEFINE r == caller[c].request
           CallerKept == /\ caller'[c].request = r
                         /\ caller[c].cancelled => caller'[c].cancelled
           RequestKept == /\ request[r].done => request'[r].done
                          /\ request'[r].age >= request[r].age
           SenderKept == SenderRank[sender'[r]] >= SenderRank[sender[r]]
<1> SUFFICES CallerKept /\ RequestKept /\ SenderKept
  OBVIOUS
<1>1. /\ caller \in [Callers -> CallerType]
      /\ request \in [Requests -> RequestType]
      /\ sender \in [Requests -> {"exited", "sending", "awaiting", "failing"}]
      /\ r \in Requests /\ request[r].waiters \in Nat \ {0}
  BY WaiterCounted DEF IInv, TypeOK
<1>2. request[r].age \in 0..Horizon /\ Horizon \in Nat
  BY <1>1, HorizonBounds DEF RequestType
<1>3. caller'[c] = caller[c] => CallerKept
  OBVIOUS
<1>4. request'[r] = request[r] => RequestKept
  BY <1>2
<1>5. sender'[r] = sender[r] => SenderKept
  BY <1>1 DEF SenderRank
<1>6. ASSUME NEW b \in Callers, Check(b) PROVE CallerKept /\ RequestKept /\ SenderKept
  <2>1. UNCHANGED <<request, sender>>
    BY <1>6 DEF Check, CheckEnter, CheckReject, CancelCtx
  <2>2. CallerKept
    <3>1. CASE b = c
      BY <1>1, <1>6, <3>1 DEF Check, CheckEnter, CheckReject, CancelCtx, CallerType
    <3>2. CASE b # c
      BY <1>1, <1>3, <1>6, <3>2 DEF Check, CheckEnter, CheckReject, CancelCtx, Return
    <3> QED  BY <3>1, <3>2
  <2> QED  BY <1>4, <1>5, <2>1, <2>2
<1>7. ASSUME NEW b \in Callers, Admit(b) PROVE CallerKept /\ RequestKept /\ SenderKept
  <2>1. b # c /\ caller'[c] = caller[c]
    <3>1. caller[b].pc = "checked"
      BY <1>7 DEF Admit, AdmitClosed, AdmitCached, AdmitRefused, AdmitNew, AdmitJoin
    <3> QED  BY <1>1, <1>7, <3>1 DEF Admit, AdmitClosed, AdmitCached, AdmitRefused, AdmitNew,
                AdmitJoin, Return
  <2>2. ASSUME NEW q \in Requests, AdmitNew(b, q) PROVE RequestKept /\ SenderKept
    <3>1. q # r
      BY <1>1, <2>2 DEF AdmitNew, Reusable
    <3>2. request'[r] = request[r] /\ sender'[r] = sender[r]
      BY <1>1, <2>2, <3>1 DEF AdmitNew
    <3> QED  BY <1>4, <1>5, <3>2
  <2>3. CASE AdmitJoin(b)
    <3>1. sender'[r] = sender[r]
      BY <2>3 DEF AdmitJoin
    <3>2. request'[r].done = request[r].done /\ request'[r].age = request[r].age
      BY <1>1, <2>3 DEF AdmitJoin, RequestType
    <3>3. RequestKept
      BY <1>2, <3>2
    <3> QED  BY <1>3, <1>5, <2>1, <3>1, <3>3
  <2>4. CASE AdmitClosed(b) \/ AdmitCached(b) \/ AdmitRefused(b)
    <3>1. request' = request /\ sender' = sender
      BY <2>4 DEF AdmitClosed, AdmitCached, AdmitRefused
    <3> QED  BY <1>3, <1>4, <1>5, <2>1, <3>1
  <2> QED  BY <1>3, <1>7, <2>1, <2>2, <2>3, <2>4 DEF Admit
<1>8. ASSUME NEW b \in Callers, Leave(b) PROVE CallerKept /\ RequestKept /\ SenderKept
  <2> DEFINE q == caller[b].request
  <2>1. q \in Requests /\ UNCHANGED sender
    BY <1>8, WaiterCounted DEF Leave
  <2>2. caller'[c] = caller[c]
    BY <1>1, <1>8 DEF Leave, Return
  <2>3. RequestKept
    <3>1. CASE q # r
      BY <1>1, <1>4, <1>8, <2>1, <3>1 DEF Leave
    <3>2. CASE q = r /\ LastWaiter(q)
      <4>1. "Denied" \in Decisions
        BY DEF Decisions
      <4>2. Finished(r, "Denied") \in RequestType
        BY <1>1, <4>1, FinishTypes DEF IInv
      <4>3. request'[r] = [Finished(r, "Denied") EXCEPT !.waiters = @ - 1]
        BY <1>1, <1>8, <3>2 DEF Leave
      <4>4. /\ request'[r].done = Finished(r, "Denied").done
            /\ request'[r].age = Finished(r, "Denied").age
        BY <4>2, <4>3 DEF RequestType
      <4> QED  BY <1>1, <1>2, <4>1, <4>4, FinishAdvances
    <3>3. CASE q = r /\ ~LastWaiter(q)
      <4>1. request' = [request EXCEPT ![r].waiters = @ - 1]
        BY <1>8, <3>3 DEF Leave
      <4> QED  BY <1>1, <1>2, <4>1 DEF RequestType
    <3> QED  BY <3>1, <3>2, <3>3
  <2> QED  BY <1>3, <1>5, <2>1, <2>2, <2>3
<1>9. ASSUME NEW q \in Requests, Send(q) PROVE CallerKept /\ RequestKept /\ SenderKept
  <2>1. UNCHANGED <<caller, request>>
    BY <1>9 DEF Send, SendOK, SendFail
  <2>2. SenderKept
    BY <1>1, <1>9 DEF Send, SendOK, SendFail, SenderRank
  <2> QED  BY <1>3, <1>4, <2>1, <2>2
<1>10. ASSUME NEW q \in Requests, NEW decision \in Decisions, finishPendingLocked(q, decision)
       PROVE  RequestKept
  <2>1. CASE q = r
    BY <1>1, <1>2, <1>10, <2>1, FinishAdvances DEF finishPendingLocked
  <2>2. CASE q # r
    BY <1>1, <1>4, <1>10, <2>2 DEF finishPendingLocked
  <2> QED  BY <2>1, <2>2
<1>11. ASSUME NEW q \in Requests, SenderExit(q) PROVE CallerKept /\ RequestKept /\ SenderKept
  <2>1. UNCHANGED caller /\ RequestKept
    BY <1>10, <1>11 DEF SenderExit, Decisions
  <2>2. SenderKept
    BY <1>1, <1>11 DEF SenderExit, SenderRank
  <2> QED  BY <1>3, <2>1, <2>2
<1>12. ASSUME NEW q \in Requests, Callback(q) PROVE CallerKept /\ RequestKept /\ SenderKept
  <2>1. UNCHANGED <<caller, sender>> /\ RequestKept
    BY <1>10, <1>12 DEF Callback, CallbackApprove, CallbackDeny, Decisions
  <2> QED  BY <1>3, <1>5, <2>1
<1>13. CASE CloseBegin
  <2>1. UNCHANGED <<caller, sender>> /\ request'[r] = Finished(r, "Denied")
    BY <1>1, <1>13 DEF CloseBegin
  <2>2. RequestKept
    BY <1>1, <1>2, <2>1, FinishAdvances DEF Decisions
  <2> QED  BY <1>3, <1>5, <2>1, <2>2
<1>14. CASE Tick
  <2>1. UNCHANGED <<caller, sender>>
    BY <1>14 DEF Tick
  <2>2. request'[r].done = request[r].done /\ request'[r].age = Older(request[r].age, Horizon)
    BY <1>1, <1>14 DEF Tick, RequestType
  <2>3. Older(request[r].age, Horizon) >= request[r].age
    BY <1>2 DEF Older
  <2> QED  BY <1>3, <1>5, <2>1, <2>2, <2>3
<1>15. CASE PollExit \/ CloseZero \/ CloseClear \/ UNCHANGED vars
  BY <1>3, <1>4, <1>5, <1>15 DEF PollExit, CloseZero, CloseClear, vars
<1> QED  BY <1>6, <1>7, <1>8, <1>9, <1>11, <1>12, <1>13, <1>14, <1>15 DEF Next, Close

\* Why every Check that enters returns, as far as it does not need fairness: at every
\* moment a blocked caller can leave or its prompt has a running goroutine with a
\* deadline, and until it leaves that goroutine, the request's age and its own
\* cancellation only move towards the end, for every number of callers and any TTL.
THEOREM WaitsEnd == Spec => []WaitersAnswerable /\ [][WaitAdvances]_vars
<1>1. IInv => WaitersAnswerable
  BY DEF IInv, CallerSound, PendingSound, WaitersAnswerable
<1>2. IInv /\ [Next]_vars => [WaitAdvances]_vars
  BY WaitStep
<1> QED  BY <1>1, <1>2, Invariance, PTL DEF Spec

LEMMA DrainStep ==
  ASSUME IInv, [Next]_vars, closed
  PROVE  /\ closed' /\ (polling' => polling) /\ (secrets' => secrets)
         /\ Running' \subseteq Running
         /\ Blocked' \subseteq Blocked
         /\ CloserRank[closer'] >= CloserRank[closer]
         /\ approvals' = approvals
         /\ \A c \in Callers : caller'[c].result = "Approved" => caller[c].result = "Approved"
<1> DEFINE Goal ==
      /\ closed' /\ (polling' => polling) /\ (secrets' => secrets)
      /\ Running' \subseteq Running
      /\ Blocked' \subseteq Blocked
      /\ CloserRank[closer'] >= CloserRank[closer]
      /\ approvals' = approvals
      /\ \A c \in Callers : caller'[c].result = "Approved" => caller[c].result = "Approved"
<1> SUFFICES Goal
  OBVIOUS
<1>1. /\ caller \in [Callers -> CallerType]
      /\ sender \in [Requests -> {"exited", "sending", "awaiting", "failing"}]
      /\ closer # "open"
  BY DEF IInv, TypeOK, CloserSound
<1>2. CloserRank[closer] \in 0..3
  BY DEF CloserRank, IInv, TypeOK
<1>3. ASSUME UNCHANGED <<closed, polling, secrets, closer, approvals>>,
             Running' \subseteq Running, Blocked' \subseteq Blocked,
             \A c \in Callers : caller'[c].result = "Approved" => caller[c].result = "Approved"
      PROVE  Goal
  <2>1. CloserRank[closer'] >= CloserRank[closer]
    BY <1>2, <1>3
  <2> QED  BY <1>3, <2>1
<1>4. ASSUME NEW c \in Callers, Check(c) PROVE Goal
  <2>1. UNCHANGED <<closed, polling, secrets, closer, approvals, sender>>
    BY <1>4 DEF Check, CheckEnter, CheckReject, CancelCtx
  <2>2. ASSUME NEW b \in Callers
        PROVE  /\ caller'[b].pc = "waiting" => caller[b].pc = "waiting"
               /\ caller'[b].result = "Approved" => caller[b].result = "Approved"
    <3>1. ASSUME NEW d \in Devices, CheckEnter(c, d)
          PROVE  \/ caller'[b] = caller[b]
                 \/ caller'[b].pc = "checked" /\ caller'[b].result = "none"
      BY <1>1, <3>1 DEF CheckEnter
    <3>2. ASSUME NEW res \in {"Denied", "Error"}, CheckReject(c, res)
          PROVE  \/ caller'[b] = caller[b]
                 \/ caller'[b].pc = "idle" /\ caller'[b].result = res
      BY <1>1, <3>2 DEF CheckReject, Return
    <3>3. CASE CancelCtx(c)
      BY <1>1, <3>3 DEF CancelCtx, CallerType
    <3> QED  BY <1>4, <3>1, <3>2, <3>3 DEF Check
  <2> QED  BY <1>3, <2>1, <2>2 DEF Running, Blocked
<1>5. ASSUME NEW c \in Callers, Admit(c) PROVE Goal
  <2>1. AdmitClosed(c)
    BY <1>5 DEF Admit, AdmitCached, AdmitRefused, AdmitNew, AdmitJoin
  <2>2. \A b \in Callers : /\ caller'[b].pc = "waiting" => caller[b].pc = "waiting"
                           /\ caller'[b].result = "Approved" => caller[b].result = "Approved"
    BY <1>1, <2>1 DEF AdmitClosed, Return
  <2> QED  BY <1>3, <2>1, <2>2 DEF AdmitClosed, Running, Blocked
<1>6. ASSUME NEW c \in Callers, Leave(c) PROVE Goal
  <2>1. Result(c, caller[c].request) # "Approved"
    BY DEF Result
  <2>2. \A b \in Callers : /\ caller'[b].pc = "waiting" => caller[b].pc = "waiting"
                           /\ caller'[b].result = "Approved" => caller[b].result = "Approved"
    BY <1>1, <1>6, <2>1 DEF Leave, Return
  <2> QED  BY <1>3, <1>6, <2>2 DEF Leave, Running, Blocked
<1>7. ASSUME NEW r \in Requests, Send(r) \/ SenderExit(r) PROVE Goal
  <2>1. UNCHANGED <<closed, polling, secrets, closer, approvals, caller>>
    BY <1>7 DEF Send, SendOK, SendFail, SenderExit
  <2>2. Running' \subseteq Running
    BY <1>1, <1>7 DEF Send, SendOK, SendFail, SenderExit, Running
  <2> QED  BY <1>3, <2>1, <2>2 DEF Blocked
<1>8. ASSUME NEW r \in Requests, Callback(r) PROVE FALSE
  BY <1>8 DEF Callback, CallbackApprove, CallbackDeny, CallbackLive
<1>9. CASE PollExit
  BY <1>2, <1>9 DEF PollExit, Running, Blocked
<1>10. CASE Close
  <2>1. UNCHANGED <<polling, approvals, caller, sender>> /\ closed'
    BY <1>10 DEF Close, CloseBegin, CloseZero, CloseClear
  <2>2. (secrets' => secrets) /\ CloserRank[closer'] >= CloserRank[closer]
    <3>1. secrets' => secrets
      BY <1>10 DEF Close, CloseBegin, CloseZero, CloseClear
    <3>2. CloserRank[closer'] >= CloserRank[closer]
      <4>1. CASE CloseBegin
        BY <1>1, <4>1 DEF CloseBegin
      <4>2. CASE CloseZero \/ CloseClear
        <5>1. \/ closer = "draining" /\ closer' = "zeroed"
              \/ closer = "zeroed" /\ closer' = "closed"
          BY <4>2 DEF CloseZero, CloseClear
        <5> QED  BY <5>1 DEF CloserRank
      <4> QED  BY <1>10, <4>1, <4>2 DEF Close
    <3> QED  BY <3>1, <3>2
  <2> QED  BY <2>1, <2>2 DEF Running, Blocked
<1>11. CASE Tick \/ UNCHANGED vars
  BY <1>3, <1>11 DEF Tick, vars, Running, Blocked
<1> QED  BY <1>4, <1>5, <1>6, <1>7, <1>8, <1>9, <1>10, <1>11 DEF Next

LEMMA DrainedApart ==
  ASSUME IInv
  PROVE  DrainUnblocked
<1> SUFFICES ASSUME closed
             PROVE  /\ PendingDevices = {}
                    /\ \A r \in Running : SendCtxDone(r)
                    /\ \A c \in Blocked : request[caller[c].request].done
  BY DEF DrainUnblocked
<1>1. \A r \in Requests : ~IsPending(r) /\ request[r].done
  BY DEF IInv, PendingSound
<1>2. PendingDevices = {}
  <2> SUFFICES ASSUME NEW d \in Devices, pendingRequests[d] # None PROVE FALSE
    BY DEF PendingDevices
  <2>1. pendingRequests[d] \in Requests /\ request[pendingRequests[d]].device = d
    BY DEF IInv, TypeOK, PendingSound
  <2>2. IsPending(pendingRequests[d])
    BY <2>1, NoneAssumption DEF IsPending
  <2> QED  BY <1>1, <2>1, <2>2
<1>3. \A c \in Blocked : caller[c].request \in Requests
  BY DEF Blocked, IInv, CallerSound
<1> QED  BY <1>1, <1>2, <1>3 DEF SendCtxDone

\* Why Close ends, as far as it does not need fairness: from the moment it has begun
\* nothing is pending, every goroutine it waits for has its way out open and needs no
\* other one, none is added, and no approval is accepted or handed out any more,
\* whatever calls, presses and answers still arrive.
THEOREM CloseDrains == Spec => []DrainUnblocked /\ [][DrainAdvances]_vars
<1>1. IInv => DrainUnblocked
  BY DrainedApart
<1>2. IInv /\ [Next]_vars => [DrainAdvances]_vars
  BY DrainStep DEF DrainAdvances
<1> QED  BY <1>1, <1>2, Invariance, PTL DEF Spec
=============================================================================
