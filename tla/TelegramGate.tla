---------------------------- MODULE TelegramGate ----------------------------
(***************************************************************************)
(* The Telegram approval gate (internal/gate/telegram.go).  RPC handlers    *)
(* call Check, which joins or opens one pending request per device; a       *)
(* goroutine per request sends the prompt and then waits for its context;    *)
(* the poll goroutine delivers the operator's button presses; Close drains   *)
(* all of them.  Each section of code between a Lock and its Unlock is one   *)
(* action, and so is each step a goroutine takes outside the lock.           *)
(*                                                                           *)
(* Time: instead of a clock, what the code compares with time.Now() is kept  *)
(* as an age or a remaining time that Tick advances and that saturates once  *)
(* no comparison can tell further values apart.                              *)
(***************************************************************************)
EXTENDS Integers, FiniteSets

CONSTANTS
  Devices, Callers, None,
  Requests,             \* slots for pendingRequest objects; bounds those alive at once
  MaxPendingRequests, MaxWaitersPerDevice, MaxConcurrentSends, MaxTrackedDevices,
  ApprovalTTL, ApprovalCacheTTL, PromptInterval    \* in ticks

ASSUME NoneAssumption == None \notin Devices /\ None \notin Requests
ASSUME FiniteAssumption == IsFiniteSet(Callers) /\ IsFiniteSet(Requests)
ASSUME LimitsAssumption ==
  /\ MaxPendingRequests \in Nat \ {0}
  /\ MaxWaitersPerDevice \in Nat \ {0}
  /\ MaxConcurrentSends \in Nat \ {0}
  /\ MaxTrackedDevices \in Nat \ {0}
\* NewTelegramGate refuses approvalTTL <= 0 and approvalCacheTTL < 0.
ASSUME TTLAssumption ==
  /\ ApprovalTTL \in Nat \ {0}
  /\ ApprovalCacheTTL \in Nat
  /\ PromptInterval \in Nat

VARIABLES
  closed,           \* g.closed; shutdown() cancels sendCtx in the same locked section
  pendingRequests,  \* the request pending for a device, or None
  lastPrompt,       \* age of the device's last prompt attempt, or NoEntry
  approvedCache,    \* remaining time of the device's approval, or NoEntry
  sends,            \* tokens held in the channel g.sends
  request,          \* the pendingRequest objects
  sender,           \* where the goroutine runPending of a request is
  caller,           \* where each goroutine that calls Check is
  polling,          \* whether pollLoop runs
  closer,           \* how far Close has come
  secrets,          \* whether botToken and hmacKey still hold their bytes
  approvals,        \* history: requests whose Approve button was processed
  withdrawn         \* history: devices of which a caller left with its context
                    \* cancelled since their last prompt

vars == <<closed, pendingRequests, lastPrompt, approvedCache, sends, request,
          sender, caller, polling, closer, secrets, approvals, withdrawn>>

NoEntry == -1

\* Beyond this age no comparison and no property tells two ages apart.
Horizon == 1 + IF ApprovalTTL + ApprovalCacheTTL > PromptInterval
               THEN ApprovalTTL + ApprovalCacheTTL ELSE PromptInterval

Decisions == {"Denied", "Approved"}

RequestType == [device : Devices \cup {None}, age : 0..Horizon,
                decision : Decisions, done : BOOLEAN, waiters : Nat]

CallerType == [pc : {"idle", "checked", "waiting"}, device : Devices \cup {None},
               request : Requests \cup {None}, cancelled : BOOLEAN,
               result : {"none", "Approved", "Denied", "Error"}]

TypeOK ==
  /\ closed \in BOOLEAN
  /\ pendingRequests \in [Devices -> Requests \cup {None}]
  /\ lastPrompt \in [Devices -> {NoEntry} \cup 0..PromptInterval]
  /\ approvedCache \in [Devices -> {NoEntry} \cup 0..ApprovalCacheTTL]
  /\ sends \in 0..MaxConcurrentSends
  /\ request \in [Requests -> RequestType]
  /\ sender \in [Requests -> {"exited", "sending", "awaiting", "failing"}]
  /\ caller \in [Callers -> CallerType]
  /\ polling \in BOOLEAN
  /\ closer \in {"open", "draining", "zeroed", "closed"}
  /\ secrets \in BOOLEAN
  /\ approvals \subseteq Requests
  /\ withdrawn \subseteq Devices

-----------------------------------------------------------------------------
(* Helpers.                                                                 *)

NoRequest == [device |-> None, age |-> Horizon, decision |-> "Denied",
              done |-> TRUE, waiters |-> 0]

Keys(map) == {d \in Devices : map[d] # NoEntry}

PendingDevices == {d \in Devices : pendingRequests[d] # None}

\* The two purge loops at the head of waitForApproval.
\* (Mutant: an entry is good for one instant too long.)
LiveCacheOffByOne ==
  [d \in Devices |-> IF approvedCache[d] >= 0 THEN approvedCache[d] ELSE NoEntry]

LiveCache ==
  [d \in Devices |-> IF approvedCache[d] > 0 THEN approvedCache[d] ELSE NoEntry]

LivePrompts ==
  [d \in Devices |-> IF lastPrompt[d] < PromptInterval THEN lastPrompt[d] ELSE NoEntry]

\* finishPendingLocked acts only on the request its device has pending.
IsPending(r) == request[r].device # None /\ pendingRequests[request[r].device] = r

\* (Mutants: the identity check dropped; the done channel never closed.)
FinishedUnchecked(r, decision) ==
  [request[r] EXCEPT !.decision = decision, !.done = TRUE]

FinishedNotClosed(r, decision) ==
  IF IsPending(r) THEN [request[r] EXCEPT !.decision = decision] ELSE request[r]

Finished(r, decision) ==
  IF IsPending(r) THEN [request[r] EXCEPT !.decision = decision, !.done = TRUE]
                  ELSE request[r]

PendingWithout(r) ==
  [d \in Devices |-> IF pendingRequests[d] = r THEN None ELSE pendingRequests[d]]

finishPendingLocked(r, decision) ==
  /\ request' = [request EXCEPT ![r] = Finished(r, decision)]
  /\ pendingRequests' = PendingWithout(r)

\* The context of runPending: cancelled by finishPendingLocked, by its deadline
\* approvalTTL after creation, or by the gate's shutdown.
\* (Mutant: no deadline on the context.)
SendCtxNoDeadline(r) == request[r].done \/ closed

SendCtxDone(r) == request[r].done \/ request[r].age >= ApprovalTTL \/ closed

\* A slot whose object nobody can reach any more: no goroutine holds it and
\* its buttons are expired.
Reusable(r) ==
  /\ sender[r] = "exited"
  /\ request[r].waiters = 0
  /\ request[r].age = Horizon

Waiting(r) == {c \in Callers : caller[c].pc = "waiting" /\ caller[c].request = r}

Return(c, res) ==
  caller' = [caller EXCEPT ![c] = [pc |-> "idle", device |-> None, request |-> None,
                                   cancelled |-> FALSE, result |-> res]]

-----------------------------------------------------------------------------
Init ==
  /\ closed = FALSE
  /\ pendingRequests = [d \in Devices |-> None]
  /\ lastPrompt = [d \in Devices |-> NoEntry]
  /\ approvedCache = [d \in Devices |-> NoEntry]
  /\ sends = 0
  /\ request = [r \in Requests |-> NoRequest]
  /\ sender = [r \in Requests |-> "exited"]
  /\ caller = [c \in Callers |-> [pc |-> "idle", device |-> None, request |-> None,
                                  cancelled |-> FALSE, result |-> "none"]]
  /\ polling = TRUE
  /\ closer = "open"
  /\ secrets = TRUE
  /\ approvals = {}
  /\ withdrawn = {}

-----------------------------------------------------------------------------
(* Check.                                                                    *)

\* Check is entered with a device it can parse and a context not yet cancelled.
CheckEnter(c, d) ==
  /\ caller[c].pc = "idle"
  /\ caller' = [caller EXCEPT ![c] = [pc |-> "checked", device |-> d, request |-> None,
                                      cancelled |-> FALSE, result |-> "none"]]
  /\ UNCHANGED <<closed, pendingRequests, lastPrompt, approvedCache, sends, request,
                 sender, polling, closer, secrets, approvals, withdrawn>>

\* Check is entered with a UUID that does not parse, or with a dead context.
CheckReject(c, res) ==
  /\ caller[c].pc = "idle"
  /\ res \in {"Denied", "Error"}
  /\ Return(c, res)
  /\ UNCHANGED <<closed, pendingRequests, lastPrompt, approvedCache, sends, request,
                 sender, polling, closer, secrets, approvals, withdrawn>>

\* The client goes away or its deadline passes: the RPC's context is cancelled.
CancelCtx(c) ==
  /\ caller[c].pc # "idle" /\ ~caller[c].cancelled
  /\ caller' = [caller EXCEPT ![c].cancelled = TRUE]
  /\ UNCHANGED <<closed, pendingRequests, lastPrompt, approvedCache, sends, request,
                 sender, polling, closer, secrets, approvals, withdrawn>>

(* waitForApproval up to its first Unlock, one action per way out of it.     *)

Purge ==
  /\ lastPrompt' = LivePrompts
  /\ approvedCache' = LiveCache

AdmitClosed(c) ==
  /\ caller[c].pc = "checked" /\ closed
  /\ Return(c, "Denied")
  /\ UNCHANGED <<closed, pendingRequests, lastPrompt, approvedCache, sends, request,
                 sender, polling, closer, secrets, approvals, withdrawn>>

\* (Mutant: the cache lookup is not per device.)
CacheHitAnyDevice(c) == Keys(LiveCache) # {} /\ ~caller[c].cancelled

CacheHit(c) == LiveCache[caller[c].device] # NoEntry /\ ~caller[c].cancelled

AdmitCached(c) ==
  /\ caller[c].pc = "checked" /\ ~closed /\ CacheHit(c)
  /\ Purge
  /\ Return(c, "Approved")
  /\ UNCHANGED <<closed, pendingRequests, sends, request, sender, polling, closer,
                 secrets, approvals, withdrawn>>

\* (Mutant: limits compared with > instead of >=.)
PromptRefusedLate(d) ==
  \/ LivePrompts[d] # NoEntry
  \/ Cardinality(PendingDevices) > MaxPendingRequests
  \/ Cardinality(Keys(LivePrompts)) > MaxTrackedDevices
  \/ Cardinality(Keys(LiveCache)) > MaxTrackedDevices
  \/ sends = MaxConcurrentSends

\* What stands in the way of a new prompt for d.
PromptRefused(d) ==
  \/ LivePrompts[d] # NoEntry
  \/ Cardinality(PendingDevices) >= MaxPendingRequests
  \/ Cardinality(Keys(LivePrompts)) >= MaxTrackedDevices
  \/ Cardinality(Keys(LiveCache)) >= MaxTrackedDevices
  \/ sends = MaxConcurrentSends

\* (Mutant: one waiter too many.)
WaitersOverfull(r) == request[r].waiters > MaxWaitersPerDevice

WaitersFull(r) == request[r].waiters >= MaxWaitersPerDevice

AdmitRefused(c) ==
  LET d == caller[c].device IN
  /\ caller[c].pc = "checked" /\ ~closed /\ ~CacheHit(c)
  /\ IF pendingRequests[d] = None THEN PromptRefused(d) ELSE WaitersFull(pendingRequests[d])
  /\ Purge
  /\ Return(c, "Denied")
  /\ UNCHANGED <<closed, pendingRequests, sends, request, sender, polling, closer,
                 secrets, approvals, withdrawn>>

NewRequest(d) == [device |-> d, age |-> 0, decision |-> "Denied",
                  done |-> FALSE, waiters |-> 1]

AdmitNew(c, r) ==
  LET d == caller[c].device IN
  /\ caller[c].pc = "checked" /\ ~closed /\ ~CacheHit(c)
  /\ pendingRequests[d] = None /\ ~PromptRefused(d)
  /\ Reusable(r)
  /\ request' = [request EXCEPT ![r] = NewRequest(d)]
  /\ pendingRequests' = [pendingRequests EXCEPT ![d] = r]
  /\ lastPrompt' = [LivePrompts EXCEPT ![d] = 0]
  /\ approvedCache' = LiveCache
  /\ sends' = sends + 1
  /\ sender' = [sender EXCEPT ![r] = "sending"]
  /\ caller' = [caller EXCEPT ![c].pc = "waiting", ![c].request = r]
  /\ approvals' = approvals \ {r}
  /\ withdrawn' = withdrawn \ {d}
  /\ UNCHANGED <<closed, polling, closer, secrets>>

\* (Mutant: waiters++ only for the caller that opens the request.)
AdmitJoinUncounted(c) ==
  LET r == pendingRequests[caller[c].device] IN
  /\ caller[c].pc = "checked" /\ ~closed /\ ~CacheHit(c)
  /\ r # None /\ ~WaitersFull(r)
  /\ Purge
  /\ caller' = [caller EXCEPT ![c].pc = "waiting", ![c].request = r]
  /\ UNCHANGED <<closed, pendingRequests, sends, request, sender, polling, closer,
                 secrets, approvals, withdrawn>>

AdmitJoin(c) ==
  LET r == pendingRequests[caller[c].device] IN
  /\ caller[c].pc = "checked" /\ ~closed /\ ~CacheHit(c)
  /\ r # None /\ ~WaitersFull(r)
  /\ Purge
  /\ request' = [request EXCEPT ![r].waiters = @ + 1]
  /\ caller' = [caller EXCEPT ![c].pc = "waiting", ![c].request = r]
  /\ UNCHANGED <<closed, pendingRequests, sends, sender, polling, closer, secrets,
                 approvals, withdrawn>>

\* waitForApproval from its second Lock.  The goroutine wakes when its context or
\* the request is done; both stay so, so waking and locking are one step, and the
\* context is read under the lock.  The last waiter reads it twice: cancelled in
\* between, it returns the error but has kept the device's prompt on record.
\* (Mutant: g.closed is not looked at again.)
ResultWhenClosed(c, r) ==
  IF caller[c].cancelled THEN "Error" ELSE request[r].decision

Result(c, r) ==
  IF caller[c].cancelled THEN "Error"
  ELSE IF closed THEN "Denied" ELSE request[r].decision

\* (Mutant: whoever leaves first finishes the request.)
AnyWaiter(r) == request[r].waiters >= 1

LastWaiter(r) == request[r].waiters = 1

\* (Mutant: every prompt without waiters is forgotten, denied ones too.)
PromptsForgotten(c) == [lastPrompt EXCEPT ![caller[c].device] = NoEntry]

PromptsAfterLastWaiter(c) ==
  IF caller[c].cancelled THEN [lastPrompt EXCEPT ![caller[c].device] = NoEntry]
                         ELSE lastPrompt

Leave(c) ==
  LET r == caller[c].request
      d == caller[c].device IN
  /\ caller[c].pc = "waiting"
  /\ caller[c].cancelled \/ request[r].done
  /\ IF LastWaiter(r)
       THEN /\ request' = [request EXCEPT ![r] = [Finished(r, "Denied") EXCEPT !.waiters = @ - 1]]
            /\ pendingRequests' = PendingWithout(r)
            /\ lastPrompt' = PromptsAfterLastWaiter(c)
       ELSE /\ request' = [request EXCEPT ![r].waiters = @ - 1]
            /\ UNCHANGED <<pendingRequests, lastPrompt>>
  /\ \/ Return(c, Result(c, r))
     \/ LastWaiter(r) /\ Return(c, "Error")
  /\ withdrawn' = IF caller[c].cancelled
                    THEN withdrawn \cup {d}
                    ELSE withdrawn
  /\ UNCHANGED <<closed, approvedCache, sends, sender, polling, closer, secrets, approvals>>

-----------------------------------------------------------------------------
(* runPending.                                                               *)

\* sendApprovalMessage returns nil and the token is released.
SendOK(r) ==
  /\ sender[r] = "sending"
  /\ sender' = [sender EXCEPT ![r] = "awaiting"]
  /\ sends' = sends - 1
  /\ UNCHANGED <<closed, pendingRequests, lastPrompt, approvedCache, request, caller,
                 polling, closer, secrets, approvals, withdrawn>>

\* It returns an error: transport, status, ok=false, HTTP timeout or its context.
\* Telegram may have delivered the message all the same.
\* (Mutant: the token is released on success only.)
SendFailLeaks(r) ==
  /\ sender[r] = "sending"
  /\ sender' = [sender EXCEPT ![r] = "failing"]
  /\ UNCHANGED <<closed, pendingRequests, lastPrompt, approvedCache, sends, request,
                 caller, polling, closer, secrets, approvals, withdrawn>>

SendFail(r) ==
  /\ sender[r] = "sending"
  /\ sender' = [sender EXCEPT ![r] = "failing"]
  /\ sends' = sends - 1
  /\ UNCHANGED <<closed, pendingRequests, lastPrompt, approvedCache, request, caller,
                 polling, closer, secrets, approvals, withdrawn>>

\* The goroutine finishes its request, at once after an error and otherwise when
\* its context is done.
\* (Mutants: no exit after a failed send; the token released a second time.)
SenderExitAwaiting(r) ==
  /\ sender[r] = "awaiting" /\ SendCtxDone(r)
  /\ sender' = [sender EXCEPT ![r] = "exited"]
  /\ finishPendingLocked(r, "Denied")
  /\ UNCHANGED <<closed, lastPrompt, approvedCache, sends, caller, polling, closer,
                 secrets, approvals, withdrawn>>

SenderExitReleases(r) ==
  /\ sender[r] = "failing" \/ (sender[r] = "awaiting" /\ SendCtxDone(r))
  /\ sender' = [sender EXCEPT ![r] = "exited"]
  /\ sends' = sends - 1
  /\ finishPendingLocked(r, "Denied")
  /\ UNCHANGED <<closed, lastPrompt, approvedCache, caller, polling, closer, secrets,
                 approvals, withdrawn>>

SenderExit(r) ==
  /\ sender[r] = "failing" \/ (sender[r] = "awaiting" /\ SendCtxDone(r))
  /\ sender' = [sender EXCEPT ![r] = "exited"]
  /\ finishPendingLocked(r, "Denied")
  /\ UNCHANGED <<closed, lastPrompt, approvedCache, sends, caller, polling, closer,
                 secrets, approvals, withdrawn>>

-----------------------------------------------------------------------------
(* The poll goroutine: processCallback for the buttons of request r.  A      *)
(* message stays in the chat, so its buttons can be pressed again and again  *)
(* and in any order; presses that are refused change nothing and are no      *)
(* action.                                                                   *)

\* decodeCallbackData and processCallback accept the timestamp, and the gate is open.
CallbackLive(r) ==
  /\ polling /\ ~closed
  /\ request[r].device # None
  /\ request[r].age <= ApprovalTTL

\* The timestamp in the callback is the identity of one request.
\* (Mutant: the timestamp is not compared.)
CallbackMatchesAny(r) == request[r].device \in Devices

CallbackMatches(r) == pendingRequests[request[r].device] \in {None, r}

CacheApproval(d) ==
  IF ApprovalCacheTTL > 0 /\ Cardinality(Keys(approvedCache)) < MaxTrackedDevices
    THEN [approvedCache EXCEPT ![d] = ApprovalCacheTTL] ELSE approvedCache

\* (Mutant: whatever the device has pending is approved.)
CallbackApproveAny(r) ==
  LET p == pendingRequests[request[r].device] IN
  /\ CallbackLive(r)
  /\ finishPendingLocked(IF p = None THEN r ELSE p, "Approved")
  /\ approvedCache' = CacheApproval(request[r].device)
  /\ approvals' = approvals \cup {r}
  /\ UNCHANGED <<closed, lastPrompt, sends, sender, caller, polling, closer, secrets,
                 withdrawn>>

CallbackApprove(r) ==
  /\ CallbackLive(r) /\ CallbackMatches(r)
  /\ finishPendingLocked(r, "Approved")
  /\ approvedCache' = CacheApproval(request[r].device)
  /\ approvals' = approvals \cup {r}
  /\ UNCHANGED <<closed, lastPrompt, sends, sender, caller, polling, closer, secrets,
                 withdrawn>>

CallbackDeny(r) ==
  /\ CallbackLive(r) /\ CallbackMatches(r)
  /\ finishPendingLocked(r, "Denied")
  /\ UNCHANGED <<closed, lastPrompt, approvedCache, sends, sender, caller, polling,
                 closer, secrets, approvals, withdrawn>>

\* pollLoop sees its context done, between two polls or inside one.
PollExit ==
  /\ polling /\ closed
  /\ polling' = FALSE
  /\ UNCHANGED <<closed, pendingRequests, lastPrompt, approvedCache, sends, request,
                 sender, caller, closer, secrets, approvals, withdrawn>>

-----------------------------------------------------------------------------
(* Close; closeOnce makes every further call a wait for the first.           *)

CloseBegin ==
  /\ closer = "open"
  /\ closer' = "draining"
  /\ closed' = TRUE
  /\ request' = [r \in Requests |-> Finished(r, "Denied")]
  /\ pendingRequests' = [d \in Devices |-> None]
  /\ UNCHANGED <<lastPrompt, approvedCache, sends, sender, caller, polling, secrets,
                 approvals, withdrawn>>

\* The goroutines counted in g.wg: pollLoop, every runPending, every waiting Check.
\* (Mutant: only the waiting calls are counted.)
DrainedCalls == \A c \in Callers : caller[c].pc # "waiting"

Drained ==
  /\ ~polling
  /\ \A r \in Requests : sender[r] = "exited"
  /\ \A c \in Callers : caller[c].pc # "waiting"

CloseZero ==
  /\ closer = "draining" /\ Drained
  /\ closer' = "zeroed"
  /\ secrets' = FALSE
  /\ UNCHANGED <<closed, pendingRequests, lastPrompt, approvedCache, sends, request,
                 sender, caller, polling, approvals, withdrawn>>

CloseClear ==
  /\ closer = "zeroed"
  /\ closer' = "closed"
  /\ pendingRequests' = [d \in Devices |-> None]
  /\ approvedCache' = [d \in Devices |-> NoEntry]
  /\ lastPrompt' = [d \in Devices |-> NoEntry]
  /\ UNCHANGED <<closed, sends, request, sender, caller, polling, secrets, approvals,
                 withdrawn>>

-----------------------------------------------------------------------------
(* One tick of time passes.                                                  *)

Older(age, bound) == IF age = NoEntry \/ age = bound THEN age ELSE age + 1

Tick ==
  /\ request' = [r \in Requests |-> [request[r] EXCEPT !.age = Older(@, Horizon)]]
  /\ lastPrompt' = [d \in Devices |-> Older(lastPrompt[d], PromptInterval)]
  /\ approvedCache' = [d \in Devices |-> IF approvedCache[d] > 0 THEN approvedCache[d] - 1
                                                              ELSE approvedCache[d]]
  /\ UNCHANGED <<closed, pendingRequests, sends, sender, caller, polling, closer, secrets,
                 approvals, withdrawn>>

-----------------------------------------------------------------------------
Check(c) ==
  \/ \E d \in Devices : CheckEnter(c, d)
  \/ \E res \in {"Denied", "Error"} : CheckReject(c, res)
  \/ CancelCtx(c)

Admit(c) ==
  \/ AdmitClosed(c)
  \/ AdmitCached(c)
  \/ AdmitRefused(c)
  \/ \E r \in Requests : AdmitNew(c, r)
  \/ AdmitJoin(c)

Send(r) == SendOK(r) \/ SendFail(r)

Callback(r) == CallbackApprove(r) \/ CallbackDeny(r)

Close == CloseBegin \/ CloseZero \/ CloseClear

Next ==
  \/ \E c \in Callers : Check(c) \/ Admit(c) \/ Leave(c)
  \/ \E r \in Requests : Send(r) \/ SenderExit(r) \/ Callback(r)
  \/ PollExit
  \/ Close
  \/ Tick

Spec == Init /\ [][Next]_vars

\* Goroutines that can run do run, time passes, and an HTTP request whose context
\* is done returns.  Admit is strongly fair: sync.Mutex starves nobody, and waiting
\* for a slot in Requests is the model's bound, not the code's.  Nothing is assumed
\* of clients, of the operator, of Telegram's answers or of Close being called.
Fairness ==
  /\ \A c \in Callers : SF_vars(Admit(c)) /\ WF_vars(Leave(c))
  /\ \A r \in Requests : WF_vars(SendCtxDone(r) /\ Send(r)) /\ WF_vars(SenderExit(r))
  /\ WF_vars(PollExit)
  /\ WF_vars(CloseZero \/ CloseClear)
  /\ WF_vars(Tick)

FairSpec == Spec /\ Fairness

-----------------------------------------------------------------------------
(* Properties.                                                               *)

\* waiters counts exactly the Check calls blocked on a request.  A count too high
\* leaves a prompt nobody waits for; one too low finishes it under a waiter.
WaitersCounted == \A r \in Requests : request[r].waiters = Cardinality(Waiting(r))

\* Every token in g.sends belongs to a goroutine inside sendApprovalMessage: none
\* leaks when a send fails, times out or is cancelled, or all prompts would stop.
SendsCounted == sends = Cardinality({r \in Requests : sender[r] = "sending"})

\* The map and the objects agree.  A request is pending under its own device
\* exactly until its done channel is closed, so no waiter can block on a request
\* nothing will ever finish; until then a goroutine holds its deadline, somebody
\* waits for it, and the gate is open.
PendingSound ==
  /\ \A d \in Devices : pendingRequests[d] # None => request[pendingRequests[d]].device = d
  /\ \A r \in Requests : IsPending(r) <=> ~request[r].done
  /\ \A r \in Requests : IsPending(r) => /\ sender[r] # "exited"
                                       /\ request[r].waiters > 0
                                       /\ ~closed

\* A request is Approved only through its own Approve button, whatever buttons of
\* earlier prompts for the device are pressed late or twice (processCallback).
ApprovedByOwnButton ==
  \A r \in Requests : request[r].decision = "Approved" => r \in approvals

\* While a device holds a live approval, no caller with a live context is kept
\* waiting for it: a late approval of an old prompt never becomes a cached one
\* beside a newer prompt that is still unanswered.
NoWaitBesideApproval ==
  \A c \in Callers :
    caller[c].pc = "waiting" /\ ~request[caller[c].request].done
      /\ approvedCache[caller[c].device] > 0 => caller[c].cancelled

\* Retained state stays within the fixed limits of telegram.go:69-74.
LimitsRespected ==
  /\ Cardinality(PendingDevices) <= MaxPendingRequests
  /\ Cardinality(Keys(lastPrompt)) <= MaxTrackedDevices
  /\ Cardinality(Keys(approvedCache)) <= MaxTrackedDevices
  /\ \A r \in Requests : request[r].waiters <= MaxWaitersPerDevice

\* botToken and hmacKey are zeroed only when no goroutine can still sign or send
\* with them, however late a send or a poll returns during Close.
SecretsOutliveUsers ==
  ~secrets => ~polling /\ \A r \in Requests : sender[r] # "sending"

\* A goroutine in Check has a device, and one that waits shares it with the
\* request it waits for: no pendingRequest is replaced under its waiters.
CallerSound ==
  \A c \in Callers :
    /\ caller[c].pc # "idle" => caller[c].device \in Devices
    /\ caller[c].pc = "waiting" => /\ caller[c].request \in Requests
                                  /\ request[caller[c].request].device = caller[c].device

\* How far Close has come tells what it has done.
CloserSound ==
  /\ closed <=> closer # "open"
  /\ secrets <=> closer \in {"open", "draining"}

\* The inductive invariant of the proofs.
IInv ==
  /\ TypeOK
  /\ WaitersCounted
  /\ SendsCounted
  /\ CallerSound
  /\ PendingSound
  /\ CloserSound
  /\ SecretsOutliveUsers
  /\ ApprovedByOwnButton

\* A decision, once taken, stands: neither the deadline, the last waiter's leave,
\* a failed send, a second press nor Close overwrites it.
DecisionIsFinal ==
  [][\A r \in Requests :
       request[r].done /\ request'[r].done => request'[r].decision = request[r].decision]_vars

\* An Approved goes back to the operator: the caller's own prompt was approved, or
\* a prompt for the same device, approved less than ApprovalTTL + ApprovalCacheTTL
\* after it was created.  With caching off only the first remains.
AuthorizedByOperator ==
  [][\A c \in Callers :
       caller'[c].result = "Approved" /\ caller[c].result # "Approved" =>
         \E r \in approvals :
           /\ request[r].device = caller[c].device
           /\ \/ caller[c].request = r
              \/ ApprovalCacheTTL > 0 /\ request[r].age < ApprovalTTL + ApprovalCacheTTL]_vars

\* Callers sharing a prompt cancel independently (telegram.go:211): a caller who
\* leaves never finishes a request that another still waits for.
IndependentCancellation ==
  [][\A c \in Callers :
       caller[c].pc = "waiting" /\ caller'[c].pc = "waiting"
         /\ ~request[caller[c].request].done /\ request'[caller[c].request].done =>
           caller' = caller]_vars

Created(r) == request[r].age = Horizon /\ request'[r].age = 0

\* The documented limit (docs/reference/runtime.md:12): two prompts of one device are
\* at least PromptInterval apart, unsuccessful attempts included.
PromptSpacing ==
  [][\A r, q \in Requests :
       Created(r) /\ q # r /\ request[q].device = request'[r].device =>
         request[q].age >= PromptInterval]_vars

\* What the code keeps of it: only a caller that left with its context cancelled
\* lets a second prompt through; denial, timeout, failed sends and approvals that
\* were not cached or ran out do not.
PromptSpacingUnlessCancelled ==
  [][\A r, q \in Requests :
       Created(r) /\ q # r /\ request[q].device = request'[r].device =>
         request[q].age >= PromptInterval \/ request[q].device \in withdrawn]_vars

\* Once begun, Close comes to its end: no goroutine it waits for is stuck.
CloseCompletes == closer = "draining" ~> closer = "closed"

\* The gate implements the contract of gate.go.
GrantedCallers ==
  {c \in Callers : caller[c].pc = "waiting" /\ request[caller[c].request].done
                     /\ request[caller[c].request].decision = "Approved"}

Contract == INSTANCE Gate WITH
  call <- [c \in Callers |-> caller[c].device],
  result <- [c \in Callers |-> caller[c].result],
  granted <- GrantedCallers,
  leased <- {d \in Devices : approvedCache[d] > 0},
  closing <- closed

ImplementsGate == Contract!Spec
AnswersEveryCheck == Contract!LiveSpec
=============================================================================
