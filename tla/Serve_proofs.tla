---------------------------- MODULE Serve_proofs ----------------------------
(* Proofs about runServe, for any number of RPCs, devices and keys. *)
EXTENDS Serve, KMSServer_proofs, TLAPS

(* Every step of the process is, for the RPCs, the gate and the key, a step *)
(* KMSServer allows, none at all, or the cancellation of all RPCs at once.  *)
LEMMA StepOfServer ==
  ASSUME IInv, ServeNext
  PROVE  IInv'
<1>1. (Next \/ UNCHANGED vars) => IInv'
  BY NextIInv
<1>2. CASE ForceStop
  <2>1. Active \subseteq RPCs
    BY DEF Active
  <2>2. TypeOK'
    BY <1>2, <2>1 DEF IInv, TypeOK, ForceStop, gateState, keyState
  <2>3. ASSUME NEW r \in RPCs
        PROVE  Stage(r)'
    BY <1>2, <2>3 DEF IInv, ForceStop, gateState, keyState, Stage, At, Device, Blob, Unasked, Opens
  <2> QED BY <1>2, <2>2, <2>3 DEF IInv, ForceStop, keyState
<1>3. CASE \E r \in RPCs : ServeReceive(r) \/ ServeHandle(r)
  BY <1>1, <1>3 DEF ServeReceive, ServeHandle, Next
<1>4. CASE ServeOperator \/ ReadReturns \/ DeferClose \/ DeferDestroy
  BY <1>1, <1>4 DEF ServeOperator, ReadReturns, DeferClose, DeferDestroy, Next
<1>5. CASE \/ Signal \/ BadConfig \/ StartLoad \/ Listen \/ StopServing
           \/ GracefulStopDone \/ ShutdownHTTP \/ DeferZeroToken
  BY <1>1, <1>5 DEF Signal, BadConfig, StartLoad, Listen, StopServing,
                    GracefulStopDone, ShutdownHTTP, DeferZeroToken
<1>6. CASE OpenGate
  <2>1. hasGate' \in BOOLEAN
    BY <1>6 DEF IInv, TypeOK, OpenGate
  <2>2. TypeOK'
    BY <1>6, <2>1 DEF IInv, TypeOK, OpenGate, gateState, keyState
  <2>3. ASSUME NEW r \in RPCs
        PROVE  Stage(r)'
    BY <1>6, <2>3 DEF IInv, OpenGate, gateState, keyState, Stage, At, Device, Blob, Unasked, Opens
  <2> QED BY <1>6, <2>2, <2>3 DEF IInv, OpenGate, keyState
<1> QED BY <1>2, <1>3, <1>4, <1>5, <1>6 DEF ServeNext, Progress

LEMMA InitServeIInv == ServeInit => ServeIInv
<1> SUFFICES ASSUME ServeInit PROVE ServeIInv
  OBVIOUS
<1>1. IInv
  BY InitIInv DEF ServeInit
<1>2. \A r \in RPCs : rpc[r].pc = "idle" /\ rpc[r].reason = "none" /\ rpc[r].answer = "none"
  BY DEF ServeInit, Init, Idle
<1>3. Active = {}
  BY <1>2 DEF Active, At
<1>4. phase = "unloaded" /\ masterKey = NoKey /\ ~closing
  BY DEF ServeInit, Init, K!Init, G!Init
<1>5. ServeTypeOK /\ ProcInv
  BY <1>1, <1>3, <1>4 DEF IInv, ServeInit, ServeTypeOK, Phases, ProcInv, NoKeyYet, Unwinding
<1>6. RequestsKnown
  BY <1>2 DEF RequestsKnown, At
<1> QED BY <1>1, <1>2, <1>5, <1>6 DEF ServeIInv, KeyAndGateThere

-----------------------------------------------------------------------------
(* What each kind of step does to the phases *)

(* The requests that have come in stay known while nobody changes them. *)
LEMMA RequestsStay ==
  ASSUME RequestsKnown, UNCHANGED config,
         \A r \in RPCs : At(r, "idle")' \/ (~At(r, "idle") /\ Device(r)' = Device(r))
  PROVE  RequestsKnown'
BY DEF RequestsKnown, Registered, Cfg

(* An RPC about a known device that is enabled: the process has a gate. *)
LEMMA GateForDevice ==
  ASSUME ServeIInv, NEW r \in RPCs, ~At(r, "idle"), Enabled(Device(r)),
         proc \in {"serving", "draining", "forcing"}
  PROVE  hasGate
<1>1. Device(r) \in Cfg.devices
  BY DevicesAssumption DEF ServeIInv, RequestsKnown, Registered, Enabled
<1>2. Cfg.gate # Unset
  BY <1>1 DEF ServeIInv, ProcInv, Valid, ValidGate
<1> QED BY <1>2 DEF ServeIInv, ProcInv

(* runServe moves on while the RPCs, the gate and the key stay. *)
LEMMA ControlStep ==
  ASSUME ServeIInv, IInv', UNCHANGED <<rpc, closing, phase, masterKey>>,
         \/ Signal \/ BadConfig \/ StartLoad \/ OpenGate \/ Listen \/ StopServing
         \/ GracefulStopDone \/ ForceStop \/ ShutdownHTTP \/ DeferZeroToken
  PROVE  ServeIInv'
<1>1. Active' = Active
  BY DEF Active, At
<1>c. UNCHANGED config /\ Cfg' = Cfg
  BY DEF Signal, BadConfig, StartLoad, OpenGate, Listen, StopServing,
         GracefulStopDone, ForceStop, ShutdownHTTP, DeferZeroToken, Cfg
<1>d. ~OpenGate => UNCHANGED hasGate
  BY DEF Signal, BadConfig, StartLoad, Listen, StopServing, GracefulStopDone,
         ForceStop, ShutdownHTTP, DeferZeroToken, vars, serverState
<1>e. (Valid(Cfg))' <=> Valid(Cfg)
  BY <1>c
<1>2. KeyAndGateThere' /\ RequestsKnown'
  BY <1>c, RequestsStay DEF ServeIInv, KeyAndGateThere, At, Device
<1> USE DEF ServeIInv, ServeTypeOK, ProcInv, NoKeyYet, Unwinding, Phases, Goto
<1>3. CASE ~OpenGate
  <2>1. ServeTypeOK'
    BY <1>3 DEF Signal, BadConfig, StartLoad, Listen, StopServing, GracefulStopDone,
                ForceStop, ShutdownHTTP, DeferZeroToken, IInv
  <2>2. ProcInv'
    <3>1. CASE Signal
      BY <1>1, <1>c, <1>d, <1>e, <1>3, <3>1 DEF Signal
    <3>2. CASE BadConfig
      BY <1>1, <1>c, <1>d, <1>e, <1>3, <3>2 DEF BadConfig
    <3>3. CASE StartLoad
      BY <1>1, <1>c, <1>d, <1>e, <1>3, <3>3 DEF StartLoad
    <3>4. CASE Listen
      BY <1>1, <1>c, <1>d, <1>e, <1>3, <3>4 DEF Listen
    <3>5. CASE StopServing \/ ForceStop
      BY <1>1, <1>c, <1>d, <1>e, <1>3, <3>5 DEF StopServing, ForceStop
    <3>6. CASE GracefulStopDone \/ ShutdownHTTP
      BY <1>1, <1>c, <1>d, <1>e, <1>3, <3>6 DEF GracefulStopDone, ShutdownHTTP
    <3>7. CASE DeferZeroToken
      BY <1>1, <1>c, <1>d, <1>e, <1>3, <3>7 DEF DeferZeroToken
    <3> QED BY <1>3, <3>1, <3>2, <3>3, <3>4, <3>5, <3>6, <3>7
  <2> QED BY <1>2, <2>1, <2>2
<1>4. CASE OpenGate
  <2>1. ServeTypeOK'
    BY <1>4 DEF OpenGate, IInv
  <2>2. phase = "loaded" /\ Active = {} /\ ~closing /\ ~hasGate
    BY <1>4 DEF OpenGate
  <2>3. ProcInv'
    <3>1. CASE proc' = "ready"
      BY <1>1, <1>c, <1>e, <1>4, <2>2, <3>1 DEF OpenGate
    <3>2. CASE proc' = "zeroToken"
      BY <1>1, <1>c, <1>e, <1>4, <2>2, <3>2 DEF OpenGate
    <3>3. CASE proc' = "destroyKey"
      BY <1>1, <1>c, <1>e, <1>4, <2>2, <3>3 DEF OpenGate
    <3> QED BY <1>4, <3>1, <3>2, <3>3 DEF OpenGate
  <2> QED BY <1>2, <2>1, <2>3
<1> QED BY <1>3, <1>4

(* A handler's step: it is active, so the key is loaded, and it stays out   *)
(* of the phases.                                                           *)
LEMMA HandlerStep ==
  ASSUME ServeIInv, IInv', NEW r \in RPCs, ServeHandle(r)
  PROVE  ServeIInv'
<1>1. UNCHANGED <<processState, phase, masterKey, closing, hasGate>>
  BY DEF ServeHandle, Handle, CheckReturns, SealStart, SealData, UnsealStart, Validate, Ask,
         UnsealApproved, Marshal, CheckApproved, CheckFailed, CheckPanics, CheckDenied, CancelRPC,
         TakeSealer, Fail, Reply, K!Dispense, K!Release, G!Return, G!Call, gateState, keyState
<1>2. r \in Active
  BY DEF ServeHandle, Handle, CheckReturns, SealStart, SealData, UnsealStart, Validate, Ask,
         UnsealApproved, Marshal, CheckApproved, CheckFailed, CheckPanics, CheckDenied, CancelRPC,
         Active, At
<1>3. proc \in {"serving", "draining", "forcing"} /\ phase = "loaded"
  BY <1>2 DEF ServeIInv, ProcInv
<1>c. UNCHANGED config /\ Cfg' = Cfg
  BY <1>1 DEF processState, Cfg
<1>e. (Valid(Cfg))' <=> Valid(Cfg)
  BY <1>c
<1>4. ProcInv' /\ ServeTypeOK'
  BY <1>1, <1>c, <1>e, <1>3 DEF ServeIInv, ServeTypeOK, ProcInv, NoKeyYet, Unwinding, processState, IInv
<1>5. rpc \in [RPCs -> RPCRecord] /\ rpc[r] \in RPCRecord
  BY DEF ServeIInv, IInv, TypeOK, RPCRecord
<1>6. \A s \in RPCs \ {r} : rpc'[s] = rpc[s]
  BY <1>5 DEF ServeHandle, Handle, CheckReturns, SealStart, SealData, UnsealStart, Validate, Ask,
       UnsealApproved, Marshal, CheckApproved, CheckFailed, CheckPanics, CheckDenied, CancelRPC,
       TakeSealer, Fail, Reply, Move
<1>7. /\ \A pc : Move(r, pc) =>
             /\ rpc'[r].req = rpc[r].req
             /\ rpc'[r].reason = rpc[r].reason /\ rpc'[r].answer = rpc[r].answer
             /\ rpc'[r].cause = rpc[r].cause
      /\ \A reason, answer, cause : Reply(r, reason, answer, cause) =>
             /\ rpc'[r].req = rpc[r].req
             /\ rpc'[r].reason = reason /\ rpc'[r].answer = answer /\ rpc'[r].cause = cause
  <2>1. ASSUME NEW pc, Move(r, pc)
        PROVE  /\ rpc'[r].req = rpc[r].req
               /\ rpc'[r].reason = rpc[r].reason /\ rpc'[r].answer = rpc[r].answer
               /\ rpc'[r].cause = rpc[r].cause
    BY <1>5, <2>1 DEF Move, RPCRecord
  <2>2. ASSUME NEW reason, NEW answer, NEW cause, Reply(r, reason, answer, cause)
        PROVE  /\ rpc'[r].req = rpc[r].req
               /\ rpc'[r].reason = reason /\ rpc'[r].answer = answer /\ rpc'[r].cause = cause
    BY <1>5, <2>2 DEF Reply, RPCRecord
  <2> QED BY <2>1, <2>2
<1>8. KeyAndGateThere'
  <2>1. /\ rpc[r].reason # "master_key_not_loaded" /\ rpc[r].answer # "Internal"
        /\ ~(rpc[r].reason = "gate_denied" /\ rpc[r].cause = "none")
    BY DEF ServeIInv, KeyAndGateThere
  <2> DEFINE Fine == /\ rpc'[r].reason # "master_key_not_loaded" /\ rpc'[r].answer # "Internal"
                     /\ ~(rpc'[r].reason = "gate_denied" /\ rpc'[r].cause = "none")
  <2>2. Fine
    <3>1. CASE SealStart(r) \/ SealData(r)
      BY <1>3, <1>7, <2>1, <3>1 DEF SealStart, SealData, TakeSealer
    <3>2. CASE UnsealStart(r)
      BY <1>3, <1>7, <2>1, <3>2 DEF UnsealStart, TakeSealer, Fail, DeviceRefusal
    <3>3. CASE Validate(r) \/ UnsealApproved(r)
      BY <1>7, <2>1, <3>3 DEF Validate, UnsealApproved, Fail, Open
    <3>4. CASE Ask(r)
      <4>1. ~At(r, "idle") /\ Enabled(Device(r))
        BY <3>4 DEF Ask, ServeIInv, IInv, Stage, At, Opens
      <4>2. hasGate
        BY <1>3, <4>1, GateForDevice
      <4> QED BY <1>7, <2>1, <3>4, <4>2 DEF Ask
    <3>5. CASE Marshal(r) \/ CancelRPC(r)
      BY <1>7, <2>1, <3>5 DEF Marshal, CancelRPC
    <3>6. CASE CheckApproved(r)
      BY <1>5, <2>1, <3>6 DEF CheckApproved, RPCRecord
    <3>7. CASE CheckFailed(r) \/ CheckPanics(r) \/ \E cause \in {"decided", "outage"} : CheckDenied(r, cause)
      BY <1>7, <3>7 DEF CheckFailed, CheckPanics, CheckDenied, Fail
    <3> QED BY <3>1, <3>2, <3>3, <3>4, <3>5, <3>6, <3>7 DEF ServeHandle, Handle, CheckReturns
  <2> QED BY <1>6, <2>2 DEF ServeIInv, KeyAndGateThere
<1>9. RequestsKnown'
  <2>1. rpc'[r].req = rpc[r].req
    <3>1. CASE CheckApproved(r)
      BY <1>5, <3>1 DEF CheckApproved, RPCRecord
    <3>2. CASE ~CheckApproved(r)
      BY <1>7, <3>2 DEF ServeHandle, Handle, CheckReturns, SealStart, SealData, UnsealStart, Validate,
           Ask, UnsealApproved, Marshal, CheckFailed, CheckPanics, CheckDenied, CancelRPC,
           TakeSealer, Fail
    <3> QED BY <3>1, <3>2
  <2>2. ~At(r, "idle")
    BY <1>2 DEF Active
  <2>3. \A s \in RPCs : At(s, "idle")' \/ (~At(s, "idle") /\ Device(s)' = Device(s))
    BY <1>6, <2>1, <2>2 DEF At, Device
  <2> QED BY <1>c, <2>3, RequestsStay DEF ServeIInv
<1> QED BY <1>4, <1>8, <1>9 DEF ServeIInv

LEMMA ReceiveServeStep ==
  ASSUME ServeIInv, IInv', NEW r \in RPCs, ServeReceive(r)
  PROVE  ServeIInv'
<1>1. /\ proc \in {"serving", "draining"}
      /\ UNCHANGED <<processState, phase, masterKey, closing, hasGate>>
  BY DEF ServeReceive, Receive, gateState, keyState
<1>c. UNCHANGED config /\ Cfg' = Cfg
  BY <1>1 DEF processState, Cfg
<1>e. (Valid(Cfg))' <=> Valid(Cfg)
  BY <1>c
<1>2. ProcInv' /\ ServeTypeOK'
  BY <1>1, <1>c, <1>e DEF ServeIInv, ServeTypeOK, ProcInv, NoKeyYet, Unwinding, processState, IInv
<1>3. rpc \in [RPCs -> RPCRecord]
  BY DEF ServeIInv, IInv, TypeOK, RPCRecord
<1>4. KeyAndGateThere'
  <2>1. \A s \in RPCs : rpc'[s].reason = rpc[s].reason /\ rpc'[s].answer = rpc[s].answer
                        /\ rpc'[s].cause = rpc[s].cause
    BY <1>3 DEF ServeReceive, Receive, RPCRecord
  <2> QED BY <2>1 DEF ServeIInv, KeyAndGateThere
<1>5. RequestsKnown'
  <2>1. PICK q \in Requests : q.device \in Registered /\ Receive(r, q)
    BY DEF ServeReceive
  <2>2. rpc'[r].req = q /\ \A s \in RPCs \ {r} : rpc'[s] = rpc[s]
    BY <1>3, <2>1 DEF Receive, RPCRecord
  <2>3. Registered' = Registered
    BY <1>c DEF Registered
  <2> QED BY <2>1, <2>2, <2>3 DEF ServeIInv, RequestsKnown, At, Device
<1> QED BY <1>2, <1>4, <1>5 DEF ServeIInv

(* The steps at which the key or the gate change hands. *)
LEMMA ComponentServeStep ==
  ASSUME ServeIInv, IInv', ServeOperator \/ ReadReturns \/ DeferClose \/ DeferDestroy
  PROVE  ServeIInv'
<1>1. UNCHANGED rpc
  BY DEF ServeOperator, ReadReturns, DeferClose, DeferDestroy, OperatorApproves, LeaseExpires,
         LoadKey, CloseGate, DestroyKey, vars, serverState
<1>c. UNCHANGED <<config, hasGate>> /\ Cfg' = Cfg
  BY DEF ServeOperator, ReadReturns, DeferClose, DeferDestroy, OperatorApproves, LeaseExpires,
         LoadKey, CloseGate, DestroyKey, vars, serverState, processState, Cfg
<1>e. (Valid(Cfg))' <=> Valid(Cfg)
  BY <1>c
<1>2. Active' = Active /\ KeyAndGateThere' /\ RequestsKnown'
  BY <1>1, <1>c, RequestsStay DEF Active, At, Device, ServeIInv, KeyAndGateThere
<1> USE DEF ServeIInv, ServeTypeOK, ProcInv, NoKeyYet, Unwinding, Phases, Goto,
            gateState, keyState
<1>3. CASE ServeOperator
  BY <1>2, <1>c, <1>e, <1>3 DEF ServeOperator, OperatorApproves, LeaseExpires, processState, IInv,
                    G!Approve, G!Expire
<1>4. CASE ReadReturns
  BY <1>2, <1>c, <1>e, <1>4 DEF ReadReturns, LoadKey, K!Load, vars, IInv
<1>5. CASE DeferClose
  BY <1>2, <1>c, <1>e, <1>5 DEF DeferClose, CloseGate, G!Close, vars, IInv
<1>6. CASE DeferDestroy
  BY <1>2, <1>c, <1>e, <1>6 DEF DeferDestroy, DestroyKey, K!Destroy, IInv
<1> QED BY <1>3, <1>4, <1>5, <1>6

(* The phases hold throughout. *)
THEOREM ServeInvariance == ServeSpec => []ServeIInv
<1>1. ServeInit => ServeIInv
  BY InitServeIInv
<1>2. ServeIInv /\ [ServeNext]_serveVars => ServeIInv'
  <2> SUFFICES ASSUME ServeIInv, [ServeNext]_serveVars PROVE ServeIInv'
    OBVIOUS
  <2>1. CASE ServeNext
    <3>1. IInv'
      BY <2>1, StepOfServer DEF ServeIInv
    <3>2. CASE \/ Signal \/ BadConfig \/ StartLoad \/ OpenGate \/ Listen \/ StopServing
               \/ GracefulStopDone \/ ForceStop \/ ShutdownHTTP \/ DeferZeroToken
      <4>1. UNCHANGED <<rpc, closing, phase, masterKey>>
        BY <3>2 DEF Signal, BadConfig, StartLoad, OpenGate, Listen, StopServing,
                    GracefulStopDone, ForceStop, ShutdownHTTP, DeferZeroToken,
                    vars, serverState, gateState, keyState
      <4> QED BY <3>1, <3>2, <4>1, ControlStep
    <3>3. CASE \E r \in RPCs : ServeReceive(r) \/ ServeHandle(r)
      BY <3>1, <3>3, ReceiveServeStep, HandlerStep
    <3>4. CASE ServeOperator \/ ReadReturns \/ DeferClose \/ DeferDestroy
      BY <3>1, <3>4, ComponentServeStep
    <3> QED BY <2>1, <3>2, <3>3, <3>4 DEF ServeNext, Progress
  <2>2. CASE UNCHANGED serveVars
    <3>1. IInv'
      BY <2>2, NextIInv DEF serveVars, ServeIInv
    <3>2. Active' = Active /\ Cfg' = Cfg /\ UNCHANGED config
      BY <2>2 DEF serveVars, processState, vars, serverState, Active, At, Cfg
    <3>3. (Valid(Cfg))' <=> Valid(Cfg)
      BY <3>2
    <3>4. RequestsKnown'
      BY <2>2, <3>2, RequestsStay DEF serveVars, vars, serverState, At, Device, ServeIInv
    <3> QED BY <2>2, <3>1, <3>2, <3>3, <3>4
            DEF serveVars, vars, serverState, gateState, keyState, processState, ServeIInv, IInv,
                ServeTypeOK, ProcInv, NoKeyYet, Unwinding, KeyAndGateThere
  <2> QED BY <2>1, <2>2
<1> QED BY <1>1, <1>2, PTL DEF ServeSpec

(* Nothing is torn down under an RPC. *)
THEOREM Teardown == ServeSpec => []TeardownAfterDrain
<1>1. ServeIInv => TeardownAfterDrain
  BY DEF ServeIInv, ProcInv, Unwinding, TeardownAfterDrain
<1> QED BY <1>1, ServeInvariance, PTL

(* No RPC is refused because the key is missing. *)
THEOREM KeyThere == ServeSpec => []KeyAndGateThere
<1>1. ServeIInv => KeyAndGateThere
  BY DEF ServeIInv
<1> QED BY <1>1, ServeInvariance, PTL

(* No secret survives runServe. *)
THEOREM Nothing == ServeSpec => []NothingLeft
<1>1. ServeIInv => NothingLeft
  <2> SUFFICES ASSUME ServeIInv, proc = "exited" PROVE NothingLeft
    BY DEF NothingLeft
  <2>1. masterKey = NoKey /\ ~token /\ (hasGate => closing) /\ Active = {}
    BY DEF ServeIInv, ProcInv, Unwinding
  <2>2. ASSUME NEW r \in RPCs
        PROVE  copy[r] = NoKey /\ plain[r] = None
    <3>1. At(r, "idle") \/ At(r, "sent")
      BY <2>1 DEF Active
    <3> QED BY <3>1 DEF ServeIInv, IInv, Stage, At
  <2> QED BY <2>1, <2>2 DEF NothingLeft
<1> QED BY <1>1, ServeInvariance, PTL

-----------------------------------------------------------------------------
(* The configuration *)

LEMMA DefaultsKeep ==
  ASSUME NEW cfg, WellFormed(cfg)
  PROVE  /\ ApplyDefaults(cfg).name = cfg.name
         /\ ApplyDefaults(cfg).gate = cfg.gate
         /\ ApplyDefaults(cfg).notifications # Unset =>
              /\ cfg.notifications # Unset
              /\ ApplyDefaults(cfg).notifications.rate = Or(cfg.notifications.rate, 5)
              /\ ApplyDefaults(cfg).notifications.ttl = Or(cfg.notifications.ttl, 10)
<1> DEFINE addr == Or(cfg.metrics, "loopback")
           notify == IF cfg.notifications = Unset THEN Unset
                     ELSE DefaultDurations(cfg.notifications)
<1>1. /\ ApplyDefaults(cfg).name = cfg.name
      /\ ApplyDefaults(cfg).gate = cfg.gate
      /\ ApplyDefaults(cfg).notifications = notify
  <2>1. ApplyDefaults(cfg) = [cfg EXCEPT !.metrics = addr, !.notifications = notify]
    BY DEF ApplyDefaults
  <2>2. {"name", "gate", "notifications"} \subseteq DOMAIN cfg
    BY DEF WellFormed
  <2> HIDE DEF addr, notify
  <2> QED BY <2>1, <2>2
<1>2. ASSUME cfg.notifications # Unset
      PROVE  /\ DefaultDurations(cfg.notifications).rate = Or(cfg.notifications.rate, 5)
             /\ DefaultDurations(cfg.notifications).ttl = Or(cfg.notifications.ttl, 10)
  BY <1>2 DEF WellFormed, DefaultDurations
<1> QED BY <1>1, <1>2

(* What the two validations disagree about, for every file: Validate passes *)
(* a file that NewTelegramGate then refuses exactly when its chat ID is not  *)
(* a number or no section gives it an approval_ttl.                         *)
THEOREM ValidityGap ==
  ASSUME NEW cfg, Valid(cfg), cfg.gate # Unset
  PROVE  GateAccepts(cfg.name, Settings(cfg)) <=>
           Chosen(cfg, "chat") \in Int /\ Chosen(cfg, "ttl") # Unset
<1>1. ValidTelegram(cfg) /\ cfg.name # Unset
  BY DEF Valid, ValidGate
<1>2. /\ Settings(cfg).chat = Chosen(cfg, "chat")
      /\ Settings(cfg).user = cfg.gate.telegram.user
      /\ Settings(cfg).ttl = Or(Chosen(cfg, "ttl"), 0)
      /\ Settings(cfg).cacheTTL = Or(cfg.gate.telegram.cacheTTL, 2)
  BY DEF Settings
<1>3. Settings(cfg).user > 0
  BY <1>1, <1>2 DEF ValidTelegram, Positive
<1>4. Settings(cfg).cacheTTL >= 0
  BY <1>1, <1>2 DEF ValidTelegram, ValidDuration, Positive, Or
<1>5. Settings(cfg).ttl > 0 <=> Chosen(cfg, "ttl") # Unset
  BY <1>1, <1>2 DEF ValidTelegram, ValidDuration, Positive, Or
<1> HIDE DEF Settings
<1> QED BY <1>1, <1>2, <1>3, <1>4, <1>5 DEF GateAccepts

(* A gate that is open runs on settings that both validations passed; it     *)
(* sends prompts without a limit exactly when the file has no                *)
(* notifications.telegram section and gate.telegram has no rate_limit.       *)
GateSettings ==
  hasGate =>
    /\ Cfg.gate # Unset /\ Valid(Cfg) /\ GateAccepts(Cfg.name, Settings(Cfg))
    /\ Settings(Cfg).rate >= 0
    /\ Settings(Cfg).rate = 0 <=>
         Cfg.notifications = Unset /\ config.gate.telegram.rate = Unset

GateValidated ==
  hasGate => Cfg.gate # Unset /\ Valid(Cfg) /\ GateAccepts(Cfg.name, Settings(Cfg))

LEMMA ConfigStays ==
  ASSUME ServeNext
  PROVE  UNCHANGED config /\ (UNCHANGED hasGate \/ OpenGate)
<1>1. CASE \/ Signal \/ BadConfig \/ StartLoad \/ OpenGate \/ Listen \/ StopServing
           \/ GracefulStopDone \/ ForceStop \/ ShutdownHTTP \/ DeferZeroToken
  BY <1>1 DEF Signal, BadConfig, StartLoad, OpenGate, Listen, StopServing, GracefulStopDone,
              ForceStop, ShutdownHTTP, DeferZeroToken, vars, serverState
<1>2. CASE ServeOperator \/ ReadReturns \/ DeferClose \/ DeferDestroy
  BY <1>2 DEF ServeOperator, ReadReturns, DeferClose, DeferDestroy, OperatorApproves, LeaseExpires,
              LoadKey, CloseGate, DestroyKey, vars, serverState, processState
<1>3. ASSUME NEW r \in RPCs, ServeReceive(r)
      PROVE  UNCHANGED <<config, hasGate>>
  BY <1>3 DEF ServeReceive, Receive, processState
<1>4. ASSUME NEW r \in RPCs, ServeHandle(r)
      PROVE  UNCHANGED <<config, hasGate>>
  BY <1>4 DEF ServeHandle, Handle, CheckReturns, SealStart, SealData, UnsealStart, Validate, Ask,
              UnsealApproved, Marshal, CheckApproved, CheckFailed, CheckPanics, CheckDenied,
              CancelRPC, processState
<1> QED BY <1>1, <1>2, <1>3, <1>4 DEF ServeNext, Progress

LEMMA SettingsOfGate ==
  ASSUME ServeTypeOK, GateValidated
  PROVE  GateSettings
<1> SUFFICES ASSUME hasGate PROVE GateSettings
  BY DEF GateSettings
<1> DEFINE rate == Chosen(Cfg, "rate")
<1>1. Cfg.gate # Unset /\ Valid(Cfg) /\ GateAccepts(Cfg.name, Settings(Cfg))
  BY DEF GateValidated
<1>2. ValidDuration(rate)
  BY <1>1 DEF Valid, ValidGate, ValidTelegram
<1>3. Settings(Cfg).rate = Or(rate, 0)
  BY DEF Settings
<1>4. Settings(Cfg).rate >= 0 /\ (Settings(Cfg).rate = 0 <=> rate = Unset)
  BY <1>2, <1>3, TextAssumption DEF ValidDuration, Positive, Or
<1>5. rate = Unset <=> Cfg.notifications = Unset /\ config.gate.telegram.rate = Unset
  <2>1. WellFormed(config)
    BY ConfigsAssumption DEF ServeTypeOK
  <2>2. /\ Cfg.gate = config.gate
        /\ Cfg.notifications # Unset => Cfg.notifications.rate = Or(config.notifications.rate, 5)
    BY <2>1, DefaultsKeep DEF Cfg
  <2>3. Cfg.notifications # Unset => Cfg.notifications.rate # Unset
    BY <2>2, TextAssumption DEF Or
  <2> QED BY <2>2, <2>3 DEF Chosen
<1> QED BY <1>1, <1>4, <1>5 DEF GateSettings

(* What is true of the rate limit, where PromptsLimited is not. *)
THEOREM SettingsCorrect == ServeSpec => []GateSettings
<1>1. ServeInit => GateValidated
  BY DEF ServeInit, GateValidated
<1>2. ServeIInv /\ GateValidated /\ [ServeNext]_serveVars => GateValidated'
  <2> SUFFICES ASSUME ServeIInv, GateValidated, [ServeNext]_serveVars PROVE GateValidated'
    OBVIOUS
  <2>1. CASE UNCHANGED <<config, hasGate>>
    <3>1. Cfg' = Cfg
      BY <2>1 DEF Cfg
    <3> QED BY <2>1, <3>1 DEF GateValidated
  <2>2. CASE OpenGate
    <3>1. Cfg' = Cfg
      BY <2>2 DEF OpenGate, Cfg
    <3>2. proc = "loaded" /\ Valid(Cfg) /\ ~hasGate
      BY <2>2 DEF OpenGate, ServeIInv, ProcInv
    <3>3. hasGate' => Cfg.gate # Unset /\ GateAccepts(Cfg.name, Settings(Cfg))
      BY <2>2, <3>2 DEF OpenGate
    <3> QED BY <3>1, <3>2, <3>3 DEF GateValidated
  <2>3. CASE UNCHANGED serveVars
    BY <2>1, <2>3 DEF serveVars, vars, serverState, processState
  <2> QED BY <2>1, <2>2, <2>3, ConfigStays
<1>3. ServeIInv /\ GateValidated => GateSettings
  BY SettingsOfGate DEF ServeIInv
<1> QED BY <1>1, <1>2, <1>3, ServeInvariance, PTL DEF ServeSpec

-----------------------------------------------------------------------------
(* The way out: what ShutdownCompletes rests on besides fairness *)

PhaseRank ==
  [starting |-> 0, loading |-> 1, loaded |-> 2, ready |-> 3, serving |-> 4, draining |-> 5,
   forcing |-> 6, drained |-> 7, closeGate |-> 8, zeroToken |-> 9, destroyKey |-> 10,
   exited |-> 11]

(* runServe never goes back to an earlier phase, a stop is not forgotten, no *)
(* RPC goes back a stage, and from the forced stop on no new one comes in:   *)
(* what the shutdown waits for only shrinks.                                *)
ShutdownAdvances ==
  /\ proc' = proc \/ PhaseRank[proc'] > PhaseRank[proc]
  /\ stopRequest => stopRequest'
  /\ StagesForward
  /\ proc \notin {"serving", "draining"} => Active' \subseteq Active

(* The guards of the next step of an RPC's handler. *)
HandlerCanGo(r) ==
  \/ /\ At(r, "received") /\ rpc[r].req.method \in {"Seal", "Unseal"}
     /\ DeviceRefusal(Device(r)) # "none" \/ (phase = "loaded" /\ copy[r] = NoKey)
  \/ At(r, "keyed") /\ rpc[r].req.method \in {"Seal", "Unseal"}
  \/ At(r, "validated") /\ (hasGate => call[r] = None)
  \/ At(r, "checking") /\ r \in cancelled /\ call[r] # None
  \/ At(r, "approved")
  \/ At(r, "replying")

(* Nothing on the way out can block: Stop has cancelled every RPC that is    *)
(* left, so each can take its next step without the operator, and the gate   *)
(* and the key are still there to be closed and destroyed, once.             *)
NothingBlocks ==
  /\ proc = "forcing" => \A r \in Active : r \in cancelled /\ HandlerCanGo(r)
  /\ proc = "closeGate" /\ hasGate => ~closing
  /\ proc = "destroyKey" => phase # "destroyed"

ForcedAreCancelled == proc = "forcing" => Active \subseteq cancelled

LEMMA HandlerCanGoOn ==
  ASSUME IInv, NEW r \in Active, r \in cancelled, phase = "loaded"
  PROVE  HandlerCanGo(r)
<1>1. r \in RPCs /\ ~At(r, "idle") /\ ~At(r, "sent") /\ Stage(r)
  BY DEF Active, IInv
<1>2. rpc[r].req \in Requests => rpc[r].req.method \in {"Seal", "Unseal"}
  BY DEF Requests
<1>3. CASE rpc[r].pc \in {"received", "keyed"}
  BY <1>1, <1>2, <1>3 DEF Stage, At, HandlerCanGo
<1>4. CASE At(r, "validated")
  BY <1>1, <1>4 DEF Stage, At, Unasked, HandlerCanGo
<1>5. CASE At(r, "checking")
  <2>1. call[r] = Device(r) /\ Device(r) \in Devices
    BY <1>1, <1>5 DEF Stage, At, Opens, Enabled
  <2> QED BY <1>5, <2>1, DevicesAssumption DEF HandlerCanGo
<1>6. CASE At(r, "approved") \/ At(r, "replying")
  BY <1>6 DEF HandlerCanGo
<1> QED BY <1>1, <1>3, <1>4, <1>5, <1>6 DEF At, IInv, TypeOK

(* The steps of runServe itself and of the components. *)
LEMMA ControlAdvances ==
  ASSUME ServeTypeOK,
         \/ Progress \/ StopServing \/ Signal \/ BadConfig \/ ReadReturns \/ ServeOperator
  PROVE  /\ proc' = proc \/ PhaseRank[proc'] > PhaseRank[proc]
         /\ stopRequest => stopRequest'
         /\ UNCHANGED rpc /\ cancelled \subseteq cancelled'
<1>1. UNCHANGED rpc /\ cancelled \subseteq cancelled'
  BY DEF Progress, StopServing, Signal, BadConfig, ReadReturns, ServeOperator, OperatorApproves,
         LeaseExpires, StartLoad, OpenGate, Listen, GracefulStopDone, ForceStop, ShutdownHTTP,
         DeferClose, DeferZeroToken, DeferDestroy, LoadKey, CloseGate, DestroyKey, vars, serverState
<1>2. stopRequest => stopRequest'
  BY DEF Progress, StopServing, Signal, BadConfig, ReadReturns, ServeOperator, StartLoad, OpenGate,
         Listen, GracefulStopDone, ForceStop, ShutdownHTTP, DeferClose, DeferZeroToken,
         DeferDestroy, processState
<1>3. CASE Signal \/ ServeOperator
  BY <1>1, <1>2, <1>3 DEF Signal, ServeOperator, processState
<1>4. CASE BadConfig \/ StartLoad \/ ReadReturns \/ OpenGate \/ Listen
  BY <1>1, <1>2, <1>4 DEF BadConfig, StartLoad, ReadReturns, OpenGate, Listen, Goto, PhaseRank
<1>5. CASE StopServing \/ GracefulStopDone \/ ForceStop \/ ShutdownHTTP
  BY <1>1, <1>2, <1>5 DEF StopServing, GracefulStopDone, ForceStop, ShutdownHTTP, Goto, PhaseRank
<1>6. CASE DeferClose \/ DeferZeroToken \/ DeferDestroy
  BY <1>1, <1>2, <1>6 DEF DeferClose, DeferZeroToken, DeferDestroy, Goto, PhaseRank
<1> QED BY <1>3, <1>4, <1>5, <1>6 DEF Progress

(* The steps of the RPCs. *)
LEMMA ServingAdvances ==
  ASSUME IInv, NEW r \in RPCs, ServeReceive(r) \/ ServeHandle(r)
  PROVE  /\ UNCHANGED <<proc, stopRequest>> /\ cancelled \subseteq cancelled'
         /\ StagesForward
         /\ proc \notin {"serving", "draining"} => Active' \subseteq Active
<1>1. UNCHANGED <<proc, stopRequest>> /\ cancelled \subseteq cancelled'
  BY DEF ServeReceive, ServeHandle, Handle, CheckReturns, Receive, SealStart, SealData, UnsealStart,
         Validate, Ask, UnsealApproved, Marshal, CheckApproved, CheckFailed, CheckPanics, CheckDenied,
         CancelRPC, processState
<1>2. CASE ServeHandle(r) /\ CancelRPC(r)
  BY <1>1, <1>2 DEF CancelRPC, StagesForward, Active, At
<1>3. CASE ~(ServeHandle(r) /\ CancelRPC(r))
  <2>1. Handle(r) \/ CheckReturns(r) \/ \E q \in Requests : Receive(r, q)
    BY <1>3 DEF ServeHandle, ServeReceive
  <2>2. \A s \in RPCs \ {r} : rpc'[s] = rpc[s]
    BY <2>1, Fate
  <2>3. StageRank[rpc'[r].pc] > StageRank[rpc[r].pc]
    BY <2>1, HandlerAdvances DEF IInv
  <2>4. proc \notin {"serving", "draining"} => r \in Active
    BY <1>3 DEF ServeReceive, ServeHandle, Handle, CheckReturns, SealStart, SealData, UnsealStart,
         Validate, Ask, UnsealApproved, Marshal, CheckApproved, CheckFailed, CheckPanics,
         CheckDenied, Active, At
  <2>5. proc \notin {"serving", "draining"} => Active' \subseteq Active
    BY <2>2, <2>4 DEF Active, At
  <2> QED BY <1>1, <2>2, <2>3, <2>5 DEF StagesForward
<1> QED BY <1>2, <1>3

LEMMA AdvanceStep ==
  ASSUME ServeIInv, ServeNext
  PROVE  ShutdownAdvances /\ cancelled \subseteq cancelled'
<1>1. CASE \/ Progress \/ StopServing \/ Signal \/ BadConfig \/ ReadReturns \/ ServeOperator
  BY <1>1, ControlAdvances DEF ServeIInv, ShutdownAdvances, StagesForward, Active, At
<1>2. ASSUME NEW r \in RPCs, ServeReceive(r) \/ ServeHandle(r)
      PROVE  ShutdownAdvances /\ cancelled \subseteq cancelled'
  BY <1>2, ServingAdvances DEF ServeIInv, ShutdownAdvances
<1> QED BY <1>1, <1>2 DEF ServeNext

(* Nothing that a shutdown has behind it comes back. *)
THEOREM ShutdownForward == ServeSpec => [][ShutdownAdvances]_serveVars
<1>1. ServeIInv /\ [ServeNext]_serveVars => [ShutdownAdvances]_serveVars
  BY AdvanceStep
<1> QED BY <1>1, ServeInvariance, PTL DEF ServeSpec

(* No phase of the shutdown waits for something that cannot come. *)
THEOREM ShutdownUnblocked == ServeSpec => []NothingBlocks
<1>1. ServeInit => ForcedAreCancelled
  BY DEF ServeInit, ForcedAreCancelled
<1>2. ServeIInv /\ ForcedAreCancelled /\ [ServeNext]_serveVars => ForcedAreCancelled'
  <2> SUFFICES ASSUME ServeIInv, ForcedAreCancelled, [ServeNext]_serveVars, proc' = "forcing"
               PROVE  Active' \subseteq cancelled'
    BY DEF ForcedAreCancelled
  <2>1. CASE UNCHANGED serveVars
    BY <2>1 DEF ForcedAreCancelled, serveVars, vars, serverState, processState, Active, At
  <2>2. CASE ServeNext /\ proc = "forcing"
    BY <2>2, AdvanceStep DEF ForcedAreCancelled, ShutdownAdvances
  <2>3. CASE ServeNext /\ proc # "forcing"
    <3>1. ForceStop
      BY <2>3 DEF ServeNext, Progress, StopServing, Signal, BadConfig, ReadReturns, ServeOperator,
           StartLoad, OpenGate, Listen, GracefulStopDone, ShutdownHTTP, DeferClose,
           DeferZeroToken, DeferDestroy, ServeReceive, ServeHandle, Goto, processState
    <3> QED BY <3>1 DEF ForceStop, Active, At
  <2> QED BY <2>1, <2>2, <2>3
<1>3. ServeIInv /\ ForcedAreCancelled => NothingBlocks
  <2> SUFFICES ASSUME ServeIInv, ForcedAreCancelled PROVE NothingBlocks
    OBVIOUS
  <2>1. ASSUME proc = "forcing", NEW r \in Active
        PROVE  r \in cancelled /\ HandlerCanGo(r)
    BY <2>1, HandlerCanGoOn DEF ForcedAreCancelled, ServeIInv, ProcInv
  <2>2. (proc = "closeGate" /\ hasGate => ~closing) /\ (proc = "destroyKey" => phase # "destroyed")
    BY DEF ServeIInv, ProcInv, Unwinding
  <2> QED BY <2>1, <2>2 DEF NothingBlocks
<1> QED BY <1>1, <1>2, <1>3, ServeInvariance, PTL DEF ServeSpec

-----------------------------------------------------------------------------
(* The process keeps to the contracts of the gate and of the key manager *)

(* Joint steps of KMSServer happen in ServeNext or the two states are left   *)
(* alone.                                                                   *)
LEMMA ServeContractStep ==
  ASSUME IInv, ServeNext
  PROVE  (G!Next \/ UNCHANGED gateState) /\ (K!Next \/ UNCHANGED keyState)
<1>1. Next \/ UNCHANGED <<gateState, keyState>>
  <2>1. CASE \/ Signal \/ BadConfig \/ StartLoad \/ OpenGate \/ Listen \/ StopServing
             \/ GracefulStopDone \/ ForceStop \/ ShutdownHTTP \/ DeferZeroToken
    BY <2>1 DEF Signal, BadConfig, StartLoad, OpenGate, Listen, StopServing, GracefulStopDone,
                ForceStop, ShutdownHTTP, DeferZeroToken, vars
  <2>2. CASE ServeOperator \/ ReadReturns \/ DeferClose \/ DeferDestroy
    BY <2>2 DEF ServeOperator, ReadReturns, DeferClose, DeferDestroy, vars, Next
  <2>3. CASE \E r \in RPCs : ServeReceive(r) \/ ServeHandle(r)
    BY <2>3 DEF ServeReceive, ServeHandle, Next
  <2> QED BY <2>1, <2>2, <2>3 DEF ServeNext, Progress
<1> QED BY <1>1, GateContractStep, KeyContractStep

(* In the life of a process the gate is closed at most once, its callers ask *)
(* and return in turn, and the key is loaded once, destroyed once and handed *)
(* out in between: what TelegramGate and KeyManager are proved to promise is *)
(* promised to this very environment.                                       *)
THEOREM ProcessKeepsContracts == ServeSpec => G!Spec /\ K!Spec
<1>1. ServeInit => G!Init /\ K!Init
  BY DEF ServeInit, Init
<1>2. ServeIInv /\ [ServeNext]_serveVars => [G!Next]_(G!gateVars) /\ [K!Next]_(K!lifecycleVars)
  BY ServeContractStep DEF ServeIInv, serveVars, vars, gateState, keyState, G!gateVars, K!lifecycleVars
<1> QED BY <1>1, <1>2, ServeInvariance, PTL DEF ServeSpec, G!Spec, K!Spec
=============================================================================
