-------------------------- MODULE KMSServer_proofs --------------------------
(***************************************************************************)
(* Proofs about KMSServer: for any number of RPCs, devices and keys, and    *)
(* whatever the gate and the key manager do within their contracts.         *)
(***************************************************************************)
EXTENDS KMSServer, FiniteSetTheorems, TLAPS

USE DevicesAssumption, NoKeyAssumption

(* The records of the variable rpc. *)
RPCRecord ==
  [pc : {"idle", "received", "keyed", "validated", "checking", "approved", "replying", "sent"},
   req : Requests \cup {NoRequest},
   reason : Reasons \cup {"none"}, answer : Answers, cause : Causes]

(* What an action about one RPC leaves alone. *)
Frame(r) ==
  \A s \in RPCs \ {r} :
    rpc'[s] = rpc[s] /\ plain'[s] = plain[s] /\ call'[s] = call[s]
    /\ result'[s] = result[s] /\ copy'[s] = copy[s]

(* Every other RPC keeps its stage, so an action need only be checked for   *)
(* its own.                                                                 *)
LEMMA OwnStage ==
  ASSUME IInv, NEW r \in RPCs, Frame(r), Stage(r)', TypeOK',
         UNCHANGED <<phase, masterKey>>
  PROVE  IInv'
<1>1. ASSUME NEW s \in RPCs \ {r}
      PROVE  Stage(s)'
  BY <1>1 DEF IInv, Frame, Stage, At, Device, Blob, Unasked, Opens
<1> QED BY <1>1 DEF IInv

(* A record of the type of rpc[r] for an RPC that moves on or replies. *)
LEMMA MoveType ==
  ASSUME TypeOK, NEW r \in RPCs,
         NEW pc \in {"received", "keyed", "validated", "checking", "approved", "sent"}, Move(r, pc)
  PROVE  /\ rpc' \in [RPCs -> RPCRecord]
         /\ rpc'[r].pc = pc /\ rpc'[r].req = rpc[r].req
         /\ rpc'[r].reason = rpc[r].reason /\ rpc'[r].answer = rpc[r].answer
         /\ \A s \in RPCs \ {r} : rpc'[s] = rpc[s]
<1>1. rpc[r] \in RPCRecord
  BY DEF TypeOK, RPCRecord
<1>2. rpc' = [rpc EXCEPT ![r] = [rpc[r] EXCEPT !.pc = pc]]
  BY DEF Move
<1> QED BY <1>1, <1>2 DEF TypeOK, RPCRecord

LEMMA ReplyType ==
  ASSUME TypeOK, NEW r \in RPCs, NEW reason \in Reasons \cup {"none"}, NEW answer \in Answers,
         NEW cause \in Causes, Reply(r, reason, answer, cause)
  PROVE  /\ rpc' \in [RPCs -> RPCRecord]
         /\ rpc'[r].pc = "replying" /\ rpc'[r].req = rpc[r].req
         /\ rpc'[r].reason = reason /\ rpc'[r].answer = answer
         /\ \A s \in RPCs \ {r} : rpc'[s] = rpc[s] /\ copy'[s] = copy[s]
         /\ copy' \in [RPCs -> Keys \cup {NoKey}] /\ copy'[r] = NoKey
         /\ UNCHANGED <<phase, masterKey>>
<1>1. rpc[r] \in RPCRecord
  BY DEF TypeOK, RPCRecord
<1>2. rpc' = [rpc EXCEPT ![r] = [rpc[r] EXCEPT !.pc = "replying", !.reason = reason,
                                               !.answer = answer, !.cause = cause]]
  BY <1>1 DEF TypeOK, Reply
<1>3. /\ rpc' \in [RPCs -> RPCRecord]
      /\ rpc'[r].pc = "replying" /\ rpc'[r].req = rpc[r].req
      /\ rpc'[r].reason = reason /\ rpc'[r].answer = answer
      /\ \A s \in RPCs \ {r} : rpc'[s] = rpc[s]
  BY <1>1, <1>2 DEF TypeOK, RPCRecord
<1>4. /\ copy' = [copy EXCEPT ![r] = NoKey] /\ UNCHANGED <<phase, masterKey>>
  BY DEF Reply, K!Release
<1> QED BY <1>3, <1>4 DEF TypeOK

LEMMA CountType ==
  ASSUME TypeOK, NEW reason \in Reasons, Count(reason)
  PROVE  unsealTotal' \in [Reasons -> Nat]
BY DEF TypeOK, Count

LEMMA DispenseType ==
  ASSUME IInv, NEW r \in RPCs, K!Dispense(r)
  PROVE  /\ copy' \in [RPCs -> Keys \cup {NoKey}] /\ copy'[r] \in Keys
         /\ \A s \in RPCs \ {r} : copy'[s] = copy[s]
         /\ UNCHANGED <<phase, masterKey>>
BY DEF IInv, TypeOK, K!Dispense

(* Failing before anyone was asked ends in a stage that owes nothing. *)
LEMMA EarlyFailure ==
  ASSUME IInv, NEW r \in RPCs, call[r] = None, result[r] = "none",
         NEW reason \in Reasons \cup {"none"}, NEW answer \in Answers \ {"plaintext"},
         Reply(r, reason, answer, "none"), unsealTotal' \in [Reasons -> Nat],
         plain' \in [RPCs -> Devices \cup {None}],
         \A s \in RPCs \ {r} : plain'[s] = plain[s],
         UNCHANGED <<cancelled, gateAPIErrors, hasGate, gateState>>
  PROVE  IInv'
<1>1. "none" \in Causes
  BY DEF Causes
<1> USE DEF IInv, gateState
<1>2. TypeOK'
  BY <1>1, ReplyType DEF TypeOK, RPCRecord
<1>3. Frame(r)
  BY <1>1, ReplyType DEF Frame
<1>4. Stage(r)'
  BY <1>1, ReplyType DEF Stage, At
<1> QED BY <1>1, <1>2, <1>3, <1>4, ReplyType, OwnStage

LEMMA InitIInv == Init => IInv
<1> SUFFICES ASSUME Init PROVE IInv
  OBVIOUS
<1> USE DEF Init, G!Init, K!Init, Idle
<1>1. TypeOK
  BY DEF TypeOK, Reasons, Answers, Causes, G!Results
<1>2. ASSUME NEW r \in RPCs
      PROVE  Stage(r)
  BY <1>2 DEF Stage, At, Unasked
<1> QED BY <1>1, <1>2 DEF IInv

-----------------------------------------------------------------------------
(* The steps of a handler *)

LEMMA ReceiveStep ==
  ASSUME IInv, NEW r \in RPCs, NEW q \in Requests, Receive(r, q)
  PROVE  IInv'
<1> USE DEF IInv, Receive, gateState, keyState
<1>1. /\ rpc' \in [RPCs -> RPCRecord]
      /\ rpc'[r].pc = "received" /\ rpc'[r].req = q /\ rpc'[r].answer = rpc[r].answer
      /\ \A s \in RPCs \ {r} : rpc'[s] = rpc[s]
  <2>1. rpc[r] \in RPCRecord
    BY DEF TypeOK, RPCRecord
  <2>2. rpc' = [rpc EXCEPT ![r] = [rpc[r] EXCEPT !.pc = "received", !.req = q]]
    BY <2>1 DEF TypeOK
  <2> QED BY <2>1, <2>2 DEF TypeOK, RPCRecord
<1>2. TypeOK'
  BY <1>1 DEF TypeOK, RPCRecord
<1>3. Frame(r)
  BY <1>1 DEF Frame
<1>4. Stage(r)'
  BY <1>1 DEF Stage, At, TypeOK, Unasked
<1> QED BY <1>2, <1>3, <1>4, OwnStage

LEMMA CancelStep ==
  ASSUME IInv, NEW r \in RPCs, CancelRPC(r)
  PROVE  IInv'
<1> USE DEF IInv, CancelRPC, gateState, keyState
<1>1. TypeOK'
  BY DEF TypeOK
<1>2. Frame(r) /\ Stage(r)'
  BY DEF Frame, Stage, At, Device, Blob, Unasked, Opens
<1> QED BY <1>1, <1>2, OwnStage

(* A Sealer is taken for an enabled device. *)
LEMMA TakeSealerStep ==
  ASSUME IInv, NEW r \in RPCs, At(r, "received"), DeviceRefusal(Device(r)) = "none",
         TakeSealer(r), UNCHANGED <<plain, cancelled, unsealTotal, gateAPIErrors, hasGate, gateState>>
  PROVE  IInv'
<1>1. Enabled(Device(r))
  <2>1. rpc[r].req \in Requests
    BY DEF IInv, Stage, At
  <2> QED BY <2>1 DEF DeviceRefusal, Enabled, Device, Requests
<1>2. Move(r, "keyed") /\ K!Dispense(r)
  BY DEF TakeSealer
<1> USE DEF IInv, gateState
<1>3. TypeOK'
  BY <1>2, MoveType, DispenseType DEF TypeOK, RPCRecord, K!Dispense
<1>4. Frame(r)
  BY <1>2, MoveType, DispenseType DEF Frame
<1>5. Stage(r)'
  BY <1>1, <1>2, MoveType, DispenseType DEF Stage, At, Device, Unasked, TypeOK
<1> QED BY <1>2, <1>3, <1>4, <1>5, DispenseType, OwnStage

LEMMA SealStep ==
  ASSUME IInv, NEW r \in RPCs, SealStart(r) \/ SealData(r)
  PROVE  IInv'
<1>1. call[r] = None /\ result[r] = "none"
  BY DEF IInv, Stage, SealStart, SealData, At, Unasked
<1>2. \A answer \in {"PermissionDenied", "Internal", "sealed"} :
        answer \in Answers \ {"plaintext"}
  BY DEF Answers
<1>3. unsealTotal \in [Reasons -> Nat] /\ plain \in [RPCs -> Devices \cup {None}]
  BY DEF IInv, TypeOK
<1>4. CASE SealStart(r) /\ TakeSealer(r) /\ DeviceRefusal(Device(r)) = "none"
  BY <1>4, TakeSealerStep DEF SealStart
<1>5. CASE SealStart(r) /\ Reply(r, "none", "PermissionDenied", "none")
  BY <1>1, <1>2, <1>3, <1>5, EarlyFailure DEF SealStart
<1>6. CASE SealStart(r) /\ Reply(r, "none", "Internal", "none")
  BY <1>1, <1>2, <1>3, <1>6, EarlyFailure DEF SealStart
<1>7. CASE SealData(r)
  BY <1>1, <1>2, <1>3, <1>7, EarlyFailure DEF SealData
<1> QED BY <1>4, <1>5, <1>6, <1>7 DEF SealStart

LEMMA FailEarly ==
  ASSUME IInv, NEW r \in RPCs, call[r] = None, result[r] = "none", NEW reason \in Reasons,
         Fail(r, reason, "none"), plain' \in [RPCs -> Devices \cup {None}],
         \A s \in RPCs \ {r} : plain'[s] = plain[s],
         UNCHANGED <<cancelled, gateAPIErrors, hasGate, gateState>>
  PROVE  IInv'
<1>1. Reply(r, reason, "random", "none") /\ Count(reason)
  BY DEF Fail
<1>2. unsealTotal' \in [Reasons -> Nat]
  BY <1>1, CountType DEF IInv
<1>3. "random" \in Answers \ {"plaintext"}
  BY DEF Answers
<1> QED BY <1>1, <1>2, <1>3, EarlyFailure

LEMMA UnsealStartStep ==
  ASSUME IInv, NEW r \in RPCs, UnsealStart(r)
  PROVE  IInv'
<1>1. call[r] = None /\ result[r] = "none" /\ plain \in [RPCs -> Devices \cup {None}]
  BY DEF IInv, TypeOK, Stage, UnsealStart, At, Unasked
<1>2. CASE TakeSealer(r) /\ UNCHANGED unsealTotal /\ DeviceRefusal(Device(r)) = "none"
  BY <1>2, TakeSealerStep DEF UnsealStart
<1>3. ASSUME NEW reason \in Reasons, Fail(r, reason, "none")
      PROVE  IInv'
  BY <1>1, <1>3, FailEarly DEF UnsealStart
<1>4. /\ "master_key_not_loaded" \in Reasons
      /\ DeviceRefusal(Device(r)) # "none" => DeviceRefusal(Device(r)) \in Reasons
  BY DEF Reasons, DeviceRefusal
<1> QED BY <1>2, <1>3, <1>4 DEF UnsealStart

LEMMA ValidateStep ==
  ASSUME IInv, NEW r \in RPCs, Validate(r)
  PROVE  IInv'
<1> DEFINE outcome == Open(copy[r], Blob(r), Device(r))
<1>1. /\ call[r] = None /\ result[r] = "none" /\ plain \in [RPCs -> Devices \cup {None}]
      /\ rpc[r].req \in Requests /\ rpc[r].req.method = "Unseal"
      /\ copy[r] \in Keys /\ Enabled(Device(r)) /\ At(r, "keyed")
  BY DEF IInv, TypeOK, Stage, Validate, At, Unasked
<1>2. CASE outcome # "ok"
  <2>1. outcome \in Reasons
    BY DEF Open, Reasons
  <2>2. Fail(r, outcome, "none") /\ UNCHANGED <<plain, cancelled, gateAPIErrors, hasGate, gateState>>
    BY <1>2 DEF Validate
  <2> HIDE DEF outcome
  <2> QED BY <1>1, <2>1, <2>2, FailEarly
<1>3. CASE outcome = "ok"
  <2>1. /\ Move(r, "validated") /\ plain' = [plain EXCEPT ![r] = Blob(r).device]
        /\ UNCHANGED <<unsealTotal, keyState, cancelled, gateAPIErrors, hasGate, gateState>>
    BY <1>3 DEF Validate
  <2>2. Blob(r).device \in Devices
    BY <1>1 DEF Requests, Blobs, Blob
  <2> USE DEF IInv, gateState, keyState
  <2>3. TypeOK'
    BY <2>1, <2>2, MoveType DEF TypeOK, RPCRecord
  <2>4. Frame(r)
    BY <1>1, <2>1, MoveType DEF Frame
  <2>5. rpc'[r].req = rpc[r].req /\ rpc'[r].pc = "validated" /\ rpc'[r].answer = "none"
    BY <1>1, <2>1, MoveType DEF TypeOK, Stage, At
  <2>6. Opens(r)'
    BY <1>1, <1>3, <2>1, <2>5 DEF Opens, Device, Blob
  <2>7. Stage(r)'
    BY <1>1, <2>1, <2>5, <2>6 DEF Stage, At, Unasked
  <2> QED BY <2>1, <2>3, <2>4, <2>7, OwnStage
<1> QED BY <1>2, <1>3

LEMMA AskStep ==
  ASSUME IInv, NEW r \in RPCs, Ask(r)
  PROVE  IInv'
<1>1. /\ Unasked(r) /\ Opens(r) /\ rpc[r].answer = "none" /\ Device(r) \in Devices
      /\ plain' = [plain EXCEPT ![r] = None] /\ UNCHANGED <<cancelled, gateAPIErrors, hasGate>>
  BY DEF IInv, Stage, Ask, At, Opens, Enabled
<1>2. plain' \in [RPCs -> Devices \cup {None}] /\ \A s \in RPCs \ {r} : plain'[s] = plain[s]
  BY <1>1 DEF IInv, TypeOK
<1>3. CASE Fail(r, "gate_denied", "none") /\ UNCHANGED gateState
  <2>1. "gate_denied" \in Reasons
    BY DEF Reasons
  <2> QED BY <1>1, <1>2, <1>3, <2>1, FailEarly DEF Unasked
<1>4. CASE Move(r, "checking") /\ G!Call(r, Device(r)) /\ UNCHANGED <<unsealTotal, keyState>>
  <2> USE DEF IInv, keyState
  <2>1. /\ call' = [call EXCEPT ![r] = Device(r)] /\ result' = [result EXCEPT ![r] = "none"]
        /\ UNCHANGED <<granted, leased, closing>>
    BY <1>4 DEF G!Call
  <2>2. call' \in [RPCs -> Devices \cup {None}] /\ result' \in [RPCs -> G!Results]
    BY <1>1, <2>1 DEF TypeOK, G!Results
  <2>3. TypeOK'
    BY <1>1, <1>2, <1>4, <2>1, <2>2, MoveType DEF TypeOK, RPCRecord
  <2>4. Frame(r)
    BY <1>2, <1>4, <2>1, MoveType DEF Frame, TypeOK
  <2>5. /\ rpc'[r].pc = "checking" /\ rpc'[r].req = rpc[r].req /\ rpc'[r].answer = "none"
        /\ plain'[r] = None
    BY <1>1, <1>4, MoveType DEF TypeOK
  <2>6. Stage(r)'
    BY <1>1, <1>4, <2>1, <2>5 DEF Stage, At, Opens, Device, Blob, TypeOK
  <2> QED BY <1>4, <2>3, <2>4, <2>6, OwnStage
<1> QED BY <1>3, <1>4 DEF Ask

(* What a Check that returns does to the gate's records of its caller. *)
LEMMA ReturnType ==
  ASSUME TypeOK, NEW r \in RPCs, NEW res \in {"Approved", "Denied", "Error"}, G!Return(r, res)
  PROVE  /\ call' \in [RPCs -> Devices \cup {None}] /\ call'[r] = None
         /\ result' \in [RPCs -> G!Results] /\ result'[r] = res
         /\ \A s \in RPCs \ {r} : call'[s] = call[s] /\ result'[s] = result[s]
         /\ granted' \subseteq RPCs /\ UNCHANGED <<leased, closing>>
BY DEF TypeOK, G!Return, G!Results

LEMMA ApprovedStep ==
  ASSUME IInv, NEW r \in RPCs, CheckApproved(r)
  PROVE  IInv'
<1>1. /\ Opens(r) /\ rpc[r].answer = "none" /\ plain[r] = None
      /\ G!Return(r, "Approved")
      /\ UNCHANGED <<plain, cancelled, unsealTotal, gateAPIErrors, hasGate, keyState>>
  BY DEF IInv, Stage, CheckApproved, At
<1>2. /\ rpc' \in [RPCs -> RPCRecord]
      /\ rpc'[r].pc = "approved" /\ rpc'[r].req = rpc[r].req /\ rpc'[r].answer = rpc[r].answer
      /\ \A s \in RPCs \ {r} : rpc'[s] = rpc[s]
  <2>1. rpc[r] \in RPCRecord
    BY DEF IInv, TypeOK, RPCRecord
  <2>2. rpc' = [rpc EXCEPT ![r] = [rpc[r] EXCEPT !.pc = "approved", !.cause = "approved"]]
    BY <2>1 DEF CheckApproved, IInv, TypeOK
  <2> QED BY <2>1, <2>2 DEF IInv, TypeOK, RPCRecord, Causes
<1> USE DEF IInv, keyState
<1>3. TypeOK'
  BY <1>1, <1>2, ReturnType DEF TypeOK, RPCRecord
<1>4. Frame(r)
  BY <1>1, <1>2, ReturnType DEF Frame
<1>5. Stage(r)'
  BY <1>1, <1>2, ReturnType DEF Stage, At, Opens, Device, Blob
<1> QED BY <1>1, <1>3, <1>4, <1>5, OwnStage

(* A Check that ends without approval, by whatever outcome. *)
LEMMA DeniedStep ==
  ASSUME IInv, NEW r \in RPCs, NEW res \in {"Denied", "Error"}, G!Return(r, res),
         NEW reason \in Reasons \cup {"none"}, NEW cause \in Causes, At(r, "checking"),
         Reply(r, reason, "random", cause),
         unsealTotal' \in [Reasons -> Nat], gateAPIErrors' \in Nat,
         UNCHANGED <<plain, cancelled, hasGate>>
  PROVE  IInv'
<1>1. "random" \in Answers /\ plain[r] = None
  BY DEF Answers, IInv, Stage, At
<1> USE DEF IInv
<1>2. TypeOK'
  <2>1. /\ rpc' \in [RPCs -> RPCRecord] /\ copy' \in [RPCs -> Keys \cup {NoKey}]
        /\ UNCHANGED <<phase, masterKey>>
    BY <1>1, ReplyType
  <2>2. /\ call' \in [RPCs -> Devices \cup {None}] /\ result' \in [RPCs -> G!Results]
        /\ granted' \subseteq RPCs /\ UNCHANGED <<leased, closing>>
    BY ReturnType DEF TypeOK
  <2> QED BY <2>1, <2>2 DEF TypeOK, RPCRecord
<1>3. Frame(r)
  <2>1. \A s \in RPCs \ {r} : rpc'[s] = rpc[s] /\ copy'[s] = copy[s]
    BY <1>1, ReplyType
  <2>2. \A s \in RPCs \ {r} : call'[s] = call[s] /\ result'[s] = result[s]
    BY ReturnType
  <2> QED BY <2>1, <2>2 DEF Frame
<1>4. Stage(r)'
  <2>1. rpc'[r].pc = "replying" /\ rpc'[r].answer = "random" /\ copy'[r] = NoKey
    BY <1>1, ReplyType
  <2>2. call'[r] = None /\ result'[r] # "Approved"
    BY ReturnType
  <2> QED BY <2>1, <2>2 DEF Stage, At
<1> QED BY <1>1, <1>2, <1>3, <1>4, ReplyType, OwnStage

LEMMA CheckReturnsStep ==
  ASSUME IInv, NEW r \in RPCs, CheckReturns(r)
  PROVE  IInv'
<1>1. /\ {"decided", "outage", "cancelled", "panic"} \subseteq Causes
      /\ "gate_denied" \in Reasons /\ gateAPIErrors \in Nat
      /\ unsealTotal \in [Reasons -> Nat]
      /\ Count("gate_denied") => unsealTotal' \in [Reasons -> Nat]
  BY CountType DEF Causes, Reasons, IInv, TypeOK
<1>2. CASE CheckApproved(r)
  BY <1>2, ApprovedStep
<1>3. CASE CheckFailed(r)
  <2>1. gateAPIErrors' \in Nat
    BY <1>1, <1>3 DEF CheckFailed
  <2> QED BY <1>1, <1>3, <2>1, DeniedStep DEF CheckFailed, Fail
<1>4. CASE CheckPanics(r)
  BY <1>1, <1>4, DeniedStep DEF CheckPanics
<1>5. ASSUME NEW cause \in {"decided", "outage"}, CheckDenied(r, cause)
      PROVE  IInv'
  BY <1>1, <1>5, DeniedStep DEF CheckDenied, Fail
<1> QED BY <1>2, <1>3, <1>4, <1>5 DEF CheckReturns

LEMMA UnsealApprovedStep ==
  ASSUME IInv, NEW r \in RPCs, UnsealApproved(r)
  PROVE  IInv'
<1>1. /\ Opens(r) /\ call[r] = None /\ result[r] = "Approved" /\ rpc[r].req \in Requests
      /\ rpc[r].req.method = "Unseal"
  BY DEF IInv, Stage, UnsealApproved, At, Opens
<1>2. /\ plain' = [plain EXCEPT ![r] = Blob(r).device]
      /\ Reply(r, "ok", "plaintext", "approved") /\ Count("ok")
      /\ UNCHANGED <<cancelled, gateAPIErrors, hasGate, gateState>>
  BY <1>1 DEF UnsealApproved, SecondKey, Opens
<1>3. Blob(r).device \in Devices /\ Blob(r).device = Device(r) /\ Enabled(Device(r))
  BY <1>1 DEF Opens, Open, Requests, Blobs, Blob
<1>4. "ok" \in Reasons /\ "plaintext" \in Answers /\ "approved" \in Causes
  BY DEF Reasons, Answers, Causes
<1>5. unsealTotal' \in [Reasons -> Nat]
  BY <1>2, <1>4, CountType DEF IInv
<1> USE DEF IInv, gateState
<1>6. TypeOK'
  BY <1>2, <1>3, <1>4, <1>5, ReplyType DEF TypeOK, RPCRecord
<1>7. Frame(r)
  BY <1>2, <1>4, ReplyType DEF Frame, TypeOK
<1>8. Stage(r)'
  BY <1>1, <1>2, <1>3, <1>4, ReplyType DEF Stage, At, Device, Blob, TypeOK
<1> QED BY <1>2, <1>4, <1>6, <1>7, <1>8, ReplyType, OwnStage

LEMMA MarshalStep ==
  ASSUME IInv, NEW r \in RPCs, Marshal(r)
  PROVE  IInv'
<1> USE DEF IInv, gateState, keyState, Marshal
<1>1. TypeOK'
  BY MoveType DEF TypeOK, RPCRecord
<1>2. Frame(r)
  BY MoveType DEF Frame, TypeOK
<1>3. Stage(r)'
  BY MoveType DEF Stage, At, Device, Blob, TypeOK
<1> QED BY <1>1, <1>2, <1>3, OwnStage

-----------------------------------------------------------------------------
(* The components' steps do not reach into a handler: its key copy outlives *)
(* Destroy, and approvals count only through Return.                        *)
LEMMA ComponentStep ==
  ASSUME IInv, OperatorApproves \/ LeaseExpires \/ CloseGate \/ LoadKey \/ DestroyKey
  PROVE  IInv'
<1>1. UNCHANGED <<rpc, plain, cancelled, unsealTotal, gateAPIErrors, hasGate, call, result, copy>>
  BY DEF OperatorApproves, LeaseExpires, CloseGate, LoadKey, DestroyKey, serverState, gateState,
         keyState, G!Approve, G!Expire, G!Close, K!Load, K!Destroy
<1>2. ASSUME NEW r \in RPCs
      PROVE  Stage(r)'
  BY <1>1, <1>2 DEF IInv, Stage, At, Device, Blob, Unasked, Opens
<1>3. granted' \subseteq RPCs /\ leased' \subseteq Devices /\ closing' \in BOOLEAN
  <2>1. CASE OperatorApproves
    BY <2>1 DEF IInv, TypeOK, OperatorApproves, G!Approve
  <2>2. CASE LeaseExpires \/ CloseGate \/ LoadKey \/ DestroyKey
    BY <2>2 DEF IInv, TypeOK, LeaseExpires, CloseGate, LoadKey, DestroyKey, gateState,
                G!Expire, G!Close
  <2> QED BY <2>1, <2>2
<1>4. /\ phase' \in {"unloaded", "loaded", "destroyed"} /\ masterKey' \in Keys \cup {NoKey}
      /\ phase' = "loaded" => masterKey' \in Keys
  BY DEF IInv, TypeOK, OperatorApproves, LeaseExpires, CloseGate, LoadKey, DestroyKey, keyState,
         K!Load, K!Destroy
<1>5. TypeOK'
  BY <1>1, <1>3, <1>4 DEF IInv, TypeOK
<1> QED BY <1>2, <1>4, <1>5 DEF IInv

LEMMA NextIInv ==
  ASSUME IInv, Next \/ UNCHANGED vars
  PROVE  IInv'
<1>1. ASSUME NEW r \in RPCs, Handle(r)
      PROVE  IInv'
  BY <1>1, SealStep, UnsealStartStep, ValidateStep, AskStep, UnsealApprovedStep, MarshalStep
     DEF Handle
<1>2. ASSUME NEW r \in RPCs, CheckReturns(r) \/ CancelRPC(r)
      PROVE  IInv'
  BY <1>2, CheckReturnsStep, CancelStep
<1>3. ASSUME NEW r \in RPCs, NEW q \in Requests, Receive(r, q)
      PROVE  IInv'
  BY <1>3, ReceiveStep
<1>4. CASE OperatorApproves \/ LeaseExpires \/ CloseGate \/ LoadKey \/ DestroyKey
  BY <1>4, ComponentStep
<1>5. CASE UNCHANGED vars
  BY <1>5 DEF vars, serverState, gateState, keyState, IInv, TypeOK, Stage, At, Device, Blob,
              Unasked, Opens
<1> QED BY <1>1, <1>2, <1>3, <1>4, <1>5 DEF Next

(* The stages hold throughout, whatever the operator, the client, a closing *)
(* gate or a destroyed key do between the steps of an RPC.                  *)
THEOREM Invariance == Spec => []IInv
<1>1. Init => IInv
  BY InitIInv
<1>2. IInv /\ [Next]_vars => IInv'
  BY NextIInv
<1> QED BY <1>1, <1>2, PTL DEF Spec

(* The operator is asked only about blobs that open for an enabled device. *)
THEOREM PromptsCorrect == Spec => []PromptsJustified
<1>1. IInv => PromptsJustified
  <2> SUFFICES ASSUME IInv, NEW r \in RPCs, call[r] # None
               PROVE  /\ Enabled(call[r]) /\ call[r] = Device(r)
                      /\ Open(copy[r], Blob(r), call[r]) = "ok"
    BY DEF PromptsJustified
  <2>1. At(r, "checking")
    BY DEF IInv, TypeOK, Stage, At, Unasked
  <2> QED BY <2>1 DEF IInv, Stage, At, Opens
<1> QED BY <1>1, Invariance, PTL

(* Plaintext goes to the device it belongs to, after its own approval. *)
THEOREM PlaintextCorrect == Spec => []PlaintextToOwner
<1>1. IInv => PlaintextToOwner
  BY DEF IInv, TypeOK, Stage, At, PlaintextToOwner
<1> QED BY <1>1, Invariance, PTL

(* An approved RPC always answers with plaintext in the end. *)
THEOREM ApprovalSpent == Spec => []ApprovalNeverWasted
<1>1. IInv => ApprovalNeverWasted
  BY DEF IInv, TypeOK, Stage, At, Unasked, ApprovalNeverWasted
<1> QED BY <1>1, Invariance, PTL

(* No plaintext waits for a human, and no key copy outlives its handler. *)
THEOREM SecretsCorrect == Spec => []SecretsInUse
<1>1. IInv => SecretsInUse
  BY DEF IInv, TypeOK, Stage, At, Opens, SecretsInUse
<1> QED BY <1>1, Invariance, PTL

-----------------------------------------------------------------------------
(* The metrics *)

Over(r) == rpc[r].pc \in {"replying", "sent"}

Tally(x) == {r \in RPCs : rpc[r].reason = x}
GivenUp == {r \in RPCs : rpc[r].cause = "cancelled"}

(* Each Unseal is counted once, under the reason it ended with, however its  *)
(* steps mingle with those of others; a panic is not counted.  The counter   *)
(* named after API errors counts the Checks that ended with the caller's     *)
(* cancellation, and only those (server.go, fail and the switch on Check).   *)
CountsExact ==
  /\ \A x \in Reasons : unsealTotal[x] = Cardinality(Tally(x))
  /\ gateAPIErrors = Cardinality(GivenUp)

(* That, and what an RPC owes the counters before it is answered. *)
Counted ==
  /\ \A r \in RPCs : ~Over(r) => rpc[r].reason = "none" /\ rpc[r].cause # "cancelled"
  /\ \A x \in Reasons : IsFiniteSet(Tally(x))
  /\ IsFiniteSet(GivenUp)
  /\ CountsExact

(* How a step of a handler ends up in the RPC's record: it goes on, or it is *)
(* answered without being counted, or with.                                 *)
GoesOn(r) ==
  /\ ~Over(r) \/ At(r, "replying")
  /\ Over(r)' <=> Over(r)
  /\ rpc'[r].reason = rpc[r].reason /\ rpc'[r].answer = rpc[r].answer
  /\ rpc'[r].cause = rpc[r].cause \/ (rpc'[r].cause = "approved" /\ ~Over(r))
  /\ Over(r) => rpc'[r].req = rpc[r].req /\ UNCHANGED <<call, result, copy>>
  /\ UNCHANGED <<unsealTotal, gateAPIErrors>>

Answered(r, reason, cause) ==
  /\ ~Over(r) /\ rpc'[r].pc = "replying"
  /\ rpc'[r].reason = reason /\ rpc'[r].cause = cause

Uncounted(r, cause) ==
  Answered(r, "none", cause) /\ cause # "cancelled" /\ UNCHANGED <<unsealTotal, gateAPIErrors>>

CountedAs(r, reason, cause) ==
  /\ Answered(r, reason, cause) /\ Count(reason)
  /\ gateAPIErrors' = IF cause = "cancelled" THEN gateAPIErrors + 1 ELSE gateAPIErrors

LEMMA Answering ==
  ASSUME TypeOK, NEW r \in RPCs, ~Over(r),
         NEW reason \in Reasons \cup {"none"}, NEW answer \in Answers, NEW cause \in Causes,
         Reply(r, reason, answer, cause)
  PROVE  Answered(r, reason, cause) /\ rpc'[r].answer = answer
<1>1. rpc[r] \in RPCRecord
  BY DEF TypeOK, RPCRecord
<1> QED BY <1>1 DEF TypeOK, Reply, RPCRecord, Answered

LEMMA MovingOn ==
  ASSUME TypeOK, NEW r \in RPCs, ~Over(r),
         NEW pc \in {"keyed", "validated", "checking"}, Move(r, pc),
         UNCHANGED <<unsealTotal, gateAPIErrors>>
  PROVE  GoesOn(r)
<1>1. rpc[r] \in RPCRecord
  BY DEF TypeOK, RPCRecord
<1> QED BY <1>1 DEF TypeOK, Move, RPCRecord, GoesOn, Over, At

LEMMA Fate ==
  ASSUME IInv, NEW r \in RPCs,
         Handle(r) \/ CheckReturns(r) \/ CancelRPC(r) \/ \E q \in Requests : Receive(r, q)
  PROVE  /\ \A s \in RPCs \ {r} :
              /\ rpc'[s] = rpc[s] /\ copy'[s] = copy[s]
              /\ call'[s] = call[s] /\ result'[s] = result[s]
         /\ \/ UNCHANGED <<rpc, unsealTotal, gateAPIErrors, gateState, copy>>
            \/ GoesOn(r)
            \/ \E cause \in Causes : Uncounted(r, cause)
            \/ \E reason \in Reasons, cause \in Causes : CountedAs(r, reason, cause)
<1>t. TypeOK /\ rpc[r] \in RPCRecord
  BY DEF IInv, TypeOK, RPCRecord
<1>1. \A s \in RPCs \ {r} :
         /\ rpc'[s] = rpc[s] /\ copy'[s] = copy[s]
         /\ call'[s] = call[s] /\ result'[s] = result[s]
  <2>1. CASE \E q \in Requests : Receive(r, q)
    BY <1>t, <2>1 DEF Receive, gateState, keyState, TypeOK
  <2>2. CASE Handle(r)
    BY <1>t, <2>2 DEF Handle, SealStart, SealData, UnsealStart, Validate, Ask, UnsealApproved,
         Marshal, TakeSealer, Fail, Reply, Move, TypeOK, K!Dispense, K!Release, G!Call,
         gateState, keyState
  <2>3. CASE CheckReturns(r) \/ CancelRPC(r)
    BY <1>t, <2>3 DEF CheckReturns, CheckApproved, CheckFailed, CheckPanics, CheckDenied, CancelRPC,
         Fail, Reply, TypeOK, K!Release, G!Return, gateState, keyState
  <2> QED BY <2>1, <2>2, <2>3
<1>n. /\ {"none", "approved", "decided", "outage", "cancelled", "panic"} \subseteq Causes
      /\ {"random", "PermissionDenied", "Internal", "sealed", "plaintext"} \subseteq Answers
      /\ {"gate_denied", "master_key_not_loaded", "unknown_uuid", "disabled", "ok",
          "decrypt_error", "wrong_instance"} \subseteq Reasons
  BY DEF Causes, Answers, Reasons
<1>2. ASSUME NEW reason \in Reasons, NEW cause \in Causes, Fail(r, reason, cause), ~Over(r),
             gateAPIErrors' = IF cause = "cancelled" THEN gateAPIErrors + 1 ELSE gateAPIErrors
      PROVE  CountedAs(r, reason, cause)
  BY <1>t, <1>n, <1>2, Answering DEF Fail, CountedAs
<1>3. ASSUME NEW answer \in Answers, NEW cause \in Causes \ {"cancelled"}, ~Over(r),
             Reply(r, "none", answer, cause), UNCHANGED <<unsealTotal, gateAPIErrors>>
      PROVE  Uncounted(r, cause)
  BY <1>t, <1>3, Answering DEF Uncounted
<1>4. CASE SealStart(r) \/ SealData(r)
  <2>1. ~Over(r) /\ UNCHANGED <<unsealTotal, gateAPIErrors>>
    BY <1>4 DEF SealStart, SealData, At, Over
  <2>2. CASE TakeSealer(r)
    BY <1>t, <2>1, <2>2, MovingOn, <1>1 DEF TakeSealer
  <2>3. CASE ~TakeSealer(r)
    BY <1>n, <1>3, <1>4, <1>1, <2>1, <2>3 DEF SealStart, SealData
  <2> QED BY <2>2, <2>3
<1>5. CASE UnsealStart(r)
  <2>1. ~Over(r) /\ UNCHANGED gateAPIErrors
    BY <1>5 DEF UnsealStart, At, Over
  <2>2. CASE TakeSealer(r) /\ UNCHANGED unsealTotal
    BY <1>t, <2>1, <2>2, MovingOn, <1>1 DEF TakeSealer
  <2>3. CASE ~(TakeSealer(r) /\ UNCHANGED unsealTotal)
    <3>1. \E reason \in Reasons : Fail(r, reason, "none")
      BY <1>n, <1>5, <2>3 DEF UnsealStart, DeviceRefusal
    <3> QED BY <1>n, <1>2, <1>1, <2>1, <3>1
  <2> QED BY <2>2, <2>3
<1>6. CASE Validate(r)
  <2>1. ~Over(r) /\ UNCHANGED gateAPIErrors
    BY <1>6 DEF Validate, At, Over
  <2>2. \/ Move(r, "validated") /\ UNCHANGED unsealTotal
        \/ \E reason \in Reasons : Fail(r, reason, "none")
    BY <1>n, <1>6 DEF Validate, Open
  <2> QED BY <1>t, <1>n, <1>1, <1>2, <2>1, <2>2, MovingOn
<1>7. CASE Ask(r)
  <2>1. ~Over(r) /\ UNCHANGED gateAPIErrors
    BY <1>7 DEF Ask, At, Over
  <2>2. (Move(r, "checking") /\ UNCHANGED unsealTotal) \/ Fail(r, "gate_denied", "none")
    BY <1>7 DEF Ask
  <2> QED BY <1>t, <1>n, <1>1, <1>2, <2>1, <2>2, MovingOn
<1>8. CASE UnsealApproved(r)
  <2>1. ~Over(r) /\ UNCHANGED gateAPIErrors
    BY <1>8 DEF UnsealApproved, At, Over
  <2>2. \/ Reply(r, "ok", "plaintext", "approved") /\ Count("ok")
        \/ \E reason \in Reasons : Fail(r, reason, "approved")
    BY <1>n, <1>8 DEF UnsealApproved, Open
  <2>3. Reply(r, "ok", "plaintext", "approved") /\ Count("ok") => CountedAs(r, "ok", "approved")
    BY <1>t, <1>n, <2>1, Answering DEF CountedAs
  <2> QED BY <1>n, <1>1, <1>2, <2>1, <2>2, <2>3
<1>9. CASE Marshal(r)
  <2>1. GoesOn(r)
    BY <1>t, <1>9 DEF Marshal, Move, RPCRecord, TypeOK, GoesOn, Over, At, gateState, keyState
  <2> QED BY <1>1, <2>1
<1>10. CASE CheckApproved(r)
  <2>1. GoesOn(r)
    BY <1>t, <1>10 DEF CheckApproved, RPCRecord, TypeOK, GoesOn, Over, At
  <2> QED BY <1>1, <2>1
<1>11. CASE CheckFailed(r)
  <2>1. ~Over(r)
    BY <1>11 DEF CheckFailed, At, Over
  <2>2. CountedAs(r, "gate_denied", "cancelled")
    BY <1>n, <1>2, <1>11, <2>1 DEF CheckFailed
  <2> QED BY <1>n, <1>1, <2>2
<1>12. CASE CheckPanics(r)
  <2>1. ~Over(r)
    BY <1>12 DEF CheckPanics, At, Over
  <2>2. Uncounted(r, "panic")
    BY <1>n, <1>3, <1>12, <2>1 DEF CheckPanics
  <2> QED BY <1>n, <1>1, <2>2
<1>13. ASSUME NEW cause \in {"decided", "outage"}, CheckDenied(r, cause)
       PROVE  CountedAs(r, "gate_denied", cause)
  <2>1. ~Over(r)
    BY <1>13 DEF CheckDenied, At, Over
  <2> QED BY <1>n, <1>2, <1>13, <2>1 DEF CheckDenied
<1>14. CASE CancelRPC(r)
  BY <1>1, <1>14 DEF CancelRPC, keyState
<1>15. CASE \E q \in Requests : Receive(r, q)
  <2>1. GoesOn(r)
    <3>1. PICK q \in Requests : Receive(r, q)
      BY <1>15
    <3>2. rpc' = [rpc EXCEPT ![r] = [rpc[r] EXCEPT !.pc = "received", !.req = q]]
      BY <1>t, <3>1 DEF Receive, TypeOK
    <3>3. At(r, "idle") /\ UNCHANGED <<unsealTotal, gateAPIErrors>>
      BY <3>1 DEF Receive
    <3> QED BY <1>t, <3>2, <3>3 DEF RPCRecord, TypeOK, GoesOn, Over, At
  <2> QED BY <1>1, <2>1
<1> QED BY <1>n, <1>1, <1>4, <1>5, <1>6, <1>7, <1>8, <1>9, <1>10, <1>11, <1>12, <1>13, <1>14, <1>15
        DEF Handle, CheckReturns

LEMMA TallyGrows ==
  ASSUME IInv, Counted, NEW r \in RPCs, NEW reason \in Reasons, NEW cause \in Causes,
         CountedAs(r, reason, cause), \A s \in RPCs \ {r} : rpc'[s] = rpc[s]
  PROVE  Counted'
<1>1. /\ r \notin GivenUp /\ \A x \in Reasons : r \notin Tally(x)
      /\ unsealTotal \in [Reasons -> Nat] /\ gateAPIErrors \in Nat
  BY DEF Counted, CountedAs, Answered, GivenUp, Tally, Reasons, IInv, TypeOK
<1>2. rpc'[r].pc = "replying" /\ rpc'[r].reason = reason /\ rpc'[r].cause = cause
  BY DEF CountedAs, Answered
<1>3. \A s \in RPCs : ~Over(s)' => rpc'[s].reason = "none" /\ rpc'[s].cause # "cancelled"
  BY <1>2 DEF Counted, Over
<1>4. ASSUME NEW x \in Reasons
      PROVE  IsFiniteSet(Tally(x)') /\ unsealTotal'[x] = Cardinality(Tally(x)')
  <2>1. IsFiniteSet(Tally(x)) /\ unsealTotal[x] = Cardinality(Tally(x))
    BY DEF Counted, CountsExact
  <2>2. CASE x = reason
    <3>1. Tally(x)' = Tally(x) \cup {r}
      BY <1>2, <2>2 DEF Tally
    <3>2. unsealTotal'[x] = unsealTotal[x] + 1
      BY <1>1, <2>2 DEF CountedAs, Count
    <3> QED BY <1>1, <2>1, <3>1, <3>2, FS_AddElement
  <2>3. CASE x # reason
    <3>1. Tally(x)' = Tally(x)
      BY <1>1, <1>2, <2>3 DEF Tally
    <3>2. unsealTotal'[x] = unsealTotal[x]
      BY <1>1, <2>3 DEF CountedAs, Count
    <3> QED BY <2>1, <3>1, <3>2
  <2> QED BY <2>2, <2>3
<1>5. IsFiniteSet(GivenUp') /\ gateAPIErrors' = Cardinality(GivenUp')
  <2>1. IsFiniteSet(GivenUp) /\ gateAPIErrors = Cardinality(GivenUp)
    BY DEF Counted, CountsExact
  <2>2. CASE cause = "cancelled"
    <3>1. GivenUp' = GivenUp \cup {r}
      BY <1>2, <2>2 DEF GivenUp
    <3>2. gateAPIErrors' = gateAPIErrors + 1
      BY <2>2 DEF CountedAs
    <3> QED BY <1>1, <2>1, <3>1, <3>2, FS_AddElement
  <2>3. CASE cause # "cancelled"
    <3>1. GivenUp' = GivenUp
      BY <1>1, <1>2, <2>3 DEF GivenUp
    <3>2. gateAPIErrors' = gateAPIErrors
      BY <2>3 DEF CountedAs
    <3> QED BY <2>1, <3>1, <3>2
  <2> QED BY <2>2, <2>3
<1> QED BY <1>3, <1>4, <1>5 DEF Counted, CountsExact

(* A step that changes no reason and no cancellation leaves the counts right. *)
LEMMA TallyStays ==
  ASSUME Counted, UNCHANGED <<unsealTotal, gateAPIErrors>>,
         \A s \in RPCs :
           /\ rpc'[s].reason = rpc[s].reason
           /\ rpc'[s].cause = "cancelled" <=> rpc[s].cause = "cancelled"
           /\ Over(s)' \/ ~Over(s)
  PROVE  Counted'
<1>1. /\ GivenUp' = GivenUp /\ \A x \in Reasons : Tally(x)' = Tally(x)
  BY DEF GivenUp, Tally
<1> QED BY <1>1 DEF Counted, CountsExact

LEMMA CountingStep ==
  ASSUME IInv, Counted, [Next]_vars
  PROVE  Counted'
<1>1. CASE UNCHANGED <<rpc, unsealTotal, gateAPIErrors>>
  BY <1>1, TallyStays DEF Over
<1>2. ASSUME NEW r \in RPCs,
             Handle(r) \/ CheckReturns(r) \/ CancelRPC(r) \/ \E q \in Requests : Receive(r, q)
      PROVE  Counted'
  <2>1. \A s \in RPCs \ {r} : rpc'[s] = rpc[s]
    BY <1>2, Fate
  <2>2. CASE GoesOn(r)
    <3>1. \A s \in RPCs :
            /\ rpc'[s].reason = rpc[s].reason
            /\ rpc'[s].cause = "cancelled" <=> rpc[s].cause = "cancelled"
            /\ Over(s)' \/ ~Over(s)
      BY <2>1, <2>2 DEF GoesOn, Counted, Over
    <3> QED BY <2>2, <3>1, TallyStays DEF GoesOn
  <2>3. ASSUME NEW cause \in Causes, Uncounted(r, cause)
        PROVE  Counted'
    <3>1. \A s \in RPCs :
            /\ rpc'[s].reason = rpc[s].reason
            /\ rpc'[s].cause = "cancelled" <=> rpc[s].cause = "cancelled"
            /\ Over(s)' \/ ~Over(s)
      BY <2>1, <2>3 DEF Uncounted, Answered, Counted, Over
    <3> QED BY <2>3, <3>1, TallyStays DEF Uncounted
  <2>4. ASSUME NEW reason \in Reasons, NEW cause \in Causes, CountedAs(r, reason, cause)
        PROVE  Counted'
    BY <2>1, <2>4, TallyGrows
  <2> QED BY <1>1, <1>2, <2>2, <2>3, <2>4, Fate
<1>3. CASE OperatorApproves \/ LeaseExpires \/ CloseGate \/ LoadKey \/ DestroyKey \/ UNCHANGED vars
  BY <1>1, <1>3 DEF OperatorApproves, LeaseExpires, CloseGate, LoadKey, DestroyKey, vars, serverState
<1> QED BY <1>2, <1>3 DEF Next

LEMMA InitCounted == Init => Counted
<1> SUFFICES ASSUME Init PROVE Counted
  OBVIOUS
<1>1. \A r \in RPCs : rpc[r].pc = "idle" /\ rpc[r].reason = "none" /\ rpc[r].cause = "none"
  BY DEF Init, Idle
<1>2. GivenUp = {} /\ \A x \in Reasons : Tally(x) = {}
  BY <1>1 DEF GivenUp, Tally, Reasons
<1>3. gateAPIErrors = 0 /\ \A x \in Reasons : unsealTotal[x] = 0
  BY DEF Init
<1> QED BY <1>1, <1>2, <1>3, FS_EmptySet DEF Counted, CountsExact, Over

(* The counters are exact, however many RPCs run at once. *)
THEOREM CountersCorrect == Spec => []CountsExact
<1>1. Init => Counted
  BY InitCounted
<1>2. IInv /\ Counted /\ [Next]_vars => Counted'
  BY CountingStep
<1>3. Counted => CountsExact
  BY DEF Counted
<1> QED BY <1>1, <1>2, <1>3, Invariance, PTL DEF Spec

-----------------------------------------------------------------------------
(* One question and one answer per RPC *)

(* The operator is asked at most once about an RPC, though the handler opens *)
(* the blob twice; and once its handler has returned nothing that happens    *)
(* changes the answer, its reason, or gives the RPC a key again, whatever    *)
(* the gate decides late.                                                   *)
AskedAndAnsweredOnce ==
  \A r \in RPCs :
    /\ result[r] # "none" => result'[r] = result[r] /\ call'[r] = None
    /\ Over(r) => /\ Over(r)' /\ rpc'[r].req = rpc[r].req
                  /\ rpc'[r].reason = rpc[r].reason /\ rpc'[r].answer = rpc[r].answer
                  /\ call'[r] = None /\ copy'[r] = NoKey

(* Once Close of the gate has begun, no further RPC is approved, and only an *)
(* RPC approved before still answers with plaintext.                        *)
NoApprovalOnceClosing ==
  closing => \A r \in RPCs :
    /\ result'[r] = "Approved" => result[r] = "Approved"
    /\ rpc'[r].answer = "plaintext" => rpc[r].answer = "plaintext" \/ At(r, "approved")

(* What an RPC's own step may do to its call: ask from the validated stage,  *)
(* and take the outcome while it waits.                                     *)
LEMMA GateStep ==
  ASSUME IInv, NEW r \in RPCs,
         Handle(r) \/ CheckReturns(r) \/ CancelRPC(r) \/ \E q \in Requests : Receive(r, q)
  PROVE  \/ UNCHANGED gateState
         \/ At(r, "validated") /\ hasGate /\ Device(r) \in Devices /\ G!Call(r, Device(r))
         \/ At(r, "checking") /\ CheckApproved(r) /\ G!Return(r, "Approved")
         \/ /\ At(r, "checking") /\ ~CheckApproved(r)
            /\ \E res \in {"Denied", "Error"} : G!Return(r, res)
<1>1. CASE Handle(r) /\ ~Ask(r)
  BY <1>1 DEF Handle, SealStart, SealData, UnsealStart, Validate, UnsealApproved, Marshal
<1>2. CASE Ask(r)
  <2>1. At(r, "validated") /\ Device(r) \in Devices
    BY <1>2 DEF Ask, IInv, Stage, At, Opens, Enabled
  <2> QED BY <1>2, <2>1 DEF Ask
<1>3. CASE CheckApproved(r)
  BY <1>3 DEF CheckApproved
<1>4. CASE CheckReturns(r) /\ ~CheckApproved(r)
  BY <1>4 DEF CheckReturns, CheckFailed, CheckPanics, CheckDenied
<1>5. CASE CancelRPC(r) \/ \E q \in Requests : Receive(r, q)
  BY <1>5 DEF CancelRPC, Receive
<1> QED BY <1>1, <1>2, <1>3, <1>4, <1>5

(* The other steps of Next leave the records of the calls alone. *)
LEMMA QuietCalls ==
  ASSUME OperatorApproves \/ LeaseExpires \/ CloseGate \/ LoadKey \/ DestroyKey \/ UNCHANGED vars
  PROVE  UNCHANGED <<rpc, call, result, copy>>
BY DEF OperatorApproves, LeaseExpires, CloseGate, LoadKey, DestroyKey, vars, serverState, gateState,
       keyState, G!Approve, G!Expire, G!Close, K!Load, K!Destroy

LEMMA OnceStep ==
  ASSUME IInv, IInv', [Next]_vars
  PROVE  AskedAndAnsweredOnce
<1>1. \A r \in RPCs : Over(r)' => call'[r] = None /\ copy'[r] = NoKey
  BY DEF IInv, Stage, Over
<1>2. \A r \in RPCs : result[r] # "none" => call[r] = None /\ ~At(r, "validated") /\ ~At(r, "checking")
  BY DEF IInv, TypeOK, Stage, At, Unasked
<1>3. CASE UNCHANGED <<rpc, call, result, copy>>
  BY <1>1, <1>2, <1>3 DEF AskedAndAnsweredOnce, Over
<1>4. ASSUME NEW r \in RPCs,
             Handle(r) \/ CheckReturns(r) \/ CancelRPC(r) \/ \E q \in Requests : Receive(r, q)
      PROVE  AskedAndAnsweredOnce
  <2>1. \A s \in RPCs \ {r} : /\ rpc'[s] = rpc[s] /\ copy'[s] = copy[s]
                              /\ call'[s] = call[s] /\ result'[s] = result[s]
    BY <1>4, Fate
  <2>2. result[r] # "none" => UNCHANGED gateState
    BY <1>2, <1>4, GateStep
  <2>3. Over(r) => UNCHANGED rpc \/ GoesOn(r)
    BY <1>4, Fate DEF Uncounted, CountedAs, Answered
  <2> QED BY <1>1, <1>2, <2>1, <2>2, <2>3 DEF AskedAndAnsweredOnce, gateState, GoesOn, Over
<1> QED BY <1>3, <1>4, QuietCalls DEF Next

LEMMA ClosingStep ==
  ASSUME IInv, [Next]_vars
  PROVE  NoApprovalOnceClosing
<1> SUFFICES ASSUME closing PROVE NoApprovalOnceClosing
  BY DEF NoApprovalOnceClosing
<1>1. CASE UNCHANGED <<rpc, call, result, copy>>
  BY <1>1 DEF NoApprovalOnceClosing
<1>2. ASSUME NEW r \in RPCs,
             Handle(r) \/ CheckReturns(r) \/ CancelRPC(r) \/ \E q \in Requests : Receive(r, q)
      PROVE  NoApprovalOnceClosing
  <2>1. \A s \in RPCs \ {r} : rpc'[s] = rpc[s] /\ result'[s] = result[s]
    BY <1>2, Fate
  <2>2. result'[r] = "Approved" => result[r] = "Approved"
    <3>1. CASE UNCHANGED gateState
      BY <3>1 DEF gateState
    <3>2. CASE G!Call(r, Device(r))
      BY <3>2 DEF G!Call, IInv, TypeOK
    <3>3. ASSUME NEW res \in {"Denied", "Error"}, G!Return(r, res)
          PROVE  result'[r] # "Approved"
      BY <3>3 DEF G!Return, IInv, TypeOK
    <3>4. ~G!Return(r, "Approved")
      BY DEF G!Return
    <3> QED BY <1>2, <3>1, <3>2, <3>3, <3>4, GateStep
  <2>3. rpc'[r].answer = "plaintext" => rpc[r].answer = "plaintext" \/ At(r, "approved")
    <3>t. TypeOK /\ rpc[r] \in RPCRecord
      BY DEF IInv, TypeOK, RPCRecord
    <3>1. CASE UnsealApproved(r)
      BY <3>1 DEF UnsealApproved
    <3>2. CASE Handle(r) /\ ~UnsealApproved(r)
      BY <3>t, <3>2 DEF Handle, SealStart, SealData, UnsealStart, Validate, Ask, Marshal,
           TakeSealer, Fail, Reply, Move, TypeOK, RPCRecord
    <3>3. CASE CheckReturns(r) \/ CancelRPC(r)
      BY <3>t, <3>3 DEF CheckReturns, CheckApproved, CheckFailed, CheckPanics, CheckDenied, CancelRPC,
           Fail, Reply, TypeOK, RPCRecord
    <3>4. CASE \E q \in Requests : Receive(r, q)
      BY <3>t, <3>4 DEF Receive, TypeOK, RPCRecord
    <3> QED BY <1>2, <3>1, <3>2, <3>3, <3>4
  <2> QED BY <2>1, <2>2, <2>3 DEF NoApprovalOnceClosing
<1> QED BY <1>1, <1>2, QuietCalls DEF Next

(* An RPC asks once and is answered once. *)
THEOREM OnceOnly == Spec => [][AskedAndAnsweredOnce]_vars
<1>1. IInv /\ IInv' /\ [Next]_vars => [AskedAndAnsweredOnce]_vars
  BY OnceStep
<1> QED BY <1>1, Invariance, PTL DEF Spec

(* A closing gate approves nothing more. *)
THEOREM ClosedForGood == Spec => [][NoApprovalOnceClosing]_vars
<1>1. IInv /\ [Next]_vars => [NoApprovalOnceClosing]_vars
  BY ClosingStep
<1> QED BY <1>1, Invariance, PTL DEF Spec

-----------------------------------------------------------------------------
(* An RPC moves forward *)

StageRank ==
  [idle |-> 0, received |-> 1, keyed |-> 2, validated |-> 3, checking |-> 4, approved |-> 5,
   replying |-> 6, sent |-> 7]

(* Every step of a handler or of its Check takes the RPC to a later stage,   *)
(* and nothing else moves it: an RPC is through after at most seven steps.   *)
StagesForward ==
  \A r \in RPCs : rpc'[r].pc = rpc[r].pc \/ StageRank[rpc'[r].pc] > StageRank[rpc[r].pc]

LEMMA HandlerAdvances ==
  ASSUME TypeOK, NEW r \in RPCs,
         Handle(r) \/ CheckReturns(r) \/ \E q \in Requests : Receive(r, q)
  PROVE  StageRank[rpc'[r].pc] > StageRank[rpc[r].pc]
<1>t. rpc[r] \in RPCRecord
  BY DEF TypeOK, RPCRecord
<1>m. ASSUME NEW pc \in {"keyed", "validated", "checking", "sent"}, Move(r, pc)
      PROVE  rpc'[r].pc = pc
  BY <1>t, <1>m DEF Move, TypeOK, RPCRecord
<1>r. ASSUME NEW reason, NEW answer, NEW cause, Reply(r, reason, answer, cause)
      PROVE  rpc'[r].pc = "replying"
  BY <1>t, <1>r DEF Reply, TypeOK, RPCRecord
<1>f. ASSUME NEW reason, NEW cause, Fail(r, reason, cause)
      PROVE  rpc'[r].pc = "replying"
  BY <1>r, <1>f DEF Fail
<1>1. CASE SealStart(r) \/ SealData(r) \/ UnsealStart(r)
  <2>1. rpc[r].pc \in {"received", "keyed"}
    BY <1>1 DEF SealStart, SealData, UnsealStart, At
  <2>2. (At(r, "received") /\ Move(r, "keyed")) \/ rpc'[r].pc = "replying"
    BY <1>r, <1>f, <1>1 DEF SealStart, SealData, UnsealStart, TakeSealer
  <2> QED BY <1>m, <2>1, <2>2 DEF StageRank, At
<1>2. CASE Validate(r)
  <2>1. At(r, "keyed") /\ (Move(r, "validated") \/ rpc'[r].pc = "replying")
    BY <1>f, <1>2 DEF Validate
  <2> QED BY <1>m, <2>1 DEF StageRank, At
<1>3. CASE Ask(r)
  <2>1. At(r, "validated") /\ (Move(r, "checking") \/ rpc'[r].pc = "replying")
    BY <1>f, <1>3 DEF Ask
  <2> QED BY <1>m, <2>1 DEF StageRank, At
<1>4. CASE UnsealApproved(r)
  <2>1. At(r, "approved") /\ rpc'[r].pc = "replying"
    BY <1>r, <1>f, <1>4 DEF UnsealApproved
  <2> QED BY <2>1 DEF StageRank, At
<1>5. CASE Marshal(r)
  <2>1. At(r, "replying") /\ Move(r, "sent")
    BY <1>5 DEF Marshal
  <2> QED BY <1>m, <2>1 DEF StageRank, At
<1>6. CASE CheckApproved(r)
  <2>1. At(r, "checking") /\ rpc'[r].pc = "approved"
    BY <1>t, <1>6 DEF CheckApproved, TypeOK, RPCRecord
  <2> QED BY <2>1 DEF StageRank, At
<1>7. CASE CheckReturns(r) /\ ~CheckApproved(r)
  <2>1. At(r, "checking") /\ rpc'[r].pc = "replying"
    BY <1>r, <1>f, <1>7 DEF CheckReturns, CheckFailed, CheckPanics, CheckDenied
  <2> QED BY <2>1 DEF StageRank, At
<1>8. CASE \E q \in Requests : Receive(r, q)
  <2>1. PICK q \in Requests : Receive(r, q)
    BY <1>8
  <2>2. rpc' = [rpc EXCEPT ![r] = [rpc[r] EXCEPT !.pc = "received", !.req = q]] /\ At(r, "idle")
    BY <1>t, <2>1 DEF Receive, TypeOK
  <2>3. rpc'[r].pc = "received"
    BY <1>t, <2>2 DEF TypeOK, RPCRecord
  <2> QED BY <2>2, <2>3 DEF StageRank, At
<1> QED BY <1>1, <1>2, <1>3, <1>4, <1>5, <1>6, <1>7, <1>8 DEF Handle

(* No RPC ever goes back a stage. *)
THEOREM HandlersAdvance == Spec => [][StagesForward]_vars
<1>1. IInv /\ [Next]_vars => [StagesForward]_vars
  <2> SUFFICES ASSUME IInv, Next PROVE StagesForward \/ UNCHANGED vars
    OBVIOUS
  <2>1. CASE UNCHANGED rpc
    BY <2>1 DEF StagesForward
  <2>2. ASSUME NEW r \in RPCs, Handle(r) \/ CheckReturns(r) \/ \E q \in Requests : Receive(r, q)
        PROVE  StagesForward
    <3>1. StageRank[rpc'[r].pc] > StageRank[rpc[r].pc]
      BY <2>2, HandlerAdvances DEF IInv
    <3>2. \A s \in RPCs \ {r} : rpc'[s] = rpc[s]
      BY <2>2, Fate
    <3> QED BY <3>1, <3>2 DEF StagesForward
  <2>3. CASE \E r \in RPCs : CancelRPC(r)
    BY <2>1, <2>3 DEF CancelRPC
  <2> QED BY <2>1, <2>2, <2>3, QuietCalls DEF Next
<1> QED BY <1>1, Invariance, PTL DEF Spec

-----------------------------------------------------------------------------
(* The handlers keep to the contracts of the components they call *)

(* Every step is one of the gate's, or leaves it alone: a handler asks only  *)
(* when its call is free, and no two steps are run together.                *)
LEMMA GateContractStep ==
  ASSUME IInv, Next
  PROVE  G!Next \/ UNCHANGED gateState
<1>1. ASSUME NEW r \in RPCs,
             Handle(r) \/ CheckReturns(r) \/ CancelRPC(r) \/ \E q \in Requests : Receive(r, q)
      PROVE  G!Next \/ UNCHANGED gateState
  <2>1. {"Approved", "Denied", "Error"} \subseteq G!Results \ {"none"}
    BY DEF G!Results
  <2> QED BY <1>1, <2>1, GateStep DEF G!Next
<1>2. CASE OperatorApproves \/ CloseGate
  BY <1>2 DEF OperatorApproves, CloseGate, G!Next
<1>3. CASE LeaseExpires
  <2>1. PICK d \in leased : G!Expire({d})
    BY <1>3 DEF LeaseExpires
  <2>2. {d} \in SUBSET Devices
    BY <2>1 DEF IInv, TypeOK
  <2> QED BY <2>1, <2>2 DEF G!Next
<1>4. CASE LoadKey \/ DestroyKey
  BY <1>4 DEF LoadKey, DestroyKey
<1> QED BY <1>1, <1>2, <1>3, <1>4 DEF Next

LEMMA KeyContractStep ==
  ASSUME IInv, Next
  PROVE  K!Next \/ UNCHANGED keyState
<1>1. ASSUME NEW r \in RPCs,
             Handle(r) \/ CheckReturns(r) \/ CancelRPC(r) \/ \E q \in Requests : Receive(r, q)
      PROVE  K!Next \/ UNCHANGED keyState
  <2>1. \/ UNCHANGED keyState \/ K!Dispense(r) \/ K!Release(r)
    BY <1>1 DEF Handle, CheckReturns, SealStart, SealData, UnsealStart, Validate, Ask,
       UnsealApproved, Marshal, CheckApproved, CheckFailed, CheckPanics, CheckDenied, CancelRPC,
       TakeSealer, Fail, Reply, Receive
  <2> QED BY <2>1 DEF K!Next
<1>2. CASE LoadKey \/ DestroyKey
  BY <1>2 DEF LoadKey, DestroyKey, K!Next
<1>3. CASE OperatorApproves \/ LeaseExpires \/ CloseGate
  BY <1>3 DEF OperatorApproves, LeaseExpires, CloseGate
<1> QED BY <1>1, <1>2, <1>3 DEF Next

(* For the gate, the server is one of the callers its contract is about, so  *)
(* what TelegramGate is proved to promise is what the handlers rely on.      *)
THEOREM UsesGate == Spec => G!Spec
<1>1. Init => G!Init
  BY DEF Init
<1>2. IInv /\ [Next]_vars => [G!Next]_(G!gateVars)
  BY GateContractStep DEF vars, gateState, G!gateVars
<1> QED BY <1>1, <1>2, Invariance, PTL DEF Spec, G!Spec

(* The same for the key manager: loaded once, destroyed once, a copy per     *)
(* handler.                                                                 *)
THEOREM UsesKey == Spec => K!Spec
<1>1. Init => K!Init
  BY DEF Init
<1>2. IInv /\ [Next]_vars => [K!Next]_(K!lifecycleVars)
  BY KeyContractStep DEF vars, keyState, K!lifecycleVars
<1> QED BY <1>1, <1>2, Invariance, PTL DEF Spec, K!Spec
=============================================================================
