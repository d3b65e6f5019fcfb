----------------------------- MODULE KMSServer -----------------------------
(***************************************************************************)
(* The Seal and Unseal handlers of the KMS server                          *)
(* (internal/server/server.go), with the interceptor and the codec around   *)
(* them, over the contracts of the two components they call: Gate (which    *)
(* TelegramGate implements) and KeyLifecycle (which KeyManager implements). *)
(* Each step of a handler that changes their state is a joint step with an  *)
(* action of the contract, so Destroy, Close, approvals and other RPCs fall *)
(* between any two steps of an RPC.                                         *)
(*                                                                         *)
(* An RPC is one call of a handler.  Plaintext is named after the device    *)
(* whose secret it is, and a blob after what opening it depends on.         *)
(***************************************************************************)
EXTENDS Naturals, FiniteSets

CONSTANTS
  RPCs,       \* calls of Seal or Unseal, each made once
  Devices,    \* configured devices
  Disabled,   \* those with disabled: true
  Stranger,   \* a UUID that does not parse or is not configured
  Keys, NoKey, None

ASSUME DevicesAssumption ==
  /\ Disabled \subseteq Devices
  /\ Stranger \notin Devices
  /\ None \notin Devices \cup {Stranger}
ASSUME NoKeyAssumption == NoKey \notin Keys

VARIABLES
  rpc,           \* where each RPC is, its request and its outcome
  plain,         \* plain[r]: plaintext held by the handler or its response
  cancelled,     \* RPCs whose context is cancelled
  unsealTotal,   \* the counter per reason
  gateAPIErrors, \* the counter of external API errors
  hasGate,       \* whether the field gate is set; WithGate may be given nil
  call, result, granted, leased, closing,   \* the gate
  phase, masterKey, copy                    \* the key manager and the Sealers

gateState == <<call, result, granted, leased, closing>>
keyState == <<phase, masterKey, copy>>
serverState == <<rpc, plain, cancelled, unsealTotal, gateAPIErrors, hasGate>>
vars == <<serverState, gateState, keyState>>

G == INSTANCE Gate WITH Callers <- RPCs
K == INSTANCE KeyLifecycle WITH Holders <- RPCs

Blobs == [key : Keys, device : Devices, form : {"intact", "tampered", "short"}]
Requests == [method : {"Seal"}, device : Devices \cup {Stranger}, blob : {None}]
            \cup [method : {"Unseal"}, device : Devices \cup {Stranger}, blob : Blobs]

Reasons == {"ok", "unknown_uuid", "disabled", "master_key_not_loaded",
            "gate_denied", "decrypt_error", "wrong_instance"}
Answers == {"none", "random", "plaintext", "sealed", "PermissionDenied", "Internal"}

(* Why a Check ended, for the properties about the metrics. *)
Causes == {"none", "approved", "decided", "outage", "cancelled", "panic"}

NoRequest == [method |-> "none", device |-> None, blob |-> None]
Idle == [pc |-> "idle", req |-> NoRequest, reason |-> "none",
         answer |-> "none", cause |-> "none"]

TypeOK ==
  /\ rpc \in [RPCs -> [pc : {"idle", "received", "keyed", "validated", "checking",
                             "approved", "replying", "sent"},
                       req : Requests \cup {NoRequest},
                       reason : Reasons \cup {"none"},
                       answer : Answers,
                       cause : Causes]]
  /\ plain \in [RPCs -> Devices \cup {None}]
  /\ cancelled \subseteq RPCs
  /\ unsealTotal \in [Reasons -> Nat]
  /\ gateAPIErrors \in Nat
  /\ hasGate \in BOOLEAN
  /\ call \in [RPCs -> Devices \cup {None}]
  /\ result \in [RPCs -> G!Results]
  /\ granted \subseteq RPCs
  /\ leased \subseteq Devices
  /\ closing \in BOOLEAN
  /\ phase \in {"unloaded", "loaded", "destroyed"}
  /\ masterKey \in Keys \cup {NoKey}
  /\ copy \in [RPCs -> Keys \cup {NoKey}]

Init ==
  /\ rpc = [r \in RPCs |-> Idle]
  /\ plain = [r \in RPCs |-> None]
  /\ cancelled = {}
  /\ unsealTotal = [x \in Reasons |-> 0]
  /\ gateAPIErrors = 0
  /\ hasGate \in BOOLEAN
  /\ G!Init
  /\ K!Init

At(r, pc) == rpc[r].pc = pc
Device(r) == rpc[r].req.device
Blob(r) == rpc[r].req.blob
Enabled(d) == d \in Devices \ Disabled

-----------------------------------------------------------------------------
(* crypto.Sealer.Unseal: what opening a blob with a key for a device gives. *)

(* Mutant: the device is not passed as additional data. *)
OpenUnbound(key, blob, device) ==
  IF blob.form = "short" \/ blob.key # key THEN "wrong_instance"
  ELSE IF blob.form = "tampered" THEN "decrypt_error"
  ELSE "ok"

Open(key, blob, device) ==
  IF blob.form = "short" \/ blob.key # key THEN "wrong_instance"
  ELSE IF blob.form = "tampered" \/ blob.device # device THEN "decrypt_error"
  ELSE "ok"

-----------------------------------------------------------------------------
(* How a handler returns: its deferred sealer.Destroy runs, whatever the    *)
(* outcome, and the response waits to be marshalled.                        *)

Move(r, pc) == rpc' = [rpc EXCEPT ![r].pc = pc]

Reply(r, reason, answer, cause) ==
  /\ rpc' = [rpc EXCEPT ![r].pc = "replying", ![r].reason = reason,
                        ![r].answer = answer, ![r].cause = cause]
  /\ K!Release(r)

Count(reason) == unsealTotal' = [unsealTotal EXCEPT ![reason] = @ + 1]

(* fail: the reason is counted and random bytes are returned with OK. *)
Fail(r, reason, cause) == Reply(r, reason, "random", cause) /\ Count(reason)

(* A request arrives. *)
Receive(r, q) ==
  /\ At(r, "idle")
  /\ rpc' = [rpc EXCEPT ![r].pc = "received", ![r].req = q]
  /\ UNCHANGED <<plain, cancelled, unsealTotal, gateAPIErrors, hasGate, gateState, keyState>>

(* The client goes away, or the server cancels the RPC. *)
CancelRPC(r) ==
  /\ rpc[r].pc \notin {"idle", "sent"}
  /\ r \notin cancelled
  /\ cancelled' = cancelled \cup {r}
  /\ UNCHANGED <<rpc, plain, unsealTotal, gateAPIErrors, hasGate, gateState, keyState>>

(* The device is looked up and a Sealer is built on a copy of the key. *)
TakeSealer(r) == K!Dispense(r) /\ Move(r, "keyed")

(* Mutant: disabled is not looked at. *)
RefusalIfUnknown(d) == IF d = Stranger THEN "unknown_uuid" ELSE "none"

DeviceRefusal(d) ==
  IF d = Stranger THEN "unknown_uuid" ELSE IF d \in Disabled THEN "disabled" ELSE "none"

-----------------------------------------------------------------------------
(* Seal *)

(* PermissionDenied for Stranger stands for InvalidArgument too, which a     *)
(* UUID that does not parse gets: neither touches the key.                   *)
SealStart(r) ==
  /\ At(r, "received") /\ rpc[r].req.method = "Seal"
  /\ \/ DeviceRefusal(Device(r)) # "none" /\ Reply(r, "none", "PermissionDenied", "none")
     \/ /\ DeviceRefusal(Device(r)) = "none"
        /\ \/ TakeSealer(r)
           \/ phase # "loaded" /\ Reply(r, "none", "Internal", "none")
  /\ UNCHANGED <<plain, cancelled, unsealTotal, gateAPIErrors, hasGate, gateState>>

SealData(r) ==
  /\ At(r, "keyed") /\ rpc[r].req.method = "Seal"
  /\ Reply(r, "none", "sealed", "none")
  /\ UNCHANGED <<plain, cancelled, unsealTotal, gateAPIErrors, hasGate, gateState>>

-----------------------------------------------------------------------------
(* Unseal *)

UnsealStart(r) ==
  /\ At(r, "received") /\ rpc[r].req.method = "Unseal"
  /\ \/ /\ DeviceRefusal(Device(r)) # "none"
        /\ Fail(r, DeviceRefusal(Device(r)), "none")
     \/ /\ DeviceRefusal(Device(r)) = "none"
        /\ \/ TakeSealer(r) /\ UNCHANGED unsealTotal
           \/ phase # "loaded" /\ Fail(r, "master_key_not_loaded", "none")
  /\ UNCHANGED <<plain, cancelled, gateAPIErrors, hasGate, gateState>>

(* The blob is opened once before anyone is asked. *)
Validate(r) ==
  /\ At(r, "keyed") /\ rpc[r].req.method = "Unseal"
  /\ LET outcome == Open(copy[r], Blob(r), Device(r)) IN
       IF outcome = "ok"
         THEN /\ plain' = [plain EXCEPT ![r] = Blob(r).device]
              /\ Move(r, "validated")
              /\ UNCHANGED <<unsealTotal, keyState>>
         ELSE Fail(r, outcome, "none") /\ UNCHANGED plain
  /\ UNCHANGED <<cancelled, gateAPIErrors, hasGate, gateState>>

(* Mutant: the plaintext of the validation is kept for the reply. *)
AskKeepingPlaintext(r) ==
  /\ At(r, "validated")
  /\ hasGate
  /\ Move(r, "checking") /\ G!Call(r, Device(r))
  /\ UNCHANGED <<plain, cancelled, unsealTotal, gateAPIErrors, hasGate, keyState>>

(* Mutant: without a gate there is nobody to ask. *)
AskUngated(r) ==
  /\ At(r, "validated")
  /\ plain' = [plain EXCEPT ![r] = None]
  /\ IF hasGate THEN Move(r, "checking") /\ G!Call(r, Device(r))
                ELSE Move(r, "approved") /\ UNCHANGED gateState
  /\ UNCHANGED <<cancelled, unsealTotal, gateAPIErrors, hasGate, keyState>>

(* That plaintext is zeroed, and the gate is asked. *)
Ask(r) ==
  /\ At(r, "validated")
  /\ plain' = [plain EXCEPT ![r] = None]
  /\ \/ /\ hasGate
        /\ Move(r, "checking") /\ G!Call(r, Device(r))
        /\ UNCHANGED <<unsealTotal, keyState>>
     \/ /\ ~hasGate
        /\ Fail(r, "gate_denied", "none")
        /\ UNCHANGED gateState
  /\ UNCHANGED <<cancelled, gateAPIErrors, hasGate>>

(* Check returns an error only to a cancelled caller, and never Approved to  *)
(* one.  A prompt that could not be sent ends in Denied, like a refusal by   *)
(* the operator, a timeout or a limit.                                       *)
CheckApproved(r) ==
  /\ At(r, "checking")
  /\ r \notin cancelled
  /\ G!Return(r, "Approved")
  /\ rpc' = [rpc EXCEPT ![r].pc = "approved", ![r].cause = "approved"]
  /\ UNCHANGED <<plain, cancelled, unsealTotal, gateAPIErrors, hasGate, keyState>>

CheckDenied(r, cause) ==
  /\ At(r, "checking")
  /\ G!Return(r, "Denied")
  /\ Fail(r, "gate_denied", cause)
  /\ UNCHANGED <<plain, cancelled, gateAPIErrors, hasGate>>

CheckFailed(r) ==
  /\ At(r, "checking")
  /\ r \in cancelled
  /\ G!Return(r, "Error")
  /\ gateAPIErrors' = gateAPIErrors + 1
  /\ Fail(r, "gate_denied", "cancelled")
  /\ UNCHANGED <<plain, cancelled, hasGate>>

(* Mutant: the Sealer is destroyed by a call that a panic jumps over. *)
CheckPanicsUndeferred(r) ==
  /\ At(r, "checking")
  /\ G!Return(r, "Error")
  /\ rpc' = [rpc EXCEPT ![r].pc = "replying", ![r].answer = "random", ![r].cause = "panic"]
  /\ UNCHANGED <<plain, cancelled, unsealTotal, gateAPIErrors, hasGate, keyState>>

(* A gate that panics: the deferred Destroy runs and the recovery           *)
(* interceptor answers like fail, without counting.                         *)
CheckPanics(r) ==
  /\ At(r, "checking")
  /\ G!Return(r, "Error")
  /\ Reply(r, "none", "random", "panic")
  /\ UNCHANGED <<plain, cancelled, unsealTotal, gateAPIErrors, hasGate>>

(* Mutant: the second opening takes the key from the manager again. *)
SecondKeyFromManager(r) == masterKey

(* The second opening uses the Sealer the handler has held all along. *)
SecondKey(r) == copy[r]

UnsealApproved(r) ==
  /\ At(r, "approved")
  /\ LET outcome == Open(SecondKey(r), Blob(r), Device(r)) IN
       IF outcome = "ok"
         THEN /\ plain' = [plain EXCEPT ![r] = Blob(r).device]
              /\ Reply(r, "ok", "plaintext", "approved")
              /\ Count("ok")
         ELSE Fail(r, outcome, "approved") /\ UNCHANGED plain
  /\ UNCHANGED <<cancelled, gateAPIErrors, hasGate, gateState>>

(* The codec marshals the response and zeroes its data. *)
Marshal(r) ==
  /\ At(r, "replying")
  /\ Move(r, "sent")
  /\ plain' = [plain EXCEPT ![r] = None]
  /\ UNCHANGED <<cancelled, unsealTotal, gateAPIErrors, hasGate, gateState, keyState>>

Handle(r) ==
  \/ SealStart(r) \/ SealData(r)
  \/ UnsealStart(r) \/ Validate(r) \/ Ask(r)
  \/ UnsealApproved(r) \/ Marshal(r)

CheckReturns(r) ==
  \/ CheckApproved(r) \/ CheckFailed(r) \/ CheckPanics(r)
  \/ \E cause \in {"decided", "outage"} : CheckDenied(r, cause)

-----------------------------------------------------------------------------
(* The components' own steps, and the specification. *)

OperatorApproves ==
  /\ hasGate
  /\ \E d \in Devices, lease \in BOOLEAN : G!Approve(d, lease)
  /\ UNCHANGED <<serverState, keyState>>

LeaseExpires ==
  /\ \E d \in leased : G!Expire({d})
  /\ UNCHANGED <<serverState, keyState>>

CloseGate == hasGate /\ G!Close /\ UNCHANGED <<serverState, keyState>>

LoadKey ==
  /\ \E k \in Keys : K!Load(k)
  /\ UNCHANGED <<serverState, gateState>>

DestroyKey == K!Destroy /\ UNCHANGED <<serverState, gateState>>

Next ==
  \/ \E r \in RPCs : Handle(r) \/ CheckReturns(r) \/ CancelRPC(r)
                     \/ \E q \in Requests : Receive(r, q)
  \/ OperatorApproves \/ LeaseExpires \/ CloseGate \/ LoadKey \/ DestroyKey

Spec == Init /\ [][Next]_vars

-----------------------------------------------------------------------------
(* Properties *)

(* The operator is asked only about an enabled device and a blob that opens *)
(* for it with the key this RPC holds (the validation before gate.Check).   *)
PromptsJustified ==
  \A r \in RPCs : call[r] # None =>
    /\ Enabled(call[r]) /\ call[r] = Device(r)
    /\ Open(copy[r], Blob(r), call[r]) = "ok"

(* Plaintext leaves the server only as the secret of the device that asks   *)
(* for it, enabled, in an RPC whose own Check returned Approved.            *)
PlaintextToOwner ==
  \A r \in RPCs : rpc[r].answer = "plaintext" =>
    /\ result[r] = "Approved"
    /\ Enabled(Device(r))
    /\ Blob(r).device = Device(r) /\ plain[r] \in {None, Device(r)}

(* An approval is never spent on an RPC that then fails: the blob opens the *)
(* second time too, even when the key was destroyed during the wait.        *)
ApprovalNeverWasted ==
  \A r \in RPCs : result[r] = "Approved" => At(r, "approved") \/ rpc[r].reason = "ok"

(* In the buffers the server owns key copies and plaintext lie only while a *)
(* step still needs them: no plaintext while a human decides, no key copy   *)
(* after the handler.  Of what the transport and the runtime copied, and of *)
(* the key schedule (runtime.md:16), nothing is said here.                  *)
SecretsInUse ==
  \A r \in RPCs :
    /\ copy[r] # NoKey => rpc[r].pc \in {"keyed", "validated", "checking", "approved"}
    /\ plain[r] # None => rpc[r].pc \in {"validated", "replying"}

(* "GateAPIErrors counts external API errors per gate" (metrics.go:26): the *)
(* failures of Telegram's API that ended a Check, and nothing else.         *)
OutagesCounted == gateAPIErrors = Cardinality({r \in RPCs : rpc[r].cause = "outage"})

-----------------------------------------------------------------------------
(* The inductive invariant: what each stage of an RPC may rely on *)

Unasked(r) == call[r] = None /\ result[r] = "none"

(* From the validation on, the handler's own key opens the blob. *)
Opens(r) ==
  /\ rpc[r].req.method = "Unseal" /\ rpc[r].req \in Requests
  /\ Enabled(Device(r))
  /\ copy[r] \in Keys
  /\ Open(copy[r], Blob(r), Device(r)) = "ok"

Stage(r) ==
  /\ rpc[r].pc \in {"idle", "received", "keyed", "validated"} => Unasked(r)
  /\ At(r, "checking") => call[r] = Device(r) /\ result[r] = "none"
  /\ At(r, "approved") => call[r] = None /\ result[r] = "Approved"
  /\ rpc[r].pc \notin {"validated", "replying"} => plain[r] = None
  /\ rpc[r].pc \notin {"replying", "sent"} => rpc[r].answer = "none"
  /\ rpc[r].pc \in {"idle", "received", "replying", "sent"} => copy[r] = NoKey
  /\ rpc[r].pc \in {"received", "keyed"} => rpc[r].req \in Requests
  /\ At(r, "keyed") => copy[r] \in Keys /\ Enabled(Device(r))
  /\ rpc[r].pc \in {"validated", "checking", "approved"} => Opens(r)
  /\ rpc[r].pc \in {"replying", "sent"} =>
       /\ call[r] = None
       /\ result[r] = "Approved" => rpc[r].reason = "ok"
       /\ rpc[r].answer = "plaintext" =>
            /\ result[r] = "Approved" /\ Enabled(Device(r))
            /\ Blob(r).device = Device(r) /\ plain[r] \in {None, Device(r)}

IInv ==
  /\ TypeOK
  /\ phase = "loaded" => masterKey \in Keys
  /\ \A r \in RPCs : Stage(r)
=============================================================================
