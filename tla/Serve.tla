------------------------------- MODULE Serve -------------------------------
(***************************************************************************)
(* The life of a server process, runServe in cmd/azath/serve.go: it loads   *)
(* the key, opens the gate, serves, and on a signal or a failure drains the *)
(* RPCs, by force after 30 seconds, before its deferred calls close the     *)
(* gate and destroy the key.  The RPCs are those of KMSServer; here its     *)
(* component steps happen where runServe puts them.                         *)
(*                                                                         *)
(* gRPC (external): GracefulStop stops accepting connections, lets streams  *)
(* on open ones come in until each has said goodbye, and returns when every *)
(* handler has; Stop closes the connections, which cancels every RPC.       *)
(***************************************************************************)
EXTENDS KMSServer, ServerConfig

CONSTANT Configs   \* the files the process may be started with

ASSUME ConfigsAssumption ==
  \A file \in Configs : WellFormed(file) /\ file.devices \subseteq Devices

VARIABLES
  proc,        \* how far runServe is
  config,      \* the file it was started with
  stopRequest, \* its context is done: SIGTERM or SIGINT
  token        \* the bot token is in runServe's memory

processState == <<proc, config, stopRequest, token>>
serveVars == <<vars, processState>>

Phases == {"starting", "loading", "loaded", "ready", "serving", "draining", "forcing",
           "drained", "closeGate", "zeroToken", "destroyKey", "exited"}

ServeTypeOK ==
  /\ TypeOK
  /\ proc \in Phases
  /\ config \in Configs
  /\ stopRequest \in BOOLEAN /\ token \in BOOLEAN

ServeInit ==
  /\ Init
  /\ proc = "starting"
  /\ config \in Configs
  /\ stopRequest = FALSE
  /\ token = FALSE
  /\ hasGate = FALSE

Cfg == ApplyDefaults(config)

(* To this process any other UUID is a Stranger. *)
Registered == Cfg.devices \cup {Stranger}

Active == {r \in RPCs : ~At(r, "idle") /\ ~At(r, "sent")}

Goto(p) == proc' = p

-----------------------------------------------------------------------------
(* Start *)

(* SIGTERM or SIGINT; nothing but the context notices. *)
Signal ==
  /\ ~stopRequest /\ proc # "exited"
  /\ stopRequest' = TRUE
  /\ UNCHANGED <<vars, proc, config, token>>

(* A flag is wrong, or the file is: nothing to undo yet. *)
BadConfig ==
  /\ proc = "starting"
  /\ Goto("exited")
  /\ UNCHANGED <<vars, config, stopRequest, token>>

StartLoad ==
  /\ proc = "starting"
  /\ Valid(Cfg)
  /\ Goto("loading")
  /\ UNCHANGED <<vars, config, stopRequest, token>>

(* FileSource reads the key file whatever its context says, the deadline of  *)
(* masterKeyLoadTimeout included; when the read returns, Load succeeds or    *)
(* fails.                                                                   *)
ReadReturns ==
  /\ proc = "loading"
  /\ \/ LoadKey /\ Goto("loaded")
     \/ UNCHANGED vars /\ Goto("destroyKey")
  /\ UNCHANGED <<config, stopRequest, token>>

(* The token is resolved and the gate created; either can fail.  Without a  *)
(* gate in the configuration there is neither.                              *)
OpenGate ==
  /\ proc = "loaded"
  /\ \/ Cfg.gate = Unset /\ Goto("ready") /\ UNCHANGED <<token, hasGate>>
     \/ /\ Cfg.gate # Unset /\ GateAccepts(Cfg.name, Settings(Cfg))
        /\ token' = TRUE /\ hasGate' = TRUE /\ Goto("ready")
     \/ Cfg.gate # Unset /\ token' = TRUE /\ Goto("zeroToken") /\ UNCHANGED hasGate
     \/ Cfg.gate # Unset /\ Goto("destroyKey") /\ UNCHANGED <<token, hasGate>>
  /\ UNCHANGED <<rpc, plain, cancelled, unsealTotal, gateAPIErrors, gateState, keyState,
                 config, stopRequest>>

Listen ==
  /\ proc = "ready"
  /\ Goto("serving") \/ Goto("closeGate")
  /\ UNCHANGED <<vars, config, stopRequest, token>>

-----------------------------------------------------------------------------
(* Serving, and the end of it *)

(* An RPC comes in while the server accepts, and at first while it drains. *)
ServeReceive(r) ==
  /\ proc \in {"serving", "draining"}
  /\ \E q \in Requests : q.device \in Registered /\ Receive(r, q)
  /\ UNCHANGED processState

ServeHandle(r) ==
  /\ Handle(r) \/ CheckReturns(r) \/ CancelRPC(r)
  /\ UNCHANGED processState

ServeOperator ==
  /\ OperatorApproves \/ LeaseExpires
  /\ UNCHANGED processState

(* A signal, or one of the two listeners failed. *)
StopServing ==
  /\ proc = "serving"
  /\ Goto("draining")
  /\ stopRequest' = TRUE
  /\ UNCHANGED <<vars, config, token>>

GracefulStopDone ==
  /\ proc \in {"draining", "forcing"}
  /\ Active = {}
  /\ Goto("drained")
  /\ UNCHANGED <<vars, config, stopRequest, token>>

(* Mutant: the stop is forced without cancelling anything. *)
ForceUncancelled ==
  /\ proc = "draining"
  /\ Goto("forcing")
  /\ UNCHANGED <<vars, config, stopRequest, token>>

(* Mutant: once Stop has been called, GracefulStop is not waited for. *)
ForceUnawaited ==
  /\ proc = "draining"
  /\ Goto("drained")
  /\ cancelled' = cancelled \cup Active
  /\ UNCHANGED <<rpc, plain, unsealTotal, gateAPIErrors, hasGate, gateState, keyState,
                 config, stopRequest, token>>

(* The 30 seconds are over: Stop. *)
ForceStop ==
  /\ proc = "draining"
  /\ Goto("forcing")
  /\ cancelled' = cancelled \cup Active
  /\ UNCHANGED <<rpc, plain, unsealTotal, gateAPIErrors, hasGate, gateState, keyState,
                 config, stopRequest, token>>

(* httpSrv.Shutdown returns within its five seconds; the defers begin. *)
ShutdownHTTP ==
  /\ proc = "drained"
  /\ Goto("closeGate")
  /\ UNCHANGED <<vars, config, stopRequest, token>>

-----------------------------------------------------------------------------
(* The deferred calls, last registered first *)

(* gate.Close returns when its goroutines have (TelegramGate!CloseCompletes). *)
DeferClose ==
  /\ proc = "closeGate"
  /\ IF hasGate THEN CloseGate ELSE UNCHANGED vars
  /\ Goto("zeroToken")
  /\ UNCHANGED <<config, stopRequest, token>>

(* Mutant: ZeroOnReturn was deferred with the slice as it was, still nil. *)
DeferZeroNil ==
  /\ proc = "zeroToken"
  /\ Goto("destroyKey")
  /\ UNCHANGED <<vars, config, stopRequest, token>>

DeferZeroToken ==
  /\ proc = "zeroToken"
  /\ token' = FALSE
  /\ Goto("destroyKey")
  /\ UNCHANGED <<vars, config, stopRequest>>

DeferDestroy ==
  /\ proc = "destroyKey"
  /\ DestroyKey
  /\ Goto("exited")
  /\ UNCHANGED <<config, stopRequest, token>>

(* The steps of runServe itself, those that wait for the world left out. *)
Progress ==
  \/ StartLoad \/ OpenGate \/ Listen \/ (stopRequest /\ StopServing)
  \/ GracefulStopDone \/ ForceStop \/ ShutdownHTTP
  \/ DeferClose \/ DeferZeroToken \/ DeferDestroy

ServeNext ==
  \/ Progress \/ StopServing
  \/ Signal \/ BadConfig \/ ReadReturns
  \/ \E r \in RPCs : ServeReceive(r) \/ ServeHandle(r)
  \/ ServeOperator

ServeSpec == ServeInit /\ [][ServeNext]_serveVars

(* The process runs, timers fire, handlers run, and a Check whose caller is *)
(* cancelled returns.  Nothing is assumed of the operator, of a Check that  *)
(* is not cancelled, or of the disk.                                        *)
ServeFairness ==
  /\ WF_serveVars(StartLoad \/ OpenGate \/ Listen)
  /\ WF_serveVars(stopRequest /\ StopServing)
  /\ WF_serveVars(GracefulStopDone)
  /\ WF_serveVars(ForceStop)
  /\ WF_serveVars(ShutdownHTTP \/ DeferClose \/ DeferZeroToken \/ DeferDestroy)
  /\ \A r \in RPCs :
       /\ WF_serveVars(Handle(r) /\ UNCHANGED processState)
       /\ WF_serveVars(r \in cancelled /\ CheckReturns(r) /\ UNCHANGED processState)

FairServeSpec == ServeSpec /\ ServeFairness

-----------------------------------------------------------------------------
(* Properties *)

(* The gate is closed and the key destroyed only when no RPC is left that   *)
(* could need them, forced stop or not (serve.go:225-238 and the defers).   *)
TeardownAfterDrain ==
  (closing \/ phase = "destroyed" \/ proc = "drained") => Active = {}

(* No client is ever turned away for want of a key or of a gate: the listener *)
(* opens after Load, the key outlives the last RPC, and a file that lists a   *)
(* device without a gate is never served.                                   *)
KeyAndGateThere ==
  \A r \in RPCs :
    /\ rpc[r].reason # "master_key_not_loaded" /\ rpc[r].answer # "Internal"
    /\ ~(rpc[r].reason = "gate_denied" /\ rpc[r].cause = "none")

(* However runServe ends, no secret is left in a buffer it owns and the     *)
(* gate's goroutines are gone; what the runtime and the transport keep      *)
(* until the process is gone (runtime.md:16) is not in the model.           *)
NothingLeft ==
  proc = "exited" =>
    /\ masterKey = NoKey /\ ~token
    /\ \A r \in RPCs : copy[r] = NoKey /\ plain[r] = None
    /\ hasGate => closing

(* Once the key is read, a signal ends the process, though Checks may wait  *)
(* for an operator who never answers.                                       *)
ShutdownCompletes ==
  (stopRequest /\ proc \notin {"starting", "loading"}) ~> proc = "exited"

(* "Zero rate_limit means no rate limiting (unbounded approval spam)", which  *)
(* defaults to "safe non-zero values" are to rule out (config.go:158-159).    *)
PromptsLimited == hasGate => Settings(Cfg).rate > 0

-----------------------------------------------------------------------------
(* The inductive invariant: what holds in each phase of runServe *)

NoKeyYet == proc \in {"starting", "loading"}
Unwinding == proc \in {"zeroToken", "destroyKey", "exited"}

ProcInv ==
  /\ phase # "loaded" => masterKey = NoKey
  /\ NoKeyYet => phase = "unloaded"
  /\ proc \in {"loaded", "ready", "serving", "draining", "forcing", "drained"} => phase = "loaded"
  /\ phase = "destroyed" => proc = "exited"
  /\ proc = "exited" => phase # "loaded"
  /\ proc \notin {"serving", "draining", "forcing"} => Active = {}
  /\ closing => hasGate /\ Unwinding
  /\ hasGate /\ Unwinding => closing
  /\ token => ~NoKeyYet /\ proc \notin {"loaded", "destroyKey", "exited"}
  /\ hasGate => ~NoKeyYet /\ proc # "loaded"
  /\ proc \notin {"starting", "exited"} => Valid(Cfg)
  /\ proc \in {"ready", "serving", "draining", "forcing"} => hasGate \/ Cfg.gate = Unset

(* Every request is about a device this process knows, or a Stranger. *)
RequestsKnown == \A r \in RPCs : ~At(r, "idle") => Device(r) \in Registered

ServeIInv == ServeTypeOK /\ IInv /\ ProcInv /\ RequestsKnown /\ KeyAndGateThere
=============================================================================
