-------------------------------- MODULE Gate --------------------------------
(***************************************************************************)
(* What an approval gate promises its callers (internal/gate/gate.go): a   *)
(* Check waits for Approved or Denied or returns an error, it is safe for   *)
(* concurrent use, and every outcome but Approved is to be treated as a     *)
(* denial.  Nothing is said here about prompts, timers or limits.  The      *)
(* authority behind an Approved is explicit: the operator decides a device, *)
(* which authorises the calls then waiting for it and may leave a lease     *)
(* that authorises later ones until it expires.                             *)
(***************************************************************************)
CONSTANTS Devices, Callers, None   \* None is not a device

VARIABLES
  call,     \* call[c]: the device c is waiting for, or None
  result,   \* result[c]: what the last Check of c returned
  granted,  \* the waiting calls an operator has approved
  leased,   \* the devices that hold a live approval
  closing   \* whether Close has begun: no Approved after that

gateVars == <<call, result, granted, leased, closing>>

Results == {"none", "Approved", "Denied", "Error"}

Init ==
  /\ call = [c \in Callers |-> None]
  /\ result = [c \in Callers |-> "none"]
  /\ granted = {}
  /\ leased = {}
  /\ closing = FALSE

\* A caller asks for device d.
Call(c, d) ==
  /\ call[c] = None
  /\ call' = [call EXCEPT ![c] = d]
  /\ result' = [result EXCEPT ![c] = "none"]
  /\ UNCHANGED <<granted, leased, closing>>

\* A call refused before it waits for anything.
Refuse(c, res) ==
  /\ call[c] = None
  /\ res \in {"Denied", "Error"}
  /\ result' = [result EXCEPT ![c] = res]
  /\ UNCHANGED <<call, granted, leased, closing>>

\* A call returns; only the operator's decision makes it Approved.
Return(c, res) ==
  /\ call[c] # None
  /\ res = "Approved" => ~closing /\ (c \in granted \/ call[c] \in leased)
  /\ call' = [call EXCEPT ![c] = None]
  /\ result' = [result EXCEPT ![c] = res]
  /\ granted' = granted \ {c}
  /\ UNCHANGED <<leased, closing>>

\* The operator approves d: some of the calls waiting for it are granted,
\* and d may hold a lease from now on.
Approve(d, lease) ==
  /\ ~closing
  /\ \E S \in SUBSET {c \in Callers : call[c] = d} : granted' = granted \cup S
  /\ leased' = IF lease THEN leased \cup {d} ELSE leased
  /\ UNCHANGED <<call, result, closing>>

\* Leases run out.
Expire(S) ==
  /\ leased' = leased \ S
  /\ UNCHANGED <<call, result, granted, closing>>

Close ==
  /\ ~closing
  /\ closing' = TRUE
  /\ UNCHANGED <<call, result, granted, leased>>

Next ==
  \/ \E c \in Callers, d \in Devices : Call(c, d)
  \/ \E c \in Callers, res \in Results \ {"none"} : Refuse(c, res) \/ Return(c, res)
  \/ \E d \in Devices, lease \in BOOLEAN : Approve(d, lease)
  \/ \E S \in SUBSET Devices : Expire(S)
  \/ Close

Spec == Init /\ [][Next]_gateVars

\* Every Check returns.
LiveSpec ==
  Spec /\ \A c \in Callers :
            WF_gateVars(\E res \in Results \ {"none"} : Return(c, res))
=============================================================================
