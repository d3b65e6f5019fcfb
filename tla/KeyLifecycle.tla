----------------------------- MODULE KeyLifecycle ---------------------------
(***************************************************************************)
(* What the key manager promises (internal/keymanager/manager.go:1-13): the *)
(* master key is loaded once, held until it is destroyed, and never held     *)
(* again; holders work on independent copies of it, which outlive Destroy.   *)
(***************************************************************************)
CONSTANTS Keys, Holders, NoKey

VARIABLES
  phase,     \* "unloaded", "loaded" or "destroyed"
  masterKey, \* the key held by the manager, or NoKey
  copy       \* copy[h]: the copy of the key that h works on, or NoKey

lifecycleVars == <<phase, masterKey, copy>>

Init ==
  /\ phase = "unloaded"
  /\ masterKey = NoKey
  /\ copy = [h \in Holders |-> NoKey]

Load(k) ==
  /\ phase = "unloaded"
  /\ phase' = "loaded"
  /\ masterKey' = k
  /\ UNCHANGED copy

Destroy ==
  /\ phase # "destroyed"
  /\ phase' = "destroyed"
  /\ masterKey' = NoKey
  /\ UNCHANGED copy

Dispense(h) ==
  /\ phase = "loaded"
  /\ copy[h] = NoKey
  /\ copy' = [copy EXCEPT ![h] = masterKey]
  /\ UNCHANGED <<phase, masterKey>>

Release(h) ==
  /\ copy' = [copy EXCEPT ![h] = NoKey]
  /\ UNCHANGED <<phase, masterKey>>

Next ==
  \/ \E k \in Keys : Load(k)
  \/ Destroy
  \/ \E h \in Holders : Dispense(h) \/ Release(h)

Spec == Init /\ [][Next]_lifecycleVars
=============================================================================
