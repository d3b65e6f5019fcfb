------------------------- MODULE KeyManager_proofs -------------------------
(***************************************************************************)
(* Proofs about the key manager, for any number of goroutines in Load and    *)
(* Sealer and any keys, and that it implements KeyLifecycle.                 *)
(***************************************************************************)
EXTENDS KeyManager, TLAPS

LEMMA InitIInv == Init => IInv
BY NoKeyAssumption
   DEF Init, IInv, TypeOK, KeyMatchesState, KeyBytesInUse, CopyOf, Buffer, LoadResults

\* Load leaves the holders alone and gives the manager a key only while it has none.
LEMMA LoadStep ==
  ASSUME IInv, NEW l \in Loaders, Load(l)
  PROVE  IInv'
<1> USE NoKeyAssumption DEF Buffer, LoadResults
<1>1. /\ loader \in [Loaders -> [pc : {"idle", "reading", "short", "failed", "read"},
                                 result : LoadResults]]
      /\ raw \in [Loaders -> Buffer]
  BY DEF IInv, TypeOK
<1>2. ASSUME NEW res \in LoadResults, LoadReturns(l, res)
      PROVE  /\ loader' \in [Loaders -> [pc : {"idle", "reading", "short", "failed", "read"},
                                         result : LoadResults]]
             /\ raw' \in [Loaders -> Buffer]
             /\ \A k \in Loaders : raw'[k] # NoKey => loader'[k].pc \in {"read", "short", "failed"}
             /\ \A k \in Loaders : loader'[k].pc = "read" => raw'[k] \in Keys
  BY <1>1, <1>2 DEF LoadReturns, IInv, KeyBytesInUse
<1>3. Refusal \in LoadResults
  BY DEF Refusal
<1>4. CASE LoadStart(l)
  <2>1. CASE state = "unloaded"
    <3>1. /\ loader' = [loader EXCEPT ![l] = [pc |-> "reading", result |-> "none"]]
          /\ raw[l] = NoKey
          /\ UNCHANGED <<state, key, gauge, raw, holder, temp, sealer, residue>>
      BY <1>1, <1>4, <2>1 DEF LoadStart, IInv, KeyBytesInUse
    <3>2. TypeOK' /\ KeyMatchesState'
      BY <1>1, <3>1 DEF IInv, TypeOK, KeyMatchesState
    <3>3. /\ KeyBytesInUse'
          /\ \A k \in Loaders : loader'[k].pc = "read" => raw'[k] \in Keys
      BY <1>1, <3>1 DEF IInv, KeyBytesInUse
    <3> QED  BY <3>1, <3>2, <3>3 DEF IInv, CopyOf
  <2>2. CASE state # "unloaded"
    BY <1>2, <1>3, <1>4, <2>2 DEF LoadStart, IInv, TypeOK, KeyMatchesState, KeyBytesInUse, CopyOf
  <2> QED  BY <2>1, <2>2
<1>5. ASSUME NEW outcome \in {"read", "short", "failed"}, NEW bytes \in Buffer,
             SourceReturns(l, outcome, bytes)
      PROVE  IInv'
  BY <1>1, <1>5 DEF SourceReturns, IInv, TypeOK, KeyMatchesState, KeyBytesInUse, CopyOf
<1>6. CASE LoadFails(l)
  BY <1>2, <1>6 DEF LoadFails, IInv, TypeOK, KeyMatchesState, KeyBytesInUse, CopyOf
<1>7. CASE LoadCommit(l)
  <2>1. CASE MayCommit
    <3>1. key' \in Keys /\ state' = "loaded" /\ gauge' = 1 /\ LoadReturns(l, "ok")
      BY <1>7, <2>1 DEF LoadCommit, IInv
    <3>2. \A h \in Holders : holder[h] = "idle"
      BY <2>1 DEF IInv, MayCommit
    <3>3. residue = {} /\ UNCHANGED <<holder, temp, sealer, residue>>
      BY <1>7, <2>1 DEF LoadCommit, IInv, KeyBytesInUse, MayCommit
    <3>4. TypeOK' /\ KeyMatchesState'
      BY <1>2, <3>1, <3>3 DEF IInv, TypeOK, KeyMatchesState
    <3>5. /\ KeyBytesInUse'
          /\ \A k \in Loaders : loader'[k].pc = "read" => raw'[k] \in Keys
      BY <1>2, <3>1, <3>3 DEF IInv, KeyBytesInUse
    <3> QED  BY <3>2, <3>3, <3>4, <3>5 DEF IInv
  <2>2. CASE ~MayCommit
    BY <1>2, <1>3, <1>7, <2>2
       DEF LoadCommit, IInv, TypeOK, KeyMatchesState, KeyBytesInUse, CopyOf
  <2> QED  BY <2>1, <2>2
<1> QED  BY <1>4, <1>5, <1>6, <1>7 DEF Load

\* A holder copies the manager's key or a copy of it, and clears what it leaves.
LEMMA SealerStep ==
  ASSUME IInv, NEW h \in Holders, Sealer(h)
  PROVE  IInv'
<1> USE NoKeyAssumption DEF Buffer
<1>1. /\ holder \in [Holders -> {"idle", "copied", "sealing"}]
      /\ temp \in [Holders -> Buffer] /\ sealer \in [Holders -> Buffer]
  BY DEF IInv, TypeOK
<1>2. CASE KeyCopy(h)
  <2>1. key \in Keys
    BY <1>2 DEF KeyCopy, IInv, KeyMatchesState
  <2> QED  BY <1>1, <1>2, <2>1 DEF KeyCopy, IInv, TypeOK, KeyMatchesState, KeyBytesInUse, CopyOf
<1>3. CASE NewSealer(h)
  BY <1>1, <1>3 DEF NewSealer, IInv, TypeOK, KeyMatchesState, KeyBytesInUse, CopyOf
<1>4. CASE NewSealerFails(h)
  BY <1>1, <1>4 DEF NewSealerFails, IInv, TypeOK, KeyMatchesState, KeyBytesInUse, CopyOf
<1>5. CASE SealerDestroy(h)
  BY <1>1, <1>5 DEF SealerDestroy, IInv, TypeOK, KeyMatchesState, KeyBytesInUse, CopyOf
<1> QED  BY <1>2, <1>3, <1>4, <1>5 DEF Sealer

LEMMA NextIInv == IInv /\ [Next]_vars => IInv'
<1> SUFFICES ASSUME IInv, [Next]_vars PROVE IInv'
  OBVIOUS
<1>1. CASE Destroy
  BY <1>1, NoKeyAssumption
     DEF Destroy, IInv, TypeOK, KeyMatchesState, KeyBytesInUse, CopyOf, Buffer
<1>3. CASE Collect
  BY <1>3 DEF Collect, IInv, TypeOK, KeyMatchesState, KeyBytesInUse, CopyOf
<1>2. CASE UNCHANGED vars
  BY <1>2 DEF vars, IInv, TypeOK, KeyMatchesState, KeyBytesInUse, CopyOf
<1> QED  BY <1>1, <1>2, <1>3, LoadStep, SealerStep DEF Next

\* IInv holds in every reachable state: state, key, gauge and every buffer agree
\* under all interleavings of Load, Sealer and Destroy.
THEOREM Invariance == Spec => []IInv
BY InitIInv, NextIInv, PTL DEF Spec

\* The gauge and Loaded tell the truth about the key held (manager.go:138, 187).
THEOREM GaugeCorrect == Spec => []KeyMatchesState
<1>1. IInv => KeyMatchesState
  BY DEF IInv
<1> QED  BY <1>1, Invariance, PTL

\* All Sealers at work hold one and the same key, that of the manager while it is
\* loaded: the second check in Load decides every race.
THEOREM OneKey == Spec => []OneKeyAtWork
<1>1. IInv => OneKeyAtWork
  BY DEF IInv, OneKeyAtWork, CopyOf, TypeOK
<1> QED  BY <1>1, Invariance, PTL

\* No buffer this code owns keeps key bytes beyond its use, on success and on every
\* error path; what is left are key schedules of the one key that was loaded.
THEOREM BytesCorrect == Spec => []KeyBytesInUse
<1>1. IInv => KeyBytesInUse
  BY DEF IInv
<1> QED  BY <1>1, Invariance, PTL

LEMMA InitRefines == Init => Lifecycle!Init
BY DEF Init, Lifecycle!Init, CopyOf

\* Every step is a step of the lifecycle or leaves it as it is.
LEMMA NextRefines == IInv /\ [Next]_vars => [Lifecycle!Next]_Lifecycle!lifecycleVars
<1> SUFFICES ASSUME IInv, [Next]_vars PROVE [Lifecycle!Next]_Lifecycle!lifecycleVars
  OBVIOUS
<1> DEFINE copies == [h \in Holders |-> CopyOf(h)]
<1>1. /\ holder \in [Holders -> {"idle", "copied", "sealing"}]
      /\ temp \in [Holders -> Buffer] /\ sealer \in [Holders -> Buffer]
      /\ raw \in [Loaders -> Buffer]
  BY DEF IInv, TypeOK
<1>2. ASSUME UNCHANGED <<state, key, holder, temp, sealer>>
      PROVE  UNCHANGED Lifecycle!lifecycleVars
  BY <1>2 DEF Lifecycle!lifecycleVars, CopyOf
<1>3. ASSUME NEW l \in Loaders, Load(l)
      PROVE  [Lifecycle!Next]_Lifecycle!lifecycleVars
  <2>1. CASE LoadCommit(l) /\ MayCommit
    <3>1. /\ raw[l] \in Keys /\ key' = raw[l] /\ state' = "loaded"
          /\ UNCHANGED <<holder, temp, sealer>>
      BY <2>1 DEF LoadCommit, IInv
    <3>2. copies' = copies
      BY <3>1 DEF CopyOf
    <3>3. Lifecycle!Load(raw[l])
      BY <2>1, <3>1, <3>2 DEF MayCommit, Lifecycle!Load
    <3> QED  BY <3>1, <3>3 DEF Lifecycle!Next
  <2>2. CASE ~(LoadCommit(l) /\ MayCommit)
    <3>1. UNCHANGED <<state, key, holder, temp, sealer>>
      BY <1>3, <2>2 DEF Load, LoadStart, SourceReturns, LoadFails, LoadCommit
    <3> QED  BY <1>2, <3>1
  <2> QED  BY <2>1, <2>2
<1>4. ASSUME NEW h \in Holders, Sealer(h)
      PROVE  [Lifecycle!Next]_Lifecycle!lifecycleVars
  <2>1. CASE KeyCopy(h)
    <3>1. copies[h] = NoKey
      BY <1>1, <2>1 DEF KeyCopy, IInv, KeyBytesInUse, CopyOf
    <3>2. copies' = [copies EXCEPT ![h] = key]
      BY <1>1, <2>1 DEF KeyCopy, CopyOf
    <3>3. Lifecycle!Dispense(h)
      BY <2>1, <3>1, <3>2 DEF KeyCopy, Lifecycle!Dispense
    <3> QED  BY <3>3 DEF Lifecycle!Next
  <2>2. CASE NewSealer(h)
    <3>1. copies' = copies
      BY <1>1, <2>2 DEF NewSealer, CopyOf
    <3> QED  BY <2>2, <3>1 DEF NewSealer, Lifecycle!lifecycleVars
  <2>3. CASE NewSealerFails(h) \/ SealerDestroy(h)
    <3>1. copies' = [copies EXCEPT ![h] = NoKey]
      BY <1>1, <2>3 DEF NewSealerFails, SealerDestroy, IInv, KeyBytesInUse, CopyOf
    <3>2. Lifecycle!Release(h)
      BY <2>3, <3>1 DEF NewSealerFails, SealerDestroy, Lifecycle!Release
    <3> QED  BY <3>2 DEF Lifecycle!Next
  <2> QED  BY <1>4, <2>1, <2>2, <2>3 DEF Sealer
<1>5. CASE Destroy
  <2>1. copies' = copies
    BY <1>5 DEF Destroy, CopyOf
  <2>2. Lifecycle!Destroy
    BY <1>5, <2>1 DEF Destroy, Lifecycle!Destroy
  <2> QED  BY <2>2 DEF Lifecycle!Next
<1>6. CASE Collect \/ UNCHANGED vars
  BY <1>2, <1>6 DEF Collect, vars
<1> QED  BY <1>3, <1>4, <1>5, <1>6 DEF Next

\* The manager implements the lifecycle of its package comment: loaded at most
\* once, destroyed for good, copies independent of Destroy.
THEOREM Refines == Spec => ImplementsLifecycle
<1>1. IInv /\ [Next]_vars => [Lifecycle!Next]_Lifecycle!lifecycleVars
  BY NextRefines
<1> QED  BY <1>1, InitRefines, Invariance, PTL DEF Spec, ImplementsLifecycle, Lifecycle!Spec

(***************************************************************************)
(* What Load tells its callers.                                             *)
(***************************************************************************)

\* What each Load returned last is true of the manager, now and from then on: one
\* goroutine at most has been told that its key is the one, and whoever was told of a
\* key already loaded or destroyed was told so of a manager that stays loaded or
\* destroyed.
LoadOutcomes ==
  /\ \A l, k \in Loaders : loader[l].result = "ok" /\ loader[k].result = "ok" => l = k
  /\ \A l \in Loaders :
       /\ loader[l].result \in {"ok", "ErrAlreadyLoaded"} => state # "unloaded"
       /\ loader[l].result = "ErrDestroyed" => state = "destroyed"

LEMMA LoadOutcomesStep ==
  ASSUME IInv, LoadOutcomes, [Next]_vars
  PROVE  LoadOutcomes'
<1>1. /\ loader \in [Loaders -> [pc : {"idle", "reading", "short", "failed", "read"},
                                 result : LoadResults]]
      /\ state \in {"unloaded", "loaded", "destroyed"}
  BY DEF IInv, TypeOK
<1>2. CASE UNCHANGED loader /\ state' \in {state, "destroyed"}
  BY <1>2 DEF LoadOutcomes
<1>3. ASSUME NEW l \in Loaders, NEW res \in {"failed", Refusal}, LoadReturns(l, res),
             res = Refusal => state # "unloaded", UNCHANGED state
      PROVE  LoadOutcomes'
  <2>1. /\ loader'[l].result = res
        /\ \A k \in Loaders : k # l => loader'[k] = loader[k]
    BY <1>1, <1>3 DEF LoadReturns
  <2>2. /\ res # "ok"
        /\ res = "ErrAlreadyLoaded" => state # "unloaded"
        /\ res = "ErrDestroyed" => state = "destroyed"
    BY <1>3 DEF Refusal
  <2> QED  BY <1>3, <2>1, <2>2 DEF LoadOutcomes
<1>4. ASSUME NEW l \in Loaders, Load(l) PROVE LoadOutcomes'
  <2>1. CASE LoadStart(l)
    <3>1. CASE state = "unloaded"
      <4>1. /\ loader'[l].result = "none" /\ UNCHANGED state
            /\ \A k \in Loaders : k # l => loader'[k] = loader[k]
        BY <1>1, <2>1, <3>1 DEF LoadStart
      <4> QED  BY <4>1 DEF LoadOutcomes
    <3>2. CASE state # "unloaded"
      BY <1>3, <2>1, <3>2 DEF LoadStart
    <3> QED  BY <3>1, <3>2
  <2>2. ASSUME NEW outcome, NEW bytes, SourceReturns(l, outcome, bytes) PROVE LoadOutcomes'
    <3>1. UNCHANGED state /\ \A k \in Loaders : loader'[k].result = loader[k].result
      BY <1>1, <2>2 DEF SourceReturns
    <3> QED  BY <3>1 DEF LoadOutcomes
  <2>3. CASE LoadFails(l)
    <3>1. "failed" # Refusal
      BY DEF Refusal
    <3> QED  BY <1>3, <2>3, <3>1 DEF LoadFails
  <2>4. CASE LoadCommit(l) /\ MayCommit
    <3>1. \A k \in Loaders : loader[k].result # "ok"
      BY <2>4 DEF MayCommit, LoadOutcomes
    <3>2. /\ state = "unloaded" /\ state' = "loaded"
          /\ \A k \in Loaders : k # l => loader'[k] = loader[k]
          /\ loader'[l].result = "ok"
      BY <1>1, <2>4 DEF LoadCommit, MayCommit, LoadReturns
    <3> QED  BY <3>1, <3>2 DEF LoadOutcomes
  <2>5. CASE LoadCommit(l) /\ ~MayCommit
    BY <1>3, <2>5 DEF LoadCommit, MayCommit
  <2> QED  BY <1>4, <2>1, <2>2, <2>3, <2>4, <2>5 DEF Load
<1>5. ASSUME NEW h \in Holders, Sealer(h) PROVE UNCHANGED <<loader, state>>
  BY <1>5 DEF Sealer, KeyCopy, NewSealer, NewSealerFails, SealerDestroy
<1>6. CASE Destroy \/ Collect \/ UNCHANGED vars
  BY <1>2, <1>6 DEF Destroy, Collect, vars
<1> QED  BY <1>2, <1>4, <1>5, <1>6 DEF Next

\* However many goroutines call Load while others seal or destroy, one at most is
\* told that its key was taken, and no refusal is ever out of date.
THEOREM LoadHonest == Spec => []LoadOutcomes
<1>1. Init => LoadOutcomes
  BY DEF Init, LoadOutcomes
<1>2. IInv /\ LoadOutcomes /\ [Next]_vars => LoadOutcomes'
  BY LoadOutcomesStep
<1> QED  BY <1>1, <1>2, Invariance, PTL DEF Spec
=============================================================================
