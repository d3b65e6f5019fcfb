----------------------------- MODULE KeyManager -----------------------------
(***************************************************************************)
(* The master-key manager (internal/keymanager/manager.go) used from many    *)
(* goroutines: Load reads the key source without holding the lock, so two    *)
(* Loads and a Destroy can be in flight at once; Sealer copies the key under *)
(* the read lock and builds the Sealer (internal/crypto/aes.go) after it.    *)
(* The buffers this code owns are explicit: what the source returns, the     *)
(* manager's slice, the temporary copy and the Sealer's own copy.  So is     *)
(* what it cannot clear: the key schedule that crypto/aes expands from the   *)
(* key stays in memory until the garbage collector reclaims it               *)
(* (manager.go:10-13, aes.go:68-72).                                         *)
(***************************************************************************)
EXTENDS Integers

CONSTANTS
  Keys,      \* the 32-byte keys a source may return
  NoKey,     \* a buffer that is nil or zeroed
  Loaders,   \* goroutines that call Load
  Holders    \* goroutines that call Sealer

ASSUME NoKeyAssumption == NoKey \notin Keys

VARIABLES
  state,     \* m.state
  key,       \* m.key
  gauge,     \* the metric azath_master_key_loaded
  loader,    \* where each Load is, and what it returned last
  raw,       \* the buffer returned by the source to each Load
  holder,    \* where each Sealer call or Sealer is
  temp,      \* keyCopy's result, zeroed when Sealer returns
  sealer,    \* the key a Sealer seals and unseals with: its copy, and the
             \* schedule expanded from it
  residue    \* the keys of which a schedule lies in memory that no Sealer
             \* refers to any more

vars == <<state, key, gauge, loader, raw, holder, temp, sealer, residue>>

Buffer == Keys \cup {NoKey}

LoadResults == {"none", "ok", "ErrAlreadyLoaded", "ErrDestroyed", "failed"}

TypeOK ==
  /\ state \in {"unloaded", "loaded", "destroyed"}
  /\ key \in Buffer
  /\ gauge \in {0, 1}
  /\ loader \in [Loaders -> [pc : {"idle", "reading", "short", "failed", "read"},
                             result : LoadResults]]
  /\ raw \in [Loaders -> Buffer]
  /\ holder \in [Holders -> {"idle", "copied", "sealing"}]
  /\ temp \in [Holders -> Buffer]
  /\ sealer \in [Holders -> Buffer]
  /\ residue \subseteq Keys

Init ==
  /\ state = "unloaded"
  /\ key = NoKey
  /\ gauge = 0
  /\ loader = [l \in Loaders |-> [pc |-> "idle", result |-> "none"]]
  /\ raw = [l \in Loaders |-> NoKey]
  /\ holder = [h \in Holders |-> "idle"]
  /\ temp = [h \in Holders |-> NoKey]
  /\ sealer = [h \in Holders |-> NoKey]
  /\ residue = {}

-----------------------------------------------------------------------------
(* Load.                                                                     *)

\* What Load returns when it finds the manager in this state.
Refusal == IF state = "destroyed" THEN "ErrDestroyed" ELSE "ErrAlreadyLoaded"

\* Load returns: its deferred Zero clears the source's buffer.
LoadReturns(l, res) ==
  /\ loader' = [loader EXCEPT ![l] = [pc |-> "idle", result |-> res]]
  /\ raw' = [raw EXCEPT ![l] = NoKey]

\* The check under the read lock, before any I/O.
LoadStart(l) ==
  /\ loader[l].pc = "idle"
  /\ IF state = "unloaded"
       THEN /\ loader' = [loader EXCEPT ![l] = [pc |-> "reading", result |-> "none"]]
            /\ UNCHANGED raw
       ELSE LoadReturns(l, Refusal)
  /\ UNCHANGED <<state, key, gauge, holder, temp, sealer, residue>>

\* src.Load returns a key, too few bytes, or an error with or without some bytes.
SourceReturns(l, outcome, bytes) ==
  /\ loader[l].pc = "reading"
  /\ outcome = "read" => bytes # NoKey
  /\ loader' = [loader EXCEPT ![l].pc = outcome]
  /\ raw' = [raw EXCEPT ![l] = bytes]
  /\ UNCHANGED <<state, key, gauge, holder, temp, sealer, residue>>

\* (Mutant: the error return is reached before the deferred Zero.)
LoadFailsUnzeroed(l) ==
  /\ loader[l].pc \in {"failed", "short"}
  /\ loader' = [loader EXCEPT ![l] = [pc |-> "idle", result |-> "failed"]]
  /\ UNCHANGED <<state, key, gauge, raw, holder, temp, sealer, residue>>

LoadFails(l) ==
  /\ loader[l].pc \in {"failed", "short"}
  /\ LoadReturns(l, "failed")
  /\ UNCHANGED <<state, key, gauge, holder, temp, sealer, residue>>

\* (Mutant: only a destroyed manager is recognised under the write lock.)
MayCommitTwice == state # "destroyed"

\* The definitive check, under the write lock.
MayCommit == state = "unloaded"

LoadCommit(l) ==
  /\ loader[l].pc = "read"
  /\ IF MayCommit
       THEN /\ key' = raw[l]
            /\ state' = "loaded"
            /\ gauge' = 1
            /\ LoadReturns(l, "ok")
       ELSE /\ LoadReturns(l, Refusal)
            /\ UNCHANGED <<state, key, gauge>>
  /\ UNCHANGED <<holder, temp, sealer, residue>>

-----------------------------------------------------------------------------
(* Sealer and the life of what it returns.                                   *)

\* keyCopy, under the read lock; its errors leave nothing behind.
KeyCopy(h) ==
  /\ holder[h] = "idle"
  /\ state = "loaded"
  /\ holder' = [holder EXCEPT ![h] = "copied"]
  /\ temp' = [temp EXCEPT ![h] = key]
  /\ UNCHANGED <<state, key, gauge, loader, raw, sealer, residue>>

\* crypto.NewSealer copies once more; Sealer zeroes its own copy on return.
NewSealer(h) ==
  /\ holder[h] = "copied"
  /\ holder' = [holder EXCEPT ![h] = "sealing"]
  /\ sealer' = [sealer EXCEPT ![h] = temp[h]]
  /\ temp' = [temp EXCEPT ![h] = NoKey]
  /\ UNCHANGED <<state, key, gauge, loader, raw, residue>>

\* NewSealer fails, before or after it has expanded the key (no entropy): its copy
\* and the caller's are zeroed.
NewSealerFails(h) ==
  /\ holder[h] = "copied"
  /\ holder' = [holder EXCEPT ![h] = "idle"]
  /\ temp' = [temp EXCEPT ![h] = NoKey]
  /\ residue' = residue \/ residue' = residue \cup {temp[h]}
  /\ UNCHANGED <<state, key, gauge, loader, raw, sealer>>

\* The RPC handler's deferred sealer.Destroy: the copy is zeroed, the schedule only
\* dropped.
SealerDestroy(h) ==
  /\ holder[h] = "sealing"
  /\ holder' = [holder EXCEPT ![h] = "idle"]
  /\ sealer' = [sealer EXCEPT ![h] = NoKey]
  /\ residue' = residue \cup {sealer[h]}
  /\ UNCHANGED <<state, key, gauge, loader, raw, temp>>

\* The garbage collector reclaims dropped schedules, sooner or later or never.
Collect ==
  /\ \E k \in residue : residue' = residue \ {k}
  /\ UNCHANGED <<state, key, gauge, loader, raw, holder, temp, sealer>>

-----------------------------------------------------------------------------
\* (Mutant: a manager that was never loaded is not marked destroyed.)
DestroyLoaded ==
  /\ state = "loaded"
  /\ key' = NoKey
  /\ state' = "unloaded"
  /\ gauge' = 0
  /\ UNCHANGED <<loader, raw, holder, temp, sealer, residue>>

\* (Mutant: the gauge is left at 1.)
DestroyGaugeKept ==
  /\ state # "destroyed"
  /\ key' = NoKey
  /\ state' = "destroyed"
  /\ UNCHANGED <<gauge, loader, raw, holder, temp, sealer, residue>>

\* Destroy; on a destroyed manager it does nothing.
Destroy ==
  /\ state # "destroyed"
  /\ key' = NoKey
  /\ state' = "destroyed"
  /\ gauge' = 0
  /\ UNCHANGED <<loader, raw, holder, temp, sealer, residue>>

Load(l) ==
  \/ LoadStart(l)
  \/ \E outcome \in {"read", "short", "failed"}, bytes \in Buffer :
       SourceReturns(l, outcome, bytes)
  \/ LoadFails(l)
  \/ LoadCommit(l)

Sealer(h) == KeyCopy(h) \/ NewSealer(h) \/ NewSealerFails(h) \/ SealerDestroy(h)

Next ==
  \/ \E l \in Loaders : Load(l)
  \/ \E h \in Holders : Sealer(h)
  \/ Destroy
  \/ Collect

Spec == Init /\ [][Next]_vars

-----------------------------------------------------------------------------
(* Properties.                                                               *)

\* The three records of whether a key is held never disagree: the state that
\* Loaded and Sealer read, the slice, and the gauge that operators watch.
KeyMatchesState ==
  /\ state = "loaded" <=> key \in Keys
  /\ state = "loaded" <=> gauge = 1

\* All copies at work are of one key: a Load that raced with another never swaps
\* the key between two RPCs, and no Sealer is built on a zeroed buffer.
OneKeyAtWork ==
  \A h \in Holders : holder[h] = "sealing" =>
    /\ sealer[h] \in Keys
    /\ state = "loaded" => sealer[h] = key
    /\ \A g \in Holders : holder[g] = "sealing" => sealer[g] = sealer[h]

\* In the buffers this code owns key bytes lie only while it uses them: in the manager
\* while it is loaded, in the source's buffer until its Load returns, in a copy until
\* its Sealer is built or destroyed.  After Destroy and the last RPC only key schedules
\* are left, those not yet collected, and of no key but the one that was loaded: what a
\* Load read that failed or lost the race was never expanded.
KeyBytesInUse ==
  /\ key # NoKey => state = "loaded"
  /\ \A l \in Loaders : raw[l] # NoKey => loader[l].pc \in {"read", "short", "failed"}
  /\ \A h \in Holders : /\ temp[h] # NoKey => holder[h] = "copied"
                        /\ sealer[h] # NoKey => holder[h] = "sealing"
  /\ residue # {} => state # "unloaded"
  /\ state = "loaded" => residue \subseteq {key}
  /\ \A j, k \in residue : j = k

\* The copy a holder works on, in whichever buffer it is.
CopyOf(h) == IF holder[h] = "copied" THEN temp[h] ELSE sealer[h]

\* The inductive invariant of the proofs: OneKeyAtWork extended to the copies
\* between keyCopy and NewSealer, and to the buffers of Loads about to commit.
IInv ==
  /\ TypeOK
  /\ KeyMatchesState
  /\ KeyBytesInUse
  /\ \A l \in Loaders : loader[l].pc = "read" => raw[l] \in Keys
  /\ \A h \in Holders : holder[h] # "idle" =>
       /\ CopyOf(h) \in Keys
       /\ state # "unloaded"
       /\ state = "loaded" => CopyOf(h) = key
       /\ residue \subseteq {CopyOf(h)}
       /\ \A g \in Holders : holder[g] # "idle" => CopyOf(g) = CopyOf(h)

\* The manager implements the lifecycle its package comment promises.
Lifecycle == INSTANCE KeyLifecycle WITH
  phase <- state,
  masterKey <- key,
  copy <- [h \in Holders |-> CopyOf(h)]

ImplementsLifecycle == Lifecycle!Spec
=============================================================================
