----------------------------- MODULE AtomicWrite -----------------------------
(***************************************************************************)
(* fsutil.Write (internal/fsutil/atomic.go): several processes replace one   *)
(* file, each through a temporary file of its own, and the machine may lose  *)
(* power at any point.                                                      *)
(*                                                                         *)
(* The file system (external) promises no more than POSIX does: the data of  *)
(* a file survive once it was synced, of the renames since the last sync of  *)
(* the directory any one may turn out to have been the last, and a name      *)
(* created or taken away since then may be there or not, whatever became of  *)
(* the others.                                                              *)
(***************************************************************************)
CONSTANTS
  Writers,  \* processes that call Write, each once
  Torn,     \* data written in part, or not known to have survived
  NoFile    \* no temporary file

VARIABLES
  write,    \* how far the Write of each process is
  temp,     \* temp[w]: its temporary file
  path,     \* the file at the path, as a reader finds it
  onDisk,   \* what the path may hold after a power failure
  tempOnDisk  \* tempOnDisk[w]: whether its temporary file may be there then

fileState == <<write, temp, path, onDisk, tempOnDisk>>

Stages == {"idle", "created", "written", "synced", "renamed"}

File(data, synced) == [data |-> data, synced |-> synced]

(* What is left of a file when the power fails. *)
Surviving(file) == IF file.synced THEN file.data ELSE Torn

Stage(w, s) == write' = [write EXCEPT ![w] = s]

(* A name comes or goes; only a sync of the directory makes that last. *)
Link(w, file) ==
  /\ temp' = [temp EXCEPT ![w] = file]
  /\ tempOnDisk' = [tempOnDisk EXCEPT ![w] = @ \cup {file # NoFile}]

(* CreateTemp, a new file with mode 0600. *)
CreateTemp(w) ==
  /\ write[w] = "idle"
  /\ Stage(w, "created")
  /\ Link(w, File(Torn, FALSE))
  /\ UNCHANGED <<path, onDisk>>

WriteTemp(w, data) ==
  /\ write[w] = "created"
  /\ Stage(w, "written")
  /\ temp' = [temp EXCEPT ![w] = File(data, FALSE)]
  /\ UNCHANGED <<path, onDisk, tempOnDisk>>

SyncTemp(w) ==
  /\ write[w] = "written"
  /\ Stage(w, "synced")
  /\ temp' = [temp EXCEPT ![w] = File(temp[w].data, TRUE)]
  /\ UNCHANGED <<path, onDisk, tempOnDisk>>

(* Mutant: the data need not be synced before the rename. *)
RenameUnsynced(w) ==
  /\ write[w] \in {"written", "synced"}
  /\ Stage(w, "renamed")
  /\ path' = temp[w]
  /\ Link(w, NoFile)
  /\ onDisk' = onDisk \cup {Surviving(temp[w])}

Rename(w) ==
  /\ write[w] = "synced"
  /\ Stage(w, "renamed")
  /\ path' = temp[w]
  /\ Link(w, NoFile)
  /\ onDisk' = onDisk \cup {Surviving(temp[w])}

(* Mutant: the directory is not synced. *)
SyncDirSkipped(w) ==
  /\ write[w] = "renamed"
  /\ Stage(w, "idle")
  /\ UNCHANGED <<temp, path, onDisk, tempOnDisk>>

(* The directory is synced, with whatever others have changed meanwhile. *)
SyncDir(w) ==
  /\ write[w] = "renamed"
  /\ Stage(w, "idle")
  /\ onDisk' = {Surviving(path)}
  /\ tempOnDisk' = [v \in Writers |-> {temp[v] # NoFile}]
  /\ UNCHANGED <<temp, path>>

(* Any call on the way fails: the temporary file is removed, if it has not   *)
(* been renamed yet and Remove does not fail too, which nobody would notice;  *)
(* what was renamed stays.                                                  *)
WriteFails(w) ==
  /\ write[w] # "idle"
  /\ Stage(w, "idle")
  /\ Link(w, NoFile) \/ UNCHANGED <<temp, tempOnDisk>>
  /\ UNCHANGED <<path, onDisk>>

(* The process is killed: nothing is removed. *)
Killed(w) ==
  /\ Stage(w, "idle")
  /\ UNCHANGED <<temp, path, onDisk, tempOnDisk>>

(* The machine goes down and comes up again with one of the files that may   *)
(* have survived, and with any temporary file that may be there, even of a   *)
(* process that had ended.  What is in those nobody reads.                  *)
PowerFails ==
  /\ write' = [w \in Writers |-> "idle"]
  /\ \E data \in onDisk : path' = File(data, TRUE) /\ onDisk' = {data}
  /\ \E left \in [Writers -> BOOLEAN] :
       /\ \A w \in Writers : left[w] \in tempOnDisk[w]
       /\ temp' = [w \in Writers |-> IF left[w] THEN File(Torn, TRUE) ELSE NoFile]
       /\ tempOnDisk' = [w \in Writers |-> {left[w]}]
=============================================================================
