----------------------------- MODULE ConfigEdit -----------------------------
(***************************************************************************)
(* The commands that change the server's configuration: new-device,         *)
(* disable-device and enable-device (cmd/azath/config_newdevice_cmd.go,      *)
(* config_toggle_cmd.go).  Each reads and validates the file, edits what it  *)
(* has read, validates the result and replaces the file through AtomicWrite. *)
(* No lock keeps two commands apart.                                        *)
(*                                                                         *)
(* A configuration is abstracted to what the commands change: for every name *)
(* the number of entries and whether the entry is disabled.  It also carries *)
(* the commands whose edits it contains.                                    *)
(***************************************************************************)
EXTENDS AtomicWrite

CONSTANT Names    \* device names

Entries == {"absent", "enabled", "disabled", "duplicate"}
Config == [devices : [Names -> Entries], by : SUBSET Writers]

ASSUME TornAssumption == Torn \notin Config
ASSUME NoFileAssumption == NoFile \notin [data : Config \cup {Torn}, synced : BOOLEAN]

Commands == {"new-device", "disable-device", "enable-device"}

VARIABLES
  result,       \* what each command has come to; "failed" is also the end of
                \* one that was killed
  edited,       \* edited[w]: the configuration it is about to write
  since,        \* history: commands that replaced the file since w read it
  overwritten   \* history: commands whose edit was replaced by one that had
                \* read the file before it

vars == <<fileState, result, edited, since, overwritten>>

Unedited == [devices |-> [n \in Names |-> "absent"], by |-> {}]

TypeOK ==
  /\ write \in [Writers -> Stages]
  /\ temp \in [Writers -> [data : Config \cup {Torn}, synced : BOOLEAN] \cup {NoFile}]
  /\ path \in [data : Config \cup {Torn}, synced : BOOLEAN]
  /\ onDisk \subseteq Config \cup {Torn}
  /\ tempOnDisk \in [Writers -> SUBSET BOOLEAN]
  /\ result \in [Writers -> {"none", "running", "ok", "failed"}]
  /\ edited \in [Writers -> Config]
  /\ since \in [Writers -> SUBSET Writers]
  /\ overwritten \subseteq Writers

(* The file was written by hand, well or not. *)
Init ==
  /\ write = [w \in Writers |-> "idle"]
  /\ temp = [w \in Writers |-> NoFile]
  /\ \E devices \in [Names -> Entries] :
       path = File([devices |-> devices, by |-> {}], TRUE)
  /\ onDisk = {path.data}
  /\ tempOnDisk = [w \in Writers |-> {FALSE}]
  /\ result = [w \in Writers |-> "none"]
  /\ edited = [w \in Writers |-> Unedited]
  /\ since = [w \in Writers |-> {}]
  /\ overwritten = {}

(* validateDevices: no two entries of one name. *)
Valid(devices) == \A n \in Names : devices[n] # "duplicate"

Found(devices, name) == devices[name] # "absent"

appendDeviceNode(devices, name) ==
  [devices EXCEPT ![name] = IF Found(devices, name) THEN "duplicate" ELSE "enabled"]

setDeviceDisabledNode(devices, name, disabled) ==
  [devices EXCEPT ![name] = IF disabled THEN "disabled" ELSE "enabled"]

Edited(devices, command, name) ==
  IF command = "new-device" THEN appendDeviceNode(devices, name)
  ELSE setDeviceDisabledNode(devices, name, command = "disable-device")

(* Mutant: only the file that was read is validated. *)
AcceptedUnchecked(devices, command, name) ==
  /\ Valid(devices)
  /\ command # "new-device" => Found(devices, name)

(* readConfig, the edit and the second validation find nothing wrong. *)
Accepted(devices, command, name) ==
  /\ Valid(devices)
  /\ command # "new-device" => Found(devices, name)
  /\ Valid(Edited(devices, command, name))

Result(w, res) == result' = [result EXCEPT ![w] = res]

(* The command reads the file, once, and prepares what it will write. *)
Edit(w, command, name) ==
  LET read == path.data IN
  /\ result[w] = "none"
  /\ read # Torn
  /\ Accepted(read.devices, command, name)
  /\ Result(w, "running")
  /\ edited' = [edited EXCEPT ![w] =
       [devices |-> Edited(read.devices, command, name), by |-> read.by \cup {w}]]
  /\ since' = [since EXCEPT ![w] = {}]
  /\ UNCHANGED <<fileState, overwritten>>

(* The file cannot be read, is invalid, or does not take the edit; or        *)
(* CreateTemp fails.                                                        *)
Refused(w) ==
  /\ \/ result[w] = "none"
     \/ result[w] = "running" /\ write[w] = "idle"
  /\ Result(w, "failed")
  /\ UNCHANGED <<fileState, edited, since, overwritten>>

Running(w) == result[w] = "running"

Prepare(w) ==
  /\ Running(w)
  /\ CreateTemp(w) \/ WriteTemp(w, edited[w]) \/ SyncTemp(w)
  /\ UNCHANGED <<result, edited, since, overwritten>>

Replace(w) ==
  /\ Running(w)
  /\ Rename(w)
  /\ since' = [v \in Writers |-> since[v] \cup {w}]
  /\ overwritten' = overwritten \cup since[w]
  /\ UNCHANGED <<result, edited>>

(* Write returns; closing the directory or printing the answer may fail. *)
Finish(w) ==
  /\ Running(w)
  /\ SyncDir(w)
  /\ Result(w, "ok") \/ Result(w, "failed")
  /\ UNCHANGED <<edited, since, overwritten>>

Fail(w) ==
  /\ Running(w)
  /\ WriteFails(w)
  /\ Result(w, "failed")
  /\ UNCHANGED <<edited, since, overwritten>>

Kill(w) ==
  /\ Running(w)
  /\ Killed(w)
  /\ Result(w, "failed")
  /\ UNCHANGED <<edited, since, overwritten>>

PowerFailure ==
  /\ PowerFails
  /\ result' = [w \in Writers |-> IF Running(w) THEN "failed" ELSE result[w]]
  /\ UNCHANGED <<edited, since, overwritten>>

Next ==
  \/ \E w \in Writers :
       \/ \E command \in Commands, name \in Names : Edit(w, command, name)
       \/ Refused(w) \/ Prepare(w) \/ Replace(w) \/ Finish(w) \/ Fail(w) \/ Kill(w)
  \/ PowerFailure

Spec == Init /\ [][Next]_vars

-----------------------------------------------------------------------------
(* Properties *)

(* A reader finds a whole file, now and after a power failure at this very   *)
(* moment (atomic.go:13), however many commands are in the middle of Write.  *)
OldOrNew == path.data # Torn /\ Torn \notin onDisk

(* So Write keeps the promise of its comment, for each of the commands: it   *)
(* replaces the file as a whole and reports no replacement that a power      *)
(* failure could undo.                                                      *)
Progress(w) ==
  CASE result[w] = "none" -> "none"
    [] Running(w) -> IF write[w] = "renamed" THEN "replaced" ELSE "offered"
    [] result[w] = "ok" -> "reported"
    [] OTHER -> "gone"

Atomic == INSTANCE AtomicFile WITH
  Values <- Config,
  content <- path.data,
  surviving <- onDisk,
  stage <- [w \in Writers |-> Progress(w)],
  offer <- edited

(* fsutil.Write keeps its promise (AtomicFile) while commands race each      *)
(* other, fail at any step, are killed, and the power fails.                *)
ImplementsAtomicFile == Atomic!Spec

(* No command, no race of commands and no power failure ever turns the       *)
(* configuration into one that the server would refuse at its next start.    *)
EditsValid ==
  \A config \in (onDisk \cup {path.data}) \ {Torn} :
    config.by # {} => Valid(config.devices)

(* A command that reported success is in every file that may be found from   *)
(* then on, power failures included, unless another command that had read    *)
(* the file before replaced it after: no lock excludes that, and nothing     *)
(* else loses an edit.                                                      *)
EditsKept ==
  \A w \in Writers : result[w] = "ok" =>
    \A config \in onDisk \cup {path.data} : w \in config.by \cup overwritten

(* A command that reported success leaves no temporary file beside the       *)
(* configuration, and no power failure brings one back.  No more is true: a  *)
(* command that was killed leaves one, and so does one that failed, if the   *)
(* Remove in atomic.go:23 fails too, unnoticed, or a power failure undoes    *)
(* that Remove or the rename.                                               *)
NoLitter ==
  \A w \in Writers : result[w] \in {"none", "ok"} =>
    temp[w] = NoFile /\ tempOnDisk[w] = {FALSE}

-----------------------------------------------------------------------------
(* The inductive invariant of the proofs *)

(* The temporary file holds what its stage says. *)
TempSound ==
  \A w \in Writers :
    /\ ~Running(w) => write[w] = "idle"
    /\ write[w] \in {"written", "synced"} => temp[w] = File(edited[w], write[w] = "synced")
    /\ Running(w) /\ write[w] \in {"idle", "renamed"} => temp[w] = NoFile
    /\ Running(w) /\ write[w] = "idle" => tempOnDisk[w] = {FALSE}
    /\ Running(w) => Valid(edited[w].devices) /\ w \in edited[w].by

(* What the path holds now may survive, and every survivor is whole. *)
DiskSound == path.synced /\ path.data \in onDisk /\ Torn \notin onDisk

Placed(w) == result[w] = "ok" \/ write[w] = "renamed"

(* A command still to replace the file has the edits placed so far in what   *)
(* it read, or remembers them as those it is going to overwrite.            *)
EditsTraced ==
  \A w \in Writers : Placed(w) =>
    /\ w \in path.data.by \cup overwritten
    /\ \A v \in Writers : Running(v) /\ write[v] # "renamed" =>
         w \in edited[v].by \cup since[v] \cup overwritten

IInv ==
  TypeOK /\ TempSound /\ DiskSound /\ EditsTraced /\ EditsValid /\ EditsKept /\ NoLitter
=============================================================================
