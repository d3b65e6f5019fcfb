-------------------------- MODULE ConfigEdit_proofs --------------------------
(***************************************************************************)
(* Safety of the configuration commands, for any number of commands and     *)
(* names: IInv is inductive, the properties are conjuncts of it, and the     *)
(* commands' use of fsutil.Write implements AtomicFile.                     *)
(***************************************************************************)
EXTENDS ConfigEdit, TLAPS

(* An edit yields a configuration, and one that was accepted a valid one. *)
LEMMA EditedType ==
  ASSUME NEW devices \in [Names -> Entries], NEW command \in Commands, NEW name \in Names
  PROVE  Edited(devices, command, name) \in [Names -> Entries]
BY DEF Edited, appendDeviceNode, setDeviceDisabledNode, Entries, Commands

(* The initial file is the only one that may be found. *)
LEMMA InitIInv == Init => IInv
<1> SUFFICES ASSUME Init PROVE IInv
  OBVIOUS
<1>1. PICK devices \in [Names -> Entries] :
        path = File([devices |-> devices, by |-> {}], TRUE)
  BY DEF Init
<1>2. path.data = [devices |-> devices, by |-> {}] /\ path.synced /\ path.data.by = {}
  BY <1>1 DEF File
<1>3. path.data \in Config /\ path.data # Torn
  BY <1>2, TornAssumption DEF Config
<1>4. TypeOK
  <2>1. path \in [data : Config \cup {Torn}, synced : BOOLEAN]
    BY <1>1, <1>3 DEF File
  <2>2. Unedited \in Config
    BY DEF Unedited, Config, Entries
  <2> QED
    BY <1>3, <2>1, <2>2 DEF Init, TypeOK, Stages
<1>5. TempSound /\ NoLitter
  BY DEF Init, TempSound, NoLitter, Running
<1>6. DiskSound
  BY <1>2, <1>3 DEF Init, DiskSound
<1>7. EditsTraced /\ EditsKept
  BY DEF Init, EditsTraced, EditsKept, Placed
<1>8. EditsValid
  BY <1>2 DEF Init, EditsValid
<1> QED
  BY <1>4, <1>5, <1>6, <1>7, <1>8 DEF IInv

-----------------------------------------------------------------------------
(* The steps of one command. *)

LEMMA EditStep ==
  ASSUME IInv, NEW w \in Writers, NEW command \in Commands, NEW name \in Names,
         Edit(w, command, name)
  PROVE  IInv'
<1> DEFINE read == path.data
           new == [devices |-> Edited(read.devices, command, name), by |-> read.by \cup {w}]
<1> USE DEF IInv
<1>1. read \in Config
  BY DEF Edit, TypeOK
<1>2. new \in Config
  BY <1>1, EditedType DEF Config
<1>3. Valid(new.devices)
  BY DEF Edit, Accepted
<1>4. edited' = [edited EXCEPT ![w] = new] /\ result' = [result EXCEPT ![w] = "running"]
  BY DEF Edit, Result
<1>5. UNCHANGED <<write, temp, path, onDisk, tempOnDisk, overwritten>> /\ since' = [since EXCEPT ![w] = {}]
  BY DEF Edit, fileState
<1>6. write[w] = "idle" /\ temp[w] = NoFile /\ tempOnDisk[w] = {FALSE} /\ result[w] = "none"
  BY DEF Edit, TempSound, NoLitter, Running
<1>7. TypeOK'
  BY <1>2, <1>4, <1>5 DEF TypeOK
<1>8. TempSound'
  BY <1>2, <1>3, <1>4, <1>5, <1>6 DEF TempSound, TypeOK, Running
<1>9. DiskSound' /\ EditsValid'
  BY <1>5 DEF DiskSound, EditsValid
<1>10. EditsTraced'
  <2> SUFFICES ASSUME NEW x \in Writers, Placed(x)'
               PROVE  /\ x \in path.data.by \cup overwritten
                      /\ \A v \in Writers : Running(v)' /\ write[v] # "renamed" =>
                           x \in edited'[v].by \cup since'[v] \cup overwritten
    BY <1>5 DEF EditsTraced
  <2>1. Placed(x) /\ x # w
    BY <1>4, <1>5, <1>6 DEF Placed, TypeOK
  <2>2. x \in path.data.by \cup overwritten
    BY <2>1 DEF EditsTraced
  <2>3. ASSUME NEW v \in Writers, Running(v)', write[v] # "renamed"
        PROVE  x \in edited'[v].by \cup since'[v] \cup overwritten
    <3>1. CASE v = w
      BY <3>1, <2>2, <1>4 DEF TypeOK
    <3>2. CASE v # w
      BY <3>2, <2>1, <2>3, <1>4, <1>5 DEF EditsTraced, Running, TypeOK
    <3> QED
      BY <3>1, <3>2
  <2> QED
    BY <2>2, <2>3
<1>11. EditsKept'
  BY <1>4, <1>5 DEF EditsKept, TypeOK
<1>12. NoLitter'
  BY <1>4, <1>5, <1>6 DEF NoLitter, Running, TypeOK
<1> QED
  BY <1>7, <1>8, <1>9, <1>10, <1>11, <1>12

LEMMA RefusedStep ==
  ASSUME IInv, NEW w \in Writers, Refused(w)
  PROVE  IInv'
<1> USE DEF IInv
<1>1. result' = [result EXCEPT ![w] = "failed"]
      /\ UNCHANGED <<write, temp, path, onDisk, tempOnDisk, edited, since, overwritten>>
  BY DEF Refused, Result, fileState
<1>2. write[w] = "idle"
  BY DEF Refused, TempSound, Running
<1>3. TypeOK'
  BY <1>1 DEF TypeOK
<1>4. TempSound'
  BY <1>1, <1>2 DEF TempSound, Running, TypeOK
<1>5. DiskSound' /\ EditsValid'
  BY <1>1 DEF DiskSound, EditsValid
<1>6. EditsTraced' /\ EditsKept'
  BY <1>1 DEF EditsTraced, EditsKept, Placed, Running, TypeOK
<1>7. NoLitter'
  BY <1>1 DEF NoLitter, TypeOK
<1> QED
  BY <1>3, <1>4, <1>5, <1>6, <1>7

LEMMA PrepareStep ==
  ASSUME IInv, NEW w \in Writers, Prepare(w)
  PROVE  IInv'
<1> USE DEF IInv
<1>1. UNCHANGED <<path, onDisk, result, edited, since, overwritten>> /\ Running(w)
  BY DEF Prepare, CreateTemp, WriteTemp, SyncTemp
<1>2. PICK file \in [data : Config \cup {Torn}, synced : BOOLEAN],
            s \in {"created", "written", "synced"} :
        /\ temp' = [temp EXCEPT ![w] = file] /\ write' = [write EXCEPT ![w] = s]
        /\ s \in {"written", "synced"} => file = File(edited[w], s = "synced")
        /\ write[w] # "renamed"
  <2>1. CASE CreateTemp(w)
    BY <2>1 DEF CreateTemp, Stage, Link, File
  <2>2. CASE WriteTemp(w, edited[w])
    <3>1. File(edited[w], FALSE) \in [data : Config \cup {Torn}, synced : BOOLEAN]
      BY DEF TypeOK, File
    <3> QED
      BY <2>2, <3>1 DEF WriteTemp, Stage
  <2>3. CASE SyncTemp(w)
    <3>1. temp[w] = File(edited[w], FALSE)
      BY <2>3 DEF SyncTemp, TempSound
    <3>2. File(temp[w].data, TRUE) = File(edited[w], TRUE)
      BY <3>1 DEF File
    <3>3. File(edited[w], TRUE) \in [data : Config \cup {Torn}, synced : BOOLEAN]
      BY DEF TypeOK, File
    <3> QED
      BY <2>3, <3>2, <3>3 DEF SyncTemp, Stage
  <2> QED
    BY <2>1, <2>2, <2>3 DEF Prepare
<1>l. /\ tempOnDisk' \in [Writers -> SUBSET BOOLEAN]
      /\ \A v \in Writers : v # w => tempOnDisk'[v] = tempOnDisk[v]
  <2>1. PICK more \in SUBSET BOOLEAN :
          tempOnDisk' \in {tempOnDisk, [tempOnDisk EXCEPT ![w] = @ \cup more]}
    BY DEF Prepare, CreateTemp, WriteTemp, SyncTemp, Link
  <2> QED
    BY <2>1 DEF TypeOK
<1>3. TypeOK'
  BY <1>1, <1>2, <1>l DEF TypeOK, Stages
<1>4. TempSound'
  BY <1>1, <1>2, <1>l DEF TempSound, Running, TypeOK
<1>5. DiskSound' /\ EditsValid'
  BY <1>1 DEF DiskSound, EditsValid
<1>6. EditsTraced' /\ EditsKept'
  BY <1>1, <1>2 DEF EditsTraced, EditsKept, Placed, Running, TypeOK
<1>7. NoLitter'
  BY <1>1, <1>2, <1>l DEF NoLitter, Running, TypeOK
<1> QED
  BY <1>3, <1>4, <1>5, <1>6, <1>7

LEMMA ReplaceStep ==
  ASSUME IInv, NEW w \in Writers, Replace(w)
  PROVE  IInv'
<1> USE DEF IInv
<1>1. temp[w] = File(edited[w], TRUE) /\ Valid(edited[w].devices) /\ write[w] = "synced"
  BY DEF Replace, Rename, TempSound
<1>2. path' = temp[w] /\ path'.data = edited[w] /\ path'.synced
      /\ onDisk' = onDisk \cup {edited[w]}
  BY <1>1 DEF Replace, Rename, Surviving, File
<1>3. /\ write' = [write EXCEPT ![w] = "renamed"] /\ temp' = [temp EXCEPT ![w] = NoFile]
      /\ tempOnDisk' = [tempOnDisk EXCEPT ![w] = @ \cup {FALSE}]
      /\ since' = [v \in Writers |-> since[v] \cup {w}]
      /\ overwritten' = overwritten \cup since[w]
      /\ UNCHANGED <<result, edited>> /\ Running(w)
  BY DEF Replace, Rename, Stage, Link
<1>4. edited[w] \in Config /\ edited[w] # Torn
  BY TornAssumption DEF TypeOK
<1>5. TypeOK'
  <2>1. path' \in [data : Config \cup {Torn}, synced : BOOLEAN]
    BY <1>1, <1>2, <1>4 DEF File
  <2>2. since[w] \subseteq Writers
    BY DEF TypeOK
  <2> QED
    BY <2>1, <2>2, <1>2, <1>3, <1>4 DEF TypeOK, Stages
<1>6. TempSound' /\ NoLitter'
  BY <1>3 DEF TempSound, NoLitter, Running, TypeOK
<1>7. DiskSound' /\ EditsValid'
  BY <1>1, <1>2, <1>4 DEF DiskSound, EditsValid
<1>8. w \in edited[w].by
  BY DEF Replace, TempSound
<1>9. EditsTraced'
  <2> SUFFICES ASSUME NEW x \in Writers, Placed(x)'
               PROVE  /\ x \in edited[w].by \cup overwritten'
                      /\ \A v \in Writers : Running(v) /\ write'[v] # "renamed" =>
                           x \in edited[v].by \cup since'[v] \cup overwritten'
    BY <1>2, <1>3 DEF EditsTraced, Running
  <2>1. CASE x = w
    BY <2>1, <1>3, <1>8
  <2>2. CASE x # w
    <3>1. Placed(x)
      BY <2>2, <1>3 DEF Placed, TypeOK
    <3> QED
      BY <3>1, <1>1, <1>3 DEF EditsTraced, TypeOK
  <2> QED
    BY <2>1, <2>2
<1>10. EditsKept'
  <2> SUFFICES ASSUME NEW x \in Writers, result[x] = "ok", NEW config \in onDisk' \cup {path'.data}
               PROVE  x \in config.by \cup overwritten'
    BY <1>3 DEF EditsKept
  <2>1. CASE config \in onDisk
    BY <2>1, <1>3 DEF EditsKept
  <2>2. CASE config = edited[w]
    BY <2>2, <1>1, <1>3 DEF EditsTraced, Placed
  <2> QED
    BY <2>1, <2>2, <1>2
<1> QED
  BY <1>5, <1>6, <1>7, <1>9, <1>10

LEMMA FinishStep ==
  ASSUME IInv, NEW w \in Writers, Finish(w)
  PROVE  IInv'
<1> USE DEF IInv
<1>1. PICK res \in {"ok", "failed"} : result' = [result EXCEPT ![w] = res]
  BY DEF Finish, Result
<1>2. /\ write' = [write EXCEPT ![w] = "idle"] /\ write[w] = "renamed" /\ Running(w)
      /\ onDisk' = {path.data}
      /\ tempOnDisk' = [v \in Writers |-> {temp[v] # NoFile}]
      /\ UNCHANGED <<temp, path, edited, since, overwritten>>
  BY DEF Finish, SyncDir, Stage, Surviving, DiskSound
<1>3. TypeOK'
  BY <1>1, <1>2 DEF TypeOK, Stages
<1>4. TempSound' /\ NoLitter'
  <2>1. temp[w] = NoFile
    BY <1>2 DEF TempSound
  <2> QED
    BY <1>1, <1>2, <2>1 DEF TempSound, NoLitter, Running, TypeOK
<1>5. DiskSound' /\ EditsValid'
  BY <1>2 DEF DiskSound, EditsValid
<1>6. \A x \in Writers : Placed(x)' => Placed(x)
  BY <1>1, <1>2 DEF Placed, TypeOK
<1>7. EditsTraced'
  BY <1>1, <1>2, <1>6 DEF EditsTraced, Running, TypeOK
<1>8. EditsKept'
  BY <1>2, <1>6 DEF EditsKept, EditsTraced, Placed
<1> QED
  BY <1>3, <1>4, <1>5, <1>7, <1>8

(* A command that ends without success: its Write failed, or it was killed.  *)
(* Its temporary file may be left, or come back.                            *)
LEMMA EndStep ==
  ASSUME IInv, NEW w \in Writers, Fail(w) \/ Kill(w)
  PROVE  IInv'
<1> USE DEF IInv
<1>1. result' = [result EXCEPT ![w] = "failed"]
  BY DEF Fail, Kill, Result
<1>2. /\ write' = [write EXCEPT ![w] = "idle"] /\ Running(w)
      /\ UNCHANGED <<path, onDisk, edited, since, overwritten>>
      /\ temp' \in {temp, [temp EXCEPT ![w] = NoFile]}
      /\ tempOnDisk' \in {tempOnDisk, [tempOnDisk EXCEPT ![w] = @ \cup {FALSE}]}
  BY DEF Fail, Kill, WriteFails, Killed, Stage, Link
<1>3. TypeOK'
  <2>1. temp' \in [Writers -> [data : Config \cup {Torn}, synced : BOOLEAN] \cup {NoFile}]
    BY <1>2 DEF TypeOK
  <2>2. tempOnDisk \in [Writers -> SUBSET BOOLEAN]
    BY DEF TypeOK
  <2>3. tempOnDisk' \in [Writers -> SUBSET BOOLEAN]
    BY <1>2, <2>2
  <2> QED
    BY <1>1, <1>2, <2>1, <2>3 DEF TypeOK, Stages
<1>4. TempSound'
  BY <1>1, <1>2 DEF TempSound, Running, TypeOK
<1>5. DiskSound' /\ EditsValid'
  BY <1>2 DEF DiskSound, EditsValid
<1>6. EditsTraced' /\ EditsKept'
  BY <1>1, <1>2 DEF EditsTraced, EditsKept, Placed, Running, TypeOK
<1>7. NoLitter'
  BY <1>1, <1>2 DEF NoLitter, Running, TypeOK
<1> QED
  BY <1>3, <1>4, <1>5, <1>6, <1>7

(* The machine loses power. *)
LEMMA PowerStep ==
  ASSUME IInv, PowerFailure
  PROVE  IInv'
<1> USE DEF IInv
<1>1. PICK data \in onDisk : path' = File(data, TRUE) /\ onDisk' = {data}
  BY DEF PowerFailure, PowerFails
<1>2. /\ write' = [w \in Writers |-> "idle"]
      /\ result' = [w \in Writers |-> IF Running(w) THEN "failed" ELSE result[w]]
      /\ UNCHANGED <<edited, since, overwritten>>
  BY DEF PowerFailure, PowerFails
<1>l. PICK left \in [Writers -> BOOLEAN] :
        /\ \A w \in Writers : left[w] \in tempOnDisk[w]
        /\ temp' = [w \in Writers |-> IF left[w] THEN File(Torn, TRUE) ELSE NoFile]
        /\ tempOnDisk' = [w \in Writers |-> {left[w]}]
  BY DEF PowerFailure, PowerFails
<1>3. path'.data = data /\ path'.synced /\ data # Torn
  BY <1>1 DEF File, DiskSound
<1>4. TypeOK'
  <2>1. path' \in [data : Config \cup {Torn}, synced : BOOLEAN]
    BY <1>1 DEF TypeOK, File
  <2> QED
    BY <2>1, <1>1, <1>2, <1>l DEF TypeOK, Stages, File
<1>5. TempSound' /\ NoLitter'
  <2>1. ASSUME NEW w \in Writers, result'[w] \in {"none", "ok"}
        PROVE  temp'[w] = NoFile /\ tempOnDisk'[w] = {FALSE}
    BY <1>2, <1>l, <2>1 DEF NoLitter, Running
  <2> QED
    BY <1>2, <2>1 DEF TempSound, NoLitter, Running
<1>6. DiskSound' /\ EditsValid'
  BY <1>1, <1>3 DEF DiskSound, EditsValid
<1>7. \A x \in Writers : result'[x] = "ok" => result[x] = "ok"
  BY <1>2 DEF Running
<1>8. EditsTraced' /\ EditsKept'
  BY <1>1, <1>2, <1>3, <1>7 DEF EditsTraced, EditsKept, Placed, Running
<1> QED
  BY <1>4, <1>5, <1>6, <1>8

LEMMA NextIInv == IInv /\ [Next]_vars => IInv'
<1> SUFFICES ASSUME IInv, [Next]_vars PROVE IInv'
  OBVIOUS
<1>1. CASE UNCHANGED vars
  BY <1>1 DEF vars, fileState, IInv, TypeOK, TempSound, DiskSound, EditsTraced, EditsValid,
              EditsKept, NoLitter, Placed, Running
<1>2. CASE Next
  BY <1>2, EditStep, RefusedStep, PrepareStep, ReplaceStep, FinishStep, EndStep, PowerStep DEF Next
<1> QED
  BY <1>1, <1>2

(* What the commands keep true at every moment (ConfigEdit!IInv). *)
THEOREM Invariant == Spec => []IInv
BY InitIInv, NextIInv, PTL DEF Spec

(* The file is whole now and after a power failure at any moment, as the     *)
(* comment on fsutil.Write says.                                            *)
THEOREM WholeFile == Spec => []OldOrNew
<1>1. IInv => OldOrNew
  BY DEF IInv, DiskSound, OldOrNew
<1> QED
  BY <1>1, Invariant, PTL

(* No command leaves a configuration the server would refuse. *)
THEOREM ValidFile == Spec => []EditsValid
<1>1. IInv => EditsValid
  BY DEF IInv
<1> QED
  BY <1>1, Invariant, PTL

(* A reported edit is lost only to a command that overlapped with it. *)
THEOREM Kept == Spec => []EditsKept
<1>1. IInv => EditsKept
  BY DEF IInv
<1> QED
  BY <1>1, Invariant, PTL

(* A command that reported success leaves no temporary file, and no power    *)
(* failure brings one back.                                                 *)
THEOREM Clean == Spec => []NoLitter
<1>1. IInv => NoLitter
  BY DEF IInv
<1> QED
  BY <1>1, Invariant, PTL

-----------------------------------------------------------------------------
(* The refinement: one step of AtomicFile, or none, for every step of a      *)
(* command.                                                                 *)

StageMap == [w \in Writers |-> Progress(w)]

(* A step that moves one command, from one stage to another.                *)
LEMMA ProgressMoves ==
  ASSUME NEW w \in Writers,
         \A v \in Writers \ {w} : result'[v] = result[v] /\ write'[v] = write[v]
  PROVE  StageMap' = [StageMap EXCEPT ![w] = Progress(w)']
BY DEF StageMap, Progress, Running

(* What Edit prepares is offered. *)
LEMMA EditRefines ==
  ASSUME IInv, NEW w \in Writers, NEW command \in Commands, NEW name \in Names,
         Edit(w, command, name)
  PROVE  Atomic!Begin(w)
<1> DEFINE read == path.data
           new == [devices |-> Edited(read.devices, command, name), by |-> read.by \cup {w}]
<1>1. /\ result \in [Writers -> {"none", "running", "ok", "failed"}]
      /\ edited \in [Writers -> Config] /\ read \in Config
  BY DEF Edit, IInv, TypeOK
<1>2. /\ result[w] = "none" /\ result' = [result EXCEPT ![w] = "running"]
      /\ edited' = [edited EXCEPT ![w] = new]
      /\ UNCHANGED <<write, temp, path, onDisk>>
  BY DEF Edit, Result, fileState
<1>3. write[w] = "idle"
  BY <1>2 DEF IInv, TempSound, Running
<1>4. Progress(w) = "none" /\ Progress(w)' = "offered"
  BY <1>1, <1>2, <1>3 DEF Progress, Running
<1>5. StageMap' = [StageMap EXCEPT ![w] = "offered"]
  BY <1>1, <1>2, <1>4, ProgressMoves
<1>6. new \in Config
  BY <1>1, EditedType DEF Config
<1>7. edited' \in [Writers -> Config] /\ \A u \in Writers \ {w} : edited'[u] = edited[u]
  BY <1>1, <1>2, <1>6
<1> QED
  BY <1>2, <1>4, <1>5, <1>7 DEF Atomic!Begin, StageMap

(* CreateTemp, the write and the sync of a temporary file change nothing     *)
(* that a reader can find.                                                  *)
LEMMA PrepareRefines ==
  ASSUME IInv, NEW w \in Writers, Prepare(w)
  PROVE  UNCHANGED <<path, onDisk, edited, StageMap>>
<1>1. /\ write \in [Writers -> Stages]
      /\ result[w] = "running" /\ UNCHANGED <<path, onDisk, edited, result>>
  BY DEF Prepare, Running, CreateTemp, WriteTemp, SyncTemp, IInv, TypeOK
<1>2. PICK s \in {"created", "written", "synced"} : write' = [write EXCEPT ![w] = s]
  BY DEF Prepare, CreateTemp, WriteTemp, SyncTemp, Stage
<1>3. write[w] # "renamed" /\ write'[w] # "renamed"
  BY <1>1, <1>2 DEF Prepare, CreateTemp, WriteTemp, SyncTemp
<1>4. \A v \in Writers : Progress(v)' = Progress(v)
  BY <1>1, <1>2, <1>3 DEF Progress, Running
<1> QED
  BY <1>1, <1>4 DEF StageMap

(* The rename replaces the file by what was offered, which had been synced. *)
LEMMA ReplaceRefines ==
  ASSUME IInv, NEW w \in Writers, Replace(w)
  PROVE  Atomic!Replace(w)
<1>1. /\ write \in [Writers -> Stages]
      /\ result[w] = "running" /\ UNCHANGED <<edited, result>>
      /\ write[w] = "synced" /\ write' = [write EXCEPT ![w] = "renamed"]
      /\ path' = temp[w] /\ onDisk' = onDisk \cup {Surviving(temp[w])}
  BY DEF Replace, Running, Rename, Stage, IInv, TypeOK
<1>2. temp[w] = File(edited[w], TRUE)
  BY <1>1 DEF IInv, TempSound
<1>3. path'.data = edited[w] /\ Surviving(temp[w]) = edited[w]
  BY <1>1, <1>2 DEF File, Surviving
<1>4. Progress(w) = "offered" /\ Progress(w)' = "replaced"
  BY <1>1 DEF Progress, Running
<1>5. StageMap' = [StageMap EXCEPT ![w] = "replaced"]
  BY <1>1, <1>4, ProgressMoves
<1> QED
  BY <1>1, <1>3, <1>4, <1>5 DEF Atomic!Replace, StageMap

(* What ends a command without its success.  The directory may have been     *)
(* synced all the same.                                                     *)
LEMMA GiveUpRefines ==
  ASSUME IInv, NEW w \in Writers, Result(w, "failed"),
         result[w] \in {"none", "running"}, UNCHANGED edited,
         path'.data = path.data, onDisk' \in {onDisk, {path.data}},
         \A v \in Writers \ {w} : write'[v] = write[v]
  PROVE  Atomic!GiveUp(w)
<1>1. /\ result \in [Writers -> {"none", "running", "ok", "failed"}]
      /\ result' = [result EXCEPT ![w] = "failed"]
  BY DEF Result, IInv, TypeOK
<1>2. Progress(w) \in {"none", "offered", "replaced"} /\ Progress(w)' = "gone"
  BY <1>1 DEF Progress, Running
<1>3. StageMap' = [StageMap EXCEPT ![w] = "gone"]
  BY <1>1, <1>2, ProgressMoves
<1> QED
  BY <1>2, <1>3 DEF Atomic!GiveUp, StageMap

(* The answer comes after the directory was synced, so what was replaced     *)
(* lasts.                                                                   *)
LEMMA FinishRefines ==
  ASSUME IInv, NEW w \in Writers, Finish(w)
  PROVE  Atomic!Report(w) \/ Atomic!GiveUp(w)
<1>1. /\ result \in [Writers -> {"none", "running", "ok", "failed"}]
      /\ write \in [Writers -> Stages]
      /\ result[w] = "running" /\ write[w] = "renamed"
      /\ write' = [write EXCEPT ![w] = "idle"]
      /\ onDisk' = {Surviving(path)} /\ UNCHANGED <<path, edited>>
  BY DEF Finish, Running, SyncDir, Stage, IInv, TypeOK
<1>2. Surviving(path) = path.data
  BY DEF Surviving, IInv, DiskSound
<1>3. CASE Result(w, "ok")
  <2>1. result' = [result EXCEPT ![w] = "ok"]
    BY <1>3 DEF Result
  <2>2. Progress(w) = "replaced" /\ Progress(w)' = "reported"
    BY <1>1, <2>1 DEF Progress, Running
  <2>3. StageMap' = [StageMap EXCEPT ![w] = "reported"]
    BY <1>1, <2>1, <2>2, ProgressMoves
  <2> QED
    BY <1>1, <1>2, <2>2, <2>3 DEF Atomic!Report, StageMap
<1>4. CASE Result(w, "failed")
  <2>1. path'.data = path.data /\ onDisk' \in {onDisk, {path.data}}
    BY <1>1, <1>2
  <2>2. \A v \in Writers \ {w} : write'[v] = write[v]
    BY <1>1
  <2> QED
    BY <1>1, <1>4, <2>1, <2>2, GiveUpRefines
<1> QED
  BY <1>3, <1>4 DEF Finish

LEMMA PowerRefines ==
  ASSUME IInv, PowerFailure
  PROVE  Atomic!PowerFails
<1>1. PICK data \in onDisk : path' = File(data, TRUE) /\ onDisk' = {data}
  BY DEF PowerFailure, PowerFails
<1>2. path'.data = data
  BY <1>1 DEF File
<1>3. /\ write' = [w \in Writers |-> "idle"]
      /\ result' = [w \in Writers |-> IF Running(w) THEN "failed" ELSE result[w]]
      /\ UNCHANGED edited
  BY DEF PowerFailure, PowerFails
<1>4. ASSUME NEW w \in Writers
      PROVE  Progress(w)' = IF Progress(w) \in {"offered", "replaced"} THEN "gone" ELSE Progress(w)
  <2>1. result[w] \in {"none", "running", "ok", "failed"}
    BY DEF IInv, TypeOK
  <2> QED
    BY <1>3, <2>1 DEF Progress, Running
<1>5. StageMap' = [w \in Writers |->
                     IF StageMap[w] \in {"offered", "replaced"} THEN "gone" ELSE StageMap[w]]
  BY <1>4 DEF StageMap
<1> QED
  BY <1>1, <1>2, <1>3, <1>5 DEF Atomic!PowerFails, StageMap

LEMMA NextRefines ==
  ASSUME IInv, [Next]_vars
  PROVE  [Atomic!Next]_Atomic!fileVars
<1>1. UNCHANGED <<path, onDisk, edited, StageMap>> => UNCHANGED Atomic!fileVars
  BY DEF Atomic!fileVars, StageMap
<1>2. ASSUME NEW w \in Writers, NEW command \in Commands, NEW name \in Names,
             Edit(w, command, name)
      PROVE  Atomic!Next
  BY <1>2, EditRefines DEF Atomic!Next
<1>3. ASSUME NEW w \in Writers, Refused(w) PROVE Atomic!Next
  <2>1. /\ result[w] \in {"none", "running"} /\ Result(w, "failed")
        /\ UNCHANGED <<write, temp, path, onDisk, edited>>
    BY <1>3 DEF Refused, fileState
  <2>2. Atomic!GiveUp(w)
    BY <2>1, GiveUpRefines
  <2> QED
    BY <2>2 DEF Atomic!Next
<1>4. ASSUME NEW w \in Writers, Prepare(w) PROVE UNCHANGED Atomic!fileVars
  BY <1>1, <1>4, PrepareRefines
<1>5. ASSUME NEW w \in Writers, Replace(w) \/ Finish(w) PROVE Atomic!Next
  BY <1>5, ReplaceRefines, FinishRefines DEF Atomic!Next
<1>6. ASSUME NEW w \in Writers, Fail(w) \/ Kill(w) PROVE Atomic!Next
  <2>1. Result(w, "failed")
    BY <1>6 DEF Fail, Kill
  <2>2. result[w] = "running" /\ UNCHANGED <<path, onDisk, edited>>
    BY <1>6 DEF Fail, Kill, Running, WriteFails, Killed
  <2>3. \A v \in Writers \ {w} : write'[v] = write[v]
    BY <1>6 DEF Fail, Kill, WriteFails, Killed, Stage, IInv, TypeOK
  <2>4. Atomic!GiveUp(w)
    BY <2>1, <2>2, <2>3, GiveUpRefines
  <2> QED
    BY <2>4 DEF Atomic!Next
<1>7. CASE PowerFailure
  BY <1>7, PowerRefines DEF Atomic!Next
<1>8. CASE UNCHANGED vars
  BY <1>1, <1>8 DEF vars, fileState, StageMap, Progress, Running
<1> QED
  BY <1>2, <1>3, <1>4, <1>5, <1>6, <1>7, <1>8 DEF Next

(* Write keeps its promise for any number of commands, whatever fails and    *)
(* whenever the power does: the file is replaced atomically, only by what a  *)
(* running command prepared, and a reported replacement is durable.          *)
THEOREM WriteAtomic == Spec => ImplementsAtomicFile
<1>1. Init => Atomic!Init
  <2> SUFFICES ASSUME Init PROVE Atomic!Init
    OBVIOUS
  <2>1. path.data \in Config
    <3>1. PICK devices \in [Names -> Entries] :
            path = File([devices |-> devices, by |-> {}], TRUE)
      BY DEF Init
    <3> QED
      BY <3>1 DEF File, Config
  <2>2. edited \in [Writers -> Config]
    BY DEF Init, Unedited, Config, Entries
  <2>3. \A w \in Writers : Progress(w) = "none"
    <3>1. \A w \in Writers : result[w] = "none"
      BY DEF Init
    <3> QED
      BY <3>1 DEF Progress, Running
  <2> QED
    BY <2>1, <2>2, <2>3 DEF Init, Atomic!Init
<1>2. IInv /\ [Next]_vars => [Atomic!Next]_Atomic!fileVars
  BY NextRefines
<1> QED
  BY <1>1, <1>2, Invariant, PTL DEF Spec, ImplementsAtomicFile, Atomic!Spec
=============================================================================
