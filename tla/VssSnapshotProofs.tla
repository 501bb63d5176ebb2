--------------------------- MODULE VssSnapshotProofs --------------------------
(***************************************************************************)
(* What a VssSnapshot promises, for any volumes, any number of backup      *)
(* commands and whatever calls fail: the types, what a backup reads, and   *)
(* that snapshots and components are not left behind.                      *)
(***************************************************************************)
EXTENDS VssSnapshot, TLAPS

\* The calls of each stage, and how many they are.
LEMMA CallLists ==
    /\ Listed = {"begin", "do_snapshot", "abandon", "destroy"}
    /\ Stages = {"begin", "do_snapshot", "abandon", "destroy", "push_target",
                 "populate_properties", "perform_backup_inner", "generate_archive"}
    /\ Len(Calls["begin"]) = 6 /\ Len(Calls["do_snapshot"]) = 5
    /\ Len(UninitCalls) = 4 /\ Calls["abandon"] = UninitCalls /\ Calls["destroy"] = UninitCalls
BY DEF Listed, Stages, Calls, UninitCalls

LEMMA BeginCall ==
    ASSUME NEW i \in 1 .. 6
    PROVE  /\ Calls["begin"][i] \in {"CreateVssBackupComponents", "InitializeForBackup",
                "GatherWriterMetadata", "FreeWriterMetadata", "SetContext", "StartSnapshotSet"}
           /\ Calls["begin"][i] = "CreateVssBackupComponents" <=> i = 1
           /\ Calls["begin"][1] \notin Asynchronous
<1>1. i = 1 \/ i = 2 \/ i = 3 \/ i = 4 \/ i = 5 \/ i = 6
    OBVIOUS
<1> QED BY <1>1 DEF Calls, Asynchronous

LEMMA DoSnapshotCall ==
    ASSUME NEW i \in 1 .. 5
    PROVE  /\ Calls["do_snapshot"][i] \in {"SetBackupState", "PrepareForBackup",
                "GatherWriterStatus", "FreeWriterStatus", "DoSnapshotSet"}
           /\ Calls["do_snapshot"][i] = "DoSnapshotSet" <=> i = 5
<1>1. i = 1 \/ i = 2 \/ i = 3 \/ i = 4 \/ i = 5
    OBVIOUS
<1> QED BY <1>1 DEF Calls

LEMMA UninitCall ==
    ASSUME NEW i \in 1 .. 4
    PROVE  /\ UninitCalls[i] \in {"GatherWriterStatus", "FreeWriterStatus", "BackupComplete",
                "DeleteSnapshots"}
           /\ UninitCalls[i] = "DeleteSnapshots" <=> i = 4
<1>1. i = 1 \/ i = 2 \/ i = 3 \/ i = 4
    OBVIOUS
<1> QED BY <1>1 DEF UninitCalls
-----------------------------------------------------------------------------
\* The invariant.

Ended(a) == a < attempt \/ (a = attempt /\ stage = "idle")
LeftBehind(a) ==
    \E e \in errors[a] : e[1] \in Uninitializing \/ e[2] \in {"process", "DoSnapshotSet"}
Threw(a) == \E e \in errors[a] : e[1] \in Constructing /\ e[2] # "process"

\* The state of the object goes with the stage.
StageState ==
    /\ stage = "idle" => state = "none"
    /\ stage # "idle" => attempt \in Attempts
    /\ stage \in {"begin", "do_snapshot"} => state = "Invalid"
    /\ stage = "push_target" => state = "PushingTargets"
    /\ stage \in {"populate_properties", "abandon", "destroy"} => state = "SnapshotPerformed"
    /\ stage \in {"perform_backup_inner", "generate_archive"} => state \in {"none", "SnapshotPerformed"}
    /\ stage \in {"begin", "push_target", "do_snapshot", "populate_properties",
                  "perform_backup_inner"} => base_objects_set < attempt

\* Nothing has happened in later attempts.
Untouched ==
    \A a \in Attempts : a > attempt =>
        component[a] = "none" /\ snapshot_set[a] = "none" /\ errors[a] = {}

\* The component is held from its creation to its release, unless a call threw.
Holding ==
    /\ stage # "idle" /\ state # "none" /\ ~(stage = "begin" /\ step = 1)
        => component[attempt] = "held"
    /\ stage \in {"perform_backup_inner", "generate_archive"} /\ state = "none"
        => component[attempt] = "none"
    /\ \A a \in Attempts : Ended(a) /\ component[a] = "held" => Threw(a)

\* A snapshot set is performed at the end of do_snapshot, and deleted by the
\* last call of uninit.
Deleting ==
    /\ stage \in {"begin", "push_target", "do_snapshot"} => snapshot_set[attempt] # "performed"
    /\ stage \in {"perform_backup_inner", "generate_archive"} /\ state = "none"
        => snapshot_set[attempt] # "performed"
    /\ Releasing /\ snapshot_set[attempt] = "performed" => LeftBehind(attempt)
    /\ \A a \in Attempts : Ended(a) /\ snapshot_set[a] = "performed" => LeftBehind(a)

\* Each volume is on its way to a shadow, or refused; its properties say that
\* the set is there.
VolumesTaken ==
    /\ stage = "push_target" =>
        /\ shadows \cup pending \cup failed_volumes = current_volumes
        /\ pending \cap (shadows \cup failed_volumes) = {}
    /\ stage = "begin" => shadows = {} /\ failed_volumes = {}
    /\ stage \in {"push_target", "do_snapshot", "populate_properties"} =>
        shadows \cap failed_volumes = {}
    /\ stage \in {"do_snapshot", "populate_properties"} =>
        shadows \cup failed_volumes = current_volumes
    /\ stage \in {"begin", "push_target", "do_snapshot"} => populated = {}
    /\ stage = "populate_properties" =>
        /\ populated \cup pending = shadows
        /\ populated # {} => snapshot_set[attempt] = "performed"

\* After set_path_mapper each volume is mapped to its shadow.
MapsToItsShadows ==
    stage = "perform_backup_inner" /\ state # "none" =>
        /\ shadows = current_volumes \ failed_volumes
        /\ shadows # {} => snapshot_set[attempt] = "performed"
        /\ path_mapper = [v \in Volumes |-> IF v \in shadows THEN attempt ELSE Live]

Inv ==
    /\ TypeOK /\ StageState /\ Untouched
    /\ Holding /\ Deleting /\ VolumesTaken
    /\ MapsToItsShadows /\ ReadsFromItsShadows
-----------------------------------------------------------------------------
\* Every step keeps it.

\* An error is noted, in the stage that met it.
LEMMA ErrorNoted ==
    ASSUME Inv, attempt \in Attempts, attempt' = attempt, NEW call, Error(call)
    PROVE  /\ \A a \in Attempts \ {attempt} : errors'[a] = errors[a]
           /\ \A a \in Attempts : Threw(a) => Threw(a)'
           /\ \A a \in Attempts : LeftBehind(a) => LeftBehind(a)'
           /\ stage \in Constructing /\ call # "process" => Threw(attempt)'
           /\ stage \in Uninitializing \/ call \in {"process", "DoSnapshotSet"} =>
                LeftBehind(attempt)'
<1>1. /\ <<stage, call>> \in errors'[attempt]
      /\ \A a \in Attempts : errors[a] \subseteq errors'[a]
      /\ \A a \in Attempts \ {attempt} : errors'[a] = errors[a]
    BY DEF Error, Inv, TypeOK
<1>2. \E e \in errors'[attempt] : e[1] = stage /\ e[2] = call
  <2>1. <<stage, call>>[1] = stage /\ <<stage, call>>[2] = call
    OBVIOUS
  <2> QED BY <1>1, <2>1
<1>3. \A a \in Attempts : (Threw(a) => Threw(a)') /\ (LeftBehind(a) => LeftBehind(a)')
    BY <1>1 DEF Threw, LeftBehind
<1>4. stage \in Constructing /\ call # "process" => Threw(attempt)'
    BY <1>2 DEF Threw
<1>5. stage \in Uninitializing \/ call \in {"process", "DoSnapshotSet"} => LeftBehind(attempt)'
    BY <1>2 DEF LeftBehind
<1> QED BY <1>1, <1>3, <1>4, <1>5

\* A command begins.
LEMMA BeginStep ==
    ASSUME Inv, NEW present \in SUBSET Volumes, NEW use_snapshots \in BOOLEAN,
           perform_backup(present, use_snapshots)
    PROVE  Inv'
<1>1. TypeOK'
  <2>1. /\ attempt' \in 0 .. MaxAttempts /\ path_mapper' \in [Volumes -> 0 .. attempt']
        /\ base_objects_set' \in 0 .. attempt' /\ base_objects' \in [Volumes -> 0 .. attempt']
    BY CallLists, VssAssumption DEF Inv, TypeOK, StageState, Attempts, Live, perform_backup, listed, service
  <2>2. /\ stage' \in Stages \cup {"idle"}
        /\ step' \in 1 .. (IF stage' \in Listed THEN Len(Calls[stage']) + 1 ELSE 7)
        /\ stage' \in {"begin", "do_snapshot"} => Calling'
    <3>1. step' = 1 /\ (stage' = "begin" \/ stage' = "perform_backup_inner")
      BY DEF perform_backup
    <3>2. CASE stage' = "begin"
      <4>1. Len(Calls[stage']) = 6 /\ stage' \in Listed
        BY <3>2, CallLists
      <4>2. Calling'
        BY <3>1, <4>1 DEF Calling
      <4> QED BY <3>1, <3>2, <4>1, <4>2, CallLists
    <3>3. CASE stage' = "perform_backup_inner"
      <4>1. stage' \notin Listed
        BY <3>3, CallLists
      <4> QED BY <3>1, <3>3, <4>1, CallLists
    <3> QED BY <3>1, <3>2, <3>3
  <2>3. /\ pending' \subseteq Volumes /\ current_volumes' \subseteq Volumes /\ opened' \in BOOLEAN
        /\ state' \in {"none", "Invalid", "PushingTargets", "SnapshotPerformed"}
        /\ shadows' \subseteq Volumes /\ populated' \subseteq shadows' /\ failed_volumes' \subseteq Volumes
    BY DEF Inv, TypeOK, StageState, VolumesTaken, perform_backup, listed, service
  <2>4. /\ component' \in [Attempts -> {"none", "held", "released"}]
        /\ snapshot_set' \in [Attempts -> {"none", "started", "performed", "deleted"}]
        /\ errors' \in [Attempts -> SUBSET (Stages \X Called)]
    BY DEF Inv, TypeOK, StageState, Called, perform_backup, listed, service
  <2> QED BY <2>1, <2>2, <2>3, <2>4 DEF TypeOK
<1>2. StageState'
    BY CallLists, VssAssumption DEF Inv, TypeOK, StageState, Attempts, perform_backup, listed, service
<1>3. Untouched'
    BY CallLists, VssAssumption DEF Inv, TypeOK, Untouched, Attempts, perform_backup, listed, service
<1>4. Holding'
    BY CallLists, VssAssumption DEF Inv, TypeOK, Holding, Threw, Constructing, Ended, Attempts, StageState, Untouched, perform_backup, listed, service
<1>5. Deleting'
    BY CallLists, VssAssumption DEF Inv, TypeOK, Deleting, Ended, Attempts, StageState, Untouched, Releasing, LeftBehind, Uninitializing, perform_backup, listed, service
<1>6. VolumesTaken'
    BY CallLists, VssAssumption DEF Inv, TypeOK, VolumesTaken, StageState, perform_backup, listed, service
<1>7. MapsToItsShadows' /\ ReadsFromItsShadows'
    BY CallLists, VssAssumption DEF Inv, TypeOK, MapsToItsShadows, ReadsFromItsShadows, VolumesTaken, StageState, perform_backup, listed, service
<1> QED BY <1>1, <1>2, <1>3, <1>4, <1>5, <1>6, <1>7 DEF Inv

\* A volume is taken, or refused, or ends the command.
LEMMA PushStep ==
    ASSUME Inv, NEW v \in Volumes, push_target(v)
    PROVE  Inv'
<1>1. TypeOK'
    BY CallLists, VssAssumption DEF Inv, TypeOK, StageState, Attempts, Called, Calling, push_target, listed, Throw, Error, service
<1>2. StageState'
    BY CallLists, VssAssumption DEF Inv, TypeOK, StageState, Attempts, push_target, listed, Throw, Error, service
<1>3. Untouched'
    BY CallLists, VssAssumption DEF Inv, TypeOK, Untouched, Attempts, push_target, listed, Throw, Error, service
<1>4. Holding'
  <2>1. attempt \in Attempts /\ stage = "push_target" /\ state = "PushingTargets"
    BY DEF push_target, listed, Inv, StageState
  <2>2. CASE UNCHANGED <<attempt, stage, step, state, component, snapshot_set, errors>>
    BY <2>2 DEF Inv, Holding, Threw, Constructing, Ended
  <2>3. CASE Error("AddToSnapshotSet") /\ Throw /\ UNCHANGED service
    <3>1. /\ attempt' = attempt /\ stage' = "idle" /\ state' = "none"
          /\ UNCHANGED <<component, snapshot_set>>
      BY <2>3 DEF Throw, service
    <3>2. Threw(attempt)' /\ \A a \in Attempts : Threw(a) => Threw(a)'
      BY <2>1, <2>3, <3>1, ErrorNoted DEF Constructing
    <3>3. \A a \in Attempts : Ended(a)' => a = attempt \/ Ended(a)
      BY <3>1 DEF Ended
    <3> QED BY <2>1, <3>1, <3>2, <3>3 DEF Inv, Holding
  <2> QED BY <2>2, <2>3 DEF push_target, listed, service
<1>5. Deleting'
    BY CallLists, VssAssumption DEF Inv, TypeOK, Deleting, Ended, Attempts, StageState, Untouched, Releasing, LeftBehind, Uninitializing, push_target, listed, Throw, Error, service
<1>6. VolumesTaken'
    BY CallLists, VssAssumption DEF Inv, TypeOK, VolumesTaken, StageState, push_target, listed, Throw, Error, service
<1>7. MapsToItsShadows' /\ ReadsFromItsShadows'
    BY CallLists, VssAssumption DEF Inv, TypeOK, MapsToItsShadows, ReadsFromItsShadows, VolumesTaken, StageState, push_target, listed, Throw, Error, service
<1> QED BY <1>1, <1>2, <1>3, <1>4, <1>5, <1>6, <1>7 DEF Inv

\* The targets are there.
LEMMA DoSnapshotStep ==
    ASSUME Inv, do_snapshot
    PROVE  Inv'
<1>1. TypeOK'
    BY CallLists, VssAssumption DEF Inv, TypeOK, StageState, Attempts, Called, Calling, do_snapshot, Enter, backup_system, listed, service
<1>2. StageState'
    BY CallLists, VssAssumption DEF Inv, TypeOK, StageState, Attempts, do_snapshot, Enter, backup_system, listed, service
<1>3. Untouched'
    BY CallLists, VssAssumption DEF Inv, TypeOK, Untouched, Attempts, do_snapshot, Enter, backup_system, listed, service
<1>4. Holding'
    BY CallLists, VssAssumption DEF Inv, TypeOK, Holding, Threw, Constructing, Ended, Attempts, StageState, Untouched, do_snapshot, Enter, backup_system, listed, service
<1>5. Deleting'
    BY CallLists, VssAssumption DEF Inv, TypeOK, Deleting, Ended, Attempts, StageState, Untouched, Releasing, LeftBehind, Uninitializing, do_snapshot, Enter, backup_system, listed, service
<1>6. VolumesTaken'
    BY CallLists, VssAssumption DEF Inv, TypeOK, VolumesTaken, StageState, do_snapshot, Enter, backup_system, listed, service
<1>7. MapsToItsShadows' /\ ReadsFromItsShadows'
    BY CallLists, VssAssumption DEF Inv, TypeOK, MapsToItsShadows, ReadsFromItsShadows, VolumesTaken, StageState, do_snapshot, Enter, backup_system, listed, service
<1> QED BY <1>1, <1>2, <1>3, <1>4, <1>5, <1>6, <1>7 DEF Inv

\* The properties of a shadow, or uninit.
LEMMA PopulateStep ==
    ASSUME Inv, NEW v \in Volumes, populate_properties(v)
    PROVE  Inv'
<1>1. TypeOK'
  <2>1. /\ attempt' \in 0 .. MaxAttempts /\ path_mapper' \in [Volumes -> 0 .. attempt']
        /\ base_objects_set' \in 0 .. attempt' /\ base_objects' \in [Volumes -> 0 .. attempt']
    BY CallLists, VssAssumption DEF Inv, TypeOK, StageState, Attempts, Live, populate_properties, Uninit, Error, backup_system, listed, service
  <2>2. /\ stage' \in Stages \cup {"idle"}
        /\ step' \in 1 .. (IF stage' \in Listed THEN Len(Calls[stage']) + 1 ELSE 7)
        /\ stage' \in {"begin", "do_snapshot"} => Calling'
    BY CallLists, VssAssumption DEF Inv, TypeOK, StageState, Calling, populate_properties, Uninit, Error, backup_system, listed, service
  <2>3. /\ pending' \subseteq Volumes /\ current_volumes' \subseteq Volumes /\ opened' \in BOOLEAN
        /\ state' \in {"none", "Invalid", "PushingTargets", "SnapshotPerformed"}
        /\ shadows' \subseteq Volumes /\ populated' \subseteq shadows' /\ failed_volumes' \subseteq Volumes
    BY DEF Inv, TypeOK, StageState, VolumesTaken, populate_properties, Uninit, Error, backup_system, listed, service
  <2>4. /\ component' \in [Attempts -> {"none", "held", "released"}]
        /\ snapshot_set' \in [Attempts -> {"none", "started", "performed", "deleted"}]
        /\ errors' \in [Attempts -> SUBSET (Stages \X Called)]
    BY DEF Inv, TypeOK, StageState, Called, populate_properties, Uninit, Error, backup_system, listed, service
  <2> QED BY <2>1, <2>2, <2>3, <2>4 DEF TypeOK
<1>2. StageState'
    BY CallLists, VssAssumption DEF Inv, TypeOK, StageState, Attempts, populate_properties, Uninit, Error, backup_system, listed, service
<1>3. Untouched'
    BY CallLists, VssAssumption DEF Inv, TypeOK, Untouched, Attempts, populate_properties, Uninit, Error, backup_system, listed, service
<1>4. Holding'
    BY CallLists, VssAssumption DEF Inv, TypeOK, Holding, Threw, Constructing, Ended, Attempts, StageState, Untouched, populate_properties, Uninit, Error, backup_system, listed, service
<1>5. Deleting'
    BY CallLists, VssAssumption DEF Inv, TypeOK, Deleting, Ended, Attempts, StageState, Untouched, Releasing, LeftBehind, Uninitializing, populate_properties, Uninit, Error, backup_system, listed, service
<1>6. VolumesTaken'
    BY CallLists, VssAssumption DEF Inv, TypeOK, VolumesTaken, StageState, populate_properties, Uninit, Error, backup_system, listed, service
<1>7. MapsToItsShadows' /\ ReadsFromItsShadows'
    BY CallLists, VssAssumption DEF Inv, TypeOK, MapsToItsShadows, ReadsFromItsShadows, VolumesTaken, StageState, populate_properties, Uninit, Error, backup_system, listed, service
<1> QED BY <1>1, <1>2, <1>3, <1>4, <1>5, <1>6, <1>7 DEF Inv

\* All the properties are there.
LEMMA MapperStep ==
    ASSUME Inv, set_path_mapper
    PROVE  Inv'
<1>1. TypeOK'
  <2>1. /\ attempt' \in 0 .. MaxAttempts /\ path_mapper' \in [Volumes -> 0 .. attempt']
        /\ base_objects_set' \in 0 .. attempt' /\ base_objects' \in [Volumes -> 0 .. attempt']
    BY CallLists, VssAssumption DEF Inv, TypeOK, StageState, Attempts, Live, set_path_mapper, listed, Enter, snapshot, service
  <2>2. /\ stage' \in Stages \cup {"idle"}
        /\ step' \in 1 .. (IF stage' \in Listed THEN Len(Calls[stage']) + 1 ELSE 7)
        /\ stage' \in {"begin", "do_snapshot"} => Calling'
    BY CallLists, VssAssumption DEF Inv, TypeOK, StageState, Calling, set_path_mapper, listed, Enter, snapshot, service
  <2>3. /\ pending' \subseteq Volumes /\ current_volumes' \subseteq Volumes /\ opened' \in BOOLEAN
        /\ state' \in {"none", "Invalid", "PushingTargets", "SnapshotPerformed"}
        /\ shadows' \subseteq Volumes /\ populated' \subseteq shadows' /\ failed_volumes' \subseteq Volumes
    BY DEF Inv, TypeOK, StageState, VolumesTaken, set_path_mapper, listed, Enter, snapshot, service
  <2>4. /\ component' \in [Attempts -> {"none", "held", "released"}]
        /\ snapshot_set' \in [Attempts -> {"none", "started", "performed", "deleted"}]
        /\ errors' \in [Attempts -> SUBSET (Stages \X Called)]
    BY DEF Inv, TypeOK, StageState, Called, set_path_mapper, listed, Enter, snapshot, service
  <2> QED BY <2>1, <2>2, <2>3, <2>4 DEF TypeOK
<1>2. StageState'
    BY CallLists, VssAssumption DEF Inv, TypeOK, StageState, Attempts, set_path_mapper, listed, Enter, snapshot, service
<1>3. Untouched'
    BY CallLists, VssAssumption DEF Inv, TypeOK, Untouched, Attempts, set_path_mapper, listed, Enter, snapshot, service
<1>4. Holding'
    BY CallLists, VssAssumption DEF Inv, TypeOK, Holding, Threw, Constructing, Ended, Attempts, StageState, Untouched, set_path_mapper, listed, Enter, snapshot, service
<1>5. Deleting'
    BY CallLists, VssAssumption DEF Inv, TypeOK, Deleting, Ended, Attempts, StageState, Untouched, Releasing, LeftBehind, Uninitializing, set_path_mapper, listed, Enter, snapshot, service
<1>6. VolumesTaken'
    BY CallLists, VssAssumption DEF Inv, TypeOK, VolumesTaken, StageState, set_path_mapper, listed, Enter, snapshot, service
<1>7. MapsToItsShadows' /\ ReadsFromItsShadows'
    BY CallLists, VssAssumption DEF Inv, TypeOK, MapsToItsShadows, ReadsFromItsShadows, VolumesTaken, StageState, set_path_mapper, listed, Enter, snapshot, service
<1> QED BY <1>1, <1>2, <1>3, <1>4, <1>5, <1>6, <1>7 DEF Inv

\* The sources are listed, once.
LEMMA ScanStep ==
    ASSUME Inv, set_base_objects
    PROVE  Inv'
<1>1. TypeOK'
    BY CallLists, VssAssumption DEF Inv, TypeOK, StageState, Attempts, Called, Calling, set_base_objects, Enter, listed, snapshot, service
<1>2. StageState'
    BY CallLists, VssAssumption DEF Inv, TypeOK, StageState, Attempts, set_base_objects, Enter, listed, snapshot, service
<1>3. Untouched'
    BY CallLists, VssAssumption DEF Inv, TypeOK, Untouched, Attempts, set_base_objects, Enter, listed, snapshot, service
<1>4. Holding'
    BY CallLists, VssAssumption DEF Inv, TypeOK, Holding, Threw, Constructing, Ended, Attempts, StageState, Untouched, set_base_objects, Enter, listed, snapshot, service
<1>5. Deleting'
    BY CallLists, VssAssumption DEF Inv, TypeOK, Deleting, Ended, Attempts, StageState, Untouched, Releasing, LeftBehind, Uninitializing, set_base_objects, Enter, listed, snapshot, service
<1>6. VolumesTaken'
    BY CallLists, VssAssumption DEF Inv, TypeOK, VolumesTaken, StageState, set_base_objects, Enter, listed, snapshot, service
<1>7. MapsToItsShadows' /\ ReadsFromItsShadows'
    BY CallLists, VssAssumption DEF Inv, TypeOK, MapsToItsShadows, ReadsFromItsShadows, VolumesTaken, StageState, set_base_objects, Enter, listed, snapshot, service
<1> QED BY <1>1, <1>2, <1>3, <1>4, <1>5, <1>6, <1>7 DEF Inv

\* The backup has ended, somehow.
LEMMA EndStep ==
    ASSUME Inv, NEW completed \in BOOLEAN, EndBackup(completed)
    PROVE  Inv'
<1>1. TypeOK'
    BY CallLists, VssAssumption DEF Inv, TypeOK, StageState, Attempts, Called, Calling, EndBackup, listed, Enter, Uninit, snapshot, service
<1>2. StageState'
    BY CallLists, VssAssumption DEF Inv, TypeOK, StageState, Attempts, EndBackup, listed, Enter, Uninit, snapshot, service
<1>3. Untouched'
    BY CallLists, VssAssumption DEF Inv, TypeOK, Untouched, Attempts, EndBackup, listed, Enter, Uninit, snapshot, service
<1>4. Holding'
    BY CallLists, VssAssumption DEF Inv, TypeOK, Holding, Threw, Constructing, Ended, Attempts, StageState, Untouched, EndBackup, listed, Enter, Uninit, snapshot, service
<1>5. Deleting'
    BY CallLists, VssAssumption DEF Inv, TypeOK, Deleting, Ended, Attempts, StageState, Untouched, Releasing, LeftBehind, Uninitializing, EndBackup, listed, Enter, Uninit, snapshot, service
<1>6. VolumesTaken'
    BY CallLists, VssAssumption DEF Inv, TypeOK, VolumesTaken, StageState, EndBackup, listed, Enter, Uninit, snapshot, service
<1>7. MapsToItsShadows' /\ ReadsFromItsShadows'
    BY CallLists, VssAssumption DEF Inv, TypeOK, MapsToItsShadows, ReadsFromItsShadows, VolumesTaken, StageState, EndBackup, listed, Enter, Uninit, snapshot, service
<1> QED BY <1>1, <1>2, <1>3, <1>4, <1>5, <1>6, <1>7 DEF Inv

\* The object is gone.
LEMMA ReleaseStep ==
    ASSUME Inv, Release
    PROVE  Inv'
<1>1. TypeOK'
    BY CallLists, VssAssumption DEF Inv, TypeOK, StageState, Attempts, Called, Calling, Release, Releasing, Enter, backup_system, listed
<1>2. StageState'
    BY CallLists, VssAssumption DEF Inv, TypeOK, StageState, Attempts, Release, Releasing, Enter, backup_system, listed
<1>3. Untouched'
    BY CallLists, VssAssumption DEF Inv, TypeOK, Untouched, Attempts, Release, Releasing, Enter, backup_system, listed
<1>4. Holding'
    BY CallLists, VssAssumption DEF Inv, TypeOK, Holding, Threw, Constructing, Ended, Attempts, StageState, Untouched, Release, Releasing, Enter, backup_system, listed
<1>5. Deleting'
    BY CallLists, VssAssumption DEF Inv, TypeOK, Deleting, Ended, Attempts, StageState, Untouched, Releasing, LeftBehind, Uninitializing, Release, Releasing, Enter, backup_system, listed
<1>6. VolumesTaken'
    BY CallLists, VssAssumption DEF Inv, TypeOK, VolumesTaken, StageState, Release, Releasing, Enter, backup_system, listed
<1>7. MapsToItsShadows' /\ ReadsFromItsShadows'
    BY CallLists, VssAssumption DEF Inv, TypeOK, MapsToItsShadows, ReadsFromItsShadows, VolumesTaken, StageState, Release, Releasing, Enter, backup_system, listed
<1> QED BY <1>1, <1>2, <1>3, <1>4, <1>5, <1>6, <1>7 DEF Inv

\* A backup is opened.
LEMMA OpenStep ==
    ASSUME Inv, Open
    PROVE  Inv'
<1>1. TypeOK'
  <2>1. /\ attempt' \in 0 .. MaxAttempts /\ path_mapper' \in [Volumes -> 0 .. attempt']
        /\ base_objects_set' \in 0 .. attempt' /\ base_objects' \in [Volumes -> 0 .. attempt']
    BY CallLists, VssAssumption DEF Inv, TypeOK, StageState, Attempts, Live, Open, NewBackupSystem, listed, command, snapshot, service
  <2>2. /\ stage' \in Stages \cup {"idle"}
        /\ step' \in 1 .. (IF stage' \in Listed THEN Len(Calls[stage']) + 1 ELSE 7)
        /\ stage' \in {"begin", "do_snapshot"} => Calling'
    BY CallLists, VssAssumption DEF Inv, TypeOK, StageState, Calling, Open, NewBackupSystem, listed, command, snapshot, service
  <2>3. /\ pending' \subseteq Volumes /\ current_volumes' \subseteq Volumes /\ opened' \in BOOLEAN
        /\ state' \in {"none", "Invalid", "PushingTargets", "SnapshotPerformed"}
        /\ shadows' \subseteq Volumes /\ populated' \subseteq shadows' /\ failed_volumes' \subseteq Volumes
    BY DEF Inv, TypeOK, StageState, VolumesTaken, Open, NewBackupSystem, listed, command, snapshot, service
  <2>4. /\ component' \in [Attempts -> {"none", "held", "released"}]
        /\ snapshot_set' \in [Attempts -> {"none", "started", "performed", "deleted"}]
        /\ errors' \in [Attempts -> SUBSET (Stages \X Called)]
    BY DEF Inv, TypeOK, StageState, Called, Open, NewBackupSystem, listed, command, snapshot, service
  <2> QED BY <2>1, <2>2, <2>3, <2>4 DEF TypeOK
<1>2. StageState'
    BY CallLists, VssAssumption DEF Inv, TypeOK, StageState, Attempts, Open, NewBackupSystem, listed, command, snapshot, service
<1>3. Untouched'
    BY CallLists, VssAssumption DEF Inv, TypeOK, Untouched, Attempts, Open, NewBackupSystem, listed, command, snapshot, service
<1>4. Holding'
    BY CallLists, VssAssumption DEF Inv, TypeOK, Holding, Threw, Constructing, Ended, Attempts, StageState, Untouched, Open, NewBackupSystem, listed, command, snapshot, service
<1>5. Deleting'
    BY CallLists, VssAssumption DEF Inv, TypeOK, Deleting, Ended, Attempts, StageState, Untouched, Releasing, LeftBehind, Uninitializing, Open, NewBackupSystem, listed, command, snapshot, service
<1>6. VolumesTaken'
    BY CallLists, VssAssumption DEF Inv, TypeOK, VolumesTaken, StageState, Open, NewBackupSystem, listed, command, snapshot, service
<1>7. MapsToItsShadows' /\ ReadsFromItsShadows'
    BY CallLists, VssAssumption DEF Inv, TypeOK, MapsToItsShadows, ReadsFromItsShadows, VolumesTaken, StageState, Open, NewBackupSystem, listed, command, snapshot, service
<1> QED BY <1>1, <1>2, <1>3, <1>4, <1>5, <1>6, <1>7 DEF Inv

\* The process is gone.
LEMMA DieStep ==
    ASSUME Inv, Die
    PROVE  Inv'
<1>1. TypeOK'
  <2>1. /\ attempt' \in 0 .. MaxAttempts /\ path_mapper' \in [Volumes -> 0 .. attempt']
        /\ base_objects_set' \in 0 .. attempt' /\ base_objects' \in [Volumes -> 0 .. attempt']
    BY CallLists, VssAssumption DEF Inv, TypeOK, StageState, Attempts, Live, Die, NewBackupSystem, listed, Enter, Error
  <2>2. /\ stage' \in Stages \cup {"idle"}
        /\ step' \in 1 .. (IF stage' \in Listed THEN Len(Calls[stage']) + 1 ELSE 7)
        /\ stage' \in {"begin", "do_snapshot"} => Calling'
    BY CallLists, VssAssumption DEF Inv, TypeOK, StageState, Calling, Die, NewBackupSystem, listed, Enter, Error
  <2>3. /\ pending' \subseteq Volumes /\ current_volumes' \subseteq Volumes /\ opened' \in BOOLEAN
        /\ state' \in {"none", "Invalid", "PushingTargets", "SnapshotPerformed"}
        /\ shadows' \subseteq Volumes /\ populated' \subseteq shadows' /\ failed_volumes' \subseteq Volumes
    BY DEF Inv, TypeOK, StageState, VolumesTaken, Die, NewBackupSystem, listed, Enter, Error
  <2>4. /\ component' \in [Attempts -> {"none", "held", "released"}]
        /\ snapshot_set' \in [Attempts -> {"none", "started", "performed", "deleted"}]
        /\ errors' \in [Attempts -> SUBSET (Stages \X Called)]
    BY DEF Inv, TypeOK, StageState, Called, Die, NewBackupSystem, listed, Enter, Error
  <2> QED BY <2>1, <2>2, <2>3, <2>4 DEF TypeOK
<1>2. StageState'
    BY CallLists, VssAssumption DEF Inv, TypeOK, StageState, Attempts, Die, NewBackupSystem, listed, Enter, Error
<1>3. Untouched'
    BY CallLists, VssAssumption DEF Inv, TypeOK, Untouched, Attempts, Die, NewBackupSystem, listed, Enter, Error
<1>4. Holding'
  <2>1. stage' = "idle" /\ state' = "none" /\ attempt' = attempt
    BY DEF Die, Enter
  <2>2. \A a \in Attempts : component'[a] # "held"
    BY DEF Die, Inv, TypeOK
  <2> QED BY <2>1, <2>2 DEF Holding
<1>5. Deleting'
  <2>1. /\ stage' = "idle" /\ attempt' = attempt /\ attempt \in Attempts
        /\ UNCHANGED snapshot_set
    BY DEF Die, Enter, Inv, StageState
  <2>2. LeftBehind(attempt)' /\ \A a \in Attempts : LeftBehind(a) => LeftBehind(a)'
    BY <2>1, ErrorNoted DEF Die
  <2>3. \A a \in Attempts : Ended(a)' => a = attempt \/ Ended(a)
    BY <2>1 DEF Ended
  <2>4. ASSUME NEW a \in Attempts, Ended(a)', snapshot_set'[a] = "performed"
        PROVE  LeftBehind(a)'
    <3>1. CASE a = attempt
      BY <2>1, <2>2, <3>1 DEF LeftBehind
    <3>2. CASE a # attempt
      <4>1. LeftBehind(a)
        BY <2>1, <2>3, <2>4, <3>2 DEF Inv, Deleting
      <4> QED BY <2>2, <4>1
    <3> QED BY <3>1, <3>2
  <2>5. ~Releasing'
    BY <2>1 DEF Releasing
  <2> QED BY <2>1, <2>4, <2>5 DEF Deleting
<1>6. VolumesTaken'
    BY CallLists, VssAssumption DEF Inv, TypeOK, VolumesTaken, StageState, Die, NewBackupSystem, listed, Enter, Error
<1>7. MapsToItsShadows' /\ ReadsFromItsShadows'
    BY CallLists, VssAssumption DEF Inv, TypeOK, MapsToItsShadows, ReadsFromItsShadows, VolumesTaken, StageState, Die, NewBackupSystem, listed, Enter, Error
<1> QED BY <1>1, <1>2, <1>3, <1>4, <1>5, <1>6, <1>7 DEF Inv

\* What a call does to the service, apart from the attempt it is made for.
LEMMA ServedElsewhere ==
    ASSUME Inv, attempt \in Attempts, NEW call, Serve(call) \/ UNCHANGED service
    PROVE  /\ component' \in [Attempts -> {"none", "held", "released"}]
           /\ snapshot_set' \in [Attempts -> {"none", "started", "performed", "deleted"}]
           /\ \A a \in Attempts \ {attempt} :
                component'[a] = component[a] /\ snapshot_set'[a] = snapshot_set[a]
           /\ component'[attempt] =
                IF call = "CreateVssBackupComponents" /\ ~UNCHANGED service THEN component'[attempt]
                ELSE component[attempt]
           /\ call \notin {"StartSnapshotSet", "DoSnapshotSet", "DeleteSnapshots"} =>
                snapshot_set'[attempt] = snapshot_set[attempt]
           /\ call = "StartSnapshotSet" => snapshot_set'[attempt] \in {snapshot_set[attempt], "started"}
           /\ call = "DoSnapshotSet" => snapshot_set'[attempt] \in {snapshot_set[attempt], "performed"}
BY DEF Inv, TypeOK, Serve, service

LEMMA Served ==
    ASSUME Inv, attempt \in Attempts, NEW call, Serve(call)
    PROVE  /\ call = "CreateVssBackupComponents" => component'[attempt] = "held"
           /\ call = "DeleteSnapshots" => snapshot_set'[attempt] = "deleted"
BY DEF Inv, TypeOK, Serve

\* A call that returns success.
LEMMA SucceedStep ==
    ASSUME Inv, CallSucceeds
    PROVE  Inv'
<1>1. /\ attempt \in Attempts /\ stage \in {"begin", "do_snapshot", "abandon", "destroy"}
      /\ step \in 1 .. Len(Calls[stage])
    BY CallLists DEF Inv, TypeOK, StageState, CallSucceeds, Calling
<1>2. UNCHANGED <<attempt, opened, current_volumes, path_mapper, base_objects_set, base_objects, shadows, populated, failed_volumes, errors>>
    BY <1>1, CallLists DEF CallSucceeds, LastCall, Enter, backup_system, listed
<1>3. /\ component' \in [Attempts -> {"none", "held", "released"}]
      /\ snapshot_set' \in [Attempts -> {"none", "started", "performed", "deleted"}]
      /\ \A a \in Attempts \ {attempt} :
            component'[a] = component[a] /\ snapshot_set'[a] = snapshot_set[a]
    BY <1>1, ServedElsewhere DEF CallSucceeds
<1>4. CASE stage = "begin"
  <2>1. step \in 1 .. 6
    BY <1>1, <1>4, CallLists
  <2>2. Due = Calls["begin"][step]
    BY <1>4 DEF Due
  <2>3. component'[attempt] = "held"
    <3>1. CASE step = 1
      BY <1>1, <2>1, <2>2, <3>1, BeginCall, Served DEF CallSucceeds
    <3>2. CASE step # 1
      <4>1. component[attempt] = "held"
        BY <1>4, <3>2 DEF Inv, Holding, StageState
      <4> QED BY <1>1, <2>1, <2>2, <3>2, <4>1, BeginCall, ServedElsewhere DEF CallSucceeds
    <3> QED BY <3>1, <3>2
  <2>4. snapshot_set'[attempt] \in {snapshot_set[attempt], "started"}
    BY <1>1, <2>1, <2>2, BeginCall, ServedElsewhere DEF CallSucceeds
  <2>5. \/ step < 6 /\ step' = step + 1 /\ UNCHANGED <<stage, pending, state>>
        \/ stage' = "push_target" /\ step' = 1 /\ pending' = current_volumes
            /\ state' = "PushingTargets"
    BY <1>4, <2>1, CallLists DEF CallSucceeds, LastCall, Enter
  <2>11. TypeOK'
    <3>1. /\ stage' \in Stages \cup {"idle"}
          /\ step' \in 1 .. (IF stage' \in Listed THEN Len(Calls[stage']) + 1 ELSE 7)
          /\ stage' \in {"begin", "do_snapshot"} => Calling'
      <4>1. CASE stage' = "begin" /\ step' \in 1 .. 6
        BY <4>1, CallLists DEF Calling
      <4>2. CASE stage' = "push_target" /\ step' = 1
        BY <4>2, CallLists
      <4> QED BY <1>4, <2>1, <2>5, <4>1, <4>2
    <3> QED BY <1>1, <1>2, <1>3, <1>4, <2>1, <2>3, <2>4, <2>5, <3>1 DEF Inv, TypeOK, StageState
  <2>12. StageState'
      BY <1>1, <1>2, <1>3, <1>4, <2>1, <2>3, <2>4, <2>5, CallLists DEF Inv, TypeOK, StageState
  <2>13. Untouched'
      BY <1>1, <1>2, <1>3, <1>4, <2>1, <2>3, <2>4, <2>5, CallLists DEF Inv, TypeOK, Untouched
  <2>14. Holding'
      BY <1>1, <1>2, <1>3, <1>4, <2>1, <2>3, <2>4, <2>5, CallLists DEF Inv, TypeOK, Holding, Threw, Constructing, Ended, StageState, Untouched
  <2>15. Deleting'
      BY <1>1, <1>2, <1>3, <1>4, <2>1, <2>3, <2>4, <2>5, CallLists DEF Inv, TypeOK, Deleting, Ended, StageState, Untouched, Releasing, LeftBehind, Uninitializing
  <2>16. VolumesTaken'
      BY <1>1, <1>2, <1>3, <1>4, <2>1, <2>3, <2>4, <2>5, CallLists DEF Inv, TypeOK, VolumesTaken, StageState
  <2>17. MapsToItsShadows' /\ ReadsFromItsShadows'
      BY <1>1, <1>2, <1>3, <1>4, <2>1, <2>3, <2>4, <2>5, CallLists DEF Inv, TypeOK, MapsToItsShadows, ReadsFromItsShadows, StageState, VolumesTaken
  <2> QED BY <2>11, <2>12, <2>13, <2>14, <2>15, <2>16, <2>17 DEF Inv
<1>5. CASE stage = "do_snapshot"
  <2>1. step \in 1 .. 5
    BY <1>1, <1>5, CallLists
  <2>2. Due = Calls["do_snapshot"][step]
    BY <1>5 DEF Due
  <2>3. component'[attempt] = component[attempt]
    BY <1>1, <2>1, <2>2, DoSnapshotCall, ServedElsewhere DEF CallSucceeds
  <2>4. snapshot_set'[attempt] \in {snapshot_set[attempt], "performed"}
        /\ (step < 5 => snapshot_set'[attempt] = snapshot_set[attempt])
    <3>1. CASE step = 5
      BY <1>1, <2>1, <2>2, <3>1, DoSnapshotCall, ServedElsewhere DEF CallSucceeds
    <3>2. CASE step # 5
      <4>1. Due \notin {"StartSnapshotSet", "DoSnapshotSet", "DeleteSnapshots"}
        BY <2>1, <2>2, <3>2, DoSnapshotCall
      <4> QED BY <1>1, <3>2, <4>1, ServedElsewhere DEF CallSucceeds
    <3> QED BY <3>1, <3>2
  <2>5. \/ step < 5 /\ step' = step + 1 /\ UNCHANGED <<stage, pending, state>>
        \/ stage' = "populate_properties" /\ step' = 1 /\ pending' = shadows
            /\ state' = "SnapshotPerformed"
    BY <1>5, <2>1, CallLists DEF CallSucceeds, LastCall, Enter
  <2>11. TypeOK'
    <3>1. /\ stage' \in Stages \cup {"idle"}
          /\ step' \in 1 .. (IF stage' \in Listed THEN Len(Calls[stage']) + 1 ELSE 7)
          /\ stage' \in {"begin", "do_snapshot"} => Calling'
      <4>1. CASE stage' = "do_snapshot" /\ step' \in 1 .. 5
        BY <4>1, CallLists DEF Calling
      <4>2. CASE stage' = "populate_properties" /\ step' = 1
        BY <4>2, CallLists
      <4> QED BY <1>5, <2>1, <2>5, <4>1, <4>2
    <3> QED BY <1>1, <1>2, <1>3, <1>5, <2>1, <2>3, <2>4, <2>5, <3>1 DEF Inv, TypeOK, StageState
  <2>12. StageState'
      BY <1>1, <1>2, <1>3, <1>5, <2>1, <2>3, <2>4, <2>5, CallLists DEF Inv, TypeOK, StageState
  <2>13. Untouched'
      BY <1>1, <1>2, <1>3, <1>5, <2>1, <2>3, <2>4, <2>5, CallLists DEF Inv, TypeOK, Untouched
  <2>14. Holding'
      BY <1>1, <1>2, <1>3, <1>5, <2>1, <2>3, <2>4, <2>5, CallLists DEF Inv, TypeOK, Holding, Threw, Constructing, Ended, StageState, Untouched
  <2>15. Deleting'
      BY <1>1, <1>2, <1>3, <1>5, <2>1, <2>3, <2>4, <2>5, CallLists DEF Inv, TypeOK, Deleting, Ended, StageState, Untouched, Releasing, LeftBehind, Uninitializing
  <2>16. VolumesTaken'
      BY <1>1, <1>2, <1>3, <1>5, <2>1, <2>3, <2>4, <2>5, CallLists DEF Inv, TypeOK, VolumesTaken, StageState
  <2>17. MapsToItsShadows' /\ ReadsFromItsShadows'
      BY <1>1, <1>2, <1>3, <1>5, <2>1, <2>3, <2>4, <2>5, CallLists DEF Inv, TypeOK, MapsToItsShadows, ReadsFromItsShadows, StageState, VolumesTaken
  <2> QED BY <2>11, <2>12, <2>13, <2>14, <2>15, <2>16, <2>17 DEF Inv
<1>6. CASE stage \in {"abandon", "destroy"}
  <2>1. step \in 1 .. 4
    BY <1>1, <1>6, CallLists
  <2>2. Due = UninitCalls[step]
    BY <1>6, CallLists DEF Due
  <2>3. component'[attempt] = component[attempt]
    BY <1>1, <2>1, <2>2, UninitCall, ServedElsewhere DEF CallSucceeds
  <2>4. snapshot_set'[attempt] = IF step = 4 THEN "deleted" ELSE snapshot_set[attempt]
    <3>1. CASE step = 4
      <4>1. Due = "DeleteSnapshots" /\ Due \notin Asynchronous
        BY <2>1, <2>2, <3>1, UninitCall DEF Asynchronous
      <4> QED BY <1>1, <3>1, <4>1, Served DEF CallSucceeds
    <3>2. CASE step # 4
      BY <1>1, <2>1, <2>2, <3>2, UninitCall, ServedElsewhere DEF CallSucceeds
    <3> QED BY <3>1, <3>2
  <2>5. step' = step + 1 /\ UNCHANGED <<stage, pending, state>>
    BY <1>6, <2>1, CallLists DEF CallSucceeds, LastCall, Enter
  <2>11. TypeOK'
      BY <1>1, <1>2, <1>3, <1>6, <2>1, <2>3, <2>4, <2>5, CallLists DEF Inv, TypeOK, StageState, Called, Calling
  <2>12. StageState'
      BY <1>1, <1>2, <1>3, <1>6, <2>1, <2>3, <2>4, <2>5, CallLists DEF Inv, TypeOK, StageState
  <2>13. Untouched'
      BY <1>1, <1>2, <1>3, <1>6, <2>1, <2>3, <2>4, <2>5, CallLists DEF Inv, TypeOK, Untouched
  <2>14. Holding'
      BY <1>1, <1>2, <1>3, <1>6, <2>1, <2>3, <2>4, <2>5, CallLists DEF Inv, TypeOK, Holding, Threw, Constructing, Ended, StageState, Untouched
  <2>15. Deleting'
      BY <1>1, <1>2, <1>3, <1>6, <2>1, <2>3, <2>4, <2>5, CallLists DEF Inv, TypeOK, Deleting, Ended, StageState, Untouched, Releasing, LeftBehind, Uninitializing
  <2>16. VolumesTaken'
      BY <1>1, <1>2, <1>3, <1>6, <2>1, <2>3, <2>4, <2>5, CallLists DEF Inv, TypeOK, VolumesTaken, StageState
  <2>17. MapsToItsShadows' /\ ReadsFromItsShadows'
      BY <1>1, <1>2, <1>3, <1>6, <2>1, <2>3, <2>4, <2>5, CallLists DEF Inv, TypeOK, MapsToItsShadows, ReadsFromItsShadows, StageState, VolumesTaken
  <2> QED BY <2>11, <2>12, <2>13, <2>14, <2>15, <2>16, <2>17 DEF Inv
<1> QED BY <1>1, <1>4, <1>5, <1>6

\* A call that returns an error.
LEMMA FailStep ==
    ASSUME Inv, CallFails
    PROVE  Inv'
<1>1. /\ attempt \in Attempts /\ stage \in {"begin", "do_snapshot", "abandon", "destroy"}
      /\ step \in 1 .. Len(Calls[stage])
    BY CallLists DEF Inv, TypeOK, StageState, CallFails, Calling
<1>2. UNCHANGED <<attempt, pending, opened, current_volumes, path_mapper, base_objects_set, base_objects, shadows, populated, failed_volumes>>
    BY DEF CallFails, Throw, snapshot, listed
<1>3. /\ component' \in [Attempts -> {"none", "held", "released"}]
      /\ snapshot_set' \in [Attempts -> {"none", "started", "performed", "deleted"}]
      /\ \A a \in Attempts \ {attempt} :
            component'[a] = component[a] /\ snapshot_set'[a] = snapshot_set[a]
    BY <1>1, ServedElsewhere DEF CallFails
<1>4. \A a \in Attempts \ {attempt} : errors'[a] = errors[a]
    BY <1>1, <1>2, ErrorNoted DEF CallFails
<1>5. Due \in Called => errors' \in [Attempts -> SUBSET (Stages \X Called)]
    BY <1>1, CallLists DEF CallFails, Error, Inv, TypeOK
<1>9. /\ \A a \in Attempts : (Threw(a) => Threw(a)') /\ (LeftBehind(a) => LeftBehind(a)')
      /\ stage \in Constructing /\ Due # "process" => Threw(attempt)'
      /\ Due = "DoSnapshotSet" => LeftBehind(attempt)'
    BY <1>1, <1>2, ErrorNoted DEF CallFails
<1>6. CASE stage = "begin"
  <2>1. step \in 1 .. 6 /\ Due = Calls["begin"][step]
    BY <1>1, <1>6, CallLists DEF Due
  <2>2. Due \in Called
    BY <2>1, BeginCall DEF Called, Asynchronous
  <2>3. component'[attempt] = component[attempt] \/ component'[attempt] = "held"
    BY <1>1, <2>1, BeginCall, ServedElsewhere, Served DEF CallFails
  <2>4. snapshot_set'[attempt] \in {snapshot_set[attempt], "started"}
    BY <1>1, <2>1, BeginCall, ServedElsewhere DEF CallFails
  <2>5. stage' = "idle" /\ state' = "none" /\ step' = step
    BY <1>6 DEF CallFails, Throw
  <2>6. Threw(attempt)'
    BY <1>6, <1>9, <2>1, BeginCall DEF Constructing
  <2>7. \A a \in Attempts : Ended(a)' => a = attempt \/ Ended(a)
    BY <1>2, <2>5 DEF Ended
  <2>11. TypeOK'
      BY <1>1, <1>2, <1>3, <1>4, <1>5, <1>6, <2>1, <2>2, <2>3, <2>4, <2>5, CallLists DEF Inv, TypeOK, StageState, Called, Calling
  <2>12. StageState'
      BY <1>1, <1>2, <1>3, <1>4, <1>5, <1>6, <2>1, <2>2, <2>3, <2>4, <2>5, CallLists DEF Inv, TypeOK, StageState
  <2>13. Untouched'
      BY <1>1, <1>2, <1>3, <1>4, <1>5, <1>6, <2>1, <2>2, <2>3, <2>4, <2>5, CallLists DEF Inv, TypeOK, Untouched
  <2>14. Holding'
      BY <1>1, <1>2, <1>3, <1>9, <2>5, <2>6, <2>7 DEF Inv, Holding
  <2>15. Deleting'
      BY <1>1, <1>2, <1>3, <1>4, <1>5, <1>6, <2>1, <2>2, <2>3, <2>4, <2>5, CallLists DEF Inv, TypeOK, Deleting, Ended, StageState, Untouched, Releasing, LeftBehind, Uninitializing
  <2>16. VolumesTaken'
      BY <1>1, <1>2, <1>3, <1>4, <1>5, <1>6, <2>1, <2>2, <2>3, <2>4, <2>5, CallLists DEF Inv, TypeOK, VolumesTaken, StageState
  <2>17. MapsToItsShadows' /\ ReadsFromItsShadows'
      BY <1>1, <1>2, <1>3, <1>4, <1>5, <1>6, <2>1, <2>2, <2>3, <2>4, <2>5, CallLists DEF Inv, TypeOK, MapsToItsShadows, ReadsFromItsShadows, StageState, VolumesTaken
  <2> QED BY <2>11, <2>12, <2>13, <2>14, <2>15, <2>16, <2>17 DEF Inv
<1>7. CASE stage = "do_snapshot"
  <2>1. step \in 1 .. 5 /\ Due = Calls["do_snapshot"][step]
    BY <1>1, <1>7, CallLists DEF Due
  <2>2. Due \in Called
    BY <2>1, DoSnapshotCall DEF Called, Asynchronous
  <2>3. component'[attempt] = component[attempt]
    BY <1>1, <2>1, DoSnapshotCall, ServedElsewhere DEF CallFails
  <2>4. snapshot_set'[attempt] \in {snapshot_set[attempt], "performed"}
        /\ (Due # "DoSnapshotSet" => snapshot_set'[attempt] = snapshot_set[attempt])
    BY <1>1, <2>1, DoSnapshotCall, ServedElsewhere DEF CallFails
  <2>5. stage' = "idle" /\ state' = "none" /\ step' = step
    BY <1>7 DEF CallFails, Throw
  <2>6. Threw(attempt)'
    BY <1>7, <1>9, <2>1, DoSnapshotCall DEF Constructing
  <2>7. \A a \in Attempts : Ended(a)' => a = attempt \/ Ended(a)
    BY <1>2, <2>5 DEF Ended
  <2>11. TypeOK'
      BY <1>1, <1>2, <1>3, <1>4, <1>5, <1>7, <2>1, <2>2, <2>3, <2>4, <2>5, CallLists DEF Inv, TypeOK, StageState, Called, Calling
  <2>12. StageState'
      BY <1>1, <1>2, <1>3, <1>4, <1>5, <1>7, <2>1, <2>2, <2>3, <2>4, <2>5, CallLists DEF Inv, TypeOK, StageState
  <2>13. Untouched'
      BY <1>1, <1>2, <1>3, <1>4, <1>5, <1>7, <2>1, <2>2, <2>3, <2>4, <2>5, CallLists DEF Inv, TypeOK, Untouched
  <2>14. Holding'
      BY <1>1, <1>2, <1>3, <1>9, <2>5, <2>6, <2>7 DEF Inv, Holding
  <2>15. Deleting'
    <3>1. snapshot_set'[attempt] = "performed" => LeftBehind(attempt)'
      BY <1>7, <1>9, <2>4 DEF Inv, Deleting
    <3>2. \A a \in Attempts : Ended(a)' /\ snapshot_set'[a] = "performed" => LeftBehind(a)'
      <4>1. SUFFICES ASSUME NEW a \in Attempts, Ended(a)', snapshot_set'[a] = "performed"
                     PROVE  LeftBehind(a)'
        OBVIOUS
      <4>2. CASE a = attempt
        BY <1>2, <3>1, <4>1, <4>2 DEF LeftBehind
      <4>3. CASE a # attempt
        <5>1. LeftBehind(a)
          BY <1>3, <2>7, <4>1, <4>3 DEF Inv, Deleting
        <5> QED BY <1>9, <5>1
      <4> QED BY <4>2, <4>3
    <3>3. ~Releasing'
      BY <2>5 DEF Releasing
    <3> QED BY <2>5, <3>2, <3>3 DEF Deleting
  <2>16. VolumesTaken'
      BY <1>1, <1>2, <1>3, <1>4, <1>5, <1>7, <2>1, <2>2, <2>3, <2>4, <2>5, CallLists DEF Inv, TypeOK, VolumesTaken, StageState
  <2>17. MapsToItsShadows' /\ ReadsFromItsShadows'
      BY <1>1, <1>2, <1>3, <1>4, <1>5, <1>7, <2>1, <2>2, <2>3, <2>4, <2>5, CallLists DEF Inv, TypeOK, MapsToItsShadows, ReadsFromItsShadows, StageState, VolumesTaken
  <2> QED BY <2>11, <2>12, <2>13, <2>14, <2>15, <2>16, <2>17 DEF Inv
<1>8. CASE stage \in {"abandon", "destroy"}
  <2>1. step \in 1 .. 4 /\ Due = UninitCalls[step]
    BY <1>1, <1>8, CallLists DEF Due
  <2>2. Due \in Called
    BY <2>1, UninitCall DEF Called, Asynchronous
  <2>3. component'[attempt] = component[attempt]
    BY <1>1, <2>1, UninitCall, ServedElsewhere DEF CallFails
  <2>4. snapshot_set'[attempt] = snapshot_set[attempt]
    <3>1. "DeleteSnapshots" \notin Asynchronous
      BY DEF Asynchronous
    <3>2. CASE Due = "DeleteSnapshots"
      BY <3>1, <3>2 DEF CallFails, service
    <3>3. CASE Due # "DeleteSnapshots"
      BY <1>1, <2>1, <3>3, UninitCall, ServedElsewhere DEF CallFails
    <3> QED BY <3>2, <3>3
  <2>5. step' = 5 /\ UNCHANGED <<stage, state>>
    BY <1>8, CallLists DEF CallFails, snapshot
  <2>11. TypeOK'
    <3>1. /\ stage' \in Stages \cup {"idle"}
          /\ step' \in 1 .. (IF stage' \in Listed THEN Len(Calls[stage']) + 1 ELSE 7)
          /\ stage' \in {"begin", "do_snapshot"} => Calling'
      <4>1. stage' \in Stages /\ Len(Calls[stage']) = 4
        BY <1>8, <2>5, CallLists
      <4> QED BY <1>8, <2>5, <4>1
    <3> QED BY <1>1, <1>2, <1>3, <1>4, <1>5, <1>8, <2>1, <2>2, <2>3, <2>4, <2>5, <3>1 DEF Inv, TypeOK, StageState
  <2>12. StageState'
      BY <1>1, <1>2, <1>3, <1>4, <1>5, <1>8, <2>1, <2>2, <2>3, <2>4, <2>5, CallLists DEF Inv, TypeOK, StageState
  <2>13. Untouched'
      BY <1>1, <1>2, <1>3, <1>4, <1>5, <1>8, <2>1, <2>2, <2>3, <2>4, <2>5, CallLists DEF Inv, TypeOK, Untouched
  <2>14. Holding'
      BY <1>1, <1>2, <1>3, <1>4, <1>5, <1>8, <2>1, <2>2, <2>3, <2>4, <2>5, CallLists DEF Inv, TypeOK, Holding, Threw, Constructing, Ended, StageState, Untouched
  <2>15. Deleting'
    <3>1. LeftBehind(attempt)'
      BY <1>1, <1>2, <1>8, ErrorNoted DEF CallFails, Uninitializing
    <3>2. \A a \in Attempts : Ended(a)' => Ended(a) /\ a # attempt
      BY <1>1, <1>2, <1>8, <2>5 DEF Ended, Attempts, Inv, TypeOK
    <3>3. ASSUME NEW a \in Attempts, Ended(a)', snapshot_set'[a] = "performed"
          PROVE  LeftBehind(a)'
      <4>1. LeftBehind(a)
        BY <1>3, <3>2, <3>3 DEF Inv, Deleting
      <4> QED BY <1>1, <1>2, <4>1, ErrorNoted DEF CallFails
    <3> QED BY <1>2, <1>8, <2>5, <3>1, <3>3 DEF Deleting
  <2>16. VolumesTaken'
      BY <1>1, <1>2, <1>3, <1>4, <1>5, <1>8, <2>1, <2>2, <2>3, <2>4, <2>5, CallLists DEF Inv, TypeOK, VolumesTaken, StageState
  <2>17. MapsToItsShadows' /\ ReadsFromItsShadows'
      BY <1>1, <1>2, <1>3, <1>4, <1>5, <1>8, <2>1, <2>2, <2>3, <2>4, <2>5, CallLists DEF Inv, TypeOK, MapsToItsShadows, ReadsFromItsShadows, StageState, VolumesTaken
  <2> QED BY <2>11, <2>12, <2>13, <2>14, <2>15, <2>16, <2>17 DEF Inv
<1> QED BY <1>1, <1>6, <1>7, <1>8
-----------------------------------------------------------------------------
LEMMA InvInit ==
    ASSUME Init
    PROVE  Inv
BY VssAssumption, CallLists
   DEF Init, Inv, TypeOK, StageState, Untouched, Holding, Deleting, VolumesTaken,
       MapsToItsShadows, ReadsFromItsShadows, Attempts, Live, Ended, Calling, Releasing

LEMMA InvNext ==
    ASSUME Inv, [Next]_vars
    PROVE  Inv'
<1>1. CASE UNCHANGED vars
    BY <1>1 DEF vars, command, backup_system, listed, snapshot, service,
        Inv, TypeOK, StageState, Untouched, Holding, Deleting, VolumesTaken,
        MapsToItsShadows, ReadsFromItsShadows, Ended, LeftBehind, Threw, Calling, Releasing
<1> QED BY <1>1, BeginStep, SucceedStep, FailStep, PushStep, DoSnapshotStep, PopulateStep,
           MapperStep, ScanStep, EndStep, ReleaseStep, OpenStep, DieStep DEF Next

\* The invariant gives the properties.
LEMMA InvImplies ==
    ASSUME Inv
    PROVE  NoSnapshotLeft /\ ComponentAccounted
<1>1. \A a \in Attempts : (a < attempt \/ stage = "idle") =>
        Ended(a) \/ (component[a] = "none" /\ snapshot_set[a] = "none")
    BY VssAssumption DEF Inv, TypeOK, Untouched, Ended, Attempts
<1>2. NoSnapshotLeft
    BY <1>1 DEF Inv, Deleting, NoSnapshotLeft, LeftBehind, Uninitializing
<1>3. ComponentAccounted
  <2>1. Calling /\ Due # "CreateVssBackupComponents" => component[attempt] = "held"
    <3>1. SUFFICES ASSUME Calling, Due # "CreateVssBackupComponents"
                   PROVE  component[attempt] = "held"
      OBVIOUS
    <3>2. ~(stage = "begin" /\ step = 1)
      BY <3>1, BeginCall DEF Due
    <3> QED BY <3>1, <3>2, CallLists DEF Calling, Inv, Holding, StageState
  <2>2. Releasing => component[attempt] = "held"
    BY DEF Releasing, Inv, Holding, StageState
  <2>3. stage \in {"push_target", "populate_properties", "perform_backup_inner", "generate_archive"}
            /\ state # "none" => component[attempt] = "held"
    BY DEF Inv, Holding
  <2>4. \A a \in Attempts :
        component[a] = "held" /\ (a < attempt \/ stage = "idle") =>
            \E e \in errors[a] : e[1] \in Constructing /\ e[2] # "process"
    BY <1>1 DEF Inv, Holding, Threw
  <2> QED BY <2>1, <2>2, <2>3, <2>4 DEF ComponentAccounted
<1> QED BY <1>2, <1>3

\* The variables have their types.
THEOREM TypeCorrect == Spec => []TypeOK
<1>1. Inv => TypeOK
    BY DEF Inv
<1> QED BY <1>1, InvInit, InvNext, PTL DEF Spec

\* A command that lists its sources through shadow copies opens the files of
\* each volume on the copy this command made of it, or, if the volume was
\* refused, where they are.
THEOREM AlwaysReadsItsShadows == Spec => []ReadsFromItsShadows
<1>1. Inv => ReadsFromItsShadows
    BY DEF Inv
<1> QED BY <1>1, InvInit, InvNext, PTL DEF Spec

\* Snapshots stay behind only for one of the reasons NoSnapshotLeft names.
THEOREM SnapshotsAreDeleted == Spec => []NoSnapshotLeft
<1>1. Inv => NoSnapshotLeft
    BY InvImplies
<1> QED BY <1>1, InvInit, InvNext, PTL DEF Spec

\* The component is used while it is held, and released once, or never after a
\* call that threw.
THEOREM ComponentsAccounted == Spec => []ComponentAccounted
<1>1. Inv => ComponentAccounted
    BY InvImplies
<1> QED BY <1>1, InvInit, InvNext, PTL DEF Spec
=============================================================================
