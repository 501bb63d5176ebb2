----------------------------- MODULE VssSnapshot -----------------------------
(***************************************************************************)
(* The shadow copies of a backup: VssSnapshot of System/VSS.cpp, a         *)
(* requester of the Volume Shadow Copy Service, and the backup commands of *)
(* one process that construct it, read through it and destroy it.  Every   *)
(* call to the service may fail, and an asynchronous one may fail without  *)
(* notice: VssAsync::wait asks whether the wait succeeded, not the work.   *)
(*                                                                         *)
(* The snapshots are persistent (VSS_CTX_APP_ROLLBACK): one that nobody    *)
(* deletes is still there when the process is gone.                        *)
(*                                                                         *)
(* The sources are directories of the volumes; one that an earlier version *)
(* recorded on the device of a shadow copy is in BackupSystem.             *)
(***************************************************************************)
EXTENDS Naturals, Sequences, FiniteSets

CONSTANTS
    Volumes,        \* volumes of a kind that is backed up
    MaxAttempts     \* bound: backup commands in a behaviour

ASSUME VssAssumption == MaxAttempts \in Nat

Attempts == 1 .. MaxAttempts
Live == 0           \* where path_mapper leaves the paths of a volume alone

VARIABLES
    \* The command: the stage it is in, the next call of a stage that is a
    \* list of calls, the volumes a stage that is a loop still has to visit.
    attempt, stage, step, pending,
    \* BackupSystem; path_mapper: the attempt whose shadow copy a volume's
    \* paths are mapped to.  opened: there is a backup system.  base_objects:
    \* where the files of a volume are opened, from the attempt
    \* base_objects_set (0: none yet) on.
    opened, current_volumes, path_mapper, base_objects_set, base_objects,
    \* VssSnapshot: its state ("none" without an object), the volumes of the
    \* shadows in props, those of them with their properties, failed_volumes.
    state, shadows, populated, failed_volumes,
    \* The service: the IVssBackupComponents and the snapshot set of an attempt.
    component, snapshot_set,
    \* History: the stages and calls in which an attempt met an error.
    errors

command == <<attempt, stage, step, pending>>
listed == <<base_objects_set, base_objects>>
backup_system == <<opened, current_volumes, path_mapper, listed>>
snapshot == <<state, shadows, populated, failed_volumes>>
service == <<component, snapshot_set>>
vars == <<command, backup_system, snapshot, service, errors>>

\* Calls made in a row, by begin, do_snapshot and uninit (from the constructor,
\* abandon, and from the destructor, destroy).
UninitCalls == <<"GatherWriterStatus", "FreeWriterStatus", "BackupComplete", "DeleteSnapshots">>
Calls ==
    [begin |-> <<"CreateVssBackupComponents", "InitializeForBackup", "GatherWriterMetadata",
                 "FreeWriterMetadata", "SetContext", "StartSnapshotSet">>,
     do_snapshot |-> <<"SetBackupState", "PrepareForBackup", "GatherWriterStatus",
                       "FreeWriterStatus", "DoSnapshotSet">>,
     abandon |-> UninitCalls,
     destroy |-> UninitCalls]

\* CALL_ASYNC_FUNCTION
Asynchronous ==
    {"GatherWriterMetadata", "PrepareForBackup", "GatherWriterStatus", "DoSnapshotSet",
     "BackupComplete"}

Listed == DOMAIN Calls
Calling == stage \in Listed /\ step <= Len(Calls[stage])
Due == Calls[stage][step]

Init ==
    /\ attempt = 0 /\ stage = "idle" /\ step = 1 /\ pending = {}
    /\ opened = TRUE /\ current_volumes = {}
    /\ path_mapper = [v \in Volumes |-> Live]
    /\ base_objects_set = 0 /\ base_objects = [v \in Volumes |-> Live]
    /\ state = "none" /\ shadows = {} /\ populated = {} /\ failed_volumes = {}
    /\ component = [a \in Attempts |-> "none"]
    /\ snapshot_set = [a \in Attempts |-> "none"]
    /\ errors = [a \in Attempts |-> {}]
-----------------------------------------------------------------------------
\* The service.

\* A call that did its work.
Serve(call) ==
    /\ component' = IF call = "CreateVssBackupComponents"
                    THEN [component EXCEPT ![attempt] = "held"] ELSE component
    /\ snapshot_set' =
        [snapshot_set EXCEPT ![attempt] =
            CASE call = "StartSnapshotSet" -> "started"
              [] call = "DoSnapshotSet"    -> "performed"
              [] call = "DeleteSnapshots"  -> "deleted"
              [] OTHER                     -> @]

\* Only what is there can be deleted.
CanServe(call) == call = "DeleteSnapshots" => snapshot_set[attempt] = "performed"

Error(call) == errors' = [errors EXCEPT ![attempt] = @ \cup {<<stage, call>>}]
-----------------------------------------------------------------------------
\* The command ends without its VssSnapshot, whatever that holds: a
\* constructor that throws runs no destructor.
Throw ==
    /\ stage' = "idle" /\ state' = "none"
    /\ UNCHANGED <<attempt, step, pending, opened, shadows, populated, failed_volumes>>

Enter(next, volumes) ==
    /\ stage' = next /\ step' = 1 /\ pending' = volumes
    /\ UNCHANGED attempt

\* uninit: the service is told only when there is a snapshot.
Uninit(next) ==
    /\ stage' = next /\ pending' = {}
    /\ step' = IF state = "SnapshotPerformed" THEN 1 ELSE Len(UninitCalls) + 1
    /\ UNCHANGED attempt

\* perform_backup: the volumes there are now join those of earlier attempts.
perform_backup(present, use_snapshots) ==
    /\ stage = "idle" /\ opened
    /\ attempt < MaxAttempts /\ attempt' = attempt + 1
    /\ current_volumes' = current_volumes \cup present
    /\ stage' = IF use_snapshots THEN "begin" ELSE "perform_backup_inner"
    /\ state' = IF use_snapshots THEN "Invalid" ELSE "none"
    /\ step' = 1 /\ pending' = {}
    /\ shadows' = {} /\ populated' = {} /\ failed_volumes' = {}
    /\ UNCHANGED <<opened, path_mapper, listed, service, errors>>

\* Mutant: properties are asked for every target.
LastCall_Targets ==
    CASE stage = "begin" ->
            Enter("push_target", current_volumes) /\ state' = "PushingTargets"
      [] stage = "do_snapshot" ->
            Enter("populate_properties", current_volumes) /\ state' = "SnapshotPerformed"
      [] OTHER -> step' = step + 1 /\ UNCHANGED <<attempt, stage, pending, state>>

\* What comes after the last call of a stage.
LastCall ==
    CASE stage = "begin" ->
            Enter("push_target", current_volumes) /\ state' = "PushingTargets"
      [] stage = "do_snapshot" ->
            Enter("populate_properties", shadows) /\ state' = "SnapshotPerformed"
      [] OTHER -> step' = step + 1 /\ UNCHANGED <<attempt, stage, pending, state>>

\* The call returns success; an asynchronous one may not have done its work.
CallSucceeds ==
    /\ Calling
    /\ \/ CanServe(Due) /\ Serve(Due)
       \/ Due \in Asynchronous /\ UNCHANGED service
    /\ IF step < Len(Calls[stage])
       THEN step' = step + 1 /\ UNCHANGED <<attempt, stage, pending, state>>
       ELSE LastCall
    /\ UNCHANGED <<backup_system, shadows, populated, failed_volumes, errors>>

\* The call returns an error, maybe from the Wait for work that is done all the
\* same.  In uninit that ends the calls, elsewhere it is thrown.
CallFails ==
    /\ Calling
    /\ \/ UNCHANGED service
       \/ Due \in Asynchronous /\ Serve(Due)
    /\ Error(Due)
    /\ IF stage \in {"abandon", "destroy"}
       THEN /\ step' = Len(UninitCalls) + 1
            /\ UNCHANGED <<attempt, stage, pending, snapshot, opened>>
       ELSE Throw
    /\ UNCHANGED <<current_volumes, path_mapper, listed>>

\* push_target: the volume gets a shadow, is refused, or ends the command.
push_target(v) ==
    /\ stage = "push_target" /\ v \in pending
    /\ \/ shadows' = shadows \cup {v}
          /\ pending' = pending \ {v}
          /\ UNCHANGED <<attempt, stage, step, opened, state, populated, failed_volumes, errors>>
       \/ failed_volumes' = failed_volumes \cup {v}
          /\ pending' = pending \ {v}
          /\ UNCHANGED <<attempt, stage, step, opened, state, shadows, populated, errors>>
       \/ Error("AddToSnapshotSet") /\ Throw
    /\ UNCHANGED <<current_volumes, path_mapper, listed, service>>

do_snapshot ==
    /\ stage = "push_target" /\ pending = {}
    /\ Enter("do_snapshot", {})
    /\ state' = "Invalid"
    /\ UNCHANGED <<backup_system, shadows, populated, failed_volumes, service, errors>>

\* Mutant: an exception, without uninit.
populate_properties_Throws(v) ==
    /\ stage = "populate_properties" /\ v \in pending
    /\ \/ /\ snapshot_set[attempt] = "performed"
          /\ populated' = populated \cup {v}
          /\ pending' = pending \ {v}
          /\ UNCHANGED <<attempt, stage, step, opened, state, shadows, failed_volumes, errors>>
       \/ Error("GetSnapshotProperties") /\ Throw
    /\ UNCHANGED <<current_volumes, path_mapper, listed, service>>

\* populate_properties, one shadow; with an error the constructor calls uninit.
populate_properties(v) ==
    /\ stage = "populate_properties" /\ v \in pending
    /\ \/ /\ snapshot_set[attempt] = "performed"
          /\ populated' = populated \cup {v}
          /\ pending' = pending \ {v}
          /\ UNCHANGED <<attempt, stage, step, errors>>
       \/ /\ Error("GetSnapshotProperties")
          /\ Uninit("abandon")
          /\ UNCHANGED populated
    /\ UNCHANGED <<backup_system, state, shadows, failed_volumes, service>>

\* Mutant: what an earlier attempt mapped is not cleared.
set_path_mapper_Kept ==
    /\ stage = "populate_properties" /\ pending = {}
    /\ path_mapper' = [v \in Volumes |-> IF v \in populated THEN attempt ELSE path_mapper[v]]
    /\ Enter("perform_backup_inner", {})
    /\ UNCHANGED <<opened, current_volumes, listed, snapshot, service, errors>>

\* set_path_mapper, and the constructor's return before it
set_path_mapper ==
    /\ stage = "populate_properties" /\ pending = {}
    /\ path_mapper' = [v \in Volumes |-> IF v \in populated THEN attempt ELSE Live]
    /\ Enter("perform_backup_inner", {})
    /\ UNCHANGED <<opened, current_volumes, listed, snapshot, service, errors>>

\* set_base_objects: the first attempt that comes here maps the sources, and
\* the paths it got are those that are opened from then on.
set_base_objects ==
    /\ stage = "perform_backup_inner"
    /\ Enter("generate_archive", {})
    /\ IF base_objects_set = 0
       THEN base_objects_set' = attempt /\ base_objects' = path_mapper
       ELSE UNCHANGED listed
    /\ UNCHANGED <<opened, current_volumes, path_mapper, snapshot, service, errors>>

\* perform_backup_inner throws, before set_base_objects too, when the last
\* version cannot be read, or returns; a command that was completed closes the
\* backup system.
EndBackup(completed) ==
    /\ stage \in IF completed THEN {"generate_archive"}
                 ELSE {"perform_backup_inner", "generate_archive"}
    /\ opened' = ~completed
    /\ IF state = "none" THEN Enter("idle", {}) ELSE Uninit("destroy")
    /\ UNCHANGED <<current_volumes, path_mapper, listed, snapshot, service, errors>>

Releasing == stage \in {"abandon", "destroy"} /\ step > Len(UninitCalls)

\* Mutant: the constructor does not throw after uninit.
Release_GoesOn ==
    /\ Releasing
    /\ component' = [component EXCEPT ![attempt] = "released"]
    /\ Enter(IF stage = "abandon" THEN "perform_backup_inner" ELSE "idle", {})
    /\ UNCHANGED <<backup_system, snapshot, snapshot_set, errors>>

\* The end of uninit, and of the object.
Release ==
    /\ Releasing
    /\ component' = [component EXCEPT ![attempt] = "released"]
    /\ Enter("idle", {})
    /\ state' = "none"
    /\ UNCHANGED <<backup_system, shadows, populated, failed_volumes, snapshot_set, errors>>

\* BackupSystem::BackupSystem
NewBackupSystem ==
    /\ opened' = TRUE /\ current_volumes' = {}
    /\ path_mapper' = [v \in Volumes |-> Live]
    /\ base_objects_set' = 0 /\ base_objects' = [v \in Volumes |-> Live]

\* process_open
Open ==
    /\ stage = "idle"
    /\ NewBackupSystem
    /\ UNCHANGED <<command, snapshot, service, errors>>

\* The process dies, and another one is started.
Die ==
    /\ stage # "idle"
    /\ Enter("idle", {})
    /\ NewBackupSystem
    /\ state' = "none"
    /\ component' = [a \in Attempts |-> IF component[a] = "held" THEN "released" ELSE component[a]]
    /\ Error("process")
    /\ UNCHANGED <<shadows, populated, failed_volumes, snapshot_set>>

Next ==
    \/ \E present \in SUBSET Volumes, use_snapshots \in BOOLEAN :
            perform_backup(present, use_snapshots)
    \/ CallSucceeds
    \/ CallFails
    \/ \E v \in Volumes : push_target(v) \/ populate_properties(v)
    \/ do_snapshot
    \/ set_path_mapper
    \/ set_base_objects
    \/ \E completed \in BOOLEAN : EndBackup(completed)
    \/ Release
    \/ Open
    \/ Die

Spec == Init /\ [][Next]_vars
-----------------------------------------------------------------------------
Stages == Listed \cup {"push_target", "populate_properties", "perform_backup_inner", "generate_archive"}
Called ==
    Asynchronous \cup {"CreateVssBackupComponents", "InitializeForBackup", "FreeWriterMetadata",
        "SetContext", "StartSnapshotSet", "AddToSnapshotSet", "SetBackupState",
        "FreeWriterStatus", "GetSnapshotProperties", "DeleteSnapshots", "process"}

\* The variables have their types, and calls are due only where there are any.
TypeOK ==
    /\ attempt \in 0 .. MaxAttempts
    /\ stage \in Stages \cup {"idle"}
    /\ step \in 1 .. IF stage \in Listed THEN Len(Calls[stage]) + 1 ELSE 7
    /\ stage \in {"begin", "do_snapshot"} => Calling
    /\ pending \subseteq Volumes
    /\ opened \in BOOLEAN /\ current_volumes \subseteq Volumes
    /\ path_mapper \in [Volumes -> 0 .. attempt]
    /\ base_objects_set \in 0 .. attempt /\ base_objects \in [Volumes -> 0 .. attempt]
    /\ state \in {"none", "Invalid", "PushingTargets", "SnapshotPerformed"}
    /\ shadows \subseteq Volumes /\ populated \subseteq shadows /\ failed_volumes \subseteq Volumes
    /\ component \in [Attempts -> {"none", "held", "released"}]
    /\ snapshot_set \in [Attempts -> {"none", "started", "performed", "deleted"}]
    /\ errors \in [Attempts -> SUBSET (Stages \X Called)]

\* A backup that lists its sources through shadow copies opens the files of
\* every volume it knows of on the copy this command made of it, which exists,
\* or, if the volume was refused, where they are.  In particular a DoSnapshotSet
\* that failed without notice is noticed before anything is read, and no mapping
\* of an earlier attempt is left (the constructor, set_path_mapper,
\* set_base_objects).
ReadsFromItsShadows ==
    stage = "generate_archive" /\ state # "none" /\ base_objects_set = attempt =>
        /\ shadows = current_volumes \ failed_volumes
        /\ shadows # {} => snapshot_set[attempt] = "performed"
        /\ base_objects = [v \in Volumes |-> IF v \in shadows THEN attempt ELSE Live]

\* set use_snapshots (documentation.html:97), "If false, snapshots will not be
\* used when performing the backup": without a VssSnapshot the files are opened
\* where they are, whatever commands were typed before.
LiveWithoutSnapshots ==
    stage = "generate_archive" /\ state = "none" =>
        base_objects = [v \in Volumes |-> Live]

Uninitializing == {"abandon", "destroy"}
Constructing == {"begin", "push_target", "do_snapshot"}

\* The snapshots of a command that ended are deleted, whichever way it ended:
\* they stay only if the process died, a call of uninit failed, or the wait for
\* DoSnapshotSet failed although the snapshots were made (~VssSnapshot).
NoSnapshotLeft ==
    \A a \in Attempts :
        snapshot_set[a] = "performed" /\ (a < attempt \/ stage = "idle") =>
            \E e \in errors[a] :
                \/ e[1] \in Uninitializing
                \/ e[2] \in {"process", "DoSnapshotSet"}

\* The IVssBackupComponents is called only while it is held, and released once;
\* it stays unreleased only when a call of the constructor threw (uninit, and
\* the exceptions of begin, push_target and do_snapshot).
ComponentAccounted ==
    /\ stage \in {"push_target", "populate_properties", "perform_backup_inner", "generate_archive"}
            /\ state # "none"
        => component[attempt] = "held"
    /\ Calling /\ Due # "CreateVssBackupComponents" => component[attempt] = "held"
    /\ Releasing => component[attempt] = "held"
    /\ \A a \in Attempts :
        component[a] = "held" /\ (a < attempt \/ stage = "idle") =>
            \E e \in errors[a] : e[1] \in Constructing /\ e[2] # "process"
=============================================================================
