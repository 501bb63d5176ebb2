----------------------------- MODULE CommandLine -----------------------------
(***************************************************************************)
(* The command line of zekvok (LineProcessor.cpp): processes that run at   *)
(* the same time on one backup directory, each with at most one open       *)
(* BackupSystem and a selected version.  What a BackupSystem knows of the  *)
(* directory is the list of versions it read when it was opened; what a    *)
(* command that failed left in it is still there for the next one.         *)
(*                                                                         *)
(* A session is what it commits here (BackupSystem has its steps): for     *)
(* each source directory, a place with at most one file, the version that  *)
(* stores the file and its digest, by which contents are compared.  The    *)
(* user edits the files and deletes versions meanwhile.                    *)
(*                                                                         *)
(* Sessions run with use_snapshots off: with a shadow copy, the next one   *)
(* does not find its source again (module BackupSystem).  No content is    *)
(* empty: what a restore does with empty files is in module ArchiveIO.     *)
(***************************************************************************)
EXTENDS Integers, Sequences, FiniteSets

CONSTANTS
    Processes,      \* running instances of the program
    Places,         \* source directories
    Contents,       \* contents of a file
    NoFile,         \* the content of a place without its file
    Garbage,        \* what a misaligned read of an archive returns
    Environments,   \* which processes back up, whether archives get lost, and
                    \* which commands may fail half way for an outside reason
    Numbers,        \* bound: numbers typed after select version
    MaxVersion,     \* bound: versions 0 .. MaxVersion
    MaxClock        \* bound: edits, deletions and restores in a behaviour

ASSUME CommandLineAssumption ==
    /\ NoFile \notin Contents /\ Garbage \notin Contents
    /\ Environments \subseteq [writers : SUBSET Processes, losses : BOOLEAN,
                                failures : SUBSET {"backup", "restore"}]
    /\ Numbers \subseteq Int
    /\ MaxVersion \in Nat /\ MaxClock \in Nat

VARIABLES
    live,       \* place -> what its file holds
    clock,      \* edits, deletions and restores so far
    archives,   \* version -> what was written to its file, one part per session
    system,     \* process -> its BackupSystem and selected_version
    environment, \* what surrounds the processes in this behaviour
    verified    \* history: the version and the dependencies that verify full
                \* passed last, until a session writes to one of them

vars == <<live, clock, archives, system, environment, verified>>
-----------------------------------------------------------------------------
invalid_version_number == -1
Version == 0 .. MaxVersion

\* One session's share of an archive file: who wrote it, what it recorded of
\* each place (the version that stores the file, none without a file, and its
\* digest, which is what it holds), the places whose file it has a stream of,
\* the version_dependencies of its manifest, and, as history, whether it was
\* not the first attempt of its BackupSystem.
Held == Contents \cup {NoFile, Garbage}
Ref == Version \cup {invalid_version_number}
Part ==
    UNION {[writer : Processes, refs : [S -> Ref], hash : [S -> Held],
            stored : SUBSET S, dependencies : SUBSET Version, retried : BOOLEAN] :
                S \in SUBSET Places}

Existing == {v \in Version : archives[v] # <<>>}

\* A manifest is found from the end of its file, and so is the part of the
\* session that wrote last; a list in .aux is read from its start.
LastPart(v) == archives[v][Len(archives[v])]
FirstPart(v) == archives[v][1]

\* File system objects as a session recorded them; those of an .aux list have
\* encrypted names below their source directory.
Objects(part, encrypted) ==
    {[place |-> q, ref |-> part.refs[q], hash |-> part.hash[q], encrypted |-> encrypted] :
        q \in DOMAIN part.refs}

\* A LineProcessor without a backup_system.
NotOpen == [state |-> "none"]
Opened(p) == system[p] # NotOpen
Idle(p) == Opened(p) /\ system[p].state = "idle"
Writing(p) == Opened(p) /\ system[p].state = "writing"

\* set_versions and get_version_count.
Back(versions) == CHOOSE v \in versions : \A w \in versions : w <= v
get_version_count(versions) == IF versions = {} THEN 0 ELSE Back(versions) + 1
NewVersion(p) == get_version_count(system[p].versions)

\* version_exists: lower_bound finds any version that is not less.
version_exists(versions, number) == \E v \in versions : number <= v

\* base_objects, for each source directory: whether its file was there, the
\* backup mode of its object, the digest the object has (NoFile without one),
\* and whether a stream was made for it (its backup_stream is set).
Scanned == [present : BOOLEAN, mode : {"Full", "Unmodified"}, hash : Held, streamed : BOOLEAN]
NoScan == [q \in {} |-> FALSE]

NotVerified == [number |-> invalid_version_number, versions |-> {}]

\* What process_open sets up.  The last field is history: a command has failed.
NewSystem(versions) ==
    [state |-> "idle", versions |-> versions, selected |-> get_version_count(versions) - 1,
     sources |-> {}, old_objects |-> {}, scan |-> NoScan, scanned |-> FALSE,
     failed |-> FALSE]

Init ==
    /\ live \in [Places -> Contents]
    /\ clock = 0
    /\ archives = [v \in Version |-> <<>>]
    /\ system = [p \in Processes |-> NotOpen]
    /\ environment \in Environments
    /\ verified = NotVerified
-----------------------------------------------------------------------------
Update(p, sys) == system' = [system EXCEPT ![p] = sys]

\* Mutant: the BackupSystem is used once more.
ResetAfterBackup_Kept(p) == Update(p, [system[p] EXCEPT !.state = "idle"])

\* backup_system.reset() in process_backup.
ResetAfterBackup(p) == Update(p, NotOpen)

\* An exception ends the command; the BackupSystem stays as it was left.
Failed(p, sys) == Update(p, [sys EXCEPT !.state = "idle", !.failed = TRUE])

\* process_open: a new BackupSystem replaces the old one, whatever it held.
\* Nobody sees the files of a transaction that is not committed.
Open(p) ==
    /\ ~Writing(p)
    /\ Update(p, NewSystem(Existing))
    /\ UNCHANGED <<live, clock, archives, environment, verified>>

\* process_add: only a backup without versions ever looks at it.
Add(p, q) ==
    /\ Idle(p) /\ system[p].versions = {}
    /\ q \notin system[p].sources
    /\ Update(p, [system[p] EXCEPT !.sources = @ \cup {q}])
    /\ UNCHANGED <<live, clock, archives, environment, verified>>

\* process_select_version, when it does not throw.
SelectVersion(p, number) ==
    LET versions == system[p].versions
        v == IF number < 0 THEN number + get_version_count(versions) ELSE number
    IN  /\ Idle(p)
        /\ versions # {} /\ version_exists(versions, v)
        /\ Update(p, [system[p] EXCEPT !.selected = v])
        /\ UNCHANGED <<live, clock, archives, environment, verified>>

\* quit, and a process that dies: its transaction rolls back.
Quit(p) ==
    /\ Opened(p)
    /\ Update(p, NotOpen)
    /\ UNCHANGED <<live, clock, archives, environment, verified>>
-----------------------------------------------------------------------------
\* process_backup.

\* create_new_version reads the last listed archive and its .aux list;
\* old_objects becomes that list, whatever was in it.
KnownObjects(p) ==
    IF system[p].versions = {} THEN {} ELSE Objects(FirstPart(Back(system[p].versions)), TRUE)

\* set_base_objects, unless an earlier attempt did: the sources are those
\* added for a first version, and those of the last version afterwards.
Scan(p) ==
    IF system[p].scanned THEN system[p].scan
    ELSE [q \in IF system[p].versions = {} THEN system[p].sources
                ELSE {o.place : o \in KnownObjects(p)} |->
            [present |-> live[q] # NoFile, mode |-> "Full", hash |-> NoFile, streamed |-> FALSE]]

\* The archive is opened in a transaction, and for nobody else: another
\* session that is writing the same version makes the open fail.
BeginBackup(p) ==
    LET versions == system[p].versions
        begun == [system[p] EXCEPT !.state = "writing", !.old_objects = KnownObjects(p),
                                   !.scan = Scan(p), !.scanned = TRUE]
    IN  /\ Idle(p) /\ p \in environment.writers
        /\ NewVersion(p) \in Version
        /\ IF versions # {} /\ Back(versions) \notin Existing
           THEN Failed(p, system[p])
           ELSE IF \E r \in Processes : Writing(r) /\ NewVersion(r) = NewVersion(p)
           THEN Failed(p, begun)
           ELSE Update(p, begun)
        /\ UNCHANGED <<live, clock, archives, environment, verified>>

\* compute_hash: a digest the object has is not computed again.
compute_hash(p, q) ==
    IF system[p].scan[q].hash # NoFile THEN system[p].scan[q].hash ELSE live[q]

\* file_has_changed by digest: the old objects a file is found unchanged by.
\* One that cannot be read counts as unchanged.
Unchanged(p, q) ==
    {o \in system[p].old_objects :
        o.place = q /\ o.ref # invalid_version_number
        /\ compute_hash(p, q) \in {NoFile, o.hash}}

\* Mutant: a file is taken to be stored in the version after the new one.
Entry_NextVersion(p, q) == [ref |-> NewVersion(p) + 1, hash |-> live[q], stored |-> TRUE]

\* check_and_maybe_add: latest_version and hash of the file of place q in the
\* new version, and whether it is stored there.  An object that an earlier
\* attempt found unmodified is not looked up again: it claims the new version.
Entry(p, q) ==
    LET f == system[p].scan[q]
    IN  CASE ~f.present ->
                [ref |-> invalid_version_number, hash |-> NoFile, stored |-> FALSE]
          [] f.present /\ f.mode = "Unmodified" ->
                [ref |-> NewVersion(p), hash |-> f.hash, stored |-> FALSE]
          [] f.present /\ f.mode = "Full" /\ Unchanged(p, q) # {} ->
                LET o == CHOOSE o \in Unchanged(p, q) : TRUE
                IN  [ref |-> o.ref, hash |-> o.hash, stored |-> FALSE]
          [] OTHER -> [ref |-> NewVersion(p), hash |-> live[q], stored |-> TRUE]

\* get_dependencies over the objects: a stream that is there, also one an
\* earlier attempt made, is a FullStream and has none.
dependencies(p) ==
    LET scan == system[p].scan
    IN  {Entry(p, q).ref : q \in {r \in DOMAIN scan : ~Entry(p, r).stored /\ ~scan[r].streamed}}
            \ {invalid_version_number}

\* The session's part of the archive.
NewPart(p) ==
    LET scan == system[p].scan
    IN  [writer |-> p,
         refs |-> [q \in DOMAIN scan |-> Entry(p, q).ref],
         hash |-> [q \in DOMAIN scan |-> Entry(p, q).hash],
         stored |-> {q \in DOMAIN scan : Entry(p, q).stored},
         dependencies |-> dependencies(p),
         retried |-> \E q \in DOMAIN scan : scan[q].streamed \/ scan[q].mode = "Unmodified"]

\* The objects as an attempt leaves them that failed: compute_hash has left the
\* digest a file was compared by (a first version compares nothing), set_hash
\* after the copy the one of the copy.
LeftByAttempt(p, copied) ==
    [q \in DOMAIN system[p].scan |->
        LET f == system[p].scan[q] e == Entry(p, q)
        IN  [f EXCEPT !.mode = IF f.present /\ ~e.stored THEN "Unmodified" ELSE @,
                      !.hash = IF ~e.stored \/ q \in copied THEN e.hash
                               ELSE IF system[p].versions = {} THEN @ ELSE compute_hash(p, q),
                      !.streamed = @ \/ e.stored]]

\* archive_process_callback and what follows, up to the commit.  A file that
\* cannot be opened ends the session.
EndBackup(p) ==
    LET part == NewPart(p)
        missing == {q \in part.stored : live[q] = NoFile}
    IN  /\ Writing(p)
        /\ \/ /\ missing # {} \/ "backup" \in environment.failures
              /\ \E copied \in SUBSET (part.stored \ missing) :
                    Failed(p, [system[p] EXCEPT !.scan = LeftByAttempt(p, copied)])
              /\ UNCHANGED <<archives, verified>>
           \/ /\ missing = {}
              /\ archives' = [archives EXCEPT ![NewVersion(p)] = Append(@, part)]
              /\ verified' = IF NewVersion(p) \in verified.versions THEN NotVerified ELSE verified
              /\ ResetAfterBackup(p)
        /\ UNCHANGED <<live, clock, environment>>
-----------------------------------------------------------------------------
\* process_restore and process_verify.

\* The version a restore of the selected one is about.
Requested(p) ==
    IF system[p].selected >= 0 THEN system[p].selected
    ELSE Back(system[p].versions) + system[p].selected + 1

\* What restore_backup and compute_latest_version need to get past their
\* exceptions: the version, and then its dependencies.
Found(p, number) == version_exists(system[p].versions, number) /\ number \in Existing
DependenciesFound(number) == LastPart(number).dependencies \subseteq Existing

\* old_objects after compute_latest_version: added to what was there.
ObjectsToRestore(p, number) ==
    system[p].old_objects \cup Objects(LastPart(number), FALSE)

\* backup_system.reset() in process_restore.
ResetAfterRestore(p) == Update(p, NotOpen)

\* The objects restore_later gets: those with a stream.
Stored(objects) == {o \in objects : o.ref # invalid_version_number}

\* The archive of an object is that of one session, which took the file of the
\* place to be stored there ...
Recorded(o) ==
    /\ o.ref \in Existing /\ Len(archives[o.ref]) = 1
    /\ o.place \in DOMAIN LastPart(o.ref).refs
    /\ LastPart(o.ref).refs[o.place] = o.ref

\* ... and stored it, or did so in an earlier attempt only.
HasStream(o) == Recorded(o) /\ o.place \in LastPart(o.ref).stored
LostStream(o) == Recorded(o) /\ o.place \notin LastPart(o.ref).stored

\* What the stream of an object holds: an archive two sessions wrote to is read
\* at the positions of one of them, and a stream the archive does not have may
\* be taken for another.
StreamOf(o) == IF HasStream(o) THEN LastPart(o.ref).hash[o.place] ELSE Garbage

\* The files after restore_thread went through the versions below end: every
\* object's source is deleted first, the last object written to a place stays,
\* and an object of the list in .aux with the same stream may be written,
\* under its encrypted name, in place of another.
Restored(objects, end, displaced) ==
    [q \in Places |->
        LET written == {o \in Stored(objects) \ displaced :
                            o.place = q /\ ~o.encrypted /\ o.ref < end}
        IN  IF \A o \in objects : o.place # q THEN live[q]
            ELSE IF written = {} THEN NoFile
            ELSE StreamOf(CHOOSE o \in written : \A w \in written : w.ref <= o.ref)]

Displaceable(objects) ==
    {o \in Stored(objects) : ~o.encrypted /\
        \E e \in objects : e.encrypted /\ e.place = o.place /\ e.ref = o.ref}

\* Where restore_thread comes to an end early: an archive that is missing is an
\* exception, and where it finds a lost stream, whose id is that of an older
\* version and less than all in the archive, the assertion fails before a file
\* of the archive is restored.  It may fail as well where a stream is taken for
\* another.
MissingArchives(objects) == {o.ref : o \in Stored(objects)} \ Existing
Complete(objects) == MissingArchives(objects) = {}
LostStreams(objects) == {o.ref : o \in {s \in Stored(objects) : LostStream(s)}}
MayAssert(objects) ==
    {o.ref : o \in {s \in Stored(objects) : s.ref \in Existing /\ ~HasStream(s)}}

\* The restore goes up to one of these archives, or less far when it fails for
\* an outside reason.
EndsAt(stops, objects) ==
    {v \in IF "restore" \in environment.failures THEN Version ELSE stops :
        \A s \in MissingArchives(objects) \cup LostStreams(objects) : v <= s}

\* process_restore, when restore_backup returns.
RestoreBackup(p) ==
    LET number == Requested(p)
        objects == ObjectsToRestore(p, number)
    IN  /\ Idle(p)
        /\ \/ /\ system[p].versions = {}
              /\ UNCHANGED <<live, clock>>
           \/ /\ system[p].versions # {} /\ Found(p, number)
              /\ DependenciesFound(number)
              /\ Complete(objects) /\ LostStreams(objects) = {}
              /\ clock < MaxClock /\ clock' = clock + 1
              /\ \E displaced \in SUBSET Displaceable(objects) :
                    live' = Restored(objects, MaxVersion + 1, displaced)
        /\ ResetAfterRestore(p)
        /\ UNCHANGED <<archives, environment, verified>>

\* process_restore, when restore_backup throws.  What the command line does not
\* catch ends the process, the failed assertion for one.
RestoreFails(p) ==
    LET number == Requested(p)
        objects == ObjectsToRestore(p, number)
        after == [system[p] EXCEPT !.old_objects = objects]
    IN  /\ Idle(p) /\ system[p].versions # {}
        /\ \/ /\ ~Found(p, number)
              /\ Failed(p, system[p])
              /\ UNCHANGED <<live, clock>>
           \/ /\ Found(p, number) /\ ~DependenciesFound(number)
              /\ Failed(p, after)
              /\ UNCHANGED <<live, clock>>
           \/ /\ Found(p, number) /\ DependenciesFound(number)
              /\ clock < MaxClock /\ clock' = clock + 1
              /\ \E displaced \in SUBSET Displaceable(objects) :
                    \/ \E end \in EndsAt(MissingArchives(objects), objects) :
                        /\ live' = Restored(objects, end, displaced)
                        /\ Failed(p, after)
                    \/ \E end \in EndsAt(MayAssert(objects), objects) :
                        /\ live' = Restored(objects, end, displaced)
                        /\ Update(p, NotOpen)
        /\ UNCHANGED <<archives, environment, verified>>

\* verify: the digest of an archive covers what one session wrote.
verify(p, number) ==
    version_exists(system[p].versions, number) /\ number \in Existing
    /\ Len(archives[number]) = 1

\* Mutant: the dependencies are left out.
full_verify_Alone(p) == verify(p, system[p].selected)

\* full_verify of the selected version: its dependencies as well.
full_verify(p) ==
    LET number == system[p].selected
    IN  /\ verify(p, number)
        /\ \A d \in LastPart(number).dependencies : verify(p, d)

\* process_verify, verify full, when it passes; it changes nothing otherwise.
VerifyFull(p) ==
    LET number == system[p].selected
    IN  /\ Idle(p) /\ system[p].versions # {}
        /\ full_verify(p)
        /\ verified' = [number |-> number,
                        versions |-> {number} \cup LastPart(number).dependencies]
        /\ UNCHANGED <<live, clock, archives, system, environment>>
-----------------------------------------------------------------------------
\* The user, between any two steps.

EditFile(q) ==
    /\ clock < MaxClock /\ clock' = clock + 1
    /\ \E c \in Contents \cup {NoFile} : live' = [live EXCEPT ![q] = c]
    /\ UNCHANGED <<archives, system, environment, verified>>

\* The archive of a version and its list; not while they are being written.
DeleteVersion(v) ==
    /\ environment.losses /\ v \in Existing
    /\ clock < MaxClock /\ clock' = clock + 1
    /\ archives' = [archives EXCEPT ![v] = <<>>]
    /\ UNCHANGED <<live, system, environment, verified>>

Next ==
    \/ \E p \in Processes :
        \/ Open(p)
        \/ \E q \in Places : Add(p, q)
        \/ \E number \in Numbers : SelectVersion(p, number)
        \/ BeginBackup(p)
        \/ EndBackup(p)
        \/ RestoreBackup(p)
        \/ RestoreFails(p)
        \/ VerifyFull(p)
        \/ Quit(p)
    \/ \E q \in Places : EditFile(q)
    \/ \E v \in Version : DeleteVersion(v)

Spec == Init /\ [][Next]_vars
-----------------------------------------------------------------------------
Object == [place : Places, ref : Ref, hash : Held, encrypted : BOOLEAN]
System ==
    [state : {"idle", "writing"}, versions : SUBSET Version, selected : Int,
     sources : SUBSET Places,
     old_objects : SUBSET Object,
     scan : UNION {[S -> Scanned] : S \in SUBSET Places},
     scanned : BOOLEAN, failed : BOOLEAN]

\* The variables have their types.
TypeOK ==
    /\ live \in [Places -> Held]
    /\ clock \in 0 .. MaxClock
    /\ archives \in [Version -> Seq(Part)]
    /\ system \in [Processes -> System \cup {NotOpen}]
    /\ environment \in Environments
    /\ verified \in [number : Ref, versions : SUBSET Version]

\* The selected version has passed verify full, in this process or in another,
\* and no session has written to it or to its dependencies since.
HasPassed(p) ==
    /\ system[p].versions # {} /\ verified # NotVerified
    /\ system[p].selected = verified.number

\* It was not written by a further attempt of a backup that had failed.
FirstAttempt == verified.number \in Existing => ~LastPart(verified.number).retried

\* A restore of it that succeeds brings back what the version has recorded, file
\* for file, and one that misses an archive leaves the files alone.
RestoresExactly(p) ==
    LET number == verified.number
    IN  /\ RestoreBackup(p) =>
            LET recorded == LastPart(number).hash
            IN  live' = [q \in Places |-> IF q \in DOMAIN recorded THEN recorded[q] ELSE live[q]]
        /\ RestoreFails(p) /\ (number \notin Existing \/ ~Complete(ObjectsToRestore(p, number)))
            => UNCHANGED live

\* What a user asks of verify full: after it passed, a restore of the version
\* is that version, whatever sessions of other versions, edits and commands of
\* any process came between the two, or it ends before a file is deleted if
\* archives were deleted meanwhile (process_verify, process_restore).  This is
\* so for what a first attempt wrote, and when no command has failed in the
\* BackupSystem that restores.
VerifiedRestoresExactly ==
    [][\A p \in Processes :
        Idle(p) /\ ~system[p].failed /\ HasPassed(p) /\ FirstAttempt
            => RestoresExactly(p)]_vars

\* documentation.html:115, "also checks all dependencies of the selected
\* version": the same for what further attempts wrote.
RetriedRestoresExactly ==
    [][\A p \in Processes :
        Idle(p) /\ ~system[p].failed /\ HasPassed(p) => RestoresExactly(p)]_vars

\* documentation.html:41, "Restore a backup at the selected version": the same,
\* whatever commands have failed before.
RestoresSelectedVersion ==
    [][\A p \in Processes :
        Idle(p) /\ HasPassed(p) /\ FirstAttempt => RestoresExactly(p)]_vars

\* A TransactedFileSink appends to an archive that is there, so that two
\* sessions of stale lists write to one file.  No process does this to itself:
\* process_backup closes the list its own commit made stale.
NoSelfAppend ==
    \A v \in Version : \A i, j \in 1 .. Len(archives[v]) :
        archives[v][i].writer = archives[v][j].writer => i = j
=============================================================================
