---------------------------- MODULE BackupSystem ----------------------------
(***************************************************************************)
(* The backup core of zekvok (BackupSystem.cpp, ArchiveIO.cpp,             *)
(* VersionForRestore.cpp, serialization/FileSystemObject.cpp): sessions    *)
(* that write one archive per version, and restores that put one version   *)
(* together from the archives it depends on.                               *)
(*                                                                         *)
(* The user's files change between the commands, and, when LiveEdits says  *)
(* so, between the steps of a backup.  A file has a name (a path) and an   *)
(* inode that holds its data and its modification time; a path may also be *)
(* a symbolic link to another path.  Contents, sizes and digests are       *)
(* abstract: a digest is the content it is computed from.                  *)
(***************************************************************************)
EXTENDS Integers, Sequences, FiniteSets

CONSTANTS
    Paths,          \* file paths, numbered in the order a directory lists them
    Sources,        \* for each source directory, the set of paths below it
    Data,           \* possible contents of a file
    EmptyData,      \* the content of length 0
    SizeOf,         \* length of each content
    ExtensionRank,  \* position of the path's extension in the sort of streams
    HashAutoLimit,  \* 1 MiB: below it hash_auto compares digests
    Garbage,        \* what a misaligned read of an archive returns
    NoHash,         \* a digest that was never computed
    Snapshots,      \* values of set use_snapshots a session may be run with
    Locked,         \* paths another program may keep from being opened
    Criteria,       \* change criteria a session may be run with
    Exclusions,     \* exclude commands a session may be run with
    InitialFiles,   \* paths that exist at the start
    InitialData,    \* their content
    Writable,       \* bound: contents the user writes
    Linkable,       \* bound: <<p, q>> when the user may make p a link to q
    IdleEdits,      \* edits the user makes between two commands
    LiveEdits,      \* edits the user makes while a backup runs
    Deletions,      \* files of the backup the user may delete
    MaxRetries,     \* bound: times a failed backup command is typed again
    MaxVersion,     \* bound: versions 0 .. MaxVersion
    MaxClock        \* bound: edits and restores in a behaviour

Edits == {"write", "create", "delete", "hardlink", "symlink"}

ASSUME PathsAssumption ==
    /\ Paths \subseteq Nat \ {0} /\ IsFiniteSet(Paths)
    /\ Sources \in Seq(SUBSET Paths)
ASSUME DataAssumption ==
    /\ EmptyData \in Data /\ Garbage \notin Data /\ NoHash \notin Data
    /\ SizeOf \in [Data -> Nat]
    /\ \A d \in Data : SizeOf[d] = 0 <=> d = EmptyData
    /\ ExtensionRank \in [Paths -> Nat]
    /\ HashAutoLimit \in Nat
ASSUME CommandsAssumption ==
    /\ Snapshots \subseteq BOOLEAN
    /\ Locked \subseteq Paths
    /\ Criteria \subseteq {"ArchiveFlag", "Size", "Date", "Hash", "HashAuto"}
    /\ Exclusions \subseteq [files : SUBSET Paths, hidden : SUBSET Paths]
    /\ InitialFiles \subseteq Paths /\ InitialData \in Data
    /\ Writable \subseteq Data
    /\ Linkable \subseteq Paths \X Paths
    /\ IdleEdits \subseteq Edits /\ LiveEdits \subseteq Edits
    /\ Deletions \subseteq {"archive", "version", "aux"}
ASSUME BoundsAssumption ==
    MaxRetries \in Nat /\ MaxVersion \in Nat /\ MaxClock \in Nat

VARIABLES
    node,       \* path -> what the path is: nothing, a file, a link
    disk,       \* inode -> data and modification time
    clock,      \* number of edits so far, the source of modification times
    archives,   \* version -> committed archive file
    aux,        \* version -> object lists in the .aux/fsoN.dat file
    phase,      \* where the running backup is
    session,    \* what the running backup was started with
    objects,    \* slot -> file system object of the running backup
    todo,       \* slots generate_streams has not reached
    known,      \* known_guids
    streams,    \* slots that own a stream with data
    nextId,     \* next_stream_id
    deps,       \* version_dependencies
    queue,      \* streams to store, in the order of the archive
    opened,     \* size of the file add_files has open, -1 when none
    parts,      \* streams written so far
    window,     \* history: contents each covered path had during the session
    promised    \* history: the window of every committed version

fsVars == <<node, disk, clock>>
storeVars == <<archives, aux, promised>>
sessionVars == <<session, objects, todo, known, streams, nextId, deps, queue,
                 opened, parts, window>>
vars == <<fsVars, storeVars, phase, sessionVars>>
-----------------------------------------------------------------------------
\* The file system as seen by the program.

Live == 0
Version == 0 .. MaxVersion
invalid_version_number == -1
invalid_stream_id == 0
first_valid_stream_id == 1

\* A version without an archive file: no manifest says what comes next.
NoArchive == [nextId |-> invalid_stream_id]

NoNode == [type |-> "none", ref |-> 0]
FileNode(ino) == [type |-> "file", ref |-> ino]
LinkNode(target) == [type |-> "link", ref |-> target]
Node == {NoNode} \cup {FileNode(i) : i \in Paths} \cup {LinkNode(p) : p \in Paths}

LiveView == [node |-> node, disk |-> disk]
NoView == [node |-> <<>>, disk |-> <<>>]

UseSnapshots == session.use_snapshots

\* What a running session reads: the shadow copy, or the live files.
View == IF UseSnapshots THEN session.view ELSE LiveView

\* The inode an open of p reaches (links are followed), 0 when it fails.
Resolve(v, p) ==
    CASE v.node[p].type = "file" -> v.node[p].ref
      [] v.node[p].type = "link" /\ v.node[v.node[p].ref].type = "file" ->
            v.node[v.node[p].ref].ref
      [] OTHER -> 0

\* get_file_system_object_type
TypeOf(v, p) ==
    IF v.node[p].type = "link" THEN "FileSymlink"
    ELSE IF \E q \in Paths \ {p} : v.node[q] = v.node[p] THEN "FileHardlink"
    ELSE "RegularFile"

\* get_file_size: the attributes of a link itself say 0.
FileSize(v, p) ==
    IF v.node[p].type = "file" THEN SizeOf[v.disk[v.node[p].ref].data] ELSE 0

ModificationTime(v, p) ==
    IF Resolve(v, p) = 0 THEN 0 ELSE v.disk[Resolve(v, p)].date

\* get_file_guid: CreateFileW follows a link, and opens the link itself only
\* when its target is missing.
FileGuid(v, p) == IF Resolve(v, p) = 0 THEN -p ELSE Resolve(v, p)

\* FilishFso::set_members, set_file_attributes, set_backup_mode.
NewFso(v, p, exclusion) ==
    [path |-> p,
     type |-> TypeOf(v, p),
     link_target |-> IF v.node[p].type = "link" THEN v.node[p].ref ELSE 0,
     size |-> FileSize(v, p),
     date |-> ModificationTime(v, p),
     guid |-> FileGuid(v, p),
     mode |-> IF p \in exclusion.files THEN "NoBackup" ELSE "Full",
     latest |-> invalid_version_number,
     stream_id |-> invalid_stream_id,
     hash |-> NoHash]

\* A slot is a path below one of the sources; the iterators of the base
\* objects visit the slots in this order.
Slots == {s \in (1 .. Len(Sources)) \X Paths : s[2] \in Sources[s[1]]}
Precedes(s, t) == s[1] < t[1] \/ (s[1] = t[1] /\ s[2] < t[2])

\* DirectoryFso reads the children of a directory that is not excluded.
Listed(v, exclusion) ==
    {s \in Slots : v.node[s[2]].type # "none" /\ s[2] \notin exclusion.hidden}
ScannedObjects(v, exclusion) ==
    [s \in Listed(v, exclusion) |-> NewFso(v, s[2], exclusion)]

\* What the path holds, as far as a user can tell.
Content(v, p) ==
    CASE v.node[p].type = "none" -> [what |-> "nothing", value |-> 0]
      [] v.node[p].type = "link" -> [what |-> "link", value |-> v.node[p].ref]
      [] OTHER -> [what |-> "file", value |-> v.disk[v.node[p].ref].data]
Nothing == [what |-> "nothing", value |-> 0]
-----------------------------------------------------------------------------
\* The backup directory.

Versions == {v \in Version : archives[v] # NoArchive}

\* BackupSystem::get_version_count over the sorted numbers of the files.
get_version_count ==
    IF Versions = {} THEN 0
    ELSE 1 + (CHOOSE v \in Versions : \A w \in Versions : w <= v)

\* BackupSystem::map_forward, on the device of a base path.  The snapshot is
\* the device of the session's shadow copy, numbered after the version it
\* writes, or Live when the session makes none.
map_forward(device, snapshot) == IF device = Live THEN snapshot ELSE device

\* Mutant: no fallback on the list in the archive.
get_old_objects_AuxOnly(v, snapshot) ==
    IF aux[v] # <<>>
    THEN [mapped |-> map_forward(aux[v][1].unmapped, snapshot),
          objects |-> aux[v][1].objects]
    ELSE [mapped |-> archives[v].mapped, objects |-> [s \in {} |-> 0]]

\* get_old_objects: the first list in the .aux file, rebased on the current
\* devices, or else the list in the archive with the devices it was read from.
get_old_objects(v, snapshot) ==
    IF aux[v] # <<>>
    THEN [mapped |-> map_forward(aux[v][1].unmapped, snapshot),
          objects |-> aux[v][1].objects]
    ELSE [mapped |-> archives[v].mapped, objects |-> archives[v].objects]

NoObjects == [s \in {} |-> 0]

\* Mutant: next_stream_id is not read from the manifest.
StartingPoint_FirstId(snapshot) ==
    IF get_version_count = 0
    THEN [place |-> Live, objects |-> NoObjects, nextId |-> first_valid_stream_id]
    ELSE LET old == get_old_objects(get_version_count - 1, snapshot)
         IN  [place |-> old.mapped, objects |-> old.objects,
              nextId |-> first_valid_stream_id]

\* What a session starts from: the sources of the first version are those of
\* the add commands, later ones are the base objects of the previous version.
\* A base object found on the device "place" is listed there again.
StartingPoint(snapshot) ==
    IF get_version_count = 0
    THEN [place |-> Live, objects |-> NoObjects, nextId |-> first_valid_stream_id]
    ELSE LET v == get_version_count - 1
             old == get_old_objects(v, snapshot)
         IN  [place |-> old.mapped, objects |-> old.objects,
              nextId |-> archives[v].nextId]

\* perform_backup, perform_backup_inner, create_initial_version,
\* create_new_version and set_base_objects.  The loop over old_objects_map in
\* create_new_version stops at the base object, a directory whose stream id
\* nothing reads.  A source on a device that is gone is taken for a junction
\* (get_file_system_object_type), whose target the reporter says is missing: the
\* command goes on with a base object below which there is nothing.
BeginBackup(exclusion, criterium, use_snapshots) ==
    LET version == get_version_count
        snapshot == IF use_snapshots THEN version + 1 ELSE Live
        start == StartingPoint(snapshot)
        mapped == map_forward(start.place, snapshot)
        listed == IF mapped \in {Live, snapshot}
                  THEN ScannedObjects(LiveView, exclusion) ELSE NoObjects
    IN  /\ phase = "idle"
        /\ version \in Version
        /\ phase' = "generating"
        /\ session' = [version |-> version,
                       criterium |-> criterium,
                       use_snapshots |-> use_snapshots,
                       view |-> IF use_snapshots THEN LiveView ELSE NoView,
                       unmapped |-> start.place,
                       mapped |-> mapped,
                       retries |-> 0, owners |-> {},
                       old |-> IF start.place = mapped
                               THEN start.objects ELSE NoObjects]
        /\ objects' = listed
        /\ todo' = DOMAIN listed
        /\ known' = {}
        /\ streams' = {}
        /\ nextId' = start.nextId
        /\ deps' = {}
        /\ queue' = <<>>
        /\ opened' = -1
        /\ parts' = <<>>
        /\ window' = [p \in {q \in Paths : /\ q \notin exclusion.files
                                           /\ q \notin exclusion.hidden} |->
                        {Content(LiveView, p)}]
        /\ UNCHANGED <<fsVars, storeVars>>
-----------------------------------------------------------------------------
\* generate_streams: one step per file system object.

\* should_be_added, the version it leaves in the object ...
version_if_added(f) ==
    IF f.mode = "NoBackup" \/ f.type = "FileHardlink"
    THEN invalid_version_number ELSE session.version

\* ... and whether it returns true.
should_be_added(f) ==
    /\ f.mode # "NoBackup"
    /\ f.type # "FileHardlink"
    /\ f.guid \notin known

\* The old object FileSystemObject::find returns for the path: the one below
\* the first base object that has it.
OldSlots(p) == {t \in DOMAIN session.old : t[2] = p}
OldObject(p) ==
    session.old[CHOOSE t \in OldSlots(p) : \A u \in OldSlots(p) \ {t} : Precedes(t, u)]

get_change_criterium(f) ==
    IF session.criterium # "HashAuto" THEN session.criterium
    ELSE IF f.size < HashAutoLimit THEN "Hash" ELSE "Date"

\* FilishFso::compute_hash: a digest the object has already, from an earlier
\* attempt, is not computed again; there is none when the file cannot be read.
compute_hash(f) ==
    IF f.hash # NoHash THEN f.hash
    ELSE IF Resolve(View, f.path) = 0 THEN NoHash
    ELSE View.disk[Resolve(View, f.path)].data

\* Mutant: equal digests mean a change.
compare_hashes_Inverted(f, old) ==
    old.hash = NoHash \/ compute_hash(f) = NoHash \/ compute_hash(f) # old.hash

\* compare_hashes: also true when the old digest is missing and when the new
\* file cannot be read.
compare_hashes(f, old) ==
    old.hash = NoHash \/ compute_hash(f) \in {NoHash, old.hash}

\* Mutant: an equal date counts as a change.
file_has_changed_Later(f) ==
    \/ OldSlots(f.path) = {}
    \/ LET old == OldObject(f.path)
           criterium == get_change_criterium(f)
       IN  \/ criterium = "Date" /\ f.date >= old.date
           \/ criterium = "Hash" /\ ~compare_hashes(f, old)

\* The archive flag is set by every write and never cleared by the program.
file_has_changed(f) ==
    \/ OldSlots(f.path) = {}
    \/ LET old == OldObject(f.path)
           criterium == get_change_criterium(f)
       IN  \/ criterium = "ArchiveFlag"
           \/ criterium = "Size" /\ f.size # old.size
           \/ criterium = "Date" /\ f.date # old.date
           \/ criterium = "Hash" /\ ~compare_hashes(f, old)

\* A file for which file_has_changed leaves a digest in the new object.
HasDigest(f) ==
    /\ session.version # 0
    /\ \/ OldSlots(f.path) = {}
       \/ get_change_criterium(f) = "Hash" /\ OldObject(f.path).hash # NoHash

\* Mutant: the stream id is not taken over.
ReferToOld_NoStream(f) ==
    LET old == OldObject(f.path)
    IN  [f EXCEPT !.mode = "Unmodified", !.latest = old.latest, !.hash = old.hash]

\* The object of an unmodified file points at the stream of the old one.
ReferToOld(f) ==
    LET old == OldObject(f.path)
    IN  [f EXCEPT !.mode = "Unmodified", !.latest = old.latest,
                  !.stream_id = old.stream_id,
                  !.hash = IF old.hash = NoHash THEN @ ELSE old.hash]

\* generate_initial_stream or check_and_maybe_add, and the body of the loop in
\* generate_streams.  fix_up_stream_reference returns at once for an object
\* with a valid guid, and there is no other in known_guids.  An object that an
\* earlier attempt found unmodified is not looked up again.
GenerateStream(s) ==
    LET f == [objects[s] EXCEPT !.latest = version_if_added(objects[s])]
        added == should_be_added(objects[s])
        checked == added /\ f.mode = "Full"
        stored == checked /\ file_has_changed(f)
    IN  /\ phase = "generating"
        /\ s \in todo
        /\ \A t \in todo \ {s} : Precedes(s, t)
        /\ todo' = todo \ {s}
        /\ objects' = [objects EXCEPT ![s] =
                        IF stored
                        THEN [f EXCEPT !.stream_id = nextId,
                                       !.hash = IF HasDigest(f) THEN compute_hash(f) ELSE @]
                        ELSE IF checked THEN ReferToOld(f) ELSE f]
        /\ nextId' = IF stored THEN nextId + 1 ELSE nextId
        /\ streams' = IF stored THEN streams \cup {s} ELSE streams
        /\ known' = IF added THEN known \cup {f.guid} ELSE known
        /\ UNCHANGED <<fsVars, storeVars, phase, session, deps, queue, opened,
                       parts, window>>
-----------------------------------------------------------------------------
\* archive_process_files: dependencies, order of the streams, and the copy.

\* Mutant: the stored objects are counted, not the others.
dependencies_Stored ==
    {objects[s].latest : s \in streams} \ {invalid_version_number}

\* get_dependencies over the iterators, fso by fso.  An object whose
\* backup_stream an earlier attempt has set adds none.
dependencies ==
    {objects[s].latest : s \in DOMAIN objects \ (streams \cup session.owners)}
        \ {invalid_version_number}

\* The comparison reorder_file_streams hands to std::sort.
SortsBefore(s, t) ==
    \/ ExtensionRank[s[2]] < ExtensionRank[t[2]]
    \/ /\ ExtensionRank[s[2]] = ExtensionRank[t[2]]
       /\ objects[s].size < objects[t].size

\* std::sort is not stable: any order that agrees with the comparison.
SortedOrders ==
    {f \in [1 .. Cardinality(streams) -> streams] :
        /\ \A s \in streams : \E i \in DOMAIN f : f[i] = s
        /\ \A i, j \in DOMAIN f : i < j => ~SortsBefore(f[j], f[i])}

\* old_ids, sorted.
StreamIds == {objects[s].stream_id : s \in streams}

\* Mutant: the ids are sorted the wrong way.
NthId_Descending(i) ==
    CHOOSE id \in StreamIds : Cardinality({x \in StreamIds : x > id}) = i - 1

NthId(i) ==
    CHOOSE id \in StreamIds : Cardinality({x \in StreamIds : x < id}) = i - 1

\* archive_process_files with reorder_file_streams: the streams get the ids
\* that were handed out again, in the order of the archive.
ReorderFileStreams(order) ==
    /\ phase = "generating"
    /\ todo = {}
    /\ phase' = "storing"
    /\ deps' = dependencies
    /\ queue' = order
    /\ objects' = [s \in DOMAIN objects |->
            IF s \in streams
            THEN [objects[s] EXCEPT
                    !.stream_id = NthId(CHOOSE i \in DOMAIN order : order[i] = s)]
            ELSE objects[s]]
    /\ UNCHANGED <<fsVars, storeVars, session, todo, known, streams, nextId,
                   opened, parts, window>>

\* The object add_files is at.
Current == queue[Len(parts) + 1]
Storing == phase = "storing" /\ Len(parts) < Len(queue)

\* Mutant: the size is that of the file, not of its shadow copy.
OpenFile_Unmapped ==
    /\ Storing
    /\ opened = -1
    /\ Resolve(View, Current[2]) # 0
    /\ opened' = FileSize(LiveView, Current[2])
    /\ UNCHANGED <<fsVars, storeVars, phase, session, objects, todo, known,
                   streams, nextId, deps, queue, parts, window>>

\* ArchiveWriter::add_files, open_for_exclusive_read: the size is taken, and
\* the file opened; nothing keeps it from changing.
OpenFile ==
    /\ Storing
    /\ opened = -1
    /\ Resolve(View, Current[2]) # 0
    /\ opened' = FileSize(View, Current[2])
    /\ UNCHANGED <<fsVars, storeVars, phase, session, objects, todo, known,
                   streams, nextId, deps, queue, parts, window>>

\* Mutant: the digest is read before the last block is in it.
StoreFile_EarlyDigest ==
    LET data == IF opened = 0 THEN EmptyData
                ELSE View.disk[Resolve(View, Current[2])].data
    IN  /\ Storing
        /\ opened # -1
        /\ parts' = Append(parts, [id |-> objects[Current].stream_id,
                                   size |-> opened, data |-> data])
        /\ objects' = [objects EXCEPT ![Current].hash = Garbage]
        /\ opened' = -1
        /\ UNCHANGED <<fsVars, storeVars, phase, session, todo, known, streams,
                       nextId, deps, queue, window>>

\* add_files, the copy of the whole file (of nothing when the size was 0) and
\* set_hash.
StoreFile ==
    LET data == IF opened = 0 THEN EmptyData
                ELSE View.disk[Resolve(View, Current[2])].data
    IN  /\ Storing
        /\ opened # -1
        /\ parts' = Append(parts, [id |-> objects[Current].stream_id,
                                   size |-> opened, data |-> data])
        /\ objects' = [objects EXCEPT ![Current].hash = data]
        /\ opened' = -1
        /\ UNCHANGED <<fsVars, storeVars, phase, session, todo, known, streams,
                       nextId, deps, queue, window>>

\* The members of a FileSystemObject that fso.txt serializes.
Serialized(f) ==
    [path |-> f.path, type |-> f.type, link_target |-> f.link_target,
     size |-> f.size, date |-> f.date, latest |-> f.latest,
     stream_id |-> f.stream_id, hash |-> f.hash]

NoSession ==
    /\ phase' = "idle"
    /\ session' = [version |-> 0, criterium |-> "none",
                   use_snapshots |-> FALSE, view |-> NoView,
                   unmapped |-> Live, mapped |-> Live, retries |-> 0, owners |-> {},
                   old |-> NoObjects]
    /\ objects' = NoObjects
    /\ todo' = {} /\ known' = {} /\ streams' = {} /\ nextId' = 0
    /\ deps' = {} /\ queue' = <<>> /\ opened' = -1 /\ parts' = <<>>
    /\ window' = NoObjects

\* Mutant: create_new_version leaves the argument out.
target_version_Defaulted == 0

\* The version argument of generate_archive, 0 by default.
target_version == session.version

\* archive_process_objects, archive_process_manifest, the end of
\* ArchiveWriter::process, save_encrypted_base_objects (which appends to a
\* file that is there) and ~KernelTransaction: both files appear at once.
CommitBackup ==
    LET v == target_version
        written == [s \in DOMAIN objects |-> Serialized(objects[s])]
    IN  /\ phase = "storing"
        /\ Len(parts) = Len(queue)
        /\ archives' = [archives EXCEPT ![v] =
                [parts |-> parts, objects |-> written,
                 unmapped |-> session.unmapped, mapped |-> session.mapped,
                 deps |-> deps, nextId |-> nextId]]
        /\ aux' = [aux EXCEPT ![v] =
                Append(@, [unmapped |-> session.unmapped, objects |-> written])]
        /\ promised' = [promised EXCEPT ![v] = window]
        /\ NoSession
        /\ UNCHANGED fsVars

CannotOpen(p) == Resolve(View, p) = 0 \/ (p \in Locked /\ ~UseSnapshots)

\* Mutant: the exception is swallowed and the file tried again.
FailToOpen_Retry ==
    /\ Storing
    /\ opened = -1
    /\ CannotOpen(Current[2])
    /\ UNCHANGED vars

\* open_for_exclusive_read throws: ~KernelTransaction rolls back, and the
\* exception, a NonFatalException, is caught in LineProcessor::process.  The
\* BackupSystem with its scan and its next stream id is still there.
FailToOpen ==
    /\ Storing
    /\ opened = -1
    /\ CannotOpen(Current[2])
    /\ phase' = "failed"
    /\ session' = [session EXCEPT !.owners = @ \cup streams]
    /\ known' = {} /\ streams' = {} /\ deps' = {} /\ queue' = <<>> /\ parts' = <<>>
    /\ UNCHANGED <<fsVars, storeVars, objects, todo, nextId, opened, window>>

\* Mutant: the numbers start again where the last version stopped.
RetryBackup_FirstId(criterium) ==
    /\ phase = "failed"
    /\ session.retries < MaxRetries
    /\ ~UseSnapshots
    /\ phase' = "generating"
    /\ session' = [session EXCEPT !.criterium = criterium, !.retries = @ + 1]
    /\ todo' = DOMAIN objects
    /\ nextId' = invalid_stream_id
    /\ window' = [p \in DOMAIN window |-> {Content(LiveView, p)}]
    /\ UNCHANGED <<fsVars, storeVars, objects, known, streams, deps, queue, opened, parts>>

\* The backup command after one that failed: set_base_objects returns at once,
\* and the objects of the first attempt are gone through again as it left them.
\* (A shadow copy is gone after the attempt: the next one cannot open a file.)
RetryBackup(criterium) ==
    /\ phase = "failed"
    /\ session.retries < MaxRetries
    /\ ~UseSnapshots
    /\ phase' = "generating"
    /\ session' = [session EXCEPT !.criterium = criterium, !.retries = @ + 1]
    /\ todo' = DOMAIN objects
    /\ nextId' = IF session.version = 0 THEN nextId ELSE archives[session.version - 1].nextId
    /\ window' = [p \in DOMAIN window |-> {Content(LiveView, p)}]
    /\ UNCHANGED <<fsVars, storeVars, objects, known, streams, deps, queue, opened, parts>>

\* Mutant: the .aux list is written outside the transaction.
Crash_KeepsAux ==
    /\ phase # "idle"
    /\ NoSession
    /\ aux' = [aux EXCEPT ![session.version] =
            Append(@, [unmapped |-> session.unmapped, objects |-> objects])]
    /\ UNCHANGED <<fsVars, archives, promised>>

\* The process ends, in the middle of a backup or not: the system rolls the
\* transaction back.  After a failed attempt, also the open command.
Crash ==
    /\ phase # "idle"
    /\ NoSession
    /\ UNCHANGED <<fsVars, storeVars>>
-----------------------------------------------------------------------------
\* Restore.

\* Mutant: links wait for a stream too.
RestoreLater_Links(v) ==
    LET objs == archives[v].objects
    IN  {s \in DOMAIN objs : objs[s].latest >= 0}

\* VersionForRestore::restore: the objects that FileSystemObject::restore
\* leaves for later.  A link is restored from the object alone.
RestoreLater(v) ==
    LET objs == archives[v].objects
    IN  {s \in DOMAIN objs : objs[s].type # "FileSymlink" /\ objs[s].latest >= 0}

\* ArchiveReader::read_everything and ArchivePart: the streams are told apart
\* by the recorded sizes alone.
ReadPart(archive, i) ==
    IF \A j \in 1 .. i : archive.parts[j].size = SizeOf[archive.parts[j].data]
    THEN archive.parts[i].data ELSE Garbage

\* restore_thread on one archive: begin2 walks over the objects in the order of
\* their stream ids.  It moves on when the stream of its object comes by, past
\* the objects with the same stream, which restore nothing (only a
\* FileHardlinkFso, never left for later, would become a link).  So a stream
\* is restored when the streams of all smaller ids came by in their order.
LaterFrom(v, w) == {s \in RestoreLater(v) : archives[v].objects[s].latest = w}
RestoredParts(v, w) ==
    LET stored == archives[w].parts
        ids == {archives[v].objects[s].stream_id : s \in LaterFrom(v, w)}
        Before(k, i) == {j \in 1 .. i - 1 : stored[j].id = k}
        InTurn(i) ==
            \A k \in ids : k < stored[i].id =>
                \E j \in Before(k, i) : \A l \in ids : l < k => Before(l, j) # {}
    IN  {i \in DOMAIN stored :
            stored[i].id \in ids /\ Before(stored[i].id, i) = {} /\ InTurn(i)}

\* The path that part i of archive w is restored to, and what it gets.
RestoredFile(v, w, i) ==
    LET objs == archives[v].objects
        id == archives[w].parts[i].id
        first == CHOOSE s \in LaterFrom(v, w) :
            /\ objs[s].stream_id = id
            /\ \A t \in LaterFrom(v, w) \ {s} : objs[t].stream_id = id => Precedes(s, t)
    IN  <<objs[first].path, ReadPart(archives[w], i)>>

\* The assertion at the end of restore_thread.
Complete(v, w) ==
    \A s \in LaterFrom(v, w) : \E i \in RestoredParts(v, w) :
        archives[w].parts[i].id = archives[v].objects[s].stream_id

\* Where the threads of the reader may wait for each other for ever: module
\* ArchiveIO shows when.  Up to the part nothing but empty files has come by,
\* and it is the last one, after which the reader is closed, or not the first
\* one and the archive holds empty files alone.
WaitsAt(v, w) ==
    LET stored == archives[w].parts
        restored == RestoredParts(v, w)
    IN  {i \in restored :
            /\ \A j \in 1 .. i : stored[j].size = 0
            /\ \/ \A k \in restored : k <= i
               \/ /\ \E k \in restored : k < i
                  /\ \A j \in DOMAIN stored : stored[j].size = 0}

\* restore_backup and perform_restore: the archives are read in order of their
\* versions until the assertion at the end of restore_thread fails.
UsedArchives(v) == {archives[v].objects[s].latest : s \in RestoreLater(v)}
ReadArchives(v) ==
    {w \in UsedArchives(v) : \A x \in UsedArchives(v) : x < w => Complete(v, x)}
RestoredFiles(v) ==
    UNION {{RestoredFile(v, w, i) : i \in RestoredParts(v, w)} : w \in ReadArchives(v)}

\* What there is when the files of version v have come back, and its links,
\* which come first.
BroughtBack(v, files) ==
    LET objs == archives[v].objects
        links == {s \in DOMAIN objs : objs[s].type = "FileSymlink"}
    IN  [p \in Paths |->
            IF \E s \in links : s[2] = p
            THEN [what |-> "link",
                  value |-> objs[CHOOSE s \in links : s[2] = p].link_target]
            ELSE IF \E f \in files : f[1] = p
            THEN [what |-> "file", value |-> (CHOOSE f \in files : f[1] = p)[2]]
            ELSE Nothing]

\* The status says how a restore ends, or that it may not ("may wait"); the
\* content is what it leaves when it ends.
RestoreOutcome(v) ==
    IF ~(archives[v].deps \subseteq Versions)
    THEN [status |-> "FileNotFound", content |-> [p \in Paths |-> Content(LiveView, p)]]
    ELSE IF archives[v].unmapped # Live
    THEN [status |-> "lost source", content |-> [p \in Paths |-> Content(LiveView, p)]]
    ELSE [status |-> IF \E w \in UsedArchives(v) : ~Complete(v, w) THEN "assertion"
                     ELSE IF \E w \in UsedArchives(v) : WaitsAt(v, w) # {} THEN "may wait"
                     ELSE "ok",
          content |-> BroughtBack(v, RestoredFiles(v))]

\* delete_existing removes the whole source, and every file comes back as a new
\* one.  Bound: what a user does with a misread file is not followed.
PutBack(content) ==
    /\ \A p \in Paths : content[p].what = "file" => content[p].value \in Data
    /\ clock < MaxClock
    /\ clock' = clock + 1
    /\ node' = [p \in Paths |->
            CASE content[p].what = "nothing" -> NoNode
              [] content[p].what = "link" -> LinkNode(content[p].value)
              [] OTHER -> FileNode(p)]
    /\ disk' = [p \in Paths |->
            IF content[p].what = "file"
            THEN [data |-> content[p].value, date |-> clock + 1]
            ELSE [data |-> EmptyData, date |-> 0]]
    /\ UNCHANGED <<storeVars, phase, sessionVars>>

\* restore_backup, when it comes to an end.  A restore that fails before the
\* source is deleted changes nothing.
RestoreBackup(v) ==
    /\ phase = "idle"
    /\ v \in Versions
    /\ RestoreOutcome(v).status \in {"ok", "may wait", "assertion"}
    /\ PutBack(RestoreOutcome(v).content)

\* restore_backup, when its threads wait for ever and the user ends it: there
\* are the files of the archives before, and those that came by so far.
AbandonRestore(v) ==
    /\ phase = "idle"
    /\ v \in Versions
    /\ RestoreOutcome(v).status \in {"may wait", "assertion"}
    /\ \E w \in ReadArchives(v) : \E i \in WaitsAt(v, w) :
          PutBack(BroughtBack(v,
            {RestoredFile(v, w, k) : k \in {j \in RestoredParts(v, w) : j <= i}}
            \cup UNION {{RestoredFile(v, x, k) : k \in RestoredParts(v, x)} :
                            x \in {y \in ReadArchives(v) : y < w}}))
-----------------------------------------------------------------------------
\* The user.

Running == phase \in {"generating", "storing"}

Edit(kind) ==
    /\ kind \in IF Running THEN LiveEdits ELSE IdleEdits
    /\ clock < MaxClock
    /\ clock' = clock + 1
    /\ window' = IF ~Running \/ UseSnapshots THEN window
                 ELSE [p \in DOMAIN window |->
                        window[p] \cup {Content([node |-> node', disk |-> disk'], p)}]
    /\ UNCHANGED <<storeVars, phase, session, objects, todo, known, streams,
                   nextId, deps, queue, opened, parts>>

Named(ino) == \E p \in Paths : node[p] = FileNode(ino)
LinkedTo(p) == \E q \in Paths : node[q] = LinkNode(p)

WriteFile(p, data) ==
    /\ node[p].type = "file"
    /\ disk' = [disk EXCEPT ![node[p].ref] = [data |-> data, date |-> clock + 1]]
    /\ UNCHANGED node
    /\ Edit("write")

CreateFile(p, data) ==
    /\ node[p] = NoNode
    /\ ~Named(p)
    /\ node' = [node EXCEPT ![p] = FileNode(p)]
    /\ disk' = [disk EXCEPT ![p] = [data |-> data, date |-> clock + 1]]
    /\ Edit("create")

\* A file the program has open cannot be deleted.
DeletePath(p) ==
    /\ node[p] # NoNode
    /\ ~(opened # -1 /\ ~UseSnapshots /\ Resolve(LiveView, Current[2]) = Resolve(LiveView, p))
    /\ node' = [node EXCEPT ![p] = NoNode]
    /\ disk' = [i \in Paths |->
            IF \E q \in Paths \ {p} : node[q] = FileNode(i) THEN disk[i]
            ELSE [data |-> EmptyData, date |-> 0]]
    /\ Edit("delete")

MakeHardlink(p, q) ==
    /\ node[p] = NoNode
    /\ node[q].type = "file"
    /\ node' = [node EXCEPT ![p] = node[q]]
    /\ UNCHANGED disk
    /\ Edit("hardlink")

MakeSymlink(p, q) ==
    /\ node[p] = NoNode
    /\ node[q].type = "file"
    /\ ~LinkedTo(p)
    /\ node' = [node EXCEPT ![p] = LinkNode(q)]
    /\ UNCHANGED disk
    /\ Edit("symlink")

\* "Clean up broken files" (documentation.html:21): the user removes the
\* archive of a version, with or without its list in the hidden .aux directory.
DeleteArchive(v, kind) ==
    /\ kind \in Deletions
    /\ phase = "idle"
    /\ v \in Versions
    /\ archives' = [archives EXCEPT ![v] = NoArchive]
    /\ aux' = IF kind = "version" THEN [aux EXCEPT ![v] = <<>>] ELSE aux
    /\ promised' = [promised EXCEPT ![v] = NoObjects]
    /\ UNCHANGED <<fsVars, phase, sessionVars>>

DeleteAux(v) ==
    /\ "aux" \in Deletions
    /\ phase = "idle"
    /\ aux[v] # <<>>
    /\ aux' = [aux EXCEPT ![v] = <<>>]
    /\ UNCHANGED <<fsVars, archives, promised, phase, sessionVars>>
-----------------------------------------------------------------------------
Init ==
    /\ node = [p \in Paths |-> IF p \in InitialFiles THEN FileNode(p) ELSE NoNode]
    /\ disk = [p \in Paths |->
            [data |-> IF p \in InitialFiles THEN InitialData ELSE EmptyData, date |-> 0]]
    /\ clock = 0
    /\ archives = [v \in Version |-> NoArchive]
    /\ aux = [v \in Version |-> <<>>]
    /\ promised = [v \in Version |-> NoObjects]
    /\ phase = "idle"
    /\ session = [version |-> 0, criterium |-> "none",
                  use_snapshots |-> FALSE, view |-> NoView,
                  unmapped |-> Live, mapped |-> Live, retries |-> 0, owners |-> {},
                  old |-> NoObjects]
    /\ objects = NoObjects
    /\ todo = {} /\ known = {} /\ streams = {} /\ nextId = 0
    /\ deps = {} /\ queue = <<>> /\ opened = -1 /\ parts = <<>>
    /\ window = NoObjects

SessionStep ==
    \/ \E s \in Slots : GenerateStream(s)
    \/ \E order \in SortedOrders : ReorderFileStreams(order)
    \/ OpenFile
    \/ StoreFile
    \/ CommitBackup
    \/ FailToOpen

Next ==
    \/ \E x \in Exclusions, c \in Criteria, u \in Snapshots : BeginBackup(x, c, u)
    \/ \E c \in Criteria : RetryBackup(c)
    \/ SessionStep
    \/ Crash
    \/ \E v \in Version : RestoreBackup(v) \/ AbandonRestore(v)
    \/ \E p \in Paths, d \in Writable : WriteFile(p, d) \/ CreateFile(p, d)
    \/ \E p \in Paths : DeletePath(p)
    \/ \E pq \in Linkable : MakeHardlink(pq[1], pq[2]) \/ MakeSymlink(pq[1], pq[2])
    \/ \E v \in Version, kind \in {"archive", "version"} : DeleteArchive(v, kind)
    \/ \E v \in Version : DeleteAux(v)

\* One thread runs a session, and nothing it does waits for another actor.
Fairness == WF_vars(SessionStep)

Spec == Init /\ [][Next]_vars /\ Fairness
-----------------------------------------------------------------------------
\* Properties.

FsoType == [path : Paths, type : {"RegularFile", "FileHardlink", "FileSymlink"},
            link_target : Paths \cup {0}, size : Nat, date : 0 .. MaxClock,
            latest : Version \cup {-1}, stream_id : Nat, hash : Data \cup {NoHash}]

\* The variables keep their types; in particular a committed object list maps
\* slots to objects of their own path.
TypeOK ==
    /\ node \in [Paths -> Node]
    /\ disk \in [Paths -> [data : Data, date : 0 .. MaxClock]]
    /\ clock \in 0 .. MaxClock
    /\ phase \in {"idle", "generating", "storing", "failed"}
    /\ todo \subseteq DOMAIN objects /\ streams \subseteq DOMAIN objects
    /\ deps \subseteq Version
    /\ opened \in Nat \cup {-1}
    /\ \A v \in Versions : \A s \in DOMAIN archives[v].objects :
          archives[v].objects[s] \in FsoType /\ archives[v].objects[s].path = s[2]

\* What the change criteria in use cannot tell apart.
Indistinguishable(c, d) ==
    \/ c = d
    \/ /\ "Size" \in Criteria
       /\ c.what = "file" /\ d.what = "file"
       /\ c.value \in Data /\ d.value \in Data
       /\ SizeOf[c.value] = SizeOf[d.value]

Restorable(v) == archives[v].deps \subseteq Versions

\* README.txt, "Transparency": a version whose archives are all there, and that
\* knows its source (RestoresToItsSource), restores without a failed assertion,
\* every covered path that existed all through the session comes back as one of
\* the things it was during it, and no other path appears.  This takes the
\* stream ids, their order in the archive, the sizes, the references to older
\* versions and the .aux list to be right together.  (A restore that "may wait"
\* brings this back if it ends.)
RestoreIntegrity ==
    \A v \in Versions : Restorable(v) /\ archives[v].unmapped = Live =>
        LET outcome == RestoreOutcome(v)
        IN  /\ outcome.status # "assertion"
            /\ \A p \in DOMAIN promised[v] :
                  Nothing \notin promised[v][p] =>
                    \E c \in promised[v][p] : Indistinguishable(outcome.content[p], c)
            /\ \A p \in Paths :
                  (p \in DOMAIN promised[v] => promised[v][p] = {Nothing}) =>
                    outcome.content[p] = Nothing

\* The assertion at the end of restore_thread (BackupSystem.cpp:928): every
\* object that is left for later finds its stream, whatever commands were typed
\* before.
RestoreNeverFails ==
    \A v \in Versions : RestoreOutcome(v).status # "assertion"

\* show dependencies (documentation.html:80): the manifest of a version names
\* every version a restore reads, so that none is missed when archives are
\* copied or checked by "verify full", and only versions no newer than itself.
DependenciesClosed ==
    \A v \in Versions :
        /\ \A s \in RestoreLater(v) :
              archives[v].objects[s].latest \in archives[v].deps \cup {v}
        /\ \A w \in archives[v].deps : w <= v

\* "Assume monotonicity of input stream IDs" (BackupSystem.cpp:896): in the
\* order of the versions and, within one, of the archive, stream ids grow; a
\* version starts after all ids of the one before it.
StreamIdsGrow ==
    \A v \in Versions :
        LET ps == archives[v].parts
        IN  /\ \A i, j \in DOMAIN ps : i < j => ps[i].id < ps[j].id
            /\ \A i \in DOMAIN ps : ps[i].id < archives[v].nextId
            /\ \A w \in Versions : w < v =>
                  /\ archives[w].nextId <= archives[v].nextId
                  /\ \A i \in DOMAIN ps : archives[w].nextId <= ps[i].id

\* README.txt, "Transacted backup creation": the archive of a version and its
\* .aux list appear together or not at all, whatever the step at which a
\* session dies, and say the same; a session finds no trace of a dead one.
AuxMatchesArchive ==
    \A v \in Version :
        aux[v] = IF v \in Versions
                 THEN <<[unmapped |-> archives[v].unmapped, objects |-> archives[v].objects]>>
                 ELSE <<>>

\* A committed version is never written again: later sessions, restores,
\* failures and crashes leave its archive and its list alone.
CommittedVersionsPermanent ==
    [][\A v \in Versions : archives'[v] = archives[v] /\ aux'[v] = aux[v]]_vars

\* README.txt, "Incremental backups": a file the user has not touched since
\* the previous version is not stored again, its object names the same stream.
UnchangedNotStoredAgain ==
    \A v \in Versions : v - 1 \in Versions =>
        LET new == archives[v].objects
            old == archives[v - 1].objects
        IN  \A s \in DOMAIN new \cap DOMAIN old :
              /\ new[s].date = old[s].date
              /\ new[s].size = old[s].size
              /\ new[s].type = "RegularFile" /\ old[s].type = "RegularFile"
              => /\ new[s].latest = old[s].latest
                 /\ new[s].stream_id = old[s].stream_id

\* documentation.html:41, "The destination is set to the source from which the
\* backup was generated": every version remembers the place of its source.
RestoresToItsSource == \A v \in Versions : archives[v].unmapped = Live

\* documentation.html:36, "Files and directory structures will be read from
\* here": a path below the source that existed all through a session has an
\* object in the version it wrote.
CoversItsSource ==
    \A v \in Versions : \A p \in DOMAIN promised[v] :
        Nothing \notin promised[v][p] => \E s \in DOMAIN archives[v].objects : s[2] = p

\* What a user gets back from a version is what the abstract store holds.
Contents == {Nothing} \cup [what : {"file"}, value : Data] \cup [what : {"link"}, value : Paths]
LiveFiles == [p \in Paths |-> Content(LiveView, p)]
KeptVersions == [i \in 1 .. get_version_count |-> RestoreOutcome(i - 1).content]

Empty == [what |-> "file", value |-> EmptyData]

Store == INSTANCE VersionStore WITH live <- LiveFiles, store <- KeptVersions

\* When nobody edits during a backup, the program implements the abstract
\* store: a commit appends the files as they are, whatever came before, a
\* restore that ends brings back exactly one version, and one that does not has
\* an empty file to bring back, and leaves nothing that is not in the version.
ImplementsVersionStore == Store!Spec

\* A backup that was started ends, committed or rolled back.
SessionEnds == Running ~> ~Running
=============================================================================
