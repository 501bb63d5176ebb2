# A formal model of zekvok

zekvok is a command line program for Windows that makes incremental backups of
directories: every backup is a *version*, one numbered archive that stores the
files that changed and refers to older versions for the others. This directory
holds TLA+ modules that model its backup core, its command line, its use of
shadow copies, its archive writer and readers and the threads beneath them, TLC
configurations that check the modules on small instances, and proofs that TLAPS
checks for all instances.

All paths below `src/` are those of the repository. `PROJECT.json` maps every
definition that models code to the lines it stands for, and lists the runs, the
mutants that show that the properties can fail, the findings and the hazards.

## 1. Inventory of the system

| Component | Files | State | Operations |
|---|---|---|---|
| Command line | `LineProcessor` | per process: `backup_system` (at most one, kept while commands fail) with the list of versions it read when opened, the selected version | open, add, exclude, set, select, backup, restore, show, verify, quit |
| Backup session | `BackupSystem`, `FileSystemObject`, `BackupStream` | sources, ignore lists, `base_objects`, `old_objects`, `known_guids`, `streams`, `next_stream_id`, `version_dependencies` | `perform_backup`, `set_base_objects`, `get_old_objects`, `generate_streams`, `fix_up_stream_reference`, `file_has_changed`, `get_dependencies`, `reorder_file_streams`, `create_new_version` |
| Restore | `BackupSystem`, `VersionForRestore` | one open archive per version, its manifest and objects, the objects left for later | `restore_backup`, `compute_latest_version_*`, `restore_thread` |
| Backup store | `System/Transactions`, `VersionManifest` | `versionN.arc` and `.aux/fsoN.dat`, files the user can delete | transaction begin, write, commit, rollback; `get_versions`, `version_exists` |
| Archive format | `ArchiveIO` | sizes and digests of the sections, stream ids, offsets | `ArchiveWriter::process` (files, base objects, manifest, digest), `ArchiveReader::read_manifest`, `read_base_objects`, `read_everything`, skip and restore |
| Stream pipeline | `StreamProcessor`, `LzmaFilter`, `CryptoFilter`, `HashFilter`, `BoundedStreamFilter`, `NullStream` | processors (state, queues, stop flag), `exception_message` | construct, `copy_to`, `start`, `work`, `read`, `write`, `flush`, `stop`, `join`, destroy, synchronous reads and writes of the main thread |
| Segment queue | `System/Threads.h` (`CircularQueue`) | ring, head, tail, size, two Events | `try_push`, `try_pop` |
| Thread pool | `System/Threads` | per thread two atomics, two Events, a job slot; idle threads | `allocate_thread`, `run`, `join`, `release_thread`, `~ThreadPool` |
| Verification | `BackupSystem` | none | `verify`, `full_verify` |
| Object serialization | `serialization/` | byte format of objects and manifests | serialize, deserialize |
| File system access | `System/SystemOperations` | none of its own | types, sizes, dates, guids, links |
| Shadow copies | `System/VSS` | `VssSnapshot`: state, shadows with their properties, the requester component; the backup system's `current_volumes`, `path_mapper` and `base_objects` | constructor (`begin`, `push_target`, `do_snapshot`, `populate_properties`), `set_path_mapper`, `set_base_objects`, `uninit`, destructor |
| Key pairs, entry, utilities | `RsaKeyPair`, `main`, `Globals`, `Utility`, `Exception`, ... | none that matters between calls | |

**How they interact.** The command line calls the backup system directly, in one
thread. A session reads the user's files, which the user may be editing, or a
shadow copy of them; it reads the `.aux` list or the archive of the previous
version, and writes both files of the new one in one kernel transaction. The
archive writer and reader build chains of stream processors: every processor
runs on a thread of the pool, and neighbours share a segment queue. The main
thread waits for processors through joins, and learns of their exceptions
through the pipeline's `exception_message`.

**What is hard in it.**

* A version restores only if stream ids, the order of the streams in the
  archive, the sizes of the objects, the references to older versions and the
  list of dependencies are right together, over several sessions with different
  criteria, exclusions, deletions and failures between them.
* The user edits while a backup runs: what was seen in the scan need not be what
  is opened, nor what is read.
* A process may die, or a file fail to open, at any step of a session; a backup
  command that failed can be typed again and works with the objects of the first
  attempt.
* Files of the backup are the user's to delete, archive and list separately, and
  several processes may work on one directory, each with the list of versions it
  read when it was opened; nothing is locked between commands.
* A restore deletes before it reads, and it relies on what verify full, the check
  of the dependencies and the process's own list said earlier.
* What a command that failed leaves in the BackupSystem (objects with their modes,
  digests and streams, the paths they were mapped to) is what the next one uses.
* Each of some fifteen calls to the shadow copy service may fail, some without
  notice; a constructor that throws runs no destructor; snapshots outlive the
  process.
* The archive is written by a chain of threads, joined by bounded queues;
  Eof marks, flushes, stops and exceptions meet segments that are on their way.
* The pool's handshake uses two atomics and two auto-reset Events without a
  common lock, and a job slot that is not atomic.

**What makes each part correct.** Session and store: a committed version restores
to what the files were during its session, refers to what exists, never changes
again, and stores nothing that did not change. Command line: what verify full
passed is what a later restore brings back, unless an archive was deleted since,
and then nothing is touched; no process writes a version twice. Shadow copies: a
volume is read from the copy made for this command or, if it was refused, as it
is; copies are deleted and the requester released however the command ends. Archive and pipeline: the file
is the one a sequential program would have written, each result (digest, size)
covers everything that went through, commands end, and nothing that failed is
taken for whole. Queue: a bounded FIFO. Pool: a job that was accepted is
executed once, joins return after it.

## 2. Modules

```
 VersionStore <~~ BackupSystem <- BackupSystemProofs
                  MCBackupSystem -> BackupSystem
                  MCCommandLine  -> CommandLine  <- CommandLineProofs
                  MCVssSnapshot  -> VssSnapshot  <- VssSnapshotProofs
 ArchiveFile  <~~ MCArchiveIO    -> ArchiveIO -> StreamPipeline  (queue and pool at their word)
                  ArchiveWriterProofs -> ArchiveFlowProofs -> ArchiveIOProofs -> ArchiveIO
 BoundedFifo  <~~ CircularQueue <- CircularQueueProofs
 TaskPool     <~~ ThreadPool    <- ThreadPoolProofs

 ->  EXTENDS        ~~>  implements the abstract specification
```

`BackupSystem` is one process and the steps of its sessions; `CommandLine` takes
a session as its commit and has what several processes and commands do to each
other; `VssSnapshot` is the part of `perform_backup` that `BackupSystem` takes as
"the session reads a shadow copy".

### BackupSystem

State and code: `node`, `disk`, `clock` are the user's file system (names,
inodes, modification times). `archives[v]` is `versionV.arc`: `parts` is its
file section, `objects` its object list, and `deps`, `nextId` come from the
manifest; `aux[v]` is `.aux/fsoV.dat`. The variables of the session have the
names of the members of `BackupSystem`; `objects` is indexed by *slot*, that is
source directory and path, since the program has one tree per source. `window`
and `promised` are history: the contents every covered path had during a
session, kept for the version it commits.

| Action | Code |
|---|---|
| `BeginBackup(exclusion, criterium, use_snapshots)` | `perform_backup` up to `generate_streams`: snapshot, the scan with its exclusions, `next_stream_id` and `old_objects` of the last version, or of its archive when the list is gone |
| `GenerateStream(s)` | one object of `generate_streams`: guid already known, `file_has_changed` with its criterium, `fix_up_stream_reference` |
| `ReorderFileStreams(order)` | `get_dependencies`, then the sort by extension and the new numbering; the sort is unstable, so any order it may leave |
| `OpenFile`, `StoreFile` | one iteration of `add_files`: open and take the size; copy and take the digest |
| `CommitBackup` | object lists, manifest, digest, list in `.aux`, commit |
| `FailToOpen`, `RetryBackup(criterium)` | the exception out of `add_files`, rollback, and the command typed again in the same process |
| `Crash` | the process dies: the transaction rolls back |
| `RestoreBackup(v)` | the whole `restore_backup`, when it comes to an end; `RestoreOutcome` reads the archives as `restore_thread` does, with misaligned reads returning `Garbage` |
| `AbandonRestore(v)` | a restore whose threads wait for each other for ever, which the user ends: what came by so far is there, the rest is gone |
| `WriteFile`, `CreateFile`, `DeletePath`, `MakeHardlink`, `MakeSymlink` | the user, between commands (`IdleEdits`) and during them (`LiveEdits`) |
| `DeleteArchive`, `DeleteAux` | the user on the files of the backup |

`RestoreOutcome` says how a restore ends: `ok`, with the assertion, or that it
`may wait`. `WaitsAt` has the cases of the last, in which nothing but empty files
comes by; `ArchiveIO` shows where the threads stand then. A source that does not
exist, as the device of a shadow copy that is gone, is taken for a junction, and
`BeginBackup` goes on with nothing below it. `compute_hash` keeps a digest an
earlier attempt has computed.

Data are abstract: a content is a number with a length, a digest is the content.
Contents with the same length, an empty one and one on each side of the
`hash_auto` limit are what the code tells apart. `VersionStore` is what the
program promises: a backup appends the files as they are, a restore brings back
one version. Its `Abandon(i)` is the restore that does not end: it takes an empty
file to bring back, and leaves files of the version only.

### CommandLine

`system[p]` is the LineProcessor of process `p`: its BackupSystem (or none), the
versions it listed when it was opened, the selected version, the sources typed,
`old_objects`, and in `scan` the objects, which all attempts of a backup share: for
each place (a source directory with at most one file) whether the file was there,
the mode, the digest and whether a stream was made. An archive is the sequence of
the parts that sessions appended to it: one part normally, more when two processes
with stale lists write the same version. A part records for every place the version
that stores the file and its digest, and apart from that which files it has streams
of and the dependencies of its manifest, which `get_dependencies` computes from the
streams and not from the references. `environment` says who writes, whether
versions get lost and which commands may fail half way for an outside reason (a
locked file, a full disk). `failed`, `retried` and `verified` are history.

| Action | Code |
|---|---|
| `Open`, `Quit` | `process_open`, `process_quit`; a process that dies is one that quits, since its transaction rolls back |
| `Add` | `process_add`, while the backup has no versions (afterwards nothing reads the sources typed); a source is added once |
| `SelectVersion(number)` | `process_select_version`: negative numbers count from the end, `version_exists` is a `lower_bound` |
| `BeginBackup` | `process_backup` to the end of `get_old_objects`: exceptions of a list that went stale, of an archive another session holds open; the scan, unless an earlier attempt made it |
| `EndBackup` | comparison by digest, dependencies, commit with append, `backup_system.reset()`; or an exception, with what it leaves in the objects (`LeftByAttempt`) |
| `RestoreBackup` | `process_restore` when `restore_backup` returns: `compute_latest_version` adds to `old_objects`, the sources are deleted, the files come back |
| `RestoreFails` | the same when it throws: nothing was deleted (the version or a dependency is missed in time), or the archives before the one that is missing were restored, or the assertion fails |
| `VerifyFull` | `process_verify`, when it passes; it changes nothing but the history |
| `EditFile`, `DeleteVersion` | the user; archive and list of a version go together here, apart in `BackupSystem` |

show, exclude and set change nothing this module has. Sessions run with
`use_snapshots` off: with it, the next session does not find its sources (section
6), which `BackupSystem` has. No content is empty, for what a restore does with
empty files is in `ArchiveIO` and `BackupSystem`. A restore is one step; the
processes meet between commands and while a backup is being written.

### VssSnapshot

`stage` and `step` say which call of `perform_backup` comes next, `Calls` lists
the calls that are made in a row. The service (external) is `component`, the
requester object of each attempt, and `snapshot_set`, its persistent snapshots;
`path_mapper` and `base_objects` map a volume to the attempt whose copy it is read
from. `errors` records each call that failed with the stage it was made in.

| Action | Code |
|---|---|
| `perform_backup(present, use_snapshots)` | its first lines: the volumes there are now join `current_volumes` |
| `CallSucceeds`, `CallFails` | one call of `begin`, `do_snapshot` or `uninit`; an asynchronous one that returns success may have done nothing (`VssAsync::wait`), one that returns an error may have done its work |
| `push_target(v)` | a volume gets a shadow, is refused (`failed_volumes`) or throws |
| `do_snapshot`, `populate_properties(v)`, `set_path_mapper` | the rest of the constructor; after an error in `populate_properties` it calls `uninit` and throws |
| `set_base_objects` | the first attempt of a BackupSystem that comes so far lists the sources, through the mapping of its own; the objects keep the paths they got |
| `EndBackup`, `Release` | the backup itself (stage `generate_archive`, which opens the files at the paths of the objects) and its end; the destructor with `uninit` |
| `Open`, `Die` | `process_open`; the process ends at any step |

### StreamPipeline and ArchiveIO

`StreamPipeline` has a processor as a record (`state`, its queues,
`stop_requested`, what it still has to write), the queues with their put-back
segment, and `program`: what the main thread still has to do, as a sequence of
operations. `Worker(p)` steps one thread (begin, read, flush, write, end, fail);
`MainThread` executes the first operation: constructors, `copy_to`, `start`, a
push or a write through the synchronous sink, a read through the synchronous
source (`SynchronousRead`, then `FillBuffer` for every segment its `read` pops),
and destruction, which unfolds into flush, await, stop, join and detach as
`~Stream` does. `ArchiveIO` writes the programs of `ArchiveWriter` (`process`
with its three sections) and of the `ArchiveReader`s of a restore
(`restore_version`: `read_manifest`, `read_base_objects`, and after the choice of
the files `read_manifest` and `read_everything` of a second reader, with skip and
restore of each file) in these operations. The reader finds its sections from the
end of the file, as the code does. Bytes are tokens, filters wrap them, so that
order, loss and double processing show; a serialized object is as many tokens as
its entry in the manifest says. `ArchiveFile` is the promise of the writer: the
file only grows towards its image and is committed when whole; its `Safety` is
proved and its liveness is checked.

### CircularQueue, ThreadPool

`CircularQueue`: one critical section is one step; `Event::wait_for` may take a
signal, block, wake up for a signal, a time-out or no reason. It implements
`BoundedFifo`. `ThreadPool`: one access to an atomic, or one operation of an
Event, is one step of the caller (`Run`, `Join`, `ReleaseThread`, `Stop`) or of
the worker (`thread_func`); it implements `TaskPool`, whose `Safety` is proved
and whose liveness is checked.

## 3. Runs

| Run | What it asks | Distinct states |
|---|---|---|
| `BackupQuiet` | three versions, criteria date and hash_auto, crashes, restores (also those that never end), edits between the commands only: everything restores, ids grow, dependencies are complete, list and archive agree, nothing unchanged is stored again, old versions stay; and the whole implements `VersionStore` | 64,624 |
| `BackupLive` | edits and deletions at every step of a backup, each session with a shadow copy or without one: what restores is what was there meanwhile; sessions end | 131,210 |
| `BackupCleanup` | archives and lists are deleted, a directory is excluded or not, links come and go, criterium size: what has its dependencies restores, up to the size; ids grow over the gaps; no list is missed | 125,262 |
| `BackupRetry` | a locked file fails the backup, and the command is typed again with the same or another criterium; excluded files, hardlinks: stream ids still grow over both attempts | 459,037 |
| `PoolHandshake` | the pool's handshake; it implements `TaskPool`, and every operation returns | 148,666 |
| `QueueFifo` | the queue implements `BoundedFifo`, and never deadlocks | 74,988 |
| `ArchiveWrite` | the writer, plain and with a key pair: exact results, implements `ArchiveFile`, ends; also of a backup in which nothing changed, and of one without sources | 156,702 |
| `ArchiveRead` | the readers of a restore, plain and with a key pair: manifest and object list are read back whole, then any set of wanted files, empty ones first, between others or alone; the command ends, except where nothing but empty files comes by (section 6) | 259,600 |
| `ArchiveFailure` | a compressor that throws, a disk that is full: what verify accepts is whole | 234,870 |
| `CommandSessions` | two processes on one directory, both writing, or one writing while versions get lost and commands fail; edits, selections: what a first attempt wrote and verify full passed is restored exactly at any later time, or left alone when an archive is gone; nobody appends to a version of its own | 628,717 |
| `VssSession` | backup commands on two volumes that come and go, with every call failing, with notice or without, and the process dying: what is read, what is left behind | 68,038 |
| `FindSnapshotSource` | ends in a counterexample; see section 6 | |

**Properties to read first.** `RestoreIntegrity` (what a version restores to),
`StreamIdsGrow` (the assumption of `restore_thread` that ids only grow),
`DependenciesClosed` (what show dependencies and verify full rely on),
`ImplementsVersionStore`, `ImplementsArchiveFile`, `ImplementsTaskPool`,
`ImplementsBoundedFifo`, `VerifyDetectsLoss`, `FilesRestoredExactly`,
`SlotNotRaced`, `VerifiedRestoresExactly`, `NoSelfAppend`,
`ReadsFromItsShadows`, `NoSnapshotLeft`, `ListsReadExactly`, and the liveness properties `SessionEnds`, `CommandEnds`,
`ReadingEnds` and `OperationsReturn`.

**Bounds.**

* Two paths: interference is between two streams (order, numbering, references,
  links), and one of them can be excluded, locked or a link. Three contents at
  most: empty and two others, of the same length or not, below and at the limit
  of `hash_auto`.
* `MaxVersion` is 2 where histories matter: version 2 can refer to version 0
  over version 1, which is the shortest chain in which "the previous version"
  and "the version that stores it" differ. `MaxClock` bounds the edits and
  restores (2 or 3: one between every two versions, and two within one).
* `MaxRetries` is 1: the second attempt meets what the first one left; `TypeCorrect`
  and `StreamIdsAlwaysGrow` hold for any number.
* The queues of the pipeline hold one segment (16 in the code) and a source
  reads 1 or 2 tokens at a time (64 KiB in the code), so that queues fill up and
  files end within a segment; `BufferSize` is 2 (4096 in the code): of the two
  objects in the list, one is shorter than the buffer and one takes it twice; `CircularQueue` is checked with a ring of three,
  two producers and one consumer, so that head and tail wrap and producers
  compete for a signal.
* The pool has three jobs and two threads: one runs, the other is given back and
  taken again for the third job.
* `CommandSessions`: two processes suffice for a stale list. One place carries
  references over versions 0 to 2, and two edits, deletions or restores (`MaxClock`)
  make a file change, vanish and come back, or a verified version lose what it
  needs; `Numbers` are the version before the first (-2 with one version), the last
  and one that may have been deleted. One process, two places, `MaxClock = 3` and
  the environment `LossesAndFailures` were checked by hand for
  `VerifiedRestoresExactly` (677,708 states, no error).
* `VssSession`: two volumes, one refused and one not; two commands, of which the
  second meets what the first left. Three were checked by hand (4,865,349 states,
  no error).

**Deadlock** is checked in `QueueFifo`. The other systems really stop: the user
stops typing commands (here: at a bound; in `BackupSystem`, `CommandLine` and
`VssSnapshot`), an archive command ends, the pool is destroyed. For them the liveness properties say that they do not stop earlier.

**Fairness.** `BackupSystem`: weak fairness of the steps of a session, which one
thread makes and which wait for nobody; none for the user, commands or crashes.
`ArchiveIO`: weak fairness of the main thread and of the workers together, which
is what an operating system that lets some runnable thread run guarantees.
`ThreadPool`: weak fairness of the caller within an operation and of each
worker. `CircularQueue`: none; nothing is claimed about when a push succeeds.
`CommandLine` and `VssSnapshot`: none; the user may stop at any time, and only
safety is claimed.

## 4. Proofs

Every theorem holds for all values of the module's constants that satisfy the
named assumptions of the module (`PathsAssumption`, `DataAssumption`,
`CommandsAssumption`, `BoundsAssumption`, `CommandLineAssumption`,
`VssAssumption`, `CapacityAssumption`, `ArchivesAssumption`, ...; TLC evaluates them in every run) and
under what the theorem's own ASSUME says.

| Module | Theorem | States |
|---|---|---|
| `BackupSystemProofs` | `TypeCorrect` | `Spec => []TypeOK` |
| | `StreamIdsAlwaysGrow` | `Spec => []StreamIdsGrow` |
| | `AuxAlwaysMatches` | `Spec => []AuxMatchesArchive`, when no files of the backup are deleted |
| | `CommittedVersionsStay` | `Spec => CommittedVersionsPermanent`, same condition |
| | `DependenciesComplete` | `Spec => []DependenciesClosed`, when no failed backup is typed again (section 6 says why) |
| | `RestoreIsExact` | `Spec => []RestoreIntegrity`, under `QuietUse`: what is there when the restore ends |
| | `UntouchedIsNotStoredAgain` | `Spec => []UnchangedNotStoredAgain`, under `QuietUse` and `QuietCriteria` |
| | `BackupIsVersionStore` | `Spec => ImplementsVersionStore`, under these and `QuietHistory` |
| `CommandLineProofs` | `TypeCorrect`, `NeverAppendsToItself` | `Spec => []TypeOK`, `Spec => []NoSelfAppend` |
| | `RestoresWhatItVerified` | `Spec => VerifiedRestoresExactly`, when versions get lost only where one process writes (`SingleWriterWhenLost`) |
| `VssSnapshotProofs` | `TypeCorrect`, `AlwaysReadsItsShadows`, `SnapshotsAreDeleted`, `ComponentsAccounted` | the four invariants of `VssSession` |
| `ArchiveIOProofs` | `WriterTypes` | `WriterSpec => []TypeOK`: the writer of any archive, with any sizes, capacities and failing streams |
| | `ReaderTypes` | `ReaderSpec => []TypeOK`: the same for the readers of a restore |
| `ArchiveWriterProofs` | `WriterResults` | `WriterSpec => []ResultsExact`, when no filter or copy throws (`NothingThrows`; the disk may lose any of the data written to it) |
| | `WriterVerifies` | `WriterSpec => []VerifyDetectsLoss`, same condition |
| | `WriterIsArchiveFile` | `WriterSpec => Archive!Safety`, the part of `ImplementsArchiveFile` without fairness, when nothing fails |
| `CircularQueueProofs` | `TypeCorrect`, `RingAlwaysWellFormed`, `QueueIsFifo` | both invariants, and `Spec => ImplementsBoundedFifo` |
| `ThreadPoolProofs` | `TypeCorrect`, `SparesAreIdle`, `RunReturnsWithTheJobTaken`, `JobSlotIsNotRaced`, `PoolLosesNoThread` | the five invariants of `PoolHandshake` |
| | `PoolImplementsTasks` | `Spec => Tasks!Safety`, the part of `ImplementsTaskPool` without fairness |

*Sessions.* `StreamIdsGrow` speaks of committed archives; that a commit keeps it
depends on the running session. `Inv` therefore adds types (`FilesTyped`,
`StoreTyped`, `SessionTyped`), that a session writes the version after the last
one (`VersionIsNew`), that an opened path still resolves (`OpenedResolves`: what
`StoreFile` reads has a type), and `StreamsNumbered`: the ids of the session's
streams are the interval from `FirstStream` to `nextId - 1`, which starts at or
after `nextId` of the last version. `GenerateStream` extends the interval by one;
`ReorderFileStreams` maps the sorted streams to the same ids in growing order
(`OrderIsBijective`, `ReorderedIds`, `NthIdInInterval`: the i-th smallest id of an
interval is its start plus i - 1); the archive then gets them one after another.
A failed attempt drops its streams and keeps `nextId`, so the next one starts
later. There is one lemma per action; `InvInit` and `InvNext` combine them.

*Dependencies.* `DependenciesInv` adds that neither store nor session refers to
a later version (`StoreUpTo`, `SessionUpTo`), that streams belong to objects of
the session's own version, and that `deps` is what `get_dependencies` computes
from the objects as they will be stored. The two theorems about the store follow
from `Inv` and the fact that only three actions change it (`StoreSteps`).

*Restores.* `RestoreIsExact`, `UntouchedIsNotStoredAgain` and `BackupIsVersionStore` state what the user has to
keep clear of. `QuietUse`: every path is below exactly one source, there are no
links or hardlinks, no file is excluded by its name (directories may be), files
stand still unless the session reads a shadow copy, a version is deleted with its
list or only its list is, and no failed backup is typed again. Section 6 has a
counterexample for what each of them rules out: a link before its target, a
hardlink, a file below two sources, an excluded file, a file that grows while it
is copied, a list that outlives its archive, a second attempt. Any number of
paths, sources, contents, versions, edits, crashes and restores remain, and any
criterion.

The invariant `QuietInv` says why a restore is right. A committed version is sound
(`SoundVersion`): each of its objects names one stream (`DistinctStreams`) of an
archive that holds it, and that stream holds what the digest of the object is of
(`Stored`); parts have the sizes of their data (`Aligned`, since `restore_thread`
tells streams apart by size); a live file with the date of its object still has
the content the digest stands for (`DatesTell`, without which "unmodified" would
mean nothing); and the objects are those of the files found (`KeepsPromise`).
A running session reads files that stand still, with old objects of the version
before (`SessionReads`); each of its objects that is no stream takes over version,
stream id and digest of the old one together (`TakenOver`), and the streams written
so far hold their files (`SessionParts`). With the criterion "size" two contents of
one length stand for each other (`StandsFor`), so the theorem says what the
property says: exact up to what the criterion can tell. `RestoredContent` computes
`RestoreOutcome` of a sound version, using `StreamIdsGrow` for the order in which
`restore_thread` walks the parts; `CommitSound` is the step where a session's
promises become a version's.

`QuietCriteria` (no archive flag, which takes an untouched file for a changed one;
not "size" mixed with digests, since a digest may differ from what "size" took for
unmodified; no shadow copies, after which the next session finds no old objects)
adds to the invariant that every list is one of live paths (`ListsAreLive`) and
that a session stores only what differs (`StreamsAreNew`). `QuietHistory` (no
excluded directory, no criterion "size", no file of the backup deleted) makes the
numbers of the versions an interval, so that `KeptVersions`, what each version
restores to, is the abstract sequence: `KeptIsRestored` shows that it is a function
of `promised` alone, hence unchanged by every step but a commit, which appends
the files of `window`. `RestoreBackup` is then the abstract `Restore`, and
`AbandonRestore` the abstract `Abandon`: what it leaves is a part of the files of
`RestoreOutcome`, of which the last that came by is empty. Neither theorem says
that a restore ends; `ArchiveIO` is where it may not (section 6).

*Commands.* A process never appends to its own version because the list of an
open system is newer than all its process wrote (`OwnVersionsListed`): the commit
that makes a list stale closes the system that holds it. `VerifiedRestoresExactly`
is about two commands: `VerifyFull` notes in `verified` the version that passed and
its dependencies, and a session that writes to one of them clears it; the property
is an action property of the restore steps that come any time later. The invariant
is about what a version refers to: an older version's file is there, in the first
part of its archive and with the digest the newer version recorded (`Settled`), or
that archive has been deleted. What verify full passed is what one session wrote
or was deleted (`VerifiedIntact`), and the manifest of a first attempt lists every
version its objects refer to (`RefsListed`): `get_dependencies` goes by the
streams, of which a first attempt has none but its own. So a restore that gets past
the check of the dependencies has all archives it needs (`MissingFound`), and each
stream is where the object says (`VerifiedStream`). `FirstAttempt` is needed because
after a retry the manifest may lack a dependency and the archive a stream, `failed`
because a command that failed leaves its objects to the restore; section 6 has
both. A deleted number that is given again to other files would break `Settled`.
Without losses no number is given twice; with them it takes a single writer, whose
list is newer than everything it wrote and whose next number is therefore free.
Hence the assumption `SingleWriterWhenLost`: with two writers and deletions TLC
finds the number that is given again (section 6).

*Shadow copies.* `Inv` ties the state of the object and its fields to the stage
(`StageState`), says that attempts that have not begun are untouched
(`Untouched`), when an attempt holds its component (`Holding`), which stages and
errors leave its snapshots undeleted (`Deleting`), and that each volume is
shadowed, refused or still to come (`VolumesTaken`). `ReadsFromItsShadows` is
part of it: `GetSnapshotProperties` is the call that notices a `DoSnapshotSet`
that failed without notice, before anything is mapped. The property is about the
attempt that lists the sources (`base_objects_set = attempt`): `MapsToItsShadows`
carries the mapping from `set_path_mapper` to the objects. A further attempt in the
same BackupSystem keeps the paths of the first (section 6).

*Queue.* `RingWellFormed` says that the occupied cells are the `size` ones from
`head` on (`Cell(head, i)`), which is one window modulo `capacity` (`Wrap`,
`CellInjective`). `PushEffect` and `PopEffect` say what a critical section does to
the window, and with the refinement mapping `contents` (the window as a sequence)
they are the push and the pop of `BoundedFifo`; all other steps stutter.

*Pool.* The invariant says, for each place of the caller in the handshake, where
the worker it deals with may be and what the two atomics, the Events and the slot
hold (`CallerPlaced`, `Handshake`), that a thread lent to a job has that job and
no other (`Owned`), that threads given back are at rest (`Spare`), that threads
not made yet are untouched (`Unmade`), that each made thread has one user
(`Counted`), and what holds after `~ThreadPool` (`Gone`). A stale signal of an
Event is allowed everywhere: every wait looks at the atomic again.
`Progress(j)` maps a job to the abstract pool's state of it.

*Pipelines.* Nothing is assumed of the archives but that an object of the list
is never empty once serialized (`ArchiveIO.cpp:357`), since a compressor writes
nothing if it got nothing: any number of files, of any length, and of objects,
with and without keys. Capacities, segments and buffers have any size.

The types need to know what the main thread still has to do. `Path(rules, s, ops,
t)` says that a sequence of operations leads from one place to another, each by a
rule. In `ArchiveIOProofs` the place is the stack of Stream objects (`Stack`):
`WriterLeads` and `ReaderLeads` compute that the programs of `ArchiveIO` build and
destroy their objects in order, and `PathOK` that the rest of the program always
leads on from the objects there are. With it `PipelineOK` ties processors and
queues: each processor is one of the live objects, its queues exist, the one it
reads from belongs to an object that is older (`SourcesOlder`), a queue holds at
most `capacity` segments, and a `BoundedSource` passed on no more than its bound
(`WithinBound`), so that no skip is negative. Sequences of unknown length are
treated by a least counterexample (`NatLessThanWellFounded`, `WFMin`), which
needs no operator as a parameter: so `FlattenSeq` of appended and of mapped
sequences, the encoders and the paths through a loop are lemmas.

What the writer writes takes two more invariants. `Flow` (`ArchiveFlowProofs`) is
about the threads. For a processor `p` of the writer, `Before(a, p)` is what
its target got from others before `p` came, and `Made(r, d)` what the filter makes
of the data `d`. For every pair of connected processors `Link` says: what the
target has read, what waits in the queue between them and what the writer still
has to put there is, one behind the other, `Before` and then what the writer made
of all it has read; `Cell` and `ContentsOK` say the same at the two ends of
the chain. Each step of a worker moves data from one term of the equation to the
next, in whatever order the workers run; a segment of the file that the disk loses
changes the file and nothing else. `Resumes` (`ArchiveWriterProofs`) is about the
main thread: as a sequential program the writer goes from `State` to `State`
(the objects, what the last sink has got so far, how far the last object is in its
life, what was destroyed last, whether the digest was taken) by sixteen rules
(`WriteStep`), and what it has left leads from the state it is in, with `Flow`,
to `Over`. `WriterMoves` computes, section by section and file by file, that
`process` leads from nothing to `Over`, where everything in `Image` was written.
A flush or a join is where both meet: a processor that has completed has an
empty queue behind it, so its part of the equation has only one term
left. `DataInv` is the two together. The three theorems read off it: a result
is taken from a processor that has completed, so it covers all its data
(`ResultsExact`); the digest is `BeforeDigest` whatever the file holds, and a file
that ends with it and is what it was made of is `Image` (`VerifyDetectsLoss`); and
`contents[file]` begins `Image` and never gets shorter (`DataGrows`).

With a filter that throws, the digest of a file or the size of a section need not
cover everything any more, and the archive that is committed lacks data
(section 6); `VerifyDetectsLoss` is then checked by `ArchiveFailure` only.

*Model-checked only.* `FilesRestoredExactly` and `ListsReadExactly`, the data of
the readers: synchronous reads that end anywhere in a segment, stops with data on
its way, and skips need an equation of their own (section 7). `VerifyDetectsLoss`
with a compressor that throws. `RestoreIntegrity` with links, excluded files and
edits during a session that `QuietUse` rules out, where the runs allow them.
Liveness (`SessionEnds`, `CommandEnds`, `ReadingEnds`, `OperationsReturn`, and the fairness of
`TaskPool` and `ArchiveFile`), which needs ENABLED, which is out of the
prover's reach.

## 5. What is not modelled

* RSA key pairs and `generate keypair`, the byte format of serialization (its
  generator is not in the repository), directory links, volume enumeration,
  `encrypt`, the locale and wording of output. `set change_criterium` rsync has
  no code.
* Directories are the sources only: below them the paths are files and links.
* `FullFlush` commands, `NullSource`, `FileSource` and `FileSink`, which nothing
  in the program uses; `flush_impl`, which only runs when a chain is destroyed
  with its source still connected.
* Reads that stop early because of an I/O error (`StdStreamSource::work` takes
  them for the end of the file).
* The parallel restore, which the code disables (`#if 0`); the links, attributes
  and hardlinks that `restore_thread` makes after a file, whose failures are
  ignored by `create_*link`'s callers.
* A restore step by step among other processes: `RestoreBackup` is atomic, and
  what it reads through one archive is in `ArchiveIO`.
* What the shadow copy service does inside; writers, other requesters.
* In `CommandLine`: sessions with shadow copies, empty files, and archive and list
  deleted separately (those are in `BackupSystem`). What a further attempt does
  with shadow copies is in `VssSnapshot`, volume by volume, and not in
  `BackupSystem`, where the runs with `MaxRetries = 1` use none.

## 6. Findings

One run ends with a counterexample; `PROJECT.json` quotes the line of
documentation next to what the code does.

| Run | What happens |
|---|---|
| `FindSnapshotSource` | with the default `use_snapshots`, the second version of a backup records the device of its shadow copy as the place of its source, so a restore of it aims at a device that is gone and a third backup finds nothing there (next table) |

The passing runs keep clear of further divergences by what they let the user and
the environment do. Each of the following makes TLC refute the property named,
with the other constants as in the run (the properties that no run checks are
beside the others in their modules):

| Run and property | Changed constants | What happens |
|---|---|---|
| `BackupCleanup`, `RestoreIntegrity` | `Linkable = {<<1, 2>>}` | `get_file_guid` follows a link that is listed before its target: the target counts as known and is not stored |
| `BackupQuiet`, `RestoreIntegrity` | `Sources = <<{1, 2}, {2}>>` | a file below two sources is stored once, and restored from the wrong object |
| `BackupLive`, `RestoreIntegrity` | `Exclusions <- ChangingFiles` | a file excluded in one version has no digest; in the next, `compare_hashes` calls it unmodified and it refers to nothing |
| `BackupCleanup`, `RestoreIntegrity` | `Criteria = {"Hash"}`, `InitialFiles = {1}`, `MaxClock = 3`, `IdleEdits` with "create" | a link that became a file counts as unmodified for the same reason |
| `BackupQuiet`, `RestoreIntegrity` | `Linkable <- LinkAfterTarget`, `IdleEdits` with "hardlink" | the data of a file with two names is stored under none |
| `BackupCleanup`, `RestoreIntegrity` | `Deletions = {"archive"}` | a list that outlived its archive is read in place of the one appended to it |
| `BackupLive`, `RestoreIntegrity` | `Data = {0, 1, 3}`, `Writable = {1, 3}` | without a shadow copy, a file whose size changes between its open and its copy shifts the streams behind it |
| `BackupRetry`, `DependenciesClosed` | none | the second attempt leaves versions out of the dependencies, which `show dependencies` is to list: `get_dependencies` asks the stream an object still has from the first attempt, which has none (`BackupSystem.cpp:588`) |
| `ArchiveWrite`, `ImplementsArchiveFile` | `MayFail = {"LzmaSink"}` or `{"StdStreamSink"}` | an archive that lacks data is committed (verify finds it: `ArchiveFailure`) |
| `ArchiveWrite`, `CommandEnds` | `MayFail = {"LzmaSink"}` | a compressor that throws with its queue full: the backup waits for ever and reports nothing |
| `FindSnapshotSource`, `CoversItsSource` | `MaxVersion = 2` | the third backup looks for its sources on the device that is gone; `get_file_system_object_type` takes what does not exist for a junction, the reporter answers the error with true (`BackupSystem.cpp:30-43`), and a version is committed without the files |
| `BackupRetry`, `RestoreNeverFails` | none | a backup typed again after a failure works with the objects of the first attempt: what that attempt found unmodified refers to streams of the new version that were never stored, and restore runs into its assertion (`BackupSystem.cpp:928`) |
| `ArchiveRead`, `FullRestoreEnds` | `Archives <- EmptyArchive` | the restore of a version that stored nothing but empty files, two at least, may never end: nothing was compressed, `LzmaSource` throws (`LzmaFilter.cpp:241`), the `copy_to` of the second part throws before the hash sink was started, and `Sink::flush` waits for it (`StreamProcessor.cpp:382`) |
| `ArchiveRead`, `FirstFileRestoreEnds` | `Archives <- EmptyFirstArchive` | an empty file that comes first and is the only one wanted: the reader is closed while lzma is starting, `stop()` joins it without asking it to stop (`StreamProcessor.cpp:235`), and lzma fills a queue nobody reads |
| `ArchiveRead`, `ReadingEnds` | `MayFail = {"LzmaSource"}` | a damaged archive: the decompressor throws, sends no Eof, and the read of the manifest, the list or a file waits for ever (`StreamProcessor.cpp:469`) |
| `CommandSessions`, `RestoresSelectedVersion` | none | a restore or a backup that failed leaves its objects in `old_objects` (`BackupSystem.cpp:836`, `LineProcessor.cpp:81-85`); the next restore of the same process mixes two versions, or deletes what it does not bring back |
| `CommandSessions`, `RetriedRestoresExactly` | `Processes = {p}`, `Environments <- LossesAndFailures`, `MaxClock = 5` | an attempt stores an edited file and fails, the file is edited back, and a later attempt refers to the older version without a dependency on it: verify full passes with that version deleted, and restore deletes the files before it misses it |
| `VssSession`, `LiveWithoutSnapshots` | none | after a backup with shadow copies that failed and `set use_snapshots false`, the next attempt opens its files on the device of the copy that was deleted; with `use_snapshots` on, it makes a new copy and reads the old device all the same (`BackupSystem.cpp:263`, `FileSystemObject.cpp:399-405`) |
| `CommandSessions`, `VerifiedRestoresExactly` | `Environments` with two writers and losses | a number that was deleted is given again by a process with a stale list; another version's reference then finds other files |

Further divergences met while reading, which no run shows:

* Two processes with stale lists append to one archive (`CommandLine` has it:
  an archive of two parts); verify notices.
* `version_exists` accepts a number in a gap, and `select version -2` with one
  version selects -1, which restore takes for the latest version.
* `add` on a backup with versions is accepted and ignored.
* When every volume is refused the backup reads the live volumes and says
  nothing: `failed_volumes` is written only.
* A constructor of `VssSnapshot` that throws before `populate_properties` leaks
  its `IVssBackupComponents`; `current_volumes` is never cleared.
* `exclude` of a path reads `unmapped_base_path` of an object below a source,
  which is null (`BackupSystem.cpp:515`).
* `get_file_system_object_type` reports a missing path as a junction;
  `list_all_hardlinks` returns one peer; a restore deletes the whole source
  directory, excluded files included.

## 7. Plan

Done: the backup core, the command line and its processes, the shadow copies,
the queue, the pool, the pipeline with the archive writer and readers; proofs for
all of them, up to the refinements of `VersionStore`, `BoundedFifo`, `TaskPool`
and `ArchiveFile`. What is left, in order:

1. The data of the readers: `ListsReadExactly`, then `FilesRestoredExactly`, with
   the equation of `Flow` turned round (a source is read until somebody stops it),
   and the bound of each part as a window on what the decompressor makes.
2. The writer with filters that throw: what `Flow` says of the processors above
   the one that threw.
3. Weaker conditions than `QuietUse` for `RestoreIntegrity`: links listed after
   their targets (`BackupCleanup` has them), and edits that
   keep the size of an open file (`BackupLive`).
4. Read errors of `StdStreamSource`, and the size `add_files` records.
5. The restore among other processes step by step, with the links and attributes
   of `restore_thread`.
6. The retry of a session with shadow copies in `BackupSystem`: the files it finds
   on the device of the first attempt.
