------------------------- MODULE CommandLineProofs --------------------------
(***************************************************************************)
(* What the command line promises, for all values of the constants of      *)
(* CommandLine: its types, that no process appends to an archive of its    *)
(* own, and that what verify full passes is what a restore brings back.    *)
(***************************************************************************)
EXTENDS CommandLine, TLAPS, WellFoundedInduction

-----------------------------------------------------------------------------
\* The last of a set of versions.

\* A set of versions has a last one: its distance from MaxVersion is least.
LEMMA LastExists ==
    ASSUME NEW S \in SUBSET Version, S # {}
    PROVE  \E v \in S : \A w \in S : w <= v
<1> DEFINE Distance == {MaxVersion - v : v \in S}
           Less == OpToRel(<, Nat)
<1>1. S \subseteq 0 .. MaxVersion /\ MaxVersion \in Nat
    BY CommandLineAssumption DEF Version
<1>2. Distance \subseteq Nat /\ Distance # {}
  <2>1. \A v \in S : MaxVersion - v \in Nat
    BY <1>1
  <2> QED BY <2>1
<1>3. PICK x \in Distance : \A y \in Distance : ~ (<<y, x>> \in Less)
  <2>1. IsWellFoundedOn(Less, Nat)
    BY NatLessThanWellFounded
  <2> QED BY <1>2, <2>1, WFMin
<1>4. \A y \in Distance : ~ (y < x)
  <2> SUFFICES ASSUME NEW y \in Distance, y < x PROVE FALSE
    OBVIOUS
  <2>1. <<y, x>> \in Nat \X Nat
    BY <1>2
  <2>2. <<y, x>> \in Less
    BY <2>1 DEF OpToRel
  <2> QED BY <2>2, <1>3
<1>5. PICK v \in S : x = MaxVersion - v
    OBVIOUS
<1>6. ASSUME NEW w \in S PROVE w <= v
  <2>1. ~ (MaxVersion - w < MaxVersion - v)
    BY <1>4, <1>5
  <2> QED BY <2>1, <1>1
<1> QED BY <1>6

\* versions.back() is that version, and get_version_count is above them all.
LEMMA BackIsLast ==
    ASSUME NEW S \in SUBSET Version, S # {}
    PROVE  Back(S) \in S /\ \A w \in S : w <= Back(S)
BY LastExists DEF Back

LEMMA CountAbove ==
    ASSUME NEW S \in SUBSET Version
    PROVE  get_version_count(S) \in Nat /\ \A w \in S : w < get_version_count(S)
<1>1. S \subseteq Nat
    BY CommandLineAssumption DEF Version
<1>2. CASE S = {}
    BY <1>2 DEF get_version_count
<1>3. CASE S # {}
  <2>1. PICK b \in S : b = Back(S) /\ \A w \in S : w <= b
    BY <1>3, BackIsLast
  <2>2. get_version_count(S) = b + 1
    BY <1>3, <2>1 DEF get_version_count
  <2>3. b \in Nat /\ \A w \in S : w \in Nat /\ w <= b
    BY <1>1, <2>1
  <2>4. b + 1 \in Nat /\ \A w \in S : w < b + 1
    BY <2>3
  <2> QED BY <2>2, <2>4
<1> QED BY <1>2, <1>3
-----------------------------------------------------------------------------
\* Types.

\* A session writes under a version of the bound.
WritingCounted == \A p \in Processes : Writing(p) => NewVersion(p) \in Version

LEMMA PartType ==
    ASSUME NEW part \in Part
    PROVE  /\ part.writer \in Processes
           /\ DOMAIN part.refs \subseteq Places /\ DOMAIN part.hash = DOMAIN part.refs
           /\ \A q \in DOMAIN part.refs : part.refs[q] \in Ref /\ part.hash[q] \in Held
           /\ part.dependencies \subseteq Version /\ part.retried \in BOOLEAN
BY DEF Part

LEMMA ObjectsType ==
    ASSUME NEW part \in Part, NEW encrypted \in BOOLEAN
    PROVE  Objects(part, encrypted) \subseteq Object
BY PartType DEF Objects, Object

\* The first and the last part of an archive that is there.
LEMMA EndsOfArchive ==
    ASSUME TypeOK, NEW v \in Existing
    PROVE  /\ v \in Version /\ archives[v] \in Seq(Part)
           /\ 1 \in 1 .. Len(archives[v]) /\ Len(archives[v]) \in 1 .. Len(archives[v])
           /\ FirstPart(v) \in Part /\ LastPart(v) \in Part
<1>1. v \in Version /\ archives[v] \in Seq(Part) /\ archives[v] # <<>>
    BY DEF TypeOK, Existing
<1>2. Len(archives[v]) \in Nat /\ Len(archives[v]) # 0
    BY <1>1
<1>3. 1 \in 1 .. Len(archives[v]) /\ Len(archives[v]) \in 1 .. Len(archives[v])
    BY <1>2
<1> QED BY <1>1, <1>3 DEF FirstPart, LastPart

LEMMA SystemType ==
    ASSUME TypeOK, NEW p \in Processes, Opened(p)
    PROVE  system[p] \in System
BY DEF TypeOK, Opened

LEMMA UpdateType ==
    ASSUME TypeOK, NEW p \in Processes, NEW sys \in System \cup {NotOpen}, Update(p, sys)
    PROVE  system' \in [Processes -> System \cup {NotOpen}]
BY DEF TypeOK, Update

LEMMA FailedType ==
    ASSUME TypeOK, NEW p \in Processes, NEW sys \in System, Failed(p, sys)
    PROVE  system' \in [Processes -> System \cup {NotOpen}]
<1>1. [sys EXCEPT !.state = "idle", !.failed = TRUE] \in System
    BY DEF System
<1> QED BY <1>1, UpdateType DEF Failed

LEMMA KnownObjectsType ==
    ASSUME TypeOK, NEW p \in Processes, Opened(p),
           system[p].versions = {} \/ Back(system[p].versions) \in Existing
    PROVE  KnownObjects(p) \subseteq Object
BY EndsOfArchive, ObjectsType DEF KnownObjects

\* What the iterators of the base objects go through.
Scans == UNION {[S -> Scanned] : S \in SUBSET Places}

LEMMA ScansType ==
    ASSUME NEW scan \in Scans
    PROVE  /\ DOMAIN scan \in SUBSET Places /\ scan \in [DOMAIN scan -> Scanned]
           /\ \A q \in DOMAIN scan : scan[q] \in Scanned
BY DEF Scans

LEMMA SystemScan ==
    ASSUME NEW sys \in System
    PROVE  sys.scan \in Scans
BY DEF System, Scans

LEMMA ScanType ==
    ASSUME TypeOK, NEW p \in Processes, Opened(p), KnownObjects(p) \subseteq Object
    PROVE  Scan(p) \in Scans
<1>1. system[p] \in System
    BY SystemType
<1>2. CASE system[p].scanned
    BY <1>1, <1>2, SystemScan DEF Scan
<1>3. CASE ~system[p].scanned
  <2>1. system[p].sources \in SUBSET Places
    BY <1>1 DEF System
  <2>2. {o.place : o \in KnownObjects(p)} \in SUBSET Places
    BY DEF Object
  <2> DEFINE S == IF system[p].versions = {} THEN system[p].sources
                  ELSE {o.place : o \in KnownObjects(p)}
             found(q) == [present |-> live[q] # NoFile, mode |-> "Full", hash |-> NoFile,
                          streamed |-> FALSE]
  <2>3. S \in SUBSET Places
    BY <2>1, <2>2
  <2>4. Scan(p) = [q \in S |-> found(q)]
    BY <1>3 DEF Scan
  <2>5. \A q \in S : found(q) \in Scanned
    BY DEF Scanned, Held
  <2> HIDE DEF S, found
  <2>6. Scan(p) \in [S -> Scanned]
    BY <2>4, <2>5
  <2> QED BY <2>3, <2>6 DEF Scans
<1> QED BY <1>2, <1>3

LEMMA HashType ==
    ASSUME TypeOK, NEW p \in Processes, Writing(p), NEW q \in DOMAIN system[p].scan
    PROVE  q \in Places /\ compute_hash(p, q) \in Held
<1>1. system[p].scan \in Scans
    BY SystemType, SystemScan DEF Writing
<1>2. q \in Places /\ system[p].scan[q].hash \in Held
    BY <1>1, ScansType DEF Scanned
<1> QED BY <1>2 DEF compute_hash, TypeOK

\* What the object of a place says of it, by cases.
LEMMA EntryCases ==
    ASSUME NEW p \in Processes, NEW q, system[p].scan[q] \in Scanned
    PROVE  \/ /\ Entry(p, q).ref = invalid_version_number /\ Entry(p, q).hash = NoFile
              /\ Entry(p, q).stored = FALSE
           \/ /\ Entry(p, q).ref = NewVersion(p) /\ Entry(p, q).stored = FALSE
              /\ Entry(p, q).hash = system[p].scan[q].hash
              /\ system[p].scan[q].mode = "Unmodified"
           \/ /\ Entry(p, q).stored = FALSE
              /\ \E o \in Unchanged(p, q) : Entry(p, q).ref = o.ref /\ Entry(p, q).hash = o.hash
           \/ /\ Entry(p, q).ref = NewVersion(p) /\ Entry(p, q).hash = live[q]
              /\ Entry(p, q).stored = TRUE
<1> DEFINE f == system[p].scan[q]
<1>1. f.mode \in {"Full", "Unmodified"} /\ f.present \in BOOLEAN
    BY DEF Scanned
<1>2. CASE ~f.present
    BY <1>2 DEF Entry
<1>3. CASE f.present /\ f.mode = "Unmodified"
    BY <1>3 DEF Entry
<1>4. CASE f.present /\ f.mode = "Full" /\ Unchanged(p, q) # {}
  <2>1. PICK o \in Unchanged(p, q) : o = CHOOSE x \in Unchanged(p, q) : TRUE
    BY <1>4
  <2>2. Entry(p, q) = [ref |-> o.ref, hash |-> o.hash, stored |-> FALSE]
    BY <1>4, <2>1 DEF Entry
  <2> QED BY <2>2
<1>5. CASE f.present /\ f.mode = "Full" /\ Unchanged(p, q) = {}
    BY <1>5 DEF Entry
<1> QED BY <1>1, <1>2, <1>3, <1>4, <1>5

LEMMA EntryType ==
    ASSUME TypeOK, NEW p \in Processes, Writing(p), NewVersion(p) \in Version,
           NEW q \in DOMAIN system[p].scan
    PROVE  /\ q \in Places
           /\ Entry(p, q).ref \in Ref /\ Entry(p, q).hash \in Held
           /\ Entry(p, q).stored \in BOOLEAN
<1>1. system[p] \in System
    BY SystemType DEF Writing
<1>2. q \in Places /\ system[p].scan[q] \in Scanned
    BY <1>1, SystemScan, ScansType
<1>3. Unchanged(p, q) \subseteq Object
    BY <1>1 DEF Unchanged, System
<1>4. \A o \in Unchanged(p, q) : o.ref \in Ref /\ o.hash \in Held
    BY <1>3 DEF Object
<1>5. system[p].scan[q].hash \in Held /\ live[q] \in Held
    BY <1>2 DEF Scanned, TypeOK
<1>6. NewVersion(p) \in Ref /\ invalid_version_number \in Ref /\ NoFile \in Held
    BY DEF Ref, Held
<1> QED BY <1>2, <1>4, <1>5, <1>6, EntryCases

LEMMA NewPartType ==
    ASSUME TypeOK, NEW p \in Processes, Writing(p), NewVersion(p) \in Version
    PROVE  NewPart(p) \in Part
<1>1. system[p].scan \in Scans
    BY SystemType, SystemScan DEF Writing
<1> DEFINE S == DOMAIN system[p].scan
           stored == {q \in S : Entry(p, q).stored}
           retried == \E q \in S : system[p].scan[q].streamed \/ system[p].scan[q].mode = "Unmodified"
<1>2. S \in SUBSET Places
    BY <1>1, ScansType
<1>3. [q \in S |-> Entry(p, q).ref] \in [S -> Ref] /\ [q \in S |-> Entry(p, q).hash] \in [S -> Held]
    BY EntryType
<1>4. dependencies(p) \in SUBSET Version
    BY EntryType DEF dependencies, Ref
<1>5. stored \in SUBSET S /\ retried \in BOOLEAN
    OBVIOUS
<1>6. NewPart(p) = [writer |-> p, refs |-> [q \in S |-> Entry(p, q).ref],
                    hash |-> [q \in S |-> Entry(p, q).hash], stored |-> stored,
                    dependencies |-> dependencies(p), retried |-> retried]
    BY DEF NewPart
<1> HIDE DEF S, stored, retried
<1>7. NewPart(p) \in [writer : Processes, refs : [S -> Ref], hash : [S -> Held],
                      stored : SUBSET S, dependencies : SUBSET Version, retried : BOOLEAN]
    BY <1>3, <1>4, <1>5, <1>6
<1> QED BY <1>2, <1>7 DEF Part

\* The objects a failed attempt leaves are objects again.
LEMMA LeftType ==
    ASSUME TypeOK, NEW p \in Processes, Writing(p), NewVersion(p) \in Version, NEW copied
    PROVE  LeftByAttempt(p, copied) \in Scans
<1>1. system[p].scan \in Scans
    BY SystemType, SystemScan DEF Writing
<1> DEFINE S == DOMAIN system[p].scan
           mode(q) == IF system[p].scan[q].present /\ ~Entry(p, q).stored THEN "Unmodified"
                      ELSE system[p].scan[q].mode
           hash(q) == IF ~Entry(p, q).stored \/ q \in copied THEN Entry(p, q).hash
                      ELSE IF system[p].versions = {} THEN system[p].scan[q].hash
                      ELSE compute_hash(p, q)
           streamed(q) == system[p].scan[q].streamed \/ Entry(p, q).stored
           left(q) == [system[p].scan[q] EXCEPT !.mode = mode(q), !.hash = hash(q),
                                               !.streamed = streamed(q)]
<1>2. ASSUME NEW q \in S PROVE left(q) \in Scanned
  <2>1. system[p].scan[q] \in Scanned
    BY <1>1, ScansType
  <2>2. mode(q) \in {"Full", "Unmodified"} /\ streamed(q) \in BOOLEAN
    BY <2>1, EntryType DEF Scanned
  <2>3. hash(q) \in Held
    BY <2>1, EntryType, HashType DEF Scanned
  <2> HIDE DEF mode, hash, streamed
  <2> QED BY <2>1, <2>2, <2>3 DEF Scanned
<1>3. LeftByAttempt(p, copied) = [q \in S |-> left(q)]
    BY DEF LeftByAttempt
<1> HIDE DEF left
<1>4. LeftByAttempt(p, copied) \in [S -> Scanned]
    BY <1>2, <1>3
<1>5. S \in SUBSET Places
    BY <1>1, ScansType
<1> QED BY <1>4, <1>5 DEF Scans

\* Only what is stored is ever read, and what is read can be held.
LEMMA StreamOfType ==
    ASSUME TypeOK, NEW o \in Object, o.ref \in Version
    PROVE  StreamOf(o) \in Held
<1>1. CASE HasStream(o)
  <2>1. LastPart(o.ref).hash[o.place] \in Held
    BY <1>1, EndsOfArchive, PartType DEF HasStream, Recorded
  <2> QED BY <1>1, <2>1 DEF StreamOf
<1>2. CASE ~HasStream(o)
    BY <1>2 DEF StreamOf, Held
<1> QED BY <1>1, <1>2

LEMMA RestoredType ==
    ASSUME TypeOK, NEW objects \in SUBSET Object, NEW end, NEW displaced
    PROVE  Restored(objects, end, displaced) \in [Places -> Held]
<1> DEFINE written(q) == {o \in Stored(objects) \ displaced :
                            o.place = q /\ ~o.encrypted /\ o.ref < end}
<1>1. ASSUME NEW q \in Places PROVE Restored(objects, end, displaced)[q] \in Held
  <2>1. CASE \A o \in objects : o.place # q
    BY <2>1 DEF Restored, TypeOK
  <2>2. CASE (\E o \in objects : o.place = q) /\ written(q) = {}
    BY <2>2 DEF Restored, Held
  <2>3. CASE (\E o \in objects : o.place = q) /\ written(q) # {}
    <3>1. written(q) \subseteq Object /\ \A o \in written(q) : o.ref \in Version
      BY DEF Stored, Object, Ref
    <3>2. PICK o \in written(q) : \A w \in written(q) : w.ref <= o.ref
      <4>1. {w.ref : w \in written(q)} \in SUBSET Version /\ {w.ref : w \in written(q)} # {}
        BY <2>3, <3>1
      <4> QED BY <4>1, LastExists
    <3>3. (CHOOSE x \in written(q) : \A w \in written(q) : w.ref <= x.ref) \in written(q)
      BY <3>2
    <3>4. StreamOf(CHOOSE x \in written(q) : \A w \in written(q) : w.ref <= x.ref) \in Held
      BY <3>1, <3>3, StreamOfType
    <3> QED BY <2>3, <3>4 DEF Restored
  <2> QED BY <2>1, <2>2, <2>3
<1> QED BY <1>1 DEF Restored

TypeInv == TypeOK /\ WritingCounted

LEMMA OpenType ==
    ASSUME TypeInv, NEW p \in Processes, Open(p)
    PROVE  TypeOK'
<1>1. Existing \in SUBSET Version
    BY DEF Existing
<1>2. NewSystem(Existing) \in System
  <2>1. get_version_count(Existing) - 1 \in Int
    BY <1>1, CountAbove
  <2>2. NoScan \in [{} -> Scanned]
    BY DEF NoScan
  <2>3. NoScan \in UNION {[S -> Scanned] : S \in SUBSET Places}
    BY <2>2
  <2> QED BY <1>1, <2>1, <2>3 DEF NewSystem, System
<1>3. system' \in [Processes -> System \cup {NotOpen}]
    BY <1>2, UpdateType DEF Open, TypeInv
<1> QED BY <1>3 DEF Open, TypeInv, TypeOK

LEMMA AddType ==
    ASSUME TypeInv, NEW p \in Processes, NEW q \in Places, Add(p, q)
    PROVE  TypeOK'
<1>1. system[p] \in System
    BY SystemType DEF Add, Idle, TypeInv
<1>2. [system[p] EXCEPT !.sources = @ \cup {q}] \in System
    BY <1>1 DEF System
<1>3. system' \in [Processes -> System \cup {NotOpen}]
    BY <1>2, UpdateType DEF Add, TypeInv
<1> QED BY <1>3 DEF Add, TypeInv, TypeOK

LEMMA SelectVersionType ==
    ASSUME TypeInv, NEW p \in Processes, NEW number \in Numbers, SelectVersion(p, number)
    PROVE  TypeOK'
<1>1. system[p] \in System
    BY SystemType DEF SelectVersion, Idle, TypeInv
<1> DEFINE v == IF number < 0 THEN number + get_version_count(system[p].versions) ELSE number
<1>2. v \in Int
  <2>1. get_version_count(system[p].versions) \in Nat /\ number \in Int
    BY <1>1, CountAbove, CommandLineAssumption DEF System
  <2> QED BY <2>1
<1>3. [system[p] EXCEPT !.selected = v] \in System
    BY <1>1, <1>2 DEF System
<1>4. Update(p, [system[p] EXCEPT !.selected = v])
    BY DEF SelectVersion
<1>5. system' \in [Processes -> System \cup {NotOpen}]
  <2> HIDE DEF v
  <2> QED BY <1>3, <1>4, UpdateType DEF TypeInv
<1> QED BY <1>5 DEF SelectVersion, TypeInv, TypeOK

LEMMA QuitType ==
    ASSUME TypeInv, NEW p \in Processes, Quit(p)
    PROVE  TypeOK'
<1>1. system' \in [Processes -> System \cup {NotOpen}]
    BY UpdateType DEF Quit, TypeInv
<1> QED BY <1>1 DEF Quit, TypeInv, TypeOK

LEMMA BeginBackupType ==
    ASSUME TypeInv, NEW p \in Processes, BeginBackup(p)
    PROVE  TypeOK'
<1> DEFINE lost == system[p].versions # {} /\ Back(system[p].versions) \notin Existing
           begun == [system[p] EXCEPT !.state = "writing", !.old_objects = KnownObjects(p),
                                      !.scan = Scan(p), !.scanned = TRUE]
<1>1. Opened(p) /\ system[p] \in System
    BY SystemType DEF BeginBackup, Idle, TypeInv
<1>2. CASE lost
  <2>1. Failed(p, system[p])
    BY <1>2 DEF BeginBackup
  <2> QED BY <1>1, <2>1, FailedType DEF BeginBackup, TypeInv, TypeOK
<1>3. CASE ~lost
  <2>1. KnownObjects(p) \subseteq Object
    BY <1>1, <1>3, KnownObjectsType DEF TypeInv
  <2>2. begun \in System
    BY <1>1, <2>1, ScanType DEF System, Scans, TypeInv
  <2>3. Failed(p, begun) \/ Update(p, begun)
    BY <1>3 DEF BeginBackup
  <2>4. system' \in [Processes -> System \cup {NotOpen}]
    <3> HIDE DEF begun
    <3> QED BY <2>2, <2>3, FailedType, UpdateType DEF TypeInv
  <2> QED BY <2>4 DEF BeginBackup, TypeInv, TypeOK
<1> QED BY <1>2, <1>3

LEMMA EndBackupType ==
    ASSUME TypeInv, NEW p \in Processes, EndBackup(p)
    PROVE  TypeOK'
<1>1. Writing(p) /\ Opened(p) /\ system[p] \in System /\ NewVersion(p) \in Version
    BY SystemType DEF EndBackup, Writing, TypeInv, WritingCounted
<1>2. ASSUME NEW copied, Failed(p, [system[p] EXCEPT !.scan = LeftByAttempt(p, copied)]),
             UNCHANGED <<archives, verified>>
      PROVE  TypeOK'
  <2>1. [system[p] EXCEPT !.scan = LeftByAttempt(p, copied)] \in System
    BY <1>1, LeftType DEF System, Scans, TypeInv
  <2>2. system' \in [Processes -> System \cup {NotOpen}]
    BY <1>2, <2>1, FailedType DEF TypeInv
  <2> QED BY <1>2, <2>2 DEF EndBackup, TypeInv, TypeOK
<1>3. CASE /\ archives' = [archives EXCEPT ![NewVersion(p)] = Append(@, NewPart(p))]
           /\ verified' = IF NewVersion(p) \in verified.versions THEN NotVerified ELSE verified
           /\ ResetAfterBackup(p)
  <2>1. NewPart(p) \in Part
    BY <1>1, NewPartType DEF TypeInv
  <2>2. archives' \in [Version -> Seq(Part)]
    BY <1>1, <1>3, <2>1 DEF TypeInv, TypeOK
  <2>3. system' \in [Processes -> System \cup {NotOpen}]
    BY <1>3, UpdateType DEF TypeInv, ResetAfterBackup
  <2>4. verified' \in [number : Ref, versions : SUBSET Version]
    BY <1>3 DEF TypeInv, TypeOK, NotVerified, Ref
  <2> QED BY <2>2, <2>3, <2>4 DEF EndBackup, TypeInv, TypeOK
<1> QED BY <1>2, <1>3 DEF EndBackup

\* What a restore goes through has types as well.
LEMMA ObjectsToRestoreType ==
    ASSUME TypeOK, NEW p \in Processes, Opened(p), NEW number \in Existing
    PROVE  ObjectsToRestore(p, number) \in SUBSET Object
<1>1. system[p].old_objects \subseteq Object
    BY SystemType DEF System
<1> QED BY <1>1, EndsOfArchive, ObjectsType DEF ObjectsToRestore

\* The files that a restore leaves, and its BackupSystem if it fails.
LEMMA AfterRestoreType ==
    ASSUME TypeOK, NEW p \in Processes, Opened(p), NEW number \in Existing, NEW objects,
           objects = ObjectsToRestore(p, number)
    PROVE  /\ objects \in SUBSET Object
           /\ [system[p] EXCEPT !.old_objects = objects] \in System
           /\ \A end, displaced : Restored(objects, end, displaced) \in [Places -> Held]
<1>1. objects \in SUBSET Object
    BY ObjectsToRestoreType
<1>2. [system[p] EXCEPT !.old_objects = objects] \in System
    BY <1>1, SystemType DEF System
<1> QED BY <1>1, <1>2, RestoredType

LEMMA ClockType ==
    ASSUME TypeOK, clock < MaxClock, clock' = clock + 1
    PROVE  clock' \in 0 .. MaxClock
BY CommandLineAssumption DEF TypeOK

LEMMA RestoreBackupType ==
    ASSUME TypeInv, NEW p \in Processes, RestoreBackup(p)
    PROVE  TypeOK'
<1> DEFINE number == Requested(p)
           objects == ObjectsToRestore(p, number)
<1>1. Opened(p)
    BY DEF RestoreBackup, Idle
<1>2. system' \in [Processes -> System \cup {NotOpen}]
    BY UpdateType DEF TypeInv, ResetAfterRestore, RestoreBackup
<1>3. CASE UNCHANGED <<live, clock>>
    BY <1>2, <1>3 DEF RestoreBackup, TypeInv, TypeOK
<1>4. ASSUME Found(p, number), clock < MaxClock, clock' = clock + 1,
             NEW displaced, live' = Restored(objects, MaxVersion + 1, displaced)
      PROVE  TypeOK'
  <2>1. live' \in [Places -> Held]
    BY <1>1, <1>4, AfterRestoreType DEF TypeInv, Found
  <2>2. clock' \in 0 .. MaxClock
    BY <1>4, ClockType DEF TypeInv
  <2> QED BY <1>2, <2>1, <2>2 DEF RestoreBackup, TypeInv, TypeOK
<1> QED BY <1>3, <1>4 DEF RestoreBackup

LEMMA RestoreFailsType ==
    ASSUME TypeInv, NEW p \in Processes, RestoreFails(p)
    PROVE  TypeOK'
<1> DEFINE number == Requested(p)
           objects == ObjectsToRestore(p, number)
           after == [system[p] EXCEPT !.old_objects = objects]
<1>1. Opened(p) /\ system[p] \in System
    BY SystemType DEF RestoreFails, Idle, TypeInv
<1>2. CASE Failed(p, system[p]) /\ UNCHANGED <<live, clock>>
  <2>1. system' \in [Processes -> System \cup {NotOpen}]
    BY <1>1, <1>2, FailedType DEF TypeInv
  <2> QED BY <1>2, <2>1 DEF RestoreFails, TypeInv, TypeOK
<1>3. ASSUME Found(p, number) PROVE objects \in SUBSET Object /\ after \in System
    BY <1>1, <1>3, AfterRestoreType DEF Found, TypeInv
<1>4. CASE Found(p, number) /\ Failed(p, after) /\ UNCHANGED <<live, clock>>
  <2>1. after \in System
    BY <1>3, <1>4
  <2> HIDE DEF after
  <2>2. system' \in [Processes -> System \cup {NotOpen}]
    BY <1>4, <2>1, FailedType DEF TypeInv
  <2> QED BY <1>4, <2>2 DEF RestoreFails, TypeInv, TypeOK
<1>5. ASSUME Found(p, number), clock < MaxClock, clock' = clock + 1,
             NEW end, NEW displaced, live' = Restored(objects, end, displaced),
             Update(p, NotOpen) \/ Failed(p, after)
      PROVE  TypeOK'
  <2>1. objects \in SUBSET Object /\ after \in System
    BY <1>3, <1>5
  <2> HIDE DEF objects, after
  <2>2. live' \in [Places -> Held]
    BY <1>5, <2>1, RestoredType DEF TypeInv
  <2>3. system' \in [Processes -> System \cup {NotOpen}]
    BY <1>5, <2>1, FailedType, UpdateType DEF TypeInv
  <2>4. clock' \in 0 .. MaxClock
    BY <1>5, ClockType DEF TypeInv
  <2> QED BY <2>2, <2>3, <2>4 DEF RestoreFails, TypeInv, TypeOK
<1> QED BY <1>2, <1>4, <1>5 DEF RestoreFails

LEMMA VerifyFullType ==
    ASSUME TypeInv, NEW p \in Processes, VerifyFull(p)
    PROVE  TypeOK'
<1> DEFINE number == system[p].selected
<1>1. number \in Existing
    BY DEF VerifyFull, full_verify, verify
<1>2. number \in Version /\ LastPart(number) \in Part
    BY <1>1, EndsOfArchive DEF TypeInv
<1>3. LastPart(number).dependencies \subseteq Version
    BY <1>2, PartType
<1>4. verified' \in [number : Ref, versions : SUBSET Version]
    BY <1>2, <1>3 DEF VerifyFull, Ref
<1> QED BY <1>4 DEF VerifyFull, TypeInv, TypeOK

LEMMA UserType ==
    ASSUME TypeInv,
           (\E q \in Places : EditFile(q)) \/ (\E v \in Version : DeleteVersion(v))
    PROVE  TypeOK'
<1>1. ASSUME NEW q \in Places, EditFile(q) PROVE TypeOK'
    BY <1>1, ClockType DEF EditFile, TypeInv, TypeOK, Held
<1>2. ASSUME NEW v \in Version, DeleteVersion(v) PROVE TypeOK'
  <2>1. archives' \in [Version -> Seq(Part)]
    BY <1>2 DEF DeleteVersion, TypeInv, TypeOK
  <2>2. clock' \in 0 .. MaxClock
    BY <1>2, ClockType DEF DeleteVersion, TypeInv
  <2> QED BY <1>2, <2>1, <2>2 DEF DeleteVersion, TypeInv, TypeOK
<1> QED BY <1>1, <1>2
-----------------------------------------------------------------------------
\* What a step does to one process, and to the archives.

Opens(r) == system'[r] = NewSystem(Existing) /\ UNCHANGED archives
Closes(r) == system'[r] = NotOpen
Stays(r) ==
    /\ Opened(r) /\ Idle(r)' /\ UNCHANGED archives
    /\ system'[r].versions = system[r].versions
    /\ \/ system'[r].failed
       \/ /\ Idle(r) /\ system'[r].failed = system[r].failed
          /\ system'[r].old_objects = system[r].old_objects
Begins(r) ==
    /\ Idle(r) /\ Writing(r)' /\ r \in environment.writers
    /\ NewVersion(r) \in Version /\ UNCHANGED archives
    /\ system'[r].versions = system[r].versions
    /\ system[r].versions # {} => Back(system[r].versions) \in Existing
    /\ system'[r].old_objects = KnownObjects(r)

LEMMA UpdateStep ==
    ASSUME TypeInv, NEW p \in Processes, NEW sys, Update(p, sys), NEW r \in Processes
    PROVE  system'[r] = IF r = p THEN sys ELSE system[r]
BY DEF Update, TypeInv, TypeOK

LEMMA FailedStep ==
    ASSUME TypeInv, NEW p \in Processes, Opened(p), UNCHANGED archives,
           NEW sys \in System, sys.versions = system[p].versions,
           Failed(p, sys), NEW r \in Processes, system'[r] # system[r]
    PROVE  Stays(r)
<1> DEFINE ended == [sys EXCEPT !.state = "idle", !.failed = TRUE]
<1>1. ended \in System /\ ended.state = "idle" /\ ended.failed = TRUE
        /\ ended.versions = system[p].versions
    BY DEF System
<1>2. r = p /\ system'[p] = ended
  <2>1. Update(p, ended)
    BY DEF Failed
  <2> HIDE DEF ended
  <2> QED BY <2>1, UpdateStep
<1>3. ended # NotOpen
    BY <1>1 DEF NotOpen
<1> HIDE DEF ended
<1> QED BY <1>1, <1>2, <1>3 DEF Stays, Opened, Idle

LEMMA BeginStep ==
    ASSUME TypeInv, NEW p \in Processes, BeginBackup(p),
           NEW r \in Processes, system'[r] # system[r]
    PROVE  Stays(r) \/ Begins(r)
<1> DEFINE lost == system[p].versions # {} /\ Back(system[p].versions) \notin Existing
           begun == [system[p] EXCEPT !.state = "writing", !.old_objects = KnownObjects(p),
                                      !.scan = Scan(p), !.scanned = TRUE]
<1>1. Opened(p) /\ system[p] \in System
    BY SystemType DEF BeginBackup, Idle, TypeInv
<1>2. UNCHANGED archives
    BY DEF BeginBackup
<1>3. CASE lost
  <2>1. Failed(p, system[p])
    BY <1>3 DEF BeginBackup
  <2> QED BY <1>1, <1>2, <2>1, FailedStep
<1>4. CASE ~lost
  <2>1. KnownObjects(p) \subseteq Object
    BY <1>1, <1>4, KnownObjectsType DEF TypeInv
  <2>2. begun \in System /\ begun.state = "writing"
        /\ begun.versions = system[p].versions /\ begun.old_objects = KnownObjects(p)
    BY <1>1, <2>1, ScanType DEF System, Scans, TypeInv
  <2>3. Failed(p, begun) \/ Update(p, begun)
    BY <1>4 DEF BeginBackup
  <2> HIDE DEF begun
  <2>4. CASE Failed(p, begun)
    BY <1>1, <1>2, <2>2, <2>4, FailedStep
  <2>5. CASE Update(p, begun)
    <3>1. r = p /\ system'[p] = begun
      BY <2>5, UpdateStep
    <3>2. begun # NotOpen
      BY <2>2 DEF NotOpen
    <3> QED BY <1>2, <1>4, <2>2, <3>1, <3>2 DEF Begins, BeginBackup, Writing, Opened
  <2> QED BY <2>3, <2>4, <2>5
<1> QED BY <1>3, <1>4

LEMMA RestoreStep ==
    ASSUME TypeInv, NEW p \in Processes, RestoreBackup(p),
           NEW r \in Processes, system'[r] # system[r]
    PROVE  Closes(r)
BY UpdateStep DEF RestoreBackup, ResetAfterRestore, Closes

LEMMA RestoreFailsStep ==
    ASSUME TypeInv, NEW p \in Processes, RestoreFails(p),
           NEW r \in Processes, system'[r] # system[r]
    PROVE  Stays(r) \/ Closes(r)
<1> DEFINE number == Requested(p)
           objects == ObjectsToRestore(p, number)
           after == [system[p] EXCEPT !.old_objects = objects]
<1>1. Opened(p) /\ system[p] \in System /\ UNCHANGED archives
    BY SystemType DEF RestoreFails, Idle, TypeInv
<1>2. CASE Update(p, NotOpen)
    BY <1>2, UpdateStep DEF Closes
<1>3. CASE Failed(p, system[p])
    BY <1>1, <1>3, FailedStep
<1>4. CASE Found(p, number) /\ Failed(p, after)
  <2>1. after \in System /\ after.versions = system[p].versions
    <3>1. after \in System
      BY <1>1, <1>4, AfterRestoreType DEF Found, TypeInv
    <3> HIDE DEF objects
    <3> QED BY <1>1, <3>1 DEF System
  <2> HIDE DEF after
  <2> QED BY <1>1, <1>4, <2>1, FailedStep
<1> QED BY <1>2, <1>3, <1>4 DEF RestoreFails

LEMMA EndStep ==
    ASSUME TypeInv, NEW p \in Processes, EndBackup(p),
           NEW r \in Processes, system'[r] # system[r]
    PROVE  Stays(r) \/ Closes(r)
<1>1. Opened(p) /\ system[p] \in System
    BY SystemType DEF EndBackup, Writing, TypeInv
<1>2. CASE ResetAfterBackup(p)
    BY <1>2, UpdateStep DEF ResetAfterBackup, Closes
<1>3. ASSUME NEW copied, Failed(p, [system[p] EXCEPT !.scan = LeftByAttempt(p, copied)]),
             UNCHANGED archives
      PROVE  Stays(r)
  <2> DEFINE left == [system[p] EXCEPT !.scan = LeftByAttempt(p, copied)]
  <2>1. NewVersion(p) \in Version /\ Writing(p)
    BY DEF EndBackup, TypeInv, WritingCounted
  <2>2. left \in System /\ left.versions = system[p].versions
    BY <1>1, <2>1, LeftType DEF System, Scans, TypeInv
  <2> HIDE DEF left
  <2>3. Failed(p, left)
    BY <1>3 DEF left
  <2> QED BY <1>1, <1>3, <2>2, <2>3, FailedStep
<1> QED BY <1>2, <1>3 DEF EndBackup

LEMMA SystemStep ==
    ASSUME TypeInv, [Next]_vars, NEW r \in Processes, system'[r] # system[r]
    PROVE  Opens(r) \/ Closes(r) \/ Stays(r) \/ Begins(r)
<1>1. ASSUME NEW p \in Processes, Open(p) PROVE Opens(r)
    BY <1>1, UpdateStep DEF Open, Opens
<1>2. ASSUME NEW p \in Processes, NEW q \in Places, Add(p, q) PROVE Stays(r)
  <2>1. Opened(p) /\ system[p] \in System
    BY <1>2, SystemType DEF Add, Idle, TypeInv
  <2> DEFINE sys == [system[p] EXCEPT !.sources = @ \cup {q}]
  <2>2. sys \in System /\ sys.state = "idle" /\ sys.versions = system[p].versions
        /\ sys.failed = system[p].failed /\ sys.old_objects = system[p].old_objects
    BY <1>2, <2>1 DEF System, Add, Idle
  <2>3. Update(p, sys)
    BY <1>2 DEF Add
  <2> HIDE DEF sys
  <2>4. r = p /\ system'[p] = sys
    BY <2>3, UpdateStep
  <2>5. sys # NotOpen
    BY <2>2 DEF NotOpen
  <2> QED BY <1>2, <2>1, <2>2, <2>4, <2>5 DEF Stays, Opened, Idle, Add
<1>3. ASSUME NEW p \in Processes, NEW number \in Numbers, SelectVersion(p, number)
      PROVE  Stays(r)
  <2>1. Opened(p) /\ system[p] \in System
    BY <1>3, SystemType DEF SelectVersion, Idle, TypeInv
  <2>2. PICK sys : Update(p, sys) /\ \E v : sys = [system[p] EXCEPT !.selected = v]
    BY <1>3 DEF SelectVersion
  <2>3. sys.state = "idle" /\ sys.versions = system[p].versions
        /\ sys.failed = system[p].failed /\ sys.old_objects = system[p].old_objects
    BY <1>3, <2>1, <2>2 DEF System, SelectVersion, Idle
  <2>4. r = p /\ system'[p] = sys
    BY <2>2, UpdateStep
  <2>5. sys # NotOpen
    BY <2>3 DEF NotOpen
  <2> QED BY <1>3, <2>1, <2>3, <2>4, <2>5 DEF Stays, Opened, Idle, SelectVersion
<1>4. ASSUME NEW p \in Processes, Quit(p) PROVE Closes(r)
    BY <1>4, UpdateStep DEF Quit, Closes
<1>5. CASE (\E q \in Places : EditFile(q)) \/ (\E v \in Version : DeleteVersion(v))
    BY <1>5 DEF EditFile, DeleteVersion
<1>6. CASE UNCHANGED vars \/ \E p \in Processes : VerifyFull(p)
    BY <1>6 DEF vars, VerifyFull
<1> QED BY <1>1, <1>2, <1>3, <1>4, <1>5, <1>6, BeginStep, EndStep, RestoreStep,
           RestoreFailsStep DEF Next

Commits(p) ==
    /\ Writing(p) /\ Closes(p)
    /\ \A r \in Processes \ {p} : system'[r] = system[r]
    /\ archives' = [archives EXCEPT ![NewVersion(p)] = Append(@, NewPart(p))]
    /\ verified' = IF NewVersion(p) \in verified.versions THEN NotVerified ELSE verified
Deletes(v) ==
    /\ environment.losses /\ UNCHANGED <<system, verified>>
    /\ archives' = [archives EXCEPT ![v] = <<>>]

LEMMA ArchiveStep ==
    ASSUME TypeInv, [Next]_vars
    PROVE  \/ UNCHANGED archives
           \/ \E p \in Processes : Commits(p)
           \/ \E v \in Version : Deletes(v)
<1>1. ASSUME NEW p \in Processes, EndBackup(p), ~ UNCHANGED archives
      PROVE  Commits(p)
    BY <1>1, UpdateStep DEF EndBackup, ResetAfterBackup, Commits, Closes
<1>2. ASSUME NEW v \in Version, DeleteVersion(v) PROVE Deletes(v)
    BY <1>2 DEF DeleteVersion, Deletes
<1> QED BY <1>1, <1>2
        DEF Next, vars, Open, Add, SelectVersion, Quit, BeginBackup, RestoreBackup,
            RestoreFails, VerifyFull, EditFile

LEMMA EnvironmentStep ==
    ASSUME [Next]_vars
    PROVE  UNCHANGED environment
BY DEF Next, vars, Open, Add, SelectVersion, Quit, BeginBackup, EndBackup, RestoreBackup,
       RestoreFails, VerifyFull, EditFile, DeleteVersion

\* Sessions begin under a version of the bound, and keep their list.
LEMMA TypeStep ==
    ASSUME TypeInv, [Next]_vars
    PROVE  TypeInv'
<1>1. TypeOK'
  <2>1. CASE UNCHANGED vars
    BY <2>1 DEF TypeInv, TypeOK, vars
  <2> QED BY <2>1, OpenType, AddType, SelectVersionType, QuitType, BeginBackupType,
             EndBackupType, RestoreBackupType, RestoreFailsType, VerifyFullType, UserType
          DEF Next
<1>2. ASSUME NEW r \in Processes, Writing(r)' PROVE NewVersion(r)' \in Version
  <2>1. CASE system'[r] = system[r]
    BY <1>2, <2>1 DEF TypeInv, WritingCounted, Writing, Opened, NewVersion
  <2>2. CASE system'[r] # system[r]
    <3>1. ~Opens(r) /\ ~Closes(r) /\ ~Stays(r)
      BY <1>2 DEF Opens, Closes, Stays, Writing, Opened, Idle, NewSystem
    <3> QED BY <2>2, <3>1, SystemStep DEF Begins, NewVersion
  <2> QED BY <2>1, <2>2
<1> QED BY <1>1, <1>2 DEF TypeInv, WritingCounted

LEMMA TypeInit ==
    ASSUME Init
    PROVE  TypeInv
<1>1. TypeOK
    BY CommandLineAssumption DEF Init, TypeOK, Held, NotOpen, NotVerified, Ref
<1>2. WritingCounted
    BY DEF Init, WritingCounted, Writing, Opened
<1> QED BY <1>1, <1>2 DEF TypeInv

\* The variables have their types.
THEOREM TypeCorrect == Spec => []TypeOK
<1>1. TypeInv => TypeOK
    BY DEF TypeInv
<1> QED BY <1>1, TypeInit, TypeStep, PTL DEF Spec
-----------------------------------------------------------------------------
\* No process appends to an archive of its own.

\* An open list is newer than everything its process wrote.
OwnVersionsListed ==
    \A p \in Processes, v \in Version :
        Opened(p) => \A i \in 1 .. Len(archives[v]) :
                        archives[v][i].writer = p => v < NewVersion(p)

\* What a commit and a deletion leave in an archive.
LEMMA CommittedArchive ==
    ASSUME TypeInv, NEW p \in Processes, Commits(p)
    PROVE  /\ NewVersion(p) \in Version /\ NewPart(p) \in Part
           /\ \A v \in Version \ {NewVersion(p)} : archives'[v] = archives[v]
           /\ LET n == NewVersion(p) IN
                /\ Len(archives[n]) \in Nat /\ Len(archives'[n]) = Len(archives[n]) + 1
                /\ \A i \in 1 .. Len(archives[n]) : archives'[n][i] = archives[n][i]
                /\ archives'[n][Len(archives[n]) + 1] = NewPart(p)
<1>1. NewVersion(p) \in Version /\ Writing(p)
    BY DEF Commits, TypeInv, WritingCounted
<1>2. NewPart(p) \in Part
    BY <1>1, NewPartType DEF TypeInv
<1> DEFINE n == NewVersion(p)
           part == NewPart(p)
<1>3. archives[n] \in Seq(Part) /\ archives'[n] = Append(archives[n], part)
    BY <1>1 DEF Commits, TypeInv, TypeOK
<1>4. \A v \in Version \ {n} : archives'[v] = archives[v]
    BY DEF Commits, TypeInv, TypeOK
<1> HIDE DEF n, part
<1>5. /\ Len(archives[n]) \in Nat /\ Len(archives'[n]) = Len(archives[n]) + 1
      /\ \A i \in 1 .. Len(archives[n]) : archives'[n][i] = archives[n][i]
      /\ archives'[n][Len(archives[n]) + 1] = part
    BY <1>2, <1>3 DEF part
<1> QED BY <1>1, <1>2, <1>4, <1>5 DEF n, part

LEMMA DeletedArchive ==
    ASSUME TypeInv, NEW v \in Version, Deletes(v)
    PROVE  /\ archives'[v] = <<>> /\ Len(archives'[v]) = 0
           /\ \A w \in Version \ {v} : archives'[w] = archives[w]
<1>1. archives'[v] = <<>>
    BY DEF Deletes, TypeInv, TypeOK
<1>2. \A w \in Version \ {v} : archives'[w] = archives[w]
    BY DEF Deletes, TypeInv, TypeOK
<1> QED BY <1>1, <1>2

LEMMA WriterOfNewPart ==
    ASSUME NEW p \in Processes
    PROVE  NewPart(p).writer = p
BY DEF NewPart

\* Whatever is in an archive after a step was there before, or is the part a
\* session has committed.
LEMMA PartStep ==
    ASSUME TypeInv, [Next]_vars, NEW v \in Version, NEW i \in 1 .. Len(archives'[v])
    PROVE  \/ i \in 1 .. Len(archives[v]) /\ archives'[v][i] = archives[v][i]
           \/ \E p \in Processes :
                Commits(p) /\ v = NewVersion(p) /\ i = Len(archives[v]) + 1
                /\ archives'[v][i] = NewPart(p)
<1>1. CASE UNCHANGED archives
    BY <1>1
<1>2. ASSUME NEW p \in Processes, Commits(p), v # NewVersion(p)
      PROVE  i \in 1 .. Len(archives[v]) /\ archives'[v][i] = archives[v][i]
    BY <1>2, CommittedArchive
<1>3. ASSUME NEW p \in Processes, Commits(p), v = NewVersion(p)
      PROVE  \/ i \in 1 .. Len(archives[v]) /\ archives'[v][i] = archives[v][i]
             \/ i = Len(archives[v]) + 1 /\ archives'[v][i] = NewPart(p)
  <2>1. /\ Len(archives[v]) \in Nat /\ Len(archives'[v]) = Len(archives[v]) + 1
        /\ \A j \in 1 .. Len(archives[v]) : archives'[v][j] = archives[v][j]
        /\ archives'[v][Len(archives[v]) + 1] = NewPart(p)
    BY <1>3, CommittedArchive
  <2> QED BY <2>1
<1>4. ASSUME NEW w \in Version, Deletes(w)
      PROVE  i \in 1 .. Len(archives[v]) /\ archives'[v][i] = archives[v][i]
    BY <1>4, DeletedArchive
<1> QED BY <1>1, <1>2, <1>3, <1>4, ArchiveStep

LEMMA ListedStep ==
    ASSUME TypeInv, OwnVersionsListed, [Next]_vars
    PROVE  OwnVersionsListed'
<1> SUFFICES ASSUME NEW r \in Processes, NEW v \in Version, Opened(r)',
                    NEW i \in 1 .. Len(archives'[v]), archives'[v][i].writer = r
             PROVE  v < NewVersion(r)'
    BY DEF OwnVersionsListed
<1>1. ASSUME NEW p \in Processes, Commits(p), v = NewVersion(p),
             archives'[v][i] = NewPart(p)
      PROVE  FALSE
    BY <1>1, WriterOfNewPart DEF Commits, Closes, Opened
<1>2. i \in 1 .. Len(archives[v]) /\ archives[v][i].writer = r
    BY <1>1, PartStep
<1>3. CASE Opens(r)
  <2>1. archives[v] # <<>>
    BY <1>2
  <2>2. v \in Existing /\ Existing \in SUBSET Version
    BY <2>1 DEF Existing
  <2>3. NewVersion(r)' = get_version_count(Existing)
    BY <1>3 DEF NewVersion, Opens, NewSystem
  <2> QED BY <2>2, <2>3, CountAbove
<1>4. CASE system'[r] = system[r] \/ Stays(r) \/ Begins(r)
  <2>1. Opened(r) /\ NewVersion(r)' = NewVersion(r)
    BY <1>4 DEF Stays, Begins, Idle, Opened, NewVersion
  <2> QED BY <1>2, <2>1 DEF OwnVersionsListed
<1> QED BY <1>3, <1>4, SystemStep DEF Closes, Opened

LEMMA NoSelfAppendStep ==
    ASSUME TypeInv, OwnVersionsListed, NoSelfAppend, [Next]_vars
    PROVE  NoSelfAppend'
<1> SUFFICES ASSUME NEW v \in Version, NEW i \in 1 .. Len(archives'[v]),
                    NEW j \in 1 .. Len(archives'[v]),
                    archives'[v][i].writer = archives'[v][j].writer
             PROVE  i = j
    BY DEF NoSelfAppend
<1>1. ASSUME NEW p \in Processes, Commits(p), v = NewVersion(p),
             NEW k \in 1 .. Len(archives[v]), archives[v][k].writer = p
      PROVE  FALSE
  <2>1. v < NewVersion(p)
    BY <1>1 DEF OwnVersionsListed, Commits, Writing
  <2>2. v \in Int
    BY CommandLineAssumption DEF Version
  <2> QED BY <1>1, <2>1, <2>2
<1>2. CASE i \in 1 .. Len(archives[v]) /\ j \in 1 .. Len(archives[v])
  <2>1. archives'[v][i] = archives[v][i] /\ archives'[v][j] = archives[v][j]
    <3>1. Len(archives[v]) \in Nat
      BY DEF TypeInv, TypeOK
    <3> QED BY <1>2, <3>1, PartStep
  <2> QED BY <1>2, <2>1 DEF NoSelfAppend
<1>3. CASE i \notin 1 .. Len(archives[v]) \/ j \notin 1 .. Len(archives[v])
    BY <1>1, <1>3, PartStep, WriterOfNewPart
<1> QED BY <1>2, <1>3

\* Two sessions of one process never write to the same archive: the list a
\* commit makes stale is closed with it (process_backup).
THEOREM NeverAppendsToItself == Spec => []NoSelfAppend
<1> DEFINE Inv == TypeInv /\ OwnVersionsListed /\ NoSelfAppend
<1>1. Init => Inv
  <2>1. ASSUME Init PROVE OwnVersionsListed /\ NoSelfAppend
    BY <2>1 DEF Init, OwnVersionsListed, NoSelfAppend, Opened
  <2> QED BY <2>1, TypeInit
<1>2. Inv /\ [Next]_vars => Inv'
    BY TypeStep, ListedStep, NoSelfAppendStep
<1>3. Inv => NoSelfAppend
    OBVIOUS
<1> QED BY <1>1, <1>2, <1>3, PTL DEF Spec

-----------------------------------------------------------------------------
\* What verify full passes is what restore brings back, for all values of
\* the constants of CommandLine, as long as versions are only deleted
\* under a single writer.
\*
\* The invariant is about what a version refers to: a file that is stored
\* in an older version is there, in the first part of its archive, with
\* the digest the newer version has of it, or that archive has been
\* deleted.  A number that is given again would break it, and the list of
\* a single writer is newer than everything it wrote.

SingleWriterWhenLost ==
    \A e \in Environments : e.losses => \A p, q \in e.writers : p = q

OnlyWritersWrite ==
    /\ environment \in Environments
    /\ \A p \in Processes : Writing(p) => p \in environment.writers
    /\ \A v \in Version : \A i \in 1 .. Len(archives[v]) :
            archives[v][i].writer \in environment.writers

\* The file of a place is stored in version ref, unless that was deleted.
Settled(store, place, ref, hash) ==
    /\ store[ref] = <<>> => environment.losses
    /\ store[ref] # <<>> =>
        /\ place \in DOMAIN store[ref][1].refs
        /\ store[ref][1].refs[place] = ref
        /\ store[ref][1].hash[place] = hash

\* So is every file that a committed version has from an older one ...
RefsSettled ==
    \A v \in Version : \A i \in 1 .. Len(archives[v]) :
        LET part == archives[v][i]
        IN  \A q \in DOMAIN part.refs :
                /\ part.refs[q] = invalid_version_number => part.hash[q] = NoFile
                /\ part.refs[q] \notin {v, invalid_version_number} =>
                    part.refs[q] < v /\ Settled(archives, q, part.refs[q], part.hash[q])

\* ... and every file that a running session may leave to an older one.
ObjectsSettled ==
    \A p \in Processes : Writing(p) =>
        \A o \in system[p].old_objects : o.ref # invalid_version_number =>
            o.ref < NewVersion(p) /\ Settled(archives, o.place, o.ref, o.hash)

\* The manifest of a first attempt lists every other version it refers to.
RefsListed ==
    \A v \in Version : \A i \in 1 .. Len(archives[v]) :
        LET part == archives[v][i]
        IN  ~part.retried =>
                \A q \in DOMAIN part.refs :
                    part.refs[q] \in {v, invalid_version_number} \cup part.dependencies

\* What verify full has passed is still what one session wrote, or deleted.
VerifiedIntact ==
    verified # NotVerified =>
        /\ verified.number \in verified.versions
        /\ \A v \in verified.versions : archives[v] # <<>> => Len(archives[v]) = 1
        /\ verified.number \in Existing =>
                LastPart(verified.number).dependencies \subseteq verified.versions

\* Until a command fails, nothing is left in old_objects.
NothingLeft ==
    \A p \in Processes :
        Idle(p) /\ ~system[p].failed => system[p].old_objects = {}

StoreInv ==
    /\ TypeInv /\ OwnVersionsListed
    /\ OnlyWritersWrite /\ RefsSettled /\ ObjectsSettled /\ NothingLeft
    /\ RefsListed /\ VerifiedIntact
-----------------------------------------------------------------------------
LEMMA WritersStep ==
    ASSUME StoreInv, [Next]_vars
    PROVE  OnlyWritersWrite'
<1>1. UNCHANGED environment
    BY EnvironmentStep
<1>2. ASSUME NEW r \in Processes, Writing(r)'
      PROVE  r \in environment.writers
  <2>1. CASE system'[r] = system[r]
    BY <1>2, <2>1 DEF StoreInv, OnlyWritersWrite, Writing, Opened
  <2>2. CASE system'[r] # system[r]
    <3>1. ~Opens(r) /\ ~Closes(r) /\ ~Stays(r)
      BY <1>2 DEF Opens, Closes, Stays, Writing, Opened, Idle, NewSystem
    <3> QED BY <2>2, <3>1, SystemStep DEF Begins, StoreInv
  <2> QED BY <2>1, <2>2
<1>3. ASSUME NEW v \in Version, NEW i \in 1 .. Len(archives'[v])
      PROVE  archives'[v][i].writer \in environment.writers
  <2>1. ASSUME NEW p \in Processes, Commits(p), archives'[v][i] = NewPart(p)
        PROVE  archives'[v][i].writer \in environment.writers
    BY <2>1, WriterOfNewPart DEF Commits, StoreInv, OnlyWritersWrite
  <2> QED BY <2>1, PartStep DEF StoreInv, OnlyWritersWrite
<1> QED BY <1>1, <1>2, <1>3 DEF StoreInv, OnlyWritersWrite

LEMMA NothingLeftStep ==
    ASSUME StoreInv, [Next]_vars
    PROVE  NothingLeft'
<1> SUFFICES ASSUME NEW r \in Processes, Idle(r)', ~system'[r].failed
             PROVE  system'[r].old_objects = {}
    BY DEF NothingLeft
<1>1. CASE system'[r] = system[r]
    BY <1>1 DEF StoreInv, NothingLeft, Idle, Opened
<1>2. CASE Opens(r)
    BY <1>2 DEF Opens, NewSystem
<1>3. CASE Stays(r)
    BY <1>3 DEF Stays, StoreInv, NothingLeft
<1>4. ~Closes(r) /\ ~Begins(r)
    BY DEF Closes, Begins, Idle, Writing, Opened
<1> QED BY <1>1, <1>2, <1>3, <1>4, SystemStep DEF StoreInv

\* A deletion leaves nothing to be wrong about, and a part that is appended
\* leaves the first one alone.
LEMMA SettledStep ==
    ASSUME StoreInv, [Next]_vars, NEW place, NEW ref \in Version, NEW hash,
           Settled(archives, place, ref, hash),
           \A p \in Processes : Commits(p) /\ NewVersion(p) = ref => archives[ref] # <<>>
    PROVE  Settled(archives', place, ref, hash)
<1>1. UNCHANGED environment
    BY EnvironmentStep
<1>2. CASE archives'[ref] = archives[ref]
    BY <1>1, <1>2 DEF Settled
<1>3. ASSUME NEW p \in Processes, Commits(p) PROVE Settled(archives', place, ref, hash)
  <2>1. CASE ref # NewVersion(p)
    BY <1>2, <1>3, <2>1, CommittedArchive DEF StoreInv
  <2>2. CASE ref = NewVersion(p)
    <3>1. archives[ref] # <<>> /\ archives[ref] \in Seq(Part)
      BY <1>3, <2>2 DEF StoreInv, TypeInv, TypeOK
    <3>2. Len(archives[ref]) \in Nat /\ Len(archives[ref]) # 0
      BY <3>1
    <3>3. /\ Len(archives'[ref]) = Len(archives[ref]) + 1
          /\ archives'[ref][1] = archives[ref][1]
      BY <1>3, <2>2, <3>2, CommittedArchive DEF StoreInv
    <3>4. archives'[ref] # <<>>
      <4>1. archives'[ref] = <<>> => Len(archives'[ref]) = 0
        OBVIOUS
      <4> QED BY <3>2, <3>3, <4>1
    <3> QED BY <3>1, <3>3, <3>4 DEF Settled
  <2> QED BY <2>1, <2>2
<1>4. ASSUME NEW v \in Version, Deletes(v) PROVE Settled(archives', place, ref, hash)
  <2>1. CASE ref # v
    BY <1>2, <1>4, <2>1, DeletedArchive DEF StoreInv
  <2>2. CASE ref = v
    BY <1>1, <1>4, <2>2, DeletedArchive DEF StoreInv, Settled, Deletes
  <2> QED BY <2>1, <2>2
<1> QED BY <1>2, <1>3, <1>4, ArchiveStep DEF StoreInv

\* Where versions get lost, only one process commits.
LEMMA OneCommitter ==
    ASSUME SingleWriterWhenLost, StoreInv, environment.losses,
           NEW p \in Processes, NEW r \in environment.writers, Commits(p)
    PROVE  p = r
BY DEF SingleWriterWhenLost, StoreInv, OnlyWritersWrite, Commits

LEMMA RefsStep ==
    ASSUME SingleWriterWhenLost, StoreInv, [Next]_vars
    PROVE  RefsSettled'
<1> SUFFICES ASSUME NEW v \in Version, NEW i \in 1 .. Len(archives'[v]),
                    NEW q \in DOMAIN archives'[v][i].refs
             PROVE  LET part == archives'[v][i] IN
                    /\ part.refs[q] = invalid_version_number => part.hash[q] = NoFile
                    /\ part.refs[q] \notin {v, invalid_version_number} =>
                        part.refs[q] < v /\ Settled(archives', q, part.refs[q], part.hash[q])
    BY EnvironmentStep DEF RefsSettled, Settled
<1> DEFINE part == archives'[v][i]
<1>1. part \in Part
    BY TypeStep DEF StoreInv, TypeInv, TypeOK
<1>2. part.refs[q] \in Ref
    BY <1>1, PartType
<1>3. CASE i \in 1 .. Len(archives[v]) /\ archives'[v][i] = archives[v][i]
  <2>1. /\ part.refs[q] = invalid_version_number => part.hash[q] = NoFile
        /\ part.refs[q] \notin {v, invalid_version_number} =>
            part.refs[q] < v /\ Settled(archives, q, part.refs[q], part.hash[q])
    BY <1>3 DEF StoreInv, RefsSettled
  <2>2. ASSUME part.refs[q] \notin {v, invalid_version_number},
               NEW p \in Processes, Commits(p), NewVersion(p) = part.refs[q],
               archives[part.refs[q]] = <<>>
        PROVE  FALSE
    <3>1. environment.losses
      BY <2>1, <2>2 DEF Settled
    <3>2. p = part.writer
      BY <1>3, <2>2, <3>1, OneCommitter DEF StoreInv, OnlyWritersWrite
    <3>3. v < NewVersion(p)
      BY <1>3, <2>2, <3>2 DEF StoreInv, OwnVersionsListed, Commits, Writing
    <3>4. v \in Int /\ part.refs[q] \in Int
      BY <1>2, CommandLineAssumption DEF Version, Ref, invalid_version_number
    <3> QED BY <2>1, <2>2, <3>3, <3>4
  <2>3. ASSUME part.refs[q] \notin {v, invalid_version_number}
        PROVE  Settled(archives', q, part.refs[q], part.hash[q])
    <3>1. part.refs[q] \in Version /\ Settled(archives, q, part.refs[q], part.hash[q])
      BY <1>2, <2>1, <2>3 DEF Ref
    <3> HIDE DEF part
    <3> QED BY <2>2, <2>3, <3>1, SettledStep
  <2> QED BY <2>1, <2>3
<1>4. ASSUME NEW p \in Processes, Commits(p), v = NewVersion(p), part = NewPart(p)
      PROVE  /\ part.refs[q] = invalid_version_number => part.hash[q] = NoFile
             /\ part.refs[q] \notin {v, invalid_version_number} =>
                part.refs[q] < v /\ Settled(archives', q, part.refs[q], part.hash[q])
  <2>1. /\ q \in DOMAIN system[p].scan
        /\ part.refs[q] = Entry(p, q).ref /\ part.hash[q] = Entry(p, q).hash
    BY <1>4 DEF NewPart
  <2>2. system[p].scan[q] \in Scanned
    <3>1. system[p] \in System
      BY <1>4, SystemType DEF Commits, Writing, StoreInv, TypeInv
    <3> QED BY <2>1, <3>1, SystemScan, ScansType
  <2>3. CASE Entry(p, q).ref = invalid_version_number /\ Entry(p, q).hash = NoFile
    BY <2>1, <2>3
  <2>4. CASE Entry(p, q).ref = NewVersion(p)
    <3>1. part.refs[q] = v
      BY <1>4, <2>1, <2>4
    <3>2. v # invalid_version_number
      BY CommandLineAssumption DEF Version, invalid_version_number
    <3> QED BY <3>1, <3>2
  <2>5. CASE \E o \in Unchanged(p, q) : Entry(p, q).ref = o.ref /\ Entry(p, q).hash = o.hash
    <3>1. PICK o \in Unchanged(p, q) : Entry(p, q).ref = o.ref /\ Entry(p, q).hash = o.hash
      BY <2>5
    <3>2. /\ o \in system[p].old_objects /\ o.place = q
          /\ o.ref # invalid_version_number
      BY DEF Unchanged
    <3>3. o.ref < v /\ Settled(archives, q, o.ref, o.hash)
      BY <1>4, <3>2 DEF StoreInv, ObjectsSettled, Commits
    <3>4. o.ref \in Version /\ o.ref # v
      BY <1>2, <2>1, <3>1, <3>2, <3>3, CommandLineAssumption DEF Ref, Version
    <3>5. \A r \in Processes : Commits(r) => r = p
      BY <1>4 DEF Commits, Closes, Writing, Opened
    <3>6. Settled(archives', q, o.ref, o.hash)
      BY <1>4, <3>3, <3>4, <3>5, SettledStep
    <3> QED BY <2>1, <3>1, <3>2, <3>3, <3>6
  <2> QED BY <2>2, <2>3, <2>4, <2>5, EntryCases
<1> QED BY <1>3, <1>4, PartStep DEF StoreInv

LEMMA ObjectsStep ==
    ASSUME SingleWriterWhenLost, StoreInv, [Next]_vars
    PROVE  ObjectsSettled'
<1> SUFFICES ASSUME NEW r \in Processes, Writing(r)',
                    NEW o \in system'[r].old_objects, o.ref # invalid_version_number
             PROVE  o.ref < NewVersion(r)' /\ Settled(archives', o.place, o.ref, o.hash)
    BY EnvironmentStep DEF ObjectsSettled, Settled
<1>1. CASE system'[r] = system[r]
  <2>1. Writing(r) /\ NewVersion(r)' = NewVersion(r) /\ o \in system[r].old_objects
    BY <1>1 DEF Writing, Opened, NewVersion
  <2>2. o.ref < NewVersion(r) /\ Settled(archives, o.place, o.ref, o.hash)
    BY <2>1 DEF StoreInv, ObjectsSettled
  <2>3. o.ref \in Version
    <3>1. system[r] \in System
      BY <2>1, SystemType DEF Writing, StoreInv, TypeInv
    <3> QED BY <2>1, <3>1 DEF System, Object, Ref
  <2>4. ASSUME NEW p \in Processes, Commits(p), NewVersion(p) = o.ref, archives[o.ref] = <<>>
        PROVE  FALSE
    <3>1. environment.losses /\ r \in environment.writers
      BY <2>1, <2>2, <2>4 DEF Settled, StoreInv, OnlyWritersWrite
    <3>2. p = r
      BY <2>4, <3>1, OneCommitter
    <3> QED BY <2>4, <3>2 DEF Commits, Closes, Writing, Opened
  <2>5. Settled(archives', o.place, o.ref, o.hash)
    BY <2>2, <2>3, <2>4, SettledStep
  <2> QED BY <2>1, <2>2, <2>5
<1>2. CASE Begins(r)
  <2> DEFINE b == Back(system[r].versions)
  <2>1. system[r] \in System /\ UNCHANGED <<archives, environment>>
    BY <1>2, SystemType, EnvironmentStep DEF Begins, Idle, StoreInv, TypeInv
  <2>2. system[r].versions # {} /\ b \in Existing /\ o \in Objects(FirstPart(b), TRUE)
    BY <1>2 DEF Begins, KnownObjects
  <2>3. b < NewVersion(r) /\ NewVersion(r)' = NewVersion(r)
    BY <1>2, <2>1, <2>2, BackIsLast, CountAbove DEF System, NewVersion, Begins
  <2>4. /\ o.place \in DOMAIN FirstPart(b).refs
        /\ o.ref = FirstPart(b).refs[o.place] /\ o.hash = FirstPart(b).hash[o.place]
    BY <2>2 DEF Objects
  <2>5. b \in Version /\ 1 \in 1 .. Len(archives[b]) /\ FirstPart(b) \in Part /\ archives[b] # <<>>
    BY <2>2, EndsOfArchive DEF StoreInv, TypeInv, Existing
  <2>6. o.ref \in Version
    BY <2>4, <2>5, PartType DEF Ref
  <2> HIDE DEF b
  <2>7. CASE o.ref = b
    <3>1. Settled(archives, o.place, o.ref, o.hash)
      BY <2>4, <2>5, <2>7 DEF Settled, FirstPart
    <3> QED BY <2>1, <2>3, <2>7, <3>1 DEF Settled
  <2>8. CASE o.ref # b
    <3>1. o.ref < b /\ Settled(archives, o.place, o.ref, o.hash)
      BY <2>4, <2>5, <2>8 DEF StoreInv, RefsSettled, FirstPart
    <3>2. o.ref < NewVersion(r)
      <4>1. NewVersion(r) \in Version
        BY <1>2 DEF Begins
      <4> QED BY <2>3, <2>5, <2>6, <3>1, <4>1, CommandLineAssumption DEF Version
    <3> QED BY <2>1, <2>3, <3>1, <3>2 DEF Settled
  <2> QED BY <2>7, <2>8
<1>3. ~Opens(r) /\ ~Closes(r) /\ ~Stays(r)
    BY DEF Opens, Closes, Stays, Writing, Opened, Idle, NewSystem
<1> QED BY <1>1, <1>2, <1>3, SystemStep DEF StoreInv

\* What a first attempt has no stream of is a dependency of its manifest.
LEMMA NewRefsListed ==
    ASSUME TypeInv, NEW p \in Processes, Writing(p), ~NewPart(p).retried,
           NEW q \in DOMAIN NewPart(p).refs
    PROVE  NewPart(p).refs[q] \in
                {NewVersion(p), invalid_version_number} \cup NewPart(p).dependencies
<1>1. /\ q \in DOMAIN system[p].scan /\ NewPart(p).refs[q] = Entry(p, q).ref
      /\ NewPart(p).dependencies = dependencies(p)
      /\ ~system[p].scan[q].streamed
    BY DEF NewPart
<1>2. system[p].scan[q] \in Scanned
  <2>1. system[p] \in System
    BY SystemType DEF Writing, TypeInv
  <2> QED BY <1>1, <2>1, SystemScan, ScansType
<1>3. CASE Entry(p, q).stored = FALSE
    BY <1>1, <1>3 DEF dependencies
<1>4. CASE Entry(p, q).ref \in {NewVersion(p), invalid_version_number}
    BY <1>1, <1>4
<1> QED BY <1>2, <1>3, <1>4, EntryCases

LEMMA RefsListedStep ==
    ASSUME StoreInv, [Next]_vars
    PROVE  RefsListed'
<1> SUFFICES ASSUME NEW v \in Version, NEW i \in 1 .. Len(archives'[v]),
                    ~archives'[v][i].retried, NEW q \in DOMAIN archives'[v][i].refs
             PROVE  archives'[v][i].refs[q] \in
                        {v, invalid_version_number} \cup archives'[v][i].dependencies
    BY DEF RefsListed
<1>1. CASE i \in 1 .. Len(archives[v]) /\ archives'[v][i] = archives[v][i]
    BY <1>1 DEF StoreInv, RefsListed
<1>2. ASSUME NEW p \in Processes, Commits(p), v = NewVersion(p),
             archives'[v][i] = NewPart(p)
      PROVE  archives'[v][i].refs[q] \in
                {v, invalid_version_number} \cup archives'[v][i].dependencies
    BY <1>2, NewRefsListed DEF Commits, StoreInv
<1> QED BY <1>1, <1>2, PartStep DEF StoreInv

\* What a step does to the version that passed verify full.
LEMMA VerifiedStep ==
    ASSUME TypeInv, [Next]_vars
    PROVE  \/ UNCHANGED <<archives, verified>>
           \/ \E p \in Processes : VerifyFull(p)
           \/ \E p \in Processes : Commits(p)
           \/ \E v \in Version : Deletes(v)
<1>1. ASSUME NEW p \in Processes, EndBackup(p), ~ UNCHANGED <<archives, verified>>
      PROVE  Commits(p)
    BY <1>1, UpdateStep DEF EndBackup, ResetAfterBackup, Commits, Closes
<1>2. ASSUME NEW v \in Version, DeleteVersion(v) PROVE Deletes(v)
    BY <1>2 DEF DeleteVersion, Deletes
<1> QED BY <1>1, <1>2
        DEF Next, vars, Open, Add, SelectVersion, Quit, BeginBackup, RestoreBackup,
            RestoreFails, EditFile

LEMMA VerifiedIntactStep ==
    ASSUME StoreInv, [Next]_vars
    PROVE  VerifiedIntact'
<1> SUFFICES ASSUME NEW passed, passed = verified', passed # NotVerified,
                    NEW archive, archive = archives'[passed.number]
             PROVE  /\ passed.number \in passed.versions
                    /\ \A v \in passed.versions : archives'[v] # <<>> => Len(archives'[v]) = 1
                    /\ archive # <<>> => archive[Len(archive)].dependencies \subseteq passed.versions
    BY DEF VerifiedIntact, LastPart, Existing
<1>1. ASSUME NEW p \in Processes, VerifyFull(p)
      PROVE  /\ passed.number \in passed.versions
             /\ \A v \in passed.versions : archives'[v] # <<>> => Len(archives'[v]) = 1
             /\ archive # <<>> => archive[Len(archive)].dependencies \subseteq passed.versions
  <2> DEFINE number == system[p].selected
             listed == LastPart(number).dependencies
  <2>1. passed.number = number /\ passed.versions = {number} \cup listed
    BY <1>1 DEF VerifyFull
  <2>2. UNCHANGED archives
    BY <1>1 DEF VerifyFull
  <2>3. \A v \in {number} \cup listed : Len(archives[v]) = 1
    BY <1>1 DEF VerifyFull, full_verify, verify
  <2>4. archives[number][Len(archives[number])].dependencies = listed
    BY DEF LastPart
  <2> HIDE DEF number, listed
  <2> QED BY <2>1, <2>2, <2>3, <2>4
<1>2. verified.versions \subseteq Version
    BY DEF StoreInv, TypeInv, TypeOK
<1>3. CASE UNCHANGED verified /\ \A v \in verified.versions :
                archives'[v] = archives[v] \/ archives'[v] = <<>>
  <2>1. passed = verified
    BY <1>3
  <2>2. /\ verified.number \in verified.versions
        /\ \A v \in verified.versions : archives[v] # <<>> => Len(archives[v]) = 1
        /\ verified.number \in Existing =>
                LastPart(verified.number).dependencies \subseteq verified.versions
    BY <2>1 DEF StoreInv, VerifiedIntact
  <2>3. ASSUME archive # <<>>
        PROVE  archive[Len(archive)].dependencies \subseteq passed.versions
    <3>1. archives'[verified.number] # <<>> /\ verified.number \in Version
      BY <1>2, <2>1, <2>2, <2>3
    <3>2. archives'[verified.number] = archives[verified.number]
      BY <1>3, <2>2, <3>1
    <3>3. verified.number \in Existing
      BY <3>1, <3>2 DEF Existing
    <3> QED BY <1>3, <2>1, <2>2, <3>2, <3>3 DEF LastPart
  <2> QED BY <1>3, <2>1, <2>2, <2>3
<1>4. ASSUME NEW p \in Processes, Commits(p)
      PROVE  UNCHANGED verified /\ \A v \in verified.versions : archives'[v] = archives[v]
  <2>1. NewVersion(p) \notin verified.versions /\ UNCHANGED verified
    BY <1>4 DEF Commits
  <2> QED BY <1>2, <1>4, <2>1, CommittedArchive DEF StoreInv
<1>5. ASSUME NEW w \in Version, Deletes(w)
      PROVE  UNCHANGED verified /\ \A v \in verified.versions :
                archives'[v] = archives[v] \/ archives'[v] = <<>>
  <2>1. UNCHANGED verified
    BY <1>5 DEF Deletes
  <2>2. \A v \in Version : archives'[v] = archives[v] \/ archives'[v] = <<>>
    BY <1>5, DeletedArchive DEF StoreInv
  <2> QED BY <1>2, <2>1, <2>2
<1> QED BY <1>1, <1>3, <1>4, <1>5, VerifiedStep DEF StoreInv

LEMMA StoreInit ==
    ASSUME Init
    PROVE  StoreInv
BY TypeInit DEF Init, StoreInv, OwnVersionsListed, OnlyWritersWrite, RefsSettled,
    ObjectsSettled, NothingLeft, RefsListed, VerifiedIntact, Writing, Idle, Opened

LEMMA StoreStep ==
    ASSUME SingleWriterWhenLost, StoreInv, [Next]_vars
    PROVE  StoreInv'
BY TypeStep, ListedStep, WritersStep, RefsStep, ObjectsStep, NothingLeftStep, RefsListedStep,
   VerifiedIntactStep DEF StoreInv
-----------------------------------------------------------------------------
\* Restores of what has passed verify full.

LEMMA OwnObjects ==
    ASSUME StoreInv, NEW p \in Processes, Idle(p), ~system[p].failed, NEW number
    PROVE  ObjectsToRestore(p, number) = Objects(LastPart(number), FALSE)
BY DEF StoreInv, NothingLeft, ObjectsToRestore

\* The check of the dependencies finds every archive that is missing.
LEMMA MissingFound ==
    ASSUME StoreInv, NEW number \in Existing, ~LastPart(number).retried,
           DependenciesFound(number)
    PROVE  Complete(Objects(LastPart(number), FALSE))
<1> SUFFICES ASSUME NEW o \in Stored(Objects(LastPart(number), FALSE))
             PROVE  o.ref \in Existing
    BY DEF Complete, MissingArchives
<1>1. PICK q \in DOMAIN LastPart(number).refs : o.ref = LastPart(number).refs[q]
    BY DEF Stored, Objects
<1>2. number \in Version /\ Len(archives[number]) \in 1 .. Len(archives[number])
    BY EndsOfArchive DEF StoreInv, TypeInv
<1>3. o.ref \in {number, invalid_version_number} \cup LastPart(number).dependencies
    BY <1>1, <1>2 DEF StoreInv, RefsListed, LastPart
<1>4. o.ref # invalid_version_number
    BY DEF Stored
<1> QED BY <1>3, <1>4 DEF DependenciesFound

\* The version that has passed, as far as it is there.
LEMMA VerifiedVersion ==
    ASSUME StoreInv, NEW p \in Processes, Idle(p), HasPassed(p)
    PROVE  /\ verified.number \in Version /\ Requested(p) = verified.number
           /\ verified.number \in Existing =>
                /\ Len(archives[verified.number]) = 1
                /\ LastPart(verified.number) = archives[verified.number][1]
                /\ LastPart(verified.number) \in Part
<1>1. verified # NotVerified /\ system[p].selected = verified.number
    BY DEF HasPassed
<1>2. verified.number \in Version
    BY <1>1 DEF StoreInv, TypeInv, TypeOK, VerifiedIntact
<1>3. Requested(p) = verified.number
    BY <1>1, <1>2, CommandLineAssumption DEF Requested, Version
<1>4. ASSUME verified.number \in Existing
      PROVE  /\ Len(archives[verified.number]) = 1
             /\ LastPart(verified.number) = archives[verified.number][1]
             /\ LastPart(verified.number) \in Part
  <2>1. Len(archives[verified.number]) = 1
    BY <1>1, <1>4 DEF StoreInv, VerifiedIntact, Existing
  <2>2. LastPart(verified.number) \in Part
    BY <1>4, EndsOfArchive DEF StoreInv, TypeInv
  <2> QED BY <2>1, <2>2 DEF LastPart
<1> QED BY <1>2, <1>3, <1>4

\* What is read for a file of that version: what the version has recorded.
LEMMA VerifiedStream ==
    ASSUME StoreInv, NEW p \in Processes, Idle(p), HasPassed(p), FirstAttempt,
           NEW number, number = verified.number, number \in Existing,
           Complete(Objects(LastPart(number), FALSE)),
           LostStreams(Objects(LastPart(number), FALSE)) = {},
           NEW q \in DOMAIN LastPart(number).refs,
           NEW o \in Stored(Objects(LastPart(number), FALSE)), o.place = q,
           o.ref = LastPart(number).refs[q]
    PROVE  StreamOf(o) = LastPart(number).hash[q]
<1> DEFINE part == LastPart(number)
<1>1. /\ number \in Version /\ Len(archives[number]) = 1
      /\ part = archives[number][1] /\ part \in Part
    BY VerifiedVersion
<1>2. o.ref \in Existing /\ o.ref # invalid_version_number /\ ~LostStream(o)
    BY DEF Complete, MissingArchives, LostStreams, Stored
<1>3. Recorded(o) /\ LastPart(o.ref).hash[q] = part.hash[q]
  <2>1. CASE o.ref = number
    BY <1>1, <2>1 DEF Recorded
  <2>2. CASE o.ref # number
    <3>1. 1 \in 1 .. Len(archives[number])
      BY <1>1
    <3>2. Settled(archives, q, part.refs[q], part.hash[q])
      BY <1>1, <1>2, <2>2, <3>1 DEF StoreInv, RefsSettled
    <3>3. o.ref \in part.dependencies
      BY <1>1, <1>2, <2>2, <3>1 DEF StoreInv, RefsListed, FirstAttempt
    <3>4. o.ref \in verified.versions
      BY <3>3 DEF StoreInv, VerifiedIntact, HasPassed
    <3>5. Len(archives[o.ref]) = 1 /\ LastPart(o.ref) = archives[o.ref][1]
      BY <1>2, <3>4 DEF StoreInv, VerifiedIntact, HasPassed, Existing, LastPart
    <3>6. /\ q \in DOMAIN LastPart(o.ref).refs /\ LastPart(o.ref).refs[q] = o.ref
          /\ LastPart(o.ref).hash[q] = part.hash[q]
      BY <1>2, <3>2, <3>5 DEF Settled, Existing
    <3> QED BY <1>2, <3>5, <3>6 DEF Recorded
  <2> QED BY <2>1, <2>2
<1>4. HasStream(o)
    BY <1>2, <1>3 DEF LostStream, HasStream
<1> QED BY <1>3, <1>4 DEF StreamOf

\* A restore of it that returns.
LEMMA VerifiedRestore ==
    ASSUME StoreInv, NEW p \in Processes, Idle(p), ~system[p].failed, HasPassed(p),
           FirstAttempt, NEW number, number = verified.number, number \in Existing,
           Complete(Objects(LastPart(number), FALSE)),
           LostStreams(Objects(LastPart(number), FALSE)) = {},
           NEW objects, objects = Objects(LastPart(number), FALSE),
           NEW displaced \in SUBSET Displaceable(objects)
    PROVE  Restored(objects, MaxVersion + 1, displaced) =
                [q \in Places |-> IF q \in DOMAIN LastPart(number).hash
                                  THEN LastPart(number).hash[q] ELSE live[q]]
<1> DEFINE part == LastPart(number)
<1>1. /\ number \in Version /\ Len(archives[number]) = 1
      /\ part = archives[number][1] /\ part \in Part
    BY VerifiedVersion
<1>2. displaced = {}
    BY DEF Displaceable, Objects, Stored
<1>3. DOMAIN part.hash = DOMAIN part.refs
    BY <1>1, PartType
<1>4. ASSUME NEW q \in Places
      PROVE  Restored(objects, MaxVersion + 1, displaced)[q] =
                IF q \in DOMAIN part.hash THEN part.hash[q] ELSE live[q]
  <2> DEFINE written == {o \in Stored(objects) \ displaced :
                            o.place = q /\ ~o.encrypted /\ o.ref < MaxVersion + 1}
             own == [place |-> q, ref |-> part.refs[q], hash |-> part.hash[q], encrypted |-> FALSE]
  <2>1. CASE q \notin DOMAIN part.refs
    <3>1. \A o \in objects : o.place # q
      BY <2>1 DEF Objects
    <3> QED BY <1>3, <2>1, <3>1 DEF Restored
  <2>2. CASE q \in DOMAIN part.refs /\ part.refs[q] = invalid_version_number
    <3>1. own \in objects /\ own.place = q
      BY <2>2 DEF Objects
    <3>2. written = {}
      BY <2>2 DEF Objects, Stored
    <3>3. Restored(objects, MaxVersion + 1, displaced)[q] = NoFile
      BY <3>1, <3>2 DEF Restored
    <3>4. part.hash[q] = NoFile
      <4>1. 1 \in 1 .. Len(archives[number])
        BY <1>1
      <4> QED BY <1>1, <2>2, <4>1 DEF StoreInv, RefsSettled
    <3> QED BY <1>3, <2>2, <3>3, <3>4
  <2>3. CASE q \in DOMAIN part.refs /\ part.refs[q] # invalid_version_number
    <3>1. own \in objects /\ own.place = q
      BY <2>3 DEF Objects
    <3>2. part.refs[q] < MaxVersion + 1
      <4>1. part.refs[q] \in Version
        BY <1>1, <2>3, PartType DEF Ref
      <4> QED BY <4>1, CommandLineAssumption DEF Version
    <3>3. own \in Stored(objects)
      BY <2>3, <3>1 DEF Stored
    <3>4. written = {own}
      <4>1. own \in written
        BY <1>2, <3>2, <3>3
      <4>2. \A o \in written : o = own
        BY DEF Objects, Stored
      <4> QED BY <4>1, <4>2
    <3>5. own.ref <= own.ref
      <4>1. part.refs[q] \in Int
        BY <1>1, <2>3, PartType DEF Ref, Version, invalid_version_number
      <4> QED BY <4>1
    <3>6. (CHOOSE o \in written : \A w \in written : w.ref <= o.ref) = own
      BY <3>4, <3>5
    <3>7. Restored(objects, MaxVersion + 1, displaced)[q] = StreamOf(own)
      BY <3>1, <3>4, <3>6 DEF Restored
    <3>8. StreamOf(own) = part.hash[q]
      BY <2>3, <3>3, VerifiedStream
    <3> QED BY <1>3, <2>3, <3>7, <3>8
  <2> QED BY <2>1, <2>2, <2>3
<1> DEFINE R == Restored(objects, MaxVersion + 1, displaced)
<1>5. R \in [Places -> Held]
  <2>1. objects \in SUBSET Object
    BY <1>1, ObjectsType
  <2>2. TypeOK
    BY DEF StoreInv, TypeInv
  <2> QED BY <2>1, <2>2, RestoredType
<1> HIDE DEF R, part
<1>6. \A q \in Places : R[q] = IF q \in DOMAIN part.hash THEN part.hash[q] ELSE live[q]
    BY <1>4 DEF R
<1>7. R = [q \in Places |-> IF q \in DOMAIN part.hash THEN part.hash[q] ELSE live[q]]
    BY <1>5, <1>6
<1> QED BY <1>7 DEF R, part

LEMMA Verified ==
    ASSUME StoreInv, NEW p \in Processes, Idle(p), ~system[p].failed, HasPassed(p),
           FirstAttempt
    PROVE  RestoresExactly(p)
<1> DEFINE number == verified.number
           objects == Objects(LastPart(number), FALSE)
           recorded == LastPart(number).hash
<1>1. ObjectsToRestore(p, number) = objects /\ Requested(p) = number
    BY OwnObjects, VerifiedVersion
<1>2. system[p].versions # {}
    BY DEF HasPassed
<1>3. ASSUME RestoreBackup(p)
      PROVE  live' = [q \in Places |-> IF q \in DOMAIN recorded THEN recorded[q] ELSE live[q]]
  <2>1. /\ number \in Existing /\ Complete(objects) /\ LostStreams(objects) = {}
        /\ \E displaced \in SUBSET Displaceable(objects) :
                live' = Restored(objects, MaxVersion + 1, displaced)
    BY <1>1, <1>2, <1>3 DEF RestoreBackup, Found
  <2>2. PICK displaced \in SUBSET Displaceable(objects) :
                live' = Restored(objects, MaxVersion + 1, displaced)
    BY <2>1
  <2>3. Restored(objects, MaxVersion + 1, displaced) =
            [q \in Places |-> IF q \in DOMAIN recorded THEN recorded[q] ELSE live[q]]
    BY <2>1, VerifiedRestore
  <2> QED BY <2>2, <2>3
<1>4. ASSUME RestoreFails(p), number \notin Existing \/ ~Complete(objects)
      PROVE  UNCHANGED live
  <2>1. ~(Found(p, number) /\ DependenciesFound(number))
    BY <1>4, MissingFound DEF Found, FirstAttempt
  <2> QED BY <1>1, <1>2, <1>4, <2>1 DEF RestoreFails
<1> QED BY <1>1, <1>3, <1>4 DEF RestoresExactly

\* After verify full passed, by any process, a restore of that version by a
\* BackupSystem in which no command has failed brings back the version as a
\* first attempt recorded it, whatever sessions, edits and deletions came
\* between the two commands, or leaves the files alone when an archive is
\* missing; when versions are deleted only where one process backs up
\* (process_verify, process_restore).
THEOREM RestoresWhatItVerified ==
    ASSUME SingleWriterWhenLost
    PROVE  Spec => VerifiedRestoresExactly
<1> DEFINE Restores ==
        \A p \in Processes :
            Idle(p) /\ ~system[p].failed /\ HasPassed(p) /\ FirstAttempt => RestoresExactly(p)
<1>1. Init => StoreInv
    BY StoreInit
<1>2. StoreInv /\ [Next]_vars => StoreInv'
    BY StoreStep
<1>3. StoreInv => Restores
    BY Verified
<1>4. Spec => [][Restores]_vars
  <2> HIDE DEF Restores
  <2> QED BY <1>1, <1>2, <1>3, PTL DEF Spec
<1> QED BY <1>4 DEF VerifiedRestoresExactly
=============================================================================
