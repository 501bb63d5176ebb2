------------------------- MODULE BackupSystemProofs -------------------------
(***************************************************************************)
(* Proofs about BackupSystem, for every value of its constants.            *)
(*                                                                         *)
(* The invariant has a part on the files, one on the files of the backup   *)
(* and one on the running session.  What the session part says beyond the  *)
(* types: a session writes the version after the last one, its stream ids  *)
(* are an interval that starts where the last version stopped or, after a  *)
(* failed attempt, later, and while add_files has a file open its path can *)
(* still be resolved.                                                      *)
(***************************************************************************)
EXTENDS BackupSystem, FiniteSetTheorems, SequenceTheorems, WellFoundedInduction, TLAPS

FsoRecord == [path : Paths, type : {"RegularFile", "FileHardlink", "FileSymlink"},
              link_target : Paths \cup {0}, size : Nat, date : 0 .. MaxClock,
              guid : Int, mode : {"NoBackup", "Full", "Unmodified"},
              latest : Version \cup {-1}, stream_id : Nat, hash : Data \cup {NoHash}]

\* Objects by slot, each with its own path; a link has a target.
OwnPaths(f) ==
    \A s \in DOMAIN f :
        /\ f[s].path = s[2]
        /\ f[s].type = "FileSymlink" => f[s].link_target \in Paths
ObjectMaps(F) == {f \in UNION {[D -> F] : D \in SUBSET Slots} : OwnPaths(f)}

Disk == [Paths -> [data : Data, date : 0 .. MaxClock]]
FsView == [node : [Paths -> Node], disk : Disk]
Part == [id : Nat, size : Nat, data : Data]
AuxList == [unmapped : Nat, objects : ObjectMaps(FsoType)]
Archive == [parts : Seq(Part), objects : ObjectMaps(FsoType), unmapped : Nat,
            mapped : Nat, deps : SUBSET Version, nextId : Nat \ {0}]

FilesTyped ==
    /\ node \in [Paths -> Node]
    /\ disk \in Disk
    /\ clock \in 0 .. MaxClock

SessionFields == {"version", "criterium", "use_snapshots", "view", "unmapped", "mapped",
                  "retries", "owners", "old"}

StoreTyped ==
    /\ archives \in [Version -> Archive \cup {NoArchive}]
    /\ aux \in [Version -> Seq(AuxList)]

SessionTyped ==
    /\ phase \in {"idle", "generating", "storing", "failed"}
    /\ objects \in ObjectMaps(FsoRecord)
    /\ todo \subseteq DOMAIN objects
    /\ streams \subseteq DOMAIN objects /\ IsFiniteSet(streams)
    /\ nextId \in Nat
    /\ deps \subseteq Version
    /\ parts \in Seq(Part)
    /\ opened \in Nat \cup {-1}
    /\ phase # "idle" =>
          /\ DOMAIN session = SessionFields
          /\ session.version \in Version /\ session.retries \in Nat
          /\ session.unmapped \in Nat /\ session.mapped \in Nat
          /\ session.old \in ObjectMaps(FsoType)
          /\ UseSnapshots => session.view \in FsView
          /\ nextId # 0
    /\ phase = "storing" => queue \in Seq(DOMAIN objects) /\ Len(parts) <= Len(queue)

\* A session writes the version after the last one.
VersionIsNew ==
    phase # "idle" => /\ \A v \in Versions : v < session.version
                      /\ session.version # 0 => session.version - 1 \in Versions

\* Where the last version stopped.
LastNext == IF session.version = 0 THEN first_valid_stream_id
            ELSE archives[session.version - 1].nextId

\* The first stream id of the running session.
FirstStream == nextId - Cardinality(streams)

\* The stream ids of a session: an interval after those of the last version,
\* handed out once each and, later, in the order of the archive.
StreamsNumbered ==
    /\ phase # "idle" => LastNext <= FirstStream
    /\ phase \in {"generating", "failed"} => queue = <<>> /\ parts = <<>>
    /\ phase = "failed" => streams = {}
    /\ phase = "generating" =>
          /\ streams \cap todo = {}
          /\ StreamIds = FirstStream .. (nextId - 1)
    /\ phase = "storing" =>
          /\ FirstStream + Len(queue) = nextId
          /\ \A i \in DOMAIN queue : objects[queue[i]].stream_id = FirstStream + i - 1
          /\ \A i \in DOMAIN parts : parts[i].id = FirstStream + i - 1

OpenedResolves ==
    opened # -1 =>
        /\ phase = "storing" /\ Len(parts) < Len(queue)
        /\ Resolve(View, Current[2]) # 0

TypeInv == FilesTyped /\ StoreTyped /\ SessionTyped /\ VersionIsNew /\ OpenedResolves
Inv == TypeInv /\ StreamsNumbered /\ StreamIdsGrow
-----------------------------------------------------------------------------
\* Numbers.  The least element of a set of naturals, by well-foundedness.
LEMMA MinExists ==
    ASSUME NEW S, S \subseteq Nat, S # {}
    PROVE  \E m \in S : \A x \in S : m <= x
<1>1. PICK m \in S : \A y \in S : ~(<<y, m>> \in OpToRel(<, Nat))
    BY NatLessThanWellFounded, WFMin
<1>2. ASSUME NEW y \in S, y < m
      PROVE  FALSE
    <2>1. <<y, m>> \in Nat \X Nat /\ <<y, m>>[1] < <<y, m>>[2]
        BY <1>2
    <2>2. <<y, m>> \in OpToRel(<, Nat)
        BY <2>1, Zenon DEF OpToRel
    <2> QED BY <1>1, <1>2, <2>2
<1> QED BY <1>2

LEMMA MaxExists ==
    ASSUME NEW n \in Nat, NEW S, S \subseteq 0 .. n, S # {}
    PROVE  \E m \in S : \A x \in S : x <= m
<1> DEFINE T == {k \in Nat : n - k \in S}
<1>1. PICK s \in S : TRUE
    OBVIOUS
<1>2. n - s \in T
    BY <1>1
<1>3. PICK k \in T : \A y \in T : k <= y
    BY <1>2, MinExists
<1>4. n - k \in S /\ \A x \in S : x <= n - k
    BY <1>3
<1> QED BY <1>4

\* What get_version_count returns: one more than the last version.
LEMMA VersionCount ==
    /\ get_version_count \in Nat
    /\ \A v \in Versions : v < get_version_count
    /\ get_version_count # 0 => get_version_count - 1 \in Versions
<1>1. CASE Versions = {}
    BY <1>1 DEF get_version_count
<1>2. CASE Versions # {}
    <2> DEFINE last == CHOOSE v \in Versions : \A w \in Versions : w <= v
    <2>1. Versions \subseteq 0 .. MaxVersion
        BY DEF Versions, Version
    <2>2. last \in Versions /\ \A w \in Versions : w <= last
        BY <1>2, <2>1, MaxExists, BoundsAssumption
    <2>3. get_version_count = 1 + last
        BY <1>2 DEF get_version_count
    <2> HIDE DEF last
    <2> QED BY <2>1, <2>2, <2>3
<1> QED BY <1>1, <1>2
-----------------------------------------------------------------------------
\* Maps from slots to objects.
LEMMA ObjectMapsIntro ==
    ASSUME NEW F, NEW f, DOMAIN f \subseteq Slots, f \in [DOMAIN f -> F], OwnPaths(f)
    PROVE  f \in ObjectMaps(F)
BY DEF ObjectMaps

LEMMA ObjectMapsElim ==
    ASSUME NEW F, NEW f \in ObjectMaps(F)
    PROVE  DOMAIN f \subseteq Slots /\ f \in [DOMAIN f -> F] /\ OwnPaths(f)
BY DEF ObjectMaps

LEMMA NoObjectsTyped ==
    ASSUME NEW F
    PROVE  NoObjects \in ObjectMaps(F)
<1>1. DOMAIN NoObjects = {} /\ NoObjects \in [{} -> F]
    BY DEF NoObjects
<1>2. OwnPaths(NoObjects)
    BY <1>1 DEF OwnPaths
<1> QED BY <1>1, <1>2, ObjectMapsIntro
-----------------------------------------------------------------------------
\* What the program reads from the file system.
LEMMA NodeFields ==
    ASSUME NEW x \in Node
    PROVE  /\ x.type \in {"none", "file", "link"}
           /\ x.type # "none" => x.ref \in Paths
BY DEF Node, NoNode, FileNode, LinkNode

LEMMA LiveViewTyped ==
    ASSUME FilesTyped
    PROVE  LiveView \in FsView
BY DEF FilesTyped, LiveView, FsView

LEMMA ViewTyped ==
    ASSUME FilesTyped, SessionTyped, phase # "idle"
    PROVE  View \in FsView
BY LiveViewTyped DEF SessionTyped, View

LEMMA ResolveTyped ==
    ASSUME NEW v \in FsView, NEW p \in Paths
    PROVE  Resolve(v, p) \in Paths \cup {0}
<1>1. v.node[p] \in Node
    BY DEF FsView
<1>2. CASE v.node[p].type = "file"
    BY <1>1, <1>2, NodeFields DEF Resolve
<1>3. CASE v.node[p].type = "link" /\ v.node[v.node[p].ref].type = "file"
    <2>1. v.node[v.node[p].ref] \in Node
        BY <1>1, <1>3, NodeFields DEF FsView
    <2> QED BY <1>3, <2>1, NodeFields DEF Resolve
<1>4. CASE /\ v.node[p].type # "file"
           /\ ~(v.node[p].type = "link" /\ v.node[v.node[p].ref].type = "file")
    BY <1>4 DEF Resolve
<1> QED BY <1>2, <1>3, <1>4

LEMMA DiskFields ==
    ASSUME NEW v \in FsView, NEW i \in Paths
    PROVE  v.disk[i].data \in Data /\ v.disk[i].date \in 0 .. MaxClock
BY DEF FsView, Disk

LEMMA FileSizeTyped ==
    ASSUME NEW v \in FsView, NEW p \in Paths
    PROVE  FileSize(v, p) \in Nat
<1>1. v.node[p] \in Node
    BY DEF FsView
<1>2. v.node[p].type = "file" => v.disk[v.node[p].ref].data \in Data
    BY <1>1, NodeFields, DiskFields
<1> QED BY <1>2, DataAssumption DEF FileSize

LEMMA NewFsoTyped ==
    ASSUME NEW v \in FsView, NEW p \in Paths, NEW x
    PROVE  /\ NewFso(v, p, x) \in FsoRecord
           /\ NewFso(v, p, x).path = p
           /\ NewFso(v, p, x).type = "FileSymlink" => NewFso(v, p, x).link_target \in Paths
<1>1. v.node[p] \in Node
    BY DEF FsView
<1>2. p \in Nat /\ Resolve(v, p) \in Nat /\ Resolve(v, p) \in Paths \cup {0}
    <2>1. \A q \in Paths : q \in Nat
        BY PathsAssumption
    <2>2. Resolve(v, p) \in Paths \cup {0}
        BY ResolveTyped
    <2> QED BY <2>1, <2>2
<1>3. FileGuid(v, p) \in Int
    BY <1>2 DEF FileGuid
<1>4. ModificationTime(v, p) \in 0 .. MaxClock
    <2>1. 0 \in 0 .. MaxClock
        BY BoundsAssumption
    <2>2. Resolve(v, p) # 0 => v.disk[Resolve(v, p)].date \in 0 .. MaxClock
        BY <1>2, DiskFields
    <2> QED BY <2>1, <2>2 DEF ModificationTime
<1>5. FileSize(v, p) \in Nat
    BY FileSizeTyped
<1>6. TypeOf(v, p) \in {"RegularFile", "FileHardlink", "FileSymlink"}
    BY DEF TypeOf
<1>7. TypeOf(v, p) = "FileSymlink" => v.node[p].type = "link"
    BY DEF TypeOf
<1>8. (IF v.node[p].type = "link" THEN v.node[p].ref ELSE 0) \in Paths \cup {0}
    BY <1>1, NodeFields
<1>9. invalid_version_number = -1 /\ invalid_stream_id = 0
    BY DEF invalid_version_number, invalid_stream_id
<1>10. NewFso(v, p, x) \in FsoRecord
    BY <1>3, <1>4, <1>5, <1>6, <1>8, <1>9 DEF NewFso, FsoRecord
<1> QED BY <1>1, <1>7, <1>10, NodeFields DEF NewFso

LEMMA ScannedTyped ==
    ASSUME NEW v \in FsView, NEW x
    PROVE  ScannedObjects(v, x) \in ObjectMaps(FsoRecord)
<1>1. DOMAIN ScannedObjects(v, x) \subseteq Slots
    BY DEF ScannedObjects, Listed
<1>2. \A s \in Slots : s[2] \in Paths
    BY DEF Slots
<1>3. ASSUME NEW s \in DOMAIN ScannedObjects(v, x)
      PROVE  /\ ScannedObjects(v, x)[s] = NewFso(v, s[2], x)
             /\ s[2] \in Paths
    BY <1>1, <1>2 DEF ScannedObjects
<1>4. ScannedObjects(v, x) \in [DOMAIN ScannedObjects(v, x) -> FsoRecord]
    BY <1>2, NewFsoTyped DEF ScannedObjects, Listed
<1>5. OwnPaths(ScannedObjects(v, x))
    BY <1>3, NewFsoTyped DEF OwnPaths
<1> QED BY <1>1, <1>4, <1>5, ObjectMapsIntro
-----------------------------------------------------------------------------
\* Where a session starts.
LEMMA ArchiveFields ==
    ASSUME StoreTyped, NEW v \in Versions
    PROVE  v \in Version /\ archives[v] \in Archive
BY DEF Versions, StoreTyped

LEMMA OldListTyped ==
    ASSUME StoreTyped, NEW v \in Versions, NEW snapshot \in Nat
    PROVE  /\ get_old_objects(v, snapshot).mapped \in Nat
           /\ get_old_objects(v, snapshot).objects \in ObjectMaps(FsoType)
<1>1. CASE aux[v] = <<>>
    BY <1>1, ArchiveFields DEF get_old_objects, Archive
<1>2. CASE aux[v] # <<>>
    <2>1. aux[v] \in Seq(AuxList)
        BY ArchiveFields DEF StoreTyped
    <2>2. aux[v][1] \in AuxList
        BY <1>2, <2>1
    <2>3. aux[v][1].unmapped \in Nat /\ aux[v][1].objects \in ObjectMaps(FsoType)
        BY <2>2 DEF AuxList
    <2>4. map_forward(aux[v][1].unmapped, snapshot) \in Nat
        BY <2>3 DEF map_forward
    <2> QED BY <1>2, <2>3, <2>4 DEF get_old_objects
<1> QED BY <1>1, <1>2

LEMMA StartTyped ==
    ASSUME StoreTyped, NEW snapshot \in Nat
    PROVE  /\ StartingPoint(snapshot).place \in Nat
           /\ StartingPoint(snapshot).objects \in ObjectMaps(FsoType)
           /\ StartingPoint(snapshot).nextId =
                IF get_version_count = 0 THEN first_valid_stream_id
                ELSE archives[get_version_count - 1].nextId
<1>1. CASE get_version_count = 0
    BY <1>1, NoObjectsTyped DEF StartingPoint, Live
<1>2. CASE get_version_count # 0
    <2>1. get_version_count - 1 \in Versions
        BY <1>2, VersionCount
    <2> QED BY <1>2, <2>1, OldListTyped DEF StartingPoint
<1> QED BY <1>1, <1>2

\* The stream id a version starts with is not the invalid one.
LEMMA LastNextTyped ==
    ASSUME StoreTyped, NEW v \in Nat, v # 0 => v - 1 \in Versions
    PROVE  (IF v = 0 THEN first_valid_stream_id ELSE archives[v - 1].nextId) \in Nat \ {0}
BY ArchiveFields DEF Archive, first_valid_stream_id
-----------------------------------------------------------------------------
\* Invariants of a state that a step leaves as it is.
sessionParts == <<phase, session, objects, todo, streams, nextId, deps, queue, opened, parts>>

\* A step that leaves the session alone keeps what is said of it.
LEMMA SessionKept ==
    ASSUME Inv, UNCHANGED sessionParts, UNCHANGED archives
    PROVE  SessionTyped' /\ VersionIsNew' /\ StreamsNumbered' /\ StreamIdsGrow'
<1>1. SessionTyped'
    BY DEF UseSnapshots, Inv, TypeInv, sessionParts, SessionTyped
<1>2. VersionIsNew'
    BY DEF Inv, TypeInv, sessionParts, VersionIsNew, Versions
<1>3. FirstStream' = FirstStream /\ StreamIds' = StreamIds /\ LastNext' = LastNext
    BY DEF sessionParts, FirstStream, StreamIds, LastNext
<1>4. StreamsNumbered'
    BY <1>3 DEF Inv, sessionParts, StreamsNumbered
<1>5. StreamIdsGrow'
    BY DEF Inv, StreamIdsGrow, Versions
<1> QED BY <1>1, <1>2, <1>4, <1>5

\* So does the end of a session, whatever becomes of its archive.
LEMMA SessionOver ==
    ASSUME NoSession
    PROVE  SessionTyped' /\ VersionIsNew' /\ OpenedResolves' /\ StreamsNumbered'
<1>1. phase' = "idle" /\ opened' = -1
    BY DEF NoSession
<1>2. SessionTyped'
    <2>1. objects' \in ObjectMaps(FsoRecord)
        BY NoObjectsTyped DEF NoSession
    <2> QED BY <1>1, <2>1, FS_EmptySet DEF NoSession, SessionTyped
<1> QED BY <1>1, <1>2 DEF VersionIsNew, OpenedResolves, StreamsNumbered

LEMMA StoreKept ==
    ASSUME StoreTyped, UNCHANGED <<archives, aux>>
    PROVE  StoreTyped' /\ Versions' = Versions
BY DEF StoreTyped, Versions

LEMMA AbortTyped ==
    ASSUME Inv, NoSession, UNCHANGED <<fsVars, storeVars>>
    PROVE  Inv'
<1>1. FilesTyped'
    BY DEF Inv, TypeInv, FilesTyped, fsVars
<1>2. StoreTyped' /\ StreamIdsGrow'
    BY StoreKept DEF Inv, TypeInv, storeVars, StreamIdsGrow
<1> QED BY <1>1, <1>2, SessionOver DEF Inv, TypeInv
-----------------------------------------------------------------------------
\* BeginBackup.

\* At the start of an attempt no number has been handed out.
LEMMA NoStreams ==
    ASSUME streams' = {}, nextId' \in Nat
    PROVE  FirstStream' = nextId' /\ StreamIds' = FirstStream' .. (nextId' - 1)
<1>1. StreamIds' = {}
    BY DEF StreamIds
<1>2. Cardinality(streams') = 0
    BY FS_EmptySet
<1>3. nextId' - Cardinality(streams') = nextId'
    BY <1>2
<1>4. FirstStream' = nextId' - Cardinality(streams')
    BY DEF FirstStream
<1>5. FirstStream' = nextId'
    BY <1>3, <1>4, Zenon
<1>6. \A n \in Nat : n .. (n - 1) = {}
    OBVIOUS
<1>7. nextId' .. (nextId' - 1) = {}
    BY ONLY <1>6, nextId' \in Nat
<1> QED BY ONLY <1>1, <1>5, <1>7

LEMMA BeginTyped ==
    ASSUME Inv, NEW exclusion, NEW criterium, NEW u \in BOOLEAN,
           BeginBackup(exclusion, criterium, u)
    PROVE  Inv'
<1> DEFINE version == get_version_count
           snapshot == IF u THEN version + 1 ELSE Live
           start == StartingPoint(snapshot)
           mapped == map_forward(start.place, snapshot)
<1>1. /\ phase' = "generating" /\ todo' = DOMAIN objects' /\ streams' = {}
      /\ deps' = {} /\ queue' = <<>> /\ parts' = <<>> /\ opened' = -1
      /\ nextId' = start.nextId /\ version \in Version
      /\ UNCHANGED <<fsVars, storeVars>>
    BY DEF BeginBackup
<1>2. FilesTyped' /\ StoreTyped' /\ Versions' = Versions
    BY <1>1, StoreKept DEF Inv, TypeInv, FilesTyped, fsVars, storeVars
<1>3. version \in Nat /\ snapshot \in Nat
    BY VersionCount DEF Live
<1>4. start.place \in Nat /\ start.objects \in ObjectMaps(FsoType)
    BY <1>3, StartTyped DEF Inv, TypeInv
<1>5. mapped \in Nat
    BY <1>3, <1>4 DEF map_forward
<1>6. /\ session'.version = version
      /\ session'.unmapped = start.place /\ session'.mapped = mapped
      /\ session'.old = IF start.place = mapped THEN start.objects ELSE NoObjects
      /\ UseSnapshots' => session'.view = LiveView
    BY DEF BeginBackup, UseSnapshots
<1>7. objects' \in ObjectMaps(FsoRecord)
    <2>1. objects' = ScannedObjects(LiveView, exclusion) \/ objects' = NoObjects
        BY DEF BeginBackup
    <2> QED BY <2>1, ScannedTyped, LiveViewTyped, NoObjectsTyped DEF Inv, TypeInv
<1>8. VersionIsNew'
    BY <1>2, <1>6, VersionCount DEF VersionIsNew
<1>9. nextId' = LastNext' /\ nextId' \in Nat \ {0}
    <2>1. nextId' = IF version = 0 THEN first_valid_stream_id ELSE archives[version - 1].nextId
        BY <1>1, <1>3, StartTyped DEF Inv, TypeInv
    <2>2. archives' = archives
        BY <1>1 DEF storeVars
    <2> QED BY <1>3, <1>6, <2>1, <2>2, VersionCount, LastNextTyped DEF Inv, TypeInv, LastNext
<1>10. SessionTyped'
    <2>1. session'.old \in ObjectMaps(FsoType)
        BY <1>4, <1>6, NoObjectsTyped
    <2>2. UseSnapshots' => session'.view \in FsView
        BY <1>6, LiveViewTyped DEF Inv, TypeInv
    <2>3. session'.version \in Version /\ session'.unmapped \in Nat /\ session'.mapped \in Nat
        BY <1>1, <1>4, <1>5, <1>6
    <2>4. DOMAIN session' = SessionFields /\ session'.retries \in Nat
        BY DEF BeginBackup, SessionFields
    <2> HIDE DEF version, snapshot, start, mapped
    <2> QED BY <1>1, <1>7, <1>9, <2>1, <2>2, <2>3, <2>4, FS_EmptySet DEF SessionTyped
<1>11. StreamsNumbered'
    <2>1. StreamIds' = FirstStream' .. (nextId' - 1) /\ FirstStream' = nextId'
        BY <1>1, <1>9, NoStreams
    <2>2. LastNext' <= FirstStream'
        <3>1. LastNext' \in Nat /\ FirstStream' = LastNext'
            BY <1>9, <2>1
        <3> QED BY ONLY <3>1
    <2> QED BY <1>1, <2>1, <2>2 DEF StreamsNumbered
<1>12. OpenedResolves'
    BY <1>1 DEF OpenedResolves
<1>13. StreamIdsGrow'
    BY <1>1, <1>2 DEF Inv, StreamIdsGrow, storeVars
<1> QED BY <1>2, <1>8, <1>10, <1>11, <1>12, <1>13 DEF Inv, TypeInv
-----------------------------------------------------------------------------
\* GenerateStream.
LEMMA OldObjectTyped ==
    ASSUME SessionTyped, phase # "idle", NEW p, OldSlots(p) # {}
    PROVE  /\ OldObject(p) \in FsoType
           /\ \E t \in DOMAIN session.old : OldObject(p) = session.old[t]
<1>1. /\ session.old \in [DOMAIN session.old -> FsoType]
      /\ DOMAIN session.old \subseteq Slots
    BY ObjectMapsElim DEF SessionTyped
<1>2. \A t \in OldSlots(p) : t = <<t[1], p>> /\ t[1] \in Nat /\ t \in DOMAIN session.old
    BY <1>1 DEF OldSlots, Slots
<1>3. PICK m \in {t[1] : t \in OldSlots(p)} : \A k \in {t[1] : t \in OldSlots(p)} : m <= k
    <2> DEFINE S == {t[1] : t \in OldSlots(p)}
    <2>1. S \subseteq Nat /\ S # {}
        BY <1>2
    <2> QED BY <2>1, MinExists
<1>4. PICK t \in OldSlots(p) : t[1] = m
    BY <1>3
<1>5. ASSUME NEW u \in OldSlots(p) \ {t}
      PROVE  Precedes(t, u)
    <2>1. t = <<t[1], p>> /\ u = <<u[1], p>> /\ t # u
        BY <1>2
    <2>2. t[1] # u[1]
        BY <2>1
    <2>3. t[1] <= u[1] /\ t[1] \in Nat /\ u[1] \in Nat
        BY <1>2, <1>3, <1>4
    <2> QED BY <2>2, <2>3 DEF Precedes
<1>6. (CHOOSE x \in OldSlots(p) : \A u \in OldSlots(p) \ {x} : Precedes(x, u)) \in OldSlots(p)
    BY <1>4, <1>5
<1> QED BY <1>1, <1>2, <1>6 DEF OldObject

\* What GenerateStream makes of an object is an object of the same path.
SameFile(f, g) == g.path = f.path /\ g.type = f.type /\ g.link_target = f.link_target

LEMMA ReferToOldTyped ==
    ASSUME SessionTyped, phase # "idle", NEW f \in FsoRecord, OldSlots(f.path) # {}
    PROVE  ReferToOld(f) \in FsoRecord /\ SameFile(f, ReferToOld(f))
<1> DEFINE old == OldObject(f.path)
<1>1. old \in FsoType
    BY OldObjectTyped
<1>2. /\ old.latest \in Version \cup {-1} /\ old.stream_id \in Nat
      /\ old.hash \in Data \cup {NoHash}
    BY <1>1 DEF FsoType
<1>3. ReferToOld(f) = [f EXCEPT !.mode = "Unmodified", !.latest = old.latest,
                                !.stream_id = old.stream_id,
                                !.hash = IF old.hash = NoHash THEN @ ELSE old.hash]
    BY DEF ReferToOld
<1> HIDE DEF old
<1> QED BY <1>2, <1>3 DEF FsoRecord, SameFile

\* A digest compute_hash leaves is that of some content, or none.
LEMMA ComputedTyped ==
    ASSUME FilesTyped, SessionTyped, phase # "idle", NEW f \in FsoRecord
    PROVE  compute_hash(f) \in Data \cup {NoHash}
<1>1. View \in FsView
    BY ViewTyped
<1>2. Resolve(View, f.path) \in Paths \cup {0}
    BY <1>1, ResolveTyped DEF FsoRecord
<1>3. Resolve(View, f.path) # 0 => View.disk[Resolve(View, f.path)].data \in Data
    BY <1>1, <1>2 DEF FsView, Disk
<1> QED BY <1>3 DEF compute_hash, FsoRecord

LEMMA GeneratedTyped ==
    ASSUME Inv, NEW s, GenerateStream(s)
    PROVE  /\ s \in DOMAIN objects
           /\ \E g \in FsoRecord :
                /\ SameFile(objects[s], g)
                /\ objects' = [objects EXCEPT ![s] = g]
                /\ \/ streams' = streams /\ nextId' = nextId
                   \/ streams' = streams \cup {s} /\ nextId' = nextId + 1 /\ g.stream_id = nextId
<1> DEFINE f == [objects[s] EXCEPT !.latest = version_if_added(objects[s])]
           checked == should_be_added(objects[s]) /\ f.mode = "Full"
           stored == checked /\ file_has_changed(f)
           hash == IF HasDigest(f) THEN compute_hash(f) ELSE f.hash
           g == IF stored THEN [f EXCEPT !.stream_id = nextId, !.hash = hash]
                ELSE IF checked THEN ReferToOld(f) ELSE f
<1>1. /\ s \in todo /\ phase = "generating"
      /\ objects' = [objects EXCEPT ![s] = g]
      /\ streams' = IF stored THEN streams \cup {s} ELSE streams
      /\ nextId' = IF stored THEN nextId + 1 ELSE nextId
    BY DEF GenerateStream
<1>2. SessionTyped /\ s \in DOMAIN objects
    BY <1>1 DEF Inv, TypeInv, SessionTyped
<1>3. objects[s] \in FsoRecord
    BY <1>2, ObjectMapsElim DEF SessionTyped
<1>4. version_if_added(objects[s]) \in Version \cup {-1}
    BY <1>1, <1>2 DEF SessionTyped, version_if_added, invalid_version_number
<1>5. f \in FsoRecord /\ SameFile(objects[s], f)
    BY <1>3, <1>4 DEF FsoRecord, SameFile
<1>6. nextId \in Nat
    BY <1>2 DEF SessionTyped
<1>7. ~file_has_changed(f) => OldSlots(f.path) # {}
    BY DEF file_has_changed
<1>8. CASE stored
    <2>1. g = [f EXCEPT !.stream_id = nextId, !.hash = hash]
        BY <1>8
    <2>2. f.hash \in Data \cup {NoHash} /\ compute_hash(f) \in Data \cup {NoHash}
        BY <1>1, <1>2, <1>5, ComputedTyped DEF Inv, TypeInv, FsoRecord
    <2>3. hash \in Data \cup {NoHash}
        BY <2>2
    <2>4. g \in FsoRecord /\ SameFile(objects[s], g) /\ g.stream_id = nextId
        <3> HIDE DEF f, g, stored, hash
        <3> QED BY <2>1, <2>3, <1>5, <1>6 DEF FsoRecord, SameFile
    <2> QED BY <1>1, <1>2, <2>4
<1>9. CASE ~stored /\ checked
    <2>1. g = ReferToOld(f) /\ OldSlots(f.path) # {}
        BY <1>7, <1>9
    <2>2. g \in FsoRecord /\ SameFile(f, g)
        BY <1>1, <1>2, <1>5, <2>1, ReferToOldTyped
    <2>3. SameFile(objects[s], g)
        BY <1>5, <2>2 DEF SameFile
    <2> QED BY <1>1, <1>2, <1>9, <2>2, <2>3
<1>10. CASE ~stored /\ ~checked
    <2>1. g = f
        BY <1>10
    <2> QED BY <1>1, <1>2, <1>5, <1>10, <2>1
<1> QED BY <1>8, <1>9, <1>10

\* An object map after one object changed to another of the same file.
LEMMA ObjectChanged ==
    ASSUME NEW f \in ObjectMaps(FsoRecord), NEW s \in DOMAIN f, NEW g \in FsoRecord,
           SameFile(f[s], g)
    PROVE  [f EXCEPT ![s] = g] \in ObjectMaps(FsoRecord)
<1> DEFINE h == [f EXCEPT ![s] = g]
<1>1. DOMAIN f \subseteq Slots /\ f \in [DOMAIN f -> FsoRecord] /\ OwnPaths(f)
    BY ObjectMapsElim
<1>2. DOMAIN h = DOMAIN f /\ h \in [DOMAIN h -> FsoRecord]
    BY <1>1
<1>3. OwnPaths(h)
    BY <1>1, <1>2 DEF OwnPaths, SameFile
<1> QED BY <1>1, <1>2, <1>3, ObjectMapsIntro

LEMMA SessionFirstStream ==
    ASSUME Inv, phase # "idle"
    PROVE  FirstStream \in Nat \ {0} /\ LastNext \in Nat \ {0} /\ LastNext <= FirstStream
<1>1. session.version \in Nat
    BY BoundsAssumption DEF Inv, TypeInv, SessionTyped, Version
<1>2. session.version # 0 => session.version - 1 \in Versions
    BY DEF Inv, TypeInv, VersionIsNew
<1>3. LastNext \in Nat \ {0}
    BY <1>1, <1>2, LastNextTyped DEF Inv, TypeInv, LastNext
<1>4. IsFiniteSet(streams) /\ nextId \in Nat /\ LastNext <= FirstStream
    BY DEF Inv, TypeInv, SessionTyped, StreamsNumbered
<1>5. FirstStream \in Int
    <2>1. Cardinality(streams) \in Nat
        BY <1>4, FS_CardinalityType
    <2> QED BY <1>4, <2>1 DEF FirstStream
<1> QED BY ONLY <1>3, <1>4, <1>5

LEMMA GenerateTyped ==
    ASSUME Inv, NEW s, GenerateStream(s)
    PROVE  Inv'
<1>1. /\ phase = "generating" /\ s \in todo /\ todo' = todo \ {s}
      /\ UNCHANGED <<fsVars, storeVars, phase, session, deps, queue, opened, parts>>
    BY DEF GenerateStream
<1>2. FilesTyped' /\ StoreTyped' /\ Versions' = Versions /\ archives' = archives
    BY <1>1, StoreKept DEF Inv, TypeInv, FilesTyped, fsVars, storeVars
<1>3. PICK g \in FsoRecord :
        /\ SameFile(objects[s], g)
        /\ objects' = [objects EXCEPT ![s] = g]
        /\ \/ streams' = streams /\ nextId' = nextId
           \/ streams' = streams \cup {s} /\ nextId' = nextId + 1 /\ g.stream_id = nextId
    BY GeneratedTyped
<1>4. s \in DOMAIN objects /\ DOMAIN objects' = DOMAIN objects
    BY <1>3, GeneratedTyped
<1>5. SessionTyped /\ StreamsNumbered
    BY DEF Inv, TypeInv
<1>6. objects' \in ObjectMaps(FsoRecord)
    BY <1>3, <1>4, <1>5, ObjectChanged DEF SessionTyped
<1>7. IsFiniteSet(streams) /\ IsFiniteSet(streams') /\ streams' \subseteq DOMAIN objects'
    <2>1. IsFiniteSet(streams) /\ streams \subseteq DOMAIN objects
        BY <1>5 DEF SessionTyped
    <2>2. IsFiniteSet(streams \cup {s})
        BY <2>1, FS_AddElement
    <2> QED BY <1>3, <1>4, <2>1, <2>2
<1>8. nextId \in Nat \ {0} /\ nextId' \in Nat \ {0}
    BY <1>1, <1>3, <1>5 DEF SessionTyped
<1>9. SessionTyped'
    BY <1>1, <1>4, <1>5, <1>6, <1>7, <1>8 DEF UseSnapshots, SessionTyped
<1>10. /\ LastNext' = LastNext /\ LastNext <= FirstStream /\ FirstStream \in Nat
       /\ s \notin streams
    BY <1>1, <1>2, <1>5, SessionFirstStream DEF LastNext, StreamsNumbered
<1>11. StreamsNumbered'
    <2>1. \A t \in streams : objects'[t] = objects[t]
        BY <1>3, <1>10
    <2>2. CASE streams' = streams /\ nextId' = nextId
        <3>1. StreamIds' = StreamIds
            BY <2>1, <2>2 DEF StreamIds
        <3>2. FirstStream' = FirstStream
            BY <2>2 DEF FirstStream
        <3> QED BY <1>1, <1>5, <1>10, <2>2, <3>1, <3>2 DEF StreamsNumbered
    <2>3. CASE streams' = streams \cup {s} /\ nextId' = nextId + 1 /\ g.stream_id = nextId
        <3>1. StreamIds' = StreamIds \cup {nextId}
            <4>1. objects'[s].stream_id = nextId
                BY <1>3, <1>4, <2>3
            <4> QED BY <2>1, <2>3, <4>1 DEF StreamIds
        <3>2. StreamIds = FirstStream .. (nextId - 1)
            BY <1>1, <1>5 DEF StreamsNumbered
        <3>3. Cardinality(streams') = Cardinality(streams) + 1 /\ Cardinality(streams) \in Nat
            BY <1>7, <1>10, <2>3, FS_AddElement, FS_CardinalityType
        <3>4. FirstStream' = FirstStream /\ FirstStream <= nextId
            BY <1>8, <2>3, <3>3 DEF FirstStream
        <3>5. StreamIds' = FirstStream' .. (nextId' - 1)
            BY <1>8, <1>10, <2>3, <3>1, <3>2, <3>4
        <3> QED BY <1>1, <1>5, <1>10, <2>3, <3>4, <3>5 DEF StreamsNumbered
    <2> QED BY <1>3, <2>2, <2>3
<1>12. VersionIsNew' /\ OpenedResolves' /\ StreamIdsGrow'
    BY <1>1, <1>2 DEF Inv, TypeInv, VersionIsNew, OpenedResolves, StreamIdsGrow
<1> QED BY <1>2, <1>9, <1>11, <1>12 DEF Inv, TypeInv
-----------------------------------------------------------------------------
\* ReorderFileStreams.

\* In an interval the i-th id is the first plus i - 1.
LEMMA NthIdInInterval ==
    ASSUME NEW first \in Nat, NEW next \in Nat, StreamIds = first .. (next - 1),
           NEW i \in 1 .. (next - first)
    PROVE  NthId(i) = first + i - 1
<1>1. ASSUME NEW id \in StreamIds
      PROVE  Cardinality({x \in StreamIds : x < id}) = id - first
    <2>1. id \in Int /\ first <= id /\ id <= next - 1
        BY <1>1
    <2>2. {x \in StreamIds : x < id} = first .. (id - 1)
        BY <2>1
    <2>3. Cardinality(first .. (id - 1)) = IF first > id - 1 THEN 0 ELSE id - 1 - first + 1
        BY <2>1, FS_Interval
    <2>4. (IF first > id - 1 THEN 0 ELSE id - 1 - first + 1) = id - first
        BY <2>1
    <2> QED BY ONLY <2>2, <2>3, <2>4
<1>2. first + i - 1 \in StreamIds
    OBVIOUS
<1>3. \A id \in StreamIds :
        Cardinality({x \in StreamIds : x < id}) = i - 1 <=> id = first + i - 1
    BY <1>1
<1> QED BY <1>2, <1>3 DEF NthId

\* The order of the archive lists every stream once.
LEMMA OrderIsBijective ==
    ASSUME IsFiniteSet(streams), NEW order \in SortedOrders
    PROVE  /\ order \in Seq(streams) /\ DOMAIN order = 1 .. Cardinality(streams)
           /\ Len(order) = Cardinality(streams)
           /\ \A i, j \in DOMAIN order : order[i] = order[j] => i = j
           /\ \A s \in streams : \E i \in DOMAIN order : order[i] = s
<1> DEFINE n == Cardinality(streams)
<1>1. n \in Nat
    BY FS_CardinalityType
<1>2. /\ order \in [1 .. n -> streams]
      /\ \A s \in streams : \E i \in 1 .. n : order[i] = s
    BY DEF SortedOrders
<1>3. IsFiniteSet(1 .. n) /\ Cardinality(1 .. n) = n
    BY <1>1, FS_Interval
<1>4. order \in Surjection(1 .. n, streams)
    BY <1>2 DEF Surjection
<1>5. order \in Injection(1 .. n, streams)
    BY <1>3, <1>4, FS_SurjSameCardinalityImpliesInj
<1>6. \A i, j \in DOMAIN order : order[i] = order[j] => i = j
    BY <1>5 DEF Injection, IsInjective
<1>7. order \in Seq(streams) /\ Len(order) = n
    BY <1>1, <1>2
<1> QED BY <1>2, <1>6, <1>7

LEMMA ReorderedIds ==
    ASSUME Inv, NEW order \in SortedOrders, ReorderFileStreams(order)
    PROVE  /\ DOMAIN objects' = DOMAIN objects
           /\ \A i \in DOMAIN order : objects'[order[i]].stream_id = FirstStream + i - 1
           /\ objects' \in ObjectMaps(FsoRecord)
<1>1. /\ phase = "generating"
      /\ objects' = [s \in DOMAIN objects |->
            IF s \in streams
            THEN [objects[s] EXCEPT
                    !.stream_id = NthId(CHOOSE i \in DOMAIN order : order[i] = s)]
            ELSE objects[s]]
    BY DEF ReorderFileStreams
<1>2. SessionTyped /\ StreamsNumbered
    BY DEF Inv, TypeInv
<1>3. /\ DOMAIN objects \subseteq Slots /\ objects \in [DOMAIN objects -> FsoRecord]
      /\ OwnPaths(objects)
    BY <1>2, ObjectMapsElim DEF SessionTyped
<1>4. IsFiniteSet(streams) /\ streams \subseteq DOMAIN objects /\ nextId \in Nat
    BY <1>2 DEF SessionTyped
<1>5. /\ FirstStream \in Nat /\ StreamIds = FirstStream .. (nextId - 1)
      /\ Cardinality(streams) = nextId - FirstStream
    <2>1. Cardinality(streams) \in Nat
        BY <1>4, FS_CardinalityType
    <2>2. Cardinality(streams) = nextId - FirstStream
        BY <1>4, <2>1 DEF FirstStream
    <2> QED BY <1>1, <1>2, <2>2, SessionFirstStream DEF StreamsNumbered
<1>6. ASSUME NEW i \in DOMAIN order
      PROVE  NthId(CHOOSE j \in DOMAIN order : order[j] = order[i]) = FirstStream + i - 1
    <2>1. (CHOOSE j \in DOMAIN order : order[j] = order[i]) = i
        BY <1>4, OrderIsBijective
    <2>2. i \in 1 .. (nextId - FirstStream)
        BY <1>4, <1>5, OrderIsBijective
    <2> QED BY <1>4, <1>5, <2>1, <2>2, NthIdInInterval
<1>7. ASSUME NEW s \in streams
      PROVE  /\ objects'[s] = [objects[s] EXCEPT
                    !.stream_id = NthId(CHOOSE i \in DOMAIN order : order[i] = s)]
             /\ \E i \in DOMAIN order :
                    /\ order[i] = s
                    /\ NthId(CHOOSE j \in DOMAIN order : order[j] = s) = FirstStream + i - 1
    <2>1. PICK i \in DOMAIN order : order[i] = s
        BY <1>4, OrderIsBijective
    <2> QED BY <1>1, <1>4, <1>6, <2>1
<1>8. \A i \in DOMAIN order : order[i] \in streams
    BY <1>4, OrderIsBijective
<1>9. \A s \in DOMAIN objects : objects'[s] \in FsoRecord /\ SameFile(objects[s], objects'[s])
    <2> SUFFICES ASSUME NEW s \in DOMAIN objects
                 PROVE  objects'[s] \in FsoRecord /\ SameFile(objects[s], objects'[s])
        OBVIOUS
    <2>1. CASE s \notin streams
        BY <1>1, <1>3, <2>1 DEF SameFile
    <2>2. CASE s \in streams
        <3>1. PICK i \in 1 .. Cardinality(streams) :
                objects'[s] = [objects[s] EXCEPT !.stream_id = FirstStream + i - 1]
            BY <1>4, <1>7, <2>2, OrderIsBijective
        <3>2. FirstStream + i - 1 \in Nat /\ objects[s] \in FsoRecord
            BY <1>3, <1>5
        <3> QED BY <3>1, <3>2 DEF FsoRecord, SameFile
    <2> QED BY <2>1, <2>2
<1>10. ASSUME NEW i \in DOMAIN order
       PROVE  objects'[order[i]].stream_id = FirstStream + i - 1
    <2>1. objects[order[i]] \in FsoRecord
        BY <1>3, <1>4, <1>8
    <2>2. objects'[order[i]] = [objects[order[i]] EXCEPT !.stream_id = FirstStream + i - 1]
        BY <1>6, <1>7, <1>8
    <2> QED BY <2>1, <2>2 DEF FsoRecord
<1>11. DOMAIN objects' = DOMAIN objects /\ objects' \in [DOMAIN objects -> FsoRecord]
    BY <1>1, <1>9
<1>12. OwnPaths(objects')
    BY <1>3, <1>9, <1>11 DEF OwnPaths, SameFile
<1> QED BY <1>3, <1>10, <1>11, <1>12, ObjectMapsIntro

LEMMA ReorderTyped ==
    ASSUME Inv, NEW order \in SortedOrders, ReorderFileStreams(order)
    PROVE  Inv'
<1>1. /\ phase = "generating" /\ phase' = "storing" /\ deps' = dependencies
      /\ queue' = order
      /\ UNCHANGED <<fsVars, storeVars, session, todo, streams, nextId, opened, parts>>
    BY DEF ReorderFileStreams
<1>2. FilesTyped' /\ StoreTyped' /\ Versions' = Versions /\ archives' = archives
    BY <1>1, StoreKept DEF Inv, TypeInv, FilesTyped, fsVars, storeVars
<1>3. SessionTyped /\ StreamsNumbered /\ OpenedResolves
    BY DEF Inv, TypeInv
<1>4. IsFiniteSet(streams) /\ nextId \in Nat
    BY <1>3 DEF SessionTyped
<1>5. /\ order \in Seq(streams) /\ DOMAIN order = 1 .. Cardinality(streams)
      /\ Len(order) = Cardinality(streams)
    BY <1>4, OrderIsBijective
<1>6. dependencies \subseteq Version
    <2>1. \A s \in DOMAIN objects : objects[s] \in FsoRecord
        BY <1>3, ObjectMapsElim DEF SessionTyped
    <2>2. \A f \in FsoRecord : f.latest \in Version \cup {-1}
        BY DEF FsoRecord
    <2> QED BY <2>1, <2>2 DEF dependencies, invalid_version_number
<1>7. /\ parts = <<>> /\ FirstStream \in Nat /\ FirstStream' = FirstStream
      /\ LastNext' = LastNext /\ LastNext <= FirstStream
    BY <1>1, <1>2, <1>3, SessionFirstStream DEF StreamsNumbered, FirstStream, LastNext
<1>8. Cardinality(streams) \in Nat /\ Cardinality(streams) = nextId - FirstStream
    <2>1. Cardinality(streams) \in Nat
        BY <1>4, FS_CardinalityType
    <2> QED BY <1>4, <2>1 DEF FirstStream
<1>9. SessionTyped'
    <2>1. queue' \in Seq(DOMAIN objects') /\ Len(parts') <= Len(queue')
        <3>1. streams \subseteq DOMAIN objects'
            BY <1>3, ReorderedIds DEF SessionTyped
        <3>2. order \in Seq(DOMAIN objects')
            BY <1>5, <1>8, <3>1
        <3>3. Len(parts') = 0
            BY <1>1, <1>7
        <3> QED BY <1>1, <1>5, <1>8, <3>2, <3>3
    <2> QED BY <1>1, <1>3, <1>6, <2>1, ReorderedIds DEF UseSnapshots, SessionTyped
<1>10. StreamsNumbered'
    <2>1. FirstStream + Len(order) = nextId
        BY <1>4, <1>5, <1>7, <1>8
    <2>2. DOMAIN parts' = {}
        BY <1>1, <1>7
    <2> QED BY <1>1, <1>7, <2>1, <2>2, ReorderedIds DEF StreamsNumbered
<1>11. VersionIsNew' /\ OpenedResolves' /\ StreamIdsGrow'
    BY <1>1, <1>2, <1>3 DEF Inv, TypeInv, VersionIsNew, OpenedResolves, StreamIdsGrow
<1> QED BY <1>2, <1>9, <1>10, <1>11 DEF Inv, TypeInv
-----------------------------------------------------------------------------
\* OpenFile and StoreFile.
LEMMA CurrentTyped ==
    ASSUME Inv, Storing
    PROVE  /\ Len(parts) \in Nat /\ Len(parts) + 1 \in DOMAIN queue
           /\ Current \in DOMAIN objects /\ Current[2] \in Paths
           /\ objects[Current] \in FsoRecord
           /\ objects[Current].stream_id = FirstStream + Len(parts)
<1>1. SessionTyped /\ phase = "storing" /\ Len(parts) < Len(queue)
    BY DEF Inv, TypeInv, Storing
<1>2. parts \in Seq(Part) /\ queue \in Seq(DOMAIN objects)
    BY <1>1 DEF SessionTyped
<1>3. Len(parts) \in Nat /\ Len(parts) + 1 \in 1 .. Len(queue)
    BY <1>1, <1>2
<1>4. Current \in DOMAIN objects
    BY <1>2, <1>3 DEF Current
<1>5. objects[Current] \in FsoRecord /\ Current[2] \in Paths
    BY <1>1, <1>4, ObjectMapsElim DEF SessionTyped, Slots
<1>6. objects[Current].stream_id = FirstStream + (Len(parts) + 1) - 1
    BY <1>1, <1>2, <1>3 DEF Inv, StreamsNumbered, Current
<1>7. FirstStream \in Nat
    BY <1>1, SessionFirstStream
<1> QED BY <1>2, <1>3, <1>4, <1>5, <1>6, <1>7

LEMMA OpenTyped ==
    ASSUME Inv, OpenFile
    PROVE  Inv'
<1>1. /\ Storing /\ Resolve(View, Current[2]) # 0
      /\ opened' = FileSize(View, Current[2])
      /\ UNCHANGED <<fsVars, storeVars, phase, session, objects, todo, streams,
                     nextId, deps, queue, parts>>
    BY DEF OpenFile
<1>2. FilesTyped' /\ StoreTyped' /\ Versions' = Versions /\ archives' = archives
    BY <1>1, StoreKept DEF Inv, TypeInv, FilesTyped, fsVars, storeVars
<1>3. opened' \in Nat
    BY <1>1, CurrentTyped, ViewTyped, FileSizeTyped DEF Inv, TypeInv, Storing
<1>4. SessionTyped'
    BY <1>1, <1>3 DEF UseSnapshots, Inv, TypeInv, SessionTyped
<1>5. StreamsNumbered'
    <2>1. FirstStream' = FirstStream /\ LastNext' = LastNext
        BY <1>1, <1>2 DEF FirstStream, LastNext
    <2> QED BY <1>1, <2>1 DEF Inv, StreamsNumbered, Storing
<1>6. OpenedResolves'
    <2>1. View' = View /\ Current' = Current
        BY <1>1 DEF View, UseSnapshots, LiveView, fsVars, Current
    <2>2. Resolve(View, Current[2])' = Resolve(View, Current[2])
        BY <2>1 DEF Resolve
    <2> QED BY <1>1, <2>2 DEF OpenedResolves, Storing
<1>7. VersionIsNew' /\ StreamIdsGrow'
    BY <1>1, <1>2 DEF Inv, TypeInv, VersionIsNew, StreamIdsGrow
<1> QED BY <1>2, <1>4, <1>5, <1>6, <1>7 DEF Inv, TypeInv

LEMMA StoreFileTyped ==
    ASSUME Inv, StoreFile
    PROVE  Inv'
<1> DEFINE data == IF opened = 0 THEN EmptyData
                   ELSE View.disk[Resolve(View, Current[2])].data
           part == [id |-> objects[Current].stream_id, size |-> opened, data |-> data]
<1>1. /\ Storing /\ opened # -1 /\ opened' = -1
      /\ parts' = Append(parts, part)
      /\ objects' = [objects EXCEPT ![Current].hash = data]
      /\ UNCHANGED <<fsVars, storeVars, phase, session, todo, streams,
                     nextId, deps, queue>>
    BY DEF StoreFile
<1>2. FilesTyped' /\ StoreTyped' /\ Versions' = Versions /\ archives' = archives
    BY <1>1, StoreKept DEF Inv, TypeInv, FilesTyped, fsVars, storeVars
<1>3. SessionTyped /\ phase = "storing" /\ Len(parts) < Len(queue)
    BY <1>1 DEF Inv, TypeInv, Storing
<1>4. data \in Data
    <2>1. View \in FsView /\ Current[2] \in Paths
        BY <1>1, <1>3, CurrentTyped, ViewTyped DEF Inv, TypeInv
    <2>2. Resolve(View, Current[2]) \in Paths
        BY <1>1, <2>1, ResolveTyped DEF Inv, TypeInv, OpenedResolves
    <2>3. View.disk[Resolve(View, Current[2])].data \in Data
        BY <2>1, <2>2, DiskFields
    <2> QED BY <2>3, DataAssumption
<1> HIDE DEF data
<1>5. /\ Current \in DOMAIN objects /\ objects[Current] \in FsoRecord
      /\ Len(parts) \in Nat /\ objects[Current].stream_id = FirstStream + Len(parts)
      /\ FirstStream \in Nat
    BY <1>1, <1>3, CurrentTyped, SessionFirstStream
<1>6. objects' = [objects EXCEPT ![Current] = [objects[Current] EXCEPT !.hash = data]]
    BY <1>1
<1>7. /\ [objects[Current] EXCEPT !.hash = data] \in FsoRecord
      /\ SameFile(objects[Current], [objects[Current] EXCEPT !.hash = data])
      /\ [objects[Current] EXCEPT !.hash = data].stream_id = objects[Current].stream_id
    BY <1>4, <1>5 DEF FsoRecord, SameFile
<1>8. objects' \in ObjectMaps(FsoRecord) /\ DOMAIN objects' = DOMAIN objects
    BY <1>3, <1>5, <1>6, <1>7, ObjectChanged DEF SessionTyped
<1>9. \A s \in DOMAIN objects : objects'[s].stream_id = objects[s].stream_id
    BY <1>5, <1>6, <1>7
<1>10. part \in Part
    <2>1. opened \in Nat /\ objects[Current].stream_id \in Nat
        BY <1>1, <1>3, <1>5 DEF SessionTyped
    <2> QED BY <1>4, <2>1 DEF Part
<1>11. /\ parts' \in Seq(Part) /\ Len(parts') = Len(parts) + 1
       /\ DOMAIN parts' = 1 .. (Len(parts) + 1)
       /\ \A i \in DOMAIN parts : parts'[i] = parts[i]
       /\ parts'[Len(parts) + 1] = part
    BY <1>1, <1>3, <1>10 DEF SessionTyped
<1>12. queue \in Seq(DOMAIN objects) /\ Len(queue) \in Nat
    BY <1>3 DEF SessionTyped
<1>13. SessionTyped'
    <2>1. Len(parts') <= Len(queue)
        BY <1>3, <1>5, <1>11, <1>12
    <2> QED BY <1>1, <1>3, <1>8, <1>11, <2>1 DEF UseSnapshots, SessionTyped
<1>14. StreamsNumbered'
    <2>1. FirstStream' = FirstStream /\ LastNext' = LastNext
        BY <1>1, <1>2 DEF FirstStream, LastNext
    <2>2. \A i \in DOMAIN queue : objects'[queue[i]].stream_id = FirstStream + i - 1
        BY <1>3, <1>9, <1>12 DEF Inv, StreamsNumbered
    <2>3. \A i \in DOMAIN parts' : parts'[i].id = FirstStream + i - 1
        <3> SUFFICES ASSUME NEW i \in DOMAIN parts'
                     PROVE  parts'[i].id = FirstStream + i - 1
            OBVIOUS
        <3>1. CASE i = Len(parts) + 1
            BY <1>5, <1>11, <3>1
        <3>2. CASE i # Len(parts) + 1
            <4>1. i \in DOMAIN parts
                BY <1>3, <1>5, <1>11, <3>2 DEF SessionTyped
            <4> QED BY <1>3, <1>11, <4>1 DEF Inv, StreamsNumbered
        <3> QED BY <3>1, <3>2
    <2> QED BY <1>1, <1>3, <2>1, <2>2, <2>3 DEF Inv, StreamsNumbered
<1>15. VersionIsNew' /\ OpenedResolves' /\ StreamIdsGrow'
    BY <1>1, <1>2 DEF Inv, TypeInv, VersionIsNew, OpenedResolves, StreamIdsGrow
<1> QED BY <1>2, <1>13, <1>14, <1>15 DEF Inv, TypeInv
-----------------------------------------------------------------------------
\* CommitBackup.
LEMMA SerializedTyped ==
    ASSUME NEW f \in ObjectMaps(FsoRecord)
    PROVE  [s \in DOMAIN f |-> Serialized(f[s])] \in ObjectMaps(FsoType)
<1> DEFINE written == [s \in DOMAIN f |-> Serialized(f[s])]
<1>1. DOMAIN f \subseteq Slots /\ f \in [DOMAIN f -> FsoRecord] /\ OwnPaths(f)
    BY ObjectMapsElim
<1>2. ASSUME NEW g \in FsoRecord
      PROVE  Serialized(g) \in FsoType /\ SameFile(g, Serialized(g))
    BY DEF FsoRecord, FsoType, Serialized, SameFile
<1>3. \A s \in DOMAIN f : written[s] \in FsoType /\ SameFile(f[s], written[s])
    BY <1>1, <1>2
<1>4. DOMAIN written = DOMAIN f /\ written \in [DOMAIN f -> FsoType]
    BY <1>3
<1>5. OwnPaths(written)
    BY <1>1, <1>3, <1>4 DEF OwnPaths, SameFile
<1> QED BY <1>1, <1>4, <1>5, ObjectMapsIntro

\* The two files a commit brings, and what it leaves alone.
LEMMA CommitEffect ==
    ASSUME Inv, CommitBackup
    PROVE  \E new \in Archive :
            LET v == session.version IN
            /\ v \in Version /\ v \notin Versions
            /\ new.parts = parts /\ new.nextId = nextId
            /\ archives' = [archives EXCEPT ![v] = new]
            /\ aux' = [aux EXCEPT ![v] =
                    Append(@, [unmapped |-> new.unmapped, objects |-> new.objects])]
            /\ Versions' = Versions \cup {v}
<1> DEFINE v == session.version
           written == [s \in DOMAIN objects |-> Serialized(objects[s])]
           new == [parts |-> parts, objects |-> written,
                   unmapped |-> session.unmapped, mapped |-> session.mapped,
                   deps |-> deps, nextId |-> nextId]
<1>1. /\ phase = "storing"
      /\ archives' = [archives EXCEPT ![v] = new]
      /\ aux' = [aux EXCEPT ![v] =
            Append(@, [unmapped |-> session.unmapped, objects |-> written])]
    BY DEF CommitBackup, target_version
<1>2. SessionTyped /\ StoreTyped /\ VersionIsNew
    BY DEF Inv, TypeInv
<1>3. v \in Version
    BY <1>1, <1>2 DEF SessionTyped
<1>4. v \notin Versions
    <2>1. v \in Nat
        BY <1>3, BoundsAssumption DEF Version
    <2> QED BY <1>1, <1>2, <2>1 DEF VersionIsNew
<1>5. written \in ObjectMaps(FsoType)
    BY <1>2, SerializedTyped DEF SessionTyped
<1> HIDE DEF written
<1>6. new \in Archive
    BY <1>1, <1>2, <1>5 DEF SessionTyped, Archive
<1>7. new # NoArchive
    <2>1. new.nextId # 0 /\ NoArchive.nextId = 0
        BY <1>6 DEF Archive, NoArchive, invalid_stream_id
    <2> QED BY <2>1
<1>8. Versions' = Versions \cup {v}
    BY <1>1, <1>2, <1>3, <1>7 DEF StoreTyped, Versions
<1>9. /\ new.parts = parts /\ new.nextId = nextId
      /\ new.unmapped = session.unmapped /\ new.objects = written
    OBVIOUS
<1> HIDE DEF new
<1> QED BY <1>1, <1>3, <1>4, <1>6, <1>8, <1>9

LEMMA CommitTyped ==
    ASSUME Inv, CommitBackup
    PROVE  Inv'
<1> DEFINE v == session.version
<1>1. phase = "storing" /\ Len(parts) = Len(queue) /\ NoSession /\ UNCHANGED fsVars
    BY DEF CommitBackup
<1>2. PICK new \in Archive :
            /\ v \in Version /\ v \notin Versions
            /\ new.parts = parts /\ new.nextId = nextId
            /\ archives' = [archives EXCEPT ![v] = new]
            /\ aux' = [aux EXCEPT ![v] =
                    Append(@, [unmapped |-> new.unmapped, objects |-> new.objects])]
            /\ Versions' = Versions \cup {v}
    BY CommitEffect
<1>3. SessionTyped /\ StoreTyped /\ VersionIsNew /\ StreamsNumbered /\ StreamIdsGrow
    BY DEF Inv, TypeInv
<1>4. FilesTyped'
    BY <1>1 DEF Inv, TypeInv, FilesTyped, fsVars
<1>5. StoreTyped'
    <2>1. archives' \in [Version -> Archive \cup {NoArchive}]
        BY <1>2, <1>3 DEF StoreTyped
    <2>2. [unmapped |-> new.unmapped, objects |-> new.objects] \in AuxList
        BY DEF Archive, AuxList
    <2>3. aux[v] \in Seq(AuxList)
        BY <1>2, <1>3 DEF StoreTyped
    <2>4. Append(aux[v], [unmapped |-> new.unmapped, objects |-> new.objects]) \in Seq(AuxList)
        BY <2>2, <2>3
    <2>5. aux' \in [Version -> Seq(AuxList)]
        BY <1>2, <1>3, <2>4 DEF StoreTyped
    <2> QED BY <2>1, <2>5 DEF StoreTyped
<1>6. archives'[v] = new /\ \A w \in Versions : archives'[w] = archives[w]
    BY <1>2, <1>3 DEF StoreTyped, Versions
<1>7. \A w \in Versions : w < v /\ w \in Nat /\ archives[w].nextId \in Nat
    BY <1>1, <1>3, ArchiveFields, BoundsAssumption DEF VersionIsNew, Version, Archive
<1>8. /\ FirstStream \in Nat /\ nextId \in Nat /\ FirstStream + Len(parts) = nextId
      /\ DOMAIN parts = 1 .. Len(parts) /\ Len(parts) \in Nat
      /\ \A i \in DOMAIN parts : parts[i].id = FirstStream + i - 1
    BY <1>1, <1>3, SessionFirstStream DEF SessionTyped, StreamsNumbered
<1>9. \A w \in Versions : archives[w].nextId <= FirstStream
    <2> SUFFICES ASSUME NEW w \in Versions
                 PROVE  archives[w].nextId <= FirstStream
        OBVIOUS
    <2>6. /\ LastNext \in Nat /\ FirstStream \in Nat /\ LastNext <= FirstStream
          /\ archives[w].nextId \in Nat
        BY <1>1, <1>7, SessionFirstStream
    <2>1. v \in Nat /\ w < v /\ w \in Nat
        BY <1>2, <1>7, BoundsAssumption DEF Version
    <2>2. v # 0 /\ v - 1 \in Versions
        BY <1>1, <1>3, <2>1 DEF VersionIsNew
    <2>3. LastNext = archives[v - 1].nextId
        BY <2>2 DEF LastNext
    <2>4. CASE w = v - 1
        BY <2>3, <2>4, <2>6
    <2>5. CASE w # v - 1
        <3>1. w < v - 1
            BY <2>1, <2>5
        <3>2. archives[w].nextId <= LastNext
            BY <1>3, <2>2, <2>3, <3>1 DEF StreamIdsGrow
        <3> QED BY <2>6, <3>2
    <2> QED BY <2>4, <2>5
<1>10. StreamIdsGrow'
    <2> SUFFICES ASSUME NEW x \in Versions'
                 PROVE  LET ps == archives'[x].parts
                        IN  /\ \A i, j \in DOMAIN ps : i < j => ps[i].id < ps[j].id
                            /\ \A i \in DOMAIN ps : ps[i].id < archives'[x].nextId
                            /\ \A w \in Versions' : w < x =>
                                  /\ archives'[w].nextId <= archives'[x].nextId
                                  /\ \A i \in DOMAIN ps : archives'[w].nextId <= ps[i].id
        BY DEF StreamIdsGrow
    <2>1. CASE x = v
        <3>1. archives'[x].parts = parts /\ archives'[x].nextId = nextId
            BY <1>2, <1>6, <2>1
        <3>2. \A i, j \in DOMAIN parts : i < j => parts[i].id < parts[j].id
            BY <1>8
        <3>3. \A i \in DOMAIN parts : parts[i].id < nextId /\ FirstStream <= parts[i].id
            BY <1>8
        <3>4. ASSUME NEW w \in Versions', w < x
              PROVE  /\ archives'[w].nextId <= nextId
                     /\ \A i \in DOMAIN parts : archives'[w].nextId <= parts[i].id
            <4>1. x \in Nat
                BY <1>2, <2>1, BoundsAssumption DEF Version
            <4>2. w \in Versions
                BY <1>2, <2>1, <3>4, <4>1
            <4>3. /\ archives'[w].nextId = archives[w].nextId /\ archives[w].nextId \in Nat
                  /\ archives[w].nextId <= FirstStream
                BY <1>6, <1>7, <1>9, <4>2
            <4>4. FirstStream <= nextId
                BY <1>8
            <4>5. \A i \in DOMAIN parts : parts[i].id \in Nat
                BY <1>8
            <4> QED BY <1>8, <3>3, <4>3, <4>4, <4>5
        <3> QED BY <3>1, <3>2, <3>3, <3>4
    <2>2. CASE x # v
        <3>1. x \in Versions /\ archives'[x] = archives[x]
            BY <1>2, <1>6, <2>2
        <3>2. \A w \in Versions' : w < x => w \in Versions /\ archives'[w] = archives[w]
            <4>1. x < v /\ x \in Nat /\ v \in Nat
                BY <1>2, <1>7, <3>1, BoundsAssumption DEF Version
            <4>2. ~(v < x)
                BY <4>1
            <4> QED BY <1>2, <1>6, <4>2
        <3> QED BY <1>3, <3>1, <3>2 DEF StreamIdsGrow
    <2> QED BY <2>1, <2>2
<1> QED BY <1>1, <1>4, <1>5, <1>10, SessionOver DEF Inv, TypeInv
-----------------------------------------------------------------------------
\* FailToOpen and RetryBackup.
LEMMA FailTyped ==
    ASSUME Inv, FailToOpen
    PROVE  Inv'
<1>1. /\ phase = "storing" /\ opened = -1 /\ phase' = "failed"
      /\ session' = [session EXCEPT !.owners = @ \cup streams]
      /\ streams' = {} /\ deps' = {} /\ queue' = <<>> /\ parts' = <<>>
      /\ UNCHANGED <<fsVars, storeVars, objects, todo, nextId, opened>>
    BY DEF FailToOpen, Storing
<1>2. FilesTyped' /\ StoreTyped' /\ Versions' = Versions /\ archives' = archives
    BY <1>1, StoreKept DEF Inv, TypeInv, FilesTyped, fsVars, storeVars
<1>3. SessionTyped /\ VersionIsNew
    BY DEF Inv, TypeInv
<1>4. /\ DOMAIN session' = SessionFields
      /\ \A x \in SessionFields \ {"owners"} : session'[x] = session[x]
    BY <1>1, <1>3 DEF SessionTyped
<1>5. /\ session'.version = session.version /\ session'.retries = session.retries
      /\ session'.unmapped = session.unmapped /\ session'.mapped = session.mapped
      /\ session'.old = session.old /\ session'.view = session.view
      /\ session'.use_snapshots = session.use_snapshots
    BY <1>4 DEF SessionFields
<1>6. SessionTyped'
    BY <1>1, <1>3, <1>4, <1>5, FS_EmptySet DEF UseSnapshots, SessionTyped
<1>7. StreamsNumbered'
    <2>1. LastNext' = LastNext
        BY <1>2, <1>5 DEF LastNext
    <2>2. FirstStream' = nextId
        BY <1>1, <1>3, NoStreams DEF SessionTyped
    <2>3. LastNext <= FirstStream /\ LastNext \in Nat /\ FirstStream \in Nat
        BY <1>1, SessionFirstStream
    <2>4. FirstStream <= nextId
        <3>1. Cardinality(streams) \in Nat /\ nextId \in Nat
            BY <1>3, FS_CardinalityType DEF SessionTyped
        <3> QED BY <3>1 DEF FirstStream
    <2>5. LastNext <= nextId
        BY <1>3, <2>3, <2>4 DEF SessionTyped
    <2> QED BY <1>1, <2>1, <2>2, <2>5 DEF StreamsNumbered
<1>8. VersionIsNew' /\ OpenedResolves' /\ StreamIdsGrow'
    BY <1>1, <1>2, <1>5 DEF Inv, TypeInv, VersionIsNew, OpenedResolves, StreamIdsGrow
<1> QED BY <1>2, <1>6, <1>7, <1>8 DEF Inv, TypeInv

LEMMA RetryTyped ==
    ASSUME Inv, NEW c, RetryBackup(c)
    PROVE  Inv'
<1>1. /\ phase = "failed" /\ phase' = "generating"
      /\ session' = [session EXCEPT !.criterium = c, !.retries = @ + 1]
      /\ todo' = DOMAIN objects
      /\ nextId' = IF session.version = 0 THEN nextId ELSE archives[session.version - 1].nextId
      /\ UNCHANGED <<fsVars, storeVars, objects, streams, deps, queue, opened, parts>>
    BY DEF RetryBackup
<1>2. FilesTyped' /\ StoreTyped' /\ Versions' = Versions /\ archives' = archives
    BY <1>1, StoreKept DEF Inv, TypeInv, FilesTyped, fsVars, storeVars
<1>3. SessionTyped /\ VersionIsNew /\ StreamsNumbered /\ OpenedResolves
    BY DEF Inv, TypeInv
<1>4. /\ DOMAIN session' = SessionFields
      /\ session'.retries = session.retries + 1
      /\ \A x \in SessionFields \ {"criterium", "retries"} : session'[x] = session[x]
    BY <1>1, <1>3 DEF SessionTyped, SessionFields
<1>5. /\ session'.version = session.version
      /\ session'.unmapped = session.unmapped /\ session'.mapped = session.mapped
      /\ session'.old = session.old /\ session'.view = session.view
    BY <1>4 DEF SessionFields
<1>6. nextId' \in Nat \ {0} /\ LastNext' = LastNext /\ LastNext' <= nextId'
    <2>1. LastNext' = LastNext
        BY <1>2, <1>5 DEF LastNext
    <2>2. LastNext \in Nat \ {0} /\ LastNext <= FirstStream
        BY <1>1, SessionFirstStream
    <2>3. FirstStream = nextId /\ nextId \in Nat \ {0}
        <3>1. streams = {} /\ nextId \in Nat \ {0}
            BY <1>1, <1>3 DEF StreamsNumbered, SessionTyped
        <3>2. Cardinality(streams) = 0
            BY <3>1, FS_EmptySet
        <3> QED BY <3>1, <3>2 DEF FirstStream
    <2>4. nextId' = nextId \/ nextId' = LastNext
        BY <1>1 DEF LastNext
    <2> QED BY <2>1, <2>2, <2>3, <2>4
<1>7. SessionTyped'
    <2>1. session'.retries \in Nat
        BY <1>1, <1>3, <1>4 DEF SessionTyped
    <2> QED BY <1>1, <1>3, <1>4, <1>5, <1>6, <2>1 DEF UseSnapshots, SessionTyped
<1>8. StreamsNumbered'
    <2>1. streams' = {} /\ queue' = <<>> /\ parts' = <<>>
        BY <1>1, <1>3 DEF StreamsNumbered
    <2>2. FirstStream' = nextId' /\ StreamIds' = FirstStream' .. (nextId' - 1)
        BY <1>6, <2>1, NoStreams
    <2> QED BY <1>1, <1>6, <2>1, <2>2 DEF StreamsNumbered
<1>9. VersionIsNew' /\ OpenedResolves' /\ StreamIdsGrow'
    BY <1>1, <1>2, <1>3, <1>5 DEF Inv, VersionIsNew, OpenedResolves, StreamIdsGrow
<1> QED BY <1>2, <1>7, <1>8, <1>9 DEF Inv, TypeInv
-----------------------------------------------------------------------------
\* The user and restores: steps that leave the session alone.

LEMMA EditDate ==
    ASSUME FilesTyped, NEW kind, Edit(kind)
    PROVE  clock + 1 \in 0 .. MaxClock /\ 0 \in 0 .. MaxClock
<1>1. MaxClock \in Nat /\ clock \in 0 .. MaxClock /\ clock < MaxClock
    BY BoundsAssumption DEF FilesTyped, Edit
<1> QED BY <1>1

\* An edit that keeps the file add_files has open within reach.
LEMMA EditTyped ==
    ASSUME Inv, NEW kind, Edit(kind),
           node' \in [Paths -> Node],
           disk' \in Disk,
           opened # -1 /\ ~UseSnapshots => Resolve(LiveView, Current[2])' # 0
    PROVE  Inv'
<1>1. /\ clock < MaxClock /\ clock' = clock + 1
      /\ UNCHANGED <<storeVars, phase, session, objects, todo, streams, nextId,
                     deps, queue, opened, parts>>
    BY DEF Edit
<1>2. StoreTyped' /\ UNCHANGED archives /\ UNCHANGED sessionParts
    BY <1>1, StoreKept DEF Inv, TypeInv, storeVars, sessionParts
<1>3. FilesTyped'
    BY <1>1, EditDate DEF Inv, TypeInv, FilesTyped
<1>4. OpenedResolves'
    <2>1. Current' = Current
        BY <1>1 DEF Current
    <2>2. CASE UseSnapshots
        <3>1. View' = View
            BY <1>1, <2>2 DEF View, UseSnapshots
        <3>2. Resolve(View, Current[2])' = Resolve(View, Current[2])
            BY <2>1, <3>1 DEF Resolve
        <3> QED BY <1>1, <3>2 DEF Inv, TypeInv, OpenedResolves
    <2>3. CASE ~UseSnapshots
        <3>1. View' = LiveView'
            BY <1>1, <2>3 DEF View, UseSnapshots
        <3>2. Resolve(View, Current[2])' = Resolve(LiveView, Current[2])'
            BY <3>1 DEF Resolve
        <3> QED BY <1>1, <2>3, <3>2 DEF Inv, TypeInv, OpenedResolves
    <2> QED BY <2>2, <2>3
<1> QED BY <1>2, <1>3, <1>4, SessionKept DEF Inv, TypeInv

\* While a live file is open, its path reaches it.
LEMMA OpenedPath ==
    ASSUME Inv, opened # -1, ~UseSnapshots
    PROVE  Current[2] \in Paths /\ Resolve(LiveView, Current[2]) # 0
BY CurrentTyped DEF Inv, TypeInv, OpenedResolves, Storing, View

\* Paths that reach a file still do when only paths that were free change.
LEMMA ResolveKept ==
    ASSUME node \in [Paths -> Node], NEW p \in Paths, Resolve(LiveView, p) # 0,
           \A q \in Paths : node[q].type # "none" => node'[q] = node[q]
    PROVE  Resolve(LiveView, p)' # 0
<1>1. node[p] \in Node /\ node[p].type \in {"file", "link"}
    BY NodeFields DEF Resolve, LiveView
<1>2. node'[p] = node[p]
    BY <1>1
<1>3. CASE node[p].type = "file"
    BY <1>2, <1>3, NodeFields, PathsAssumption DEF Resolve, LiveView
<1>4. CASE node[p].type = "link"
    <2>1. node[node[p].ref].type = "file" /\ node[node[p].ref].ref # 0
        BY <1>4 DEF Resolve, LiveView
    <2>2. node[p].ref \in Paths
        BY <1>1, <1>4, NodeFields
    <2>3. node'[node[p].ref] = node[node[p].ref]
        BY <2>1, <2>2
    <2> QED BY <1>2, <1>4, <2>1, <2>3 DEF Resolve, LiveView
<1> QED BY <1>1, <1>3, <1>4

LEMMA UserTyped ==
    ASSUME Inv, NEW p \in Paths, NEW q \in Paths, NEW data \in Data,
           \/ WriteFile(p, data) \/ CreateFile(p, data) \/ DeletePath(p)
           \/ MakeHardlink(p, q) \/ MakeSymlink(p, q)
    PROVE  Inv'
<1>1. /\ data \in Data /\ EmptyData \in Data
      /\ disk \in Disk /\ node \in [Paths -> Node]
    BY DataAssumption DEF Inv, TypeInv, FilesTyped
<1>2. NoNode \in Node /\ FileNode(p) \in Node /\ LinkNode(q) \in Node /\ NoNode.type = "none"
    BY DEF Node, NoNode
<1>3. clock + 1 \in 0 .. MaxClock /\ 0 \in 0 .. MaxClock
    BY EditDate DEF Inv, TypeInv, WriteFile, CreateFile, DeletePath, MakeHardlink, MakeSymlink
<1>4. CASE WriteFile(p, data)
    <2>1. node' = node
        BY <1>4 DEF WriteFile
    <2>2. disk' \in Disk
        BY <1>1, <1>4, <1>3 DEF WriteFile, Disk
    <2>3. opened # -1 /\ ~UseSnapshots => Resolve(LiveView, Current[2])' # 0
        <3> SUFFICES ASSUME opened # -1, ~UseSnapshots
                     PROVE  Resolve(LiveView, Current[2])' # 0
            OBVIOUS
        <3>1. Current' = Current
            BY <1>4 DEF WriteFile, Edit, Current
        <3>2. Resolve(LiveView, Current[2])' = Resolve(LiveView, Current[2])
            BY <2>1, <3>1 DEF Resolve, LiveView
        <3> QED BY <3>2, OpenedPath
    <2> QED BY <1>1, <1>4, <2>1, <2>2, <2>3, EditTyped DEF WriteFile
<1>5. ASSUME NEW kind, Edit(kind), NEW n \in Node, node[p] = NoNode,
             node' = [node EXCEPT ![p] = n],
             disk' \in Disk
      PROVE  Inv'
    <2>1. node' \in [Paths -> Node]
        BY <1>1, <1>5
    <2>2. \A r \in Paths : node[r].type # "none" => node'[r] = node[r]
        BY <1>1, <1>2, <1>5
    <2>3. Current' = Current
        BY <1>5 DEF Edit, Current
    <2>4. opened # -1 /\ ~UseSnapshots => Resolve(LiveView, Current[2])' # 0
        <3> SUFFICES ASSUME opened # -1, ~UseSnapshots
                     PROVE  Resolve(LiveView, Current[2])' # 0
            OBVIOUS
        <3> DEFINE r == Current[2]
        <3>1. r \in Paths /\ Resolve(LiveView, r) # 0
            BY OpenedPath
        <3>2. \A x \in Paths : Resolve(LiveView, x) # 0 => Resolve(LiveView', x) # 0
            <4> SUFFICES ASSUME NEW x \in Paths, Resolve(LiveView, x) # 0
                         PROVE  Resolve(LiveView, x)' # 0
                BY DEF Resolve
            <4> QED BY <1>1, <2>2, ResolveKept
        <3> QED BY <2>3, <3>1, <3>2 DEF Resolve
    <2> QED BY <1>5, <2>1, <2>4, EditTyped
<1>6. CASE CreateFile(p, data)
    <2>1. disk' \in Disk
        BY <1>1, <1>6, <1>3 DEF CreateFile, Disk
    <2> QED BY <1>2, <1>5, <1>6, <2>1 DEF CreateFile
<1>7. CASE MakeHardlink(p, q)
    BY <1>1, <1>5, <1>7 DEF MakeHardlink
<1>8. CASE MakeSymlink(p, q)
    BY <1>1, <1>2, <1>5, <1>8 DEF MakeSymlink
<1>9. CASE DeletePath(p)
    <2>1. node' \in [Paths -> Node]
        BY <1>1, <1>2, <1>9 DEF DeletePath
    <2>2. disk' \in Disk
        BY <1>1, <1>9, <1>3 DEF DeletePath, Disk
    <2>3. opened # -1 /\ ~UseSnapshots => Resolve(LiveView, Current[2])' # 0
        <3> SUFFICES ASSUME opened # -1, ~UseSnapshots
                     PROVE  Resolve(LiveView, Current[2])' # 0
            OBVIOUS
        <3> DEFINE r == Current[2]
        <3>1. r \in Paths /\ Resolve(LiveView, r) # 0
            BY OpenedPath
        <3>2. Resolve(LiveView, r) # Resolve(LiveView, p)
            BY <1>9 DEF DeletePath
        <3>3. Current' = Current
            BY <1>9 DEF DeletePath, Edit, Current
        <3>4. node' = [node EXCEPT ![p] = NoNode]
            BY <1>9 DEF DeletePath
        <3>5. r # p
            BY <3>2
        <3>6. node[r].type = "link" => node[r].ref \in Paths /\ node[r].ref # p
            BY <1>1, <3>1, <3>2, NodeFields DEF Resolve, LiveView
        <3>7. Resolve(LiveView', r) # 0
            BY <1>1, <3>1, <3>4, <3>5, <3>6 DEF Resolve, LiveView
        <3> QED BY <3>3, <3>7 DEF Resolve
    <2> QED BY <1>9, <2>1, <2>2, <2>3, EditTyped DEF DeletePath
<1> QED BY <1>4, <1>6, <1>7, <1>8, <1>9

\* What a restore does to the files, whether it ends or waits until the user
\* ends it.
LEMMA RestoresPutBack ==
    ASSUME NEW v, RestoreBackup(v) \/ AbandonRestore(v)
    PROVE  /\ phase = "idle" /\ v \in Versions
           /\ archives[v].deps \subseteq Versions /\ archives[v].unmapped = Live
           /\ \E files : PutBack(BroughtBack(v, files))
<1>1. phase = "idle" /\ v \in Versions
    BY DEF RestoreBackup, AbandonRestore
<1>2. RestoreOutcome(v).status \in {"ok", "may wait", "assertion"}
    BY DEF RestoreBackup, AbandonRestore
<1>3. archives[v].deps \subseteq Versions /\ archives[v].unmapped = Live
    BY <1>2 DEF RestoreOutcome
<1>4. RestoreOutcome(v).content = BroughtBack(v, RestoredFiles(v))
    BY <1>3 DEF RestoreOutcome
<1>5. \E files : PutBack(BroughtBack(v, files))
    BY <1>4 DEF RestoreBackup, AbandonRestore
<1> QED BY <1>1, <1>3, <1>5

\* What a restore puts back: a link points to a path of the model.
LEMMA RestoredLinks ==
    ASSUME StoreTyped, NEW v \in Versions, NEW files, NEW p \in Paths,
           BroughtBack(v, files)[p].what = "link"
    PROVE  BroughtBack(v, files)[p].value \in Paths
<1> DEFINE objs == archives[v].objects
           links == {s \in DOMAIN objs : objs[s].type = "FileSymlink"}
           link == CHOOSE s \in links : s[2] = p
           put == IF \E s \in links : s[2] = p
                  THEN [what |-> "link", value |-> objs[link].link_target]
                  ELSE IF \E f \in files : f[1] = p
                  THEN [what |-> "file", value |-> (CHOOSE f \in files : f[1] = p)[2]]
                  ELSE Nothing
<1>1. objs \in ObjectMaps(FsoType)
    BY ArchiveFields DEF Archive
<1>2. BroughtBack(v, files)[p] = put
    BY DEF BroughtBack
<1>3. \E s \in links : s[2] = p
    BY <1>2 DEF Nothing
<1>4. link \in links /\ link[2] = p
    BY <1>3
<1>5. objs[link].link_target \in Paths
    BY <1>1, <1>4, ObjectMapsElim DEF OwnPaths
<1>6. put = [what |-> "link", value |-> objs[link].link_target]
    BY <1>3
<1> HIDE DEF put, link, objs
<1> QED BY <1>2, <1>5, <1>6

LEMMA RestoreTyped ==
    ASSUME Inv, NEW v, RestoreBackup(v) \/ AbandonRestore(v)
    PROVE  Inv'
<1>0. /\ phase = "idle" /\ v \in Versions
      /\ \E files : PutBack(BroughtBack(v, files))
    BY RestoresPutBack
<1> PICK files : PutBack(BroughtBack(v, files))
    BY <1>0
<1> DEFINE content == BroughtBack(v, files)
<1>1. /\ \A p \in Paths : content[p].what = "file" => content[p].value \in Data
      /\ clock < MaxClock /\ clock' = clock + 1
      /\ node' = [p \in Paths |->
                CASE content[p].what = "nothing" -> NoNode
                  [] content[p].what = "link" -> LinkNode(content[p].value)
                  [] OTHER -> FileNode(p)]
      /\ disk' = [p \in Paths |->
                IF content[p].what = "file"
                THEN [data |-> content[p].value, date |-> clock + 1]
                ELSE [data |-> EmptyData, date |-> 0]]
      /\ UNCHANGED <<storeVars, phase, sessionVars>>
    BY DEF PutBack
<1>2. \A p \in Paths : content[p].what = "link" => content[p].value \in Paths
    BY <1>0, RestoredLinks DEF Inv, TypeInv
<1> HIDE DEF content
<1>3. node' \in [Paths -> Node]
    <2> SUFFICES ASSUME NEW p \in Paths
                 PROVE  node'[p] \in Node
        BY <1>1
    <2>1. CASE content[p].what = "nothing"
        BY <1>1, <2>1 DEF Node
    <2>2. CASE content[p].what = "link"
        BY <1>1, <1>2, <2>2 DEF Node
    <2>3. CASE content[p].what \notin {"nothing", "link"}
        BY <1>1, <2>3 DEF Node
    <2> QED BY <2>1, <2>2, <2>3
<1>4. clock + 1 \in 0 .. MaxClock /\ 0 \in 0 .. MaxClock
    BY <1>1, BoundsAssumption DEF Inv, TypeInv, FilesTyped
<1>5. disk' \in Disk
    BY <1>1, <1>4, DataAssumption DEF Disk
<1>6. FilesTyped'
    BY <1>1, <1>3, <1>4, <1>5 DEF FilesTyped
<1>7. UNCHANGED <<archives, aux>> /\ UNCHANGED sessionParts
    BY <1>1 DEF storeVars, sessionVars, sessionParts
<1>8. OpenedResolves'
    BY <1>0, <1>1, <1>7 DEF Inv, TypeInv, OpenedResolves, sessionParts
<1> QED BY <1>6, <1>7, <1>8, SessionKept, StoreKept DEF Inv, TypeInv

\* Files of the backup are only deleted between two commands.
LEMMA DeletedTyped ==
    ASSUME Inv, NEW v \in Version, NEW kind, DeleteArchive(v, kind) \/ DeleteAux(v)
    PROVE  Inv'
<1>1. phase = "idle" /\ UNCHANGED <<fsVars, phase, sessionVars>>
    BY DEF DeleteArchive, DeleteAux
<1>2. FilesTyped'
    BY <1>1 DEF Inv, TypeInv, FilesTyped, fsVars
<1>3. StoreTyped'
    <2>1. archives' = archives \/ archives' = [archives EXCEPT ![v] = NoArchive]
        BY DEF DeleteArchive, DeleteAux
    <2>2. aux' = aux \/ aux' = [aux EXCEPT ![v] = <<>>]
        BY DEF DeleteArchive, DeleteAux
    <2>3. <<>> \in Seq(AuxList)
        OBVIOUS
    <2> QED BY <2>1, <2>2, <2>3 DEF Inv, TypeInv, StoreTyped
<1>4. /\ \A w \in Version : archives'[w] = archives[w] \/ archives'[w] = NoArchive
      /\ Versions' \subseteq Versions
    BY DEF DeleteArchive, DeleteAux, Inv, TypeInv, StoreTyped, Versions
<1>5. \A w \in Versions' : w \in Versions /\ archives'[w] = archives[w]
    BY <1>4 DEF Versions
<1>6. StreamIdsGrow'
    BY <1>5 DEF Inv, StreamIdsGrow
<1>7. SessionTyped'
    BY <1>1 DEF Inv, TypeInv, SessionTyped, sessionVars
<1>8. VersionIsNew' /\ OpenedResolves' /\ StreamsNumbered'
    BY <1>1 DEF Inv, TypeInv, VersionIsNew, OpenedResolves, StreamsNumbered, sessionVars
<1> QED BY <1>2, <1>3, <1>6, <1>7, <1>8 DEF Inv, TypeInv
-----------------------------------------------------------------------------
\* The invariant holds in every state.
LEMMA InvInit == Init => Inv
<1> SUFFICES ASSUME Init PROVE Inv
    OBVIOUS
<1>1. phase = "idle" /\ opened = -1
    BY DEF Init
<1>2. node \in [Paths -> Node]
    BY DEF Init, Node
<1>3. 0 \in 0 .. MaxClock
    BY BoundsAssumption
<1>4. disk \in Disk
    BY <1>3, DataAssumption, CommandsAssumption DEF Init, Disk
<1>5. FilesTyped
    BY <1>2, <1>3, <1>4 DEF Init, FilesTyped
<1>6. StoreTyped
    <2>1. <<>> \in Seq(AuxList)
        OBVIOUS
    <2> QED BY <2>1 DEF Init, StoreTyped
<1>7. Versions = {}
    BY DEF Init, Versions
<1>8. SessionTyped
    <2>1. objects \in ObjectMaps(FsoRecord)
        BY NoObjectsTyped DEF Init
    <2> QED BY <1>1, <2>1, FS_EmptySet DEF Init, SessionTyped
<1>9. VersionIsNew /\ OpenedResolves /\ StreamsNumbered /\ StreamIdsGrow
    BY <1>1, <1>7 DEF VersionIsNew, OpenedResolves, StreamsNumbered, StreamIdsGrow
<1> QED BY <1>5, <1>6, <1>8, <1>9 DEF Inv, TypeInv

LEMMA InvNext == Inv /\ [Next]_vars => Inv'
<1> SUFFICES ASSUME Inv, [Next]_vars PROVE Inv'
    OBVIOUS
<1>1. CASE UNCHANGED vars
    <2>1. UNCHANGED <<archives, aux>> /\ UNCHANGED sessionParts /\ UNCHANGED <<node, disk, clock>>
        BY <1>1 DEF vars, fsVars, storeVars, sessionVars, sessionParts
    <2>2. FilesTyped'
        BY <2>1 DEF Inv, TypeInv, FilesTyped
    <2>3. OpenedResolves'
        <3>1. View' = View /\ Current' = Current
            BY <1>1 DEF vars, fsVars, sessionVars, View, UseSnapshots, LiveView, Current
        <3>2. Resolve(View, Current[2])' = Resolve(View, Current[2])
            BY <3>1 DEF Resolve
        <3> QED BY <2>1, <3>2 DEF Inv, TypeInv, OpenedResolves, sessionParts
    <2> QED BY <2>1, <2>2, <2>3, SessionKept, StoreKept DEF Inv, TypeInv
<1>2. ASSUME NEW x \in Exclusions, NEW c \in Criteria, NEW u \in Snapshots,
             BeginBackup(x, c, u)
      PROVE  Inv'
    BY <1>2, BeginTyped, CommandsAssumption
<1>3. CASE SessionStep
    BY <1>3, GenerateTyped, ReorderTyped, OpenTyped, StoreFileTyped, CommitTyped, FailTyped
       DEF SessionStep
<1>4. CASE Crash
    BY <1>4, AbortTyped DEF Crash
<1>5. ASSUME NEW v \in Version, RestoreBackup(v) \/ AbandonRestore(v)
      PROVE  Inv'
    BY <1>5, RestoreTyped
<1>6. ASSUME NEW p \in Paths, NEW d \in Writable, WriteFile(p, d) \/ CreateFile(p, d)
      PROVE  Inv'
    BY <1>6, UserTyped, CommandsAssumption
<1>7. ASSUME NEW p \in Paths, DeletePath(p)
      PROVE  Inv'
    BY <1>7, UserTyped, DataAssumption
<1>8. ASSUME NEW pq \in Linkable, MakeHardlink(pq[1], pq[2]) \/ MakeSymlink(pq[1], pq[2])
      PROVE  Inv'
    <2>1. pq[1] \in Paths /\ pq[2] \in Paths
        BY CommandsAssumption
    <2> QED BY <1>8, <2>1, UserTyped, DataAssumption
<1>9. ASSUME NEW v \in Version, NEW kind \in {"archive", "version"}, DeleteArchive(v, kind)
      PROVE  Inv'
    BY <1>9, DeletedTyped
<1>10. ASSUME NEW v \in Version, DeleteAux(v)
      PROVE  Inv'
    BY <1>10, DeletedTyped
<1>11. ASSUME NEW c \in Criteria, RetryBackup(c)
       PROVE  Inv'
    BY <1>11, RetryTyped
<1> QED BY <1>1, <1>2, <1>3, <1>4, <1>5, <1>6, <1>7, <1>8, <1>9, <1>10, <1>11 DEF Next
-----------------------------------------------------------------------------
LEMMA TypeInvImpliesTypeOK == Inv => TypeOK
<1> SUFFICES ASSUME Inv PROVE TypeOK
    OBVIOUS
<1>1. FilesTyped /\ StoreTyped /\ SessionTyped
    BY DEF Inv, TypeInv
<1>2. ASSUME NEW v \in Versions, NEW s \in DOMAIN archives[v].objects
      PROVE  archives[v].objects[s] \in FsoType /\ archives[v].objects[s].path = s[2]
    <2>1. archives[v].objects \in ObjectMaps(FsoType)
        BY <1>1, ArchiveFields DEF Archive
    <2> QED BY <2>1, ObjectMapsElim DEF OwnPaths
<1> QED BY <1>1, <1>2 DEF FilesTyped, SessionTyped, TypeOK, Disk

\* The variables keep their types, for any files, edits and deletions: among
\* others the reordering finds an id for every stream (reorder_file_streams),
\* FileSystemObject::find an object for every file that has not changed, and
\* add_files data behind every file it has open.
THEOREM TypeCorrect == Spec => []TypeOK
<1>1. Init => Inv
    BY InvInit
<1>2. Inv /\ [Next]_vars => Inv'
    BY InvNext
<1>3. Inv => TypeOK
    BY TypeInvImpliesTypeOK
<1> QED BY <1>1, <1>2, <1>3, PTL DEF Spec

\* The stream ids restore_thread assumes to be monotonic (BackupSystem.cpp:896)
\* are: reorder_file_streams hands the ids of a session out again in the order
\* of the archive, and a session goes on after the last version, even when
\* versions before it were deleted or attempts before it failed.
THEOREM StreamIdsAlwaysGrow == Spec => []StreamIdsGrow
<1>1. Init => Inv
    BY InvInit
<1>2. Inv /\ [Next]_vars => Inv'
    BY InvNext
<1>3. Inv => StreamIdsGrow
    BY DEF Inv
<1> QED BY <1>1, <1>2, <1>3, PTL DEF Spec

-----------------------------------------------------------------------------
\* What the versions of a backup say of each other, for every value of the
\* constants of BackupSystem: a commit leaves older versions alone, the
\* list in .aux matches the archive as long as the user deletes nothing,
\* and the dependencies in a manifest are complete as long as no failed
\* backup command is typed again.

\* The steps that bring or change files of the backup.
LEMMA StoreSteps ==
    ASSUME [Next]_vars
    PROVE  \/ CommitBackup
           \/ \E v \in Version, kind \in Deletions : DeleteArchive(v, kind)
           \/ "aux" \in Deletions /\ \E v \in Version : DeleteAux(v)
           \/ UNCHANGED <<archives, aux>>
<1>1. CASE UNCHANGED vars
    BY <1>1 DEF vars, storeVars
<1>2. ASSUME NEW x \in Exclusions, NEW c \in Criteria, NEW u \in Snapshots,
             BeginBackup(x, c, u)
      PROVE  UNCHANGED <<archives, aux>>
    BY <1>2 DEF BeginBackup, storeVars
<1>3. CASE SessionStep
    <2>1. ASSUME NEW s \in Slots, GenerateStream(s)
          PROVE  UNCHANGED <<archives, aux>>
        BY <2>1 DEF GenerateStream, storeVars
    <2>2. ASSUME NEW order, ReorderFileStreams(order)
          PROVE  UNCHANGED <<archives, aux>>
        BY <2>2 DEF ReorderFileStreams, storeVars
    <2>3. CASE OpenFile \/ StoreFile \/ FailToOpen
        BY <2>3 DEF OpenFile, StoreFile, FailToOpen, storeVars
    <2> QED BY <1>3, <2>1, <2>2, <2>3 DEF SessionStep
<1>4. CASE Crash
    BY <1>4 DEF Crash, storeVars
<1>5. ASSUME NEW v \in Version, RestoreBackup(v) \/ AbandonRestore(v)
      PROVE  UNCHANGED <<archives, aux>>
    BY <1>5, RestoresPutBack DEF PutBack, storeVars
<1>6. ASSUME NEW p, NEW q, \/ WriteFile(p, q) \/ CreateFile(p, q) \/ DeletePath(p)
                           \/ MakeHardlink(p, q) \/ MakeSymlink(p, q)
      PROVE  UNCHANGED <<archives, aux>>
    <2>1. \E kind : Edit(kind)
        BY <1>6 DEF WriteFile, CreateFile, DeletePath, MakeHardlink, MakeSymlink
    <2> QED BY <2>1 DEF Edit, storeVars
<1>7. ASSUME NEW v \in Version, NEW kind, DeleteArchive(v, kind)
      PROVE  kind \in Deletions
    BY <1>7 DEF DeleteArchive
<1>8. ASSUME NEW v \in Version, DeleteAux(v)
      PROVE  "aux" \in Deletions
    BY <1>8 DEF DeleteAux
<1>9. ASSUME NEW c \in Criteria, RetryBackup(c)
      PROVE  UNCHANGED <<archives, aux>>
    BY <1>9 DEF RetryBackup, storeVars
<1> QED BY <1>1, <1>2, <1>3, <1>4, <1>5, <1>6, <1>7, <1>8, <1>9 DEF Next

\* A commit writes to a number no version has.
LEMMA CommitLeavesOthers ==
    ASSUME Inv, CommitBackup
    PROVE  \A v \in Versions : archives'[v] = archives[v] /\ aux'[v] = aux[v]
<1>1. PICK new \in Archive :
        /\ session.version \in Version /\ session.version \notin Versions
        /\ archives' = [archives EXCEPT ![session.version] = new]
        /\ aux' = [aux EXCEPT ![session.version] =
                Append(@, [unmapped |-> new.unmapped, objects |-> new.objects])]
    BY CommitEffect
<1> QED BY <1>1 DEF Inv, TypeInv, StoreTyped, Versions

LEMMA AuxKept ==
    ASSUME Inv, AuxMatchesArchive, CommitBackup
    PROVE  AuxMatchesArchive'
<1> DEFINE n == session.version
           List(a) == [unmapped |-> a.unmapped, objects |-> a.objects]
<1>1. PICK new \in Archive :
        /\ n \in Version /\ n \notin Versions
        /\ archives' = [archives EXCEPT ![n] = new]
        /\ aux' = [aux EXCEPT ![n] = Append(@, List(new))]
        /\ Versions' = Versions \cup {n}
    BY CommitEffect
<1>2. DOMAIN archives = Version /\ DOMAIN aux = Version
    BY DEF Inv, TypeInv, StoreTyped
<1>3. aux[n] = <<>>
    BY <1>1 DEF AuxMatchesArchive
<1>4. archives'[n] = new /\ aux'[n] = <<List(new)>>
    <2>1. Append(<<>>, List(new)) = <<List(new)>>
        OBVIOUS
    <2> QED BY <1>1, <1>2, <1>3, <2>1
<1>5. \A v \in Version \ {n} : archives'[v] = archives[v] /\ aux'[v] = aux[v]
    BY <1>1, <1>2
<1> SUFFICES ASSUME NEW v \in Version
             PROVE  aux'[v] = IF v \in Versions' THEN <<List(archives'[v])>> ELSE <<>>
    BY DEF AuxMatchesArchive, Version
<1>6. CASE v = n
    BY <1>1, <1>4, <1>6
<1>7. CASE v # n
    BY <1>1, <1>5, <1>7 DEF AuxMatchesArchive
<1> QED BY <1>6, <1>7

\* README.txt, "Transacted backup creation": whatever the step at which a
\* session dies, an archive and its .aux list appear together or not at all and
\* say the same, as long as the user leaves the files of the backup alone.
THEOREM AuxAlwaysMatches ==
    ASSUME Deletions = {}
    PROVE  Spec => []AuxMatchesArchive
<1>1. Init => Inv /\ AuxMatchesArchive
    <2> SUFFICES ASSUME Init PROVE AuxMatchesArchive
        BY InvInit
    <2>1. Versions = {}
        BY DEF Init, Versions
    <2> QED BY <2>1 DEF Init, AuxMatchesArchive, Version
<1>2. Inv /\ AuxMatchesArchive /\ [Next]_vars => (Inv /\ AuxMatchesArchive)'
    <2> SUFFICES ASSUME Inv, AuxMatchesArchive, [Next]_vars PROVE AuxMatchesArchive'
        BY InvNext
    <2>1. CASE CommitBackup
        BY <2>1, AuxKept
    <2>2. CASE UNCHANGED <<archives, aux>>
        BY <2>2 DEF AuxMatchesArchive, Versions
    <2> QED BY <2>1, <2>2, StoreSteps
<1> QED BY <1>1, <1>2, PTL DEF Spec

\* No step of a session, a restore, a failure or a crash changes a version that
\* was committed: the number a session writes to is always free.
THEOREM CommittedVersionsStay ==
    ASSUME Deletions = {}
    PROVE  Spec => CommittedVersionsPermanent
<1>1. Init => Inv
    BY InvInit
<1>2. Inv /\ [Next]_vars => Inv'
    BY InvNext
<1>3. Inv /\ [Next]_vars =>
        [\A v \in Versions : archives'[v] = archives[v] /\ aux'[v] = aux[v]]_vars
    BY StoreSteps, CommitLeavesOthers
<1> QED BY <1>1, <1>2, <1>3, PTL DEF Spec, CommittedVersionsPermanent
-----------------------------------------------------------------------------
\* The dependencies in the manifest.

\* No object of f refers to a version after v.
UpTo(f, v) == \A s \in DOMAIN f : f[s].latest <= v

\* Neither the archives nor the lists refer to later versions.
StoreUpTo ==
    /\ \A v \in Versions : UpTo(archives[v].objects, v)
    /\ \A v \in Version : \A i \in DOMAIN aux[v] : UpTo(aux[v][i].objects, v)

\* The session refers to older versions for what it does not store, the
\* dependencies are taken when all objects have their version, and only an
\* attempt that failed leaves streams for get_dependencies to overlook.
SessionUpTo ==
    /\ phase # "idle" =>
          /\ UpTo(session.old, session.version)
          /\ UpTo(objects, session.version)
          /\ \A s \in streams : objects[s].latest = session.version
    /\ phase \in {"generating", "storing"} => session.owners = {}
    /\ phase = "storing" => deps = dependencies

DependenciesInv == Inv /\ StoreUpTo /\ SessionUpTo /\ DependenciesClosed

LEMMA DependenciesInit == Init => DependenciesInv
<1> SUFFICES ASSUME Init PROVE DependenciesInv
    OBVIOUS
<1>1. Versions = {} /\ phase = "idle" /\ \A v \in Version : aux[v] = <<>>
    BY DEF Init, Versions
<1> QED BY <1>1, InvInit DEF DependenciesInv, StoreUpTo, SessionUpTo, DependenciesClosed

\* A step that leaves the backup alone.
LEMMA StoreStill ==
    ASSUME StoreUpTo, DependenciesClosed, UNCHANGED <<archives, aux>>
    PROVE  StoreUpTo' /\ DependenciesClosed'
<1>1. Versions' = Versions
    BY DEF Versions
<1>2. \A v : RestoreLater(v)' = RestoreLater(v)
    BY DEF RestoreLater
<1> QED BY <1>1, <1>2 DEF StoreUpTo, UpTo, DependenciesClosed

\* The objects a session starts from.
LEMMA StartUpTo ==
    ASSUME Inv, StoreUpTo, NEW snapshot
    PROVE  UpTo(StartingPoint(snapshot).objects, get_version_count)
<1> DEFINE v == get_version_count - 1
<1>1. CASE get_version_count = 0
    BY <1>1 DEF StartingPoint, NoObjects, UpTo
<1>2. CASE get_version_count # 0
    <2>1. v \in Versions /\ v \in Version /\ get_version_count \in Nat /\ v \in Nat
        BY <1>2, VersionCount DEF Versions
    <2>2. UpTo(archives[v].objects, v)
        BY <2>1 DEF StoreUpTo
    <2>3. aux[v] # <<>> => UpTo(aux[v][1].objects, v)
        <3>1. aux[v] \in Seq(AuxList)
            BY <2>1 DEF Inv, TypeInv, StoreTyped
        <3>2. aux[v] # <<>> => 1 \in DOMAIN aux[v]
            BY <3>1
        <3> QED BY <2>1, <3>2 DEF StoreUpTo
    <2>4. UpTo(get_old_objects(v, snapshot).objects, v)
        BY <2>2, <2>3 DEF get_old_objects
    <2>5. get_old_objects(v, snapshot).objects \in ObjectMaps(FsoType)
        <3>1. archives[v].objects \in ObjectMaps(FsoType)
            BY <2>1, ArchiveFields DEF Inv, TypeInv, Archive
        <3>2. aux[v] # <<>> => aux[v][1].objects \in ObjectMaps(FsoType)
            <4>1. aux[v] \in Seq(AuxList)
                BY <2>1 DEF Inv, TypeInv, StoreTyped
            <4>2. aux[v] # <<>> => aux[v][1] \in AuxList
                BY <4>1
            <4> QED BY <4>2 DEF AuxList
        <3> QED BY <3>1, <3>2 DEF get_old_objects
    <2>6. \A s \in DOMAIN get_old_objects(v, snapshot).objects :
            get_old_objects(v, snapshot).objects[s].latest \in Int
        <3>1. \A f \in FsoType : f.latest \in Int
            BY BoundsAssumption DEF FsoType, Version
        <3> QED BY <2>5, <3>1, ObjectMapsElim
    <2>7. StartingPoint(snapshot).objects = get_old_objects(v, snapshot).objects
        BY <1>2 DEF StartingPoint
    <2> QED BY <2>1, <2>4, <2>6, <2>7 DEF UpTo
<1> QED BY <1>1, <1>2

LEMMA BeginUpTo ==
    ASSUME DependenciesInv, NEW x, NEW c, NEW u, BeginBackup(x, c, u)
    PROVE  SessionUpTo'
<1>1. /\ phase' = "generating" /\ streams' = {}
      /\ session'.version = get_version_count
      /\ session'.old = StartingPoint(IF u THEN get_version_count + 1 ELSE Live).objects
         \/ session'.old = NoObjects
      /\ objects' = ScannedObjects(LiveView, x) \/ objects' = NoObjects
      /\ session'.owners = {}
    BY DEF BeginBackup
<1>2. get_version_count \in Nat
    BY VersionCount
<1>3. UpTo(session'.old, session'.version)
    BY <1>1, StartUpTo DEF DependenciesInv, UpTo, NoObjects
<1>4. \A s \in DOMAIN objects' : objects'[s].latest = -1
    BY <1>1 DEF ScannedObjects, NewFso, NoObjects, invalid_version_number
<1>5. UpTo(objects', session'.version)
    BY <1>1, <1>2, <1>4 DEF UpTo
<1> QED BY <1>1, <1>3, <1>5 DEF SessionUpTo

\* What GenerateStream says of the version of an object.
LEMMA GeneratedVersion ==
    ASSUME DependenciesInv, NEW s, GenerateStream(s)
    PROVE  /\ objects'[s].latest <= session.version
           /\ streams' # streams => /\ streams' = streams \cup {s}
                                    /\ objects'[s].latest = session.version
<1> DEFINE f == [objects[s] EXCEPT !.latest = version_if_added(objects[s])]
           checked == should_be_added(objects[s]) /\ f.mode = "Full"
           stored == checked /\ file_has_changed(f)
           hash == IF HasDigest(f) THEN compute_hash(f) ELSE f.hash
           g == IF stored THEN [f EXCEPT !.stream_id = nextId, !.hash = hash]
                ELSE IF checked THEN ReferToOld(f) ELSE f
<1>1. /\ s \in todo /\ phase = "generating"
      /\ objects' = [objects EXCEPT ![s] = g]
      /\ streams' = IF stored THEN streams \cup {s} ELSE streams
    BY DEF GenerateStream
<1>2. SessionTyped /\ s \in DOMAIN objects /\ objects'[s] = g
    BY <1>1 DEF DependenciesInv, Inv, TypeInv, SessionTyped
<1>3. objects[s] \in FsoRecord /\ session.version \in Version /\ session.version \in Nat
    BY <1>1, <1>2, ObjectMapsElim, BoundsAssumption DEF SessionTyped, Version
<1>4. /\ f.latest = version_if_added(objects[s])
      /\ f.path = objects[s].path
    BY <1>3 DEF FsoRecord
<1>5. checked => f.latest = session.version
    BY <1>4 DEF should_be_added, version_if_added
<1>6. f.latest <= session.version /\ f \in FsoRecord
    <2>1. version_if_added(objects[s]) \in {-1, session.version}
        BY DEF version_if_added, invalid_version_number
    <2> QED BY <1>3, <1>4, <2>1 DEF FsoRecord
<1> HIDE DEF f
<1>7. CASE stored
    <2>1. g = [f EXCEPT !.stream_id = nextId, !.hash = hash]
        BY <1>7
    <2>2. g.latest = f.latest
        <3> HIDE DEF g, stored, hash
        <3> QED BY <1>6, <2>1 DEF FsoRecord
    <2> QED BY <1>1, <1>2, <1>5, <1>6, <1>7, <2>2
<1>8. CASE ~stored /\ checked
    <2>1. g = ReferToOld(f) /\ OldSlots(f.path) # {}
        BY <1>8 DEF file_has_changed
    <2>2. g.latest = OldObject(f.path).latest
        BY <1>6, <2>1 DEF ReferToOld, FsoRecord
    <2>3. \E t \in DOMAIN session.old : OldObject(f.path) = session.old[t]
        BY <1>1, <1>2, <2>1, OldObjectTyped
    <2>4. UpTo(session.old, session.version)
        BY <1>1 DEF DependenciesInv, SessionUpTo
    <2> QED BY <1>1, <1>2, <1>8, <2>2, <2>3, <2>4 DEF UpTo
<1>9. CASE ~stored /\ ~checked
    BY <1>1, <1>2, <1>6, <1>9
<1> QED BY <1>7, <1>8, <1>9

LEMMA GenerateUpTo ==
    ASSUME DependenciesInv, NEW s, GenerateStream(s)
    PROVE  SessionUpTo'
<1>1. /\ phase = "generating" /\ s \in todo /\ UNCHANGED <<phase, session>>
    BY DEF GenerateStream
<1>2. s \in DOMAIN objects /\ s \notin streams
    BY <1>1 DEF DependenciesInv, Inv, TypeInv, SessionTyped, StreamsNumbered
<1>3. /\ DOMAIN objects' = DOMAIN objects
      /\ \A t \in DOMAIN objects \ {s} : objects'[t] = objects[t]
    BY DEF GenerateStream
<1>4. UpTo(objects', session.version)
    BY <1>1, <1>3, GeneratedVersion DEF DependenciesInv, SessionUpTo, UpTo
<1>5. \A t \in streams' : objects'[t].latest = session.version
    <2>1. \A t \in streams : t \in DOMAIN objects \ {s} /\ objects[t].latest = session.version
        BY <1>1, <1>2 DEF DependenciesInv, SessionUpTo, Inv, TypeInv, SessionTyped
    <2> QED BY <1>3, <2>1, GeneratedVersion
<1> QED BY <1>1, <1>4, <1>5 DEF DependenciesInv, SessionUpTo

\* Only the stream ids and the digests change once the dependencies are taken.
SameVersions(f, g) ==
    DOMAIN g = DOMAIN f /\ \A s \in DOMAIN f : g[s].latest = f[s].latest

LEMMA ReorderUpTo ==
    ASSUME DependenciesInv, NEW order, ReorderFileStreams(order)
    PROVE  SessionUpTo'
<1>1. /\ phase = "generating" /\ phase' = "storing" /\ deps' = dependencies
      /\ UNCHANGED <<session, streams>>
      /\ objects' = [s \in DOMAIN objects |->
            IF s \in streams
            THEN [objects[s] EXCEPT
                    !.stream_id = NthId(CHOOSE i \in DOMAIN order : order[i] = s)]
            ELSE objects[s]]
    BY DEF ReorderFileStreams
<1>2. \A s \in DOMAIN objects : objects[s] \in FsoRecord
    BY ObjectMapsElim DEF DependenciesInv, Inv, TypeInv, SessionTyped
<1>3. SameVersions(objects, objects')
    BY <1>1, <1>2 DEF SameVersions, FsoRecord
<1>4. streams \subseteq DOMAIN objects
    BY DEF DependenciesInv, Inv, TypeInv, SessionTyped
<1>5. dependencies' = dependencies
    BY <1>1, <1>3 DEF SameVersions, dependencies
<1> QED BY <1>1, <1>3, <1>4, <1>5 DEF DependenciesInv, SessionUpTo, SameVersions, UpTo

LEMMA StoreFileUpTo ==
    ASSUME DependenciesInv, StoreFile
    PROVE  SessionUpTo'
<1>1. /\ Storing /\ \E data : objects' = [objects EXCEPT ![Current].hash = data]
      /\ UNCHANGED <<phase, session, streams, deps>>
    BY DEF StoreFile
<1>2. \A s \in DOMAIN objects : objects[s] \in FsoRecord
    BY ObjectMapsElim DEF DependenciesInv, Inv, TypeInv, SessionTyped
<1>3. SameVersions(objects, objects')
    BY <1>1, <1>2 DEF SameVersions, FsoRecord
<1>4. streams \subseteq DOMAIN objects
    BY DEF DependenciesInv, Inv, TypeInv, SessionTyped
<1>5. dependencies' = dependencies
    BY <1>1, <1>3 DEF SameVersions, dependencies
<1> QED BY <1>1, <1>3, <1>4, <1>5
        DEF DependenciesInv, SessionUpTo, SameVersions, UpTo, Storing

LEMMA CommitUpTo ==
    ASSUME DependenciesInv, CommitBackup
    PROVE  StoreUpTo' /\ DependenciesClosed' /\ SessionUpTo'
<1> DEFINE n == session.version
           written == [s \in DOMAIN objects |-> Serialized(objects[s])]
           list == [unmapped |-> session.unmapped, objects |-> written]
<1>1. n \in Version /\ n \notin Versions /\ Versions' = Versions \cup {n}
    BY CommitEffect DEF DependenciesInv
<1>2. /\ phase = "storing" /\ phase' = "idle"
      /\ archives' = [archives EXCEPT ![n] =
                [parts |-> parts, objects |-> written,
                 unmapped |-> session.unmapped, mapped |-> session.mapped,
                 deps |-> deps, nextId |-> nextId]]
      /\ aux' = [aux EXCEPT ![n] = Append(@, list)]
    BY DEF CommitBackup, target_version, NoSession
<1>3. /\ archives \in [Version -> Archive \cup {NoArchive}]
      /\ aux \in [Version -> Seq(AuxList)]
    BY DEF DependenciesInv, Inv, TypeInv, StoreTyped
<1>4. /\ archives'[n].objects = written /\ archives'[n].deps = deps
      /\ \A v \in Versions : archives'[v] = archives[v]
    BY <1>1, <1>2, <1>3 DEF Versions
<1>5. SameVersions(objects, written)
    BY DEF SameVersions, Serialized
<1> HIDE DEF written
<1>6. UpTo(objects, n) /\ UpTo(written, n)
    BY <1>2, <1>5 DEF DependenciesInv, SessionUpTo, UpTo, SameVersions
<1>7. StoreUpTo'
    <2>1. \A v \in Versions' : UpTo(archives'[v].objects, v)
        BY <1>1, <1>4, <1>6 DEF DependenciesInv, StoreUpTo
    <2>2. ASSUME NEW v \in Version, NEW i \in DOMAIN aux'[v]
          PROVE  UpTo(aux'[v][i].objects, v)
        <3>1. CASE v # n
            BY <1>2, <1>3, <2>2, <3>1 DEF DependenciesInv, StoreUpTo
        <3>2. CASE v = n
            <4>1. aux[n] \in Seq(AuxList) /\ aux'[n] = Append(aux[n], list)
                BY <1>1, <1>2, <1>3
            <4>2. \/ i \in DOMAIN aux[n] /\ aux'[n][i] = aux[n][i]
                  \/ aux'[n][i] = list
                BY <2>2, <3>2, <4>1
            <4>3. list.objects = written
                OBVIOUS
            <4> QED BY <1>1, <1>6, <2>2, <3>2, <4>2, <4>3 DEF DependenciesInv, StoreUpTo
        <3> QED BY <3>1, <3>2
    <2> QED BY <2>1, <2>2 DEF StoreUpTo, UpTo
<1>8. deps = {objects[s].latest : s \in DOMAIN objects \ streams} \ {-1}
    <2>1. session.owners = {} /\ deps = dependencies
        BY <1>2 DEF DependenciesInv, SessionUpTo
    <2>2. streams \cup session.owners = streams
        BY <2>1
    <2> QED BY <2>1, <2>2 DEF dependencies, invalid_version_number
<1>9. DependenciesClosed'
    <2> SUFFICES ASSUME NEW v \in Versions'
                 PROVE  /\ \A s \in RestoreLater(v)' :
                              archives'[v].objects[s].latest \in archives'[v].deps \cup {v}
                        /\ \A w \in archives'[v].deps : w <= v
        BY DEF DependenciesClosed
    <2>1. CASE v = n
        <3>1. \A s \in RestoreLater(v)' : s \in DOMAIN written /\ written[s].latest >= 0
            BY <1>4, <2>1 DEF RestoreLater
        <3>2. \A s \in DOMAIN written : /\ s \in DOMAIN objects
                                        /\ written[s].latest = objects[s].latest
            BY <1>5 DEF SameVersions
        <3>3. \A s \in streams : objects[s].latest = n
            BY <1>2 DEF DependenciesInv, SessionUpTo
        <3>4. \A s \in DOMAIN written : written[s].latest >= 0 => written[s].latest \in deps \cup {n}
            BY <1>8, <3>2, <3>3
        <3>5. \A w \in deps : w <= n
            BY <1>6, <1>8 DEF UpTo
        <3> QED BY <1>4, <2>1, <3>1, <3>4, <3>5
    <2>2. CASE v # n
        <3>1. v \in Versions /\ archives'[v] = archives[v]
            BY <1>1, <1>4, <2>2
        <3>2. RestoreLater(v)' = RestoreLater(v)
            BY <3>1 DEF RestoreLater
        <3> QED BY <3>1, <3>2 DEF DependenciesInv, DependenciesClosed
    <2> QED BY <2>1, <2>2
<1>10. SessionUpTo'
    BY <1>2 DEF SessionUpTo
<1> QED BY <1>7, <1>9, <1>10

LEMMA DeleteUpTo ==
    ASSUME DependenciesInv, NEW v \in Version, NEW kind, DeleteArchive(v, kind) \/ DeleteAux(v)
    PROVE  StoreUpTo' /\ DependenciesClosed' /\ SessionUpTo'
<1>1. /\ phase = "idle" /\ UNCHANGED phase
      /\ archives' = archives \/ archives' = [archives EXCEPT ![v] = NoArchive]
      /\ aux' = aux \/ aux' = [aux EXCEPT ![v] = <<>>]
    BY DEF DeleteArchive, DeleteAux
<1>2. DOMAIN archives = Version /\ DOMAIN aux = Version
    BY DEF DependenciesInv, Inv, TypeInv, StoreTyped
<1>3. /\ \A w \in Versions' : w \in Versions /\ archives'[w] = archives[w]
      /\ \A w \in Version : aux'[w] = aux[w] \/ aux'[w] = <<>>
    BY <1>1, <1>2 DEF Versions
<1>4. \A w \in Versions' : RestoreLater(w)' = RestoreLater(w)
    BY <1>3 DEF RestoreLater
<1>5. StoreUpTo'
    BY <1>3 DEF DependenciesInv, StoreUpTo, UpTo
<1>6. DependenciesClosed'
    BY <1>3, <1>4 DEF DependenciesInv, DependenciesClosed
<1> QED BY <1>1, <1>5, <1>6 DEF SessionUpTo

\* The parts of a session the dependencies come from.
dependencyParts == <<phase, session, objects, streams, deps>>

LEMMA SessionUpToStill ==
    ASSUME SessionUpTo, UNCHANGED dependencyParts
    PROVE  SessionUpTo'
BY DEF SessionUpTo, UpTo, dependencies, dependencyParts

\* After a failure the session refers to what it referred to before.
LEMMA FailUpTo ==
    ASSUME DependenciesInv, FailToOpen
    PROVE  SessionUpTo'
<1>1. /\ phase = "storing" /\ phase' = "failed" /\ streams' = {} /\ objects' = objects
      /\ session' = [session EXCEPT !.owners = @ \cup streams]
    BY DEF FailToOpen, Storing
<1>2. DOMAIN session = SessionFields
    BY <1>1 DEF DependenciesInv, Inv, TypeInv, SessionTyped
<1>3. session'.version = session.version /\ session'.old = session.old
    BY <1>1, <1>2 DEF SessionFields
<1>4. UpTo(session'.old, session'.version) /\ UpTo(objects', session'.version)
    BY <1>1, <1>3 DEF DependenciesInv, SessionUpTo, UpTo
<1> QED BY <1>1, <1>4 DEF SessionUpTo

LEMMA DependenciesNext ==
    ASSUME MaxRetries = 0
    PROVE  DependenciesInv /\ [Next]_vars => DependenciesInv'
<1> SUFFICES ASSUME DependenciesInv, [Next]_vars
             PROVE  StoreUpTo' /\ DependenciesClosed' /\ SessionUpTo'
    BY InvNext DEF DependenciesInv
<1>1. CASE UNCHANGED vars
    BY <1>1, StoreStill, SessionUpToStill
       DEF DependenciesInv, vars, storeVars, sessionVars, dependencyParts
<1>2. ASSUME NEW x \in Exclusions, NEW c \in Criteria, NEW u \in Snapshots,
             BeginBackup(x, c, u)
      PROVE  StoreUpTo' /\ DependenciesClosed' /\ SessionUpTo'
    BY <1>2, StoreStill, BeginUpTo DEF DependenciesInv, BeginBackup, storeVars
<1>3. ASSUME NEW s \in Slots, GenerateStream(s)
      PROVE  StoreUpTo' /\ DependenciesClosed' /\ SessionUpTo'
    BY <1>3, StoreStill, GenerateUpTo DEF DependenciesInv, GenerateStream, storeVars
<1>4. ASSUME NEW order \in SortedOrders, ReorderFileStreams(order)
      PROVE  StoreUpTo' /\ DependenciesClosed' /\ SessionUpTo'
    BY <1>4, StoreStill, ReorderUpTo DEF DependenciesInv, ReorderFileStreams, storeVars
<1>5. CASE OpenFile
    BY <1>5, StoreStill, SessionUpToStill
       DEF DependenciesInv, OpenFile, storeVars, dependencyParts
<1>6. CASE StoreFile
    BY <1>6, StoreStill, StoreFileUpTo DEF DependenciesInv, StoreFile, storeVars
<1>7. CASE CommitBackup
    BY <1>7, CommitUpTo
<1>8. CASE FailToOpen
    BY <1>8, StoreStill, FailUpTo DEF DependenciesInv, FailToOpen, storeVars
<1>12. CASE Crash
    BY <1>12, StoreStill DEF DependenciesInv, Crash, storeVars, NoSession, SessionUpTo
<1>13. ASSUME NEW c \in Criteria, RetryBackup(c)
       PROVE  FALSE
    <2>1. phase = "failed" /\ session.retries < 0
        BY <1>13 DEF RetryBackup
    <2>2. session.retries \in Nat
        BY <2>1 DEF DependenciesInv, Inv, TypeInv, SessionTyped
    <2> QED BY <2>1, <2>2
<1>9. ASSUME NEW v \in Version, RestoreBackup(v) \/ AbandonRestore(v)
      PROVE  StoreUpTo' /\ DependenciesClosed' /\ SessionUpTo'
    <2>1. UNCHANGED <<storeVars, phase, sessionVars>>
        BY <1>9, RestoresPutBack DEF PutBack
    <2> QED BY <2>1, StoreStill, SessionUpToStill
            DEF DependenciesInv, storeVars, sessionVars, dependencyParts
<1>10. ASSUME NEW p, NEW q, \/ WriteFile(p, q) \/ CreateFile(p, q) \/ DeletePath(p)
                            \/ MakeHardlink(p, q) \/ MakeSymlink(p, q)
       PROVE  StoreUpTo' /\ DependenciesClosed' /\ SessionUpTo'
    <2>1. \E kind : Edit(kind)
        BY <1>10 DEF WriteFile, CreateFile, DeletePath, MakeHardlink, MakeSymlink
    <2> QED BY <2>1, StoreStill, SessionUpToStill
            DEF DependenciesInv, Edit, storeVars, dependencyParts
<1>11. ASSUME NEW v \in Version, NEW kind, DeleteArchive(v, kind) \/ DeleteAux(v)
       PROVE  StoreUpTo' /\ DependenciesClosed' /\ SessionUpTo'
    BY <1>11, DeleteUpTo
<1> QED BY <1>1, <1>2, <1>3, <1>4, <1>5, <1>6, <1>7, <1>8, <1>9, <1>10, <1>11,
        <1>12, <1>13 DEF Next, SessionStep

\* The manifest of a version names every version a restore of it will read and
\* none that is newer, whatever files were excluded, linked, taken over from
\* older versions or deleted from the backup (get_dependencies,
\* documentation.html:80), when every backup command starts from a fresh scan.
THEOREM DependenciesComplete ==
    ASSUME MaxRetries = 0
    PROVE  Spec => []DependenciesClosed
<1>1. Init => DependenciesInv
    BY DependenciesInit
<1>2. DependenciesInv /\ [Next]_vars => DependenciesInv'
    BY DependenciesNext
<1>3. DependenciesInv => DependenciesClosed
    BY DEF DependenciesInv
<1> QED BY <1>1, <1>2, <1>3, PTL DEF Spec

-----------------------------------------------------------------------------
(***************************************************************************)
(* What a version restores to: README.txt, "Transparency", holds for       *)
(* regular files that are each below one source, that no command excludes  *)
(* one by one, and that a session reads as they stand still.               *)
(*                                                                         *)
(* The argument: what an object says (its version, its stream id and its   *)
(* digest) names one stream of one archive, that stream holds the data the *)
(* digest stands for, and the sizes in front of it are right.  A session   *)
(* hands this on: it stores a stream itself, or takes over all three       *)
(* members from the object of the version before.  Under further           *)
(* conditions, an untouched file is never stored again, and the program    *)
(* implements VersionStore.                                                *)
(***************************************************************************)

\* The conditions; the README lists what goes wrong without them.
QuietUse ==
    /\ \A p \in Paths : \E i \in DOMAIN Sources : p \in Sources[i]
    /\ \A i, j \in DOMAIN Sources : i # j => Sources[i] \cap Sources[j] = {}
    /\ Linkable = {}
    /\ \A x \in Exclusions : x.files = {}
    /\ FALSE \in Snapshots => LiveEdits = {}
    /\ "archive" \notin Deletions
    /\ MaxRetries = 0

\* A digest stands for content d as far as the change criteria can tell.
StandsFor(hash, d) == hash = d \/ ("Size" \in Criteria /\ SizeOf[hash] = SizeOf[d])

File(d) == [what |-> "file", value |-> d]
-----------------------------------------------------------------------------
\* The files.

\* Only regular files, each an inode of its own, none from the future.
PlainFiles(v) ==
    \A p \in Paths :
        /\ v.node[p] \in {NoNode, FileNode(p)}
        /\ v.node[p] = FileNode(p) => v.disk[p].date <= clock

SameDateSameData(v, w) ==
    \A p \in Paths :
        /\ v.node[p] = FileNode(p) /\ w.node[p] = FileNode(p)
        /\ v.disk[p].date = w.disk[p].date
        => v.disk[p].data = w.disk[p].data

\* A file that has the date of its object has the content the digest is of.
DatesTell(f, v) ==
    \A s \in DOMAIN f :
        v.node[s[2]] = FileNode(s[2]) /\ v.disk[s[2]].date = f[s].date
            => StandsFor(f[s].hash, v.disk[s[2]].data)
-----------------------------------------------------------------------------
\* The versions.
SoundObjects(f) ==
    \A s \in DOMAIN f :
        /\ f[s].type = "RegularFile" /\ f[s].latest # -1
        /\ f[s].hash \in Data /\ f[s].size = SizeOf[f[s].hash]
        /\ f[s].date <= clock

DistinctStreams(f) ==
    \A s, t \in DOMAIN f :
        f[s].latest = f[t].latest /\ f[s].stream_id = f[t].stream_id => s = t

\* The stream an object names is there and holds what its digest is of.
Stored(o) ==
    o.latest \in Versions =>
        \E i \in DOMAIN archives[o.latest].parts :
            /\ archives[o.latest].parts[i].id = o.stream_id
            /\ archives[o.latest].parts[i].data = o.hash

Aligned(ps) == \A i \in DOMAIN ps : ps[i].size = SizeOf[ps[i].data]

\* The objects are those of files a session found ...
KeepsPromise(f, found) ==
    \A s \in DOMAIN f :
        s[2] \in DOMAIN found /\ \E d \in Data :
            found[s[2]] = {File(d)} /\ StandsFor(f[s].hash, d)

\* ... and of all of them, unless the session looked on a device that is gone.
CoversPromise(f, found) ==
    \A p \in DOMAIN found : found[p] # {Nothing} => \E s \in DOMAIN f : s[2] = p

SoundVersion(v) ==
    /\ SoundObjects(archives[v].objects)
    /\ DistinctStreams(archives[v].objects)
    /\ \A s \in DOMAIN archives[v].objects : Stored(archives[v].objects[s])
    /\ Aligned(archives[v].parts)
    /\ DatesTell(archives[v].objects, LiveView)
    /\ KeepsPromise(archives[v].objects, promised[v])
    /\ archives[v].unmapped = Live => CoversPromise(archives[v].objects, promised[v])

AuxAgrees ==
    \A v \in Version :
        aux[v] # <<>> => v \in Versions /\ aux[v][1].objects = archives[v].objects

StoreSound ==
    /\ DOMAIN promised = Version
    /\ \A v \in Versions : SoundVersion(v)
    /\ AuxAgrees
-----------------------------------------------------------------------------
\* The session.

\* What the file of a slot holds all through the session.
Held(s) == View.disk[s[2]].data

\* What the session looks at: the files stand still, and the old objects are
\* those of the version before.
SessionReads ==
    /\ session.use_snapshots \in Snapshots /\ session.criterium \in Criteria
    /\ \/ session.old = NoObjects
       \/ /\ session.version - 1 \in Versions
          /\ session.old = archives[session.version - 1].objects
    /\ PlainFiles(View) /\ SameDateSameData(View, LiveView)
    /\ DatesTell(session.old, View)
    /\ DOMAIN window \subseteq Paths
    /\ \A p \in DOMAIN window : window[p] = {Content(View, p)}
    /\ \A s \in DOMAIN objects : s[2] \in DOMAIN window /\ View.node[s[2]] # NoNode
    /\ session.unmapped = Live =>
          \A s \in Slots : s[2] \in DOMAIN window /\ View.node[s[2]] # NoNode
                => s \in DOMAIN objects

\* An object that is not stored again says what the old one says.
TakenOver(s) ==
    /\ s \in DOMAIN session.old
    /\ objects[s].latest = session.old[s].latest
    /\ objects[s].stream_id = session.old[s].stream_id
    /\ objects[s].hash = session.old[s].hash
    /\ StandsFor(objects[s].hash, Held(s))

SessionObjects ==
    /\ known = {s[2] : s \in DOMAIN objects \ todo}
    /\ \A s \in DOMAIN objects :
          /\ objects[s].type = "RegularFile" /\ objects[s].guid = s[2]
          /\ objects[s].size = SizeOf[Held(s)]
          /\ objects[s].date = View.disk[s[2]].date
    /\ \A s \in todo : objects[s].mode = "Full" /\ objects[s].hash = NoHash
    /\ \A s \in DOMAIN objects \ (todo \cup streams) : TakenOver(s)

\* The streams written so far hold the files they are named for.
SessionParts ==
    phase = "storing" =>
        /\ todo = {}
        /\ \A s \in streams : \E i \in DOMAIN queue : queue[i] = s
        /\ \A i \in DOMAIN queue : queue[i] \in streams
        /\ \A i \in DOMAIN parts :
              /\ parts[i].data = Held(queue[i]) /\ parts[i].size = SizeOf[parts[i].data]
              /\ objects[queue[i]].hash = parts[i].data
        /\ opened # -1 => opened = SizeOf[Held(Current)]

SessionSound == Running => SessionReads /\ SessionObjects /\ SessionParts

QuietInv == DependenciesInv /\ PlainFiles(LiveView) /\ StoreSound /\ SessionSound
-----------------------------------------------------------------------------
\* Slots and files.
LEMMA SlotOfPath ==
    ASSUME QuietUse, NEW s \in Slots, NEW t \in Slots, s[2] = t[2]
    PROVE  s = t
<1>1. /\ s[1] \in DOMAIN Sources /\ t[1] \in DOMAIN Sources
      /\ s = <<s[1], s[2]>> /\ t = <<t[1], t[2]>>
      /\ s[2] \in Sources[s[1]] /\ t[2] \in Sources[t[1]]
    BY PathsAssumption DEF Slots
<1>2. s[1] = t[1]
    BY <1>1 DEF QuietUse
<1> QED BY <1>1, <1>2

LEMMA NodeKinds ==
    ASSUME NEW p \in Paths
    PROVE  /\ NoNode # FileNode(p) /\ NoNode.type = "none"
           /\ FileNode(p).type = "file" /\ FileNode(p).ref = p
BY DEF NoNode, FileNode

\* What the program reads of a plain file.
LEMMA PlainFile ==
    ASSUME NEW v, PlainFiles(v), NEW p \in Paths, v.node[p] = FileNode(p)
    PROVE  /\ Resolve(v, p) = p /\ p # 0
           /\ TypeOf(v, p) = "RegularFile"
           /\ FileSize(v, p) = SizeOf[v.disk[p].data]
           /\ ModificationTime(v, p) = v.disk[p].date
           /\ FileGuid(v, p) = p
           /\ Content(v, p) = File(v.disk[p].data)
<1>1. v.node[p].type = "file" /\ v.node[p].ref = p
    BY NodeKinds
<1>2. p # 0
    BY PathsAssumption
<1>3. Resolve(v, p) = p
    BY <1>1 DEF Resolve
<1>4. \A q \in Paths \ {p} : v.node[q] # v.node[p]
    <2> SUFFICES ASSUME NEW q \in Paths \ {p}, v.node[q] = v.node[p]
                 PROVE  FALSE
        OBVIOUS
    <2>1. FileNode(p) \in {NoNode, FileNode(q)}
        BY DEF PlainFiles
    <2> QED BY <2>1, NodeKinds
<1>5. TypeOf(v, p) = "RegularFile"
    BY <1>1, <1>4 DEF TypeOf
<1>6. FileSize(v, p) = SizeOf[v.disk[p].data]
    BY <1>1 DEF FileSize
<1>7. ModificationTime(v, p) = v.disk[p].date /\ FileGuid(v, p) = p
    BY <1>2, <1>3 DEF ModificationTime, FileGuid
<1>8. Content(v, p) = File(v.disk[p].data)
    BY <1>1 DEF Content, File
<1> QED BY <1>2, <1>3, <1>5, <1>6, <1>7, <1>8

LEMMA AbsentFile ==
    ASSUME NEW v, NEW p \in Paths, v.node[p] = NoNode
    PROVE  Content(v, p) = Nothing
BY NodeKinds DEF Content, Nothing

LEMMA FileIsSomething ==
    ASSUME NEW d
    PROVE  File(d) # Nothing /\ File(d).what = "file" /\ File(d).value = d
BY DEF File, Nothing

LEMMA SameSize ==
    ASSUME NEW hash, NEW d, StandsFor(hash, d)
    PROVE  SizeOf[hash] = SizeOf[d]
BY DEF StandsFor
-----------------------------------------------------------------------------
\* What a sound version restores to.

\* The objects of a version, and the archives they refer to.
LEMMA VersionObjects ==
    ASSUME QuietInv, NEW v \in Versions
    PROVE  /\ DOMAIN archives[v].objects \subseteq Slots
           /\ \A s \in DOMAIN archives[v].objects :
                /\ archives[v].objects[s].path = s[2] /\ s[2] \in Paths
                /\ archives[v].objects[s].latest \in Version
                /\ archives[v].objects[s].type = "RegularFile"
                /\ archives[v].objects[s].stream_id \in Nat
           /\ RestoreLater(v) = DOMAIN archives[v].objects
<1> DEFINE objs == archives[v].objects
<1>1. objs \in ObjectMaps(FsoType)
    BY ArchiveFields DEF QuietInv, DependenciesInv, Inv, TypeInv, Archive
<1>2. DOMAIN objs \subseteq Slots /\ objs \in [DOMAIN objs -> FsoType] /\ OwnPaths(objs)
    BY <1>1, ObjectMapsElim
<1>3. SoundObjects(objs)
    BY DEF QuietInv, StoreSound, SoundVersion
<1>4. ASSUME NEW s \in DOMAIN objs
      PROVE  /\ objs[s].path = s[2] /\ s[2] \in Paths /\ objs[s].latest \in Version
             /\ objs[s].type = "RegularFile" /\ objs[s].latest >= 0
             /\ objs[s].stream_id \in Nat
    <2>1. objs[s] \in FsoType /\ s \in Slots /\ objs[s].path = s[2]
        BY <1>2 DEF OwnPaths
    <2>2. objs[s].latest \in Version \cup {-1} /\ objs[s].stream_id \in Nat
        BY <2>1 DEF FsoType
    <2>3. s[2] \in Paths
        BY <2>1 DEF Slots
    <2> QED BY <1>3, <2>1, <2>2, <2>3, BoundsAssumption DEF SoundObjects, Version
<1> HIDE DEF objs
<1>5. RestoreLater(v) = {s \in DOMAIN objs : objs[s].type # "FileSymlink" /\ objs[s].latest >= 0}
    BY DEF RestoreLater, objs
<1>6. RestoreLater(v) = DOMAIN objs
    BY <1>4, <1>5
<1> QED BY <1>2, <1>4, <1>6 DEF objs

\* Stream ids tell the parts of an archive apart, and follow their order.
LEMMA PartsInOrder ==
    ASSUME QuietInv, NEW w \in Versions
    PROVE  LET ps == archives[w].parts IN
           /\ ps \in Seq(Part)
           /\ \A i, j \in DOMAIN ps : ps[i].id = ps[j].id => i = j
           /\ \A i, j \in DOMAIN ps : ps[i].id < ps[j].id => i < j
<1> DEFINE ps == archives[w].parts
<1>1. ps \in Seq(Part)
    BY ArchiveFields DEF QuietInv, DependenciesInv, Inv, TypeInv, Archive
<1>2. \A i, j \in DOMAIN ps : i < j => ps[i].id < ps[j].id
    BY DEF QuietInv, DependenciesInv, Inv, StreamIdsGrow
<1> HIDE DEF ps
<1>3. \A i \in DOMAIN ps : i \in Nat /\ ps[i].id \in Nat
    <2>1. \A i \in DOMAIN ps : i \in Nat /\ ps[i] \in Part
        BY <1>1
    <2> QED BY <2>1 DEF Part
<1>4. \A i, j \in DOMAIN ps : i < j \/ i = j \/ j < i
    BY <1>3
<1>5. \A i, j \in DOMAIN ps : ps[i].id = ps[j].id => i = j
    BY <1>2, <1>3, <1>4
<1>6. \A i, j \in DOMAIN ps : ps[i].id < ps[j].id => i < j
    BY <1>2, <1>3, <1>4
<1> QED BY <1>1, <1>5, <1>6 DEF ps

\* restore_thread on one archive brings back every file that refers to it.
LEMMA RestoreFromSound ==
    ASSUME QuietInv, NEW v \in Versions, NEW w \in Versions
    PROVE  /\ Complete(v, w)
           /\ \A s \in LaterFrom(v, w) : \E i \in RestoredParts(v, w) :
                RestoredFile(v, w, i) = <<s[2], archives[v].objects[s].hash>>
           /\ \A i \in RestoredParts(v, w) :
                /\ archives[w].parts[i].size = 0 => RestoredFile(v, w, i)[2] = EmptyData
                /\ \E s \in LaterFrom(v, w) :
                      RestoredFile(v, w, i) = <<s[2], archives[v].objects[s].hash>>
<1> DEFINE objs == archives[v].objects
           stored == archives[w].parts
           later == LaterFrom(v, w)
           ids == {objs[s].stream_id : s \in later}
           Before(k, i) == {j \in 1 .. i - 1 : stored[j].id = k}
           InTurn(i) ==
              \A k \in ids : k < stored[i].id =>
                  \E j \in Before(k, i) : \A l \in ids : l < k => Before(l, j) # {}
           restored == {i \in DOMAIN stored :
                          stored[i].id \in ids /\ Before(stored[i].id, i) = {} /\ InTurn(i)}
           First(id) == CHOOSE s \in later :
              /\ objs[s].stream_id = id
              /\ \A t \in later \ {s} : objs[t].stream_id = id => Precedes(s, t)
           Pair(i) == <<objs[First(stored[i].id)].path, ReadPart(archives[w], i)>>
<1>1. /\ Complete(v, w) = \A s \in later : \E i \in RestoredParts(v, w) :
                              stored[i].id = objs[s].stream_id
      /\ RestoredParts(v, w) = restored
      /\ \A i : RestoredFile(v, w, i) = Pair(i)
    BY DEF Complete, RestoredParts, RestoredFile
<1>2. \A s \in later : s \in DOMAIN objs /\ objs[s].path = s[2] /\ objs[s].latest = w
    BY VersionObjects DEF LaterFrom
<1>3. ASSUME NEW s \in later
      PROVE  \E i \in DOMAIN stored : stored[i].id = objs[s].stream_id /\ stored[i].data = objs[s].hash
    <2>1. Stored(objs[s]) /\ objs[s].latest = w
        BY <1>2 DEF QuietInv, StoreSound, SoundVersion
    <2> QED BY <2>1 DEF Stored
<1>4. /\ stored \in Seq(Part)
      /\ \A i, j \in DOMAIN stored : stored[i].id = stored[j].id => i = j
      /\ \A i, j \in DOMAIN stored : stored[i].id < stored[j].id => i < j
    BY PartsInOrder
<1>5. \A s, t \in later : objs[s].stream_id = objs[t].stream_id => s = t
    BY <1>2 DEF QuietInv, StoreSound, SoundVersion, DistinctStreams
<1>6. \A i \in DOMAIN stored : ReadPart(archives[w], i) = stored[i].data
    <2>1. Aligned(stored)
        BY DEF QuietInv, StoreSound, SoundVersion
    <2>2. \A i \in DOMAIN stored : \A j \in 1 .. i : j \in DOMAIN stored
        BY <1>4
    <2> QED BY <2>1, <2>2 DEF Aligned, ReadPart
<1>19. \A i \in DOMAIN stored : stored[i].size = 0 => stored[i].data = EmptyData
    <2>1. Aligned(stored)
        BY DEF QuietInv, StoreSound, SoundVersion
    <2> HIDE DEF stored
    <2>3. \A i \in DOMAIN stored : stored[i] \in Part
        BY <1>4
    <2>2. \A i \in DOMAIN stored : stored[i].data \in Data
        BY <2>3 DEF Part
    <2> QED BY <2>1, <2>2, DataAssumption DEF Aligned
<1> HIDE DEF objs, stored, later, Pair
<1>7. \A i \in DOMAIN stored : i \in Nat /\ \A j \in 1 .. i - 1 : j \in DOMAIN stored /\ j < i
    BY <1>4
<1>8. \A i \in DOMAIN stored : Before(stored[i].id, i) = {}
    BY <1>4, <1>7
<1>9. \A k \in ids : \E j \in DOMAIN stored : stored[j].id = k
    BY <1>3
<1>10. ASSUME NEW i, NEW j \in DOMAIN stored, i \in DOMAIN stored, j < i
       PROVE  j \in Before(stored[j].id, i)
    BY <1>4, <1>10
<1> HIDE DEF Before, ids
<1>11. \A i \in DOMAIN stored : InTurn(i)
    <2> SUFFICES ASSUME NEW i \in DOMAIN stored, NEW k \in ids, k < stored[i].id
                 PROVE  \E j \in Before(k, i) : \A l \in ids : l < k => Before(l, j) # {}
        OBVIOUS
    <2>1. PICK j \in DOMAIN stored : stored[j].id = k
        BY <1>9
    <2>2. j \in Before(k, i)
        BY <1>4, <1>10, <2>1
    <2>3. ASSUME NEW l \in ids, l < k
          PROVE  Before(l, j) # {}
        <3>1. PICK m \in DOMAIN stored : stored[m].id = l
            BY <1>9
        <3>2. m < j
            BY <1>4, <2>1, <2>3, <3>1
        <3> QED BY <1>10, <3>1, <3>2
    <2> QED BY <2>2, <2>3
<1> HIDE DEF InTurn
<1>12. restored = {i \in DOMAIN stored : stored[i].id \in ids}
    BY <1>8, <1>11
<1> HIDE DEF restored
<1>14. ASSUME NEW s \in later
       PROVE  First(objs[s].stream_id) = s
    BY <1>5
<1> HIDE DEF First
<1>15. ASSUME NEW i \in restored
       PROVE  \E s \in later : /\ stored[i].id = objs[s].stream_id
                               /\ stored[i].data = objs[s].hash
    <2>1. PICK s \in later : stored[i].id = objs[s].stream_id
        BY <1>12 DEF ids
    <2>2. PICK j \in DOMAIN stored : stored[j].id = objs[s].stream_id /\ stored[j].data = objs[s].hash
        BY <1>3
    <2> QED BY <1>4, <1>12, <2>1, <2>2
<1>16. ASSUME NEW s \in later
       PROVE  \E i \in restored : /\ stored[i].id = objs[s].stream_id
                                  /\ stored[i].data = objs[s].hash
    BY <1>3, <1>12 DEF ids
<1>17. \A i \in restored : i \in DOMAIN stored
    BY <1>12
<1>18. ASSUME NEW i \in restored, NEW s \in later,
              stored[i].id = objs[s].stream_id, stored[i].data = objs[s].hash
       PROVE  Pair(i) = <<s[2], objs[s].hash>>
    <2>1. First(stored[i].id) = s
        BY <1>14, <1>18
    <2>2. ReadPart(archives[w], i) = stored[i].data
        BY <1>6, <1>17
    <2> QED BY <1>2, <1>18, <2>1, <2>2 DEF Pair
<1>20. \A s \in later : \E i \in restored : Pair(i) = <<s[2], objs[s].hash>>
    BY <1>16, <1>18
<1>21. \A i \in restored : \E s \in later : Pair(i) = <<s[2], objs[s].hash>>
    BY <1>15, <1>18
<1>22. \A i \in restored : stored[i].size = 0 => Pair(i)[2] = EmptyData
    BY <1>6, <1>17, <1>19 DEF Pair
<1>23. \A s \in later : \E i \in restored : stored[i].id = objs[s].stream_id
    BY <1>16
<1>24. Complete(v, w)
    BY <1>1, <1>23
<1>25. \A s \in later : \E i \in RestoredParts(v, w) :
            RestoredFile(v, w, i) = <<s[2], objs[s].hash>>
    BY <1>1, <1>20
<1>26. \A i \in RestoredParts(v, w) :
            /\ stored[i].size = 0 => RestoredFile(v, w, i)[2] = EmptyData
            /\ \E s \in later : RestoredFile(v, w, i) = <<s[2], objs[s].hash>>
    BY <1>1, <1>21, <1>22
<1> QED BY <1>24, <1>25, <1>26 DEF objs, later, stored

\* Every archive a restore of a version reads is there.
LEMMA UsedArchivesThere ==
    ASSUME QuietInv, NEW v \in Versions, Restorable(v)
    PROVE  UsedArchives(v) \subseteq Versions
BY DEF QuietInv, DependenciesInv, DependenciesClosed, Restorable, UsedArchives

\* The files a restore brings back are those of the objects.
LEMMA FilesOfObjects ==
    ASSUME QuietInv, NEW v \in Versions, Restorable(v)
    PROVE  /\ ReadArchives(v) = UsedArchives(v)
           /\ \A s \in DOMAIN archives[v].objects :
                <<s[2], archives[v].objects[s].hash>> \in RestoredFiles(v)
           /\ \A f \in RestoredFiles(v) : \E s \in DOMAIN archives[v].objects :
                f = <<s[2], archives[v].objects[s].hash>>
<1> DEFINE objs == archives[v].objects
<1>1. UsedArchives(v) \subseteq Versions
    BY UsedArchivesThere
<1>2. \A w \in UsedArchives(v) :
         /\ Complete(v, w)
         /\ \A s \in LaterFrom(v, w) : \E i \in RestoredParts(v, w) :
                RestoredFile(v, w, i) = <<s[2], objs[s].hash>>
         /\ \A i \in RestoredParts(v, w) : \E s \in LaterFrom(v, w) :
                RestoredFile(v, w, i) = <<s[2], objs[s].hash>>
    BY <1>1, RestoreFromSound
<1>3. RestoreLater(v) = DOMAIN objs
    BY VersionObjects
<1>4. \A s \in DOMAIN objs : /\ objs[s].latest \in UsedArchives(v)
                             /\ s \in LaterFrom(v, objs[s].latest)
    BY <1>3 DEF UsedArchives, LaterFrom
<1>5. \A w : LaterFrom(v, w) \subseteq DOMAIN objs
    BY <1>3 DEF LaterFrom
<1> HIDE DEF objs
<1>6. ReadArchives(v) = UsedArchives(v)
    BY <1>2 DEF ReadArchives
<1>7. \A s \in DOMAIN objs : <<s[2], objs[s].hash>> \in RestoredFiles(v)
    BY <1>2, <1>4, <1>6 DEF RestoredFiles
<1>8. \A f \in RestoredFiles(v) : \E s \in DOMAIN objs : f = <<s[2], objs[s].hash>>
    BY <1>2, <1>5, <1>6 DEF RestoredFiles
<1> QED BY <1>6, <1>7, <1>8 DEF objs

\* A version whose archives are there is restored as its objects say.
LEMMA RestoredContent ==
    ASSUME QuietUse, QuietInv, NEW v \in Versions,
           Restorable(v), archives[v].unmapped = Live
    PROVE  LET objs == archives[v].objects IN
           /\ RestoreOutcome(v).status # "assertion"
           /\ \A s \in DOMAIN objs : RestoreOutcome(v).content[s[2]] = File(objs[s].hash)
           /\ \A p \in Paths : (\A s \in DOMAIN objs : s[2] # p) =>
                RestoreOutcome(v).content[p] = Nothing
<1> DEFINE objs == archives[v].objects
           used == UsedArchives(v)
           files == RestoredFiles(v)
           links == {s \in DOMAIN objs : objs[s].type = "FileSymlink"}
           content == [p \in Paths |->
                IF \E s \in links : s[2] = p
                THEN [what |-> "link",
                      value |-> objs[CHOOSE s \in links : s[2] = p].link_target]
                ELSE IF \E f \in files : f[1] = p
                THEN [what |-> "file", value |-> (CHOOSE f \in files : f[1] = p)[2]]
                ELSE Nothing]
<1>1. archives[v].deps \subseteq Versions
    BY DEF Restorable
<1>2. /\ RestoreOutcome(v).status = "assertion" => \E w \in used : ~Complete(v, w)
      /\ RestoreOutcome(v).content = content
    BY <1>1 DEF RestoreOutcome, BroughtBack
<1>3. /\ RestoreLater(v) = DOMAIN objs /\ DOMAIN objs \subseteq Slots
      /\ \A s \in DOMAIN objs : s[2] \in Paths /\ objs[s].type = "RegularFile"
    BY VersionObjects
<1>4. used \subseteq Versions
    BY UsedArchivesThere
<1>5. \A w \in used : Complete(v, w)
    BY <1>4, RestoreFromSound
<1>6. links = {}
    BY <1>3
<1>8. /\ \A s \in DOMAIN objs : <<s[2], objs[s].hash>> \in files
      /\ \A f \in files : \E s \in DOMAIN objs : f = <<s[2], objs[s].hash>>
    BY FilesOfObjects
<1> HIDE DEF objs, files, links, used
<1>9. ASSUME NEW s \in DOMAIN objs
      PROVE  content[s[2]] = File(objs[s].hash)
    <2>1. \A f \in files : f[1] = s[2] => f = <<s[2], objs[s].hash>>
        <3> SUFFICES ASSUME NEW t \in DOMAIN objs, t[2] = s[2]
                     PROVE  t = s
            BY <1>8
        <3> QED BY <1>3, SlotOfPath
    <2>2. <<s[2], objs[s].hash>> \in files
        BY <1>8
    <2>3. (CHOOSE f \in files : f[1] = s[2]) = <<s[2], objs[s].hash>>
        BY <2>1, <2>2
    <2> QED BY <1>3, <1>6, <2>2, <2>3 DEF File
<1>10. ASSUME NEW p \in Paths, \A s \in DOMAIN objs : s[2] # p
       PROVE  content[p] = Nothing
    BY <1>6, <1>8, <1>10
<1> HIDE DEF content
<1> QED BY <1>2, <1>5, <1>9, <1>10 DEF objs

LEMMA SoundVersionsRestore ==
    ASSUME QuietUse, QuietInv
    PROVE  RestoreIntegrity
<1> SUFFICES ASSUME NEW v \in Versions, Restorable(v), archives[v].unmapped = Live
             PROVE  LET outcome == RestoreOutcome(v)
                    IN  /\ outcome.status # "assertion"
                        /\ \A p \in DOMAIN promised[v] :
                              Nothing \notin promised[v][p] =>
                                \E c \in promised[v][p] : Indistinguishable(outcome.content[p], c)
                        /\ \A p \in Paths :
                              (p \in DOMAIN promised[v] => promised[v][p] = {Nothing}) =>
                                outcome.content[p] = Nothing
    BY DEF RestoreIntegrity
<1> DEFINE objs == archives[v].objects
           content == RestoreOutcome(v).content
<1>1. /\ RestoreOutcome(v).status # "assertion"
      /\ \A s \in DOMAIN objs : content[s[2]] = File(objs[s].hash)
      /\ \A p \in Paths : (\A s \in DOMAIN objs : s[2] # p) => content[p] = Nothing
    BY RestoredContent
<1>2. /\ KeepsPromise(objs, promised[v]) /\ CoversPromise(objs, promised[v])
      /\ SoundObjects(objs)
    BY DEF QuietInv, StoreSound, SoundVersion
<1> HIDE DEF objs, content
<1>3. ASSUME NEW p \in DOMAIN promised[v], Nothing \notin promised[v][p]
      PROVE  \E c \in promised[v][p] : Indistinguishable(content[p], c)
    <2>1. PICK s \in DOMAIN objs : s[2] = p
        BY <1>2, <1>3 DEF CoversPromise
    <2>2. PICK d \in Data : promised[v][p] = {File(d)} /\ StandsFor(objs[s].hash, d)
        BY <1>2, <2>1 DEF KeepsPromise
    <2>3. objs[s].hash \in Data
        BY <1>2 DEF SoundObjects
    <2>4. Indistinguishable(File(objs[s].hash), File(d))
        BY <2>2, <2>3, FileIsSomething DEF Indistinguishable, StandsFor
    <2> QED BY <1>1, <2>1, <2>2, <2>4
<1>4. ASSUME NEW p \in Paths, p \in DOMAIN promised[v] => promised[v][p] = {Nothing}
      PROVE  content[p] = Nothing
    <2>1. \A s \in DOMAIN objs : s[2] # p
        BY <1>2, <1>4, FileIsSomething DEF KeepsPromise
    <2> QED BY <1>1, <2>1
<1> QED BY <1>1, <1>3, <1>4 DEF content
-----------------------------------------------------------------------------
\* The start.
LEMMA QuietInit ==
    ASSUME QuietUse
    PROVE  Init => QuietInv
<1> SUFFICES ASSUME Init PROVE QuietInv
    OBVIOUS
<1>1. Versions = {} /\ phase = "idle"
    BY DEF Init, Versions
<1>2. PlainFiles(LiveView)
    BY DEF Init, PlainFiles, LiveView
<1>3. StoreSound
    BY <1>1 DEF Init, StoreSound, AuxAgrees
<1>4. SessionSound
    BY <1>1 DEF SessionSound, Running
<1> QED BY <1>2, <1>3, <1>4, DependenciesInit DEF QuietInv
-----------------------------------------------------------------------------
\* The files move on: a path loses its file, keeps it as it is, or has a file
\* with a date no file had before.
FilesMove ==
    /\ clock <= clock'
    /\ \A p \in Paths :
          \/ node'[p] = NoNode
          \/ node'[p] = node[p] /\ disk'[p] = disk[p]
          \/ node'[p] = FileNode(p) /\ disk'[p].date = clock + 1 /\ clock' = clock + 1

\* What the user or a restore may change while a session may be running.
FilesOnly ==
    /\ Running => UseSnapshots
    /\ UNCHANGED <<archives, aux, promised, phase, session, objects, todo, known,
                   streams, queue, opened, parts, window>>

LEMMA EditsMove ==
    ASSUME QuietUse, QuietInv, NEW p \in Paths, NEW d,
           WriteFile(p, d) \/ CreateFile(p, d) \/ DeletePath(p)
    PROVE  FilesMove /\ FilesOnly
<1>1. PICK kind : Edit(kind)
    BY DEF WriteFile, CreateFile, DeletePath
<1>2. clock \in Nat /\ clock' = clock + 1
    BY <1>1, BoundsAssumption DEF Edit, QuietInv, DependenciesInv, Inv, TypeInv, FilesTyped
<1>3. FilesOnly
    <2>1. Running => UseSnapshots
        <3> SUFFICES ASSUME Running, ~UseSnapshots PROVE FALSE
            OBVIOUS
        <3>1. kind \in LiveEdits
            BY <1>1 DEF Edit
        <3>2. session.use_snapshots \in Snapshots
            BY DEF QuietInv, SessionSound, SessionReads
        <3>3. session.use_snapshots = FALSE
            BY <3>2, CommandsAssumption DEF UseSnapshots
        <3> QED BY <3>1, <3>2, <3>3 DEF QuietUse
    <2> QED BY <1>1, <2>1 DEF Edit, storeVars, FilesOnly
<1>4. /\ DOMAIN node = Paths /\ DOMAIN disk = Paths
      /\ \A q \in Paths : node[q] \in {NoNode, FileNode(q)}
    BY DEF QuietInv, DependenciesInv, Inv, TypeInv, FilesTyped, Disk, PlainFiles, LiveView
<1>5. ASSUME NEW q \in Paths
      PROVE  \/ node'[q] = NoNode
             \/ node'[q] = node[q] /\ disk'[q] = disk[q]
             \/ node'[q] = FileNode(q) /\ disk'[q].date = clock + 1
    <2>1. CASE WriteFile(p, d)
        <3>1. node[p] = FileNode(p) /\ node[p].ref = p
            BY <1>4, <2>1, NodeKinds DEF WriteFile
        <3> QED BY <1>4, <2>1, <3>1 DEF WriteFile
    <2>2. CASE CreateFile(p, d)
        BY <1>4, <2>2 DEF CreateFile
    <2>3. CASE DeletePath(p)
        <3>1. CASE q = p
            BY <1>4, <2>3, <3>1 DEF DeletePath
        <3>2. CASE q # p /\ node[q] = FileNode(q)
            BY <1>4, <2>3, <3>2 DEF DeletePath
        <3>3. CASE q # p /\ node[q] = NoNode
            BY <1>4, <2>3, <3>3 DEF DeletePath
        <3> QED BY <1>4, <3>1, <3>2, <3>3
    <2> QED BY <2>1, <2>2, <2>3
<1> QED BY <1>2, <1>3, <1>5 DEF FilesMove

LEMMA RestoreMoves ==
    ASSUME QuietInv, NEW v \in Version, RestoreBackup(v) \/ AbandonRestore(v)
    PROVE  FilesMove /\ FilesOnly
<1>1. phase = "idle" /\ v \in Versions /\ \E files : PutBack(BroughtBack(v, files))
    BY RestoresPutBack
<1> PICK files : PutBack(BroughtBack(v, files))
    BY <1>1
<1> DEFINE content == BroughtBack(v, files)
           objs == archives[v].objects
<1>2. clock \in Nat
    BY BoundsAssumption DEF QuietInv, DependenciesInv, Inv, TypeInv, FilesTyped
<1>3. /\ clock' = clock + 1
      /\ node' = [p \in Paths |->
                CASE content[p].what = "nothing" -> NoNode
                  [] content[p].what = "link" -> LinkNode(content[p].value)
                  [] OTHER -> FileNode(p)]
      /\ disk' = [p \in Paths |->
                IF content[p].what = "file"
                THEN [data |-> content[p].value, date |-> clock + 1]
                ELSE [data |-> EmptyData, date |-> 0]]
      /\ UNCHANGED <<storeVars, phase, sessionVars>>
    BY DEF PutBack
<1>4. ASSUME NEW p \in Paths
      PROVE  content[p].what \in {"nothing", "file"}
    <2>1. \A s \in DOMAIN objs : objs[s].type # "FileSymlink"
        BY <1>1, VersionObjects
    <2> HIDE DEF objs
    <2>2. \/ content[p] = Nothing
          \/ \E value : content[p] = [what |-> "file", value |-> value]
        BY <2>1 DEF BroughtBack, objs
    <2>3. Nothing.what = "nothing"
        BY DEF Nothing
    <2> HIDE DEF content
    <2>4. CASE content[p] = Nothing
        BY <2>3, <2>4
    <2>5. CASE \E value : content[p] = [what |-> "file", value |-> value]
        BY <2>5
    <2> QED BY <2>2, <2>4, <2>5
<1> HIDE DEF content
<1>5. \A p \in Paths : \/ node'[p] = NoNode
                       \/ node'[p] = FileNode(p) /\ disk'[p].date = clock + 1
    BY <1>3, <1>4
<1>6. FilesOnly
    BY <1>1, <1>3 DEF FilesOnly, Running, storeVars, sessionVars
<1> QED BY <1>2, <1>3, <1>5, <1>6 DEF FilesMove

LEMMA MovedFiles ==
    ASSUME QuietInv, FilesMove, Inv'
    PROVE  /\ PlainFiles(LiveView)'
           /\ \A f : (\A s \in DOMAIN f : s[2] \in Paths /\ f[s].date \in Nat /\ f[s].date <= clock)
                        /\ DatesTell(f, LiveView) => DatesTell(f, LiveView')
<1>1. clock \in Nat /\ clock' \in Nat
    BY BoundsAssumption DEF QuietInv, DependenciesInv, Inv, TypeInv, FilesTyped
<1>2. /\ \A p \in Paths : disk[p].date \in Nat /\ disk'[p].date \in Nat
      /\ \A p \in Paths : /\ node[p] \in {NoNode, FileNode(p)}
                          /\ node[p] = FileNode(p) => disk[p].date <= clock
    <2>1. \A p \in Paths : disk[p].date \in 0 .. MaxClock /\ disk'[p].date \in 0 .. MaxClock
        BY DEF QuietInv, DependenciesInv, Inv, TypeInv, FilesTyped, Disk
    <2> QED BY <2>1, BoundsAssumption DEF QuietInv, PlainFiles, LiveView
<1>3. PlainFiles(LiveView)'
    <2>1. \A p \in Paths : /\ node'[p] \in {NoNode, FileNode(p)}
                           /\ node'[p] = FileNode(p) => disk'[p].date <= clock'
        BY <1>1, <1>2, NodeKinds DEF FilesMove
    <2> QED BY <2>1 DEF PlainFiles, LiveView
<1>4. ASSUME NEW f, DatesTell(f, LiveView),
             \A s \in DOMAIN f : s[2] \in Paths /\ f[s].date \in Nat /\ f[s].date <= clock
      PROVE  DatesTell(f, LiveView')
    <2> SUFFICES ASSUME NEW s \in DOMAIN f, node'[s[2]] = FileNode(s[2]),
                        disk'[s[2]].date = f[s].date
                 PROVE  StandsFor(f[s].hash, disk'[s[2]].data)
        BY DEF DatesTell, LiveView
    <2>1. node'[s[2]] = node[s[2]] /\ disk'[s[2]] = disk[s[2]]
        BY <1>1, <1>4, NodeKinds DEF FilesMove
    <2> QED BY <1>4, <2>1 DEF DatesTell, LiveView
<1> QED BY <1>3, <1>4

\* Dates of objects and of a view lie in the past.
LEMMA ObjectDates ==
    ASSUME QuietInv, NEW v \in Versions
    PROVE  \A s \in DOMAIN archives[v].objects :
                /\ archives[v].objects[s].date \in Nat
                /\ archives[v].objects[s].date <= clock
<1> DEFINE objs == archives[v].objects
<1>1. objs \in [DOMAIN objs -> FsoType] /\ SoundObjects(objs)
    BY ArchiveFields, ObjectMapsElim
       DEF QuietInv, DependenciesInv, Inv, TypeInv, Archive, StoreSound, SoundVersion
<1>2. \A s \in DOMAIN objs : objs[s].date \in 0 .. MaxClock
    BY <1>1 DEF FsoType
<1> QED BY <1>1, <1>2, BoundsAssumption DEF SoundObjects

\* Versions that stay are sound as long as the archives they refer to stay or
\* go for good.
LEMMA VersionsKept ==
    ASSUME QuietInv, Inv', FilesMove, NEW v \in Versions,
           \A w \in Versions' : w \in Versions => archives'[w] = archives[w],
           archives'[v] = archives[v], promised'[v] = promised[v],
           \A s \in DOMAIN archives[v].objects :
                archives[v].objects[s].latest \in Versions' => archives[v].objects[s].latest \in Versions
    PROVE  SoundVersion(v)'
<1> DEFINE objs == archives[v].objects
<1>1. SoundVersion(v)
    BY DEF QuietInv, StoreSound
<1>2. clock \in Nat /\ clock' \in Nat /\ clock <= clock'
    BY BoundsAssumption DEF QuietInv, DependenciesInv, Inv, TypeInv, FilesTyped, FilesMove
<1>3. archives'[v].objects = objs /\ archives'[v].parts = archives[v].parts
    OBVIOUS
<1>4. SoundObjects(objs)'
    BY <1>1, <1>2, <1>3, ObjectDates DEF SoundVersion, SoundObjects
<1>5. DistinctStreams(objs)' /\ Aligned(archives[v].parts)' /\ KeepsPromise(objs, promised[v])'
    BY <1>1, <1>3 DEF SoundVersion, DistinctStreams, Aligned, KeepsPromise
<1>8. archives'[v].unmapped = Live => CoversPromise(objs, promised[v])'
    BY <1>1, <1>3 DEF SoundVersion, CoversPromise
<1>6. ASSUME NEW s \in DOMAIN objs
      PROVE  Stored(objs[s])'
    <2> DEFINE o == objs[s]
    <2>1. o' = o
        BY <1>3
    <2>2. Stored(o)
        BY <1>1 DEF SoundVersion
    <2>3. o.latest \in Versions' =>
             o.latest \in Versions /\ archives'[o.latest] = archives[o.latest]
        OBVIOUS
    <2> HIDE DEF o
    <2>4. Stored(o)'
        BY <2>1, <2>2, <2>3 DEF Stored
    <2> QED BY <2>4 DEF o
<1>7. DatesTell(objs, LiveView')
    BY <1>1, ObjectDates, VersionObjects, MovedFiles DEF SoundVersion
<1> HIDE DEF objs
<1> QED BY <1>3, <1>4, <1>5, <1>6, <1>7, <1>8 DEF SoundVersion, objs

LEMMA StoreSoundKept ==
    ASSUME QuietInv, Inv', FilesMove, UNCHANGED <<archives, aux, promised>>
    PROVE  StoreSound'
<1>1. Versions' = Versions
    BY DEF Versions
<1>2. \A v \in Versions' : SoundVersion(v)'
    BY <1>1, VersionsKept
<1>3. AuxAgrees'
    BY <1>1 DEF QuietInv, StoreSound, AuxAgrees
<1> QED BY <1>2, <1>3 DEF QuietInv, StoreSound

LEMMA DeleteSound ==
    ASSUME QuietUse, QuietInv, Inv', NEW v \in Version, NEW kind \in {"archive", "version"},
           DeleteArchive(v, kind) \/ DeleteAux(v)
    PROVE  StoreSound'
<1>1. /\ UNCHANGED fsVars
      /\ \/ /\ kind = "version"
            /\ archives' = [archives EXCEPT ![v] = NoArchive]
            /\ aux' = [aux EXCEPT ![v] = <<>>]
            /\ promised' = [promised EXCEPT ![v] = NoObjects]
         \/ /\ UNCHANGED <<archives, promised>>
            /\ aux' = [aux EXCEPT ![v] = <<>>]
    <2>1. CASE DeleteArchive(v, kind)
        <3>1. kind = "version"
            BY <2>1 DEF DeleteArchive, QuietUse
        <3> QED BY <2>1, <3>1 DEF DeleteArchive
    <2>2. CASE DeleteAux(v)
        BY <2>2 DEF DeleteAux
    <2> QED BY <2>1, <2>2
<1>2. DOMAIN archives = Version /\ DOMAIN aux = Version /\ DOMAIN promised = Version
    BY DEF QuietInv, DependenciesInv, Inv, TypeInv, StoreTyped, StoreSound
<1>3. FilesMove
    <2>1. clock \in Nat
        BY BoundsAssumption DEF QuietInv, DependenciesInv, Inv, TypeInv, FilesTyped
    <2> QED BY <1>1, <2>1 DEF fsVars, FilesMove
<1>4. /\ DOMAIN promised' = Version /\ Versions' \subseteq Versions
      /\ \A w \in Versions' : archives'[w] = archives[w] /\ promised'[w] = promised[w]
    BY <1>1, <1>2 DEF Versions
<1>5. \A w \in Versions' : SoundVersion(w)'
    BY <1>3, <1>4, VersionsKept
<1>6. AuxAgrees'
    BY <1>1, <1>2 DEF QuietInv, StoreSound, AuxAgrees, Versions
<1> QED BY <1>4, <1>5, <1>6 DEF StoreSound
-----------------------------------------------------------------------------
\* What a step says of a session it does not end: the view stays, and the live
\* files move on without it.
LEMMA ViewStays ==
    ASSUME QuietInv, Inv', FilesMove, Running,
           UNCHANGED session, UseSnapshots \/ UNCHANGED fsVars
    PROVE  /\ View' = View
           /\ PlainFiles(View)' /\ SameDateSameData(View, LiveView)'
<1>1. View' = View
    BY DEF View, UseSnapshots, LiveView, fsVars
<1>2. PlainFiles(View) /\ SameDateSameData(View, LiveView)
    BY DEF QuietInv, SessionSound, SessionReads
<1>3. clock \in Nat /\ clock' \in Nat /\ clock <= clock'
    BY BoundsAssumption DEF QuietInv, DependenciesInv, Inv, TypeInv, FilesTyped, FilesMove
<1>4. \A p \in Paths : View.disk[p].date \in Nat
    <2>1. View \in FsView
        BY ViewTyped DEF QuietInv, DependenciesInv, Inv, TypeInv, Running
    <2>2. \A p \in Paths : View.disk[p].date \in 0 .. MaxClock
        BY <2>1, DiskFields
    <2> QED BY <2>2, BoundsAssumption
<1> HIDE DEF View
<1>5. PlainFiles(View)'
    <2>1. \A p \in Paths : /\ View.node[p] \in {NoNode, FileNode(p)}
                           /\ View.node[p] = FileNode(p) => View.disk[p].date <= clock'
        BY <1>2, <1>3, <1>4 DEF PlainFiles
    <2> QED BY <1>1, <2>1 DEF PlainFiles
<1>6. SameDateSameData(View, LiveView)'
    <2> SUFFICES ASSUME NEW p \in Paths,
                        View.node[p] = FileNode(p), node'[p] = FileNode(p),
                        View.disk[p].date = disk'[p].date
                 PROVE  View.disk[p].data = disk'[p].data
        BY <1>1 DEF SameDateSameData, LiveView
    <2>1. View.disk[p].date <= clock
        BY <1>2 DEF PlainFiles
    <2>2. node'[p] = node[p] /\ disk'[p] = disk[p]
        BY <1>3, <1>4, <2>1, NodeKinds DEF FilesMove
    <2> QED BY <1>2, <2>2 DEF SameDateSameData, LiveView
<1> QED BY <1>1, <1>5, <1>6

\* What a session looks at, after a step of its own.
LEMMA ReadsKept ==
    ASSUME QuietInv, Inv', FilesMove, Running, UNCHANGED <<session, archives, window>>,
           DOMAIN objects' = DOMAIN objects, UseSnapshots \/ UNCHANGED fsVars
    PROVE  SessionReads'
<1>1. View' = View /\ PlainFiles(View)' /\ SameDateSameData(View, LiveView)'
    BY ViewStays
<1>2. SessionReads
    BY DEF QuietInv, SessionSound
<1>3. Versions' = Versions
    BY DEF Versions
<1> HIDE DEF View
<1>4. /\ DatesTell(session.old, View)'
      /\ \A p \in DOMAIN window' : window'[p] = {Content(View, p)'}
    BY <1>1, <1>2 DEF SessionReads, DatesTell, Content
<1>5. /\ \A s \in DOMAIN objects' : s[2] \in DOMAIN window' /\ View'.node[s[2]] # NoNode
      /\ session'.unmapped = Live =>
            \A s \in Slots : s[2] \in DOMAIN window' /\ View'.node[s[2]] # NoNode
                => s \in DOMAIN objects'
    BY <1>1, <1>2 DEF SessionReads
<1> QED BY <1>1, <1>2, <1>3, <1>4, <1>5 DEF SessionReads

\* The user edits the files while a session reads its shadow copy, or nothing
\* happens.
LEMMA SessionSoundStill ==
    ASSUME QuietInv, Inv', FilesMove, UNCHANGED <<archives, phase, session, objects, todo,
                known, streams, queue, opened, parts, window>>,
           Running => UseSnapshots \/ UNCHANGED fsVars
    PROVE  SessionSound'
<1> SUFFICES ASSUME Running
             PROVE  SessionReads' /\ SessionObjects' /\ SessionParts'
    BY DEF SessionSound, Running
<1>1. SessionReads'
    BY ReadsKept
<1>2. View' = View
    BY ViewStays
<1>3. SessionObjects' /\ SessionParts'
    BY <1>2 DEF QuietInv, SessionSound, SessionObjects, SessionParts, TakenOver, Held, Current
<1> QED BY <1>1, <1>3
-----------------------------------------------------------------------------
\* The steps of a session.

LEMMA StillFiles ==
    ASSUME QuietInv, UNCHANGED fsVars
    PROVE  FilesMove /\ LiveView' = LiveView /\ PlainFiles(LiveView)'
<1>1. clock \in Nat
    BY BoundsAssumption DEF QuietInv, DependenciesInv, Inv, TypeInv, FilesTyped
<1> QED BY <1>1 DEF fsVars, FilesMove, LiveView, QuietInv, PlainFiles

\* Both lists a session may start from are those of the last version.
LEMMA StartObjects ==
    ASSUME QuietInv, NEW snapshot
    PROVE  \/ StartingPoint(snapshot).objects = NoObjects
           \/ /\ get_version_count - 1 \in Versions
              /\ StartingPoint(snapshot).objects = archives[get_version_count - 1].objects
<1>1. CASE get_version_count = 0
    BY <1>1 DEF StartingPoint
<1>2. CASE get_version_count # 0
    <2>1. get_version_count - 1 \in Versions
        BY <1>2, VersionCount
    <2>2. get_version_count - 1 \in Version
        BY <2>1 DEF Versions
    <2>3. get_old_objects(get_version_count - 1, snapshot).objects =
            archives[get_version_count - 1].objects
        BY <2>2 DEF QuietInv, StoreSound, AuxAgrees, get_old_objects
    <2> QED BY <1>2, <2>1, <2>3 DEF StartingPoint
<1> QED BY <1>1, <1>2

LEMMA BeginSound ==
    ASSUME QuietUse, QuietInv, Inv', NEW x \in Exclusions, NEW c \in Criteria,
           NEW u \in Snapshots, BeginBackup(x, c, u)
    PROVE  SessionSound'
<1> DEFINE snapshot == IF u THEN get_version_count + 1 ELSE Live
           place == StartingPoint(snapshot).place
           scanned == ScannedObjects(LiveView, x)
           listed == IF map_forward(place, snapshot) \in {Live, snapshot}
                     THEN scanned ELSE NoObjects
<1>1. /\ phase' = "generating" /\ known' = {}
      /\ objects' = listed /\ todo' = DOMAIN listed
      /\ UNCHANGED <<fsVars, storeVars>>
      /\ window' = [p \in {q \in Paths : q \notin x.files /\ q \notin x.hidden} |->
                        {Content(LiveView, p)}]
    BY DEF BeginBackup
<1>2. /\ session'.use_snapshots = u /\ session'.criterium = c
      /\ session'.version = get_version_count
      /\ session'.view = IF u THEN LiveView ELSE NoView
      /\ session'.unmapped = place
      /\ session'.old = StartingPoint(snapshot).objects \/ session'.old = NoObjects
    BY DEF BeginBackup
<1>3. u \in BOOLEAN
    BY CommandsAssumption
<1>4. View' = LiveView /\ LiveView' = LiveView
    BY <1>1, <1>2, <1>3 DEF View, UseSnapshots, LiveView, fsVars
<1>5. UNCHANGED <<archives, clock>> /\ Versions' = Versions
    BY <1>1 DEF storeVars, fsVars, Versions
<1>6. x.files = {}
    BY DEF QuietUse
<1>7. \/ session'.old = NoObjects
      \/ /\ session'.version - 1 \in Versions
         /\ session'.old = archives[session'.version - 1].objects
    BY <1>2, StartObjects
<1>8. DOMAIN scanned = {s \in Slots : LiveView.node[s[2]].type # "none" /\ s[2] \notin x.hidden}
    BY DEF ScannedObjects, Listed
<1>14. /\ listed = scanned \/ DOMAIN listed = {}
       /\ place = Live => listed = scanned
    BY DEF NoObjects, map_forward
<1> HIDE DEF place, listed
<1>15. \A s \in DOMAIN scanned : s[2] \in Paths /\ scanned[s] = NewFso(LiveView, s[2], x)
    BY <1>8 DEF ScannedObjects, Slots
<1>9. \A s \in DOMAIN listed : /\ s \in DOMAIN scanned /\ s[2] \in Paths
                               /\ listed[s] = NewFso(LiveView, s[2], x)
    BY <1>14, <1>15
<1>10. PlainFiles(LiveView)
    BY DEF QuietInv
<1>11. \A p \in Paths : LiveView.node[p].type # "none" => LiveView.node[p] = FileNode(p)
    BY <1>10, NodeKinds DEF PlainFiles
<1>12. SessionReads'
    <2>1. PlainFiles(View)' /\ SameDateSameData(View, LiveView)'
        BY <1>4, <1>5, <1>10 DEF PlainFiles, SameDateSameData
    <2>2. DatesTell(session'.old, LiveView)
        <3>1. CASE session'.old = NoObjects
            BY <3>1 DEF DatesTell, NoObjects
        <3>2. CASE session'.old # NoObjects
            BY <1>7, <3>2 DEF QuietInv, StoreSound, SoundVersion
        <3> QED BY <3>1, <3>2
    <2>3. DatesTell(session.old, View)'
        BY <1>4, <2>2 DEF DatesTell
    <2>4. DOMAIN window' \subseteq Paths /\ \A p \in DOMAIN window' : window'[p] = {Content(View, p)'}
        BY <1>1, <1>4 DEF Content
    <2>5. DOMAIN window' = {p \in Paths : p \notin x.hidden}
        BY <1>1, <1>6
    <2>6. \A s \in Slots : s[2] \in Paths
        BY DEF Slots
    <2>7. \A p \in Paths : LiveView.node[p].type # "none" <=> LiveView.node[p] # NoNode
        BY <1>10, NodeKinds DEF PlainFiles
    <2>8. DOMAIN scanned = {s \in Slots : s[2] \in DOMAIN window' /\ LiveView.node[s[2]] # NoNode}
        BY <1>8, <2>5, <2>6, <2>7
    <2> HIDE DEF snapshot, scanned
    <2>9. /\ \A s \in DOMAIN objects' : s[2] \in DOMAIN window' /\ LiveView.node[s[2]] # NoNode
          /\ session'.unmapped = Live =>
                \A s \in Slots : s[2] \in DOMAIN window' /\ LiveView.node[s[2]] # NoNode
                    => s \in DOMAIN objects'
        BY <1>1, <1>2, <1>9, <1>14, <2>8
    <2> QED BY <1>2, <1>4, <1>5, <1>7, <2>1, <2>3, <2>4, <2>9 DEF SessionReads
<1>13. SessionObjects'
    <2>1. ASSUME NEW s \in DOMAIN listed
          PROVE  /\ listed[s].type = "RegularFile" /\ listed[s].guid = s[2]
                 /\ listed[s].size = SizeOf[LiveView.disk[s[2]].data]
                 /\ listed[s].date = LiveView.disk[s[2]].date
                 /\ listed[s].mode = "Full" /\ listed[s].hash = NoHash
        <3>1. s[2] \in Paths /\ LiveView.node[s[2]] = FileNode(s[2])
            BY <1>8, <1>9, <1>11
        <3>2. listed[s] = NewFso(LiveView, s[2], x)
            BY <1>9
        <3> QED BY <1>6, <1>10, <3>1, <3>2, PlainFile DEF NewFso
    <2> HIDE DEF scanned
    <2> QED BY <1>1, <1>4, <2>1 DEF SessionObjects, Held
<1> QED BY <1>1, <1>12, <1>13 DEF SessionSound, SessionParts

LEMMA SessionObject ==
    ASSUME QuietInv, Running, NEW s \in DOMAIN objects
    PROVE  /\ s \in Slots /\ s[2] \in Paths /\ objects[s] \in FsoRecord
           /\ objects[s].path = s[2]
           /\ View.node[s[2]] = FileNode(s[2]) /\ Resolve(View, s[2]) = s[2] /\ s[2] # 0
           /\ FileSize(View, s[2]) = SizeOf[Held(s)]
           /\ Held(s) \in Data
<1>1. s \in Slots /\ objects[s] \in FsoRecord /\ objects[s].path = s[2]
    BY ObjectMapsElim DEF QuietInv, DependenciesInv, Inv, TypeInv, SessionTyped, OwnPaths
<1>2. s[2] \in Paths
    BY <1>1 DEF Slots
<1>3. PlainFiles(View) /\ View.node[s[2]] # NoNode
    BY DEF QuietInv, SessionSound, SessionReads
<1>4. View.node[s[2]] = FileNode(s[2])
    BY <1>2, <1>3 DEF PlainFiles
<1>5. View \in FsView
    BY ViewTyped DEF QuietInv, DependenciesInv, Inv, TypeInv, Running
<1>6. Held(s) \in Data
    BY <1>2, <1>5, DiskFields DEF Held
<1> QED BY <1>1, <1>2, <1>3, <1>4, <1>6, PlainFile DEF Held

\* The old object of a slot is the one of the same slot.
LEMMA OldObjectIs ==
    ASSUME QuietUse, QuietInv, phase # "idle", NEW s \in Slots, OldSlots(s[2]) # {}
    PROVE  s \in DOMAIN session.old /\ OldObject(s[2]) = session.old[s]
<1>1. DOMAIN session.old \subseteq Slots
    BY ObjectMapsElim DEF QuietInv, DependenciesInv, Inv, TypeInv, SessionTyped
<1>2. \A t \in OldSlots(s[2]) : t = s
    BY <1>1, SlotOfPath DEF OldSlots
<1>3. OldSlots(s[2]) = {s}
    BY <1>2
<1>4. (CHOOSE t \in {s} : \A u \in {s} \ {t} : Precedes(t, u)) = s
    OBVIOUS
<1> QED BY <1>3, <1>4 DEF OldSlots, OldObject

\* A file that counts as unmodified has, as far as the criterion can tell, the
\* content its old digest is of.
LEMMA UnmodifiedStandsFor ==
    ASSUME QuietUse, QuietInv, Running, NEW s \in DOMAIN objects,
           NEW f, f.path = s[2], f.size = objects[s].size, f.date = objects[s].date,
           f.hash = NoHash, ~file_has_changed(f)
    PROVE  /\ s \in DOMAIN session.old
           /\ OldObject(s[2]) = session.old[s]
           /\ session.old[s].hash \in Data
           /\ StandsFor(session.old[s].hash, Held(s))
<1> DEFINE old == session.old[s]
           criterium == get_change_criterium(f)
<1>1. s \in Slots /\ s[2] \in Paths /\ View.node[s[2]] = FileNode(s[2])
      /\ Resolve(View, s[2]) = s[2] /\ s[2] # 0
    BY SessionObject
<1>2. s \in DOMAIN session.old /\ OldObject(s[2]) = old
    BY <1>1, OldObjectIs DEF file_has_changed, Running
<1>3. SoundObjects(session.old)
    <2>1. \/ session.old = NoObjects
          \/ /\ session.version - 1 \in Versions
             /\ session.old = archives[session.version - 1].objects
        BY DEF QuietInv, SessionSound, SessionReads
    <2> QED BY <1>2, <2>1 DEF NoObjects, QuietInv, StoreSound, SoundVersion
<1>4. old.hash \in Data /\ old.hash # NoHash /\ old.size = SizeOf[old.hash]
    BY <1>2, <1>3, DataAssumption DEF SoundObjects
<1>5. f.size = SizeOf[Held(s)] /\ f.date = View.disk[s[2]].date
    BY DEF QuietInv, SessionSound, SessionObjects
<1> HIDE DEF old, View
<1>6. /\ criterium # "ArchiveFlag"
      /\ criterium = "Size" => f.size = old.size
      /\ criterium = "Date" => f.date = old.date
      /\ criterium = "Hash" => compare_hashes(f, old)
    BY <1>2 DEF file_has_changed
<1>7. session.criterium \in Criteria
    BY DEF QuietInv, SessionSound, SessionReads
<1>8. /\ criterium \in {"ArchiveFlag", "Size", "Date", "Hash"}
      /\ criterium = "Size" => "Size" \in Criteria
    BY <1>7, CommandsAssumption DEF get_change_criterium
<1> HIDE DEF criterium
<1>9. CASE criterium = "Size"
    BY <1>2, <1>4, <1>5, <1>6, <1>8, <1>9 DEF StandsFor, old
<1>10. CASE criterium = "Date"
    <2>1. DatesTell(session.old, View)
        BY DEF QuietInv, SessionSound, SessionReads
    <2>2. StandsFor(old.hash, View.disk[s[2]].data)
        BY <1>1, <1>2, <1>5, <1>6, <1>10, <2>1 DEF DatesTell, old
    <2> QED BY <1>2, <1>4, <2>2 DEF Held, old
<1>11. CASE criterium = "Hash"
    <2>1. compute_hash(f) = Held(s)
        BY <1>1, <1>2 DEF compute_hash, Held
    <2>2. Held(s) \in Data
        BY SessionObject
    <2>3. Held(s) = old.hash
        BY <1>4, <1>6, <1>11, <2>1, <2>2, DataAssumption DEF compare_hashes
    <2> QED BY <1>2, <1>4, <2>3 DEF StandsFor, old
<1> QED BY <1>2, <1>4, <1>6, <1>8, <1>9, <1>10, <1>11 DEF old

\* What GenerateStream does when every file is regular and listed once: the
\* object is stored, or says what the old one says.
LEMMA GenerateEffect ==
    ASSUME QuietUse, QuietInv, NEW s, GenerateStream(s)
    PROVE  \E g \in FsoRecord :
            /\ s \in DOMAIN objects /\ objects' = [objects EXCEPT ![s] = g]
            /\ g.type = objects[s].type /\ g.guid = objects[s].guid
            /\ g.size = objects[s].size /\ g.date = objects[s].date
            /\ known' = known \cup {s[2]}
            /\ \/ streams' = streams \cup {s}
               \/ /\ streams' = streams /\ s \in DOMAIN session.old
                  /\ g.latest = session.old[s].latest
                  /\ g.stream_id = session.old[s].stream_id
                  /\ g.hash = session.old[s].hash
                  /\ StandsFor(g.hash, Held(s))
<1> DEFINE f == [objects[s] EXCEPT !.latest = version_if_added(objects[s])]
           added == should_be_added(objects[s])
           stored == added /\ f.mode = "Full" /\ file_has_changed(f)
           hash == IF HasDigest(f) THEN compute_hash(f) ELSE f.hash
           g == IF stored THEN [f EXCEPT !.stream_id = nextId, !.hash = hash]
                ELSE IF added /\ f.mode = "Full" THEN ReferToOld(f) ELSE f
<1>1. /\ phase = "generating" /\ s \in todo
      /\ objects' = [objects EXCEPT ![s] = g]
      /\ streams' = IF stored THEN streams \cup {s} ELSE streams
      /\ known' = IF added THEN known \cup {f.guid} ELSE known
    BY DEF GenerateStream
<1>2. SessionTyped /\ Running /\ s \in DOMAIN objects
    BY <1>1 DEF QuietInv, DependenciesInv, Inv, TypeInv, SessionTyped, Running
<1>3. objects[s] \in FsoRecord /\ objects[s].path = s[2] /\ s \in Slots
    BY <1>2, SessionObject
<1>4. /\ objects[s].mode = "Full" /\ objects[s].type = "RegularFile" /\ objects[s].guid = s[2]
      /\ objects[s].hash = NoHash
      /\ known = {t[2] : t \in DOMAIN objects \ todo}
    BY <1>1, <1>2 DEF QuietInv, SessionSound, SessionObjects
<1>5. s[2] \notin known
    <2>1. \A t \in DOMAIN objects : t[2] = s[2] => t = s
        BY <1>2, <1>3, SessionObject, SlotOfPath
    <2> QED BY <1>1, <1>4, <2>1
<1>6. added
    BY <1>4, <1>5 DEF should_be_added
<1>7. f \in FsoRecord
    <2>1. version_if_added(objects[s]) \in Version \cup {-1}
        BY <1>1, <1>2 DEF SessionTyped, version_if_added, invalid_version_number
    <2> QED BY <1>3, <2>1 DEF FsoRecord
<1>8. /\ f.path = s[2] /\ f.mode = "Full" /\ f.guid = s[2] /\ f.type = objects[s].type
      /\ f.size = objects[s].size /\ f.date = objects[s].date /\ f.hash = NoHash
    BY <1>3, <1>4 DEF FsoRecord
<1> HIDE DEF f, added
<1>12. hash \in Data \cup {NoHash}
    BY <1>1, <1>2, <1>7, <1>8, ComputedTyped DEF QuietInv, DependenciesInv, Inv, TypeInv
<1> HIDE DEF hash
<1>9. known' = known \cup {s[2]}
    BY <1>1, <1>6, <1>8
<1>10. CASE file_has_changed(f)
    <2>1. g = [f EXCEPT !.stream_id = nextId, !.hash = hash] /\ streams' = streams \cup {s}
        BY <1>1, <1>6, <1>8, <1>10
    <2>2. nextId \in Nat
        BY <1>2 DEF SessionTyped
    <2> HIDE DEF g
    <2>3. /\ g \in FsoRecord /\ g.type = f.type /\ g.guid = f.guid
          /\ g.size = f.size /\ g.date = f.date
        BY <1>7, <1>12, <2>1, <2>2 DEF FsoRecord
    <2> QED BY <1>1, <1>2, <1>4, <1>8, <1>9, <2>1, <2>3
<1>11. CASE ~file_has_changed(f)
    <2> DEFINE old == session.old[s]
    <2>1. /\ s \in DOMAIN session.old /\ OldObject(s[2]) = old
          /\ old.hash \in Data /\ StandsFor(old.hash, Held(s))
        BY <1>2, <1>8, <1>11, UnmodifiedStandsFor
    <2>2. g = ReferToOld(f)
        BY <1>6, <1>8, <1>11
    <2> HIDE DEF g, old
    <2>3. old.hash # NoHash
        BY <2>1, DataAssumption
    <2>4. g = [f EXCEPT !.mode = "Unmodified", !.latest = old.latest,
                        !.stream_id = old.stream_id, !.hash = old.hash]
        BY <1>8, <2>1, <2>2, <2>3 DEF ReferToOld
    <2>5. g \in FsoRecord
        BY <1>1, <1>2, <1>7, <1>8, <1>11, <2>2, ReferToOldTyped DEF file_has_changed
    <2>6. /\ g.latest = old.latest /\ g.stream_id = old.stream_id /\ g.hash = old.hash
          /\ g.type = f.type /\ g.guid = f.guid /\ g.size = f.size /\ g.date = f.date
        BY <1>7, <2>4 DEF FsoRecord
    <2> QED BY <1>1, <1>2, <1>4, <1>8, <1>9, <2>1, <2>5, <2>6 DEF old
<1> QED BY <1>10, <1>11

LEMMA GenerateSound ==
    ASSUME QuietUse, QuietInv, Inv', NEW s, GenerateStream(s)
    PROVE  SessionSound'
<1>1. /\ phase = "generating" /\ phase' = "generating" /\ s \in todo /\ todo' = todo \ {s}
      /\ UNCHANGED <<fsVars, storeVars, session, window>>
    BY DEF GenerateStream
<1>2. PICK g \in FsoRecord :
            /\ s \in DOMAIN objects /\ objects' = [objects EXCEPT ![s] = g]
            /\ g.type = objects[s].type /\ g.guid = objects[s].guid
            /\ g.size = objects[s].size /\ g.date = objects[s].date
            /\ known' = known \cup {s[2]}
            /\ \/ streams' = streams \cup {s}
               \/ /\ streams' = streams /\ s \in DOMAIN session.old
                  /\ g.latest = session.old[s].latest
                  /\ g.stream_id = session.old[s].stream_id
                  /\ g.hash = session.old[s].hash
                  /\ StandsFor(g.hash, Held(s))
    BY GenerateEffect
<1>3. /\ DOMAIN objects' = DOMAIN objects /\ objects'[s] = g
      /\ \A t \in DOMAIN objects \ {s} : objects'[t] = objects[t]
    BY <1>2
<1>4. Running /\ FilesMove /\ todo \subseteq DOMAIN objects
    BY <1>1, StillFiles DEF Running, QuietInv, DependenciesInv, Inv, TypeInv, SessionTyped
<1>5. View' = View /\ SessionReads'
    BY <1>1, <1>3, <1>4, ViewStays, ReadsKept DEF storeVars
<1>6. SessionObjects
    BY <1>4 DEF QuietInv, SessionSound
<1>7. known' = {t[2] : t \in DOMAIN objects' \ todo'}
    BY <1>1, <1>2, <1>3, <1>4, <1>6 DEF SessionObjects
<1>8. ASSUME NEW t \in DOMAIN objects'
      PROVE  /\ objects'[t].type = "RegularFile" /\ objects'[t].guid = t[2]
             /\ objects'[t].size = SizeOf[Held(t)']
             /\ objects'[t].date = View'.disk[t[2]].date
    <2>1. Held(t)' = Held(t)
        BY <1>5 DEF Held
    <2> QED BY <1>2, <1>3, <1>5, <1>6, <2>1 DEF SessionObjects
<1>9. \A t \in todo' : objects'[t].mode = "Full" /\ objects'[t].hash = NoHash
    BY <1>1, <1>3, <1>4, <1>6 DEF SessionObjects
<1>10. ASSUME NEW t \in DOMAIN objects' \ (todo' \cup streams')
       PROVE  TakenOver(t)'
    <2>1. Held(t)' = Held(t) /\ session' = session
        BY <1>1, <1>5 DEF Held
    <2>2. CASE t = s
        <3>1. streams' # streams \cup {s}
            BY <2>2
        <3>2. /\ s \in DOMAIN session.old
              /\ objects'[s].latest = session.old[s].latest
              /\ objects'[s].stream_id = session.old[s].stream_id
              /\ objects'[s].hash = session.old[s].hash
              /\ StandsFor(objects'[s].hash, Held(s))
            BY <1>2, <1>3, <3>1
        <3> QED BY <2>1, <2>2, <3>2 DEF TakenOver
    <2>3. CASE t # s
        <3>1. TakenOver(t)
            BY <1>1, <1>2, <1>3, <1>6, <2>3 DEF SessionObjects
        <3> QED BY <1>3, <2>1, <2>3, <3>1 DEF TakenOver
    <2> QED BY <2>2, <2>3
<1>11. SessionObjects'
    BY <1>7, <1>8, <1>9, <1>10 DEF SessionObjects
<1> QED BY <1>1, <1>5, <1>11 DEF SessionSound, SessionParts

\* Members of the objects that later steps leave alone.
SameFiles(f, g) ==
    /\ DOMAIN g = DOMAIN f
    /\ \A s \in DOMAIN f :
          /\ g[s].type = f[s].type /\ g[s].guid = f[s].guid
          /\ g[s].size = f[s].size /\ g[s].date = f[s].date

LEMMA ObjectsKept ==
    ASSUME QuietInv, Running, View' = View, SameFiles(objects, objects'),
           UNCHANGED <<session, known, todo, streams>>, todo = {},
           \A s \in DOMAIN objects \ streams : objects'[s] = objects[s]
    PROVE  SessionObjects'
<1>1. SessionObjects
    BY DEF QuietInv, SessionSound
<1>2. \A s : Held(s)' = Held(s)
    BY DEF Held
<1>3. \A s \in DOMAIN objects' \ (todo' \cup streams') : TakenOver(s)'
    BY <1>1, <1>2 DEF SessionObjects, TakenOver, SameFiles
<1>4. \A s \in DOMAIN objects' : /\ objects'[s].type = "RegularFile" /\ objects'[s].guid = s[2]
                                 /\ objects'[s].size = SizeOf[Held(s)']
                                 /\ objects'[s].date = View'.disk[s[2]].date
    BY <1>1, <1>2 DEF SessionObjects, SameFiles
<1>5. known' = {s[2] : s \in DOMAIN objects' \ todo'}
    BY <1>1 DEF SessionObjects, SameFiles
<1> QED BY <1>3, <1>4, <1>5 DEF SessionObjects

LEMMA ReorderSound ==
    ASSUME QuietUse, QuietInv, Inv', NEW order \in SortedOrders, ReorderFileStreams(order)
    PROVE  SessionSound'
<1>1. /\ phase = "generating" /\ phase' = "storing" /\ todo = {} /\ queue' = order
      /\ objects' = [s \in DOMAIN objects |->
            IF s \in streams
            THEN [objects[s] EXCEPT
                    !.stream_id = NthId(CHOOSE i \in DOMAIN order : order[i] = s)]
            ELSE objects[s]]
      /\ UNCHANGED <<fsVars, storeVars, session, todo, known, streams, opened, parts, window>>
    BY DEF ReorderFileStreams
<1>2. Running /\ FilesMove /\ archives' = archives
    BY <1>1, StillFiles DEF Running, storeVars
<1>3. DOMAIN objects' = DOMAIN objects
    BY <1>1
<1>4. View' = View /\ SessionReads'
    BY <1>1, <1>2, <1>3, ViewStays, ReadsKept
<1>5. \A s \in DOMAIN objects : objects[s] \in FsoRecord
    BY <1>2, SessionObject
<1>6. SameFiles(objects, objects')
    BY <1>1, <1>5 DEF SameFiles, FsoRecord
<1>7. SessionObjects'
    BY <1>1, <1>2, <1>4, <1>6, ObjectsKept
<1>8. parts = <<>> /\ opened = -1 /\ IsFiniteSet(streams)
    BY <1>1 DEF QuietInv, DependenciesInv, Inv, TypeInv, SessionTyped, StreamsNumbered,
                OpenedResolves
<1>9. /\ order \in Seq(streams)
      /\ \A s \in streams : \E i \in DOMAIN order : order[i] = s
    BY <1>8, OrderIsBijective
<1>10. SessionParts'
    BY <1>1, <1>8, <1>9 DEF SessionParts
<1> QED BY <1>4, <1>7, <1>10 DEF SessionSound

LEMMA OpenSound ==
    ASSUME QuietUse, QuietInv, Inv', OpenFile
    PROVE  SessionSound'
<1>1. /\ Storing /\ opened' = FileSize(View, Current[2])
      /\ UNCHANGED <<fsVars, storeVars, phase, session, objects, todo, known,
                     streams, queue, parts, window>>
    BY DEF OpenFile
<1>2. Running /\ FilesMove /\ archives' = archives
    BY <1>1, StillFiles DEF Running, storeVars, Storing
<1>3. View' = View /\ SessionReads'
    BY <1>1, <1>2, ViewStays, ReadsKept
<1>4. \A s : Held(s)' = Held(s)
    BY <1>3 DEF Held
<1>5. opened' = SizeOf[Held(Current)] /\ Current' = Current
    <2>1. Current \in DOMAIN objects
        BY <1>1, CurrentTyped DEF QuietInv, DependenciesInv
    <2> QED BY <1>1, <1>2, <2>1, SessionObject DEF Current
<1>6. SessionObjects /\ SessionParts
    BY <1>2 DEF QuietInv, SessionSound
<1>7. SessionObjects'
    BY <1>1, <1>3, <1>4, <1>6 DEF SessionObjects, TakenOver
<1>8. SessionParts'
    BY <1>1, <1>4, <1>5, <1>6 DEF SessionParts
<1> QED BY <1>3, <1>7, <1>8 DEF SessionSound

LEMMA StoreFileSound ==
    ASSUME QuietUse, QuietInv, Inv', StoreFile
    PROVE  SessionSound'
<1> DEFINE data == IF opened = 0 THEN EmptyData
                   ELSE View.disk[Resolve(View, Current[2])].data
           part == [id |-> objects[Current].stream_id, size |-> opened, data |-> data]
<1>1. /\ Storing /\ opened # -1 /\ opened' = -1
      /\ parts' = Append(parts, part)
      /\ objects' = [objects EXCEPT ![Current].hash = data]
      /\ UNCHANGED <<fsVars, storeVars, phase, session, todo, known, streams,
                     queue, window>>
    BY DEF StoreFile
<1>2. Running /\ FilesMove /\ archives' = archives /\ phase = "storing"
    BY <1>1, StillFiles DEF Running, storeVars, Storing
<1>3. /\ Current \in DOMAIN objects /\ Len(parts) \in Nat
      /\ Len(parts) + 1 \in DOMAIN queue /\ Current = queue[Len(parts) + 1]
    BY <1>1, CurrentTyped DEF QuietInv, DependenciesInv, Current
<1>4. SessionObjects /\ SessionParts
    BY <1>2 DEF QuietInv, SessionSound
<1>5. opened = SizeOf[Held(Current)] /\ Current \in streams /\ todo = {}
    BY <1>1, <1>2, <1>3, <1>4 DEF SessionParts
<1>6. /\ Resolve(View, Current[2]) = Current[2] /\ Held(Current) \in Data
      /\ objects[Current] \in FsoRecord
    BY <1>2, <1>3, SessionObject
<1>7. data = Held(Current)
    <2>1. opened = 0 => Held(Current) = EmptyData
        BY <1>5, <1>6, DataAssumption
    <2> QED BY <1>6, <2>1 DEF Held
<1> HIDE DEF data
<1>8. /\ DOMAIN objects' = DOMAIN objects
      /\ objects'[Current] = [objects[Current] EXCEPT !.hash = data]
      /\ \A s \in DOMAIN objects \ {Current} : objects'[s] = objects[s]
    BY <1>1, <1>3
<1>9. SameFiles(objects, objects') /\ objects'[Current].hash = data
    BY <1>6, <1>8 DEF SameFiles, FsoRecord
<1>10. View' = View /\ SessionReads'
    BY <1>1, <1>2, <1>8, ViewStays, ReadsKept
<1>11. SessionObjects'
    BY <1>1, <1>2, <1>5, <1>8, <1>9, <1>10, ObjectsKept
<1>12. \A s : Held(s)' = Held(s)
    BY <1>10 DEF Held
<1>13. parts \in Seq(Part)
    BY DEF QuietInv, DependenciesInv, Inv, TypeInv, SessionTyped
<1>14. ASSUME NEW i \in DOMAIN parts'
       PROVE  /\ parts'[i].data = Held(queue[i]) /\ parts'[i].size = SizeOf[parts'[i].data]
              /\ objects'[queue[i]].hash = parts'[i].data
    <2>1. \/ i = Len(parts) + 1 /\ parts'[i] = part
          \/ i \in DOMAIN parts /\ parts'[i] = parts[i]
        BY <1>1, <1>13
    <2>2. CASE i = Len(parts) + 1 /\ parts'[i] = part
        BY <1>3, <1>5, <1>7, <1>9, <2>2
    <2>3. CASE i \in DOMAIN parts /\ parts'[i] = parts[i]
        <3>1. /\ parts[i].data = Held(queue[i]) /\ parts[i].size = SizeOf[parts[i].data]
              /\ objects[queue[i]].hash = parts[i].data
            BY <1>2, <1>4, <2>3 DEF SessionParts
        <3>2. CASE queue[i] = Current
            BY <1>7, <1>9, <2>3, <3>1, <3>2
        <3>3. CASE queue[i] # Current
            <4>1. i \in DOMAIN queue /\ queue \in Seq(DOMAIN objects)
                BY <1>2, <1>13, <2>3 DEF QuietInv, DependenciesInv, Inv, TypeInv, SessionTyped
            <4>2. queue[i] \in DOMAIN objects
                BY <4>1
            <4> QED BY <1>8, <2>3, <3>1, <3>3, <4>2
        <3> QED BY <3>2, <3>3
    <2> QED BY <2>1, <2>2, <2>3
<1>15. SessionParts'
    BY <1>1, <1>2, <1>4, <1>12, <1>14 DEF SessionParts
<1> QED BY <1>10, <1>11, <1>15 DEF SessionSound

\* The old objects refer to versions before the one a session writes.
LEMMA OldVersion ==
    ASSUME QuietInv, Running, session.old # NoObjects
    PROVE  /\ SoundObjects(session.old) /\ DistinctStreams(session.old)
           /\ \A s \in DOMAIN session.old :
                /\ session.old[s].latest \in Version
                /\ session.old[s].latest < session.version
                /\ Stored(session.old[s])
<1> DEFINE v == session.version - 1
<1>1. v \in Versions /\ session.old = archives[v].objects
    BY DEF QuietInv, SessionSound, SessionReads
<1>2. v \in Nat /\ session.version \in Nat
    BY <1>1, BoundsAssumption
       DEF Versions, Version, Running, QuietInv, DependenciesInv, Inv, TypeInv, SessionTyped
<1>3. SoundVersion(v) /\ UpTo(archives[v].objects, v)
    BY <1>1 DEF QuietInv, StoreSound, DependenciesInv, StoreUpTo
<1>4. \A s \in DOMAIN archives[v].objects : archives[v].objects[s].latest \in Version
    BY <1>1, VersionObjects
<1>5. \A x \in Version : x <= v => x < session.version
    BY <1>2, BoundsAssumption DEF Version
<1> QED BY <1>1, <1>3, <1>4, <1>5 DEF SoundVersion, UpTo

\* What the objects say when the last stream is written.
LEMMA FinishedObject ==
    ASSUME QuietInv, phase = "storing", Len(parts) = Len(queue), NEW s \in DOMAIN objects
    PROVE  /\ objects[s].hash \in Data /\ StandsFor(objects[s].hash, Held(s))
           /\ \/ /\ s \in streams /\ objects[s].latest = session.version
                 /\ \E i \in DOMAIN parts :
                        /\ parts[i].id = objects[s].stream_id
                        /\ parts[i].data = objects[s].hash
                        /\ queue[i] = s
              \/ /\ s \in DOMAIN session.old
                 /\ objects[s].latest = session.old[s].latest
                 /\ objects[s].stream_id = session.old[s].stream_id
                 /\ objects[s].hash = session.old[s].hash
<1>1. Running
    BY DEF Running
<1>2. SessionObjects /\ SessionParts
    BY <1>1 DEF QuietInv, SessionSound
<1>3. CASE s \in streams
    <2>1. objects[s].latest = session.version
        BY <1>3 DEF QuietInv, DependenciesInv, SessionUpTo
    <2>2. PICK i \in DOMAIN queue : queue[i] = s
        BY <1>2, <1>3 DEF SessionParts
    <2>3. parts \in Seq(Part) /\ queue \in Seq(DOMAIN objects)
        BY DEF QuietInv, DependenciesInv, Inv, TypeInv, SessionTyped
    <2>4. i \in DOMAIN parts
        BY <2>2, <2>3
    <2>5. parts[i].id = objects[s].stream_id
        BY <2>2, <2>4 DEF QuietInv, DependenciesInv, Inv, StreamsNumbered
    <2>6. parts[i].data = Held(s) /\ objects[s].hash = parts[i].data
        BY <1>2, <2>2, <2>4 DEF SessionParts
    <2>7. Held(s) \in Data
        BY <1>1, SessionObject
    <2> QED BY <1>3, <2>1, <2>2, <2>4, <2>5, <2>6, <2>7 DEF StandsFor
<1>4. CASE s \notin streams
    <2>1. TakenOver(s)
        BY <1>2, <1>4 DEF SessionObjects, SessionParts
    <2>2. session.old # NoObjects
        BY <2>1 DEF TakenOver, NoObjects
    <2>3. session.old[s].hash \in Data
        BY <1>1, <2>1, <2>2, OldVersion DEF SoundObjects, TakenOver
    <2> QED BY <2>1, <2>3 DEF TakenOver
<1> QED BY <1>3, <1>4

LEMMA FinishedFile ==
    ASSUME QuietInv, phase = "storing", Len(parts) = Len(queue), NEW s \in DOMAIN objects
    PROVE  /\ s[2] \in DOMAIN window /\ window[s[2]] = {File(Held(s))} /\ Held(s) \in Data
           /\ View.node[s[2]] = FileNode(s[2])
           /\ objects[s].type = "RegularFile" /\ objects[s].latest # -1
           /\ objects[s].date = View.disk[s[2]].date /\ objects[s].date <= clock
           /\ objects[s].size = SizeOf[objects[s].hash]
<1>1. Running
    BY DEF Running
<1>2. SessionReads /\ SessionObjects
    BY <1>1 DEF QuietInv, SessionSound
<1>3. s[2] \in Paths /\ View.node[s[2]] = FileNode(s[2]) /\ Held(s) \in Data
    BY <1>1, SessionObject
<1>4. PlainFiles(View)
    BY <1>2 DEF SessionReads
<1>5. Content(View, s[2]) = File(Held(s))
    BY <1>3, <1>4, PlainFile DEF Held
<1>6. s[2] \in DOMAIN window /\ window[s[2]] = {Content(View, s[2])}
    BY <1>2 DEF SessionReads
<1>7. /\ objects[s].date = View.disk[s[2]].date /\ objects[s].size = SizeOf[Held(s)]
      /\ objects[s].type = "RegularFile"
    BY <1>2 DEF SessionObjects
<1>8. View.disk[s[2]].date <= clock
    BY <1>3, <1>4 DEF PlainFiles
<1>9. SizeOf[objects[s].hash] = SizeOf[Held(s)]
    BY FinishedObject, SameSize
<1>10. objects[s].latest # -1
    <2>1. CASE objects[s].latest = session.version
        <3>1. session.version \in Nat
            BY <1>1, BoundsAssumption
               DEF Running, QuietInv, DependenciesInv, Inv, TypeInv, SessionTyped, Version
        <3> QED BY <2>1, <3>1
    <2>2. CASE objects[s].latest # session.version
        <3>1. s \in DOMAIN session.old /\ objects[s].latest = session.old[s].latest
            BY <2>2, FinishedObject
        <3>2. session.old # NoObjects
            BY <3>1 DEF NoObjects
        <3> QED BY <1>1, <3>1, <3>2, OldVersion DEF SoundObjects
    <2> QED BY <2>1, <2>2
<1> QED BY <1>3, <1>5, <1>6, <1>7, <1>8, <1>9, <1>10

\* No two objects of a finished session name the same stream.
LEMMA FinishedDistinct ==
    ASSUME QuietInv, phase = "storing", Len(parts) = Len(queue)
    PROVE  DistinctStreams(objects)
<1> SUFFICES ASSUME NEW s \in DOMAIN objects, NEW t \in DOMAIN objects,
                    objects[s].latest = objects[t].latest,
                    objects[s].stream_id = objects[t].stream_id
             PROVE  s = t
    BY DEF DistinctStreams
<1>1. Running
    BY DEF Running
<1>2. \A x \in DOMAIN objects :
        objects[x].latest = session.version =>
            \E i \in DOMAIN parts : parts[i].id = objects[x].stream_id /\ queue[i] = x
    <2> SUFFICES ASSUME NEW x \in DOMAIN objects, objects[x].latest = session.version
                 PROVE  \E i \in DOMAIN parts : parts[i].id = objects[x].stream_id /\ queue[i] = x
        OBVIOUS
    <2>1. CASE x \in DOMAIN session.old /\ objects[x].latest = session.old[x].latest
        <3>1. session.old # NoObjects
            BY <2>1 DEF NoObjects
        <3>2. session.old[x].latest < session.version /\ session.version \in Nat
            BY <1>1, <2>1, <3>1, OldVersion, BoundsAssumption
               DEF Running, QuietInv, DependenciesInv, Inv, TypeInv, SessionTyped, Version
        <3> QED BY <2>1, <3>2
    <2> QED BY <2>1, FinishedObject
<1>3. CASE objects[s].latest = session.version
    <2>1. PICK i \in DOMAIN parts : parts[i].id = objects[s].stream_id /\ queue[i] = s
        BY <1>2, <1>3
    <2>2. PICK j \in DOMAIN parts : parts[j].id = objects[t].stream_id /\ queue[j] = t
        BY <1>2, <1>3
    <2>3. parts \in Seq(Part) /\ FirstStream \in Nat
        BY SessionFirstStream DEF QuietInv, DependenciesInv, Inv, TypeInv, SessionTyped
    <2>4. parts[i].id = FirstStream + i - 1 /\ parts[j].id = FirstStream + j - 1
        BY DEF QuietInv, DependenciesInv, Inv, StreamsNumbered
    <2>5. i \in Nat /\ j \in Nat
        BY <2>3
    <2>6. i = j
        BY <2>1, <2>2, <2>3, <2>4, <2>5
    <2> QED BY <2>1, <2>2, <2>6
<1>4. CASE objects[s].latest # session.version
    <2>1. /\ s \in DOMAIN session.old /\ t \in DOMAIN session.old
          /\ objects[s].latest = session.old[s].latest
          /\ objects[t].latest = session.old[t].latest
          /\ objects[s].stream_id = session.old[s].stream_id
          /\ objects[t].stream_id = session.old[t].stream_id
        BY <1>4, FinishedObject
    <2>2. session.old # NoObjects
        BY <2>1 DEF NoObjects
    <2> QED BY <1>1, <2>1, <2>2, OldVersion DEF DistinctStreams
<1> QED BY <1>3, <1>4

\* The objects a commit writes, with the members the invariant is about.
LEMMA CommitWrites ==
    ASSUME QuietInv, CommitBackup
    PROVE  \E n, f :
            /\ n \in Version /\ n = session.version /\ n \notin Versions /\ Versions' = Versions \cup {n}
            /\ \A v \in Versions : v < n /\ v \in Nat /\ n \in Nat
            /\ phase = "storing" /\ Len(parts) = Len(queue) /\ phase' = "idle"
            /\ archives'[n].objects = f /\ archives'[n].parts = parts
            /\ promised'[n] = window /\ DOMAIN promised' = Version
            /\ aux'[n] # <<>> /\ aux'[n][1].objects = f
            /\ archives'[n].mapped = session.mapped
            /\ archives'[n].unmapped = session.unmapped
            /\ aux'[n][1].unmapped = session.unmapped
            /\ \A v \in Version \ {n} : /\ archives'[v] = archives[v] /\ aux'[v] = aux[v]
                                        /\ promised'[v] = promised[v]
            /\ DOMAIN f = DOMAIN objects
            /\ \A s \in DOMAIN objects :
                  /\ f[s].type = objects[s].type /\ f[s].size = objects[s].size
                  /\ f[s].date = objects[s].date /\ f[s].hash = objects[s].hash
                  /\ f[s].latest = objects[s].latest
                  /\ f[s].stream_id = objects[s].stream_id
            /\ UNCHANGED fsVars
<1>1. PICK n \in Version : n = session.version /\ n \notin Versions /\ Versions' = Versions \cup {n}
    BY CommitEffect DEF QuietInv, DependenciesInv
<1>2. PICK f : f = [s \in DOMAIN objects |-> Serialized(objects[s])]
    OBVIOUS
<1>3. PICK list : list = [unmapped |-> session.unmapped, objects |-> f]
    OBVIOUS
<1>4. PICK new : new = [parts |-> parts, objects |-> f,
                        unmapped |-> session.unmapped, mapped |-> session.mapped,
                        deps |-> deps, nextId |-> nextId]
    OBVIOUS
<1>5. /\ new.objects = f /\ new.parts = parts /\ list.objects = f
      /\ new.mapped = session.mapped /\ list.unmapped = session.unmapped
      /\ new.unmapped = session.unmapped
    BY <1>3, <1>4
<1>6. /\ phase = "storing" /\ Len(parts) = Len(queue) /\ phase' = "idle"
      /\ archives' = [archives EXCEPT ![n] = new]
      /\ aux' = [aux EXCEPT ![n] = Append(@, list)]
      /\ promised' = [promised EXCEPT ![n] = window]
      /\ UNCHANGED fsVars
    BY <1>1, <1>2, <1>3, <1>4 DEF CommitBackup, NoSession, target_version
<1>7. DOMAIN archives = Version /\ DOMAIN aux = Version /\ DOMAIN promised = Version
    BY DEF QuietInv, DependenciesInv, Inv, TypeInv, StoreTyped, StoreSound
<1>8. aux'[n] = <<list>>
    <2>1. aux[n] = <<>>
        BY <1>1 DEF QuietInv, StoreSound, AuxAgrees
    <2>2. Append(<<>>, list) = <<list>>
        OBVIOUS
    <2> QED BY <1>1, <1>6, <1>7, <2>1, <2>2
<1>9. aux'[n] # <<>> /\ aux'[n][1].objects = f /\ aux'[n][1].unmapped = session.unmapped
    BY <1>5, <1>8
<1>10. /\ DOMAIN f = DOMAIN objects
       /\ \A s \in DOMAIN objects :
            /\ f[s].type = objects[s].type /\ f[s].size = objects[s].size
            /\ f[s].date = objects[s].date /\ f[s].hash = objects[s].hash
            /\ f[s].latest = objects[s].latest
            /\ f[s].stream_id = objects[s].stream_id
    BY <1>2 DEF Serialized
<1>11. \A v \in Versions : v < n /\ v \in Nat /\ n \in Nat
    BY <1>1, <1>6, BoundsAssumption
       DEF QuietInv, DependenciesInv, Inv, TypeInv, VersionIsNew, Version, Versions
<1>12. /\ archives'[n] = new /\ promised'[n] = window /\ DOMAIN promised' = Version
       /\ \A v \in Version \ {n} : /\ archives'[v] = archives[v] /\ aux'[v] = aux[v]
                                   /\ promised'[v] = promised[v]
    BY <1>1, <1>6, <1>7
<1> QED BY <1>1, <1>5, <1>6, <1>9, <1>10, <1>11, <1>12

LEMMA CommitSound ==
    ASSUME QuietUse, QuietInv, Inv', CommitBackup
    PROVE  StoreSound' /\ SessionSound'
<1>1. PICK n, f :
            /\ n \in Version /\ n = session.version /\ n \notin Versions /\ Versions' = Versions \cup {n}
            /\ \A v \in Versions : v < n /\ v \in Nat /\ n \in Nat
            /\ phase = "storing" /\ Len(parts) = Len(queue) /\ phase' = "idle"
            /\ archives'[n].objects = f /\ archives'[n].parts = parts
            /\ archives'[n].unmapped = session.unmapped
            /\ promised'[n] = window /\ DOMAIN promised' = Version
            /\ aux'[n] # <<>> /\ aux'[n][1].objects = f
            /\ \A v \in Version \ {n} : /\ archives'[v] = archives[v] /\ aux'[v] = aux[v]
                                        /\ promised'[v] = promised[v]
            /\ DOMAIN f = DOMAIN objects
            /\ \A s \in DOMAIN objects :
                  /\ f[s].type = objects[s].type /\ f[s].size = objects[s].size
                  /\ f[s].date = objects[s].date /\ f[s].hash = objects[s].hash
                  /\ f[s].latest = objects[s].latest
                  /\ f[s].stream_id = objects[s].stream_id
            /\ UNCHANGED fsVars
    BY CommitWrites
<1>2. FilesMove /\ LiveView' = LiveView /\ clock' = clock /\ Running
    BY <1>1, StillFiles DEF fsVars, Running
<1>3. \A v \in Versions : /\ v \in Version \ {n}
                          /\ archives'[v] = archives[v] /\ promised'[v] = promised[v]
    BY <1>1 DEF Versions
<1>4. ASSUME NEW v \in Versions
      PROVE  SoundVersion(v)'
    <2>1. \A s \in DOMAIN archives[v].objects : archives[v].objects[s].latest # n
        <3>1. UpTo(archives[v].objects, v)
            BY DEF QuietInv, DependenciesInv, StoreUpTo
        <3>2. v < n /\ v \in Nat /\ n \in Nat
            BY <1>1
        <3> QED BY <3>1, <3>2 DEF UpTo
    <2> QED BY <1>1, <1>2, <1>3, <2>1, VersionsKept
<1>5. SessionReads /\ SessionObjects /\ SessionParts
    BY <1>2 DEF QuietInv, SessionSound
<1>6. \A s \in DOMAIN objects : objects[s].hash \in Data /\ StandsFor(objects[s].hash, Held(s))
    BY <1>1, FinishedObject
<1>7. SoundObjects(f)'
    BY <1>1, <1>2, <1>6, FinishedFile DEF SoundObjects
<1>8. DistinctStreams(f)'
    BY <1>1, FinishedDistinct DEF DistinctStreams
<1>9. ASSUME NEW s \in DOMAIN objects
      PROVE  Stored(f[s])'
    <2>1. CASE objects[s].latest = n
        <3>1. ~(s \in DOMAIN session.old /\ objects[s].latest = session.old[s].latest)
            <4> SUFFICES ASSUME s \in DOMAIN session.old, session.old[s].latest = n
                         PROVE  FALSE
                BY <2>1
            <4>1. session.old # NoObjects
                BY DEF NoObjects
            <4>2. session.old[s].latest < n /\ n \in Nat
                BY <1>1, <1>2, <4>1, OldVersion, BoundsAssumption DEF Version
            <4> QED BY <4>2
        <3>2. PICK i \in DOMAIN parts : /\ parts[i].id = objects[s].stream_id
                                        /\ parts[i].data = objects[s].hash
            BY <1>1, <3>1, FinishedObject
        <3> QED BY <1>1, <2>1, <3>2 DEF Stored
    <2>2. CASE objects[s].latest # n
        <3>1. /\ s \in DOMAIN session.old
              /\ objects[s].latest = session.old[s].latest
              /\ objects[s].stream_id = session.old[s].stream_id
              /\ objects[s].hash = session.old[s].hash
            BY <1>1, <2>2, FinishedObject
        <3>2. session.old # NoObjects
            BY <3>1 DEF NoObjects
        <3>3. Stored(session.old[s])
            BY <1>2, <3>1, <3>2, OldVersion
        <3>4. f[s].latest \in Versions' => /\ session.old[s].latest \in Versions
                                           /\ archives'[f[s].latest] = archives[session.old[s].latest]
            BY <1>1, <1>3, <2>2, <3>1
        <3>5. f[s].stream_id = session.old[s].stream_id /\ f[s].hash = session.old[s].hash
            BY <1>1, <3>1
        <3> QED BY <3>3, <3>4, <3>5 DEF Stored
    <2> QED BY <2>1, <2>2
<1>10. Aligned(parts)
    BY <1>1, <1>5 DEF Aligned, SessionParts
<1>11. DatesTell(f, LiveView)
    <2> SUFFICES ASSUME NEW s \in DOMAIN objects,
                        LiveView.node[s[2]] = FileNode(s[2]),
                        LiveView.disk[s[2]].date = objects[s].date
                 PROVE  StandsFor(objects[s].hash, LiveView.disk[s[2]].data)
        BY <1>1 DEF DatesTell
    <2>1. View.node[s[2]] = FileNode(s[2]) /\ objects[s].date = View.disk[s[2]].date
        BY <1>1, FinishedFile
    <2>2. s[2] \in Paths
        BY <1>2, SessionObject
    <2>3. View.disk[s[2]].data = LiveView.disk[s[2]].data
        BY <1>5, <2>1, <2>2 DEF SessionReads, SameDateSameData
    <2> QED BY <1>6, <2>3 DEF Held
<1>12. KeepsPromise(f, window)
    BY <1>1, <1>6, FinishedFile DEF KeepsPromise
<1>15. ASSUME session.unmapped = Live
       PROVE  CoversPromise(f, window)
    <2> SUFFICES ASSUME NEW p \in DOMAIN window, window[p] # {Nothing}
                 PROVE  \E s \in DOMAIN f : s[2] = p
        BY DEF CoversPromise
    <2>1. p \in Paths /\ window[p] = {Content(View, p)}
        BY <1>5 DEF SessionReads
    <2>2. View.node[p] # NoNode
        BY <2>1, AbsentFile
    <2>3. PICK i \in DOMAIN Sources : p \in Sources[i]
        BY <2>1 DEF QuietUse
    <2>4. <<i, p>> \in Slots
        BY <2>1, <2>3, PathsAssumption DEF Slots
    <2>5. <<i, p>> \in DOMAIN objects
        BY <1>5, <1>15, <2>2, <2>4 DEF SessionReads
    <2> QED BY <1>1, <2>5
<1>13. SoundVersion(n)'
    <2>1. DatesTell(f, LiveView') /\ Aligned(parts) /\ KeepsPromise(f, window)
        BY <1>2, <1>10, <1>11, <1>12
    <2>2. \A s \in DOMAIN f : Stored(f[s])'
        BY <1>1, <1>9
    <2>3. session.unmapped = Live => CoversPromise(f, window)
        BY <1>15
    <2> QED BY <1>1, <1>7, <1>8, <2>1, <2>2, <2>3 DEF SoundVersion
<1>14. AuxAgrees'
    BY <1>1 DEF QuietInv, StoreSound, AuxAgrees
<1> QED BY <1>1, <1>4, <1>13, <1>14 DEF StoreSound, SessionSound, Running

LEMMA QuietNext ==
    ASSUME QuietUse
    PROVE  QuietInv /\ [Next]_vars => QuietInv'
<1> SUFFICES ASSUME QuietInv, [Next]_vars
             PROVE  PlainFiles(LiveView)' /\ StoreSound' /\ SessionSound'
    BY DependenciesNext DEF QuietInv, QuietUse
<1>1. Inv'
    BY DependenciesNext DEF QuietInv, QuietUse, DependenciesInv
<1>2. CASE UNCHANGED vars
    <2>1. UNCHANGED fsVars /\ UNCHANGED <<archives, aux, promised>>
        BY <1>2 DEF vars, storeVars
    <2> QED BY <1>1, <1>2, <2>1, StillFiles, StoreSoundKept, SessionSoundStill
            DEF vars, sessionVars
<1>3. ASSUME NEW x \in Exclusions, NEW c \in Criteria, NEW u \in Snapshots,
             BeginBackup(x, c, u)
      PROVE  PlainFiles(LiveView)' /\ StoreSound' /\ SessionSound'
    <2>1. UNCHANGED fsVars /\ UNCHANGED <<archives, aux, promised>>
        BY <1>3 DEF BeginBackup, storeVars
    <2> QED BY <1>1, <1>3, <2>1, StillFiles, StoreSoundKept, BeginSound
<1>4. ASSUME NEW c \in Criteria, RetryBackup(c)
      PROVE  FALSE
    <2>1. phase = "failed" /\ session.retries < 0
        BY <1>4 DEF RetryBackup, QuietUse
    <2>2. session.retries \in Nat
        BY <2>1 DEF QuietInv, DependenciesInv, Inv, TypeInv, SessionTyped
    <2> QED BY <2>1, <2>2
<1>5. ASSUME SessionStep, ~CommitBackup
      PROVE  PlainFiles(LiveView)' /\ StoreSound' /\ SessionSound'
    <2>1. UNCHANGED fsVars /\ UNCHANGED <<archives, aux, promised>>
        BY <1>5 DEF SessionStep, GenerateStream, ReorderFileStreams, OpenFile, StoreFile,
                    FailToOpen, storeVars
    <2>2. PlainFiles(LiveView)' /\ StoreSound'
        BY <1>1, <2>1, StillFiles, StoreSoundKept
    <2>3. FailToOpen => SessionSound'
        BY DEF FailToOpen, SessionSound, Running
    <2>4. SessionSound'
        BY <1>1, <1>5, <2>3, GenerateSound, ReorderSound, OpenSound, StoreFileSound
           DEF SessionStep
    <2> QED BY <2>2, <2>4
<1>6. CASE CommitBackup
    <2>1. UNCHANGED fsVars
        BY <1>6 DEF CommitBackup
    <2> QED BY <1>1, <1>6, <2>1, StillFiles, CommitSound
<1>7. CASE Crash
    <2>1. UNCHANGED fsVars /\ UNCHANGED <<archives, aux, promised>> /\ phase' = "idle"
        BY <1>7 DEF Crash, storeVars, NoSession
    <2> QED BY <1>1, <2>1, StillFiles, StoreSoundKept DEF SessionSound, Running
<1>8. ASSUME FilesMove, FilesOnly
      PROVE  PlainFiles(LiveView)' /\ StoreSound' /\ SessionSound'
    BY <1>1, <1>8, MovedFiles, StoreSoundKept, SessionSoundStill DEF FilesOnly
<1>9. ASSUME NEW v \in Version, RestoreBackup(v) \/ AbandonRestore(v)
      PROVE  PlainFiles(LiveView)' /\ StoreSound' /\ SessionSound'
    BY <1>8, <1>9, RestoreMoves
<1>10. ASSUME NEW p \in Paths, NEW d, WriteFile(p, d) \/ CreateFile(p, d) \/ DeletePath(p)
       PROVE  PlainFiles(LiveView)' /\ StoreSound' /\ SessionSound'
    BY <1>8, <1>10, EditsMove
<1>11. ASSUME NEW v \in Version, NEW kind \in {"archive", "version"},
              DeleteArchive(v, kind) \/ DeleteAux(v)
       PROVE  PlainFiles(LiveView)' /\ StoreSound' /\ SessionSound'
    <2>1. /\ UNCHANGED <<fsVars, phase, sessionVars>> /\ phase = "idle"
        BY <1>11 DEF DeleteArchive, DeleteAux
    <2> QED BY <1>1, <1>11, <2>1, StillFiles, DeleteSound DEF SessionSound, Running
<1>12. ~(\E pq \in Linkable : MakeHardlink(pq[1], pq[2]) \/ MakeSymlink(pq[1], pq[2]))
    BY DEF QuietUse
<1> QED BY <1>2, <1>3, <1>4, <1>5, <1>6, <1>7, <1>9, <1>10, <1>11, <1>12 DEF Next

\* README.txt, "Transparency": whatever was written, deleted, restored,
\* backed up, crashed or deleted from the backup before, a version whose
\* archives are there restores without a failed assertion (restore_thread,
\* BackupSystem.cpp:928), every file it covers comes back as it stood when the
\* version was made, up to the criterion "size", and no other file appears.
THEOREM RestoreIsExact ==
    ASSUME QuietUse
    PROVE  Spec => []RestoreIntegrity
<1>1. Init => QuietInv
    BY QuietInit
<1>2. QuietInv /\ [Next]_vars => QuietInv'
    BY QuietNext
<1>3. QuietInv => RestoreIntegrity
    BY SoundVersionsRestore
<1> QED BY <1>1, <1>2, <1>3, PTL DEF Spec
-----------------------------------------------------------------------------
\* Files that are not stored again.

\* Further conditions: no criterion that takes an untouched file for a changed
\* one, and no shadow copy, whose device the next session does not find.
QuietCriteria ==
    /\ "ArchiveFlag" \notin Criteria
    /\ "Size" \in Criteria => Criteria \cap {"Hash", "HashAuto"} = {}
    /\ Snapshots = {FALSE}

\* Every list is one of live files, so each session but the first compares its
\* files with those of the version before ...
ListsAreLive ==
    /\ \A v \in Versions : /\ archives[v].mapped = Live
                           /\ aux[v] # <<>> => aux[v][1].unmapped = Live
    /\ Running =>
          /\ session.unmapped = Live /\ session.mapped = Live
          /\ session.version # 0 => session.old = archives[session.version - 1].objects

\* ... and stores only what differs.
StreamsAreNew ==
    Running => \A s \in streams : s \in DOMAIN session.old =>
        \/ objects[s].date # session.old[s].date
        \/ objects[s].size # session.old[s].size

AgainInv == QuietInv /\ ListsAreLive /\ StreamsAreNew /\ UnchangedNotStoredAgain

LEMMA StoredHasChanged ==
    ASSUME QuietUse, QuietCriteria, QuietInv, NEW s, GenerateStream(s)
    PROVE  \/ streams' = streams
           \/ /\ streams' = streams \cup {s}
              /\ s \in DOMAIN session.old =>
                    \/ objects[s].date # session.old[s].date
                    \/ objects[s].size # session.old[s].size
<1> DEFINE f == [objects[s] EXCEPT !.latest = version_if_added(objects[s])]
           old == session.old[s]
           criterium == get_change_criterium(f)
<1>1. /\ phase = "generating" /\ s \in todo
      /\ streams' = IF should_be_added(objects[s]) /\ f.mode = "Full" /\ file_has_changed(f)
                    THEN streams \cup {s} ELSE streams
    BY DEF GenerateStream
<1>2. Running /\ s \in DOMAIN objects
    BY <1>1 DEF QuietInv, DependenciesInv, Inv, TypeInv, SessionTyped, Running
<1>3. /\ objects[s] \in FsoRecord /\ objects[s].path = s[2] /\ s \in Slots /\ s[2] \in Paths
      /\ View.node[s[2]] = FileNode(s[2]) /\ Resolve(View, s[2]) = s[2]
    BY <1>2, SessionObject
<1>4. /\ f.path = s[2] /\ f.size = objects[s].size /\ f.date = objects[s].date
      /\ f.hash = objects[s].hash
    BY <1>3 DEF FsoRecord
<1>12. objects[s].hash = NoHash
    BY <1>1, <1>2 DEF QuietInv, SessionSound, SessionObjects
<1> HIDE DEF f
<1> SUFFICES ASSUME file_has_changed(f), s \in DOMAIN session.old,
                    f.date = old.date, f.size = old.size
             PROVE  FALSE
    BY <1>1, <1>4
<1>5. OldSlots(f.path) # {} /\ OldObject(f.path) = old
    BY <1>2, <1>3, <1>4, OldObjectIs DEF OldSlots, Running
<1> HIDE DEF old, View
<1>6. \/ criterium = "ArchiveFlag"
      \/ criterium = "Hash" /\ ~compare_hashes(f, old)
    BY <1>5 DEF file_has_changed
<1>7. session.criterium \in Criteria
    BY <1>2 DEF QuietInv, SessionSound, SessionReads
<1>8. criterium # "ArchiveFlag" /\ (criterium = "Hash" => "Size" \notin Criteria)
    BY <1>7, CommandsAssumption DEF get_change_criterium, QuietCriteria
<1>9. View.disk[s[2]].data # old.hash
    BY <1>3, <1>4, <1>6, <1>8, <1>12 DEF compare_hashes, compute_hash
<1>10. DatesTell(session.old, View) /\ objects[s].date = View.disk[s[2]].date
    BY <1>2 DEF QuietInv, SessionSound, SessionReads, SessionObjects
<1>11. StandsFor(old.hash, View.disk[s[2]].data)
    BY <1>3, <1>4, <1>10 DEF DatesTell, old
<1> QED BY <1>6, <1>8, <1>9, <1>11 DEF StandsFor

LEMMA BeginLive ==
    ASSUME QuietCriteria, AgainInv, NEW x, NEW c, BeginBackup(x, c, FALSE)
    PROVE  ListsAreLive' /\ StreamsAreNew'
<1> DEFINE start == StartingPoint(Live)
           v == get_version_count - 1
<1>1. /\ session'.version = get_version_count /\ session'.unmapped = start.place
      /\ session'.mapped = map_forward(start.place, Live)
      /\ session'.old = IF start.place = map_forward(start.place, Live)
                        THEN start.objects ELSE NoObjects
      /\ streams' = {}
      /\ UNCHANGED <<archives, aux>>
    BY DEF BeginBackup, storeVars
<1>2. start.place = Live /\ (get_version_count # 0 => start.objects = archives[v].objects)
    <2>1. CASE get_version_count = 0
        BY <2>1 DEF StartingPoint
    <2>2. CASE get_version_count # 0
        <3>1. v \in Versions /\ v \in Version
            BY <2>2, VersionCount DEF Versions
        <3>2. /\ get_old_objects(v, Live).mapped = Live
              /\ get_old_objects(v, Live).objects = archives[v].objects
            BY <3>1 DEF AgainInv, ListsAreLive, QuietInv, StoreSound, AuxAgrees,
                        get_old_objects, map_forward
        <3> QED BY <2>2, <3>2 DEF StartingPoint
    <2> QED BY <2>1, <2>2
<1>3. map_forward(Live, Live) = Live
    BY DEF map_forward
<1> HIDE DEF start
<1>4. Versions' = Versions
    BY <1>1 DEF Versions
<1> QED BY <1>1, <1>2, <1>3, <1>4 DEF AgainInv, ListsAreLive, StreamsAreNew

\* Steps that leave the streams, and what they are compared with, alone.
LEMMA AgainKept ==
    ASSUME AgainInv, UNCHANGED <<archives, aux>>, Running' => Running,
           Running => /\ UNCHANGED <<session, streams>>
                      /\ \A s \in streams : /\ objects'[s].date = objects[s].date
                                            /\ objects'[s].size = objects[s].size
    PROVE  ListsAreLive' /\ StreamsAreNew' /\ UnchangedNotStoredAgain'
<1>1. Versions' = Versions
    BY DEF Versions
<1> QED BY <1>1 DEF AgainInv, ListsAreLive, StreamsAreNew, UnchangedNotStoredAgain

LEMMA CommitAgain ==
    ASSUME QuietUse, AgainInv, CommitBackup
    PROVE  ListsAreLive' /\ StreamsAreNew' /\ UnchangedNotStoredAgain'
<1>1. QuietInv
    BY DEF AgainInv
<1>2. PICK n, f :
            /\ n \in Version /\ n = session.version /\ n \notin Versions /\ Versions' = Versions \cup {n}
            /\ \A v \in Versions : v < n /\ v \in Nat /\ n \in Nat
            /\ phase = "storing" /\ Len(parts) = Len(queue) /\ phase' = "idle"
            /\ archives'[n].objects = f
            /\ archives'[n].mapped = session.mapped
            /\ archives'[n].unmapped = session.unmapped
            /\ aux'[n][1].unmapped = session.unmapped
            /\ \A v \in Version \ {n} : archives'[v] = archives[v] /\ aux'[v] = aux[v]
            /\ DOMAIN f = DOMAIN objects
            /\ \A s \in DOMAIN objects :
                  /\ f[s].size = objects[s].size /\ f[s].date = objects[s].date
                  /\ f[s].latest = objects[s].latest
                  /\ f[s].stream_id = objects[s].stream_id
    BY <1>1, CommitWrites
<1>3. Running /\ ~Running'
    BY <1>2 DEF Running
<1>4. \A v \in Versions : v \in Version \ {n} /\ archives'[v] = archives[v] /\ aux'[v] = aux[v]
    BY <1>2 DEF Versions
<1>5. ListsAreLive' /\ StreamsAreNew'
    BY <1>2, <1>3, <1>4 DEF AgainInv, ListsAreLive, StreamsAreNew
<1>6. n - 1 # n /\ n \in Nat
    BY <1>2, BoundsAssumption DEF Version
<1>7. ASSUME NEW v \in Versions', v - 1 \in Versions'
      PROVE  LET new == archives'[v].objects
                 old == archives'[v - 1].objects
             IN  \A s \in DOMAIN new \cap DOMAIN old :
                    /\ new[s].date = old[s].date
                    /\ new[s].size = old[s].size
                    /\ new[s].type = "RegularFile" /\ old[s].type = "RegularFile"
                    => /\ new[s].latest = old[s].latest
                       /\ new[s].stream_id = old[s].stream_id
    <2>1. CASE v = n
        <3>1. v - 1 \in Versions /\ archives'[v - 1] = archives[v - 1]
            BY <1>2, <1>4, <1>6, <1>7, <2>1
        <3>2. n # 0
            <4>1. v - 1 \in Nat
                BY <1>2, <3>1
            <4> QED BY <2>1, <4>1
        <3>3. session.old = archives[v - 1].objects
            BY <1>2, <1>3, <2>1, <3>2 DEF AgainInv, ListsAreLive
        <3>4. ASSUME NEW s \in DOMAIN objects \cap DOMAIN session.old,
                     f[s].date = session.old[s].date, f[s].size = session.old[s].size
              PROVE  /\ f[s].latest = session.old[s].latest
                     /\ f[s].stream_id = session.old[s].stream_id
            <4>1. s \notin streams
                BY <1>2, <1>3, <3>4 DEF AgainInv, StreamsAreNew
            <4> QED BY <1>1, <1>2, <4>1, FinishedObject
        <3> QED BY <1>2, <2>1, <3>1, <3>3, <3>4
    <2>2. CASE v # n
        <3>1. v \in Versions /\ v < n /\ v \in Nat
            BY <1>2, <1>7, <2>2
        <3>2. v - 1 # n
            BY <1>6, <3>1
        <3>3. v - 1 \in Versions
            BY <1>2, <1>7, <3>2
        <3> QED BY <1>4, <3>1, <3>3 DEF AgainInv, UnchangedNotStoredAgain
    <2> QED BY <2>1, <2>2
<1> QED BY <1>5, <1>7 DEF UnchangedNotStoredAgain

LEMMA GenerateAgain ==
    ASSUME QuietUse, QuietCriteria, AgainInv, NEW s, GenerateStream(s)
    PROVE  ListsAreLive' /\ StreamsAreNew' /\ UnchangedNotStoredAgain'
<1>1. /\ UNCHANGED <<archives, aux, session>> /\ Running /\ Versions' = Versions
    BY DEF GenerateStream, storeVars, Running, Versions
<1>2. ListsAreLive' /\ UnchangedNotStoredAgain'
    BY <1>1 DEF AgainInv, ListsAreLive, UnchangedNotStoredAgain
<1>3. PICK g \in FsoRecord :
            /\ s \in DOMAIN objects /\ objects' = [objects EXCEPT ![s] = g]
            /\ g.size = objects[s].size /\ g.date = objects[s].date
    BY GenerateEffect DEF AgainInv
<1>4. \A t \in DOMAIN objects : /\ objects'[t].size = objects[t].size
                                /\ objects'[t].date = objects[t].date
    BY <1>3
<1>5. streams \subseteq DOMAIN objects
    BY <1>1 DEF AgainInv, QuietInv, DependenciesInv, Inv, TypeInv, SessionTyped, Running
<1>6. ASSUME NEW t \in streams', t \in DOMAIN session.old
      PROVE  objects[t].date # session.old[t].date \/ objects[t].size # session.old[t].size
    BY <1>1, <1>6, StoredHasChanged DEF AgainInv, StreamsAreNew
<1>7. streams' \subseteq DOMAIN objects
    BY <1>3, <1>5, StoredHasChanged DEF AgainInv
<1>8. StreamsAreNew'
    BY <1>1, <1>4, <1>6, <1>7 DEF StreamsAreNew
<1> QED BY <1>2, <1>8

LEMMA DeleteAgain ==
    ASSUME QuietUse, AgainInv, NEW v \in Version, NEW kind \in {"archive", "version"},
           DeleteArchive(v, kind) \/ DeleteAux(v)
    PROVE  ListsAreLive' /\ StreamsAreNew' /\ UnchangedNotStoredAgain'
<1>1. kind = "version" \/ ~DeleteArchive(v, kind)
    BY DEF DeleteArchive, QuietUse
<1>2. /\ phase' = "idle"
      /\ aux' = [aux EXCEPT ![v] = <<>>]
      /\ archives' = archives \/ archives' = [archives EXCEPT ![v] = NoArchive]
    BY <1>1 DEF DeleteArchive, DeleteAux
<1>3. DOMAIN archives = Version /\ DOMAIN aux = Version
    BY DEF AgainInv, QuietInv, DependenciesInv, Inv, TypeInv, StoreTyped
<1>4. /\ Versions' \subseteq Versions
      /\ \A w \in Versions' : /\ archives'[w] = archives[w]
                              /\ aux'[w] = aux[w] \/ aux'[w] = <<>>
    BY <1>2, <1>3 DEF Versions
<1>5. ListsAreLive' /\ StreamsAreNew'
    BY <1>2, <1>4 DEF AgainInv, ListsAreLive, StreamsAreNew, Running
<1>6. UnchangedNotStoredAgain'
    BY <1>4 DEF AgainInv, UnchangedNotStoredAgain
<1> QED BY <1>5, <1>6

LEMMA AgainInit ==
    ASSUME QuietUse
    PROVE  Init => AgainInv
<1> SUFFICES ASSUME Init PROVE AgainInv
    OBVIOUS
<1>1. Versions = {} /\ ~Running
    BY DEF Init, Versions, Running
<1> QED BY <1>1, QuietInit DEF AgainInv, ListsAreLive, StreamsAreNew,
           UnchangedNotStoredAgain

LEMMA AgainNext ==
    ASSUME QuietUse, QuietCriteria
    PROVE  AgainInv /\ [Next]_vars => AgainInv'
<1> SUFFICES ASSUME AgainInv, [Next]_vars
             PROVE  ListsAreLive' /\ StreamsAreNew' /\ UnchangedNotStoredAgain'
    BY QuietNext DEF AgainInv
<1>1. CASE UNCHANGED vars
    BY <1>1, AgainKept DEF vars, storeVars, sessionVars, Running
<1>2. ASSUME NEW x \in Exclusions, NEW c \in Criteria, NEW u \in Snapshots,
             BeginBackup(x, c, u)
      PROVE  ListsAreLive' /\ StreamsAreNew' /\ UnchangedNotStoredAgain'
    <2>1. u = FALSE /\ UNCHANGED archives
        BY <1>2 DEF QuietCriteria, BeginBackup, storeVars
    <2>2. UnchangedNotStoredAgain'
        BY <2>1 DEF AgainInv, UnchangedNotStoredAgain, Versions
    <2> QED BY <1>2, <2>1, <2>2, BeginLive
<1>3. ASSUME NEW c \in Criteria, RetryBackup(c)
      PROVE  FALSE
    <2>1. phase = "failed" /\ session.retries < 0
        BY <1>3 DEF RetryBackup, QuietUse
    <2>2. session.retries \in Nat
        BY <2>1 DEF AgainInv, QuietInv, DependenciesInv, Inv, TypeInv, SessionTyped
    <2> QED BY <2>1, <2>2
<1>4. ASSUME NEW order \in SortedOrders, ReorderFileStreams(order)
      PROVE  ListsAreLive' /\ StreamsAreNew' /\ UnchangedNotStoredAgain'
    <2>1. /\ UNCHANGED <<archives, aux, session, streams>> /\ Running
          /\ objects' = [s \in DOMAIN objects |->
                IF s \in streams
                THEN [objects[s] EXCEPT
                        !.stream_id = NthId(CHOOSE i \in DOMAIN order : order[i] = s)]
                ELSE objects[s]]
        BY <1>4 DEF ReorderFileStreams, storeVars, Running
    <2>2. \A s \in streams : s \in DOMAIN objects /\ objects[s] \in FsoRecord
        BY <2>1, SessionObject DEF AgainInv, QuietInv, DependenciesInv, Inv, TypeInv,
                                   SessionTyped, Running
    <2>3. \A s \in streams : /\ objects'[s].date = objects[s].date
                             /\ objects'[s].size = objects[s].size
        BY <2>1, <2>2 DEF FsoRecord
    <2> QED BY <2>1, <2>3, AgainKept
<1>5. CASE OpenFile
    <2>1. UNCHANGED <<archives, aux, session, streams, objects>> /\ Running
        BY <1>5 DEF OpenFile, Storing, storeVars, Running
    <2> QED BY <2>1, AgainKept
<1>6. CASE StoreFile
    <2>1. /\ UNCHANGED <<archives, aux, session, streams>> /\ Running
          /\ \E d : objects' = [objects EXCEPT ![Current].hash = d]
        BY <1>6 DEF StoreFile, Storing, storeVars, Running
    <2>2. \A s \in streams : s \in DOMAIN objects /\ objects[s] \in FsoRecord
        BY <2>1, SessionObject DEF AgainInv, QuietInv, DependenciesInv, Inv, TypeInv,
                                   SessionTyped, Running
    <2>3. \A s \in streams : /\ objects'[s].date = objects[s].date
                             /\ objects'[s].size = objects[s].size
        BY <2>1, <2>2 DEF FsoRecord
    <2> QED BY <2>1, <2>3, AgainKept
<1>7. CASE FailToOpen \/ Crash
    <2>1. UNCHANGED <<archives, aux>> /\ ~Running'
        BY <1>7 DEF FailToOpen, Crash, NoSession, storeVars, Running
    <2> QED BY <2>1 DEF AgainInv, ListsAreLive, StreamsAreNew, UnchangedNotStoredAgain,
                        Versions
<1>8. ASSUME FilesOnly
      PROVE  ListsAreLive' /\ StreamsAreNew' /\ UnchangedNotStoredAgain'
    BY <1>8, AgainKept DEF FilesOnly, Running
<1>9. ASSUME NEW v \in Version, RestoreBackup(v) \/ AbandonRestore(v)
      PROVE  ListsAreLive' /\ StreamsAreNew' /\ UnchangedNotStoredAgain'
    BY <1>8, <1>9, RestoreMoves DEF AgainInv
<1>10. ASSUME NEW p \in Paths, NEW d \in Writable, WriteFile(p, d) \/ CreateFile(p, d)
       PROVE  ListsAreLive' /\ StreamsAreNew' /\ UnchangedNotStoredAgain'
    BY <1>8, <1>10, EditsMove DEF AgainInv
<1>11. ~(\E pq \in Linkable : MakeHardlink(pq[1], pq[2]) \/ MakeSymlink(pq[1], pq[2]))
    BY DEF QuietUse
<1>12. CASE SessionStep
    BY <1>4, <1>5, <1>6, <1>7, <1>12, GenerateAgain, CommitAgain DEF SessionStep
<1>13. CASE \E v \in Version, kind \in {"archive", "version"} : DeleteArchive(v, kind)
    BY <1>13, DeleteAgain
<1>14. CASE \E v \in Version : DeleteAux(v)
    BY <1>14, DeleteAgain
<1>15. \/ UNCHANGED vars \/ SessionStep \/ Crash
       \/ \E x \in Exclusions, c \in Criteria, u \in Snapshots : BeginBackup(x, c, u)
       \/ \E c \in Criteria : RetryBackup(c)
       \/ \E v \in Version : RestoreBackup(v) \/ AbandonRestore(v)
       \/ \E p \in Paths, d \in Writable : WriteFile(p, d) \/ CreateFile(p, d)
       \/ \E p \in Paths : DeletePath(p)
       \/ \E v \in Version, kind \in {"archive", "version"} : DeleteArchive(v, kind)
       \/ \E v \in Version : DeleteAux(v)
    BY <1>11 DEF Next
<1>16. CASE \E p \in Paths : DeletePath(p)
    BY <1>8, <1>16, EditsMove DEF AgainInv
<1> QED BY <1>1, <1>2, <1>3, <1>7, <1>9, <1>10, <1>12, <1>13, <1>14, <1>15, <1>16

\* README.txt, "Incremental backups": in the same use, with a criterion that
\* compares dates or sizes and no shadow copy, whatever is written, restored,
\* deleted from the backup or crashes between two sessions, a regular file
\* whose date and size are those of the version before is never stored again:
\* its new object names the stream the old one named (file_has_changed,
\* BackupSystem.cpp:753).
THEOREM UntouchedIsNotStoredAgain ==
    ASSUME QuietUse, QuietCriteria
    PROVE  Spec => []UnchangedNotStoredAgain
<1>1. Init => AgainInv
    BY AgainInit
<1>2. AgainInv /\ [Next]_vars => AgainInv'
    BY AgainNext
<1>3. AgainInv => UnchangedNotStoredAgain
    BY DEF AgainInv
<1> QED BY <1>1, <1>2, <1>3, PTL DEF Spec
-----------------------------------------------------------------------------
\* The abstract store.

\* Further conditions: every session covers all files, no criterion mistakes
\* one content for another, and the user leaves the files of the backup alone.
QuietHistory ==
    /\ "Size" \notin Criteria
    /\ \A x \in Exclusions : x.hidden = {}
    /\ Deletions = {}

\* A session finds one content at each path; a version keeps it.
Whole(found) ==
    DOMAIN found = Paths /\ \A p \in Paths : \E c \in Contents : found[p] = {c}
Kept(found) == [p \in Paths |-> CHOOSE c \in Contents : found[p] = {c}]

HistoryInv ==
    /\ AgainInv
    /\ Versions = 0 .. get_version_count - 1
    /\ \A v \in Versions : archives[v].unmapped = Live /\ Whole(promised[v])
    /\ Running => Whole(window) /\ Kept(window) = LiveFiles

VersionsAreKept == \A v \in Versions : RestoreOutcome(v).content = Kept(promised[v])
StoreIsKept == KeptVersions = [i \in 1 .. get_version_count |-> Kept(promised[i - 1])]
LiveFilesTyped == LiveFiles \in [Paths -> Contents]

LEMMA LastVersion ==
    ASSUME NEW n \in Nat
    PROVE  1 + (CHOOSE v \in 0 .. n : \A w \in 0 .. n : w <= v) = n + 1
<1> DEFINE last == CHOOSE v \in 0 .. n : \A w \in 0 .. n : w <= v
<1>1. n \in 0 .. n /\ \A w \in 0 .. n : w <= n
    OBVIOUS
<1>2. last \in 0 .. n /\ \A w \in 0 .. n : w <= last
    BY <1>1
<1> HIDE DEF last
<1>3. last = n
    BY <1>1, <1>2
<1> QED BY <1>3 DEF last

LEMMA OneContent ==
    ASSUME NEW found, NEW p \in Paths, NEW c \in Contents, found[p] = {c}
    PROVE  Kept(found)[p] = c
<1>1. \A d \in Contents : found[p] = {d} <=> d = c
    OBVIOUS
<1> QED BY <1>1 DEF Kept

LEMMA FileContents ==
    ASSUME NEW d \in Data
    PROVE  File(d) \in Contents
BY DEF File, Contents

LEMMA ContentsOfFiles ==
    ASSUME QuietInv, NEW p \in Paths
    PROVE  Content(LiveView, p) \in Contents
<1>1. LiveView.node = node /\ LiveView.disk = disk /\ disk[p].data \in Data
    BY DEF LiveView, QuietInv, DependenciesInv, Inv, TypeInv, FilesTyped, Disk
<1>2. CASE node[p] = NoNode
    BY <1>1, <1>2, AbsentFile DEF Contents
<1>3. CASE node[p] = FileNode(p)
    BY <1>1, <1>3, PlainFile, FileContents DEF QuietInv
<1> QED BY <1>1, <1>2, <1>3 DEF QuietInv, PlainFiles

LEMMA FilesTypedAlways ==
    ASSUME QuietInv
    PROVE  LiveFilesTyped
BY ContentsOfFiles DEF LiveFilesTyped, LiveFiles

\* What the session notes down when it begins.
LEMMA NotesFiles ==
    ASSUME QuietInv, NEW found, DOMAIN found = Paths,
           \A p \in Paths : found[p] = {Content(LiveView, p)}
    PROVE  Whole(found) /\ Kept(found) = LiveFiles
<1>1. Whole(found)
    BY ContentsOfFiles DEF Whole
<1>2. \A p \in Paths : Kept(found)[p] = Content(LiveView, p)
    BY ContentsOfFiles, OneContent
<1>3. Kept(found) = LiveFiles
    BY <1>2 DEF Kept, LiveFiles
<1> QED BY <1>1, <1>3

\* Every version is restored, and to what it keeps.
LEMMA KeptIsRestored ==
    ASSUME QuietUse, QuietHistory, HistoryInv
    PROVE  VersionsAreKept
<1> SUFFICES ASSUME NEW v \in Versions
             PROVE  RestoreOutcome(v).content = Kept(promised[v])
    BY DEF VersionsAreKept
<1> DEFINE content == RestoreOutcome(v).content
<1>1. /\ archives[v].unmapped = Live /\ Whole(promised[v])
      /\ Versions = 0 .. get_version_count - 1 /\ get_version_count \in Nat
    BY VersionCount DEF HistoryInv
<1>2. Restorable(v)
    <2> SUFFICES ASSUME NEW w \in archives[v].deps
                 PROVE  w \in Versions
        BY DEF Restorable
    <2>1. w <= v
        BY DEF HistoryInv, AgainInv, QuietInv, DependenciesInv, DependenciesClosed
    <2>2. w \in Version
        BY ArchiveFields
           DEF HistoryInv, AgainInv, QuietInv, DependenciesInv, Inv, TypeInv, Archive
    <2> QED BY <1>1, <2>1, <2>2, BoundsAssumption DEF Version
<1>3. /\ \A p \in DOMAIN promised[v] :
            Nothing \notin promised[v][p] =>
                \E c \in promised[v][p] : Indistinguishable(content[p], c)
      /\ \A p \in Paths :
            (p \in DOMAIN promised[v] => promised[v][p] = {Nothing}) => content[p] = Nothing
    BY <1>1, <1>2, SoundVersionsRestore DEF RestoreIntegrity, HistoryInv, AgainInv
<1>4. content = [p \in Paths |-> content[p]]
    <2>1. content = BroughtBack(v, RestoredFiles(v))
        BY <1>1, <1>2 DEF RestoreOutcome, Restorable
    <2> QED BY <2>1 DEF BroughtBack
<1> HIDE DEF content
<1>5. ASSUME NEW p \in Paths
      PROVE  content[p] = Kept(promised[v])[p]
    <2>1. PICK c \in Contents : promised[v][p] = {c}
        BY <1>1 DEF Whole
    <2>2. content[p] = c
        BY <1>1, <1>3, <2>1 DEF Whole, Indistinguishable, QuietHistory
    <2> QED BY <2>1, <2>2, OneContent
<1> QED BY <1>4, <1>5 DEF content, Kept

LEMMA HistoryInit ==
    ASSUME QuietUse
    PROVE  Init => HistoryInv /\ KeptVersions = <<>>
<1> SUFFICES ASSUME Init PROVE HistoryInv /\ KeptVersions = <<>>
    OBVIOUS
<1>1. Versions = {} /\ ~Running
    BY DEF Init, Versions, Running
<1>2. get_version_count = 0
    BY <1>1 DEF get_version_count
<1>3. Versions = 0 .. get_version_count - 1 /\ KeptVersions = <<>>
    BY <1>1, <1>2 DEF KeptVersions
<1> QED BY <1>1, <1>3, AgainInit DEF HistoryInv

\* The numbers after a commit.
LEMMA CommitCounts ==
    ASSUME QuietUse, QuietHistory, HistoryInv, CommitBackup
    PROVE  /\ session.version = get_version_count
           /\ get_version_count' = get_version_count + 1
           /\ Versions' = 0 .. get_version_count
<1> DEFINE n == get_version_count
<1>1. /\ session.version \notin Versions /\ session.version \in Version
      /\ Versions' = Versions \cup {session.version} /\ phase = "storing"
    BY CommitWrites DEF HistoryInv, AgainInv
<1>2. n \in Nat /\ Versions = 0 .. n - 1
    BY VersionCount DEF HistoryInv
<1>3. /\ \A v \in Versions : v < session.version
      /\ session.version # 0 => session.version - 1 \in Versions
    BY <1>1 DEF HistoryInv, AgainInv, QuietInv, DependenciesInv, Inv, TypeInv, VersionIsNew
<1> HIDE DEF n
<1>4. session.version = n
    BY <1>1, <1>2, <1>3, BoundsAssumption DEF Version
<1>5. Versions' = 0 .. n
    BY <1>1, <1>2, <1>4
<1>6. get_version_count' = n + 1
    <2>1. get_version_count' = 1 + (CHOOSE v \in 0 .. n : \A w \in 0 .. n : w <= v)
        <3>1. 0 .. n # {}
            BY <1>2
        <3>2. get_version_count' = IF Versions' = {} THEN 0
                    ELSE 1 + (CHOOSE v \in Versions' : \A w \in Versions' : w <= v)
            BY DEF get_version_count
        <3> QED BY <1>5, <3>1, <3>2
    <2> QED BY <1>2, <2>1, LastVersion
<1> QED BY <1>4, <1>5, <1>6 DEF n

LEMMA HistoryKept ==
    ASSUME HistoryInv, AgainInv', UNCHANGED <<archives, promised>>,
           Running' => Running /\ UNCHANGED window /\ LiveFiles' = LiveFiles
    PROVE  HistoryInv'
<1>1. Versions' = Versions /\ get_version_count' = get_version_count
    BY DEF Versions, get_version_count
<1>2. Running' => Whole(window)' /\ Kept(window)' = LiveFiles'
    BY DEF HistoryInv, Whole, Kept
<1> QED BY <1>1, <1>2 DEF HistoryInv, Whole

LEMMA StillLiveFiles ==
    ASSUME UNCHANGED fsVars
    PROVE  LiveFiles' = LiveFiles
BY DEF fsVars, LiveFiles, LiveView, Content

LEMMA BeginHistory ==
    ASSUME QuietUse, QuietCriteria, QuietHistory, HistoryInv, AgainInv',
           NEW x \in Exclusions, NEW c \in Criteria, NEW u \in Snapshots, BeginBackup(x, c, u)
    PROVE  HistoryInv'
<1>1. /\ UNCHANGED fsVars /\ UNCHANGED <<archives, promised>>
      /\ window' = [p \in {q \in Paths : q \notin x.files /\ q \notin x.hidden} |->
                        {Content(LiveView, p)}]
    BY DEF BeginBackup, storeVars
<1>2. x.files = {} /\ x.hidden = {}
    BY DEF QuietUse, QuietHistory
<1>3. DOMAIN window' = Paths /\ \A p \in Paths : window'[p] = {Content(LiveView, p)}
    BY <1>1, <1>2
<1>4. Whole(window') /\ Kept(window') = LiveFiles
    BY <1>3, NotesFiles DEF HistoryInv, AgainInv
<1>5. Versions' = Versions /\ get_version_count' = get_version_count
    BY <1>1 DEF Versions, get_version_count
<1>6. \A v \in Versions' : archives'[v].unmapped = Live /\ Whole(promised[v])'
    BY <1>1, <1>5 DEF HistoryInv, Whole
<1>7. LiveFiles' = LiveFiles
    BY <1>1, StillLiveFiles
<1>8. Whole(window)' /\ Kept(window)' = LiveFiles'
    BY <1>4, <1>7 DEF Whole, Kept
<1>9. Versions' = 0 .. get_version_count' - 1
    BY <1>5 DEF HistoryInv
<1> QED BY <1>6, <1>8, <1>9 DEF HistoryInv

LEMMA CommitHistory ==
    ASSUME QuietUse, QuietHistory, HistoryInv, AgainInv', CommitBackup
    PROVE  /\ HistoryInv'
           /\ promised'[get_version_count] = window
           /\ \A v \in Versions : promised'[v] = promised[v]
<1> DEFINE n == get_version_count
<1>1. /\ session.version = n /\ get_version_count' = n + 1 /\ Versions' = 0 .. n
      /\ n \in Nat /\ Versions = 0 .. n - 1
    BY CommitCounts, VersionCount DEF HistoryInv
<1>2. PICK m, f :
            /\ m \in Version /\ m = session.version /\ m \notin Versions
            /\ promised'[m] = window /\ phase = "storing" /\ phase' = "idle"
            /\ \A v \in Version \ {m} : /\ archives'[v] = archives[v] /\ aux'[v] = aux[v]
                                        /\ promised'[v] = promised[v]
    BY CommitWrites DEF HistoryInv, AgainInv
<1>3. archives'[m].unmapped = session.unmapped
    <2>1. PICK written :
            archives' = [archives EXCEPT ![m] =
                [parts |-> parts, objects |-> written,
                 unmapped |-> session.unmapped, mapped |-> session.mapped,
                 deps |-> deps, nextId |-> nextId]]
        BY <1>2 DEF CommitBackup, target_version
    <2>2. DOMAIN archives = Version
        BY DEF HistoryInv, AgainInv, QuietInv, DependenciesInv, Inv, TypeInv, StoreTyped
    <2> QED BY <1>2, <2>1, <2>2
<1>4. Running /\ ~Running'
    BY <1>2 DEF Running
<1>5. session.unmapped = Live /\ Whole(window)
    BY <1>4 DEF HistoryInv, AgainInv, ListsAreLive
<1>6. \A v \in Versions : /\ archives'[v] = archives[v] /\ promised'[v] = promised[v]
    BY <1>2 DEF Versions
<1> HIDE DEF n
<1>7. ASSUME NEW v \in Versions'
      PROVE  archives'[v].unmapped = Live /\ Whole(promised'[v])
    <2>1. CASE v = n
        BY <1>1, <1>2, <1>3, <1>5, <2>1
    <2>2. CASE v # n
        <3>1. v \in Versions
            BY <1>1, <1>7, <2>2
        <3> QED BY <1>6, <3>1 DEF HistoryInv
    <2> QED BY <2>1, <2>2
<1>8. Versions' = 0 .. get_version_count' - 1
    BY <1>1
<1>9. HistoryInv'
    BY <1>4, <1>7, <1>8 DEF HistoryInv, Whole
<1> QED BY <1>1, <1>2, <1>6, <1>9 DEF n

LEMMA StoreOfKept ==
    ASSUME QuietUse, QuietHistory, HistoryInv
    PROVE  StoreIsKept
<1>1. \A i \in 1 .. get_version_count : i - 1 \in Versions
    BY VersionCount DEF HistoryInv
<1>2. \A i \in 1 .. get_version_count : RestoreOutcome(i - 1).content = Kept(promised[i - 1])
    BY <1>1, KeptIsRestored DEF VersionsAreKept
<1>3. KeptVersions = [i \in 1 .. get_version_count |-> Kept(promised[i - 1])]
    BY <1>2 DEF KeptVersions
<1> QED BY <1>3 DEF StoreIsKept

LEMMA HistoryNext ==
    ASSUME QuietUse, QuietCriteria, QuietHistory
    PROVE  HistoryInv /\ [Next]_vars => HistoryInv'
<1> SUFFICES ASSUME HistoryInv, [Next]_vars PROVE HistoryInv'
    OBVIOUS
<1>1. AgainInv' /\ AgainInv /\ QuietInv
    BY AgainNext DEF HistoryInv, AgainInv
<1>2. CASE UNCHANGED vars
    <2>1. UNCHANGED fsVars /\ UNCHANGED <<archives, promised, window, phase>>
        BY <1>2 DEF vars, storeVars, sessionVars
    <2> QED BY <1>1, <2>1, StillLiveFiles, HistoryKept DEF Running
<1>3. ASSUME NEW x \in Exclusions, NEW c \in Criteria, NEW u \in Snapshots,
             BeginBackup(x, c, u)
      PROVE  HistoryInv'
    BY <1>1, <1>3, BeginHistory
<1>4. ASSUME NEW c \in Criteria, RetryBackup(c)
      PROVE  FALSE
    <2>1. phase = "failed" /\ session.retries < 0
        BY <1>4 DEF RetryBackup, QuietUse
    <2>2. session.retries \in Nat
        BY <1>1, <2>1 DEF QuietInv, DependenciesInv, Inv, TypeInv, SessionTyped
    <2> QED BY <2>1, <2>2
<1>5. ASSUME SessionStep, ~CommitBackup
      PROVE  HistoryInv'
    <2>1. UNCHANGED fsVars /\ UNCHANGED <<archives, promised, window>> /\ Running
        BY <1>5 DEF SessionStep, GenerateStream, ReorderFileStreams, OpenFile, StoreFile,
                    FailToOpen, Storing, storeVars, Running
    <2> QED BY <1>1, <2>1, StillLiveFiles, HistoryKept
<1>6. CASE CommitBackup
    BY <1>1, <1>6, CommitHistory
<1>7. CASE Crash
    <2>1. UNCHANGED <<archives, promised>> /\ ~Running'
        BY <1>7 DEF Crash, NoSession, storeVars, Running
    <2> QED BY <1>1, <2>1, HistoryKept
<1>8. ASSUME FilesOnly
      PROVE  HistoryInv'
    <2>1. UNCHANGED <<archives, promised, phase, session>> /\ (Running => UseSnapshots)
        BY <1>8 DEF FilesOnly
    <2>2. Running => ~UseSnapshots
        <3>1. Running => session.use_snapshots = FALSE
            BY <1>1 DEF QuietInv, SessionSound, SessionReads, QuietCriteria
        <3> QED BY <3>1 DEF UseSnapshots
    <2> QED BY <1>1, <2>1, <2>2, HistoryKept DEF Running
<1>9. CASE \E v \in Version : RestoreBackup(v) \/ AbandonRestore(v)
    BY <1>1, <1>8, <1>9, RestoreMoves
<1>10. CASE \E p \in Paths, d \in Writable : WriteFile(p, d) \/ CreateFile(p, d)
    BY <1>1, <1>8, <1>10, EditsMove
<1>11. CASE \E p \in Paths : DeletePath(p)
    BY <1>1, <1>8, <1>11, EditsMove
<1>12. ~(\E pq \in Linkable : MakeHardlink(pq[1], pq[2]) \/ MakeSymlink(pq[1], pq[2]))
    BY DEF QuietUse
<1>13. ~(\E v \in Version, kind \in {"archive", "version"} : DeleteArchive(v, kind))
    BY DEF QuietHistory, DeleteArchive
<1>14. ~(\E v \in Version : DeleteAux(v))
    BY DEF QuietHistory, DeleteAux
<1> QED BY <1>2, <1>3, <1>4, <1>5, <1>6, <1>7, <1>9, <1>10, <1>11, <1>12, <1>13, <1>14
        DEF Next

\* A step that leaves the backup alone leaves the abstract store alone.
LEMMA StoreStays ==
    ASSUME StoreIsKept, StoreIsKept', UNCHANGED <<archives, promised>>
    PROVE  KeptVersions' = KeptVersions
<1>1. get_version_count' = get_version_count
    BY DEF Versions, get_version_count
<1> QED BY <1>1 DEF StoreIsKept, Kept

LEMMA AppendIs ==
    ASSUME NEW S, NEW n \in Nat, NEW s \in [1 .. n -> S], NEW e \in S
    PROVE  Append(s, e) = [i \in 1 .. n + 1 |-> IF i <= n THEN s[i] ELSE e]
<1> DEFINE longer == Append(s, e)
<1>1. s \in Seq(S) /\ Len(s) = n
    OBVIOUS
<1>2. /\ longer \in Seq(S) /\ Len(longer) = n + 1
      /\ \A i \in 1 .. n : longer[i] = s[i]
      /\ longer[n + 1] = e
    BY <1>1, AppendProperties
<1> HIDE DEF longer
<1>3. longer \in [1 .. n + 1 -> S]
    BY <1>2, LenProperties
<1>4. \A i \in 1 .. n + 1 : longer[i] = IF i <= n THEN s[i] ELSE e
    BY <1>2
<1>5. longer = [i \in 1 .. n + 1 |-> IF i <= n THEN s[i] ELSE e]
    BY <1>3, <1>4
<1> QED BY <1>5 DEF longer

LEMMA CommitImplements ==
    ASSUME QuietUse, QuietHistory, HistoryInv, HistoryInv', StoreIsKept, StoreIsKept',
           CommitBackup
    PROVE  Store!Backup
<1> DEFINE n == get_version_count
<1>1. n \in Nat /\ get_version_count' = n + 1 /\ Versions = 0 .. n - 1
    BY CommitCounts, VersionCount DEF HistoryInv
<1>2. /\ promised'[n] = window
      /\ \A v \in Versions : promised'[v] = promised[v]
    BY CommitHistory DEF HistoryInv
<1>3. UNCHANGED fsVars /\ Running
    BY DEF CommitBackup, Running
<1>4. LiveFiles' = LiveFiles /\ Kept(window) = LiveFiles
    BY <1>3, StillLiveFiles DEF HistoryInv
<1> HIDE DEF n
<1>5. /\ KeptVersions = [i \in 1 .. n |-> Kept(promised[i - 1])]
      /\ KeptVersions' = [i \in 1 .. n + 1 |-> Kept(promised'[i - 1])]
    BY <1>1 DEF StoreIsKept, Kept, n
<1>6. \A i \in 1 .. n : i - 1 \in Versions /\ Kept(promised'[i - 1]) = KeptVersions[i]
    BY <1>1, <1>2, <1>5
<1>7. (n + 1) - 1 = n
    BY <1>1
<1>8. Kept(promised'[(n + 1) - 1]) = LiveFiles
    BY <1>2, <1>4, <1>7
<1>9. KeptVersions' = [i \in 1 .. n + 1 |-> IF i <= n THEN KeptVersions[i] ELSE LiveFiles]
    BY <1>1, <1>5, <1>6, <1>8
<1>10. Append(KeptVersions, LiveFiles) =
         [i \in 1 .. n + 1 |-> IF i <= n THEN KeptVersions[i] ELSE LiveFiles]
    <2> DEFINE S == {KeptVersions[i] : i \in 1 .. n} \cup {LiveFiles}
    <2>1. KeptVersions \in [1 .. n -> S]
        BY <1>5
    <2>2. LiveFiles \in S
        OBVIOUS
    <2> HIDE DEF S
    <2> QED BY <1>1, <2>1, <2>2, AppendIs
<1> QED BY <1>4, <1>9, <1>10 DEF Store!Backup

\* What a restore puts back is what a user finds.
LEMMA FilesPutBack ==
    ASSUME NEW content \in [Paths -> Contents], PutBack(content)
    PROVE  LiveFiles' = content
<1>1. /\ node' = [p \in Paths |->
                CASE content[p].what = "nothing" -> NoNode
                  [] content[p].what = "link" -> LinkNode(content[p].value)
                  [] OTHER -> FileNode(p)]
      /\ disk' = [p \in Paths |->
                IF content[p].what = "file"
                THEN [data |-> content[p].value, date |-> clock + 1]
                ELSE [data |-> EmptyData, date |-> 0]]
    BY DEF PutBack
<1>2. ASSUME NEW p \in Paths
      PROVE  Content(LiveView, p)' = content[p]
    <2>1. content[p] \in Contents
        OBVIOUS
    <2>2. CASE content[p] = Nothing
        BY <1>1, <2>2 DEF Content, LiveView, Nothing, NoNode
    <2>3. CASE content[p] \in [what : {"file"}, value : Data]
        BY <1>1, <2>3 DEF Content, LiveView, FileNode
    <2>4. CASE content[p] \in [what : {"link"}, value : Paths]
        BY <1>1, <2>4 DEF Content, LiveView, LinkNode
    <2> QED BY <2>1, <2>2, <2>3, <2>4 DEF Contents
<1> QED BY <1>2 DEF LiveFiles

\* The version a restore reads, in the abstract store.
LEMMA VersionInStore ==
    ASSUME HistoryInv, StoreIsKept, NEW v \in Versions
    PROVE  v + 1 \in DOMAIN KeptVersions /\ KeptVersions[v + 1] = Kept(promised[v])
<1> DEFINE n == get_version_count
<1>1. n \in Nat /\ Versions = 0 .. n - 1
    BY VersionCount DEF HistoryInv
<1>2. v + 1 \in 1 .. n /\ (v + 1) - 1 = v
    BY <1>1
<1> HIDE DEF n
<1>3. KeptVersions = [i \in 1 .. n |-> Kept(promised[i - 1])]
    BY DEF StoreIsKept, n
<1> QED BY <1>2, <1>3

LEMMA KeptTyped ==
    ASSUME HistoryInv, NEW v \in Versions
    PROVE  Kept(promised[v]) \in [Paths -> Contents]
<1>1. Whole(promised[v])
    BY DEF HistoryInv
<1>2. \A p \in Paths : Kept(promised[v])[p] \in Contents
    BY <1>1, OneContent DEF Whole
<1> QED BY <1>2 DEF Kept

LEMMA RestoreImplements ==
    ASSUME QuietUse, QuietHistory, HistoryInv, StoreIsKept, StoreIsKept',
           NEW v \in Version, RestoreBackup(v)
    PROVE  Store!Next
<1> DEFINE content == RestoreOutcome(v).content
<1>1. v \in Versions /\ PutBack(content)
    BY DEF RestoreBackup
<1>2. content = Kept(promised[v])
    BY <1>1, KeptIsRestored DEF VersionsAreKept
<1>3. content \in [Paths -> Contents]
    BY <1>1, <1>2, KeptTyped
<1> HIDE DEF content
<1>4. LiveFiles' = content
    BY <1>1, <1>3, FilesPutBack
<1>5. v + 1 \in DOMAIN KeptVersions /\ KeptVersions[v + 1] = content
    BY <1>1, <1>2, VersionInStore
<1>6. UNCHANGED <<archives, promised>>
    BY <1>1 DEF PutBack, storeVars
<1>7. KeptVersions' = KeptVersions
    BY <1>6, StoreStays
<1> QED BY <1>4, <1>5, <1>7 DEF Store!Next, Store!Restore

\* Whatever part of the files a restore has brought back, each is as it was.
LEMMA PartBroughtBack ==
    ASSUME QuietUse, QuietHistory, HistoryInv, NEW v \in Versions, Restorable(v),
           NEW files, files \subseteq RestoredFiles(v), NEW p \in Paths
    PROVE  /\ BroughtBack(v, files)[p] \in {Nothing, Kept(promised[v])[p]}
           /\ \A f \in files : f[1] = p =>
                /\ BroughtBack(v, files)[p] = Kept(promised[v])[p]
                /\ Kept(promised[v])[p] = File(f[2])
<1> DEFINE objs == archives[v].objects
<1>1. QuietInv /\ archives[v].unmapped = Live
    BY DEF HistoryInv, AgainInv
<1>2. /\ \A s \in DOMAIN objs : RestoreOutcome(v).content[s[2]] = File(objs[s].hash)
      /\ RestoreOutcome(v).content = Kept(promised[v])
    BY <1>1, RestoredContent, KeptIsRestored DEF VersionsAreKept
<1>3. \A s \in DOMAIN objs : objs[s].type # "FileSymlink"
    BY <1>1, VersionObjects
<1>4. \A f \in files : \E s \in DOMAIN objs : f = <<s[2], objs[s].hash>>
    BY <1>1, FilesOfObjects
<1>5. \A f \in files : Kept(promised[v])[f[1]] = File(f[2])
    <2> SUFFICES ASSUME NEW f \in files
                 PROVE  Kept(promised[v])[f[1]] = File(f[2])
        OBVIOUS
    <2>1. PICK s \in DOMAIN objs : f = <<s[2], objs[s].hash>>
        BY <1>4
    <2>2. f[1] = s[2] /\ f[2] = objs[s].hash
        BY <2>1
    <2>3. Kept(promised[v])[s[2]] = File(objs[s].hash)
        BY <1>2
    <2> QED BY <2>2, <2>3
<1> HIDE DEF objs
<1> DEFINE chosen == CHOOSE f \in files : f[1] = p
<1>6. BroughtBack(v, files)[p] = IF \E f \in files : f[1] = p THEN File(chosen[2]) ELSE Nothing
    BY <1>3 DEF BroughtBack, File, objs
<1>7. (\E f \in files : f[1] = p) => chosen \in files /\ chosen[1] = p
    OBVIOUS
<1> HIDE DEF chosen
<1>8. (\E f \in files : f[1] = p) => BroughtBack(v, files)[p] = Kept(promised[v])[p]
    BY <1>5, <1>6, <1>7
<1> QED BY <1>5, <1>6, <1>8

\* A restore that its user had to end had an empty file to bring back.
LEMMA AbandonImplements ==
    ASSUME QuietUse, QuietHistory, HistoryInv, StoreIsKept, StoreIsKept',
           NEW v \in Version, AbandonRestore(v)
    PROVE  Store!Next
<1>1. v \in Versions /\ Restorable(v)
    BY RestoresPutBack DEF Restorable
<1>2. PICK w \in ReadArchives(v) : \E i \in WaitsAt(v, w) :
          PutBack(BroughtBack(v,
            {RestoredFile(v, w, k) : k \in {j \in RestoredParts(v, w) : j <= i}}
            \cup UNION {{RestoredFile(v, x, k) : k \in RestoredParts(v, x)} :
                            x \in {y \in ReadArchives(v) : y < w}}))
    BY DEF AbandonRestore
<1>3. PICK i \in WaitsAt(v, w) :
          PutBack(BroughtBack(v,
            {RestoredFile(v, w, k) : k \in {j \in RestoredParts(v, w) : j <= i}}
            \cup UNION {{RestoredFile(v, x, k) : k \in RestoredParts(v, x)} :
                            x \in {y \in ReadArchives(v) : y < w}}))
    BY <1>2
<1> DEFINE files ==
            {RestoredFile(v, w, k) : k \in {j \in RestoredParts(v, w) : j <= i}}
            \cup UNION {{RestoredFile(v, x, k) : k \in RestoredParts(v, x)} :
                            x \in {y \in ReadArchives(v) : y < w}}
           content == BroughtBack(v, files)
           empty == RestoredFile(v, w, i)
<1>4. PutBack(content)
    BY <1>3
<1>5. QuietInv
    BY DEF HistoryInv, AgainInv
<1>6. w \in Versions
    BY <1>1, <1>5, UsedArchivesThere DEF ReadArchives
<1>7. i \in RestoredParts(v, w) /\ i \in 1 .. i /\ archives[w].parts[i].size = 0
    <2>1. i \in RestoredParts(v, w) /\ \A j \in 1 .. i : archives[w].parts[j].size = 0
        BY DEF WaitsAt
    <2>2. i \in DOMAIN archives[w].parts
        BY <2>1 DEF RestoredParts
    <2>3. i \in Nat \ {0}
        BY <1>5, <1>6, <2>2, PartsInOrder
    <2>4. i \in 1 .. i
        BY <2>3
    <2> QED BY <2>1, <2>4
<1>8. empty[2] = EmptyData /\ \E s \in DOMAIN archives[v].objects : empty[1] = s[2]
    <2>1. /\ empty[2] = EmptyData
          /\ \E s \in LaterFrom(v, w) : empty = <<s[2], archives[v].objects[s].hash>>
        BY <1>1, <1>5, <1>6, <1>7, RestoreFromSound
    <2> HIDE DEF empty
    <2>2. LaterFrom(v, w) \subseteq DOMAIN archives[v].objects
        BY DEF LaterFrom, RestoreLater
    <2> QED BY <2>1, <2>2
<1>9. empty[1] \in Paths
    BY <1>1, <1>5, <1>8, VersionObjects
<1>10. empty \in files
    <2>1. i \in {j \in RestoredParts(v, w) : j <= i}
        BY <1>7
    <2> QED BY <2>1
<1>11. files \subseteq RestoredFiles(v)
    BY DEF RestoredFiles
<1> HIDE DEF files, empty
<1>12. \A p \in Paths : content[p] \in {Nothing, Kept(promised[v])[p]}
    BY <1>1, <1>11, PartBroughtBack
<1>13. content[empty[1]] = File(EmptyData)
    BY <1>1, <1>8, <1>9, <1>10, <1>11, PartBroughtBack
<1>14. content \in [Paths -> Contents]
    <2>1. Kept(promised[v]) \in [Paths -> Contents] /\ Nothing \in Contents
        BY <1>1, KeptTyped DEF Contents
    <2>2. \A p \in Paths : content[p] \in Contents
        BY <1>12, <2>1
    <2> QED BY <2>2 DEF BroughtBack
<1> HIDE DEF content
<1>15. LiveFiles' = content
    BY <1>4, <1>14, FilesPutBack
<1>16. v + 1 \in DOMAIN KeptVersions /\ KeptVersions[v + 1] = Kept(promised[v])
    BY <1>1, VersionInStore
<1>17. UNCHANGED <<archives, promised>>
    BY <1>4 DEF PutBack, storeVars
<1>18. KeptVersions' = KeptVersions
    BY <1>17, StoreStays
<1>19. content[empty[1]] = Empty
    BY <1>13 DEF Empty, File
<1>20. Store!Abandon(v + 1)
    BY <1>9, <1>12, <1>14, <1>15, <1>16, <1>18, <1>19 DEF Store!Abandon
<1> QED BY <1>16, <1>20 DEF Store!Next

LEMMA EditImplements ==
    ASSUME QuietInv, StoreIsKept, StoreIsKept', LiveFilesTyped', NEW p \in Paths, NEW d,
           WriteFile(p, d) \/ CreateFile(p, d) \/ DeletePath(p)
    PROVE  Store!Edit
<1>1. /\ node \in [Paths -> Node] /\ DOMAIN disk = Paths
      /\ \A q \in Paths : node[q] \in {NoNode, FileNode(q)}
    BY DEF QuietInv, DependenciesInv, Inv, TypeInv, FilesTyped, Disk, PlainFiles, LiveView
<1>2. UNCHANGED <<archives, promised>>
    BY DEF WriteFile, CreateFile, DeletePath, Edit, storeVars
<1>3. ASSUME NEW q \in Paths \ {p}
      PROVE  node'[q] = node[q] /\ (node[q] = FileNode(q) => disk'[q] = disk[q])
    <2>1. CASE WriteFile(p, d)
        <3>1. node[p].ref = p
            BY <1>1, <2>1, NodeKinds DEF WriteFile
        <3> QED BY <1>1, <2>1, <3>1 DEF WriteFile
    <2>2. CASE CreateFile(p, d)
        BY <1>1, <2>2 DEF CreateFile
    <2>3. CASE DeletePath(p)
        BY <1>1, <2>3 DEF DeletePath
    <2> QED BY <2>1, <2>2, <2>3
<1>4. ASSUME NEW q \in Paths \ {p}
      PROVE  LiveFiles'[q] = LiveFiles[q]
    <2>1. CASE node[q] = NoNode
        BY <1>3, <2>1, NodeKinds DEF LiveFiles, LiveView, Content
    <2>2. CASE node[q] = FileNode(q)
        BY <1>3, <2>2, NodeKinds DEF LiveFiles, LiveView, Content
    <2> QED BY <1>1, <2>1, <2>2
<1>5. KeptVersions' = KeptVersions
    BY <1>2, StoreStays
<1> QED BY <1>4, <1>5 DEF Store!Edit, LiveFilesTyped

LEMMA StepImplements ==
    ASSUME QuietUse, QuietHistory, HistoryInv, HistoryInv', StoreIsKept, StoreIsKept',
           LiveFilesTyped', [Next]_vars
    PROVE  [Store!Next]_<<LiveFiles, KeptVersions>>
<1>1. QuietInv
    BY DEF HistoryInv, AgainInv
<1>2. ASSUME UNCHANGED fsVars, UNCHANGED storeVars
      PROVE  UNCHANGED <<LiveFiles, KeptVersions>>
    BY <1>2, StillLiveFiles, StoreStays DEF storeVars
<1>3. CASE UNCHANGED vars
    BY <1>2, <1>3 DEF vars
<1>4. CASE \/ \E x \in Exclusions, c \in Criteria, u \in Snapshots : BeginBackup(x, c, u)
           \/ \E c \in Criteria : RetryBackup(c)
           \/ Crash
    BY <1>2, <1>4 DEF BeginBackup, RetryBackup, Crash
<1>5. CASE SessionStep
    <2>1. CASE CommitBackup
        BY <2>1, CommitImplements DEF Store!Next
    <2>2. CASE ~CommitBackup
        <3>1. UNCHANGED fsVars /\ UNCHANGED storeVars
            BY <1>5, <2>2 DEF SessionStep, GenerateStream, ReorderFileStreams, OpenFile,
                              StoreFile, FailToOpen
        <3> QED BY <1>2, <3>1
    <2> QED BY <2>1, <2>2
<1>6. CASE \E v \in Version : RestoreBackup(v) \/ AbandonRestore(v)
    BY <1>6, RestoreImplements, AbandonImplements
<1>7. CASE \E p \in Paths, d \in Writable : WriteFile(p, d) \/ CreateFile(p, d)
    BY <1>1, <1>7, EditImplements DEF Store!Next
<1>8. CASE \E p \in Paths : DeletePath(p)
    BY <1>1, <1>8, EditImplements DEF Store!Next
<1>9. ~(\E pq \in Linkable : MakeHardlink(pq[1], pq[2]) \/ MakeSymlink(pq[1], pq[2]))
    BY DEF QuietUse
<1>10. ~(\E v \in Version, kind \in {"archive", "version"} : DeleteArchive(v, kind))
    BY DEF QuietHistory, DeleteArchive
<1>11. ~(\E v \in Version : DeleteAux(v))
    BY DEF QuietHistory, DeleteAux
<1> QED BY <1>3, <1>4, <1>5, <1>6, <1>7, <1>8, <1>9, <1>10, <1>11 DEF Next

\* README.txt, "Transparency" and "Incremental backups": for whole backups of
\* files that stand still meanwhile, the program is a VersionStore.  A commit
\* appends the files as they are and touches no version before, a restore that
\* ends brings one version back, one that does not (which takes an empty file)
\* leaves nothing that is not of that version, and crashes, failures and all
\* steps in between change nothing.
THEOREM BackupIsVersionStore ==
    ASSUME QuietUse, QuietCriteria, QuietHistory
    PROVE  Spec => ImplementsVersionStore
<1>1. Init => HistoryInv /\ KeptVersions = <<>>
    BY HistoryInit
<1>2. HistoryInv /\ [Next]_vars => HistoryInv'
    BY HistoryNext
<1>3. HistoryInv => StoreIsKept /\ LiveFilesTyped
    BY StoreOfKept, FilesTypedAlways DEF HistoryInv, AgainInv
<1>4. LiveFilesTyped /\ KeptVersions = <<>> => Store!Init
    BY DEF LiveFilesTyped, Store!Init
<1>5. /\ HistoryInv /\ HistoryInv' /\ StoreIsKept /\ StoreIsKept' /\ LiveFilesTyped'
      /\ [Next]_vars
      => [Store!Next]_<<LiveFiles, KeptVersions>>
    BY StepImplements
<1> QED BY <1>1, <1>2, <1>3, <1>4, <1>5, PTL DEF Spec, ImplementsVersionStore, Store!Spec
==============================================================================
