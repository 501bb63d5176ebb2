------------------------------ MODULE ArchiveIO ------------------------------
(***************************************************************************)
(* ArchiveIO.cpp on top of StreamPipeline: an ArchiveWriter that turns     *)
(* files, object lists and a manifest into an archive, and ArchiveReaders  *)
(* that get the manifest, the object list and some of the files out of one.*)
(* WriterSpec and ReaderSpec run one of them once.                         *)
(***************************************************************************)
EXTENDS StreamPipeline

CONSTANTS
    Tokens,     \* what files and serialized objects are made of
    Archives    \* what a command may have to write, or to read: the tokens of
                \* each file, the serialized form of each base object (which is
                \* never empty), and whether a key pair was selected

ASSUME ArchivesAssumption ==
    \A a \in Archives :
        /\ a.files \in Seq(Seq(Tokens))
        /\ a.objects \in Seq(Seq(Tokens)) /\ \A i \in DOMAIN a.objects : a.objects[i] # <<>>
        /\ a.encrypted \in BOOLEAN

VARIABLES
    archive,    \* the one of Archives the command works on
    taken,      \* name -> result the main thread has used
    skip,       \* ArchiveReader: accumulated_skip
    wanted,     \* files the restore reads
    outcome     \* how the command ended, or "running"

commandVars == <<archive, taken, skip, wanted, outcome>>
vars == <<pipelineVars, commandVars>>

Files == archive.files
BaseObjects == archive.objects
Encrypted == archive.encrypted

file == <<"file", 0>>
overall == <<"overall", 0>>
source == <<"source", 0>>
bounded == <<"bounded", 0>>
crypto == <<"crypto", 0>>
lzma == <<"lzma", 0>>

Take(p) == Op("take", p)
EndWith(result) == <<[do |-> "end", p |-> None, result |-> result]>>
-----------------------------------------------------------------------------
\* ArchiveWriter, as the operations its functions consist of.

\* A section of the archive: a counter, the cipher when there is one and the
\* compressor on top of the sum of the archive, and what is written to them.
Section(n, cipher, body) ==
    LET counter == <<"counter", n>>
        cryptosink == <<"crypto", n>>
        lzmasink == <<"lzma", n>>
    IN  <<ConstructOn("ByteCounterSink", counter, overall)>>
        \o (IF cipher THEN <<ConstructOn("CryptoSink", cryptosink, counter)>> ELSE <<>>)
        \o <<ConstructOn("LzmaSink", lzmasink, IF cipher THEN cryptosink ELSE counter)>>
        \o body
        \o <<Destroy(lzmasink)>>
        \o (IF cipher THEN <<Destroy(cryptosink)>> ELSE <<>>)
        \o <<Destroy(counter)>>

\* Mutant: the digest is used before the filter is gone.
add_file_EarlyDigest(i) ==
    LET std == <<"std", i>>
        hash == <<"hash", i>>
    IN  <<Construct("StdStreamSource", std, Files[i]),
          ConstructFrom("HashSource", hash, std, 0)>>
        \o (IF Files[i] # <<>> THEN <<CopyTo(hash, <<"lzma", 1>>)>> ELSE <<>>)
        \o <<Take(hash), Destroy(hash), Destroy(std)>>

\* The body of the loop in add_files: an empty file is not copied.
add_file(i) ==
    LET std == <<"std", i>>
        hash == <<"hash", i>>
    IN  <<Construct("StdStreamSource", std, Files[i]),
          ConstructFrom("HashSource", hash, std, 0)>>
        \o (IF Files[i] # <<>> THEN <<CopyTo(hash, <<"lzma", 1>>)>> ELSE <<>>)
        \o <<Destroy(hash), Destroy(std), Take(hash)>>

add_files == Section(1, Encrypted, FlattenSeq([i \in DOMAIN Files |-> add_file(i)]))

add_base_object(i) ==
    LET counter2 == <<"counter2", i>>
    IN  <<ConstructOn("ByteCounterSink", counter2, <<"lzma", 2>>),
          SyncWrite(counter2, Data(BaseObjects[i])),
          Destroy(counter2),
          Take(counter2)>>

add_base_objects ==
    Section(2, Encrypted, FlattenSeq([i \in DOMAIN BaseObjects |-> add_base_object(i)]))

\* The manifest holds the size of the section before it; its own follows it.
add_version_manifest ==
    <<Take(<<"counter", 2>>)>>
    \o Section(3, FALSE, <<SyncWrite(<<"lzma", 3>>, Data(<<<<"manifest">>>>))>>)
    \o <<Take(<<"counter", 3>>), SyncWrite(overall, Data(<<<<"length">>>>))>>

\* ArchiveKeys::create_and_save writes the keys in front of everything.
create_and_save ==
    IF Encrypted THEN <<SyncWrite(overall, Data(<<<<"keys">>>>))>> ELSE <<>>

\* The constructor, process and the destructor, and the transaction.
process ==
    <<Construct("StdStreamSink", file, 0), ConstructOn("HashSink", overall, file)>>
    \o create_and_save \o add_files \o add_base_objects \o add_version_manifest
    \o <<Destroy(overall), Take(overall),
         SyncWrite(file, Data(<<<<"digest">>>>)), Destroy(file)>>
    \o EndWith("committed")
-----------------------------------------------------------------------------
\* The archive a writer that nothing keeps from its work leaves.

Compressed(d) == Append(Encoded("LzmaSink", d), EndMark("LzmaSink"))
Ciphered(a, d) ==
    IF a.encrypted THEN Append(Encoded("CryptoSink", d), EndMark("CryptoSink")) ELSE d

\* A compressor that never got anything writes nothing, and neither does a
\* cipher above which nothing was started.
Layout ==
    [a \in Archives |->
        LET data == FlattenSeq(a.files)
        IN  [keys |-> IF a.encrypted THEN <<<<"keys">>>> ELSE <<>>,
             files |-> IF data = <<>> THEN <<>> ELSE Ciphered(a, Compressed(data)),
             objects |-> IF a.objects = <<>> THEN <<>>
                         ELSE Ciphered(a, Compressed(FlattenSeq(a.objects))),
             manifest |-> Compressed(<<<<"manifest">>>>)]]
BeforeDigest ==
    [a \in Archives |-> Layout[a].keys \o Layout[a].files \o Layout[a].objects
                        \o Layout[a].manifest \o <<<<"length">>>>]
Image == [a \in Archives |-> Append(BeforeDigest[a], <<"digest">>)]
-----------------------------------------------------------------------------
\* ArchiveReader, which finds the parts of the file from its end.

manifest_size == Len(Layout[archive].manifest)
manifest_offset == Len(Image[archive]) - 2 - manifest_size
base_objects_offset == manifest_offset - Len(Layout[archive].objects)
file_data_start == Len(Layout[archive].keys)

\* A pipeline on the part of the file between two offsets.
OpenReader(first, last, cipher) ==
    <<Op("pipeline", None),
      Construct("StdStreamSource", source, SubSeq(Image[archive], first + 1, Len(Image[archive]))),
      ConstructFrom("BoundedSource", bounded, source, last - first)>>
    \o (IF cipher THEN <<ConstructFrom("CryptoSource", crypto, bounded, 0)>> ELSE <<>>)
    \o <<ConstructFrom("LzmaSource", lzma, IF cipher THEN crypto ELSE bounded, 0)>>

CloseReader(cipher) ==
    <<Destroy(lzma)>> \o (IF cipher THEN <<Destroy(crypto)>> ELSE <<>>)
    \o <<Destroy(bounded), Destroy(source)>>

read_manifest ==
    OpenReader(manifest_offset, manifest_offset + manifest_size, FALSE)
    \o <<SyncRead(lzma, 1, <<"manifest", 0>>)>>
    \o CloseReader(FALSE)

\* The objects follow each other in one stream.
read_base_object(i) ==
    LET bounded2 == <<"bounded2", i>>
    IN  <<ConstructFrom("BoundedSource", bounded2, lzma, Len(BaseObjects[i])),
          SyncRead(bounded2, Len(BaseObjects[i]), <<"object", i>>),
          Destroy(bounded2)>>

read_base_objects ==
    OpenReader(base_objects_offset, manifest_offset, Encrypted)
    \o FlattenSeq([i \in DOMAIN BaseObjects |-> read_base_object(i)])
    \o CloseReader(Encrypted)

\* It goes on until the last file that is wanted has been restored.
read_everything ==
    OpenReader(file_data_start, base_objects_offset, Encrypted)
    \o [i \in DOMAIN Files |-> Op("part", <<"part", i>>)]

\* VersionForRestore reads the manifest and the objects of a version, and
\* restore_thread, with a reader of its own, the manifest and the files.
restore_version ==
    read_manifest \o read_base_objects
    \o <<Op("choose", None)>> \o read_manifest \o read_everything

\* The files whose streams the objects that are restored refer to: if there are
\* none, restore_thread does not open this archive.
ChooseFiles ==
    /\ Doing("choose")
    /\ wanted' \in SUBSET DOMAIN Files
    /\ IF wanted' = {} THEN program' = EndWith("restored") ELSE Continue
    /\ UNCHANGED <<live, proc, queue, exception, contents, results, archive, taken, skip, outcome>>

\* Source::discard_rest on what was skipped since the last part that was read.
discard_rest(i) ==
    LET temp == <<"temp", i>>
        null == <<"null", i>>
    IN  IF skip = 0 THEN <<>>
        ELSE <<ConstructFrom("BoundedSource", temp, lzma, skip),
               Construct("NullSink", null, 0),
               CopyTo(temp, null), Destroy(null), Destroy(temp)>>

\* RegularFileFso::restore of what ArchivePart::read returns; the source is
\* destroyed by check_skip.
restore(i) ==
    LET part == <<"part", i>>
        sink == <<"sink", i>>
        hash_sink == <<"hash_sink", i>>
    IN  <<ConstructFrom("BoundedSource", part, lzma, Len(Files[i])),
          Construct("StdStreamSink", sink, 0),
          ConstructOn("HashSink", hash_sink, sink),
          CopyTo(part, hash_sink),
          Destroy(hash_sink), Destroy(sink), Destroy(part),
          Op("check_skip", part)>>

\* Mutant: the skipped bytes are not counted.
Part_NotCounted ==
    /\ Doing("part")
    /\ LET i == Argument[2]
       IN  IF i \in wanted THEN Expand(discard_rest(i) \o restore(i))
           ELSE Continue
    /\ skip' = 0
    /\ UNCHANGED <<live, proc, queue, exception, contents, results, archive, taken, wanted, outcome>>

\* One ArchivePart in the loop of restore_thread.
Part ==
    /\ Doing("part")
    /\ LET i == Argument[2]
       IN  IF i \in wanted
           THEN /\ Expand(discard_rest(i) \o restore(i))
                /\ skip' = 0
           ELSE /\ skip' = skip + Len(Files[i])
                /\ Continue
    /\ UNCHANGED <<live, proc, queue, exception, contents, results, archive, taken, wanted, outcome>>

\* ArchivePart::check_skip takes what the source wrote from what it should
\* have; after the last file the reader is closed.
CheckSkip ==
    /\ Doing("check_skip")
    /\ skip' = Len(Files[Argument[2]]) - results[Argument]
    /\ IF \A j \in wanted : j <= Argument[2]
       THEN program' = CloseReader(Encrypted) \o EndWith("restored")
       ELSE Continue
    /\ UNCHANGED <<live, proc, queue, exception, contents, results, archive, taken, wanted, outcome>>
-----------------------------------------------------------------------------
\* set_hash, and the sizes that go into the manifest.
TakeResult ==
    /\ Doing("take")
    /\ taken' = With(taken, Argument,
            IF Argument \in DOMAIN results THEN results[Argument] ELSE <<<<"indeterminate">>>>)
    /\ Continue
    /\ UNCHANGED <<live, proc, queue, exception, contents, results, archive, skip, wanted, outcome>>

End ==
    /\ \/ Doing("end") /\ outcome' = program[1].result
       \/ Doing("throw") /\ outcome' = "exception"
    /\ Continue
    /\ UNCHANGED <<live, proc, queue, exception, contents, results, archive, taken, skip, wanted>>

Init(commands) ==
    /\ archive \in Archives
    /\ InitPipeline
    /\ program = commands
    /\ taken = [p \in {} |-> 0]
    /\ skip = 0
    /\ wanted = {}
    /\ outcome = "running"

MainStep ==
    \/ MainThread /\ UNCHANGED commandVars
    \/ ChooseFiles \/ Part \/ CheckSkip \/ TakeResult \/ End

WorkerStep == Workers /\ UNCHANGED commandVars

Next == MainStep \/ WorkerStep

\* The system runs the main thread, and the workers, if not all at once.
Fairness == WF_vars(MainStep) /\ WF_vars(WorkerStep)

WriterSpec == Init(process) /\ [][Next]_vars /\ Fairness
ReaderSpec == Init(restore_version) /\ [][Next]_vars /\ Fairness
-----------------------------------------------------------------------------
\* Properties.

States == {"Uninitialized", "Starting", "Running", "Completed"}

\* The queues keep their bound, every processor is one of the Stream objects
\* of the main thread, and the states are those of StreamProcessor::State.
TypeOK ==
    /\ DOMAIN proc = {live[i] : i \in DOMAIN live}
    /\ \A p \in DOMAIN proc :
          /\ proc[p].state \in States
          /\ proc[p].source_queue \in DOMAIN queue \cup {NoQueue}
    /\ \A q \in DOMAIN queue : Len(queue[q].items) <= capacity
    /\ skip \in Nat
    /\ outcome \in {"running", "committed", "restored", "exception"}

\* ArchiveWriter: the file grows towards the whole archive whatever the
\* interleaving of its threads, and is committed when it is complete.
Archive == INSTANCE ArchiveFile WITH
    image <- Image[archive],
    written <- IF file \in DOMAIN contents THEN contents[file] ELSE <<>>
ImplementsArchiveFile == Archive!Spec

\* set_hash, entry_sizes, entries_size_in_archive, manifest_length and the
\* digest of the archive: what the main thread takes from a processor is its
\* result on everything that went through it.
ResultsExact ==
    \A p \in DOMAIN taken : taken[p] =
        CASE p = overall -> BeforeDigest[archive]
          [] p[1] = "hash" -> Files[p[2]]
          [] p[1] = "counter2" -> Len(BaseObjects[p[2]])
          [] p = <<"counter", 2>> -> Len(Layout[archive].objects)
          [] OTHER -> Len(Layout[archive].manifest)

\* BackupSystem::verify on the file: its last bytes are the digest of the rest.
verify(bytes) ==
    /\ bytes # <<>>
    /\ Last(bytes) = <<"digest">>
    /\ Front(bytes) = taken[overall]

\* documentation.html:112, verify "checks the integrity of the selected
\* version": whatever a compressor that throws or a full disk has kept from the
\* file, an archive that was committed and passes is whole.
VerifyDetectsLoss ==
    outcome = "committed" /\ verify(contents[file]) => contents[file] = Image[archive]

\* documentation.html:41, restore: the files that are wanted come out of an
\* intact archive whole, each with its own bytes, whatever is skipped and
\* wherever the bounds of the files fall in the segments.
FilesRestoredExactly ==
    /\ \A i \in wanted : <<"sink", i>> \in DOMAIN contents =>
          contents[<<"sink", i>>] = SubSeq(Files[i], 1, Len(contents[<<"sink", i>>]))
    /\ outcome = "restored" => \A i \in wanted : contents[<<"sink", i>>] = Files[i]
    /\ outcome # "exception"

\* VersionForRestore and compute_latest_version rely on it: the manifest and
\* every object of the list come out of an intact archive whole, each from its
\* own place, wherever the segments and the buffer of the stream end.
ListsReadExactly ==
    LET read(name) == contents[name]
        names == DOMAIN contents
    IN  /\ \A i \in DOMAIN BaseObjects : <<"object", i>> \in names =>
              read(<<"object", i>>) = SubSeq(BaseObjects[i], 1, Len(read(<<"object", i>>)))
        /\ outcome = "restored" =>
              /\ read(<<"manifest", 0>>) = <<<<"manifest">>>>
              /\ \A i \in DOMAIN BaseObjects : read(<<"object", i>>) = BaseObjects[i]

\* A writer ends, however its threads wait for each other.
CommandEnds == <>(outcome # "running")

\* A reader as well, unless nothing but empty files comes by up to the last one
\* that is wanted: then lzma may be stopped while it is starting, and joined
\* without being asked to stop (StreamProcessor.cpp:235), or, in an archive of
\* empty files alone, throw on the empty section, so that the next copy_to does
\* not start the sink that Sink::flush then waits for (StreamProcessor.cpp:382).
OnlyEmptyFiles ==
    \E last \in wanted : /\ \A i \in wanted : i <= last
                        /\ \A i \in 1 .. last : Files[i] = <<>>
ReadingEnds == <>(outcome # "running" \/ OnlyEmptyFiles)

\* documentation.html:41, restore: the restore of everything an archive holds
\* ends, and so does the restore of its first file.
FullRestoreEnds == wanted = DOMAIN Files ~> outcome # "running"
FirstFileRestoreEnds == wanted = {1} ~> outcome # "running"
=============================================================================
