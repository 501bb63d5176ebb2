----------------------------- MODULE MCArchiveIO -----------------------------
(***************************************************************************)
(* Small archives for the configurations of ArchiveIO.                     *)
(***************************************************************************)
EXTENDS ArchiveIO

\* One file that takes two segments, an empty one and a short one.
ThreeFiles == <<<<<<"a", 1>>, <<"a", 2>>>>, <<>>, <<<<"c", 1>>>>>>
TwoFiles == <<<<<<"a", 1>>, <<"a", 2>>>>, <<<<"b", 1>>>>>>
EmptyFiles == <<<<>>, <<>>>>
EmptyFileFirst == <<<<>>, <<<<"c", 1>>>>>>
LongFile == <<<<<<"a", 1>>, <<"a", 2>>>>>>
OneObject == <<<<<<"o", 1>>>>>>
\* An object shorter than a segment and one longer than the buffer.
TwoObjects == <<<<<<"o", 1>>>>, <<<<"p", 1>>, <<"p", 2>>, <<"p", 3>>>>>>

TokensOfAll == {"a", "b", "c", "o", "p"} \X (1 .. 3)

Plain(files) == [files |-> files, objects |-> OneObject, encrypted |-> FALSE]
WithKeys(files) == [files |-> files, objects |-> OneObject, encrypted |-> TRUE]
Listed(a) == [a EXCEPT !.objects = TwoObjects]

PlainArchive == {Plain(ThreeFiles)}
EmptyArchive == {Plain(EmptyFiles)}
EmptyFirstArchive == {Plain(EmptyFileFirst)}
\* Backups that store nothing: no file has changed, or there are no sources.
NothingChanged == WithKeys(<<>>)
NoSources == [NothingChanged EXCEPT !.objects = <<>>]
WrittenArchives == {Plain(ThreeFiles), WithKeys(LongFile), NothingChanged, NoSources}
ReadArchives ==
    {Listed(Plain(ThreeFiles)), Listed(WithKeys(TwoFiles)),
     Plain(EmptyFiles), Plain(EmptyFileFirst)}
=============================================================================
