----------------------------- MODULE ArchiveFile -----------------------------
(***************************************************************************)
(* What the writing of an archive promises: the file grows towards its     *)
(* image, byte after byte, and is committed only when it is whole.         *)
(***************************************************************************)
EXTENDS Naturals, Sequences

VARIABLES
    image,          \* the archive, as it has to be
    written,        \* what the file holds
    outcome         \* "running", "committed" or "rolled back"

Init == written = <<>> /\ outcome = "running"

Grow ==
    /\ outcome = "running"
    /\ \E n \in Len(written) .. Len(image) : written' = SubSeq(image, 1, n)
    /\ UNCHANGED <<image, outcome>>

Commit ==
    /\ outcome = "running"
    /\ written = image
    /\ outcome' = "committed"
    /\ UNCHANGED <<image, written>>

Next == Grow \/ Commit

Safety == Init /\ [][Next]_<<image, written, outcome>>
Spec == Safety /\ WF_<<image, written, outcome>>(Next)
=============================================================================
