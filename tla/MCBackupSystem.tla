--------------------------- MODULE MCBackupSystem ---------------------------
(***************************************************************************)
(* Values for the constants of BackupSystem that a configuration file      *)
(* cannot write.  Contents: 0 is empty, 1 and 2 have length 1, 3 has       *)
(* length 2.                                                               *)
(***************************************************************************)
EXTENDS BackupSystem

TwoPaths == <<{1, 2}>>
MCSizeOf == [d \in Data |-> CASE d = 0 -> 0 [] d \in {1, 2} -> 1 [] OTHER -> 2]
SameRank == [p \in Paths |-> 0]
ReverseRank == [p \in Paths |-> 3 - p]
NoExclusion == {[files |-> {}, hidden |-> {}]}
ChangingFiles == {[files |-> {}, hidden |-> {}], [files |-> {1}, hidden |-> {}]}
ChangingDirectories == {[files |-> {}, hidden |-> {}], [files |-> {}, hidden |-> {1}]}
NoLinks == {}
LinkAfterTarget == {<<2, 1>>}
=============================================================================
