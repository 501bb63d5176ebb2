---------------------------- MODULE MCCommandLine ----------------------------
(***************************************************************************)
(* Values for the constants of CommandLine that a configuration file       *)
(* cannot write.                                                           *)
(***************************************************************************)
EXTENDS CommandLine, TLC

\* Two processes that back up a directory nobody deletes from, or one that
\* does while versions are deleted and its commands fail half way.
WritersOrLosses ==
    {[writers |-> Processes, losses |-> FALSE, failures |-> {}]} \cup
    {[writers |-> {p}, losses |-> TRUE, failures |-> {"backup", "restore"}] : p \in Processes}

\* Versions are deleted, and commands fail half way.
LossesAndFailures ==
    {[writers |-> Processes, losses |-> TRUE, failures |-> {"backup", "restore"}]}

\* Backwards from the last version, to before the first; and version 1.
NumbersTyped == {-2, -1, 1}

\* Processes and contents are interchangeable.
Symmetry == Permutations(Processes) \cup Permutations(Contents)
=============================================================================
