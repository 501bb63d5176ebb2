---------------------------- MODULE VersionStore ----------------------------
(***************************************************************************)
(* What a backup promises to its user: a list of versions, each of them    *)
(* all the covered files as they were when the backup was made, that only  *)
(* grows and can be brought back whole.  (A restore that brings back an     *)
(* empty file may never end.)                                              *)
(***************************************************************************)
EXTENDS Naturals, Sequences

CONSTANTS
    Paths,
    Contents,
    Nothing,    \* what a path holds that does not exist
    Empty       \* the content of an empty file

VARIABLES
    live,       \* path -> what it holds
    store       \* the versions, oldest first

Init ==
    /\ live \in [Paths -> Contents]
    /\ store = <<>>

\* The user changes one file.
Edit ==
    /\ UNCHANGED store
    /\ live' \in [Paths -> Contents]
    /\ \E p \in Paths : \A q \in Paths \ {p} : live'[q] = live[q]

\* The backup command.
Backup ==
    /\ store' = Append(store, live)
    /\ UNCHANGED live

\* The restore command.
Restore(i) ==
    /\ live' = store[i]
    /\ UNCHANGED store

\* A restore command that does not end: what it has not brought back is gone.
Abandon(i) ==
    /\ UNCHANGED store
    /\ live' \in [Paths -> Contents]
    /\ \A p \in Paths : live'[p] \in {Nothing, store[i][p]}
    /\ \E p \in Paths : live'[p] = Empty

Next ==
    \/ Edit
    \/ Backup
    \/ \E i \in DOMAIN store : Restore(i) \/ Abandon(i)

Spec == Init /\ [][Next]_<<live, store>>
=============================================================================
