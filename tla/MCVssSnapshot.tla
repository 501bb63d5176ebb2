---------------------------- MODULE MCVssSnapshot ----------------------------
(***************************************************************************)
(* The symmetry of an instance of VssSnapshot: volumes are interchangeable. *)
(***************************************************************************)
EXTENDS VssSnapshot, TLC

Symmetry == Permutations(Volumes)
=============================================================================
