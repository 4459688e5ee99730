----------------------------- MODULE MCSnapshot -----------------------------
(* Instances of Snapshot for TLC. *)
EXTENDS Snapshot, TLC

\* Processes are interchangeable.
Symmetry == Permutations(Procs)
=============================================================================
