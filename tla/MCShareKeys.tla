---------------------------- MODULE MCShareKeys ----------------------------
(* Instances of ShareKeys for TLC. *)
EXTENDS ShareKeys, TLC

\* The devices other than the creator are interchangeable.
Symmetry == Permutations(Devices \ {Creator})
=============================================================================
