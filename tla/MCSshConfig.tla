----------------------------- MODULE MCSshConfig -----------------------------
(* Instance of SshConfig for TLC: two processes that run apply. *)
EXTENDS SshConfig, TLC

Symmetry == Permutations(Appliers)
=============================================================================
