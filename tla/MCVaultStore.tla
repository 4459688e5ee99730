---------------------------- MODULE MCVaultStore ----------------------------
(* Instances of VaultStore for TLC. *)
EXTENDS VaultStore, TLC

\* One remote entry, written ahead of this device.
MCOneRemote == <<2>>

\* Processes are interchangeable.
Symmetry == Permutations(Procs)
=============================================================================
