---------------------------- MODULE MCRelaySync ----------------------------
(* Instances of RelaySync for TLC. *)
EXTENDS RelaySync, TLC

CONSTANTS d1, d2, s1

\* d1 holds the named share s1 from the start.
OneHolder == (d1 :> {Nil, s1}) @@ (d2 :> {Nil})
\* No named share at the start.
NoHolder == [d \in {d1, d2} |-> {Nil}]

\* Devices are interchangeable where none holds a share at the start.
Symmetry == Permutations({d1, d2})
=============================================================================
