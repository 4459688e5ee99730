----------------------------- MODULE MCReplicas -----------------------------
(* Instances of Replicas for TLC. *)
EXTENDS Replicas, TLC

MCDevices == {1, 2}
MCHost == {1}

\* Device 1 holds both shares, device 2 only the default one at first.
MCLateKeys == [d \in MCDevices |-> IF d = 1 THEN Shares ELSE {CHOOSE s \in Shares : TRUE}]

\* Field values are interchangeable.
Symmetry == Permutations(Values)
=============================================================================
