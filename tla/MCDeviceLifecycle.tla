------------------------- MODULE MCDeviceLifecycle -------------------------
(* Instance of DeviceLifecycle for TLC. *)
EXTENDS DeviceLifecycle, TLC

\* The devices other than the founder are interchangeable.
Symmetry == Permutations(Devices \ {Founder})
=============================================================================
