---------------------------- MODULE MCEipRotation ----------------------------
(***************************************************************************)
(* A small instance of EipRotation for TLC.                                *)
(***************************************************************************)
EXTENDS EipRotation, TLC

\* Hosts, addresses and invocations are interchangeable.
Symmetry ==
    Permutations(Instance) \cup Permutations(Address) \cup Permutations(Lambda)
=============================================================================
