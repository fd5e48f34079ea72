----------------------------- MODULE MCEbsVolumes -----------------------------
(***************************************************************************)
(* A small instance of EbsVolumes for TLC.                                 *)
(***************************************************************************)
EXTENDS EbsVolumes, TLC

\* Hosts and volumes are interchangeable.
Symmetry == Permutations(Host) \cup Permutations(Volume)
=============================================================================
