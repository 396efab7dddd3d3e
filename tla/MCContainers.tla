---------------------------- MODULE MCContainers ----------------------------
(* Instances of Containers for TLC.                                        *)
EXTENDS Containers, TLC

\* Contents are only compared for equality.
Symmetry == Permutations(Revs)
=============================================================================
