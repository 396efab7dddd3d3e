----------------------------- MODULE MCBuildLock -----------------------------
(* Two commands on one container; which is which does not matter.          *)
EXTENDS BuildLock, TLC

Interchangeable == Permutations(Commands)
=============================================================================
