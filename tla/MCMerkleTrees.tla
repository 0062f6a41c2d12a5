---------------------------- MODULE MCMerkleTrees ----------------------------
(* As many values as blocks, so that lists of distinct leaves of every     *)
(* length occur as well as every pattern of repetitions.                   *)
EXTENDS MerkleTrees, TLC

Symmetric == Permutations(Values)
=============================================================================
