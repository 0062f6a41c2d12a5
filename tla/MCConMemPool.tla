---------------------------- MODULE MCConMemPool ----------------------------
(* Four pages of seven bytes: blocks of three, which do not divide a page  *)
(* and are moved two at a time, and pieces of eight, which need two pages. *)
(* One thread allocates, as the accept loop does, and both give back, as   *)
(* the workers do.                                                         *)
EXTENDS ConMemPool

MCBatchNum == [size \in BlockSizes |-> 2]
=============================================================================
