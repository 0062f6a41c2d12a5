-------------------------- MODULE MCRefreshPipeline --------------------------
(* One batch: batches share nothing but the scheduler thread.              *)
EXTENDS RefreshPipeline, TLC

CONSTANTS b1, i1, i2, i3, i4, i5, a1, a2, rA, rB

MCBatchOf == [i \in Ids |-> b1]
MCContents == [source : 0..MaxHead, route : Routes]
=============================================================================
