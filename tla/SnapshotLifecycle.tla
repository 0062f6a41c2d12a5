-------------------------- MODULE SnapshotLifecycle --------------------------
(***************************************************************************)
(* What Snapshot Storage promises its callers, without a table, a cache,   *)
(* an archive or failures: a batch has at most one live Snapshot, the one  *)
(* active_snapshot answers with, and at most one draft, the preview an     *)
(* administrator may publish.                                              *)
(***************************************************************************)
CONSTANTS Batches, Ids, BatchOf, NoId

VARIABLES live, draft

vars == <<live, draft>>

Init ==
    /\ live = [b \in Batches |-> NoId]
    /\ draft = [b \in Batches |-> NoId]

(* A new draft takes the place of the old one and leaves the live Snapshot *)
(* alone; what is live is never a draft again.                             *)
Draft(i) ==
    /\ live[BatchOf[i]] # i
    /\ draft' = [draft EXCEPT ![BatchOf[i]] = i]
    /\ UNCHANGED live

(* A publication takes the place of the live Snapshot; a pending draft     *)
(* stays pending unless it is the one published.                           *)
Publish(i) ==
    /\ live' = [live EXCEPT ![BatchOf[i]] = i]
    /\ draft' = [draft EXCEPT ![BatchOf[i]] = IF @ = i THEN NoId ELSE @]

(* A route change withdraws both at once.                                  *)
Withdraw(b) ==
    /\ live' = [live EXCEPT ![b] = NoId]
    /\ draft' = [draft EXCEPT ![b] = NoId]

Next ==
    \/ \E i \in Ids : Draft(i) \/ Publish(i)
    \/ \E b \in Batches : Withdraw(b)

Spec == Init /\ [][Next]_vars
=============================================================================
