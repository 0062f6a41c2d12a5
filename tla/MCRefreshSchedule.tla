-------------------------- MODULE MCRefreshSchedule --------------------------
(* Two batches of one product: a policy saved with one reschedules the     *)
(* other.  A window that starts late and one that ends early put the clock *)
(* before, inside and after a window; an interval longer than what is left *)
(* of the window meets its end.                                            *)
EXTENDS RefreshSchedule, TLC

CONSTANTS b1, b2, i1, i2, j1, orange, c1

OneIdEach == i1 :> b1 @@ j1 :> b2

OneBatch == i1 :> b1 @@ i2 :> b1

MCProductOf == [b \in Batches |-> orange]

MCWindows == {[from |-> 1, until |-> 3], [from |-> 0, until |-> 2]}

(* The batches, each with its ID, are alike.                               *)
Exchange == {p \in Permutations(Batches \cup Ids) :
                 \A i \in Ids : p[i] \in Ids /\ BatchOf[p[i]] = p[BatchOf[i]]}

ShortWindows == {[from |-> 1, until |-> 3], [from |-> 0, until |-> 1]}
=============================================================================
