--------------------------- MODULE MCSnapshotStore ---------------------------
(* Instances of SnapshotStore.  Three IDs of one batch hold an active row, *)
(* a preview and a superseded row at once; two batches show that one does  *)
(* not disturb the other; two contents tell a rewrite from no rewrite.     *)
EXTENDS SnapshotStore, TLC

CONSTANTS b1, b2, i1, i2, i3, j1, m1, m2

ThreeIds == i1 :> b1 @@ i2 :> b1 @@ i3 :> b1

TwoBatches == i1 :> b1 @@ i2 :> b1 @@ j1 :> b2

TwoIds == i1 :> b1 @@ i2 :> b1
=============================================================================
