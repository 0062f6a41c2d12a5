---------------------------- MODULE SnapshotTable ----------------------------
(***************************************************************************)
(* The SQLite table snapshot_storage as a value, and the statements that   *)
(* Code/SnapshotStorage/src/snapshot_storage.cpp runs on it.  A table maps *)
(* every Snapshot ID to its row; an ID that was never stored has the row   *)
(* AbsentRow.  The operators are pure: SnapshotStore applies them under    *)
(* the store mutex, RefreshPipeline applies them inside larger handlers.   *)
(*                                                                         *)
(* The manifest, the public root, the source Block hash and the route      *)
(* fingerprint of a row are one abstract "content"; what the chain service *)
(* answered for it (publication_json, transaction_hash, published_at) is   *)
(* its "publication", NoContent while the row was never published.         *)
(***************************************************************************)
EXTENDS FiniteSetsExt

CONSTANTS
    Batches,     \* the batches of the supply chain
    Ids,         \* the Snapshot IDs that may ever be generated
    BatchOf,     \* the batch an ID is generated for (it is part of the ID)
    Contents,    \* what a manifest can say
    NoId, NoContent

ASSUME BatchOfAssumption == BatchOf \in [Ids -> Batches]
ASSUME NoIdAssumption == NoId \notin Ids
ASSUME NoContentAssumption == NoContent \notin Contents

States == {"absent", "preview", "active", "superseded", "invalidated"}

Row == [state : States, rev : Nat, content : Contents \cup {NoContent},
        publication : Contents \cup {NoContent}]

AbsentRow == [state |-> "absent", rev |-> 0, content |-> NoContent,
              publication |-> NoContent]

EmptyTable == [i \in Ids |-> AbsentRow]

Stored(t, i) == t[i].state # "absent"

InState(t, b, s) == {i \in Ids : BatchOf[i] = b /\ t[i].state \in s}

RowsOf(t, b) == {i \in Ids : BatchOf[i] = b /\ Stored(t, i)}

Revisions(t, b) == {t[i].rev : i \in RowsOf(t, b)}

(* No batch has two rows in state s.                                       *)
AtMostOne(t, s) ==
    \A i, j \in Ids :
        BatchOf[i] = BatchOf[j] /\ t[i].state = s /\ t[j].state = s => i = j

(* The rows of a batch number 1, 2, ..., k, each revision once.            *)
Gapless(t) ==
    \A b \in Batches :
        /\ \A i, j \in RowsOf(t, b) : t[i].rev = t[j].rev => i = j
        /\ \A i \in RowsOf(t, b) : 1..t[i].rev \subseteq Revisions(t, b)

-----------------------------------------------------------------------------
(* COALESCE(MAX(revision), 0) + 1 over the rows of the batch.              *)
NextRevision(t, b) == Max(Revisions(t, b) \cup {0}) + 1

(* A row keeps its revision for life; only an insert asks for a new one.   *)
RevisionAlwaysNext(t, i) == NextRevision(t, BatchOf[i])
RevisionFor(t, i) == IF Stored(t, i) THEN t[i].rev
                                     ELSE NextRevision(t, BatchOf[i])

(* UPDATE snapshot_storage SET state = to WHERE batch_id = b AND state IN  *)
(* from.                                                                   *)
Restated(t, b, from, to) ==
    [i \in Ids |-> IF i \in InState(t, b, from) THEN [t[i] EXCEPT !.state = to]
                                                ELSE t[i]]

(* save_preview: the batch's other previews are superseded, the row of the *)
(* ID is inserted or rewritten as an unpublished preview.                  *)
WithPreview(t, i, c) ==
    [Restated(t, BatchOf[i], {"preview"}, "superseded") EXCEPT
        ![i] = [state |-> "preview", rev |-> RevisionFor(t, i),
                content |-> c, publication |-> NoContent]]

(* mark_published: the batch's other active row is superseded; a row that  *)
(* exists keeps its own content, whatever content the caller published.    *)
WithPublicationOverwriting(t, i, c) ==
    [Restated(t, BatchOf[i], {"active"}, "superseded") EXCEPT
        ![i] = [state |-> "active", rev |-> RevisionFor(t, i),
                content |-> c, publication |-> c]]
WithPublicationKeepingOthers(t, i, c) ==
    [t EXCEPT ![i] = [state |-> "active", rev |-> RevisionFor(t, i),
                      content |-> IF Stored(t, i) THEN t[i].content ELSE c,
                      publication |-> c]]
WithPublication(t, i, c) ==
    [Restated(t, BatchOf[i], {"active"}, "superseded") EXCEPT
        ![i] = [state |-> "active", rev |-> RevisionFor(t, i),
                content |-> IF Stored(t, i) THEN t[i].content ELSE c,
                publication |-> c]]

(* invalidate_batch, its first statement.                                  *)
InvalidatedPreviewsOnly(t, b) == Restated(t, b, {"preview"}, "invalidated")
Invalidated(t, b) == Restated(t, b, {"preview", "active"}, "invalidated")

-----------------------------------------------------------------------------
(* What the store returns to its callers: a SnapshotRecord, or nothing.    *)
Record == [id : Ids \cup {NoId}, rev : Nat,
           content : Contents \cup {NoContent},
           publication : Contents \cup {NoContent}]

NoRecord == [id |-> NoId, rev |-> 0, content |-> NoContent,
             publication |-> NoContent]

RecordOf(t, i) == [id |-> i, rev |-> t[i].rev, content |-> t[i].content,
                   publication |-> t[i].publication]

(* ORDER BY revision DESC LIMIT 1.                                         *)
Newest(t, S) ==
    IF S = {} THEN NoRecord
    ELSE RecordOf(t, CHOOSE i \in S : \A j \in S : t[j].rev <= t[i].rev)

LoadActiveOrPreview(t, b) == Newest(t, InState(t, b, {"active", "preview"}))
LoadActive(t, b) == Newest(t, InState(t, b, {"active"}))

LatestPublication(t, b) ==
    Newest(t, InState(t, b, {"active", "superseded", "invalidated"}))
=============================================================================
