------------------------- MODULE SnapshotTableProofs -------------------------
(***************************************************************************)
(* Lemmas about the statements on the table snapshot_storage, for any sets *)
(* of batches, Snapshot IDs and contents: what save_preview,               *)
(* mark_published and invalidate_batch preserve, whoever calls them.       *)
(***************************************************************************)
EXTENDS SnapshotTable, TLAPS

(* The inductive form of Gapless: there is a largest revision, k.  Gapless *)
(* alone would allow every natural number to be a revision, and            *)
(* NextRevision would have no maximum to take.                             *)
Numbered(t) ==
    \A b \in Batches :
        /\ \A i, j \in RowsOf(t, b) : t[i].rev = t[j].rev => i = j
        /\ \E k \in Nat : Revisions(t, b) = 1..k

TableInv(t) ==
    /\ t \in [Ids -> Row]
    /\ AtMostOne(t, "active")
    /\ AtMostOne(t, "preview")
    /\ Numbered(t)

-----------------------------------------------------------------------------
(* The revision a new row gets is the first one its batch has not used.    *)
LEMMA NextRevisionIsNext ==
    ASSUME NEW t \in [Ids -> Row], NEW b \in Batches, NEW k \in Nat,
           Revisions(t, b) = 1..k
    PROVE  NextRevision(t, b) = k + 1
<1>1. Revisions(t, b) \cup {0} = 0..k
  OBVIOUS
<1>2. Max(0..k) = k
  <2>1. k \in 0..k /\ \A y \in 0..k : k >= y
    OBVIOUS
  <2>2. \A x \in 0..k : (\A y \in 0..k : x >= y) => x = k
    OBVIOUS
  <2> QED BY <2>1, <2>2 DEF Max
<1> QED BY <1>1, <1>2 DEF NextRevision

(* Numbered revisions have no gap.                                         *)
LEMMA NumberedGapless ==
    ASSUME NEW t \in [Ids -> Row], Numbered(t)
    PROVE  Gapless(t)
<1> SUFFICES ASSUME NEW b \in Batches, NEW i \in RowsOf(t, b)
             PROVE  1..t[i].rev \subseteq Revisions(t, b)
  BY DEF Numbered, Gapless
<1>1. PICK k \in Nat : Revisions(t, b) = 1..k
  BY DEF Numbered
<1>2. t[i].rev \in 1..k
  BY <1>1 DEF Revisions
<1> QED BY <1>1, <1>2

(* An UPDATE of the state column keeps the numbering.                      *)
LEMMA RestatedRows ==
    ASSUME NEW t \in [Ids -> Row], NEW b \in Batches,
           NEW from \in SUBSET (States \ {"absent"}),
           NEW to \in States \ {"absent"}
    PROVE  /\ Restated(t, b, from, to) \in [Ids -> Row]
           /\ \A i \in Ids : /\ Restated(t, b, from, to)[i].rev = t[i].rev
                             /\ Stored(Restated(t, b, from, to), i) <=> Stored(t, i)
BY DEF Restated, InState, Row, Stored, States

(* A table with the same rows under the same revisions is numbered too.    *)
LEMMA SameNumbering ==
    ASSUME NEW t \in [Ids -> Row], Numbered(t), NEW u \in [Ids -> Row],
           \A i \in Ids : u[i].rev = t[i].rev /\ (Stored(u, i) <=> Stored(t, i))
    PROVE  Numbered(u)
<1>1. \A b \in Batches : RowsOf(u, b) = RowsOf(t, b)
  BY DEF RowsOf
<1>2. \A b \in Batches : Revisions(u, b) = Revisions(t, b)
  BY <1>1 DEF Revisions, RowsOf
<1> QED BY <1>1, <1>2 DEF Numbered, RowsOf

(* Writing one row with the revision RevisionFor chooses keeps the         *)
(* numbering: either the row had that revision, or the batch grows by one. *)
LEMMA WrittenRowNumbering ==
    ASSUME NEW t \in [Ids -> Row], Numbered(t), NEW i \in Ids,
           NEW u \in [Ids -> Row], Stored(u, i),
           u[i].rev = RevisionFor(t, i),
           \A j \in Ids \ {i} : u[j].rev = t[j].rev /\ (Stored(u, j) <=> Stored(t, j))
    PROVE  Numbered(u)
<1>1. CASE Stored(t, i)
  BY <1>1, SameNumbering DEF RevisionFor
<1>2. CASE ~Stored(t, i)
  <2> DEFINE b == BatchOf[i]
  <2>0. b \in Batches
    BY BatchOfAssumption
  <2>1. PICK k \in Nat : Revisions(t, b) = 1..k
    BY <2>0 DEF Numbered
  <2>2. u[i].rev = k + 1
    BY <1>2, <2>0, <2>1, NextRevisionIsNext DEF RevisionFor
  <2>3. RowsOf(u, b) = RowsOf(t, b) \cup {i} /\ i \notin RowsOf(t, b)
    BY <1>2 DEF RowsOf
  <2>4. \A j \in RowsOf(t, b) : u[j].rev = t[j].rev /\ u[j].rev \in 1..k
    BY <1>2, <2>1 DEF RowsOf, Revisions
  <2>5. Revisions(u, b) = 1..(k + 1)
    <3>1. Revisions(u, b) = Revisions(t, b) \cup {k + 1}
      BY <2>2, <2>3, <2>4 DEF Revisions
    <3> QED BY <3>1, <2>1
  <2>6. \A j, l \in RowsOf(u, b) : u[j].rev = u[l].rev => j = l
    <3>1. \A j, l \in RowsOf(t, b) : t[j].rev = t[l].rev => j = l
      BY <2>0 DEF Numbered
    <3> QED BY <3>1, <2>2, <2>3, <2>4
  <2>7. \A a \in Batches \ {b} : RowsOf(u, a) = RowsOf(t, a)
    BY DEF RowsOf
  <2>8. \A a \in Batches \ {b} : Revisions(u, a) = Revisions(t, a)
    BY <2>7 DEF Revisions, RowsOf
  <2> HIDE DEF b
  <2>9. \A a \in Batches \ {b} : \A j \in RowsOf(t, a) : u[j].rev = t[j].rev
    BY DEF RowsOf, b
  <2> QED BY <2>1, <2>5, <2>6, <2>7, <2>8, <2>9 DEF Numbered
<1> QED BY <1>1, <1>2

(* The three table writes keep the table invariant.                        *)
LEMMA PreviewKeepsTable ==
    ASSUME NEW t, TableInv(t), NEW i \in Ids, NEW c \in Contents
    PROVE  /\ TableInv(WithPreview(t, i, c))
           /\ WithPreview(t, i, c)[i].state = "preview"
<1> DEFINE b == BatchOf[i]
           r == Restated(t, b, {"preview"}, "superseded")
           u == WithPreview(t, i, c)
<1>0. t \in [Ids -> Row] /\ b \in Batches
  BY BatchOfAssumption DEF TableInv
<1>1. /\ r \in [Ids -> Row]
      /\ \A j \in Ids : r[j].rev = t[j].rev /\ (Stored(r, j) <=> Stored(t, j))
  BY <1>0, RestatedRows DEF States
<1>2. RevisionFor(t, i) \in Nat
  <2>1. PICK k \in Nat : Revisions(t, b) = 1..k
    BY <1>0 DEF TableInv, Numbered
  <2>2. NextRevision(t, b) = k + 1
    BY <1>0, <2>1, NextRevisionIsNext
  <2> QED BY <1>0, <2>2 DEF RevisionFor, Row
<1>3. u = [r EXCEPT ![i] = [state |-> "preview", rev |-> RevisionFor(t, i),
                            content |-> c, publication |-> NoContent]]
  BY DEF WithPreview
<1>4. u \in [Ids -> Row] /\ u[i].state = "preview" /\ u[i].rev = RevisionFor(t, i)
  BY <1>1, <1>2, <1>3 DEF Row, States
<1>5. \A j \in Ids \ {i} : u[j] = r[j]
  BY <1>1, <1>3
<1>6. \A j \in Ids : /\ r[j].state = "active" => t[j].state = "active"
                     /\ r[j].state = "preview" =>
                            t[j].state = "preview" /\ BatchOf[j] # b
  BY <1>0 DEF Restated, InState, Row
<1>7. AtMostOne(u, "active")
  BY <1>4, <1>5, <1>6 DEF AtMostOne, TableInv
<1>8. AtMostOne(u, "preview")
  BY <1>4, <1>5, <1>6 DEF AtMostOne, TableInv
<1>9. Numbered(u)
  <2>1. Stored(u, i)
    BY <1>4 DEF Stored
  <2>2. \A j \in Ids \ {i} :
            u[j].rev = t[j].rev /\ (Stored(u, j) <=> Stored(t, j))
    BY <1>1, <1>5 DEF Stored
  <2>3. Numbered(t)
    BY DEF TableInv
  <2> HIDE DEF u
  <2> QED BY <1>0, <1>4, <2>1, <2>2, <2>3, WrittenRowNumbering
<1> QED BY <1>4, <1>7, <1>8, <1>9 DEF TableInv

(* mark_published keeps the table invariant.                               *)
LEMMA PublicationKeepsTable ==
    ASSUME NEW t, TableInv(t), NEW i \in Ids, NEW c \in Contents
    PROVE  /\ TableInv(WithPublication(t, i, c))
           /\ WithPublication(t, i, c)[i].state = "active"
<1> DEFINE b == BatchOf[i]
           r == Restated(t, b, {"active"}, "superseded")
           u == WithPublication(t, i, c)
<1>0. t \in [Ids -> Row] /\ b \in Batches
  BY BatchOfAssumption DEF TableInv
<1>1. /\ r \in [Ids -> Row]
      /\ \A j \in Ids : r[j].rev = t[j].rev /\ (Stored(r, j) <=> Stored(t, j))
  BY <1>0, RestatedRows DEF States
<1>2. RevisionFor(t, i) \in Nat
  <2>1. PICK k \in Nat : Revisions(t, b) = 1..k
    BY <1>0 DEF TableInv, Numbered
  <2>2. NextRevision(t, b) = k + 1
    BY <1>0, <2>1, NextRevisionIsNext
  <2> QED BY <1>0, <2>2 DEF RevisionFor, Row
<1> DEFINE own == IF Stored(t, i) THEN t[i].content ELSE c
<1>2a. own \in Contents \cup {NoContent}
  BY <1>0 DEF Row
<1>3. u = [r EXCEPT ![i] = [state |-> "active", rev |-> RevisionFor(t, i),
                            content |-> own, publication |-> c]]
  BY DEF WithPublication
<1> HIDE DEF own
<1>4. u \in [Ids -> Row] /\ u[i].state = "active" /\ u[i].rev = RevisionFor(t, i)
  BY <1>1, <1>2, <1>2a, <1>3 DEF Row, States
<1>5. \A j \in Ids \ {i} : u[j] = r[j]
  BY <1>1, <1>3
<1>6. \A j \in Ids : /\ r[j].state = "preview" => t[j].state = "preview"
                     /\ r[j].state = "active" =>
                            t[j].state = "active" /\ BatchOf[j] # b
  BY <1>0 DEF Restated, InState, Row
<1>7. AtMostOne(u, "active")
  BY <1>4, <1>5, <1>6 DEF AtMostOne, TableInv
<1>8. AtMostOne(u, "preview")
  BY <1>4, <1>5, <1>6 DEF AtMostOne, TableInv
<1>9. Numbered(u)
  <2>1. Stored(u, i)
    BY <1>4 DEF Stored
  <2>2. \A j \in Ids \ {i} :
            u[j].rev = t[j].rev /\ (Stored(u, j) <=> Stored(t, j))
    BY <1>1, <1>5 DEF Stored
  <2>3. Numbered(t)
    BY DEF TableInv
  <2> HIDE DEF u
  <2> QED BY <1>0, <1>4, <2>1, <2>2, <2>3, WrittenRowNumbering
<1> QED BY <1>4, <1>7, <1>8, <1>9 DEF TableInv

(* invalidate_batch keeps the table invariant.                             *)
LEMMA InvalidationKeepsTable ==
    ASSUME NEW t, TableInv(t), NEW b \in Batches
    PROVE  TableInv(Invalidated(t, b))
<1> DEFINE u == Invalidated(t, b)
<1>0. t \in [Ids -> Row]
  BY DEF TableInv
<1>1. /\ u \in [Ids -> Row]
      /\ \A j \in Ids : u[j].rev = t[j].rev /\ (Stored(u, j) <=> Stored(t, j))
  BY <1>0, RestatedRows DEF States, Invalidated
<1>2. \A j \in Ids : /\ u[j].state = "preview" => t[j].state = "preview"
                     /\ u[j].state = "active" => t[j].state = "active"
  BY <1>0 DEF Invalidated, Restated, InState, Row
<1>3. AtMostOne(u, "active") /\ AtMostOne(u, "preview")
  BY <1>2 DEF AtMostOne, TableInv
<1>4. Numbered(u)
  <2> HIDE DEF u
  <2> QED BY <1>0, <1>1, SameNumbering DEF TableInv
<1> QED BY <1>1, <1>3, <1>4 DEF TableInv

(* The active row, when there is one, is the one LoadActive finds.         *)
LEMMA ActiveIsLoaded ==
    ASSUME NEW t \in [Ids -> Row], AtMostOne(t, "active"), NEW i \in Ids,
           t[i].state = "active"
    PROVE  LoadActive(t, BatchOf[i]) = RecordOf(t, i)
<1>1. InState(t, BatchOf[i], {"active"}) = {i}
  BY DEF InState, AtMostOne
<1>2. \A j \in {i} : \A l \in {i} : t[l].rev <= t[j].rev
  BY DEF Row
<1>3. (CHOOSE j \in {i} : \A l \in {i} : t[l].rev <= t[j].rev) = i
  BY <1>2
<1> QED BY <1>1, <1>3 DEF LoadActive, Newest

(* What LoadActive finds is an active row; it finds one if there is one.   *)
LEMMA LoadedIsActive ==
    ASSUME NEW t \in [Ids -> Row], AtMostOne(t, "active"), NEW b \in Batches
    PROVE  \/ LoadActive(t, b) = NoRecord /\ InState(t, b, {"active"}) = {}
           \/ \E i \in InState(t, b, {"active"}) : LoadActive(t, b) = RecordOf(t, i)
<1>1. CASE InState(t, b, {"active"}) = {}
  BY <1>1 DEF LoadActive, Newest
<1>2. CASE InState(t, b, {"active"}) # {}
  <2>1. PICK i \in Ids : BatchOf[i] = b /\ t[i].state = "active"
    BY <1>2 DEF InState
  <2> QED BY <2>1, ActiveIsLoaded DEF InState
<1> QED BY <1>1, <1>2

(* A stored row is returned as a record that is not the empty one.         *)
LEMMA RecordType ==
    ASSUME NEW t \in [Ids -> Row], NEW i \in Ids
    PROVE  RecordOf(t, i) \in Record /\ RecordOf(t, i) # NoRecord
BY NoIdAssumption DEF RecordOf, Record, NoRecord, Row

(* The empty answer has the shape of a record.                             *)
LEMMA NoRecordType == NoRecord \in Record
BY DEF NoRecord, Record

(* An empty table satisfies the table invariant.                           *)
LEMMA EmptyTableInv == TableInv(EmptyTable)
<1>1. EmptyTable \in [Ids -> Row] /\ \A i \in Ids : EmptyTable[i].state = "absent"
  BY DEF EmptyTable, AbsentRow, Row, States
<1>2. \A b \in Batches : RowsOf(EmptyTable, b) = {}
  BY <1>1 DEF RowsOf, Stored
<1>3. \A b \in Batches : Revisions(EmptyTable, b) = 1..0
  BY <1>2 DEF Revisions
<1> QED BY <1>1, <1>2, <1>3 DEF TableInv, AtMostOne, Numbered

-----------------------------------------------------------------------------
(* An UPDATE of the state column touches neither content nor publication.  *)
LEMMA RestatedData ==
    ASSUME NEW t \in [Ids -> Row], NEW b, NEW from \in SUBSET (States \ {"absent"}),
           NEW to \in States \ {"absent"}, NEW j \in Ids
    PROVE  /\ Stored(Restated(t, b, from, to), j) <=> Stored(t, j)
           /\ Restated(t, b, from, to)[j].content = t[j].content
           /\ Restated(t, b, from, to)[j].publication = t[j].publication
BY DEF Restated, InState, Row, Stored, States

(* What each write makes of the content and the publication of a row.      *)
LEMMA WrittenData ==
    ASSUME NEW t, TableInv(t), NEW j \in Ids
    PROVE  /\ \A i \in Ids, c \in Contents :
                  /\ Stored(WithPreview(t, i, c), j) <=> (i = j \/ Stored(t, j))
                  /\ WithPreview(t, i, c)[j].content
                        = IF i = j THEN c ELSE t[j].content
                  /\ WithPreview(t, i, c)[j].publication
                        = IF i = j THEN NoContent ELSE t[j].publication
                  /\ Stored(WithPublication(t, i, c), j) <=> (i = j \/ Stored(t, j))
                  /\ WithPublication(t, i, c)[j].content
                        = IF i = j /\ ~Stored(t, j) THEN c ELSE t[j].content
                  /\ WithPublication(t, i, c)[j].publication
                        = IF i = j THEN c ELSE t[j].publication
           /\ \A b \in Batches :
                  /\ Stored(Invalidated(t, b), j) <=> Stored(t, j)
                  /\ Invalidated(t, b)[j].content = t[j].content
                  /\ Invalidated(t, b)[j].publication = t[j].publication
<1>0. t \in [Ids -> Row]
  BY DEF TableInv
<1>1. ASSUME NEW i \in Ids, NEW c \in Contents
      PROVE  /\ Stored(WithPreview(t, i, c), j) <=> (i = j \/ Stored(t, j))
             /\ WithPreview(t, i, c)[j].content = IF i = j THEN c ELSE t[j].content
             /\ WithPreview(t, i, c)[j].publication
                   = IF i = j THEN NoContent ELSE t[j].publication
  <2> DEFINE r == Restated(t, BatchOf[i], {"preview"}, "superseded")
  <2>1. /\ Stored(r, j) <=> Stored(t, j)
        /\ r[j].content = t[j].content /\ r[j].publication = t[j].publication
    BY <1>0, RestatedData DEF States
  <2>2. WithPreview(t, i, c)[j] =
            IF i = j THEN [state |-> "preview", rev |-> RevisionFor(t, i),
                           content |-> c, publication |-> NoContent] ELSE r[j]
    BY DEF WithPreview, Restated
  <2> HIDE DEF r
  <2> QED BY <2>1, <2>2 DEF Stored
<1>2. ASSUME NEW i \in Ids, NEW c \in Contents
      PROVE  /\ Stored(WithPublication(t, i, c), j) <=> (i = j \/ Stored(t, j))
             /\ WithPublication(t, i, c)[j].content
                   = IF i = j /\ ~Stored(t, j) THEN c ELSE t[j].content
             /\ WithPublication(t, i, c)[j].publication
                   = IF i = j THEN c ELSE t[j].publication
  <2> DEFINE r == Restated(t, BatchOf[i], {"active"}, "superseded")
  <2>1. /\ Stored(r, j) <=> Stored(t, j)
        /\ r[j].content = t[j].content /\ r[j].publication = t[j].publication
    BY <1>0, RestatedData DEF States
  <2>2. WithPublication(t, i, c)[j] =
            IF i = j THEN [state |-> "active", rev |-> RevisionFor(t, i),
                           content |-> IF Stored(t, i) THEN t[i].content ELSE c,
                           publication |-> c] ELSE r[j]
    BY DEF WithPublication, Restated
  <2> HIDE DEF r
  <2> QED BY <2>1, <2>2 DEF Stored
<1>3. ASSUME NEW b \in Batches
      PROVE  /\ Stored(Invalidated(t, b), j) <=> Stored(t, j)
             /\ Invalidated(t, b)[j].content = t[j].content
             /\ Invalidated(t, b)[j].publication = t[j].publication
  BY <1>0, RestatedData DEF Invalidated, States
<1> QED BY <1>1, <1>2, <1>3

(* The state column after each write.                                      *)
LEMMA StatesAfterPreview ==
    ASSUME NEW t, TableInv(t), NEW i \in Ids, NEW c \in Contents
    PROVE  \A j \in Ids : WithPreview(t, i, c)[j].state =
               IF j = i THEN "preview"
               ELSE IF BatchOf[j] = BatchOf[i] /\ t[j].state = "preview"
                    THEN "superseded" ELSE t[j].state
<1> DEFINE r == Restated(t, BatchOf[i], {"preview"}, "superseded")
<1>1. t \in [Ids -> Row]
  BY DEF TableInv
<1>2. \A j \in Ids : r[j].state =
          IF BatchOf[j] = BatchOf[i] /\ t[j].state = "preview"
          THEN "superseded" ELSE t[j].state
  BY <1>1 DEF Restated, InState, Row
<1>3. \A j \in Ids : IF j = i THEN WithPreview(t, i, c)[j].state = "preview"
                              ELSE WithPreview(t, i, c)[j] = r[j]
  BY DEF WithPreview, Restated
<1> QED BY <1>2, <1>3

(* A publication makes its row the only active one of the batch and leaves *)
(* every other preview alone.                                              *)
LEMMA StatesAfterPublication ==
    ASSUME NEW t, TableInv(t), NEW i \in Ids, NEW c \in Contents
    PROVE  \A j \in Ids : WithPublication(t, i, c)[j].state =
               IF j = i THEN "active"
               ELSE IF BatchOf[j] = BatchOf[i] /\ t[j].state = "active"
                    THEN "superseded" ELSE t[j].state
<1> DEFINE r == Restated(t, BatchOf[i], {"active"}, "superseded")
<1>1. t \in [Ids -> Row]
  BY DEF TableInv
<1>2. \A j \in Ids : r[j].state =
          IF BatchOf[j] = BatchOf[i] /\ t[j].state = "active"
          THEN "superseded" ELSE t[j].state
  BY <1>1 DEF Restated, InState, Row
<1>3. \A j \in Ids \ {i} : WithPublication(t, i, c)[j] = r[j]
  BY DEF WithPublication, Restated
<1>4. WithPublication(t, i, c)[i].state = "active"
  BY PublicationKeepsTable
<1> QED BY <1>2, <1>3, <1>4

(* An invalidation leaves its batch without preview and active rows.       *)
LEMMA StatesAfterInvalidation ==
    ASSUME NEW t, TableInv(t), NEW b \in Batches
    PROVE  \A j \in Ids : Invalidated(t, b)[j].state =
               IF BatchOf[j] = b /\ t[j].state \in {"preview", "active"}
               THEN "invalidated" ELSE t[j].state
BY DEF Invalidated, Restated, InState, Row, TableInv

=============================================================================
