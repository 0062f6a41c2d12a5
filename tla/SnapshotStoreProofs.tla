------------------------- MODULE SnapshotStoreProofs -------------------------
(***************************************************************************)
(* Proofs about SnapshotStore, for any sets of batches, Snapshot IDs and   *)
(* contents, and for any combination of faults unless a theorem says       *)
(* otherwise.                                                              *)
(***************************************************************************)
EXTENDS SnapshotStore, SnapshotTableProofs

-----------------------------------------------------------------------------
(* The inductive invariant that holds under every fault.                   *)
PendingRow ==
    /\ call.op \in {"publishArchive", "publishRename"} =>
           rows[call.id].state = "active"
    /\ call.op \in {"previewArchive", "previewRename"} =>
           rows[call.id].state = "preview"

IInv ==
    /\ TableInv(rows)
    /\ cache \in [Batches -> Record]
    /\ archive \in [Ids -> Row]
    /\ call \in Calls
    /\ PendingRow
    /\ ArchiveFollowsTable

(* Which fields the operation that holds the mutex has.                    *)
LEMMA CallShapes ==
    ASSUME call \in Calls
    PROVE  /\ call.op \in Ops => call.id \in Ids
           /\ call.op = "invalidate" => call.batch \in Batches
           /\ call = Idle => call.op = "idle"
           /\ call.op \in Ops \cup {"idle", "invalidate"}
BY DEF Calls, Idle, Ops

(* An empty store satisfies the inductive invariant.                       *)
LEMMA InitIInv == Init => IInv
<1> SUFFICES ASSUME Init PROVE IInv
  OBVIOUS
<1>1. TableInv(EmptyTable) /\ \A i \in Ids : ~Stored(EmptyTable, i)
  BY EmptyTableInv DEF EmptyTable, AbsentRow, Stored
<1>2. EmptyTable \in [Ids -> Row]
  BY <1>1 DEF TableInv
<1>3. call \in Calls /\ PendingRow
  BY DEF Init, Calls, Idle, PendingRow
<1>4. ArchiveFollowsTable
  BY <1>1 DEF Init, ArchiveFollowsTable
<1> QED BY <1>1, <1>2, <1>3, <1>4, NoRecordType DEF Init, IInv

(* Rows other than the one written keep revision and presence.             *)
LEMMA WritesKeepRevisions ==
    ASSUME NEW t, TableInv(t)
    PROVE  /\ \A i \in Ids, c \in Contents, j \in Ids : Stored(t, j) =>
                  /\ Stored(WithPreview(t, i, c), j)
                  /\ WithPreview(t, i, c)[j].rev = t[j].rev
                  /\ Stored(WithPublication(t, i, c), j)
                  /\ WithPublication(t, i, c)[j].rev = t[j].rev
           /\ \A b \in Batches, j \in Ids : Stored(t, j) =>
                  /\ Stored(Invalidated(t, b), j)
                  /\ Invalidated(t, b)[j].rev = t[j].rev
<1>0. t \in [Ids -> Row]
  BY DEF TableInv
<1>1. ASSUME NEW i \in Ids, NEW c \in Contents, NEW j \in Ids, Stored(t, j)
      PROVE  /\ Stored(WithPreview(t, i, c), j)
             /\ WithPreview(t, i, c)[j].rev = t[j].rev
  <2> DEFINE r == Restated(t, BatchOf[i], {"preview"}, "superseded")
  <2>1. r \in [Ids -> Row] /\ r[j].rev = t[j].rev /\ Stored(r, j)
    BY <1>0, <1>1, RestatedRows, BatchOfAssumption DEF States
  <2>2. CASE i = j
    BY <1>1, <2>1, <2>2 DEF WithPreview, Stored, RevisionFor
  <2>3. CASE i # j
    BY <1>1, <2>1, <2>3 DEF WithPreview, Stored
  <2> QED BY <2>2, <2>3
<1>2. ASSUME NEW i \in Ids, NEW c \in Contents, NEW j \in Ids, Stored(t, j)
      PROVE  /\ Stored(WithPublication(t, i, c), j)
             /\ WithPublication(t, i, c)[j].rev = t[j].rev
  <2> DEFINE r == Restated(t, BatchOf[i], {"active"}, "superseded")
  <2>1. r \in [Ids -> Row] /\ r[j].rev = t[j].rev /\ Stored(r, j)
    BY <1>0, <1>2, RestatedRows, BatchOfAssumption DEF States
  <2>2. CASE i = j
    BY <1>2, <2>1, <2>2 DEF WithPublication, Stored, RevisionFor
  <2>3. CASE i # j
    BY <1>2, <2>1, <2>3 DEF WithPublication, Stored
  <2> QED BY <2>2, <2>3
<1>3. ASSUME NEW b \in Batches, NEW j \in Ids, Stored(t, j)
      PROVE  Stored(Invalidated(t, b), j) /\ Invalidated(t, b)[j].rev = t[j].rev
  BY <1>0, <1>3, RestatedRows DEF States, Invalidated
<1> QED BY <1>1, <1>2, <1>3

(* Every step of the store keeps the inductive invariant, whatever fails.  *)
LEMMA StepIInv == IInv /\ [Next]_vars => IInv'
<1> SUFFICES ASSUME IInv, [Next]_vars PROVE IInv'
  OBVIOUS
<1> USE DEF IInv
<1>0. rows \in [Ids -> Row]
  BY DEF TableInv
<1>1. ASSUME NEW i \in Ids, NEW c \in Contents, SavePreview(i, c)
      PROVE  IInv'
  <2>1. TableInv(rows)' /\ rows'[i].state = "preview"
    BY <1>1, PreviewKeepsTable DEF SavePreview
  <2>2. call' \in Calls /\ PendingRow'
    BY <1>1, <2>1 DEF SavePreview, Calls, Ops, PendingRow
  <2>3. ArchiveFollowsTable'
    BY <1>1, WritesKeepRevisions DEF SavePreview, ArchiveFollowsTable
  <2> QED BY <1>1, <2>1, <2>2, <2>3 DEF SavePreview
<1>2. ASSUME NEW i \in Ids, NEW c \in Contents, MarkPublished(i, c)
      PROVE  IInv'
  <2>1. TableInv(rows)' /\ rows'[i].state = "active"
    BY <1>2, PublicationKeepsTable DEF MarkPublished
  <2>2. call' \in Calls /\ PendingRow'
    BY <1>2, <2>1 DEF MarkPublished, Calls, Ops, PendingRow
  <2>3. ArchiveFollowsTable'
    BY <1>2, WritesKeepRevisions DEF MarkPublished, ArchiveFollowsTable
  <2> QED BY <1>2, <2>1, <2>2, <2>3 DEF MarkPublished
<1>3. CASE StageArchive
  <2>1. call.id \in Ids /\ call.op \in {"previewArchive", "publishArchive"}
    BY <1>3, CallShapes DEF StageArchive, Ops
  <2>2. call' \in Calls /\ call'.id = call.id
        /\ call'.op = IF call.op = "previewArchive" THEN "previewRename" ELSE "publishRename"
    BY <1>3, <2>1 DEF StageArchive, Calls, Ops, Idle
  <2>3. PendingRow'
    BY <1>3, <2>1, <2>2 DEF StageArchive, PendingRow
  <2>4. archive' \in [Ids -> Row]
    BY <1>3, <2>1 DEF StageArchive, AbsentRow, Row, States
  <2>5. ArchiveFollowsTable'
    BY <1>3, <2>1 DEF StageArchive, ArchiveFollowsTable, Stored, AbsentRow
  <2> QED BY <1>3, <2>2, <2>3, <2>4, <2>5 DEF StageArchive, TableInv
<1>4. CASE CommitArchive
  <2>1. call.id \in Ids
    BY <1>4, CallShapes DEF CommitArchive, Ops
  <2>2. cache' \in [Batches -> Record]
    BY <1>0, <1>4, <2>1, RecordType, BatchOfAssumption DEF CommitArchive
  <2>3. archive' \in [Ids -> Row]
    BY <1>0, <1>4, <2>1 DEF CommitArchive
  <2>4. call' \in Calls /\ PendingRow'
    BY <1>4 DEF CommitArchive, Calls, Idle, PendingRow
  <2>5. ArchiveFollowsTable'
    BY <1>4, <2>1 DEF CommitArchive, ArchiveFollowsTable, Stored
  <2> QED BY <1>4, <2>2, <2>3, <2>4, <2>5 DEF CommitArchive, TableInv
<1>5. CASE ArchiveFails
  BY <1>5 DEF ArchiveFails, Calls, Idle, PendingRow, ArchiveFollowsTable
<1>6. ASSUME NEW b \in Batches, InvalidateBatch(b)
      PROVE  IInv'
  <2>1. TableInv(rows)'
    BY <1>6, InvalidationKeepsTable DEF InvalidateBatch
  <2>2. call' \in Calls /\ PendingRow'
    BY <1>6 DEF InvalidateBatch, Calls, PendingRow
  <2>3. ArchiveFollowsTable'
    BY <1>6, WritesKeepRevisions DEF InvalidateBatch, ArchiveFollowsTable
  <2> QED BY <1>6, <2>1, <2>2, <2>3 DEF InvalidateBatch
<1>7. ASSUME NEW b \in Batches, ActiveSnapshot(b)
      PROVE  IInv'
  <2>1. LoadActive(rows, b) \in Record
    BY <1>0, LoadedIsActive, RecordType, NoRecordType DEF TableInv, InState
  <2> QED BY <1>7, <2>1 DEF ActiveSnapshot, PendingRow, ArchiveFollowsTable, TableInv
<1>8. CASE FinishInvalidate
  BY <1>8, CallShapes, NoRecordType
  DEF FinishInvalidate, Calls, Idle, PendingRow, ArchiveFollowsTable
<1>9. CASE ScheduleResetFails
  BY <1>9 DEF ScheduleResetFails, Calls, Idle, PendingRow, ArchiveFollowsTable
<1>10. CASE Restart
  BY <1>10, NoRecordType
  DEF Restart, Calls, Idle, PendingRow, ArchiveFollowsTable
<1>11. CASE UNCHANGED vars
  BY <1>11 DEF vars, PendingRow, ArchiveFollowsTable
<1> QED BY <1>1, <1>2, <1>3, <1>4, <1>5, <1>6, <1>7, <1>8, <1>9, <1>10, <1>11
        DEF Next

(* The inductive invariant holds in every reachable state of the store,    *)
(* under every fault; the theorems below read their properties off it.     *)
THEOREM Invariance == Spec => []IInv
BY InitIInv, StepIInv, PTL DEF Spec

(* Type correctness of the store, under every fault.                       *)
THEOREM TypeCorrect == Spec => []TypeOK
<1>1. IInv => TypeOK
  BY DEF IInv, TypeOK, TableInv
<1> QED BY <1>1, Invariance, PTL

(* At no moment do two Snapshots of a batch claim to be the current one,   *)
(* whatever the order of publications, route changes and failures.         *)
THEOREM AtMostOneActive == Spec => []OneActivePerBatch
<1>1. IInv => OneActivePerBatch
  BY DEF IInv, TableInv, OneActivePerBatch
<1> QED BY <1>1, Invariance, PTL

(* At no moment do two previews of a batch wait for publication.           *)
THEOREM AtMostOnePreview == Spec => []OnePreviewPerBatch
<1>1. IInv => OnePreviewPerBatch
  BY DEF IInv, TableInv, OnePreviewPerBatch
<1> QED BY <1>1, Invariance, PTL

(* The revisions of a batch are numbered without gap or repetition, so the *)
(* UNIQUE (batch_id, revision) constraint never rejects an insert.         *)
THEOREM RevisionsNumbered == Spec => []RevisionsWithoutGaps
<1>1. IInv => RevisionsWithoutGaps
  BY NumberedGapless DEF IInv, TableInv, RevisionsWithoutGaps
<1> QED BY <1>1, Invariance, PTL

(* The archive never holds a row the table does not, nor under another     *)
(* revision.                                                               *)
THEOREM ArchiveBehindTable == Spec => []ArchiveFollowsTable
<1>1. IInv => ArchiveFollowsTable
  BY DEF IInv
<1> QED BY <1>1, Invariance, PTL

-----------------------------------------------------------------------------
(* The cache.  A settled batch has its active row in the cache or nothing; *)
(* an operation between its COMMIT and its cache update is not settled.    *)
CacheInv ==
    \A b \in Batches : ~Unsettled(b) =>
        \/ cache[b] = NoRecord
        \/ \E i \in InState(rows, b, {"active"}) : cache[b] = RecordOf(rows, i)

(* A write that leaves the active rows of a batch alone keeps its cached   *)
(* record right.                                                           *)
LEMMA SameActiveRows ==
    ASSUME NEW t, NEW u, NEW b \in Batches,
           InState(t, b, {"active"}) = InState(u, b, {"active"}),
           \A i \in InState(t, b, {"active"}) : u[i] = t[i],
           NEW r,
           \/ r = NoRecord
           \/ \E i \in InState(t, b, {"active"}) : r = RecordOf(t, i)
    PROVE  \/ r = NoRecord
           \/ \E i \in InState(u, b, {"active"}) : r = RecordOf(u, i)
BY DEF RecordOf

(* Saving a preview never touches an active row.                           *)
LEMMA PreviewKeepsActiveRows ==
    ASSUME NEW t, TableInv(t), NEW i \in Ids, NEW c \in Contents,
           t[i].state # "active", NEW b \in Batches
    PROVE  /\ InState(WithPreview(t, i, c), b, {"active"}) = InState(t, b, {"active"})
           /\ \A j \in InState(t, b, {"active"}) : WithPreview(t, i, c)[j] = t[j]
<1> DEFINE r == Restated(t, BatchOf[i], {"preview"}, "superseded")
           u == WithPreview(t, i, c)
<1>1. t \in [Ids -> Row]
  BY DEF TableInv
<1>2. r \in [Ids -> Row]
  BY <1>1, RestatedRows, BatchOfAssumption DEF States
<1>3. \A j \in Ids : IF j = i THEN u[j].state = "preview" ELSE u[j] = r[j]
  BY <1>2 DEF WithPreview
<1>4. \A j \in Ids : /\ r[j].state = "active" <=> t[j].state = "active"
                     /\ t[j].state = "active" => r[j] = t[j]
  BY <1>1 DEF Restated, InState, Row
<1> QED BY <1>3, <1>4 DEF InState

(* A publication or an invalidation never touches the active row of        *)
(* another batch.                                                          *)
LEMMA OtherBatchKeepsActiveRows ==
    ASSUME NEW t, TableInv(t), NEW b \in Batches
    PROVE  /\ \A i \in Ids, c \in Contents : BatchOf[i] # b =>
                  /\ InState(WithPublication(t, i, c), b, {"active"})
                        = InState(t, b, {"active"})
                  /\ \A j \in InState(t, b, {"active"}) :
                        WithPublication(t, i, c)[j] = t[j]
           /\ \A a \in Batches : a # b =>
                  /\ InState(Invalidated(t, a), b, {"active"})
                        = InState(t, b, {"active"})
                  /\ \A j \in InState(t, b, {"active"}) :
                        Invalidated(t, a)[j] = t[j]
<1>1. t \in [Ids -> Row]
  BY DEF TableInv
<1>2. ASSUME NEW i \in Ids, NEW c \in Contents, BatchOf[i] # b
      PROVE  /\ InState(WithPublication(t, i, c), b, {"active"})
                   = InState(t, b, {"active"})
             /\ \A j \in InState(t, b, {"active"}) :
                   WithPublication(t, i, c)[j] = t[j]
  <2>1. \A j \in Ids : BatchOf[j] = b => WithPublication(t, i, c)[j] = t[j]
    BY <1>1, <1>2 DEF WithPublication, Restated, InState
  <2> QED BY <2>1 DEF InState
<1>3. ASSUME NEW a \in Batches, a # b
      PROVE  /\ InState(Invalidated(t, a), b, {"active"})
                   = InState(t, b, {"active"})
             /\ \A j \in InState(t, b, {"active"}) : Invalidated(t, a)[j] = t[j]
  <2>1. \A j \in Ids : BatchOf[j] = b => Invalidated(t, a)[j] = t[j]
    BY <1>1, <1>3 DEF Invalidated, Restated, InState
  <2> QED BY <2>1 DEF InState
<1> QED BY <1>2, <1>3

(* While no archive write and no schedule reset fails, every step keeps    *)
(* what the cache says of the table.                                       *)
LEMMA StepCacheInv ==
    ASSUME Faults \cap {"archive", "schedule"} = {}, IInv, CacheInv, [Next]_vars
    PROVE  CacheInv'
<1> USE DEF IInv
<1>0. rows \in [Ids -> Row]
  BY DEF TableInv
<1>1. ASSUME NEW i \in Ids, NEW c \in Contents, SavePreview(i, c)
      PROVE  CacheInv'
  <2> SUFFICES ASSUME NEW b \in Batches
               PROVE  \/ cache[b] = NoRecord
                      \/ \E j \in InState(rows', b, {"active"}) :
                             cache[b] = RecordOf(rows', j)
    BY <1>1 DEF SavePreview, CacheInv
  <2>1. \/ cache[b] = NoRecord
        \/ \E j \in InState(rows, b, {"active"}) : cache[b] = RecordOf(rows, j)
    BY <1>1 DEF SavePreview, CacheInv, Unsettled, Idle
  <2>2. InState(rows', b, {"active"}) = InState(rows, b, {"active"})
        /\ \A j \in InState(rows, b, {"active"}) : rows'[j] = rows[j]
    BY <1>1, PreviewKeepsActiveRows DEF SavePreview
  <2> QED BY <2>1, <2>2, SameActiveRows
<1>2. ASSUME NEW i \in Ids, NEW c \in Contents, MarkPublished(i, c)
      PROVE  CacheInv'
  <2> SUFFICES ASSUME NEW b \in Batches, b # BatchOf[i]
               PROVE  \/ cache[b] = NoRecord
                      \/ \E j \in InState(rows', b, {"active"}) :
                             cache[b] = RecordOf(rows', j)
    BY <1>2 DEF MarkPublished, CacheInv, Unsettled
  <2>1. \/ cache[b] = NoRecord
        \/ \E j \in InState(rows, b, {"active"}) : cache[b] = RecordOf(rows, j)
    BY <1>2 DEF MarkPublished, CacheInv, Unsettled, Idle
  <2>2. InState(rows', b, {"active"}) = InState(rows, b, {"active"})
        /\ \A j \in InState(rows, b, {"active"}) : rows'[j] = rows[j]
    BY <1>2, OtherBatchKeepsActiveRows DEF MarkPublished
  <2> QED BY <2>1, <2>2, SameActiveRows
<1>3. CASE StageArchive
  <2>1. \A b \in Batches : Unsettled(b) => Unsettled(b)'
    BY <1>3, CallShapes DEF StageArchive, Unsettled, Calls, Ops, Idle
  <2> QED BY <1>3, <2>1 DEF StageArchive, CacheInv
<1>4. CASE CommitArchive
  <2> SUFFICES ASSUME NEW b \in Batches
               PROVE  \/ cache'[b] = NoRecord
                      \/ \E j \in InState(rows, b, {"active"}) :
                             cache'[b] = RecordOf(rows, j)
    BY <1>4 DEF CommitArchive, CacheInv
  <2>1. call.id \in Ids
    BY <1>4, CallShapes DEF CommitArchive, Ops
  <2>2. CASE call.op = "publishRename" /\ BatchOf[call.id] = b
    <3>1. cache'[b] = RecordOf(rows, call.id)
      BY <1>4, <2>2 DEF CommitArchive
    <3>2. call.id \in InState(rows, b, {"active"})
      BY <2>1, <2>2 DEF PendingRow, InState
    <3> QED BY <3>1, <3>2
  <2>3. CASE ~(call.op = "publishRename" /\ BatchOf[call.id] = b)
    <3>1. ~Unsettled(b)
      BY <1>4, <2>3 DEF CommitArchive, Unsettled
    <3>2. cache'[b] = cache[b]
      BY <1>4, <2>1, <2>3 DEF CommitArchive
    <3> QED BY <3>1, <3>2 DEF CacheInv
  <2> QED BY <2>2, <2>3
<1>5. CASE ArchiveFails
  BY <1>5 DEF ArchiveFails
<1>6. ASSUME NEW a \in Batches, InvalidateBatch(a)
      PROVE  CacheInv'
  <2> SUFFICES ASSUME NEW b \in Batches, b # a
               PROVE  \/ cache[b] = NoRecord
                      \/ \E j \in InState(rows', b, {"active"}) :
                             cache[b] = RecordOf(rows', j)
    BY <1>6 DEF InvalidateBatch, CacheInv, Unsettled
  <2>1. \/ cache[b] = NoRecord
        \/ \E j \in InState(rows, b, {"active"}) : cache[b] = RecordOf(rows, j)
    BY <1>6 DEF InvalidateBatch, CacheInv, Unsettled, Idle
  <2>2. InState(rows', b, {"active"}) = InState(rows, b, {"active"})
        /\ \A j \in InState(rows, b, {"active"}) : rows'[j] = rows[j]
    BY <1>6, OtherBatchKeepsActiveRows DEF InvalidateBatch
  <2> QED BY <2>1, <2>2, SameActiveRows
<1>7. ASSUME NEW a \in Batches, ActiveSnapshot(a)
      PROVE  CacheInv'
  <2>1. \E i \in InState(rows, a, {"active"}) : LoadActive(rows, a) = RecordOf(rows, i)
    BY <1>0, <1>7, LoadedIsActive DEF ActiveSnapshot, TableInv
  <2>2. \A b \in Batches : Unsettled(b)' <=> Unsettled(b)
    BY <1>7 DEF ActiveSnapshot, Unsettled
  <2> QED BY <1>7, <2>1, <2>2 DEF ActiveSnapshot, CacheInv
<1>8. CASE FinishInvalidate
  <2>1. \A b \in Batches : Unsettled(b) => b = call.batch
    BY <1>8 DEF FinishInvalidate, Unsettled
  <2> QED BY <1>8, <2>1 DEF FinishInvalidate, CacheInv
<1>9. CASE ScheduleResetFails
  BY <1>9 DEF ScheduleResetFails
<1>10. CASE Restart
  BY <1>10 DEF Restart, CacheInv
<1>11. CASE UNCHANGED vars
  BY <1>11 DEF vars, CacheInv, Unsettled
<1> QED BY <1>1, <1>2, <1>3, <1>4, <1>5, <1>6, <1>7, <1>8, <1>9, <1>10, <1>11
        DEF Next

(* A cache entry that is no operation's unfinished business answers what   *)
(* the table would.                                                        *)
LEMMA CacheInvServesTable ==
    ASSUME IInv, CacheInv, NEW b \in Batches, ~Unsettled(b)
    PROVE  Served(b) = LoadActive(rows, b)
<1>1. CASE cache[b] = NoRecord
  BY <1>1 DEF Served
<1>2. CASE cache[b] # NoRecord
  <2>1. PICK i \in InState(rows, b, {"active"}) : cache[b] = RecordOf(rows, i)
    BY <1>2 DEF CacheInv
  <2>2. LoadActive(rows, b) = RecordOf(rows, i)
    BY <2>1, ActiveIsLoaded DEF IInv, TableInv, InState
  <2> QED BY <1>2, <2>1, <2>2 DEF Served
<1> QED BY <1>1, <1>2

(* The empty cache agrees with the empty table.                            *)
LEMMA InitCacheInv == Init => CacheInv
BY DEF Init, CacheInv

(* The cache agrees with the table in every reachable state, as long as no *)
(* operation fails half way.                                               *)
LEMMA CacheInvariance ==
    ASSUME Faults \cap {"archive", "schedule"} = {}
    PROVE  Spec => []CacheInv
<1>1. IInv /\ CacheInv /\ [Next]_vars => CacheInv'
  BY StepCacheInv
<1> QED BY InitCacheInv, <1>1, Invariance, PTL DEF Spec

(* Unless a store operation fails half way, active_snapshot answers what   *)
(* the table says, crashes and restarts included.  The two excluded faults *)
(* return after the COMMIT and before the cache is touched, so that the    *)
(* cache keeps the earlier record.                                         *)
THEOREM CacheAgreesWithTable ==
    ASSUME Faults \cap {"archive", "schedule"} = {}
    PROVE  Spec => []ServesSourceOfTruth
<1>1. IInv /\ CacheInv => ServesSourceOfTruth
  BY CacheInvServesTable DEF ServesSourceOfTruth, Unsettled, Idle
<1> QED BY <1>1, Invariance, CacheInvariance, PTL

-----------------------------------------------------------------------------
(* Which records can be served, under every fault.  The cache may lag      *)
(* behind the table then, but what it holds was an active row once: it was *)
(* published, and the row it came from keeps its batch and its revision.   *)
PublishedInv ==
    /\ \A i \in Ids : rows[i].state = "active" => rows[i].publication # NoContent
    /\ \A b \in Batches : cache[b] # NoRecord =>
           /\ cache[b].id \in Ids /\ BatchOf[cache[b].id] = b
           /\ cache[b].publication # NoContent
           /\ Stored(rows, cache[b].id)
           /\ rows[cache[b].id].rev = cache[b].rev

(* After each write the active rows still carry a publication: a preview   *)
(* or an invalidation makes none, a publication writes its own.            *)
LEMMA WritesKeepPublished ==
    ASSUME NEW t, TableInv(t),
           \A i \in Ids : t[i].state = "active" => t[i].publication # NoContent
    PROVE  /\ \A i \in Ids, c \in Contents, j \in Ids :
                  /\ WithPreview(t, i, c)[j].state = "active"
                        => WithPreview(t, i, c)[j].publication # NoContent
                  /\ WithPublication(t, i, c)[j].state = "active"
                        => WithPublication(t, i, c)[j].publication # NoContent
           /\ \A b \in Batches, j \in Ids : Invalidated(t, b)[j].state = "active"
                  => Invalidated(t, b)[j].publication # NoContent
<1>0. t \in [Ids -> Row]
  BY DEF TableInv
<1>1. ASSUME NEW b \in Batches, NEW j \in Ids, NEW from, NEW to \in States \ {"active"},
             Restated(t, b, from, to)[j].state = "active"
      PROVE  Restated(t, b, from, to)[j] = t[j]
  BY <1>0, <1>1 DEF Restated, Row
<1>2. ASSUME NEW i \in Ids, NEW c \in Contents, NEW j \in Ids
      PROVE  /\ WithPreview(t, i, c)[j].state = "active"
                    => WithPreview(t, i, c)[j].publication # NoContent
             /\ WithPublication(t, i, c)[j].state = "active"
                    => WithPublication(t, i, c)[j].publication # NoContent
  <2>1. CASE i = j
    <3>1. WithPreview(t, i, c)[j].state = "preview"
      BY <2>1, PreviewKeepsTable
    <3>2. WithPublication(t, i, c)[j].publication = c
      BY <2>1 DEF WithPublication, Restated
    <3> QED BY <3>1, <3>2, NoContentAssumption
  <2>2. CASE i # j
    <3>1. WithPreview(t, i, c)[j]
             = Restated(t, BatchOf[i], {"preview"}, "superseded")[j]
      BY <2>2 DEF WithPreview, Restated
    <3>2. WithPublication(t, i, c)[j]
             = Restated(t, BatchOf[i], {"active"}, "superseded")[j]
      BY <2>2 DEF WithPublication, Restated
    <3> QED BY <1>1, <3>1, <3>2, BatchOfAssumption DEF States
  <2> QED BY <2>1, <2>2
<1>3. ASSUME NEW b \in Batches, NEW j \in Ids, Invalidated(t, b)[j].state = "active"
      PROVE  Invalidated(t, b)[j].publication # NoContent
  BY <1>1, <1>3 DEF Invalidated, States
<1> QED BY <1>2, <1>3

(* Every step keeps it, whatever fails.                                    *)
LEMMA StepPublishedInv == IInv /\ PublishedInv /\ [Next]_vars => PublishedInv'
<1> SUFFICES ASSUME IInv, PublishedInv, [Next]_vars PROVE PublishedInv'
  OBVIOUS
<1>0. TableInv(rows) /\ rows \in [Ids -> Row]
      /\ cache \in [Batches -> Record] /\ call \in Calls
  BY DEF IInv, TableInv
<1>1. ASSUME NEW i \in Ids, NEW c \in Contents, SavePreview(i, c)
      PROVE  PublishedInv'
  BY <1>0, <1>1, WritesKeepPublished, WritesKeepRevisions DEF SavePreview, PublishedInv
<1>2. ASSUME NEW i \in Ids, NEW c \in Contents, MarkPublished(i, c)
      PROVE  PublishedInv'
  BY <1>0, <1>2, WritesKeepPublished, WritesKeepRevisions DEF MarkPublished, PublishedInv
<1>3. CASE CommitArchive
  <2>1. call.id \in Ids
    BY <1>0, <1>3, CallShapes DEF CommitArchive, Ops
  <2>2. CASE call.op = "previewRename"
    BY <1>3, <2>2 DEF CommitArchive, PublishedInv
  <2>3. CASE call.op = "publishRename"
    <3>1. rows[call.id].state = "active" /\ BatchOf[call.id] \in Batches
      BY <2>1, <2>3, BatchOfAssumption DEF IInv, PendingRow
    <3>2. cache' = [cache EXCEPT ![BatchOf[call.id]] = RecordOf(rows, call.id)]
          /\ UNCHANGED rows
      BY <1>3, <2>3 DEF CommitArchive
    <3> QED BY <1>0, <2>1, <3>1, <3>2 DEF PublishedInv, RecordOf, Stored
  <2> QED BY <1>3, <2>2, <2>3 DEF CommitArchive
<1>4. ASSUME NEW b \in Batches, InvalidateBatch(b)
      PROVE  PublishedInv'
  BY <1>0, <1>4, WritesKeepPublished, WritesKeepRevisions
  DEF InvalidateBatch, PublishedInv
<1>5. ASSUME NEW b \in Batches, ActiveSnapshot(b)
      PROVE  PublishedInv'
  <2>1. PICK i \in InState(rows, b, {"active"}) : LoadActive(rows, b) = RecordOf(rows, i)
    BY <1>0, <1>5, LoadedIsActive DEF ActiveSnapshot, TableInv
  <2> QED BY <1>0, <1>5, <2>1 DEF ActiveSnapshot, PublishedInv, InState, RecordOf, Stored
<1>6. CASE FinishInvalidate
  <2>1. call.batch \in Batches
    BY <1>0, <1>6, CallShapes DEF FinishInvalidate
  <2> QED BY <1>0, <1>6, <2>1 DEF FinishInvalidate, PublishedInv
<1>7. CASE Restart
  BY <1>7 DEF Restart, PublishedInv
<1>8. CASE UNCHANGED <<rows, cache>>
  BY <1>8 DEF PublishedInv
<1> QED BY <1>1, <1>2, <1>3, <1>4, <1>5, <1>6, <1>7, <1>8
        DEF Next, vars, StageArchive, ArchiveFails, ScheduleResetFails

(* Whatever fails and whenever the process dies, active_snapshot answers   *)
(* with nothing or with a published Snapshot of the batch it was asked     *)
(* for, under the revision the table keeps for it.                         *)
THEOREM ServedIsPublished == Spec => []OnlyPublishedIsServed
<1>1. Init => PublishedInv
  BY DEF Init, PublishedInv, EmptyTable, AbsentRow
<1>2. IInv /\ PublishedInv => OnlyPublishedIsServed
  <2> SUFFICES ASSUME IInv, PublishedInv, NEW b \in Batches, Served(b) # NoRecord
               PROVE  /\ Served(b).publication # NoContent
                      /\ BatchOf[Served(b).id] = b
                      /\ rows[Served(b).id].rev = Served(b).rev
    BY DEF OnlyPublishedIsServed
  <2>1. CASE cache[b] # NoRecord
    BY <2>1 DEF Served, PublishedInv
  <2>2. CASE cache[b] = NoRecord
    <3>1. LoadActive(rows, b) = Served(b)
      BY <2>2 DEF Served
    <3>2. PICK i \in InState(rows, b, {"active"}) : Served(b) = RecordOf(rows, i)
      BY <3>1, LoadedIsActive DEF IInv, TableInv
    <3> QED BY <3>2 DEF InState, RecordOf, PublishedInv
  <2> QED BY <2>1, <2>2
<1> QED BY <1>1, <1>2, StepPublishedInv, Invariance, PTL DEF Spec

-----------------------------------------------------------------------------
(* The archive, when nothing fails: a row is archived as it is, unless the *)
(* running operation is about to write it.                                 *)
ArchiveInv ==
    \A i \in Ids : Stored(rows, i) =>
        \/ Stored(archive, i) /\ RecordOf(archive, i) = RecordOf(rows, i)
        \/ call.op \in Ops /\ call.id = i

(* Only the written row changes what the archive keeps of a row.           *)
LEMMA WritesKeepRecords ==
    ASSUME NEW t, TableInv(t)
    PROVE  /\ \A i \in Ids, c \in Contents : \A j \in Ids \ {i} :
                  /\ Stored(WithPreview(t, i, c), j) <=> Stored(t, j)
                  /\ RecordOf(WithPreview(t, i, c), j) = RecordOf(t, j)
                  /\ Stored(WithPublication(t, i, c), j) <=> Stored(t, j)
                  /\ RecordOf(WithPublication(t, i, c), j) = RecordOf(t, j)
           /\ \A b \in Batches, j \in Ids :
                  /\ Stored(Invalidated(t, b), j) <=> Stored(t, j)
                  /\ RecordOf(Invalidated(t, b), j) = RecordOf(t, j)
<1>0. t \in [Ids -> Row]
  BY DEF TableInv
<1>1. ASSUME NEW b \in Batches, NEW from \in SUBSET (States \ {"absent"}),
             NEW to \in States \ {"absent"}, NEW j \in Ids
      PROVE  /\ Stored(Restated(t, b, from, to), j) <=> Stored(t, j)
             /\ RecordOf(Restated(t, b, from, to), j) = RecordOf(t, j)
  BY <1>0 DEF Restated, InState, Row, Stored, RecordOf, States
<1>2. ASSUME NEW i \in Ids, NEW c \in Contents, NEW j \in Ids \ {i}
      PROVE  /\ Stored(WithPreview(t, i, c), j) <=> Stored(t, j)
             /\ RecordOf(WithPreview(t, i, c), j) = RecordOf(t, j)
  <2> DEFINE r == Restated(t, BatchOf[i], {"preview"}, "superseded")
  <2>1. (Stored(r, j) <=> Stored(t, j)) /\ RecordOf(r, j) = RecordOf(t, j)
    BY <1>1, BatchOfAssumption DEF States
  <2>2. WithPreview(t, i, c)[j] = r[j]
    BY DEF WithPreview, Restated
  <2> QED BY <2>1, <2>2 DEF Stored, RecordOf
<1>3. ASSUME NEW i \in Ids, NEW c \in Contents, NEW j \in Ids \ {i}
      PROVE  /\ Stored(WithPublication(t, i, c), j) <=> Stored(t, j)
             /\ RecordOf(WithPublication(t, i, c), j) = RecordOf(t, j)
  <2> DEFINE r == Restated(t, BatchOf[i], {"active"}, "superseded")
  <2>1. (Stored(r, j) <=> Stored(t, j)) /\ RecordOf(r, j) = RecordOf(t, j)
    BY <1>1, BatchOfAssumption DEF States
  <2>2. WithPublication(t, i, c)[j] = r[j]
    BY DEF WithPublication, Restated
  <2> QED BY <2>1, <2>2 DEF Stored, RecordOf
<1>4. ASSUME NEW b \in Batches, NEW j \in Ids
      PROVE  /\ Stored(Invalidated(t, b), j) <=> Stored(t, j)
             /\ RecordOf(Invalidated(t, b), j) = RecordOf(t, j)
  BY <1>1 DEF Invalidated, States
<1> QED BY <1>2, <1>3, <1>4

(* While no archive write fails and no process dies, every step keeps the  *)
(* archive complete.                                                       *)
LEMMA StepArchiveInv ==
    ASSUME Faults \cap {"archive", "crash"} = {}, IInv, ArchiveInv, [Next]_vars
    PROVE  ArchiveInv'
<1> USE DEF IInv
<1>1. ASSUME NEW i \in Ids, NEW c \in Contents, SavePreview(i, c)
      PROVE  ArchiveInv'
  <2> SUFFICES ASSUME NEW j \in Ids \ {i}, Stored(rows', j)
               PROVE  Stored(archive, j) /\ RecordOf(archive, j) = RecordOf(rows', j)
    BY <1>1 DEF SavePreview, ArchiveInv, Ops, RecordOf
  <2>1. Stored(rows, j) /\ RecordOf(rows', j) = RecordOf(rows, j)
    BY <1>1, WritesKeepRecords DEF SavePreview
  <2> QED BY <1>1, <2>1 DEF SavePreview, ArchiveInv, Idle, Ops
<1>2. ASSUME NEW i \in Ids, NEW c \in Contents, MarkPublished(i, c)
      PROVE  ArchiveInv'
  <2> SUFFICES ASSUME NEW j \in Ids \ {i}, Stored(rows', j)
               PROVE  Stored(archive, j) /\ RecordOf(archive, j) = RecordOf(rows', j)
    BY <1>2 DEF MarkPublished, ArchiveInv, Ops, RecordOf
  <2>1. Stored(rows, j) /\ RecordOf(rows', j) = RecordOf(rows, j)
    BY <1>2, WritesKeepRecords DEF MarkPublished
  <2> QED BY <1>2, <2>1 DEF MarkPublished, ArchiveInv, Idle, Ops
<1>3. CASE StageArchive
  <2>1. call.id \in Ids /\ call.op \in {"previewArchive", "publishArchive"}
    BY <1>3, CallShapes DEF StageArchive, Ops
  <2>2. call'.id = call.id /\ call'.op \in Ops
    BY <1>3, <2>1 DEF StageArchive, Calls, Ops, Idle
  <2>3. \A j \in Ids \ {call.id} : archive'[j] = archive[j]
    BY <1>3, <2>1 DEF StageArchive
  <2> QED BY <1>3, <2>2, <2>3 DEF StageArchive, ArchiveInv, Stored, RecordOf
<1>4. CASE CommitArchive
  <2>1. call.id \in Ids
    BY <1>4, CallShapes DEF CommitArchive, Ops
  <2>2. archive' = [archive EXCEPT ![call.id] = rows[call.id]] /\ rows' = rows
    BY <1>4 DEF CommitArchive
  <2> QED BY <2>1, <2>2 DEF ArchiveInv, Stored, RecordOf
<1>5. CASE ArchiveFails
  BY <1>5 DEF ArchiveFails
<1>6. ASSUME NEW b \in Batches, InvalidateBatch(b)
      PROVE  ArchiveInv'
  <2> SUFFICES ASSUME NEW j \in Ids, Stored(rows', j)
               PROVE  Stored(archive, j) /\ RecordOf(archive, j) = RecordOf(rows', j)
    BY <1>6 DEF InvalidateBatch, ArchiveInv, RecordOf
  <2>1. Stored(rows, j) /\ RecordOf(rows', j) = RecordOf(rows, j)
    BY <1>6, WritesKeepRecords DEF InvalidateBatch
  <2> QED BY <1>6, <2>1 DEF InvalidateBatch, ArchiveInv, Idle, Ops
<1>7. ASSUME NEW b \in Batches, ActiveSnapshot(b)
      PROVE  ArchiveInv'
  BY <1>7 DEF ActiveSnapshot, ArchiveInv
<1>8. CASE FinishInvalidate
  BY <1>8 DEF FinishInvalidate, ArchiveInv, Ops
<1>9. CASE ScheduleResetFails
  BY <1>9 DEF ScheduleResetFails, ArchiveInv, Ops
<1>10. CASE Restart
  BY <1>10 DEF Restart, ArchiveInv, Ops, Idle
<1>11. CASE UNCHANGED vars
  BY <1>11 DEF vars, ArchiveInv
<1> QED BY <1>1, <1>2, <1>3, <1>4, <1>5, <1>6, <1>7, <1>8, <1>9, <1>10, <1>11
        DEF Next

(* Without file system failures and crashes every stored row has its       *)
(* archive file whenever no operation is running.                          *)
THEOREM ArchiveIsComplete ==
    ASSUME Faults \cap {"archive", "crash"} = {}
    PROVE  Spec => []EveryRowIsArchived
<1>1. Init => ArchiveInv
  BY DEF Init, ArchiveInv, Stored, EmptyTable, AbsentRow
<1>2. IInv /\ ArchiveInv /\ [Next]_vars => ArchiveInv'
  BY StepArchiveInv
<1>3. ArchiveInv => EveryRowIsArchived
  BY DEF ArchiveInv, EveryRowIsArchived, Idle, Ops
<1> QED BY <1>1, <1>2, <1>3, Invariance, PTL DEF Spec

(* The active manifest of a batch is never rewritten in place.             *)
THEOREM ActiveIsFrozen == Spec => ActiveContentIsFrozen
<1>1. IInv /\ [Next]_vars =>
          [\A i \in Ids : rows[i].state = "active" /\ rows'[i].state = "active"
             => rows'[i].content = rows[i].content /\ rows'[i].rev = rows[i].rev]_vars
  <2> SUFFICES ASSUME IInv, Next, NEW j \in Ids,
                      rows[j].state = "active", rows'[j].state = "active"
               PROVE  rows'[j].content = rows[j].content /\ rows'[j].rev = rows[j].rev
    OBVIOUS
  <2>0. rows \in [Ids -> Row] /\ TableInv(rows) /\ Stored(rows, j)
    BY DEF IInv, TableInv, Stored
  <2>1. ASSUME NEW i \in Ids, NEW c \in Contents, SavePreview(i, c)
        PROVE  RecordOf(rows', j) = RecordOf(rows, j)
    <3>1. i # j
      BY <2>1 DEF SavePreview
    <3> QED BY <2>0, <2>1, <3>1, WritesKeepRecords DEF SavePreview
  <2>2. ASSUME NEW i \in Ids, NEW c \in Contents, MarkPublished(i, c)
        PROVE  rows'[j].content = rows[j].content /\ rows'[j].rev = rows[j].rev
    <3>1. CASE i # j
      <4>1. RecordOf(rows', j) = RecordOf(rows, j)
        BY <2>0, <2>2, <3>1, WritesKeepRecords DEF MarkPublished
      <4> QED BY <4>1 DEF RecordOf
    <3>2. CASE i = j
      <4>1. rows' = [Restated(rows, BatchOf[j], {"active"}, "superseded") EXCEPT
                       ![j] = [state |-> "active", rev |-> RevisionFor(rows, j),
                               content |-> rows[j].content, publication |-> c]]
        BY <2>0, <2>2, <3>2 DEF MarkPublished, WithPublication
      <4>2. rows'[j] = [state |-> "active", rev |-> RevisionFor(rows, j),
                        content |-> rows[j].content, publication |-> c]
        BY <4>1 DEF Restated
      <4> QED BY <2>0, <4>2 DEF RevisionFor
    <3> QED BY <3>1, <3>2
  <2>3. ASSUME NEW b \in Batches, InvalidateBatch(b)
        PROVE  RecordOf(rows', j) = RecordOf(rows, j)
    BY <2>0, <2>3, WritesKeepRecords DEF InvalidateBatch
  <2>4. ASSUME UNCHANGED rows
        PROVE  rows'[j].content = rows[j].content /\ rows'[j].rev = rows[j].rev
    BY <2>4
  <2> QED BY <2>1, <2>2, <2>3, <2>4
          DEF Next, StageArchive, CommitArchive, ArchiveFails, ActiveSnapshot,
              FinishInvalidate, ScheduleResetFails, Restart, RecordOf
<1> QED BY <1>1, Invariance, PTL DEF Spec, ActiveContentIsFrozen

-----------------------------------------------------------------------------
(* SnapshotStore implements SnapshotLifecycle when no store operation      *)
(* fails half way; the process may die at any step.                        *)

(* The one row of a batch in state s, or NoId: what LiveId and DraftId     *)
(* come down to.                                                           *)
SoleId(t, b, s) == Newest(t, InState(t, b, {s})).id

(* A row in state s is the sole one: the mapping finds it.                 *)
LEMMA SoleIdFound ==
    ASSUME NEW t \in [Ids -> Row], NEW s, AtMostOne(t, s), NEW b \in Batches,
           NEW i \in Ids, BatchOf[i] = b, t[i].state = s
    PROVE  SoleId(t, b, s) = i
<1>1. InState(t, b, {s}) = {i}
  BY DEF InState, AtMostOne
<1>2. \A j \in {i} : \A l \in {i} : t[l].rev <= t[j].rev
  BY DEF Row
<1>3. (CHOOSE j \in {i} : \A l \in {i} : t[l].rev <= t[j].rev) = i
  BY <1>2
<1> QED BY <1>1, <1>3 DEF SoleId, Newest, RecordOf

(* Without a row in state s the mapping yields NoId.                       *)
LEMMA SoleIdMissing ==
    ASSUME NEW t, NEW s, NEW b, \A i \in Ids : ~(BatchOf[i] = b /\ t[i].state = s)
    PROVE  SoleId(t, b, s) = NoId
<1>1. InState(t, b, {s}) = {}
  BY DEF InState
<1> QED BY <1>1 DEF SoleId, Newest, NoRecord

(* Two tables with the same rows in state s have the same sole row.        *)
LEMMA SoleIdSame ==
    ASSUME NEW t \in [Ids -> Row], NEW u \in [Ids -> Row], NEW s,
           AtMostOne(t, s), AtMostOne(u, s), NEW b \in Batches,
           \A i \in Ids : BatchOf[i] = b => (t[i].state = s <=> u[i].state = s)
    PROVE  SoleId(u, b, s) = SoleId(t, b, s)
<1>1. CASE \E i \in Ids : BatchOf[i] = b /\ t[i].state = s
  BY <1>1, SoleIdFound
<1>2. CASE \A i \in Ids : ~(BatchOf[i] = b /\ t[i].state = s)
  <2>1. SoleId(t, b, s) = NoId
    BY <1>2, SoleIdMissing
  <2>2. SoleId(u, b, s) = NoId
    BY <1>2, SoleIdMissing
  <2> QED BY <2>1, <2>2
<1> QED BY <1>1, <1>2

-----------------------------------------------------------------------------
(* The mapping, as a function of the table alone.                          *)
MappingFromTable ==
    /\ [b \in Batches |-> LiveId(b)] =
           [b \in Batches |-> SoleId(rows, b, "active")]
    /\ [b \in Batches |-> DraftId(b)] =
           [b \in Batches |-> SoleId(rows, b, "preview")]

(* Under the invariants the refinement mapping is MappingFromTable: the    *)
(* cache adds nothing to it.                                               *)
LEMMA MappingHolds ==
    ASSUME IInv, CacheInv
    PROVE  MappingFromTable
<1>1. ASSUME NEW b \in Batches
      PROVE  LiveId(b) = SoleId(rows, b, "active")
  <2>1. LoadActive(rows, b).id = SoleId(rows, b, "active")
    BY DEF LoadActive, SoleId
  <2>2. CASE Unsettled(b)
    BY <2>1, <2>2 DEF LiveId
  <2>3. CASE ~Unsettled(b)
    BY <2>1, <2>3, CacheInvServesTable DEF LiveId
  <2> QED BY <2>2, <2>3
<1>2. \A b \in Batches : DraftId(b) = SoleId(rows, b, "preview")
  BY DEF DraftId, SoleId
<1> QED BY <1>1, <1>2 DEF MappingFromTable

(* An empty table with an empty cache maps to no live Snapshot, no draft.  *)
LEMMA InitMapsToInit == Init => Lifecycle!Init
<1> SUFFICES ASSUME Init PROVE Lifecycle!Init
  OBVIOUS
<1>1. IInv /\ CacheInv
  BY InitIInv, InitCacheInv
<1>2. \A b \in Batches, s \in {"active", "preview"} : SoleId(rows, b, s) = NoId
  BY SoleIdMissing DEF Init, EmptyTable, AbsentRow
<1> QED BY <1>1, <1>2, MappingHolds DEF MappingFromTable, Lifecycle!Init

(* Every step of the store maps to a step of the lifecycle, or to none.    *)
LEMMA StepMapsToStep ==
    ASSUME IInv, MappingFromTable, IInv', MappingFromTable', [Next]_vars
    PROVE  [Lifecycle!Next]_(Lifecycle!vars)
<1> DEFINE live == [b \in Batches |-> SoleId(rows, b, "active")]
           draft == [b \in Batches |-> SoleId(rows, b, "preview")]
<1>1. /\ [b \in Batches |-> LiveId(b)] = live
      /\ [b \in Batches |-> DraftId(b)] = draft
  BY DEF MappingFromTable
<1>2. /\ [b \in Batches |-> LiveId(b)]' = live'
      /\ [b \in Batches |-> DraftId(b)]' = draft'
  BY DEF MappingFromTable
<1>3. /\ TableInv(rows) /\ rows \in [Ids -> Row]
      /\ AtMostOne(rows, "active") /\ AtMostOne(rows, "preview")
      /\ TableInv(rows') /\ rows' \in [Ids -> Row]
      /\ AtMostOne(rows', "active") /\ AtMostOne(rows', "preview")
  BY DEF IInv, TableInv
<1>4. ASSUME NEW i \in Ids, NEW c \in Contents, SavePreview(i, c)
      PROVE  Lifecycle!Draft(i)
  <2>1. \A j \in Ids : rows'[j].state =
            IF j = i THEN "preview"
            ELSE IF BatchOf[j] = BatchOf[i] /\ rows[j].state = "preview"
                 THEN "superseded" ELSE rows[j].state
    BY <1>3, <1>4, StatesAfterPreview DEF SavePreview
  <2>2. live' = live
    <3> SUFFICES ASSUME NEW b \in Batches
                 PROVE  SoleId(rows', b, "active") = SoleId(rows, b, "active")
      OBVIOUS
    <3>1. \A j \in Ids : rows'[j].state = "active" <=> rows[j].state = "active"
      BY <1>4, <2>1 DEF SavePreview
    <3> QED BY <1>3, <3>1, SoleIdSame
  <2>3. draft' = [draft EXCEPT ![BatchOf[i]] = i]
    <3>1. SoleId(rows', BatchOf[i], "preview") = i
      BY <1>3, <2>1, SoleIdFound, BatchOfAssumption
    <3>2. \A b \in Batches \ {BatchOf[i]} :
              SoleId(rows', b, "preview") = SoleId(rows, b, "preview")
      BY <1>3, <2>1, SoleIdSame
    <3> QED BY <3>1, <3>2
  <2>4. live[BatchOf[i]] # i
    <3>1. rows[i].state # "active"
      BY <1>4 DEF SavePreview
    <3>2. CASE \E j \in Ids : BatchOf[j] = BatchOf[i] /\ rows[j].state = "active"
      <4>1. PICK j \in Ids : BatchOf[j] = BatchOf[i] /\ rows[j].state = "active"
        BY <3>2
      <4>2. SoleId(rows, BatchOf[i], "active") = j
        BY <1>3, <4>1, SoleIdFound, BatchOfAssumption
      <4> QED BY <3>1, <4>1, <4>2, BatchOfAssumption
    <3>3. CASE \A j \in Ids : ~(BatchOf[j] = BatchOf[i] /\ rows[j].state = "active")
      <4>1. SoleId(rows, BatchOf[i], "active") = NoId
        BY <3>3, SoleIdMissing
      <4> QED BY <4>1, BatchOfAssumption, NoIdAssumption
    <3> QED BY <3>2, <3>3
  <2> HIDE DEF live, draft
  <2> QED BY <1>1, <1>2, <2>2, <2>3, <2>4 DEF Lifecycle!Draft
<1>5. ASSUME NEW i \in Ids, NEW c \in Contents, MarkPublished(i, c)
      PROVE  Lifecycle!Publish(i)
  <2>1. \A j \in Ids : rows'[j].state =
            IF j = i THEN "active"
            ELSE IF BatchOf[j] = BatchOf[i] /\ rows[j].state = "active"
                 THEN "superseded" ELSE rows[j].state
    BY <1>3, <1>5, StatesAfterPublication DEF MarkPublished
  <2>2. live' = [live EXCEPT ![BatchOf[i]] = i]
    <3>1. SoleId(rows', BatchOf[i], "active") = i
      BY <1>3, <2>1, SoleIdFound, BatchOfAssumption
    <3>2. \A b \in Batches \ {BatchOf[i]} :
              SoleId(rows', b, "active") = SoleId(rows, b, "active")
      BY <1>3, <2>1, SoleIdSame
    <3> QED BY <3>1, <3>2
  <2>3. draft' = [draft EXCEPT ![BatchOf[i]] =
                     IF draft[BatchOf[i]] = i THEN NoId ELSE draft[BatchOf[i]]]
    <3>1. CASE rows[i].state = "preview"
      <4>1. SoleId(rows, BatchOf[i], "preview") = i
        BY <1>3, <3>1, SoleIdFound, BatchOfAssumption
      <4>2. \A j \in Ids : ~(BatchOf[j] = BatchOf[i] /\ rows'[j].state = "preview")
        BY <1>3, <2>1, <3>1 DEF AtMostOne
      <4>3. SoleId(rows', BatchOf[i], "preview") = NoId
        BY <4>2, SoleIdMissing
      <4>4. \A b \in Batches \ {BatchOf[i]} :
                SoleId(rows', b, "preview") = SoleId(rows, b, "preview")
        BY <1>3, <2>1, SoleIdSame
      <4> QED BY <4>1, <4>3, <4>4, BatchOfAssumption
    <3>2. CASE rows[i].state # "preview"
      <4>1. \A j \in Ids : rows'[j].state = "preview" <=> rows[j].state = "preview"
        BY <2>1, <3>2
      <4>2. \A b \in Batches : SoleId(rows', b, "preview") = SoleId(rows, b, "preview")
        BY <1>3, <4>1, SoleIdSame
      <4>3. SoleId(rows, BatchOf[i], "preview") # i
        <5>1. CASE \E j \in Ids : BatchOf[j] = BatchOf[i] /\ rows[j].state = "preview"
          <6>1. PICK j \in Ids : BatchOf[j] = BatchOf[i] /\ rows[j].state = "preview"
            BY <5>1
          <6> QED BY <1>3, <3>2, <6>1, SoleIdFound, BatchOfAssumption
        <5>2. CASE \A j \in Ids : ~(BatchOf[j] = BatchOf[i] /\ rows[j].state = "preview")
          <6>1. SoleId(rows, BatchOf[i], "preview") = NoId
            BY <5>2, SoleIdMissing
          <6> QED BY <6>1, NoIdAssumption
        <5> QED BY <5>1, <5>2
      <4> QED BY <4>2, <4>3, BatchOfAssumption
    <3> QED BY <3>1, <3>2
  <2> HIDE DEF live, draft
  <2> QED BY <1>1, <1>2, <2>2, <2>3 DEF Lifecycle!Publish
<1>6. ASSUME NEW a \in Batches, InvalidateBatch(a)
      PROVE  Lifecycle!Withdraw(a)
  <2>1. \A j \in Ids : rows'[j].state =
            IF BatchOf[j] = a /\ rows[j].state \in {"preview", "active"}
            THEN "invalidated" ELSE rows[j].state
    BY <1>3, <1>6, StatesAfterInvalidation DEF InvalidateBatch
  <2>2. ASSUME NEW s \in {"active", "preview"}
        PROVE  /\ SoleId(rows', a, s) = NoId
               /\ \A b \in Batches \ {a} : SoleId(rows', b, s) = SoleId(rows, b, s)
    <3>1. SoleId(rows', a, s) = NoId
      BY <2>1, SoleIdMissing
    <3>2. \A b \in Batches \ {a} : SoleId(rows', b, s) = SoleId(rows, b, s)
      BY <1>3, <2>1, SoleIdSame
    <3> QED BY <3>1, <3>2
  <2>3. live' = [live EXCEPT ![a] = NoId]
    BY <2>2
  <2>4. draft' = [draft EXCEPT ![a] = NoId]
    BY <2>2
  <2> HIDE DEF live, draft
  <2> QED BY <1>1, <1>2, <2>3, <2>4 DEF Lifecycle!Withdraw
<1>7. ASSUME UNCHANGED rows
      PROVE  UNCHANGED Lifecycle!vars
  <2>1. live' = live /\ draft' = draft
    BY <1>7
  <2> HIDE DEF live, draft
  <2> QED BY <1>1, <1>2, <2>1 DEF Lifecycle!vars
<1> QED BY <1>4, <1>5, <1>6, <1>7
        DEF Next, vars, StageArchive, CommitArchive, ArchiveFails, ActiveSnapshot,
            FinishInvalidate, ScheduleResetFails, Restart, Lifecycle!Next

(* Every behaviour of the store, restarts and crashes included, is a       *)
(* behaviour of the lifecycle its callers rely on.                         *)
THEOREM Refinement ==
    ASSUME Faults \cap {"archive", "schedule"} = {}
    PROVE  Spec => ImplementsLifecycle
<1>1. IInv /\ MappingFromTable /\ IInv' /\ MappingFromTable' /\ [Next]_vars
          => [Lifecycle!Next]_(Lifecycle!vars)
  BY StepMapsToStep
<1>2. IInv /\ CacheInv => MappingFromTable
  BY MappingHolds
<1> QED BY <1>1, <1>2, InitMapsToInit, Invariance, CacheInvariance, PTL
        DEF Spec, ImplementsLifecycle, Lifecycle!Spec
=============================================================================
