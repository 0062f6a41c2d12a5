---------------------------- MODULE SnapshotStore ----------------------------
(***************************************************************************)
(* class SnapshotStore: the SQLite table (rows), the in-memory map of      *)
(* active Snapshots (cache, active_cache_ in the code) and the cold        *)
(* archive directory (archive).                                            *)
(*                                                                         *)
(* Every public operation holds mutex_ from its first line to its return,  *)
(* so operations of different threads never interleave.  One operation is  *)
(* several steps all the same: a committed transaction, then file system   *)
(* calls or a second autocommit statement, then the cache.  call is the    *)
(* operation that holds the mutex between its steps.  A step may fail, and *)
(* the process may die between two steps:                                  *)
(*   "archive"  in Faults: a file system call of write_archive fails       *)
(*   "schedule" in Faults: the second statement of invalidate_batch fails  *)
(*              (the file stays locked past the busy timeout, the disk is  *)
(*              full)                                                      *)
(*   "crash"    in Faults: the process dies inside an operation            *)
(* A transaction that fails rolls back and changes nothing.                *)
(***************************************************************************)
EXTENDS SnapshotTable

CONSTANT Faults

ASSUME FaultsAssumption == Faults \subseteq {"archive", "schedule", "crash"}

VARIABLES rows, cache, archive, call

vars == <<rows, cache, archive, call>>

Idle == [op |-> "idle", id |-> NoId]

Ops == {"previewArchive", "previewRename", "publishArchive", "publishRename"}

Calls == {Idle} \cup [op : Ops, id : Ids] \cup [op : {"invalidate"}, batch : Batches]

(* The batch whose cached record the running operation has yet to settle.  *)
Unsettled(b) ==
    \/ call.op \in {"publishArchive", "publishRename"} /\ BatchOf[call.id] = b
    \/ call.op = "invalidate" /\ call.batch = b

(* What the next active_snapshot(b) answers: the cache first, then SQLite. *)
Served(b) == IF cache[b] # NoRecord THEN cache[b] ELSE LoadActive(rows, b)

Init ==
    /\ rows = EmptyTable
    /\ cache = [b \in Batches |-> NoRecord]
    /\ archive = EmptyTable
    /\ call = Idle

-----------------------------------------------------------------------------
(* save_preview up to its COMMIT; an active row is never rewritten.        *)
SavePreview(i, c) ==
    /\ call = Idle
    /\ rows[i].state # "active"
    /\ rows' = WithPreview(rows, i, c)
    /\ call' = [op |-> "previewArchive", id |-> i]
    /\ UNCHANGED <<cache, archive>>

(* mark_published up to its COMMIT.                                        *)
MarkPublished(i, c) ==
    /\ call = Idle
    /\ rows' = WithPublication(rows, i, c)
    /\ call' = [op |-> "publishArchive", id |-> i]
    /\ UNCHANGED <<cache, archive>>

(* write_archive writes the ".tmp" file and removes the old archive file.  *)
StageArchive ==
    /\ call.op \in {"previewArchive", "publishArchive"}
    /\ archive' = [archive EXCEPT ![call.id] = AbsentRow]
    /\ call' = [call EXCEPT !.op = IF @ = "previewArchive" THEN "previewRename"
                                                            ELSE "publishRename"]
    /\ UNCHANGED <<rows, cache>>

(* write_archive renames the new file into place and save_preview returns; *)
(* mark_published first puts its record in the cache.                      *)
CommitPublicationsOnly ==
    /\ call.op \in {"previewRename", "publishRename"}
    /\ archive' = IF call.op = "previewRename" THEN archive
                  ELSE [archive EXCEPT ![call.id] = rows[call.id]]
    /\ cache' = IF call.op = "previewRename" THEN cache
                ELSE [cache EXCEPT ![BatchOf[call.id]] = RecordOf(rows, call.id)]
    /\ call' = Idle
    /\ UNCHANGED rows
CommitArchive ==
    /\ call.op \in {"previewRename", "publishRename"}
    /\ archive' = [archive EXCEPT ![call.id] = rows[call.id]]
    /\ cache' = IF call.op = "previewRename" THEN cache
                ELSE [cache EXCEPT ![BatchOf[call.id]] = RecordOf(rows, call.id)]
    /\ call' = Idle
    /\ UNCHANGED rows

(* A directory, file or rename error: the operation returns false after    *)
(* its COMMIT, before the cache is touched.                                *)
ArchiveFails ==
    /\ "archive" \in Faults
    /\ call.op \in Ops
    /\ call' = Idle
    /\ UNCHANGED <<rows, cache, archive>>

(* invalidate_batch: the autocommitted UPDATE of the table ...             *)
InvalidateBatch(b) ==
    /\ call = Idle
    /\ rows' = Invalidated(rows, b)
    /\ call' = [op |-> "invalidate", batch |-> b]
    /\ UNCHANGED <<cache, archive>>

(* ... then the schedule reset (RefreshSchedule models its effect) and the *)
(* erased cache entry ...                                                  *)
FinishInvalidateKeepingCache ==
    /\ call.op = "invalidate"
    /\ call' = Idle
    /\ UNCHANGED <<rows, cache, archive>>
FinishInvalidate ==
    /\ call.op = "invalidate"
    /\ cache' = [cache EXCEPT ![call.batch] = NoRecord]
    /\ call' = Idle
    /\ UNCHANGED <<rows, archive>>

(* ... or the schedule reset fails and the function returns there.         *)
ScheduleResetFails ==
    /\ "schedule" \in Faults
    /\ call.op = "invalidate"
    /\ call' = Idle
    /\ UNCHANGED <<rows, cache, archive>>

(* active_snapshot: a miss that finds a row fills the cache.               *)
ActiveSnapshot(b) ==
    /\ call = Idle
    /\ cache[b] = NoRecord
    /\ LoadActive(rows, b) # NoRecord
    /\ cache' = [cache EXCEPT ![b] = LoadActive(rows, b)]
    /\ UNCHANGED <<rows, archive, call>>

(* The server stops or dies and starts again: initialize clears the cache, *)
(* the table and the archive survive.                                      *)
Restart ==
    /\ call = Idle \/ "crash" \in Faults
    /\ cache' = [b \in Batches |-> NoRecord]
    /\ call' = Idle
    /\ UNCHANGED <<rows, archive>>

Next ==
    \/ \E i \in Ids, c \in Contents : SavePreview(i, c) \/ MarkPublished(i, c)
    \/ StageArchive
    \/ CommitArchive
    \/ ArchiveFails
    \/ \E b \in Batches : InvalidateBatch(b) \/ ActiveSnapshot(b)
    \/ FinishInvalidate
    \/ ScheduleResetFails
    \/ Restart

Spec == Init /\ [][Next]_vars

-----------------------------------------------------------------------------
(* The state has the shape the code gives it.                              *)
TypeOK ==
    /\ rows \in [Ids -> Row]
    /\ cache \in [Batches -> Record]
    /\ archive \in [Ids -> Row]
    /\ call \in Calls

(* Whatever order previews, publications, invalidations and crashes come   *)
(* in, a batch has at most one active row: the schema has no constraint    *)
(* that says so, only the UPDATE before each write keeps it.               *)
OneActivePerBatch == AtMostOne(rows, "active")

(* Likewise for the preview an administrator may publish.                  *)
OnePreviewPerBatch == AtMostOne(rows, "preview")

(* The stored rows of a batch number 1, 2, ..., k with no gap and no       *)
(* repetition, so that UNIQUE (batch_id, revision) never refuses a write   *)
(* and the archive file of a row is its own.                               *)
RevisionsWithoutGaps == Gapless(rows)

(* "The SQLite table is the source of truth for state": whenever no        *)
(* operation is half way, active_snapshot answers with the active row, or  *)
(* with nothing when there is none.                                        *)
ServesSourceOfTruth ==
    call = Idle => \A b \in Batches : Served(b) = LoadActive(rows, b)

(* "Every preview and publication is also written to a local archive       *)
(* directory": once an operation has returned, every stored row has an     *)
(* archive file with its revision, content and publication.                *)
EveryRowIsArchived ==
    call = Idle =>
        \A i \in Ids : Stored(rows, i) =>
            /\ Stored(archive, i)
            /\ RecordOf(archive, i) = RecordOf(rows, i)

(* An archive file is never ahead of the table: it exists only for a       *)
(* stored row, under that row's revision, even after crashes and failures. *)
ArchiveFollowsTable ==
    \A i \in Ids : Stored(archive, i) =>
        Stored(rows, i) /\ archive[i].rev = rows[i].rev

(* Whatever fails, a record that is served was published, for that batch:  *)
(* a preview nobody published is never taken for the active Snapshot.      *)
OnlyPublishedIsServed ==
    \A b \in Batches : Served(b) # NoRecord =>
        /\ Served(b).publication # NoContent
        /\ BatchOf[Served(b).id] = b
        /\ rows[Served(b).id].rev = Served(b).rev

(* What consumers are shown does not change under their feet: while a row  *)
(* stays active its revision and content stay too; a different manifest    *)
(* needs a publication of its own.                                         *)
ActiveContentIsFrozen ==
    [][\A i \in Ids : rows[i].state = "active" /\ rows'[i].state = "active"
           => rows'[i].content = rows[i].content /\ rows'[i].rev = rows[i].rev]_vars

-----------------------------------------------------------------------------
(* The refinement mapping.  The live Snapshot is the one the next call of  *)
(* active_snapshot answers with; while an operation of the batch holds the *)
(* mutex nobody can call, and the answer after it (or after a crash) will  *)
(* be the committed row.                                                   *)
LiveId(b) == IF Unsettled(b) THEN LoadActive(rows, b).id ELSE Served(b).id

DraftId(b) == Newest(rows, InState(rows, b, {"preview"})).id

Lifecycle == INSTANCE SnapshotLifecycle WITH
    live <- [b \in Batches |-> LiveId(b)],
    draft <- [b \in Batches |-> DraftId(b)]

(* The table, the cache and the archive together implement the lifecycle   *)
(* a caller is promised, crashes and restarts included: each committed     *)
(* transaction is one step of it, and a cache fill, an archive write or a  *)
(* restart is no step at all.                                              *)
ImplementsLifecycle == Lifecycle!Spec
=============================================================================
