---------------------------- MODULE TorrentStore ----------------------------
(***************************************************************************)
(* The persistent record store adapter, src/services/db-service.js lines  *)
(* 1-393 (Prisma over SQLite).  One TorrentRecord per infoHash with its    *)
(* TorrentFile rows (cascade-deleted with the record).                     *)
(*                                                                         *)
(* Every operator below is ONE Prisma query.  The adapter functions that   *)
(* issue two queries (createOrUpdateTorrent, addTorrentFiles,              *)
(* deleteTorrent) are split by the callers into one step per query, since *)
(* other async chains of the single Node.js thread run between the two.   *)
(*                                                                         *)
(* Data abstraction: a record keeps only what the properties tell apart:   *)
(*   paused     isPaused                                                   *)
(*   progress   progress, as the number of completed files (0..|FileIdx|) *)
(*   completed  how many times dateCompleted was written (capped at 2)    *)
(*   rows       how many copies of the file set exist as TorrentFile rows *)
(*   sel        isSelected of the first copy, as the set of ordinals      *)
(* isDeleted is left out: markTorrentAsDeleted (lines 110-121) has no      *)
(* caller, so the flag is false in every reachable state and              *)
(* cleanupDeletedRecords never matches a row.                              *)
(***************************************************************************)
EXTENDS TorrentParams

CONSTANT NoRec      \* sentinel: no TorrentRecord with this infoHash

VARIABLE db

TorrentRecord ==
    [paused: BOOLEAN, progress: Progress, completed: 0..2,
     rows: 0..MaxRows, sel: SUBSET FileIdx]

StoreTypeOK == db \in [Ids -> TorrentRecord \cup {NoRec}]

Exists(id) == db[id] # NoRec

\* prisma.torrentRecord.create: the defaults of schema.prisma for the
\* fields torrentData does not carry (isPaused false, no file rows).
NewRecord(progress, stamp) ==
    [paused |-> FALSE, progress |-> progress,
     completed |-> IF stamp THEN 1 ELSE 0, rows |-> 0, sel |-> {}]

\* The data written by updateTorrentProgress and by the update branch of
\* createOrUpdateTorrent: progress from the snapshot, dateCompleted only
\* when the snapshot carries one.  isPaused is not part of torrentData.
WithProgress(r, progress, stamp) ==
    [r EXCEPT !.progress = progress,
              !.completed = IF stamp THEN IF @ < 2 THEN @ + 1 ELSE 2 ELSE @]

(***************************************************************************)
(* createOrUpdateTorrent, second query.  `found` is what the findUnique    *)
(* of the first query saw.  The create hits the unique index when the     *)
(* record appeared meanwhile; the update throws P2025 when it vanished;   *)
(* both errors leave the store unchanged and reject the promise.          *)
(***************************************************************************)
createOrUpdateWrite(id, found, progress, stamp) ==
    db' = [db EXCEPT ![id] =
             IF found
             THEN IF @ = NoRec THEN @ ELSE WithProgress(@, progress, stamp)
             ELSE IF @ = NoRec THEN NewRecord(progress, stamp) ELSE @]

\* Whether that second query succeeds.
createOrUpdateSucceeds(id, found) == found = Exists(id)

\* updateTorrentProgress: an update keyed by infoHash; P2025 on a missing
\* record is logged and swallowed (returns null).
updateTorrentProgress(id, progress, stamp) ==
    db' = [db EXCEPT ![id] =
             IF @ = NoRec THEN @ ELSE WithProgress(@, progress, stamp)]

\* addTorrentFiles, first query: deleteMany of the torrent's file rows.
deleteFileRows(id) ==
    db' = [db EXCEPT ![id] = IF @ = NoRec THEN @ ELSE [@ EXCEPT !.rows = 0]]

\* addTorrentFiles, second part: one create per file, all isSelected true.
\* A create for a deleted parent fails on the foreign key.  When rows were
\* not deleted in between, a second full copy of the file set is added.
\* Mutant: a file-row create that does not need its parent record.
createFileRowsOrphan(id) ==
    db' = [db EXCEPT ![id] =
             IF @ = NoRec THEN [rows |-> 1, sel |-> FileIdx]
             ELSE [@ EXCEPT !.rows = IF @ < MaxRows THEN @ + 1 ELSE MaxRows,
                            !.sel  = IF db[id].rows = 0 THEN FileIdx ELSE @]]

createFileRows(id) ==
    db' = [db EXCEPT ![id] =
             IF @ = NoRec THEN @
             ELSE [@ EXCEPT !.rows = IF @ < MaxRows THEN @ + 1 ELSE MaxRows,
                            !.sel  = IF db[id].rows = 0 THEN FileIdx ELSE @]]

\* deleteTorrent, second query: delete by id; the files cascade.
deleteTorrent(id) == db' = [db EXCEPT ![id] = NoRec]

\* pauseTorrent / resumeTorrent: update isPaused, P2025 when missing.
setPaused(id, p) ==
    db' = [db EXCEPT ![id] = IF @ = NoRec THEN @ ELSE [@ EXCEPT !.paused = p]]

(***************************************************************************)
(* updateTorrentFileSelection: findMany of the rows, then one update per   *)
(* row by POSITION (selectedSet.has(index)).  No rows: returns false.     *)
(* Positions past the first copy are never in selectedSet.                *)
(***************************************************************************)
updateTorrentFileSelection(id, s) ==
    db' = [db EXCEPT ![id] =
             IF @ = NoRec \/ @.rows = 0 THEN @ ELSE [@ EXCEPT !.sel = s]]

\* getActiveTorrents: not deleted, not paused, progress < 1, with files.
getActiveTorrents ==
    {id \in Ids : Exists(id) /\ ~db[id].paused /\ db[id].progress < Complete}

=============================================================================
