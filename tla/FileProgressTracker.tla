------------------------- MODULE FileProgressTracker -------------------------
(***************************************************************************)
(* The 10-second file-progress task of src/server.js (lines 213-256) and  *)
(* dbService.updateFileProgress (db-service.js lines 343-390), for one     *)
(* torrent whose record exists, together with the addTorrentFiles calls   *)
(* that replace its TorrentFile rows meanwhile.                           *)
(*                                                                         *)
(* Files are torrent.files ordinals 0..N-1.  rows is the result of        *)
(* findFirst({include: {files: true}}) in the order the rows were created.*)
(* processMetadata creates rows without `index` (the column default 0);   *)
(* the sampler's create branch sets index to the ordinal.  Which file a   *)
(* row belongs to is `file`.  addTorrentFiles awaits its deleteMany and *)
(* then its creates: the two callers (processMetadata's chain and the    *)
(* sampler's create branch) interleave, and the rows can hold two copies.*)
(***************************************************************************)
EXTENDS Naturals, Sequences
LOCAL INSTANCE SequencesExt

CONSTANTS
    N,             \* torrent.files.length
    MaxLevel,      \* file progress is 0..MaxLevel
    MaxGen,        \* bound on addTorrentFiles calls
    CommitOrders   \* orders in which Promise.all's creates are committed

Files == 0..(N - 1)
Levels == 0..MaxLevel

ASSUME N \in Nat \ {0}
ASSUME \A o \in CommitOrders : o \in [1..N -> Files]

VARIABLES
    rows,   \* the TorrentFile rows of the record
    gen,    \* deleteMany calls so far: rows read before the last one are gone
    prog,   \* the engine's per-file progress
    tr,     \* the task: loop ordinal and the pending update
    adding  \* adding[byProcessMetadata]: that caller's creates are pending

Row == [file: Files, index: Files, progress: Levels]

Tracker ==
    [stage: {"idle", "file", "write"}, i: 0..N, pos: 0..(2 * N), setIndex: BOOLEAN,
     gen: 0..MaxGen, value: Levels]

TrackerIdle == [stage |-> "idle", i |-> 0, pos |-> 0, setIndex |-> FALSE,
                gen |-> 0, value |-> 0]

FPTypeOK ==
    /\ rows \in Seq(Row) /\ Len(rows) <= 2 * N
    /\ gen \in 0..MaxGen
    /\ prog \in [Files -> Levels]
    /\ tr \in Tracker
    /\ adding \in [BOOLEAN -> BOOLEAN]

FPInit ==
    /\ rows = <<>>
    /\ gen = 0
    /\ prog = [f \in Files |-> 0]
    /\ tr = TrackerIdle
    /\ adding = [b \in BOOLEAN |-> FALSE]

NewRows(byProcessMetadata, order) ==
    [k \in 1..N |->
       [file |-> order[k],
        index |-> IF byProcessMetadata THEN 0 ELSE order[k],
        progress |-> IF byProcessMetadata THEN 0 ELSE prog[order[k]]]]

\* Mutant: the deleteMany is skipped.
addTorrentFilesDeleteSkipped(byProcessMetadata) ==
    /\ ~adding[byProcessMetadata] /\ gen < MaxGen
    /\ adding' = [adding EXCEPT ![byProcessMetadata] = TRUE]
    /\ UNCHANGED <<rows, gen, prog, tr>>

\* addTorrentFiles: await deleteMany of every row of the torrent.
addTorrentFilesDelete(byProcessMetadata) ==
    /\ ~adding[byProcessMetadata] /\ gen < MaxGen
    /\ gen' = gen + 1
    /\ rows' = <<>>
    /\ adding' = [adding EXCEPT ![byProcessMetadata] = TRUE]
    /\ UNCHANGED <<prog, tr>>

\* then await Promise.all of one create per file.  processMetadata leaves
\* index at its default and progress at 0; the sampler passes both.
addTorrentFilesCreate(byProcessMetadata, order) ==
    /\ adding[byProcessMetadata]
    /\ rows' = rows \o NewRows(byProcessMetadata, order)
    /\ adding' = [adding EXCEPT ![byProcessMetadata] = FALSE]
    /\ UNCHANGED <<gen, prog, tr>>

\* The engine completes more pieces of a file.
FileAdvance(f) ==
    /\ prog[f] < MaxLevel
    /\ prog' = [prog EXCEPT ![f] = @ + 1]
    /\ UNCHANGED <<rows, gen, tr, adding>>

\* setInterval fires; the torrent has files and its record exists.
TrackerTick ==
    /\ tr.stage = "idle"
    /\ tr' = [TrackerIdle EXCEPT !.stage = "file"]
    /\ UNCHANGED <<rows, gen, prog, adding>>

\* The row updateFileProgress picks: the first with f.index === fileIndex.
fileToUpdate(i) == SelectInSeq(rows, LAMBDA r : r.index = i)

\* fileProgress is read, then updateFileProgress awaits findFirst: no rows,
\* the row with that index, else files[fileIndex] (whose index it also
\* sets), else nothing.
UpdateFind ==
    /\ tr.stage = "file" /\ tr.i < N
    /\ LET k == fileToUpdate(tr.i)
           pos == IF k # 0 THEN k ELSE IF tr.i < Len(rows) THEN tr.i + 1 ELSE 0
       IN tr' = IF pos = 0
                THEN [tr EXCEPT !.i = @ + 1]
                ELSE [tr EXCEPT !.stage = "write", !.pos = pos, !.setIndex = (k = 0),
                                !.gen = gen, !.value = prog[tr.i]]
    /\ UNCHANGED <<rows, gen, prog, adding>>

\* torrentFile.update by row id; a row replaced meanwhile is gone, and the
\* P2025 error is caught (null).
UpdateWrite ==
    /\ tr.stage = "write"
    /\ rows' = IF tr.gen = gen
               THEN [rows EXCEPT ![tr.pos].progress = tr.value,
                                 ![tr.pos].index = IF tr.setIndex THEN tr.i ELSE @]
               ELSE rows
    /\ tr' = [tr EXCEPT !.stage = "file", !.i = @ + 1]
    /\ UNCHANGED <<gen, prog, adding>>

TrackerEnd ==
    /\ tr.stage = "file" /\ tr.i = N
    /\ tr' = TrackerIdle
    /\ UNCHANGED <<rows, gen, prog, adding>>

FPNext ==
    \/ \E b \in BOOLEAN : addTorrentFilesDelete(b)
    \/ \E b \in BOOLEAN, o \in CommitOrders : addTorrentFilesCreate(b, o)
    \/ \E f \in Files : FileAdvance(f)
    \/ TrackerTick \/ UpdateFind \/ UpdateWrite \/ TrackerEnd

fpVars == <<rows, gen, prog, tr, adding>>

\* The interval fires and every await completes; the engine and the
\* other writers of the rows get no fairness.
FPSpec ==
    /\ FPInit /\ [][FPNext]_fpVars
    /\ WF_fpVars(TrackerTick) /\ WF_fpVars(UpdateFind)
    /\ WF_fpVars(UpdateWrite) /\ WF_fpVars(TrackerEnd)

====
