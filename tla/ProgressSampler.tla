--------------------------- MODULE ProgressSampler ---------------------------
(***************************************************************************)
(* The 5-second progress sampler of src/server.js (lines 132-222): for     *)
(* every torrent in client.torrents, snapshot its progress, stamp          *)
(* dateCompleted when `progress === 1 && !torrent.done` (and set          *)
(* torrent.done), then update the record, or create it together with its  *)
(* file rows when there is none.  Each action is one awaited query with   *)
(* its continuation.                                                       *)
(*                                                                         *)
(* The loop walks client.torrents as it is at the tick; a torrent gone    *)
(* before its turn is skipped, one added during the tick waits for the    *)
(* next tick.  A tick never overlaps the previous one.                    *)
(***************************************************************************)
EXTENDS TorrentStore, SwarmEngine

VARIABLE smp

SamplerStages ==
    {"idle", "next", "lookup", "update", "cfind", "cwrite", "ffind", "fdel", "fcreate"}

Sampler ==
    [stage: SamplerStages, todo: SUBSET Ids, id: Ids, progress: Progress,
     stamp: BOOLEAN, meta: BOOLEAN, found: BOOLEAN]

SamplerIdle ==
    [stage |-> "idle", todo |-> {}, id |-> CHOOSE i \in Ids : TRUE,
     progress |-> 0, stamp |-> FALSE, meta |-> FALSE, found |-> FALSE]

SamplerTypeOK == smp \in Sampler

SamplerInit == smp = SamplerIdle

At(stage) == smp.stage = stage
Goto(stage) == smp' = [smp EXCEPT !.stage = stage]

\* setInterval fires: the loop's array is client.torrents.
SamplerTick ==
    /\ At("idle")
    /\ smp' = [smp EXCEPT !.stage = "next", !.todo = {i \in Ids : Live(i)}]
    /\ UNCHANGED <<db, sess>>

SampleLoopEnd ==
    /\ At("next") /\ smp.todo = {}
    /\ Goto("idle")
    /\ UNCHANGED <<db, sess>>

\* Mutant: a torrent already marked done is skipped.
SampleReadSkipDone(id) ==
    /\ At("next") /\ id \in smp.todo
    /\ IF Live(id) /\ ~sess[id].done
       THEN LET p     == Cardinality(sess[id].got)
                stamp == p = Complete /\ ~sess[id].done
            IN /\ smp' = [smp EXCEPT !.stage = "lookup", !.todo = @ \ {id},
                                     !.id = id, !.progress = p, !.stamp = stamp,
                                     !.meta = sess[id].meta]
               /\ sess' = IF stamp THEN [sess EXCEPT ![id].done = TRUE] ELSE sess
       ELSE /\ smp' = [smp EXCEPT !.todo = @ \ {id}]
            /\ UNCHANGED sess
    /\ UNCHANGED db

\* The synchronous head of one iteration, up to the first await.
SampleRead(id) ==
    /\ At("next") /\ id \in smp.todo
    /\ IF Live(id)
       THEN LET p     == Cardinality(sess[id].got)
                stamp == p = Complete /\ ~sess[id].done
            IN /\ smp' = [smp EXCEPT !.stage = "lookup", !.todo = @ \ {id},
                                     !.id = id, !.progress = p, !.stamp = stamp,
                                     !.meta = sess[id].meta]
               /\ sess' = IF stamp THEN [sess EXCEPT ![id].done = TRUE] ELSE sess
       ELSE /\ smp' = [smp EXCEPT !.todo = @ \ {id}]
            /\ UNCHANGED sess
    /\ UNCHANGED db

\* Mutant: a torrent without a record is skipped.
SampleLookupNoCreate ==
    /\ At("lookup")
    /\ Goto(IF Exists(smp.id) THEN "update" ELSE "next")
    /\ UNCHANGED <<db, sess>>

\* Mutant: an existing record is never updated.
SampleLookupNoUpdate ==
    /\ At("lookup")
    /\ Goto(IF Exists(smp.id) THEN "next" ELSE "cfind")
    /\ UNCHANGED <<db, sess>>

SampleLookup ==
    /\ At("lookup")
    /\ Goto(IF Exists(smp.id) THEN "update" ELSE "cfind")
    /\ UNCHANGED <<db, sess>>

SampleUpdate ==
    /\ At("update")
    /\ updateTorrentProgress(smp.id, smp.progress, smp.stamp)
    /\ Goto("next")
    /\ UNCHANGED sess

SampleCreateFind ==
    /\ At("cfind")
    /\ smp' = [smp EXCEPT !.stage = "cwrite", !.found = Exists(smp.id)]
    /\ UNCHANGED <<db, sess>>

\* A failed write is caught per torrent; file rows only when files exist.
SampleCreateWrite ==
    /\ At("cwrite")
    /\ createOrUpdateWrite(smp.id, smp.found, smp.progress, smp.stamp)
    /\ Goto(IF createOrUpdateSucceeds(smp.id, smp.found) /\ smp.meta
            THEN "ffind" ELSE "next")
    /\ UNCHANGED sess

SampleFilesFind ==
    /\ At("ffind")
    /\ Goto(IF Exists(smp.id) THEN "fdel" ELSE "next")
    /\ UNCHANGED <<db, sess>>

SampleFilesDelete ==
    /\ At("fdel")
    /\ deleteFileRows(smp.id)
    /\ Goto("fcreate")
    /\ UNCHANGED sess

SampleFilesCreate ==
    /\ At("fcreate")
    /\ createFileRows(smp.id)
    /\ Goto("next")
    /\ UNCHANGED sess

SamplerStep ==
    /\ \/ SamplerTick \/ SampleLoopEnd \/ \E id \in Ids : SampleRead(id)
       \/ SampleLookup \/ SampleUpdate \/ SampleCreateFind \/ SampleCreateWrite
       \/ SampleFilesFind \/ SampleFilesDelete \/ SampleFilesCreate
    /\ UNCHANGED disk

=============================================================================
