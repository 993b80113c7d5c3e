--------------------------- MODULE TorrentLifecycle ---------------------------
(***************************************************************************)
(* The lifecycle manager: the HTTP handlers of src/routes/api-routes.js   *)
(* and torrent-service.js (stored in this repository as                    *)
(* src/prisma/migrations/20250516074546_add_is_paused_field/migration.sql *)
(* lines 78-703), the restore run at start-up (server.js lines 80-101)    *)
(* and the eviction-exempt registration of webtorrent-client.js.          *)
(*                                                                         *)
(* Node.js runs one thread.  Each action is the code between two awaits:  *)
(* the awaited query together with the continuation that runs on its     *)
(* result.  Requests, their async continuations, the engine and the        *)
(* timers interleave arbitrarily between such steps.                      *)
(***************************************************************************)
EXTENDS TorrentStore, QuotaEnforcer

CONSTANTS
    VideoFiles,     \* ordinals whose extension is in videoExts
    MaxCrashes,     \* bound on process crashes
    MaxSelects,     \* bound on concurrent selection-persist chains
    MaxRequests     \* bound on HTTP requests in a behaviour

ASSUME VideoFiles \subseteq FileIdx

VARIABLES
    phase,        \* "booting" | "restoring" | "running" (periodic tasks on)
    restoreSnap,  \* records read by getActiveTorrents during restore
    addReq,       \* state of the last POST /add promise per infoHash
    addChain,     \* "removing": a zombie is being removed before re-adding
    togglePc,     \* POST /toggle continuation per infoHash
    removePc,     \* DELETE /torrent continuation per infoHash
    jobs,         \* pending fire-and-forget store chains
    crashes,
    reqs,         \* HTTP requests received so far (bounded by MaxRequests)
    removedAck,   \* ghost: removes answered success, not re-added since
    toggleResult  \* ghost: outcome of the last toggle per infoHash

lifeVars == <<phase, restoreSnap, addReq, addChain, togglePc,
              removePc, jobs, crashes, reqs, removedAck, toggleResult>>

Snap == [id: Ids, rows: 0..MaxRows, sel: SUBSET FileIdx]

Job == [kind: {"meta", "select"}, id: Ids,
        stage: {"find", "write", "delFiles", "createFiles", "update"},
        found: BOOLEAN, progress: Progress, sel: SUBSET FileIdx]

TogglePc == [stage: {"idle", "write"}, target: BOOLEAN, throws: BOOLEAN]

ToggleIdle == [stage |-> "idle", target |-> FALSE, throws |-> FALSE]

AddCb == [by |-> "add", rows |-> 0, sel |-> {}]

LifecycleTypeOK ==
    /\ phase \in {"booting", "restoring", "running"}
    /\ restoreSnap \subseteq Snap
    /\ addReq \in [Ids -> {"idle", "pending", "resolved", "rejected"}]
    /\ addChain \in [Ids -> {"none", "removing"}]
    /\ togglePc \in [Ids -> TogglePc]
    /\ removePc \in [Ids -> {"idle", "files", "dbFind", "dbDelete"}]
    /\ jobs \subseteq Job
    /\ crashes \in 0..MaxCrashes
    /\ reqs \in 0..MaxRequests
    /\ removedAck \subseteq Ids
    /\ toggleResult \in [Ids -> {"none", "ok", "failed"}]

MetaPending(id) == \E j \in jobs : j.kind = "meta" /\ j.id = id

LifecycleInit ==
    /\ phase = "booting"
    /\ restoreSnap = {}
    /\ addReq = [i \in Ids |-> "idle"]
    /\ addChain = [i \in Ids |-> "none"]
    /\ togglePc = [i \in Ids |-> ToggleIdle]
    /\ removePc = [i \in Ids |-> "idle"]
    /\ jobs = {}
    /\ crashes = 0
    /\ reqs = 0
    /\ removedAck = {}
    /\ toggleResult = [i \in Ids |-> "none"]

\* A request reaches a handler; every handler starts with one.
Request == reqs < MaxRequests /\ reqs' = reqs + 1

(***************************************************************************)
(* POST /add -> addTorrent.  An existing session for the infoHash is       *)
(* removed first and re-added from the remove callback after 1s; else     *)
(* client.add at once.  The 60s timer is armed in both cases.             *)
(* addReq and addChain hold one request's promise and re-add timer per   *)
(* infoHash, so the model takes no second POST /add of an infoHash while *)
(* one is pending or in its 1s delay (spec.md section 8's double add).   *)
(***************************************************************************)
AddRequest(id) ==
    /\ Request
    /\ addReq[id] # "pending"
    /\ addChain[id] = "none"
    /\ addReq' = [addReq EXCEPT ![id] = "pending"]
    /\ removedAck' = removedAck \ {id}
    /\ IF Live(id)
       THEN /\ clientRemove(id)
            /\ addChain' = [addChain EXCEPT ![id] = "removing"]
       ELSE /\ clientAdd(id, AddCb)
            /\ UNCHANGED addChain
    /\ UNCHANGED <<db, disk, active, phase, restoreSnap, togglePc, removePc,
                   jobs, crashes, toggleResult>>

\* The POST /add route: a body without a magnetURI, or one that does not
\* start with "magnet:?", is answered 400 before addTorrent; otherwise the
\* route answers from addTorrent's promise (addReq).  The awaited
\* searchMagnetInfo resolves at once and changes nothing.
PostAdd(id, wellFormed) ==
    IF wellFormed
    THEN AddRequest(id)
    ELSE /\ Request
         /\ UNCHANGED <<db, sess, disk, active, phase, restoreSnap, addReq,
                        addChain, togglePc, removePc, jobs, crashes,
                        removedAck, toggleResult>>

\* The client.remove callback, then setTimeout(addNewTorrent, 1000).
AddAfterRemove(id) ==
    /\ addChain[id] = "removing"
    /\ addChain' = [addChain EXCEPT ![id] = "none"]
    /\ clientAdd(id, AddCb)
    /\ UNCHANGED <<db, disk, active, phase, restoreSnap, addReq, togglePc,
                   removePc, jobs, crashes, reqs, removedAck, toggleResult>>

\* The 60s timer rejects the promise; nothing is cancelled.
AddTimeout(id) ==
    /\ addReq[id] = "pending"
    /\ addReq' = [addReq EXCEPT ![id] = "rejected"]
    /\ UNCHANGED <<db, sess, disk, active, phase, restoreSnap, addChain,
                   togglePc, removePc, jobs, crashes, reqs, removedAck, toggleResult>>

(***************************************************************************)
(* processMetadata: select the video files, deselect the rest, and start  *)
(* the un-awaited createOrUpdateTorrent(...).then(addTorrentFiles) chain  *)
(* with torrent.progress as it is now.                                     *)
(***************************************************************************)
processMetadata(id, s) ==
    /\ sess' = [sess EXCEPT ![id] = [s EXCEPT !.sel = VideoFiles]]
    /\ jobs' = jobs \cup {[kind |-> "meta", id |-> id, stage |-> "find",
                           found |-> FALSE, progress |-> Cardinality(s.got),
                           sel |-> {}]}

\* The ontorrent closure of addNewTorrent: clearTimeout, resolve (a no-op
\* once the timer has rejected), then processMetadata.
onTorrentAdd(id, s) ==
    /\ addReq' = [addReq EXCEPT ![id] = IF @ = "pending" THEN "resolved" ELSE @]
    /\ processMetadata(id, s)

\* The ontorrent closure of restoreDownloadsFromDatabase: re-apply the
\* persisted selection when the record's file count equals the engine's,
\* else keep the engine default (every file selected).
onTorrentRestored(id, s) ==
    /\ sess' = [sess EXCEPT ![id] =
                  IF s.cb.rows = 1 THEN [s EXCEPT !.sel = s.cb.sel] ELSE s]
    /\ UNCHANGED <<addReq, jobs>>

\* The engine reaches 'ready': ontorrent runs, then the client emits
\* 'torrent' and registerTorrent adds the infoHash to the exempt set.
Ready(id) ==
    /\ Live(id)
    /\ ~sess[id].meta
    /\ LET s == Verified(id) IN
         IF s.cb.by = "add" THEN onTorrentAdd(id, s) ELSE onTorrentRestored(id, s)
    /\ registerTorrent(id)
    /\ UNCHANGED <<db, disk, phase, restoreSnap, addChain, togglePc, removePc,
                   crashes, reqs, removedAck, toggleResult>>

(***************************************************************************)
(* The processMetadata store chain, one step per query.                    *)
(***************************************************************************)
MetaFind(j) ==
    /\ j.kind = "meta" /\ j.stage = "find"
    /\ jobs' = (jobs \ {j}) \cup {[j EXCEPT !.stage = "write", !.found = Exists(j.id)]}
    /\ UNCHANGED db

MetaWrite(j) ==
    /\ j.kind = "meta" /\ j.stage = "write"
    /\ createOrUpdateWrite(j.id, j.found, j.progress, FALSE)
    /\ jobs' = (jobs \ {j}) \cup
               IF createOrUpdateSucceeds(j.id, j.found)
               THEN {[j EXCEPT !.stage = "delFiles"]} ELSE {}

MetaFilesDelete(j) ==
    /\ j.kind = "meta" /\ j.stage = "delFiles"
    /\ deleteFileRows(j.id)
    /\ jobs' = (jobs \ {j}) \cup {[j EXCEPT !.stage = "createFiles"]}

MetaFilesCreate(j) ==
    /\ j.kind = "meta" /\ j.stage = "createFiles"
    /\ createFileRows(j.id)
    /\ jobs' = jobs \ {j}

MetaStep ==
    /\ \E j \in jobs :
         \/ MetaFind(j) \/ MetaWrite(j) \/ MetaFilesDelete(j) \/ MetaFilesCreate(j)
    /\ UNCHANGED <<sess, disk, active, phase, restoreSnap, addReq, addChain,
                   togglePc, removePc, crashes, reqs, removedAck, toggleResult>>

(***************************************************************************)
(* DELETE /torrent/:infoHash.  The session is removed synchronously (with *)
(* destroyStore when deleteFiles), then diskManager.deleteTorrentFiles is *)
(* awaited when deleteFiles, then deleteTorrent's findUnique and delete.  *)
(* The response is success whether or not a record was found.             *)
(* removePc holds one DELETE per infoHash: a second DELETE of an infoHash *)
(* whose first is still awaiting is not modelled (the code allows it).   *)
(***************************************************************************)
RemoveRequest(id, deleteFiles) ==
    /\ Request
    /\ removePc[id] = "idle"
    /\ IF Live(id)
       THEN /\ clientRemove(id)
            /\ disk' = IF deleteFiles THEN [disk EXCEPT ![id] = {}] ELSE disk
       ELSE UNCHANGED <<sess, disk>>
    /\ removePc' = [removePc EXCEPT ![id] = IF deleteFiles /\ Exists(id)
                                           THEN "files" ELSE "dbFind"]
    /\ UNCHANGED <<db, removedAck>>

\* diskManager.deleteTorrentFiles: existsSync of the infoHash directory,
\* which WebTorrent never creates, then the directory named after
\* record.name.  The record lookup is issued within the request, ahead of
\* the store writes of anything handled later, so RemoveRequest takes it
\* there; the directory holds what recursiveDelete's readdir lists here.
deleteTorrentFiles(id) ==
    /\ removePc[id] = "files"
    /\ disk' = [disk EXCEPT ![id] = {}]
    /\ removePc' = [removePc EXCEPT ![id] = "dbFind"]
    /\ UNCHANGED <<db, sess, removedAck, reqs>>

RemoveDbFind(id) ==
    /\ removePc[id] = "dbFind"
    /\ IF Exists(id)
       THEN /\ removePc' = [removePc EXCEPT ![id] = "dbDelete"]
            /\ UNCHANGED removedAck
       ELSE /\ removePc' = [removePc EXCEPT ![id] = "idle"]
            /\ removedAck' = removedAck \cup {id}
    /\ UNCHANGED <<db, sess, disk, reqs>>

RemoveDbDelete(id) ==
    /\ removePc[id] = "dbDelete"
    /\ deleteTorrent(id)
    /\ removePc' = [removePc EXCEPT ![id] = "idle"]
    /\ removedAck' = removedAck \cup {id}
    /\ UNCHANGED <<sess, disk, reqs>>

RemoveStep(id) ==
    /\ \/ \E del \in BOOLEAN : RemoveRequest(id, del)
       \/ deleteTorrentFiles(id)
       \/ RemoveDbFind(id)
       \/ RemoveDbDelete(id)
    /\ UNCHANGED <<active, phase, restoreSnap, addReq, addChain, togglePc,
                   jobs, crashes, toggleResult>>

(***************************************************************************)
(* POST /toggle -> toggleTorrentState.  After the findUnique: with a live *)
(* session pause() or resume() it at once and await the isPaused update.  *)
(* Without one, await the update; when resuming, the client.add that     *)
(* follows reads torrent.infoHash of the null `torrent` and throws.       *)
(***************************************************************************)
ToggleRead(id) ==
    /\ Request
    /\ togglePc[id].stage = "idle"
    /\ IF ~Exists(id)
       THEN /\ toggleResult' = [toggleResult EXCEPT ![id] = "failed"]
            /\ UNCHANGED <<sess, togglePc>>
       ELSE LET p == db[id].paused IN
            /\ sess' = IF Live(id) THEN [sess EXCEPT ![id].paused = ~p] ELSE sess
            /\ togglePc' = [togglePc EXCEPT ![id] =
                              [stage |-> "write", target |-> ~p,
                               throws |-> ~Live(id) /\ p]]
            /\ UNCHANGED toggleResult
    /\ UNCHANGED db

ToggleWrite(id) ==
    /\ togglePc[id].stage = "write"
    /\ setPaused(id, togglePc[id].target)
    /\ togglePc' = [togglePc EXCEPT ![id] = ToggleIdle]
    /\ toggleResult' = [toggleResult EXCEPT ![id] =
                          IF ~Exists(id) \/ togglePc[id].throws THEN "failed" ELSE "ok"]
    /\ UNCHANGED <<sess, reqs>>

ToggleStep(id) ==
    /\ ToggleRead(id) \/ ToggleWrite(id)
    /\ UNCHANGED <<disk, active, phase, restoreSnap, addReq, addChain,
                   removePc, jobs, crashes, removedAck>>

(***************************************************************************)
(* POST /select: select/deselect the live session's files at once (404    *)
(* before metadata), then a fire-and-forget findUnique and                *)
(* updateTorrentFileSelection.                                             *)
(***************************************************************************)
SelectRequest(id, s) ==
    /\ Request
    /\ Live(id)
    /\ sess[id].meta
    /\ Cardinality({j \in jobs : j.kind = "select"}) < MaxSelects
    /\ sess' = [sess EXCEPT ![id].sel = s]
    /\ jobs' = jobs \cup {[kind |-> "select", id |-> id, stage |-> "find",
                           found |-> FALSE, progress |-> 0, sel |-> s]}
    /\ UNCHANGED db

SelectFind(j) ==
    /\ j.kind = "select" /\ j.stage = "find"
    /\ jobs' = (jobs \ {j}) \cup IF Exists(j.id) THEN {[j EXCEPT !.stage = "update"]} ELSE {}
    /\ UNCHANGED <<db, sess, reqs>>

SelectUpdate(j) ==
    /\ j.kind = "select" /\ j.stage = "update"
    /\ updateTorrentFileSelection(j.id, j.sel)
    /\ jobs' = jobs \ {j}
    /\ UNCHANGED <<sess, reqs>>

SelectStep ==
    /\ \/ \E id \in Ids, s \in SUBSET FileIdx : SelectRequest(id, s)
       \/ \E j \in jobs : SelectFind(j) \/ SelectUpdate(j)
    /\ UNCHANGED <<disk, active, phase, restoreSnap, addReq, addChain,
                   togglePc, removePc, crashes, removedAck, toggleResult>>

(***************************************************************************)
(* restoreDownloadsFromDatabase, run from the listen callback after the   *)
(* tracker list refresh: await getActiveTorrents, then client.add each    *)
(* record not already in the client; the periodic tasks start after it.  *)
(***************************************************************************)
RestoreRead ==
    /\ phase = "booting"
    /\ restoreSnap' = {[id |-> i, rows |-> db[i].rows, sel |-> db[i].sel] :
                          i \in getActiveTorrents}
    /\ phase' = "restoring"
    /\ UNCHANGED <<db, sess, disk, active, addReq, addChain, togglePc,
                   removePc, jobs, crashes, reqs, removedAck, toggleResult>>

RestoreAdd ==
    /\ phase = "restoring"
    /\ sess' = [i \in Ids |->
                  IF sess[i] = NoSess /\ \E r \in restoreSnap : r.id = i
                  THEN LET r == CHOOSE r \in restoreSnap : r.id = i IN
                       NewSession([by |-> "restore", rows |-> r.rows, sel |-> r.sel])
                  ELSE sess[i]]
    /\ restoreSnap' = {}
    /\ phase' = "running"
    /\ UNCHANGED <<db, disk, active, addReq, addChain, togglePc, removePc,
                   jobs, crashes, reqs, removedAck, toggleResult>>

(***************************************************************************)
(* The process dies: every session, timer, pending chain and the exempt  *)
(* set are lost; the store and the files on disk survive.  A request in   *)
(* flight fails at the client.                                             *)
(* app.js's gracefulShutdown (SIGINT, SIGTERM) ends the same way:        *)
(* process.exit once server.close has called back or after 10 s, with no *)
(* wait for the store chains, the timers or the engine.                   *)
(***************************************************************************)
LifecycleCrash ==
    /\ crashes < MaxCrashes
    /\ crashes' = crashes + 1
    /\ sess' = [i \in Ids |-> NoSess]
    /\ active' = {}
    /\ phase' = "booting"
    /\ restoreSnap' = {}
    /\ addReq' = [i \in Ids |-> IF addReq[i] = "pending" THEN "rejected" ELSE addReq[i]]
    /\ addChain' = [i \in Ids |-> "none"]
    /\ togglePc' = [i \in Ids |-> ToggleIdle]
    /\ removePc' = [i \in Ids |-> "idle"]
    /\ jobs' = {}
    /\ UNCHANGED <<db, disk, reqs, removedAck, toggleResult>>

=============================================================================
