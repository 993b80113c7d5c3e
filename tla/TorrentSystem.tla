---------------------------- MODULE TorrentSystem ----------------------------
(***************************************************************************)
(* The whole download service: the lifecycle manager (HTTP handlers and   *)
(* the restore), the progress sampler, the WebTorrent engine and the      *)
(* store, sharing the store `db` and the engine's sessions `sess`.        *)
(***************************************************************************)
EXTENDS TorrentLifecycle, ProgressSampler

vars == <<db, sess, disk, smp, quotaVars, lifeVars>>

TypeOK ==
    StoreTypeOK /\ EngineTypeOK /\ SamplerTypeOK /\ QuotaTypeOK /\ LifecycleTypeOK

Init ==
    /\ db = [i \in Ids |-> NoRec]
    /\ sess = [i \in Ids |-> NoSess]
    /\ disk = [i \in Ids |-> {}]
    /\ SamplerInit
    /\ QuotaInit
    /\ LifecycleInit

\* Steps of the engine that are not callbacks into the code.
EngineStep(id) ==
    /\ DownloadFile(id) \/ SessionError(id)
    /\ UNCHANGED <<db, active, lifeVars>>

\* The handlers, their continuations, the restore and the 'ready' callbacks.
LifecycleStep ==
    \/ \E id \in Ids :
         \/ \E ok \in BOOLEAN : PostAdd(id, ok)
         \/ AddAfterRemove(id) \/ AddTimeout(id)
         \/ Ready(id)
         \/ RemoveStep(id)
         \/ ToggleStep(id)
    \/ MetaStep
    \/ SelectStep
    \/ RestoreRead
    \/ RestoreAdd

\* The periodic tasks start once the restore has run.
SamplerNext ==
    /\ phase = "running"
    /\ SamplerStep
    /\ UNCHANGED <<active, lifeVars>>

\* The DiskManager's timers are armed when the module loads.
QuotaNext ==
    /\ CleanupStep
    /\ UNCHANGED <<db, lifeVars>>

Crash ==
    /\ LifecycleCrash
    /\ smp' = SamplerIdle
    /\ cleanup' = CleanupIdle

Next ==
    \/ LifecycleStep /\ UNCHANGED <<smp, cleanup>>
    \/ \E id \in Ids : EngineStep(id) /\ UNCHANGED <<smp, cleanup>>
    \/ SamplerNext /\ UNCHANGED cleanup
    \/ QuotaNext /\ UNCHANGED smp
    \/ Crash

(***************************************************************************)
(* Fairness: timers, query completions and the restore are driven by the  *)
(* code itself and are weakly fair.  User requests, the engine (network)  *)
(* and crashes are not.                                                    *)
(***************************************************************************)
Fairness ==
    /\ WF_vars(RestoreRead /\ UNCHANGED <<smp, cleanup>>)
    /\ WF_vars(RestoreAdd /\ UNCHANGED <<smp, cleanup>>)
    /\ WF_vars(MetaStep /\ UNCHANGED <<smp, cleanup>>)
    /\ WF_vars(SamplerNext /\ UNCHANGED cleanup)
    /\ WF_vars(QuotaNext /\ UNCHANGED smp)
    /\ \A id \in Ids :
         /\ WF_vars(AddTimeout(id) /\ UNCHANGED <<smp, cleanup>>)
         /\ WF_vars(AddAfterRemove(id) /\ UNCHANGED <<smp, cleanup>>)

Spec == Init /\ [][Next]_vars /\ Fairness

-----------------------------------------------------------------------------
(***************************************************************************)
(* Properties.                                                             *)
(***************************************************************************)

\* A download that finishes while its session lives is eventually in the
\* store as complete: the sampler updates the record, or creates it when
\* the processMetadata chain has not (yet) written it.
FinishedDownloadRecorded ==
    \A id \in Ids :
        (Live(id) /\ Cardinality(sess[id].got) = Complete)
            ~> (~Live(id) \/ (Exists(id) /\ db[id].progress = Complete))

\* The stored progress of a running torrent converges to the session's:
\* processMetadata's chain writes the progress it captured at 'ready',
\* possibly after the sampler stored a newer one (a stale write), and the
\* next sampler ticks must repair it.  Restore's progress < 1 filter and
\* GET /list read this value.
StoredProgressConverges ==
    \A id \in Ids :
        <>[](Live(id) /\ Exists(id) => db[id].progress = Cardinality(sess[id].got))

\* A record stored as complete carries dateCompleted: the sampler stamps
\* it on `progress === 1 && !torrent.done` (server.js).
CompletedRecordsStamped ==
    \A id \in Ids : Exists(id) /\ db[id].progress = Complete => db[id].completed > 0

\* A DELETE /torrent answered with success is final: no record for the
\* infoHash reappears until it is added again.
RemovedStaysRemoved ==
    \A id \in removedAck : ~Exists(id)

\* A torrent stored as paused does not download: once no toggle is in
\* flight, a live session of a record with isPaused is paused.  spec.md
\* section 4: paused leaves only by toggle(resume), and a pause without a
\* session "only updates the flag (effective on next restore)".
PausedRecordNotRunning ==
    \A id \in Ids :
        Exists(id) /\ db[id].paused /\ Live(id) /\ togglePc[id].stage = "idle"
            => sess[id].paused

\* A toggle that fails (HTTP 500) leaves the stored paused flag as it was.
FailedToggleLeavesStoreUnchanged ==
    [][\A id \in Ids :
          /\ togglePc[id].stage = "write" /\ togglePc'[id].stage = "idle"
          /\ toggleResult'[id] = "failed"
          => db'[id] = db[id]]_vars

\* No store chain for the infoHash is in flight.
Quiet(id) ==
    /\ \A j \in jobs : j.id # id
    /\ smp.stage \in {"idle", "next"} \/ smp.id # id

\* The stored per-file selection is the live one once the chains that
\* write it have settled: this is what restore re-applies after a restart.
StoredSelectionMatchesSession ==
    \A id \in Ids :
        Live(id) /\ sess[id].meta /\ Exists(id) /\ db[id].rows > 0 /\ Quiet(id)
            => db[id].sel = sess[id].sel

\* A torrent has one TorrentFile row per file: addTorrentFiles replaces
\* the set (deleteMany, then create), and restore relies on the count.
FileRowsSingleCopy ==
    \A id \in Ids : Exists(id) => db[id].rows <= 1

\* An add answered with success survives a restart: while it is not
\* removed, the torrent has a live session, a record, or a pending chain
\* about to write one.
AcknowledgedAddIsDurable ==
    \A id \in Ids :
        addReq[id] = "resolved" /\ id \notin removedAck /\ removePc[id] = "idle"
            => Live(id) \/ Exists(id) \/ MetaPending(id)

\* Every file a live session has completed is still on disk: files are
\* deleted only for torrents that are removed or not active.
LiveFilesOnDisk ==
    \A id \in Ids : Live(id) => sess[id].got \subseteq disk[id]

\* The quota enforcer's removeDirectory never deletes the files of a
\* torrent that has a live session (activeTorrents is meant to exempt it).
EvictionSparesLiveSessions ==
    [][\A id \in Ids :
          /\ cleanup.stage = "remove" /\ cleanup'.stage = "loop"
          /\ cleanup.cand = id /\ Live(id)
          => disk'[id] = disk[id]]_vars

\* performCleanup always returns, even when removeDirectory keeps failing
\* and the engine keeps writing: the while loop is bounded by 10 attempts.
CleanupTerminates ==
    cleanup.stage # "idle" ~> cleanup.stage = "idle"

\* Every torrent the engine runs eventually has a record while its session
\* lives: processMetadata's chain writes one, and when that chain failed or
\* never ran (a restored session, a record deleted meanwhile) the sampler's
\* create branch does.  Restore after a restart relies on it.
SessionsRecorded ==
    \A id \in Ids : Live(id) ~> (Exists(id) \/ ~Live(id))

=============================================================================
