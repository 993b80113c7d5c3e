---------------------------- MODULE QuotaEnforcer ----------------------------
(***************************************************************************)
(* The DiskManager of disk-manager.js (stored in this repository as       *)
(* src/services/db-service.js lines 393-719): the eviction-exempt set     *)
(* activeTorrents and the periodic performCleanup, which deletes the      *)
(* oldest directory of the download root whose name is not in that set,  *)
(* until its own estimate of the bytes to free is used up.               *)
(*                                                                         *)
(* Sizes are counted in files (every file one unit).  The directory of a  *)
(* torrent exists while it holds a file.  WebTorrent names it after the  *)
(* torrent's display name and does not read the storeName option the     *)
(* code passes, as the comments in onTorrent and the restore callback    *)
(* say (migration.sql 183-186, 501).  Among candidates the choice of     *)
(* "the oldest" is left free: mtime order is not modelled.               *)
(***************************************************************************)
EXTENDS SwarmEngine, Integers
LOCAL INSTANCE FiniteSetsExt

CONSTANTS
    MaxDiskSpace,        \* maxDiskSpace, in files
    MaxCleanupAttempts   \* the loop bound of performCleanup (10 in the code)

VARIABLES
    active,   \* activeTorrents
    cleanup   \* the running performCleanup, if any

quotaVars == <<active, cleanup>>

DirSize(id) == Cardinality(disk[id])

UsedSpace == MapThenSumSet(DirSize, Ids)

\* performCleanup works in tenths so that 0.9 * maxDiskSpace stays exact.
Tenths == -10 * Complete * Cardinality(Ids) .. 10 * Complete * Cardinality(Ids)

Cleanup ==
    [stage: {"idle", "loop", "size", "remove"}, toFree: Tenths,
     attempts: 0..MaxCleanupAttempts, cand: Ids, size: Progress]

CleanupIdle ==
    [stage |-> "idle", toFree |-> 0, attempts |-> 0,
     cand |-> CHOOSE i \in Ids : TRUE, size |-> 0]

QuotaTypeOK == active \subseteq Ids /\ cleanup \in Cleanup

QuotaInit == active = {} /\ cleanup = CleanupIdle

\* The name of a torrent's directory: its display name, never an infoHash.
DirName(id) == <<"name", id>>

\* A readdir entry is skipped only when its name is in activeTorrents,
\* which holds infoHashes.
Exempt(id) == DirName(id) \in active

\* getOldestInactiveTorrent's candidates: directories not skipped.
Candidates == {id \in Ids : disk[id] # {} /\ ~Exempt(id)}

\* registerTorrent: called from the client's 'torrent' event.
registerTorrent(id) == active' = active \cup {id}

(***************************************************************************)
(* performCleanup, one action per await.  A usage below the limit returns *)
(* at once, a step that changes nothing.                                  *)
(***************************************************************************)
CleanupStart ==
    /\ cleanup.stage = "idle"
    /\ UsedSpace >= MaxDiskSpace
    /\ cleanup' = [cleanup EXCEPT !.stage = "loop", !.attempts = 0,
                                  !.toFree = 10 * UsedSpace - 9 * MaxDiskSpace]
    /\ UNCHANGED disk

\* Mutant: the while loop without its attempt bound.
CleanupPickUncapped ==
    /\ cleanup.stage = "loop"
    /\ cleanup.toFree > 0
    /\ IF Candidates = {}
       THEN cleanup' = CleanupIdle
       ELSE \E c \in Candidates :
              cleanup' = [cleanup EXCEPT !.stage = "size", !.cand = c,
                             !.attempts = IF @ < MaxCleanupAttempts THEN @ + 1 ELSE @]
    /\ UNCHANGED disk

\* One pass of the while loop up to getOldestInactiveTorrent's result;
\* no candidate breaks out of the loop.
CleanupPick ==
    /\ cleanup.stage = "loop"
    /\ cleanup.toFree > 0 /\ cleanup.attempts < MaxCleanupAttempts
    /\ IF Candidates = {}
       THEN cleanup' = CleanupIdle
       ELSE \E c \in Candidates :
              cleanup' = [cleanup EXCEPT !.stage = "size", !.cand = c,
                                         !.attempts = @ + 1]
    /\ UNCHANGED disk

\* getDirSize of the candidate.  A readdir or stat that fails part way
\* (an entry deleted meanwhile, EACCES) is caught and the sum so far is
\* returned: any count up to the directory's size, 0 when it vanished.
CleanupSize ==
    /\ cleanup.stage = "size"
    /\ \E counted \in 0..DirSize(cleanup.cand) :
         cleanup' = [cleanup EXCEPT !.stage = "remove", !.size = counted]
    /\ UNCHANGED disk

\* removeDirectory: fs.promises.rm may fail (e.g. EBUSY on a file the
\* engine holds open); only a success is subtracted.  oldestTorrent and
\* torrentSize are block-scoped: the next pass starts without them.
CleanupRemove ==
    /\ cleanup.stage = "remove"
    /\ \E removed \in BOOLEAN :
         /\ disk' = IF removed THEN [disk EXCEPT ![cleanup.cand] = {}] ELSE disk
         /\ cleanup' = [cleanup EXCEPT !.stage = "loop", !.cand = CleanupIdle.cand,
                          !.size = 0,
                          !.toFree = IF removed THEN @ - 10 * cleanup.size ELSE @]

CleanupEnd ==
    /\ cleanup.stage = "loop"
    /\ ~(cleanup.toFree > 0 /\ cleanup.attempts < MaxCleanupAttempts)
    /\ cleanup' = CleanupIdle
    /\ UNCHANGED disk

CleanupStep ==
    /\ \/ CleanupStart \/ CleanupPick \/ CleanupSize \/ CleanupEnd
       \/ CleanupRemove
    /\ UNCHANGED <<active, sess>>

=============================================================================
