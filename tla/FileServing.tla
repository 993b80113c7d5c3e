---------------------------- MODULE FileServing -----------------------------
(***************************************************************************)
(* The file-progress task and the streaming routes of one torrent, sharing *)
(* its TorrentFile rows: the task and addTorrentFiles write them (module  *)
(* FileProgressTracker), /download and /api/stream read them to find the *)
(* file to serve from disk (module StreamRoutes).  A step is a step of    *)
(* one of the two; neither waits for the other.                           *)
(***************************************************************************)
EXTENDS FileProgressTracker

CONSTANT NaN

VARIABLES live, ondisk, req, answers

Routes == INSTANCE StreamRoutes
    WITH rows <- rows, live <- live, ondisk <- ondisk, req <- req, answers <- answers

fsVars == <<rows, gen, prog, tr, adding, live, ondisk, req, answers>>

Init == FPInit /\ Routes!SRInit

\* A step of the tracker side, the routes' state left alone.
TrackerSide(A) == A /\ UNCHANGED <<live, ondisk, req, answers>>

\* A step of the routes' side, the tracker's state left alone.
RouteSide(A) == A /\ UNCHANGED fpVars

Next ==
    \/ TrackerSide(FPNext)
    \/ RouteSide(Routes!SRNext)

\* The tracker's timer and awaits, as in FPSpec, and the continuations of
\* a request already taken: a settled query, access or stat promise and
\* the open callback run, and a stream read from a local file ends.  The
\* requests, the disk and the engine (whose file streams wait on the
\* network) are the environment and get no fairness.
Spec ==
    /\ Init /\ [][Next]_fsVars
    /\ WF_fsVars(TrackerSide(TrackerTick)) /\ WF_fsVars(TrackerSide(UpdateFind))
    /\ WF_fsVars(TrackerSide(UpdateWrite)) /\ WF_fsVars(TrackerSide(TrackerEnd))
    /\ WF_fsVars(RouteSide(Routes!RecordLookup)) /\ WF_fsVars(RouteSide(Routes!AccessName))
    /\ WF_fsVars(RouteSide(Routes!AccessHash)) /\ WF_fsVars(RouteSide(Routes!StatFile))
    /\ WF_fsVars(RouteSide(Routes!OpenStream))
    /\ WF_fsVars(RouteSide(Routes!StreamEnd /\ req.stage = "piping"))

TypeOK == FPTypeOK /\ Routes!SRTypeOK

\* See StreamRoutes: no response gets a second status line.
AnsweredOnce == Routes!AnsweredOnce

\* See StreamRoutes: a /download that falls back to the record is always
\* answered once and ended, whatever the disk and the rows do meanwhile.
DownloadEnds == Routes!DownloadEnds

=============================================================================
