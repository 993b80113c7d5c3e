---------------------------- MODULE StreamRoutes ----------------------------
(***************************************************************************)
(* The three GET routes of src/routes/stream-routes.js for one torrent:   *)
(* /stream/:infoHash/:fileIndex, /download/:infoHash/:fileIndex and       *)
(* /api/stream/:infoHash/:fileName.  Each serves the file from the live   *)
(* WebTorrent torrent when client.get finds it with that file; the last   *)
(* two otherwise fall back to the torrent's record (getTorrentByInfoHash, *)
(* whose TorrentFile rows are `rows`) and to the file on disk, checked    *)
(* with access, stat and then opened by fs.createReadStream: each an      *)
(* await or a callback, so a delete can come between any two of them.    *)
(*                                                                         *)
(* Files are torrent.files ordinals 0..N-1; a name is the ordinal of the *)
(* file that has it, and N stands for an index or a name the torrent     *)
(* does not have.  The record is assumed to exist.  Range headers only   *)
(* change the status line and Content-Length, which no property reads:  *)
(* a ranged and an unranged request are one request here.                *)
(***************************************************************************)
EXTENDS Naturals, Sequences

CONSTANTS
    N,           \* torrent.files.length
    NaN          \* parseInt of a fileIndex that is not a number

Files == 0..(N - 1)

VARIABLES
    rows,      \* torrentRecord.files, in the order findFirst returns them
    live,      \* client.get(infoHash) returns the torrent with its files
    ondisk,    \* the files present in the torrent's download directory
    req,       \* the request being handled
    answers    \* status lines sent on the current response

srVars == <<live, ondisk, req, answers>>

\* "streaming": the engine's file stream is piped; "piping": a file on disk.
Stages == {"idle", "lookup", "accessName", "accessHash", "stat", "open",
           "streaming", "piping", "stalled"}

Request == [stage: Stages, route: {"stream", "download", "byname"},
            x: Files \cup {N, NaN}, file: Files \cup {N, NaN}]

Idle == [stage |-> "idle", route |-> "stream", x |-> 0, file |-> 0]

SRTypeOK ==
    /\ live \in BOOLEAN /\ ondisk \subseteq Files
    /\ req \in Request /\ answers \in 0..2

SRInit ==
    /\ live = FALSE /\ ondisk = {}
    /\ req = Idle /\ answers = 0

\* A new request is taken once the previous one ended or was left hanging.
Accept == req.stage \in {"idle", "stalled"}

\* The handler answers and returns; the response ends.
Fail == req' = Idle /\ answers' = answers + 1

(***************************************************************************)
(* The synchronous heads of the three handlers.                           *)
(***************************************************************************)
\* /stream: never falls back to the disk.
StreamByIndex(x) ==
    /\ Accept
    /\ IF x # NaN /\ live /\ x \in Files
       THEN req' = [stage |-> "streaming", route |-> "stream", x |-> x, file |-> x]
       ELSE req' = Idle
    /\ answers' = 1
    /\ UNCHANGED <<live, ondisk>>

\* /download: the engine's file, else the record (a promise chain).
Download(x) ==
    /\ Accept
    /\ IF x = NaN
       THEN req' = Idle /\ answers' = 1
       ELSE IF live /\ x \in Files
       THEN req' = [stage |-> "streaming", route |-> "download", x |-> x, file |-> x]
            /\ answers' = 1
       ELSE req' = [stage |-> "lookup", route |-> "download", x |-> x, file |-> NaN]
            /\ answers' = 0
    /\ UNCHANGED <<live, ondisk>>

\* /api/stream: torrent.files.find by name, else the record.
StreamByName(x) ==
    /\ Accept
    /\ IF live /\ x \in Files
       THEN req' = [stage |-> "streaming", route |-> "byname", x |-> x, file |-> x]
            /\ answers' = 1
       ELSE req' = [stage |-> "lookup", route |-> "byname", x |-> x, file |-> NaN]
            /\ answers' = 0
    /\ UNCHANGED <<live, ondisk>>

(***************************************************************************)
(* The disk fallback, one action per await.                               *)
(***************************************************************************)
\* /download's fileRecord: torrentRecord.files[index], by position.
DownloadRecord(x) == {rows[k].file : k \in {x + 1} \cap DOMAIN rows}

\* /api/stream's fileRecord: the first row with that name.
NamedRecord(x) == {rows[k].file : k \in {j \in DOMAIN rows : rows[j].file = x}}

\* getTorrentByInfoHash resolves: no rows, an index past them, or no row
\* of that name answer 404.
RecordLookup ==
    /\ req.stage = "lookup"
    /\ LET found == IF req.route = "download" THEN DownloadRecord(req.x)
                                               ELSE NamedRecord(req.x)
       IN IF found = {}
          THEN Fail
          ELSE /\ req' = [req EXCEPT !.stage = "accessName",
                                     !.file = CHOOSE f \in found : TRUE]
               /\ UNCHANGED answers
    /\ UNCHANGED <<live, ondisk>>

\* fs.promises.access under the torrent-name directory.
AccessName ==
    /\ req.stage = "accessName"
    /\ req' = [req EXCEPT !.stage = IF req.file \in ondisk THEN "stat" ELSE "accessHash"]
    /\ UNCHANGED <<live, ondisk, answers>>

\* fs.promises.access under the infoHash directory, which WebTorrent never
\* creates (it ignores storeName): 404.
AccessHash ==
    /\ req.stage = "accessHash"
    /\ Fail
    /\ UNCHANGED <<live, ondisk>>

\* fs.promises.stat; a file gone since access throws into the catch (500
\* on /download, 404 on /api/stream).  /download only sets headers;
\* /api/stream calls res.writeHead, which sends the status line.
StatFile ==
    /\ req.stage = "stat"
    /\ IF req.file \notin ondisk
       THEN Fail
       ELSE /\ req' = [req EXCEPT !.stage = "open"]
            /\ answers' = IF req.route = "byname" THEN answers + 1 ELSE answers
    /\ UNCHANGED <<live, ondisk>>

\* Mutant: the stream's error handler answers without checking headersSent.
OpenStreamUnguarded ==
    /\ req.stage = "open"
    /\ IF req.file \in ondisk
       THEN /\ req' = [req EXCEPT !.stage = "piping"]
            /\ answers' = IF req.route = "download" THEN answers + 1 ELSE answers
       ELSE Fail
    /\ UNCHANGED <<live, ondisk>>

\* Mutant: the 'error' handler only logs, and never answers.
OpenStreamErrorOnlyLogged ==
    /\ req.stage = "open"
    /\ IF req.file \in ondisk
       THEN /\ req' = [req EXCEPT !.stage = "piping"]
            /\ answers' = IF req.route = "download" THEN answers + 1 ELSE answers
       ELSE req' = [req EXCEPT !.stage = "stalled"] /\ UNCHANGED answers
    /\ UNCHANGED <<live, ondisk>>

\* fs.createReadStream opens the file after the handler returned: the
\* first chunk sends /download's headers; a failed open emits 'error',
\* whose handler answers 500 only when no header was sent, and otherwise
\* leaves the response open.
OpenStream ==
    /\ req.stage = "open"
    /\ IF req.file \in ondisk
       THEN /\ req' = [req EXCEPT !.stage = "piping"]
            /\ answers' = IF req.route = "download" THEN answers + 1 ELSE answers
       ELSE IF answers > 0
       THEN req' = [req EXCEPT !.stage = "stalled"] /\ UNCHANGED answers
       ELSE Fail
    /\ UNCHANGED <<live, ondisk>>

\* The piped stream ends and so does the response.
StreamEnd ==
    /\ req.stage \in {"streaming", "piping"}
    /\ req' = Idle
    /\ UNCHANGED <<live, ondisk, answers>>

(***************************************************************************)
(* The rest of the program: the torrent is added or removed, the engine   *)
(* writes a file, the quota enforcer or DELETE /torrent deletes one.      *)
(***************************************************************************)
TorrentLive == live' = ~live /\ UNCHANGED <<ondisk, req, answers>>

FileWritten(f) ==
    /\ f \notin ondisk /\ ondisk' = ondisk \cup {f}
    /\ UNCHANGED <<live, req, answers>>

FileDeleted(f) ==
    /\ f \in ondisk /\ ondisk' = ondisk \ {f}
    /\ UNCHANGED <<live, req, answers>>

SRNext ==
    \/ \E x \in Files \cup {N, NaN} : StreamByIndex(x) \/ Download(x)
    \/ \E x \in Files \cup {N} : StreamByName(x)
    \/ RecordLookup \/ AccessName \/ AccessHash \/ StatFile \/ OpenStream
    \/ StreamEnd \/ TorrentLive
    \/ \E f \in Files : FileWritten(f) \/ FileDeleted(f)

\* No response ever carries a second status line: an error after the
\* headers went out (writeHead, then a failed open) is not answered again,
\* which would throw ERR_HTTP_HEADERS_SENT inside the stream's 'error'
\* callback, outside any try (server.js's uncaughtException handler only
\* logs it).
AnsweredOnce == answers <= 1

\* A /download served from the record always ends with one status line:
\* the lookup, both access checks and stat answer 404 or 500 on a miss,
\* and a file deleted between stat and the asynchronous open is answered
\* by the stream's 'error' handler, since /download sends no header
\* before the first chunk (unlike /api/stream, whose response is then
\* left open).
DownloadEnds ==
    (req.route = "download" /\ req.stage = "lookup")
        ~> (req.stage = "idle" /\ answers = 1)

====
