----------------------------- MODULE SwarmEngine -----------------------------
(***************************************************************************)
(* The WebTorrent client as the code sees it (an external package, not     *)
(* code of this repository): the client.torrents registry, one session    *)
(* per infoHash, and the download tree on disk.  Its steps are the         *)
(* environment of the lifecycle manager and the samplers.                  *)
(*                                                                         *)
(*   meta    metadata received and the store verified ('ready')           *)
(*   got     files complete in this session                                *)
(*   sel     files selected for download                                   *)
(*   done    torrent.done: set by the engine once every selected file is  *)
(*           complete, and also written by the progress sampler           *)
(*           (server.js line 155)                                          *)
(*   paused  torrent.paused, set by pause()/resume()                       *)
(*   cb      the ontorrent closure passed to client.add: who added it and *)
(*           the persisted selection a restore captured                    *)
(* disk[id] is the set of files of id present under the download root.    *)
(***************************************************************************)
EXTENDS TorrentParams

CONSTANT NoSess     \* sentinel: the infoHash is not in client.torrents

VARIABLES sess, disk

OnTorrent == [by: {"add", "restore"}, rows: 0..MaxRows, sel: SUBSET FileIdx]

Session ==
    [meta: BOOLEAN, got: SUBSET FileIdx, sel: SUBSET FileIdx,
     done: BOOLEAN, paused: BOOLEAN, cb: OnTorrent]

EngineTypeOK ==
    /\ sess \in [Ids -> Session \cup {NoSess}]
    /\ disk \in [Ids -> SUBSET FileIdx]

Live(id) == sess[id] # NoSess

\* client.add: a new session without metadata, every file selected.  A
\* second add of an infoHash already in client.torrents is destroyed with
\* "Cannot add duplicate torrent" and its ontorrent never runs.
NewSession(cb) ==
    [meta |-> FALSE, got |-> {}, sel |-> FileIdx, done |-> FALSE,
     paused |-> FALSE, cb |-> cb]

clientAdd(id, cb) ==
    sess' = [sess EXCEPT ![id] = IF @ = NoSess THEN NewSession(cb) ELSE @]

\* client.remove: the torrent leaves client.torrents at once.
clientRemove(id) == sess' = [sess EXCEPT ![id] = NoSess]

\* Metadata arrives and the pieces already on disk are verified.
Verified(id) ==
    [sess[id] EXCEPT !.meta = TRUE, !.got = disk[id],
                     !.done = FileIdx \subseteq disk[id]]

\* One selected file finishes.  Existing wires keep downloading after
\* pause() (WebTorrent only stops new connections), so paused is no guard.
DownloadFile(id) ==
    /\ Live(id)
    /\ sess[id].meta
    /\ \E f \in sess[id].sel \ sess[id].got:
         LET got == sess[id].got \cup {f} IN
         /\ sess' = [sess EXCEPT ![id].got = got,
                                 ![id].done = @ \/ sess[id].sel \subseteq got]
         /\ disk' = [disk EXCEPT ![id] = @ \cup {f}]

\* A torrent 'error' destroys the session; the record is left alone.
SessionError(id) ==
    /\ Live(id)
    /\ clientRemove(id)
    /\ UNCHANGED disk

=============================================================================
