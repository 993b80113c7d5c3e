--------------------------- MODULE MC_TorrentSystem ---------------------------
(***************************************************************************)
(* Model-checking instance of TorrentSystem: one or two infoHashes, a     *)
(* two-file torrent with one video file (or, for the progress runs, a    *)
(* one-file video torrent, which an added session can complete), at most *)
(* one crash.                                                              *)
(***************************************************************************)
EXTENDS TorrentSystem

CONSTANTS h1, h2

MCIds1 == {h1}
MCIds2 == {h1, h2}
MCFileIdx == {1, 2}
MCVideoFiles == {1}
MCFileIdx1 == {1}

=============================================================================
