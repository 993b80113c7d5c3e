---------------------------- MODULE TorrentParams ----------------------------
(***************************************************************************)
(* Parameters shared by the store, the engine and the components above.  *)
(***************************************************************************)
EXTENDS Naturals, FiniteSets

CONSTANTS
    Ids,        \* infoHashes (model values)
    FileIdx,    \* file ordinals of a torrent (the same file list for every id)
    MaxRows     \* bound on duplicated TorrentFile row sets

ASSUME MaxRows \in Nat \ {0}

Complete == Cardinality(FileIdx)
Progress == 0..Complete

=============================================================================
