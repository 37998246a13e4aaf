---------------------------- MODULE MCSyncRange -----------------------------
(* Small instances of SyncRange for TLC.                                   *)
EXTENDS SyncRangeFeed

(* More heights than slots, one height, none.                              *)
MCRanges == {<<2, 5>>, <<2, 2>>, <<3, 2>>}
==============================================================================
