---------------------------- MODULE SyncRangeFeed ----------------------------
(* SyncRange implements OrderedFeed: the refinement mapping.               *)
EXTENDS SyncRange

Feed == INSTANCE OrderedFeed WITH
  feedFrom <- rangeFrom,
  feedTo <- rangeTo,
  cursor <- nextToFlush,
  delivering <- AnyWriter,
  feedStatus <- status,
  delivered <- out,
  givenUp <- {h \in Heights : h < nextToFlush /\ GaveUp(h)}

(* Seen through the cursor and the outstanding write, the runner's steps   *)
(* are those of the ordered feed: in order, one delivery at a time, no     *)
(* height passed unless delivered or given up, and no return before the    *)
(* end, whatever the interleaving of fetches, retries and writes.          *)
ImplementsFeed == Feed!FeedSpec

(* ... and it keeps moving as the feed does.                               *)
ImplementsFairFeed == Feed!FairFeedSpec
==============================================================================
