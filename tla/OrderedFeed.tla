----------------------------- MODULE OrderedFeed -----------------------------
(***************************************************************************)
(* What syncRange() promises its caller and its sink, with the fetching,   *)
(* the retries and the slots left out: a cursor moves over the range, each *)
(* height it passes was delivered to the sink or given up, one delivery is *)
(* outstanding at a time, and the call returns when the cursor is past the *)
(* end.  SyncRange implements this; Indexer is built on it.                *)
(***************************************************************************)
EXTENDS Integers, Sequences

VARIABLES
  feedFrom, feedTo, \* opts.from and opts.to
  cursor,           \* nextToFlush
  delivering,       \* sink.write of the height at the cursor is awaited
  feedStatus,       \* of the promise: "running", "returned", "crashed"
  delivered,        \* history: the heights given to the sink, in order
  givenUp           \* history: the heights passed without a delivery

feedVars ==
  <<feedFrom, feedTo, cursor, delivering, feedStatus, delivered, givenUp>>

FeedStart(from, to) ==
  /\ feedFrom = from /\ feedTo = to
  /\ cursor = from
  /\ delivering = FALSE
  /\ feedStatus = "running"
  /\ delivered = << >>
  /\ givenUp = {}

(* The same as an action: syncRange is called for a new range.             *)
CursorKept(from, to) ==  \* mutant: nextToFlush outlives the call
  /\ feedFrom' = from /\ feedTo' = to
  /\ cursor' = cursor
  /\ delivering' = FALSE
  /\ feedStatus' = "running"
  /\ delivered' = << >>
  /\ givenUp' = {}

FeedCalled(from, to) ==
  /\ feedFrom' = from /\ feedTo' = to
  /\ cursor' = from
  /\ delivering' = FALSE
  /\ feedStatus' = "running"
  /\ delivered' = << >>
  /\ givenUp' = {}

(* One run of the loop of tryFlush between two awaits: the write under way *)
(* has returned, the heights up to m are skipped, and the write of m       *)
(* starts if its block is there.                                           *)
Advance ==
  LET n == IF delivering THEN cursor + 1 ELSE cursor
  IN  /\ feedStatus = "running"
      /\ \E m \in n..(feedTo + 1), starts \in BOOLEAN :
           /\ starts => m <= feedTo
           /\ cursor' = m
           /\ givenUp' = givenUp \union (n..(m - 1))
           /\ delivering' = starts
           /\ delivered' = IF starts THEN Append(delivered, m) ELSE delivered
      /\ UNCHANGED <<feedFrom, feedTo, feedStatus>>

(* The promise resolves, from the finally callback of the last height; an  *)
(* empty range has no such callback.                                       *)
Return ==
  /\ feedStatus = "running"
  /\ feedFrom <= feedTo
  /\ cursor = feedTo + 1
  /\ ~delivering
  /\ feedStatus' = "returned"
  /\ UNCHANGED <<feedFrom, feedTo, cursor, delivering, delivered, givenUp>>

(* The outstanding write rejects and the process ends.                     *)
Crash ==
  /\ feedStatus = "running"
  /\ delivering
  /\ feedStatus' = "crashed"
  /\ UNCHANGED <<feedFrom, feedTo, cursor, delivering, delivered, givenUp>>

FeedInit ==
  feedFrom \in Nat /\ feedTo \in Nat /\ FeedStart(feedFrom, feedTo)
FeedNext == Advance \/ Return \/ Crash
FeedSpec == FeedInit /\ [][FeedNext]_feedVars
FairFeedSpec == FeedSpec /\ WF_feedVars(FeedNext)
==============================================================================
