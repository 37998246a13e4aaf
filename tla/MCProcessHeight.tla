--------------------------- MODULE MCProcessHeight ---------------------------
(* Small instances of ProcessHeight for TLC, each with one retry: a block  *)
(* of two transactions, and one whose only transaction does not decode.    *)
EXTENDS ProcessHeight, TLC

MCTxsOf == <<  <<"listed", "known">>, <<"badBody">>  >>
MCRanges == {{1}, {2}}
MCJobs == {j \in (1..2) \X (1..(MaxBlockRetries + 1)) \X (1..2) :
             j[3] \in DOMAIN MCTxsOf[j[1]]}
MCKind == [j \in MCJobs |-> MCTxsOf[j[1]][j[3]]]
==============================================================================
