-------------------------- MODULE MCSharedDatabase --------------------------
(* A small instance of SharedDatabase for TLC: three processes, a second   *)
(* partition that starts at height 2, and a table with DO NOTHING and one  *)
(* with DO UPDATE.                                                         *)
EXTENDS SharedDatabase, TLC

CONSTANTS p1, p2, p3
MCHashModulus == (p1 :> 1 @@ p2 :> 1 @@ p3 :> 2)
MCShown == {"blocks", "transactions"}
MCRangeOrder == <<"blocks", "transactions">>
MCTablesOf == (1 :> MCShown @@ 2 :> MCShown)
==============================================================================
