------------------------------ MODULE MCPgStore ------------------------------
(* Small instances of PgStore for TLC: four blocks over three tables.      *)
EXTENDS PgStore, TLC

MCBlocks == 1..4
MCTablesOf == (1 :> {1, 2, 3} @@ 2 :> {1} @@ 3 :> {1, 3} @@ 4 :> {1, 2})
MCBatchSize == <<3, 2, 2>>
==============================================================================
