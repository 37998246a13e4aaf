----------------------------- MODULE BlockStore -----------------------------
(***************************************************************************)
(* What the PostgreSQL sink promises in either mode, also to runs that     *)
(* index blocks again: blocks are accepted and held, and whole blocks are  *)
(* stored together in one step.  What is held may be lost, what is stored  *)
(* may not.                                                                *)
(***************************************************************************)
EXTENDS Integers

VARIABLES
  stored,  \* the blocks in the database
  held     \* the blocks accepted, and not in the database

storeVars == <<stored, held>>

StoreInit == stored = {} /\ held = {}

Accept(h) ==
  /\ h \notin stored
  /\ held' = held \union {h}
  /\ stored' = stored

(* The COMMIT of a flush.                                                  *)
StoreAll ==
  /\ stored' = stored \union held
  /\ held' = {}

(* The process ends, or a write fails, with blocks in memory.              *)
LoseHeld == held' = {} /\ stored' = stored

StoreNext ==
  \/ \E h \in held' : Accept(h)
  \/ StoreAll
  \/ LoseHeld

StoreSpec == StoreInit /\ [][StoreNext]_storeVars
==============================================================================
