----------------------------- MODULE AtomicStore -----------------------------
(***************************************************************************)
(* What the PostgreSQL sink promises in batch-insert mode: whole blocks,   *)
(* accepted in ascending order and held for a while, are stored together   *)
(* in one step that also moves the progress mark to the highest of them;   *)
(* what is held may be lost, what is stored may not.                       *)
(***************************************************************************)
EXTENDS Integers

VARIABLES
  stored,  \* the blocks in the database
  held,    \* the blocks accepted and not yet stored
  mark     \* the height to resume after, -1 if there is none

storeVars == <<stored, held, mark>>

StoreInit == stored = {} /\ held = {} /\ mark = -1

(* write(h), for a block above everything stored or held.                  *)
Accept(h) ==
  /\ h > mark
  /\ \A g \in held : g < h
  /\ held' = held \union {h}
  /\ UNCHANGED <<stored, mark>>

(* The COMMIT of a flush.                                                  *)
StoreAll ==
  /\ held # {}
  /\ stored' = stored \union held
  /\ mark' \in held
  /\ \A h \in held : h <= mark'
  /\ held' = {}

(* The process ends with blocks in memory.                                 *)
LoseHeld ==
  /\ held' = {}
  /\ UNCHANGED <<stored, mark>>

StoreNext ==
  \/ \E h \in held' : Accept(h)
  \/ StoreAll
  \/ LoseHeld

StoreSpec == StoreInit /\ [][StoreNext]_storeVars
==============================================================================
