------------------------------ MODULE MCIndexer ------------------------------
(* Small instances of Indexer for TLC: the chain starts with blocks 1..3   *)
(* (block 2 has no transaction) and grows to 5.                            *)
EXTENDS Indexer, TLC

MCBlocks == 1..5
MCTablesOf ==
  (1 :> {1, 2} @@ 2 :> {1} @@ 3 :> {1, 2} @@ 4 :> {1} @@ 5 :> {1, 2})
MCBatchSize == <<3, 2>>

Silent == [o \in Options |-> Unset]
EnvExample == [Silent EXCEPT !.resume = TRUE, !.firstBlock = 1, !.follow = TRUE]
Say(args, env, file) == [args |-> args, env |-> env, file |-> file]

(* .env.example; the same with --from=2; and, twice, a range that every    *)
(* process indexes anew.  Of the others two end as the first one does (a   *)
(* TO=latest somewhere, options without a value), the rest never get past  *)
(* getConfig.                                                              *)
MCFollowing == {Say(Silent, Silent, EnvExample)}
MCSettings ==
  MCFollowing \union
  {Say([Silent EXCEPT !.from = 2], Silent, EnvExample),
   Say([Silent EXCEPT !.from = 2, !.to = 3, !.resume = FALSE, !.follow = FALSE],
       Silent, EnvExample),
   Say([Silent EXCEPT !.to = 3],
       [Silent EXCEPT !.from = 2, !.resume = Blank, !.follow = FALSE], EnvExample),
   Say([Silent EXCEPT !.to = 3], [Silent EXCEPT !.to = Latest], EnvExample),
   Say([Silent EXCEPT !.from = Flag, !.resume = Flag, !.firstBlock = Flag],
       Silent, [EnvExample EXCEPT !.firstBlock = Blank]),
   Say([Silent EXCEPT !.from = Blank], Silent, EnvExample),
   Say(Silent, [Silent EXCEPT !.from = Latest], EnvExample),
   Say([Silent EXCEPT !.from = 0], Silent, EnvExample),
   Say([Silent EXCEPT !.from = 3, !.to = 2], Silent, EnvExample)}

(* These and only these are the configurations that result.                *)
Following == [from |-> NotSet, to |-> NotSet, resume |-> TRUE, firstBlock |-> 1,
              follow |-> TRUE]
ASSUME ThreeConfigs ==
  ConfigsOf(MCSettings) = {Following, [Following EXCEPT !.from = 2],
             [from |-> 2, to |-> 3, resume |-> FALSE, firstBlock |-> 1, follow |-> FALSE]}
==============================================================================
