---------------------------- MODULE MCBlockRows ----------------------------
(* Blocks for BlockRows: a transaction of an older node with a log per     *)
(* message (the index of message 0 left out, attributes in base64), one of *)
(* a newer node with a flat list of events, and a failed one.  The text    *)
(* "1404" is also canonical base64, of text that is none; an attribute may *)
(* have no value, a contract may be the empty string.                      *)
EXTENDS BlockRows

At(key, value) == [key |-> key, value |-> value]
Ev(type, attributes) == [type |-> type, attributes |-> attributes]
Msg(type_url, contract) ==
  [type_url |-> type_url, signer |-> "alice", delegator |-> "alice",
   amount |-> [denom |-> "atom", amount |-> 1], contract |-> contract]

Transfer(amount) ==
  Ev("transfer", <<At("recipient", "bob"), At("sender", "alice"), At("amount", amount)>>)
Delegate == Ev("delegate", <<At("validator", "val"), At("amount", "1atom")>>)
Encoded == Ev("delegate", <<At("dmFsaWRhdG9y", "val"), At("YW1vdW50", "MWF0b20=")>>)
Tip == Ev("tip", <<At("tag", "1404"), At("tag", Null), At("MTQwNA==", "x")>>)
NoContract == Ev("wasm", <<At("_contract_address", ""), At("contract_address", "c1")>>)
Nobody == Ev("transfer", <<At("recipient", Null), At("sender", "alice"), At("amount", "1atom")>>)
Wasm(action) == Ev("wasm", <<At("_contract_address", "c1"), At("action", action)>>)

OldMsgs == <<Msg("MsgDelegate", Null), Msg("MsgDelegate", Null)>>
OldResult ==
  [code |-> 0,
   raw_log |-> <<[msg_index |-> Null, events |-> <<Delegate>>],
                 [msg_index |-> 1, events |-> <<Transfer("1atom"), Delegate>>]>>,
   events |-> <<Transfer("2atom"), Encoded, Encoded>>]

NewMsgs == <<Msg("MsgExecuteContract", "c1"), Msg("MsgDelegate", Null)>>
NewResult ==
  [code |-> 0, raw_log |-> Null,
   events |-> <<Transfer("1atom"), Transfer("2atom"), Transfer("1atom,2osmo"),
                Wasm("mint"), Wasm("burn"),
                Ev("withdraw_rewards", <<At("validator", "val"), At("amount", "1atom")>>),
                Tip, Delegate>>]

FailedMsgs == <<Msg("MsgSend", Null)>>
FailedResult == [code |-> 5, raw_log |-> Null, events |-> <<Nobody, NoContract>>]
SilentResult == [code |-> 5, raw_log |-> Null, events |-> <<>>]

(* The last transaction of block 2 has no result; block 5 has no events.   *)
Answer(txs, decoded, results) == [txs |-> txs, decoded |-> decoded, results |-> results]
MCAnswers ==
  (1 :> Answer(<<"A">>, <<OldMsgs>>, <<OldResult>>))
    @@ (2 :> Answer(<<"B", "C", "D">>, <<NewMsgs, FailedMsgs, FailedMsgs>>,
                    <<NewResult, FailedResult>>))
    @@ (5 :> Answer(<<"F">>, <<FailedMsgs>>, <<SilentResult>>))
    @@ (6 :> Answer(<<"E">>, <<NewMsgs>>, <<NewResult>>))
MCDecoded == ("dmFsaWRhdG9y" :> "validator") @@ ("YW1vdW50" :> "amount")
               @@ ("MWF0b20=" :> "1atom") @@ ("MTQwNA==" :> "1404")
               @@ ("1404" :> "garbled")
MCCoinOf == ("1atom" :> [denom |-> "atom", amount |-> 1])
              @@ ("2atom" :> [denom |-> "atom", amount |-> 2])
==============================================================================
