------------------------------- MODULE TxRows -------------------------------
(***************************************************************************)
(* From a node's answer about a block to the rows that are buffered for    *)
(* each table: assembleTxObjects (src/assemble, src/normalize/events),     *)
(* pickLogs and its helpers (src/sink/pg/parsing.ts) and extractRows       *)
(* (src/sink/postgres.ts).                                                 *)
(*                                                                         *)
(* An answer is what the node and the decoder say of a block:              *)
(*   [txs, decoded, results]                                               *)
(* three sequences, of the hash, of the messages and of the result of each *)
(* transaction.  A result is [code, raw_log, events], where raw_log is Null*)
(* when it is not a JSON array (a failed transaction, a newer node) and    *)
(* else a sequence of [msg_index, events], msg_index being Null where the  *)
(* node left it out.  An event is [type, attributes],                      *)
(* its attributes a sequence of [key, value].  A message is                *)
(* [type_url, signer, delegator, amount, contract], Null where it has no   *)
(* such field; its signer is the first of its address fields.              *)
(* Columns that no key and no property depends on are left out, and so are *)
(* the governance rows, which no block has (extractGovFromBlock is never   *)
(* called).                                                                *)
(***************************************************************************)
EXTENDS Integers, SequencesExt

CONSTANTS
  Null,     \* null and undefined
  Decoded,  \* text of each string that is canonical base64 of printable text
  CoinOf    \* [denom, amount] of each string parseCoin accepts
ASSUME NullAssumption == Null \notin Int

(* isCanonicalBase64 refuses the empty string, and what is decoded is text.*)
ASSUME DecodedAssumption ==
  "" \notin DOMAIN Decoded /\ \A s \in DOMAIN Decoded : Decoded[s] # Null

Default(x, d) == IF x = Null THEN d ELSE x   \* x ?? d

(* The elements of a sequence that are in S, in their order: filter().     *)
Kept(seq, S) ==
  LET kept[i \in 0..Len(seq)] ==
        IF i = 0 THEN <<>>
        ELSE IF seq[i] \in S THEN Append(kept[i - 1], seq[i]) ELSE kept[i - 1]
  IN kept[Len(seq)]

(* The shape of an answer.                                                 *)
IsSequence(s) == s \in Seq(Range(s))
AreEvents(evs) ==
  /\ IsSequence(evs)
  /\ \A ev \in Range(evs) :
       DOMAIN ev = {"type", "attributes"} /\ IsSequence(ev.attributes)
IsResult(result) ==
  /\ AreEvents(result.events)
  /\ result.raw_log # Null =>
       /\ IsSequence(result.raw_log)
       /\ \A log \in Range(result.raw_log) : AreEvents(log.events)
IsAnswer(answer) ==
  /\ IsSequence(answer.txs)
  /\ IsSequence(answer.decoded)
  /\ \A msgs \in Range(answer.decoded) : IsSequence(msgs)
  /\ IsSequence(answer.results)
  /\ \A result \in Range(answer.results) : IsResult(result)

------------------------------------------------------------------------------
(* Events as they are assembled: a missing key or value becomes '', both   *)
(* are decoded, the per-message logs of raw_log come first, the events of  *)
(* the transaction, normalized a second time, follow as a log without a    *)
(* message.                                                                *)
tryB64ToUtf8(s) == IF s \in DOMAIN Decoded THEN Decoded[s] ELSE s

normalizeAttr(a) ==
  [key |-> tryB64ToUtf8(Default(a.key, "")), value |-> tryB64ToUtf8(Default(a.value, ""))]
normalizeEvent(ev) ==
  [ev EXCEPT !.attributes = [i \in DOMAIN @ |-> normalizeAttr(@[i])]]
normalizeEvents(evs) == [i \in DOMAIN evs |-> normalizeEvent(evs[i])]

parseRawLogToStructured(raw_log) ==
  IF raw_log = Null THEN <<>>
  ELSE [i \in DOMAIN raw_log |->
          [msg_index |-> Default(raw_log[i].msg_index, 0),
           events |-> normalizeEvents(raw_log[i].events)]]

buildCombinedLogs(raw_log, events) ==
  LET txLevel == normalizeEvents(events)
  IN parseRawLogToStructured(raw_log)
       \o IF txLevel = <<>> THEN <<>> ELSE <<[msg_index |-> Null, events |-> txLevel]>>

------------------------------------------------------------------------------
(* A transaction the node has no result for gets a successful one without  *)
(* events, one the decoder has nothing for no messages.                    *)
NoResult == [code |-> 0, raw_log |-> Null, events |-> <<>>]
getTxsResults(results, count) ==
  [i \in 1..count |-> IF i \in DOMAIN results THEN results[i] ELSE NoResult]
decodedTx(decoded, i) == IF i \in DOMAIN decoded THEN decoded[i] ELSE <<>>

assembleTxObjects(answer) ==
  LET results == getTxsResults(answer.results, Len(answer.txs))
  IN [i \in DOMAIN answer.txs |->
        [hash |-> answer.txs[i], msgs |-> decodedTx(answer.decoded, i),
         code |-> results[i].code, raw_log |-> results[i].raw_log,
         logs |-> buildCombinedLogs(results[i].raw_log,
                                    normalizeEvents(results[i].events))]]

pickLogsAtZero(tx) ==  \* mutant: transaction-scoped events under message 0
  [i \in DOMAIN tx.logs |->
     [tx.logs[i] EXCEPT !.msg_index = Default(@, 0)]]
pickLogs(tx) ==
  [i \in DOMAIN tx.logs |->
     [tx.logs[i] EXCEPT !.msg_index = Default(@, -1)]]

------------------------------------------------------------------------------
Falsy == {Null, ""}   \* !x, of a string or null

findAttr(ev, key) ==
  LET i == SelectInSeq(ev.attributes, LAMBDA a : a.key = key)
  IN IF i = 0 THEN Null ELSE ev.attributes[i].value

parseCoin(s) == IF s \in DOMAIN CoinOf THEN CoinOf[s] ELSE Null
Denom(coin) == IF coin = Null THEN Null ELSE coin.denom
Amount(coin) == IF coin = Null THEN Null ELSE coin.amount

(* collectSignersFromMessages: the first address of the messages.          *)
firstSigner(tx) ==
  LET i == SelectInSeq(tx.msgs, LAMBDA m : m.signer # Null)
  IN IF i = 0 THEN Null ELSE tx.msgs[i].signer

(* The events of a transaction in the order extractRows visits them.       *)
Visited(tx) ==
  LET logs == pickLogs(tx)
  IN FlattenSeq([l \in DOMAIN logs |->
       [e \in DOMAIN logs[l].events |->
          [msg |-> logs[l].msg_index, ei |-> e - 1, ev |-> logs[l].events[e]]]])
VisitedOf(tx, types) ==
  Kept(Visited(tx), {v \in Range(Visited(tx)) : v.ev.type \in types})
RowPerEvent(visited, Row(_)) == [i \in DOMAIN visited |-> Row(visited[i])]

------------------------------------------------------------------------------
(* One operator per table: its rows for a transaction at a height.         *)
blockRow(h) == [height |-> h]

txRow(h, index, tx) ==
  [height |-> h, tx_hash |-> tx.hash, tx_index |-> index, code |-> tx.code,
   log_summary |-> tx.raw_log]

msgRows(h, tx) ==
  [i \in DOMAIN tx.msgs |->
     [height |-> h, tx_hash |-> tx.hash, msg_index |-> i - 1, value |-> tx.msgs[i]]]

wasmExecRows(h, tx) ==
  LET rows == msgRows(h, tx)
      calls == Kept(rows, {r \in Range(rows) : r.value.type_url = "MsgExecuteContract"})
  IN [i \in DOMAIN calls |->
       [height |-> h, tx_hash |-> tx.hash, msg_index |-> calls[i].msg_index,
        contract |-> calls[i].value.contract, success |-> tx.code = 0]]

evRows(h, tx) ==
  RowPerEvent(Visited(tx), LAMBDA v :
    [height |-> h, tx_hash |-> tx.hash, msg_index |-> v.msg, event_index |-> v.ei,
     event_type |-> v.ev.type, attributes |-> v.ev.attributes])

attrRows(h, tx) ==
  FlattenSeq(RowPerEvent(Visited(tx), LAMBDA v :
    [i \in DOMAIN v.ev.attributes |->
       [height |-> h, tx_hash |-> tx.hash, msg_index |-> v.msg, event_index |-> v.ei,
        key |-> v.ev.attributes[i].key, value |-> v.ev.attributes[i].value]]))

transfersRows(h, tx) ==
  LET rows == RowPerEvent(VisitedOf(tx, {"transfer"}), LAMBDA v :
        LET coin == parseCoin(findAttr(v.ev, "amount"))
        IN [height |-> h, tx_hash |-> tx.hash, msg_index |-> v.msg,
            from_addr |-> findAttr(v.ev, "sender"), to_addr |-> findAttr(v.ev, "recipient"),
            denom |-> Denom(coin), amount |-> Amount(coin)])
  IN Kept(rows, {r \in Range(rows) :
                   r.from_addr \notin Falsy /\ r.to_addr \notin Falsy /\ r.denom # Null})

(* What the event does not say is taken from its message, if it has one,   *)
(* and the delegator in the end from the signer.                           *)
stakeDelegRow(h, tx, v) ==
  LET known == v.msg \in 0..(Len(tx.msgs) - 1)
      delegating == IF known THEN tx.msgs[v.msg + 1].delegator ELSE Null
      said == findAttr(v.ev, "delegator")
      delegator == IF said \in Falsy THEN Default(delegating, said) ELSE said
      spent == IF known THEN tx.msgs[v.msg + 1].amount ELSE Null
      coin == Default(parseCoin(Default(findAttr(v.ev, "amount"),
                                        findAttr(v.ev, "completion_amount"))), spent)
  IN [height |-> h, tx_hash |-> tx.hash, msg_index |-> v.msg, event_type |-> v.ev.type,
      delegator_address |-> Default(delegator, firstSigner(tx)),
      denom |-> Denom(coin), amount |-> Amount(coin)]

stakeDelegRows(h, tx) ==
  RowPerEvent(VisitedOf(tx, {"delegate", "redelegate", "unbond", "complete_unbonding"}),
              LAMBDA v : stakeDelegRow(h, tx, v))

stakeDistrRows(h, tx) ==
  RowPerEvent(VisitedOf(tx, {"withdraw_rewards", "withdraw_commission",
                             "set_withdraw_address"}), LAMBDA v :
    LET coin == parseCoin(findAttr(v.ev, "amount"))
    IN [height |-> h, tx_hash |-> tx.hash, msg_index |-> v.msg, event_type |-> v.ev.type,
        delegator_address |-> findAttr(v.ev, "delegator"),
        denom |-> Denom(coin), amount |-> Amount(coin)])

wasmEventsRows(h, tx) ==
  LET rows == RowPerEvent(VisitedOf(tx, {"wasm"}), LAMBDA v :
        [height |-> h, tx_hash |-> tx.hash, msg_index |-> v.msg, event_type |-> v.ev.type,
         contract |-> Default(findAttr(v.ev, "_contract_address"),
                              findAttr(v.ev, "contract_address")),
         attributes |-> v.ev.attributes])
  IN Kept(rows, {r \in Range(rows) : r.contract \notin Falsy})

------------------------------------------------------------------------------
(* The rows of a block, per table, in the order they are pushed.           *)
PerTx(txs, Rows(_)) == FlattenSeq([i \in DOMAIN txs |-> Rows(txs[i])])

extractRows(h, answer) ==
  LET txs == assembleTxObjects(answer)
  IN
  [blocks       |-> <<blockRow(h)>>,
   transactions |-> [i \in DOMAIN txs |-> txRow(h, i - 1, txs[i])],
   messages     |-> PerTx(txs, LAMBDA tx : msgRows(h, tx)),
   events       |-> PerTx(txs, LAMBDA tx : evRows(h, tx)),
   event_attrs  |-> PerTx(txs, LAMBDA tx : attrRows(h, tx)),
   transfers    |-> PerTx(txs, LAMBDA tx : transfersRows(h, tx)),
   delegation_events   |-> PerTx(txs, LAMBDA tx : stakeDelegRows(h, tx)),
   distribution_events |-> PerTx(txs, LAMBDA tx : stakeDistrRows(h, tx)),
   executions   |-> PerTx(txs, LAMBDA tx : wasmExecRows(h, tx)),
   wasm_events  |-> PerTx(txs, LAMBDA tx : wasmEventsRows(h, tx))]
==============================================================================
