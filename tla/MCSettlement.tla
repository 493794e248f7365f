---------------------------- MODULE MCSettlement ----------------------------
(* Instance: a message that is executed where it is received, in a          *)
(* transaction that also receives a second one, whose execution is retried  *)
(* in another.                                                              *)
EXTENDS Settlement
CONSTANTS t1, t2, a, b, o1, o2, o3

MCReceived == [t \in Txs |-> CASE t = t1 -> {a, b} [] OTHER -> {}]
MCExecuted == [t \in Txs |-> CASE t = t1 -> {a} [] OTHER -> {b}]
MCHome == [m \in Msgs |-> IF m = a THEN o1 ELSE o2]

Block(T, S) == [txs |-> T, support |-> S]
\* The second Outbox is retired before its message is executed.
MCChains ==
  {<<Block({}, {o1, o2}), Block({t1}, {o2}), Block({t2}, {}), Block({}, {})>>}
=============================================================================
