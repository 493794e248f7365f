----------------------------- MODULE Broadcast ------------------------------
(***************************************************************************)
(* Sending transactions of one signer from several workers                 *)
(* (src/message-relayer/src/broadcast.rs): a lock per signer, first come   *)
(* first served, around the read of the nonce and the hand-over to the     *)
(* node, both with a time limit.  No nonce is remembered between sends.    *)
(*                                                                         *)
(* The node keeps the pool of transactions that are not mined yet.  A send *)
(* that ends without an answer (the limit, or a broken connection) may     *)
(* have left the transaction on the wire: it reaches the node later, or    *)
(* never.                                                                  *)
(***************************************************************************)
EXTENDS Integers, Sequences, FiniteSets, FiniteSetsExt

CONSTANTS
  Workers,    \* the tasks that sign with this key
  Nobody,     \* no task holds the lock
  NoLoad,     \* what a task that sends nothing is sending
  MaxFaults   \* bound: stalls, lost answers, stale reads and what a user adds

ASSUME BroadcastAssumption ==
  Nobody \notin Workers /\ IsFiniteSet(Workers) /\ MaxFaults \in Nat

VARIABLES
  slot,     \* the task that holds the signer's lock
  line,     \* the tasks that wait for it
  send,     \* the call of each task
  pool,     \* the node's transactions that are not mined: nonce and load
  mined,    \* the account's nonce
  wire,     \* transactions whose sender no longer waits for an answer
  faults,
  evicted,  \* history: nonces the node accepted and dropped again
  doubtful, \* history: loads sent with a stale nonce or left on the wire
  refused   \* history: the node has refused a nonce as used

lockVars == <<slot, line>>
nodeVars == <<pool, mined, evicted>>
sendVars == <<lockVars, send, nodeVars, wire, faults, doubtful, refused>>

Fault == faults < MaxFaults /\ faults' = faults + 1

NoSend == [stage |-> "idle", load |-> NoLoad, nonce |-> 0]
Stages == {"idle", "queued", "reading", "sending", "ok", "err"}
Tx(w) == [nonce |-> send[w].nonce, load |-> send[w].load]
Nonces(txs) == {tx.nonce : tx \in txs}

SendTypeOK ==
  /\ slot \in Workers \cup {Nobody}
  /\ line \in Seq(Workers) /\ Len(line) <= Cardinality(Workers)
  /\ \A w \in Workers : send[w].stage \in Stages /\ send[w].nonce \in Nat
  /\ mined \in Nat /\ faults \in 0 .. MaxFaults
  /\ \A tx \in pool \cup wire : tx.nonce \in Nat
  /\ \A s, t \in pool : s.nonce = t.nonce => s = t
  /\ evicted \subseteq Nat /\ refused \in BOOLEAN

SendInit ==
  /\ slot = Nobody /\ line = <<>>
  /\ send = [w \in Workers |-> NoSend]
  /\ pool = {} /\ mined = 0 /\ wire = {}
  /\ faults = 0 /\ evicted = {} /\ doubtful = {} /\ refused = FALSE
-----------------------------------------------------------------------------
\* BroadcastLocks::broadcast is called, and waits for its turn.
Enqueue(w, load) ==
  /\ send[w].stage = "idle"
  /\ send' = [send EXCEPT ![w] = [stage |-> "queued", load |-> load, nonce |-> 0]]
  /\ line' = Append(line, w)
  /\ UNCHANGED <<slot, nodeVars, wire, faults, doubtful, refused>>

\* Mutant: the lock is not waited for.
AcquireAnyway(w) ==
  /\ line # <<>> /\ Head(line) = w
  /\ slot' = w /\ line' = Tail(line)
  /\ send' = [send EXCEPT ![w].stage = "reading"]
  /\ UNCHANGED <<nodeVars, wire, faults, doubtful, refused>>

Acquire(w) ==
  /\ slot = Nobody
  /\ line # <<>> /\ Head(line) = w
  /\ slot' = w /\ line' = Tail(line)
  /\ send' = [send EXCEPT ![w].stage = "reading"]
  /\ UNCHANGED <<nodeVars, wire, faults, doubtful, refused>>

\* QUEUE_TIMEOUT: Stalled::Queue.
QueueTimeout(w) ==
  /\ send[w].stage = "queued" /\ Fault
  /\ \E i \in DOMAIN line :
       line[i] = w /\ line' = SubSeq(line, 1, i - 1) \o SubSeq(line, i + 1, Len(line))
  /\ send' = [send EXCEPT ![w].stage = "err"]
  /\ UNCHANGED <<slot, nodeVars, wire, doubtful, refused>>

\* eth_getTransactionCount(pending): the nonces in a row from the account's.
PendingCount ==
  Min({n \in mined .. mined + Cardinality(pool) : n \notin Nonces(pool)})

\* Mutant: a local counter, which takes an abandoned send for a nonce used.
ReadNonceCounted(w, n) ==
  /\ send[w].stage = "reading"
  /\ n = mined + Cardinality(pool \cup wire)
  /\ send' = [send EXCEPT ![w].stage = "sending", ![w].nonce = n]
  /\ UNCHANGED <<lockVars, nodeVars, wire, faults, doubtful, refused>>

\* The nonce filler.  Another node behind the endpoint may not have seen the
\* last transactions yet.
ReadNonce(w, n) ==
  /\ send[w].stage = "reading"
  /\ n \in mined .. PendingCount
  /\ IF n = PendingCount THEN UNCHANGED <<faults, doubtful>> ELSE Fault /\ doubtful' = doubtful \cup {send[w].load}
  /\ send' = [send EXCEPT ![w].stage = "sending", ![w].nonce = n]
  /\ UNCHANGED <<lockVars, nodeVars, wire, refused>>

\* The node takes a nonce that is free, whether or not its turn has come.
Takes(tx) == tx.nonce >= mined /\ tx.nonce \notin Nonces(pool)

Answer(w) ==
  /\ send[w].stage = "sending"
  /\ IF Takes(Tx(w))
     THEN /\ pool' = pool \cup {Tx(w)} /\ UNCHANGED refused
          /\ send' = [send EXCEPT ![w].stage = "ok"]
     ELSE /\ refused' = TRUE /\ UNCHANGED pool
          /\ send' = [send EXCEPT ![w].stage = "err"]
  /\ slot' = Nobody
  /\ UNCHANGED <<line, mined, evicted, wire, faults, doubtful>>

\* SEND_TIMEOUT (Stalled::Broadcast) or a transport error, before or after the
\* transaction has left.
NoAnswer(w, left) ==
  /\ send[w].stage \in {"reading", "sending"} /\ Fault
  /\ left => send[w].stage = "sending"
  /\ wire' = IF left THEN wire \cup {Tx(w)} ELSE wire
  /\ doubtful' = IF left THEN doubtful \cup {send[w].load} ELSE doubtful
  /\ send' = [send EXCEPT ![w].stage = "err"]
  /\ slot' = Nobody
  /\ UNCHANGED <<line, nodeVars, refused>>

Return(w) ==
  /\ send[w].stage \in {"ok", "err"}
  /\ send' = [send EXCEPT ![w] = NoSend]
  /\ UNCHANGED <<lockVars, nodeVars, wire, faults, doubtful, refused>>

Arrive(tx) ==
  /\ tx \in wire
  /\ wire' = wire \ {tx}
  /\ pool' = IF Takes(tx) THEN pool \cup {tx} ELSE pool
  /\ UNCHANGED <<lockVars, send, mined, evicted, faults, doubtful, refused>>

Vanish(tx) ==
  /\ tx \in wire
  /\ wire' = wire \ {tx}
  /\ UNCHANGED <<lockVars, send, nodeVars, faults, doubtful, refused>>

Mine(tx) ==
  /\ tx \in pool /\ tx.nonce = mined
  /\ pool' = pool \ {tx} /\ mined' = mined + 1
  /\ UNCHANGED <<lockVars, send, evicted, wire, faults, doubtful, refused>>

\* The node drops a transaction it had accepted.
Evict(tx) ==
  /\ tx \in pool /\ Fault
  /\ pool' = pool \ {tx} /\ evicted' = evicted \cup {tx.nonce}
  /\ UNCHANGED <<lockVars, send, mined, wire, doubtful, refused>>

\* The process ends: what it was sending may be on its way.
Abort(left) ==
  /\ Fault
  /\ left \in SUBSET {Tx(w) : w \in {v \in Workers : send[v].stage = "sending"}}
  /\ wire' = wire \cup left
  /\ doubtful' = doubtful \cup {tx.load : tx \in left}
  /\ slot' = Nobody /\ line' = <<>> /\ send' = [w \in Workers |-> NoSend]
  /\ UNCHANGED <<nodeVars, refused>>

SendStep(w) ==
  \/ Acquire(w) \/ QueueTimeout(w) \/ Answer(w)
  \/ \E n \in 0 .. mined + Cardinality(pool \cup wire) : ReadNonce(w, n)
  \/ \E left \in BOOLEAN : NoAnswer(w, left)

NodeStep ==
  \/ \E tx \in wire : Arrive(tx) \/ Vanish(tx)
  \/ \E tx \in pool : Evict(tx)
-----------------------------------------------------------------------------
\* No send leaves a gap that would hold up every later one: below a
\* transaction in the pool each nonce is mined, in the pool, or was there until
\* the node dropped it.  A send given up is no exception.
NoGap ==
  \A tx \in pool : mined .. (tx.nonce - 1) \subseteq Nonces(pool) \cup evicted

\* Two workers never use one nonce, unless a node behind the endpoint was
\* behind or an abandoned transaction is still about: the lock covers both the
\* read of the nonce and its use.
NoCollision == refused => doubtful # {}
=============================================================================
