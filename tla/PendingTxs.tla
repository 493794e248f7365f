----------------------------- MODULE PendingTxs -----------------------------
(***************************************************************************)
(* The bounded queue of transactions to prove that the acknowledgment and  *)
(* the claim submitter share (src/message-relayer/src/pending.rs), and the *)
(* memory of the finished ones.                                            *)
(*                                                                         *)
(* The map `seen` is a function from transactions to the order in which    *)
(* they were first seen: 0 for a transaction that is not tracked, and the  *)
(* larger the later.  Transactions of one scan share a number: their       *)
(* instants follow the order of the logs, which the RPC chooses.           *)
(***************************************************************************)
EXTENDS Integers, FiniteSets, FiniteSetsExt

Untracked(Txs) == [t \in Txs |-> 0]
Tracked(seen) == {t \in DOMAIN seen : seen[t] > 0}

\* The new transactions of a scan are younger than everything tracked.
Insert(seen, new) ==
  LET latest == Max({seen[t] : t \in DOMAIN seen})
  IN  [t \in DOMAIN seen |-> IF t \in new THEN latest + 1 ELSE seen[t]]

Remove(seen, gone) == [t \in DOMAIN seen |-> IF t \in gone THEN 0 ELSE seen[t]]

\* Every choice of the n oldest among the transactions S of the queue.
OldestOf(seen, S, n) ==
  {B \in SUBSET S : /\ Cardinality(B) = Min({n, Cardinality(S)})
                    /\ \A b \in B, s \in S \ B : seen[b] <= seen[s]}

\* ready(n, now): the oldest n whose next attempt is due.
Ready(seen, due, n) == OldestOf(seen, Tracked(seen) \cap due, n)

\* Mutant: evicts only from a queue that was over its cap before the insert.
EvictionsLate(seen, cap) ==
  OldestOf(seen, Tracked(seen), Max({0, Cardinality(Tracked(seen)) - cap - 1}))

\* What insert evicts when the queue is over its cap: the oldest first seen.
Evictions(seen, cap) ==
  OldestOf(seen, Tracked(seen), Max({0, Cardinality(Tracked(seen)) - cap}))

\* Mutant: the block of the oldest tracked transaction counts as scanned.
HoldBackAtBlock(lastSeen, blocks) == Min({lastSeen} \cup blocks)

\* The saved cursor stays below the oldest block a tracked transaction was
\* found in (oldest_pending_block and the clamp at its two call sites).
HoldBack(lastSeen, blocks) == Min({lastSeen} \cup {b - 1 : b \in blocks})

\* BoundedSeen::insert.  The order of eviction is left open: the set keeps
\* any cap of the finished transactions that hold the new ones.
Remember(done, new, cap) ==
  {D \in SUBSET (done \cup new) :
     /\ Cardinality(D) = Min({cap, Cardinality(done \cup new)})
     /\ \/ new \subseteq D
        \/ D \subseteq new}
=============================================================================
