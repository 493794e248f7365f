------------------------------- MODULE Claim --------------------------------
(***************************************************************************)
(* The claim submitter of one route (src/message-relayer/src/claim/mod.rs):*)
(* it finds the locks of the client chain, proves each transaction to the  *)
(* target on Creditcoin, and saves a cursor that a restart resumes from.   *)
(*                                                                         *)
(* It differs from the acknowledgment submitter where a lock may be given  *)
(* up, because anyone can still claim it: a full queue evicts its oldest   *)
(* transaction, a proof that never comes is dropped after MAX_CLAIM_AGE, a *)
(* revert ends the attempt without a look at the target, and a log that    *)
(* cannot be decoded is skipped.                                           *)
(*                                                                         *)
(* Locks are counted by transaction: one call claims them all.             *)
(*                                                                         *)
(* The code reads the target at Creditcoin's latest block and takes one    *)
(* receipt for an answer: it releases a lock for good on evidence that a   *)
(* reorganisation of Creditcoin may still take back, and nothing ties the  *)
(* cursor to finality.  The model keeps both states of the target, and     *)
(* remembers which locks the worker released and then lost in that way.    *)
(***************************************************************************)
EXTENDS PendingTxs

CONSTANTS
  Txs,        \* transactions with a Locked log of the bridge
  BlockOf,    \* [Txs -> Nat]: the block of each
  Malformed,  \* transactions whose log cannot be decoded
  Oversized,  \* transactions whose proof is over the on-chain limit
  StartBlock, \* claim.start_block, or NoBlock
  NoBlock,
  Depth,      \* confirmation_depth
  Lookback,   \* scan_lookback_blocks
  ScanSpan,   \* MAX_BLOCKS_PER_SCAN
  QueueCap,   \* MAX_PENDING_CLAIMS
  DoneCap,    \* MAX_DONE_TRACKED
  PerTick,    \* MAX_CLAIMS_PER_TICK
  MaxHeight,  \* bound: blocks of the client chain
  MaxFaults   \* bound: failed calls and writes, refusals, crashes

ASSUME ClaimAssumption ==
  /\ IsFiniteSet(Txs) /\ BlockOf \in [Txs -> 1 .. MaxHeight]
  /\ Malformed \subseteq Txs /\ Oversized \subseteq Txs
  /\ NoBlock \notin Nat /\ StartBlock \in Nat \cup {NoBlock}
  /\ {Depth, Lookback, MaxHeight, MaxFaults} \subseteq Nat
  /\ {ScanSpan, QueueCap, DoneCap, PerTick} \subseteq Nat \ {0}

VARIABLES
  head,       \* height of the client chain
  attested,   \* transactions proof-gen can prove
  claimed,    \* transactions whose locks the target has paid, at the latest block
  final,      \* the same at the finalized block
  faults,
  pc,         \* where the worker is in its tick, or "down"
  saved,      \* the cursor on disk, or NoBlock
  origin,     \* history: where the saved cursor's line began
  lastSeen,   \* the cursor in memory
  seen,       \* PendingTxs
  anchor,     \* the block each tracked transaction is held at
  due,        \* tracked transactions whose next attempt is due
  old,        \* tracked transactions past MAX_CLAIM_AGE
  done,       \* BoundedSeen
  attempt,    \* the step of each attempt of this tick, or its outcome
  writtenOff, \* history: what the worker has given up, with a log line
  released,   \* history: what it has released as paid
  undone      \* history: seen as paid by the worker, then reorganised away

chainVars == <<head, attested>>
targetVars == <<claimed, final>>
cursorVars == <<saved, origin, lastSeen>>
queueVars == <<seen, anchor, due, old, done>>
ends == <<writtenOff, released, undone>>
vars == <<chainVars, targetVars, faults, pc, cursorVars, queueVars, attempt, ends>>

Fault == faults < MaxFaults /\ faults' = faults + 1
Confirmed == Max({0, head - Depth})
Locks == {t \in Txs \ Malformed : BlockOf[t] <= Confirmed}

Steps == {"check", "prove", "send"}
Outcomes == {"claimed", "terminal", "notready", "retry"}

TypeOK ==
  /\ head \in 0 .. MaxHeight /\ attested \subseteq Txs
  /\ claimed \subseteq Txs /\ final \subseteq claimed
  /\ faults \in 0 .. MaxFaults
  /\ pc \in {"down", "scan", "save", "batch", "settle"}
  /\ saved \in Nat \cup {NoBlock} /\ origin \in Nat /\ lastSeen \in Nat
  /\ seen \in [Txs -> Nat] /\ anchor \in [Txs -> Nat]
  /\ due \subseteq Txs /\ old \subseteq Txs /\ done \subseteq Txs
  /\ Cardinality(Tracked(seen)) <= QueueCap
  /\ attempt \in [Txs -> {"idle"} \cup Steps \cup Outcomes]
  /\ writtenOff \subseteq Txs /\ released \subseteq Txs /\ undone \subseteq Txs

NothingTracked ==
  /\ seen = Untracked(Txs) /\ anchor = [t \in Txs |-> 0]
  /\ due = {} /\ old = {} /\ done = {}

Init ==
  /\ head = 0 /\ attested = {} /\ claimed = {} /\ final = {}
  /\ faults = 0 /\ pc = "down"
  /\ saved = NoBlock /\ origin = 0 /\ lastSeen = 0
  /\ NothingTracked
  /\ attempt = [t \in Txs |-> "idle"]
  /\ writtenOff = {} /\ released = {} /\ undone = {}
-----------------------------------------------------------------------------
(***************************************************************************)
(* The two chains and the clock.                                           *)
(***************************************************************************)
Mine ==
  /\ head < MaxHeight /\ head' = head + 1
  /\ UNCHANGED <<attested, targetVars, faults, pc, cursorVars, queueVars, attempt, ends>>

Attest(t) ==
  /\ t \notin attested \cup Malformed /\ BlockOf[t] <= Confirmed
  /\ attested' = attested \cup {t}
  /\ UNCHANGED <<head, targetVars, faults, pc, cursorVars, queueVars, attempt, ends>>

\* A user claims by hand, or a submission nobody waits for lands.
AnyoneClaims(t) ==
  /\ t \in attested \ claimed /\ Fault
  /\ claimed' = claimed \cup {t}
  /\ UNCHANGED <<chainVars, final, pc, cursorVars, queueVars, attempt, ends>>

Finalize ==
  /\ final # claimed /\ final' = claimed
  /\ UNCHANGED <<chainVars, claimed, faults, pc, cursorVars, queueVars, attempt, ends>>

\* What the worker has seen paid: released, or about to be.
SeenPaid == released \cup {t \in Txs : attempt[t] = "claimed"}

Reorg ==
  /\ Fault
  /\ \E lost \in (SUBSET (claimed \ final)) \ {{}} :
       /\ claimed' = claimed \ lost
       /\ undone' = undone \cup (lost \cap SeenPaid)
  /\ UNCHANGED <<chainVars, final, pc, cursorVars, queueVars, attempt, writtenOff, released>>

\* Mutant: a transaction past the age limit is not tried again.
ElapseYoung(t) ==
  /\ t \in Tracked(seen) \ (due \cup old) /\ attempt[t] = "idle"
  /\ due' = due \cup {t}
  /\ UNCHANGED <<chainVars, targetVars, faults, pc, cursorVars, seen, anchor, old,
                 done, attempt, ends>>

Elapse(t) ==
  /\ t \in Tracked(seen) \ due /\ attempt[t] = "idle"
  /\ due' = due \cup {t}
  /\ UNCHANGED <<chainVars, targetVars, faults, pc, cursorVars, seen, anchor, old,
                 done, attempt, ends>>

GrowOld(t) ==
  /\ t \in Tracked(seen) \ old /\ Fault
  /\ old' = old \cup {t}
  /\ UNCHANGED <<chainVars, targetVars, pc, cursorVars, seen, anchor, due, done,
                 attempt, ends>>
-----------------------------------------------------------------------------
ResumeCursor ==
  CASE saved # NoBlock -> Max({0, saved - Lookback})
    [] saved = NoBlock /\ StartBlock # NoBlock -> Max({0, StartBlock - 1})
    [] OTHER -> head

Start ==
  /\ pc = "down" /\ pc' = "scan"
  /\ lastSeen' = ResumeCursor
  /\ origin' = IF saved = NoBlock THEN ResumeCursor ELSE origin
  /\ UNCHANGED <<chainVars, targetVars, faults, saved, queueVars, attempt, ends>>

Crash ==
  /\ pc # "down" /\ Fault
  /\ pc' = "down"
  /\ seen' = Untracked(Txs) /\ anchor' = [t \in Txs |-> 0]
  /\ due' = {} /\ old' = {} /\ done' = {}
  /\ attempt' = [t \in Txs |-> "idle"]
  /\ UNCHANGED <<chainVars, targetVars, cursorVars, ends>>
-----------------------------------------------------------------------------
(***************************************************************************)
(* Discovery: discover_locks.                                              *)
(***************************************************************************)
\* A scan with no confirmed block beyond the cursor finds nothing.
UpTo == Min({Confirmed, lastSeen + ScanSpan})
Fresh ==
  {t \in Txs \ (Malformed \cup done \cup Tracked(seen)) :
     BlockOf[t] \in (lastSeen + 1) .. UpTo}

\* Every lock of the range is tracked; past the cap the oldest are evicted.  A
\* log without a block number (unnumbered) is held at the first block asked for.
Discover ==
  /\ pc = "scan"
  /\ \E unnumbered \in SUBSET Fresh, evicted \in Evictions(Insert(seen, Fresh), QueueCap) :
       /\ seen' = Remove(Insert(seen, Fresh), evicted)
       /\ anchor' = [t \in Txs |->
            CASE t \in unnumbered -> lastSeen + 1
              [] t \in Fresh \ unnumbered -> BlockOf[t]
              [] OTHER -> anchor[t]]
       /\ due' = (due \cup Fresh) \ evicted
       /\ old' = old \ evicted
       /\ writtenOff' = writtenOff \cup evicted
  /\ UNCHANGED <<released, undone>>
  /\ lastSeen' = Max({lastSeen, UpTo})
  /\ pc' = "save"
  /\ UNCHANGED <<chainVars, targetVars, faults, saved, origin, done, attempt>>

DiscoverFails ==
  /\ pc = "scan" /\ Fault
  /\ pc' = "batch"
  /\ UNCHANGED <<chainVars, targetVars, cursorVars, queueVars, attempt, ends>>

SavedCursor == HoldBack(lastSeen, {anchor[t] : t \in Tracked(seen)})

Save ==
  /\ pc = "save" /\ pc' = "batch"
  /\ saved' = SavedCursor
  /\ UNCHANGED <<chainVars, targetVars, faults, origin, lastSeen, queueVars, attempt, ends>>

SaveFails ==
  /\ pc = "save" /\ pc' = "batch" /\ Fault
  /\ UNCHANGED <<chainVars, targetVars, cursorVars, queueVars, attempt, ends>>
-----------------------------------------------------------------------------
(***************************************************************************)
(* Claiming: process_pending and claim_tx.                                 *)
(***************************************************************************)
Batch ==
  /\ pc = "batch"
  /\ \E B \in Ready(seen, due, PerTick) :
       /\ attempt' = [t \in Txs |-> IF t \in B THEN "check" ELSE "idle"]
       /\ pc' = IF B = {} THEN "scan" ELSE "settle"
  /\ UNCHANGED <<chainVars, targetVars, faults, cursorVars, queueVars, ends>>

Goto(t, from, to) ==
  /\ pc = "settle" /\ attempt[t] = from
  /\ attempt' = [attempt EXCEPT ![t] = to]
  /\ UNCHANGED <<chainVars, pc, cursorVars, queueVars, ends>>

\* any_unclaimed.  A lock the target has paid is not proved: the code calls it
\* terminal, but the evidence is a payment.  When the target cannot be read the
\* claim goes on: it refuses what it has paid.
Check(t, blind) ==
  /\ IF blind THEN Fault ELSE faults' = faults
  /\ Goto(t, "check", IF t \in claimed /\ ~blind THEN "claimed" ELSE "prove")
  /\ UNCHANGED targetVars

Prove(t, answer) ==
  /\ \/ answer = "ready" /\ t \in attested /\ UNCHANGED faults
     \/ answer = "notready" /\ t \notin attested /\ UNCHANGED faults
     \/ answer = "refused" /\ Fault
  /\ Goto(t, "prove", CASE answer = "ready" /\ t \in Oversized -> "terminal"
                        [] answer = "ready" /\ t \notin Oversized -> "send"
                        [] answer = "notready" -> "notready"
                        [] OTHER -> "retry")
  /\ UNCHANGED targetVars

\* The broadcast and its receipt: one of a call that pays, or the revert of a
\* target that has paid.  A target that is paused reverts too.  A stall or a
\* lost receipt says nothing.
Send(t, answer, landed) ==
  /\ \/ answer = "claimed" /\ (landed <=> t \notin claimed) /\ UNCHANGED faults
     \/ answer = "terminal" /\ ~landed /\ t \notin claimed /\ Fault
     \/ answer = "retry" /\ (landed => t \notin claimed) /\ Fault
  /\ claimed' = IF landed THEN claimed \cup {t} ELSE claimed
  /\ UNCHANGED final
  /\ Goto(t, "send", answer)

\* What was paid is released, what cannot be or is too old is given up; neither
\* is looked at again.
Apply ==
  /\ pc = "settle" /\ pc' = "scan"
  /\ \A t \in Txs : attempt[t] \notin Steps
  /\ LET tried == {t \in Txs : attempt[t] # "idle"}
         aged == {t \in tried \cap old : attempt[t] = "notready"}
         paid == {t \in tried : attempt[t] = "claimed"}
         givenUp == {t \in tried : attempt[t] = "terminal"} \cup aged
         finished == paid \cup givenUp
     IN  /\ seen' = Remove(seen, finished)
         /\ done' \in Remember(done, finished, DoneCap)
         /\ due' = due \ tried
         /\ old' = old \ finished
         /\ released' = released \cup paid
         /\ writtenOff' = writtenOff \cup givenUp
  /\ attempt' = [t \in Txs |-> "idle"]
  /\ UNCHANGED <<chainVars, targetVars, faults, cursorVars, anchor, undone>>
-----------------------------------------------------------------------------
Tick == Discover \/ DiscoverFails \/ Save \/ SaveFails \/ Batch \/ Apply

Attempt(t) ==
  \/ \E blind \in BOOLEAN : Check(t, blind)
  \/ \E answer \in {"ready", "notready", "refused"} : Prove(t, answer)
  \/ \E answer \in Outcomes \ {"notready"}, landed \in BOOLEAN : Send(t, answer, landed)

Next ==
  \/ Mine \/ Finalize \/ Reorg \/ Start \/ Crash \/ Tick
  \/ \E t \in Txs : \/ Attest(t) \/ AnyoneClaims(t) \/ Attempt(t)
                    \/ Elapse(t) \/ GrowOld(t)

Spec == Init /\ [][Next]_vars

\* The worker runs on and restarts, its retries come due, proof-gen keeps up.
Fairness ==
  /\ WF_vars(Start \/ Tick \/ \E t \in Txs : Attempt(t))
  /\ WF_vars(\E t \in Txs : Attest(t))
  /\ WF_vars(\E t \in Txs : Elapse(t))

FairSpec == Spec /\ Fairness
-----------------------------------------------------------------------------
\* Nothing behind the saved cursor is lost in silence: a lock that a restart
\* would no longer scan is paid, or the worker has given it up and said so, or
\* it had seen it paid before a reorganisation took the payment back.  An
\* eviction gives up the evicted lock and no other, and a payment the worker
\* did not see is claimed again.
LocksAccountedFor ==
  saved # NoBlock =>
    \A t \in Locks : BlockOf[t] \in (origin + 1) .. saved
                       => t \in claimed \cup writtenOff \cup undone

\* Once a cursor is saved every lock confirmed after it began is paid or given
\* up in the end, through a restart and retries of every step, unless the
\* worker saw it paid and the payment was reorganised away.
LocksFinish ==
  saved # NoBlock
    ~> \A t \in Locks : BlockOf[t] > origin => t \in claimed \cup writtenOff \cup undone
=============================================================================
