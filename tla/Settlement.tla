----------------------------- MODULE Settlement -----------------------------
(***************************************************************************)
(* The acknowledgment submitter of one route                               *)
(* (src/message-relayer/src/ack/mod.rs) with the history of the Outboxes   *)
(* its messages may come from (ack/routes.rs).                             *)
(*                                                                         *)
(* It scans the destination Inbox for deliveries, keeps each transaction   *)
(* in memory until what it owes on the source chain is done, and saves a   *)
(* cursor that a restart resumes from.  What a transaction owes: an        *)
(* acknowledgment for every message it executed, the relay fee for every   *)
(* message it received.  Messages that need no acknowledgment, or whose    *)
(* fee is not in the ledger, owe nothing; a route without a fee ledger is  *)
(* the case Funded = {}.                                                   *)
(*                                                                         *)
(* Both chains are the environment.  A destination block under Depth       *)
(* others is final; the source chain has a tip, which may lose what is not *)
(* yet final.  The store of cursors is configured.                         *)
(***************************************************************************)
EXTENDS PendingTxs, Sequences

CONSTANTS
  Txs,          \* destination transactions that touch the Inbox
  Msgs,         \* messages
  Outboxes,     \* Outboxes the Inbox has supported at some time
  Received,     \* [Txs -> SUBSET Msgs]: Received, Queued or Deferred logs
  Executed,     \* [Txs -> SUBSET Msgs]: MessageExecuted logs
  Home,         \* [Msgs -> Outboxes]: where each message was published
  Hinted,       \* the Outbox of the configured validator
  Ackable,      \* messages published with canAck
  Funded,       \* messages whose relay fee the ledger holds
  Oversized,    \* transactions whose proof is over the on-chain limit
  StartBlock,   \* ack.start_block, or NoBlock
  NoBlock,
  Depth,        \* confirmation_depth
  Lookback,     \* scan_lookback_blocks
  ScanSpan,     \* MAX_BLOCKS_PER_SCAN
  HistorySpan,  \* HISTORY_SCAN_BLOCKS
  QueueCap,     \* MAX_PENDING_ACKS
  DoneCap,      \* MAX_DONE_TRACKED
  PerTick,      \* MAX_ACKS_PER_TICK
  Chains,       \* the destination chains to consider, as sequences of blocks
  MaxFaults     \* bound: failed calls and writes, crashes, source
                \* reorganisations and settlements by others

Blocks == [txs : SUBSET Txs, support : SUBSET Outboxes]
TxsIn(c, low, high) == UNION {c[h].txs : h \in (low .. high) \cap DOMAIN c}
SupportIn(c, low, high) ==
  UNION {c[h].support : h \in (low .. high) \cap DOMAIN c}
\* An Outbox is supported after an odd number of support changes.
SupportedAt(c, h) ==
  {o \in Outboxes : Cardinality({g \in 1 .. h : o \in c[g].support}) % 2 = 1}

\* What an Inbox produces: each transaction once, a message only from an
\* Outbox that is supported, and received before it is executed.
IsChain(c) ==
  /\ c \in Seq(Blocks)
  /\ \A h \in DOMAIN c : \A t \in c[h].txs :
       /\ t \notin TxsIn(c, 1, h - 1)
       /\ {Home[m] : m \in Received[t]} \subseteq SupportedAt(c, h - 1)
       /\ Executed[t] \subseteq UNION {Received[u] : u \in TxsIn(c, 1, h)}

ASSUME SettlementAssumption ==
  /\ IsFiniteSet(Txs)
  /\ Received \in [Txs -> SUBSET Msgs] /\ Executed \in [Txs -> SUBSET Msgs]
  /\ Home \in [Msgs -> Outboxes] /\ Hinted \in Outboxes
  /\ Ackable \subseteq Msgs /\ Funded \subseteq Msgs /\ Oversized \subseteq Txs
  /\ NoBlock \notin Nat /\ StartBlock \in Nat \cup {NoBlock}
  /\ {Depth, Lookback, MaxFaults} \subseteq Nat
  /\ {ScanSpan, HistorySpan, QueueCap, DoneCap, PerTick} \subseteq Nat \ {0}
  /\ \A c \in Chains : IsChain(c)

VARIABLES
  chain,     \* the destination chain, the blocks it will have included
  head,      \* its height
  fork,      \* the newest Depth blocks are of a branch that will be dropped
  attested,  \* transactions proof-gen can prove
  tip,       \* obligations done on the source chain at its latest block
  final,     \* the same at its finalized block
  faults,
  pc,        \* where the worker is in its tick, or "down"
  history,   \* RouteHistory: [scanned, outboxes], on disk and in memory
  seeded,    \* the hints already taken in this session
  saved,     \* the cursor on disk, or NoBlock
  origin,    \* history: where the saved cursor's line began
  lastSeen,  \* the cursor in memory
  seen,      \* PendingTxs: the transactions to settle
  due,       \* those whose next attempt is due
  done,      \* BoundedSeen
  attempt    \* the settlement attempts of this tick

destVars == <<chain, head, fork, attested>>
sourceVars == <<tip, final>>
historyVars == <<history, seeded>>
cursorVars == <<saved, origin, lastSeen>>
queueVars == <<seen, due, done, attempt>>
vars == <<destVars, sourceVars, faults, pc, historyVars, cursorVars,
          queueVars>>
-----------------------------------------------------------------------------
\* What a transaction owes on the source chain.
Acks(M) == {<<"ack", m>> : m \in M \cap Ackable}
Fees(M) == {<<"fee", m>> : m \in M \cap Funded}
Owed(t) == Acks(Executed[t]) \cup Fees(Received[t])
Obligations == Acks(Msgs) \cup Fees(Msgs)
Settled(t) == Owed(t) \subseteq final

Confirmed == Max({0, head - Depth})
\* What the RPC shows up to a height.  On a branch that will be dropped the
\* unconfirmed blocks are empty.
Shown(h) == IF fork THEN Min({h, Confirmed}) ELSE h
ConfirmedTxs == TxsIn(chain, 1, Confirmed)
BlockOf(t) == CHOOSE h \in DOMAIN chain : t \in chain[h].txs
-----------------------------------------------------------------------------
\* The steps of one attempt, and what it may answer.
Steps == {"resolve", "prove", "acks", "fees", "verify"}
Outcomes == {"acknowledged", "terminal", "notready", "rejected", "failed"}
Idle == [step |-> "idle", authorities |-> {}, claims |-> {}, failure |-> FALSE]
Attempts == [step : {"idle"} \cup Steps \cup Outcomes,
             authorities : SUBSET Outboxes, claims : SUBSET Msgs,
             failure : BOOLEAN]

NoHistory == [scanned |-> <<>>, outboxes |-> {}]

Fault == faults < MaxFaults /\ faults' = faults + 1

TypeOK ==
  /\ chain \in Chains /\ head \in 0 .. Len(chain) /\ fork \in BOOLEAN
  /\ attested \subseteq Txs
  /\ final \subseteq tip /\ tip \subseteq Obligations
  /\ faults \in 0 .. MaxFaults
  /\ pc \in {"down", "hints", "forward", "backfill", "scan", "save", "batch",
             "settle"}
  /\ history.outboxes \subseteq Outboxes
  /\ history.scanned = <<>> \/ history.scanned \in Nat \X Nat
  /\ seeded \subseteq {"inbox", "validator"}
  /\ saved \in Nat \cup {NoBlock} /\ origin \in Nat /\ lastSeen \in Nat
  /\ seen \in [Txs -> Nat] /\ due \subseteq Txs /\ done \subseteq Txs
  /\ attempt \in [Txs -> Attempts]

Init ==
  /\ chain \in Chains /\ head = 0 /\ fork = FALSE /\ attested = {} /\ tip = {} /\ final = {}
  /\ faults = 0 /\ pc = "down"
  /\ history = NoHistory /\ seeded = {}
  /\ saved = NoBlock /\ origin = 0 /\ lastSeen = 0
  /\ seen = Untracked(Txs) /\ due = {} /\ done = {}
  /\ attempt = [t \in Txs |-> Idle]
-----------------------------------------------------------------------------
(***************************************************************************)
(* The destination chain.                                                  *)
(***************************************************************************)
\* A block comes, and the unconfirmed ones may change their branch.
Mine ==
  /\ head < Len(chain)
  /\ head' = head + 1
  /\ fork' \in BOOLEAN
  /\ UNCHANGED <<chain, attested, sourceVars, faults, pc,
                 historyVars, cursorVars, queueVars>>

\* The block of a transaction is attested: proof-gen can prove it.
Attest(t) ==
  /\ t \in ConfirmedTxs \ attested
  /\ attested' = attested \cup {t}
  /\ UNCHANGED <<chain, head, fork, sourceVars, faults, pc,
                 historyVars, cursorVars, queueVars>>

(***************************************************************************)
(* The source chain.  Anyone may settle what a proof shows: another        *)
(* submitter, or a transaction of ours that nobody waits for any more.     *)
(***************************************************************************)
AnyoneSettles(t, o) ==
  /\ t \in attested /\ o \in Owed(t) \ tip
  /\ Fault
  /\ tip' = tip \cup {o}
  /\ UNCHANGED <<destVars, final, pc, historyVars, cursorVars, queueVars>>

Finalize ==
  /\ final # tip
  /\ final' = tip
  /\ UNCHANGED <<destVars, tip, faults, pc, historyVars, cursorVars,
                 queueVars>>

SourceReorg ==
  /\ Fault
  /\ tip # final
  /\ \E lost \in (SUBSET (tip \ final)) \ {{}} : tip' = tip \ lost
  /\ UNCHANGED <<destVars, final, pc, historyVars, cursorVars,
                 queueVars>>
-----------------------------------------------------------------------------
(***************************************************************************)
(* Starting and stopping.                                                  *)
(***************************************************************************)
ResumeCursor ==
  CASE saved # NoBlock -> Max({0, saved - Lookback})
    [] saved = NoBlock /\ StartBlock # NoBlock -> Max({0, StartBlock - 1})
    [] OTHER -> head

Start ==
  /\ pc = "down"
  /\ lastSeen' = ResumeCursor
  /\ origin' = IF saved = NoBlock THEN ResumeCursor ELSE origin
  /\ pc' = "hints"
  /\ UNCHANGED <<destVars, sourceVars, faults, historyVars, saved,
                 queueVars>>

Crash ==
  /\ pc # "down" /\ Fault
  /\ pc' = "down" /\ seeded' = {}
  /\ seen' = Untracked(Txs) /\ due' = {} /\ done' = {}
  /\ attempt' = [t \in Txs |-> Idle]
  /\ UNCHANGED <<destVars, sourceVars, history, cursorVars>>
-----------------------------------------------------------------------------
(***************************************************************************)
(* The history of support.  A range is read whole, or halved until it is;  *)
(* what it adds is written before it is used.                              *)
(***************************************************************************)
AtWork == UNCHANGED <<destVars, sourceVars>>
HistoryOnly == AtWork /\ UNCHANGED <<cursorVars, queueVars>>

\* seed and seed_validator: support as it is now, once each in a session.  A
\* hint that cannot be read is tried again in the next tick.
Hints(read) ==
  /\ pc = "hints"
  /\ read \subseteq {"inbox", "validator"} \ seeded
  /\ IF read \cup seeded = {"inbox", "validator"} THEN faults' = faults ELSE Fault
  /\ history' = [history EXCEPT !.outboxes =
       @ \cup (IF "inbox" \in read THEN SupportedAt(chain, Shown(head)) ELSE {})
         \cup (IF "validator" \in read THEN {Hinted} ELSE {})]
  /\ seeded' = seeded \cup read
  /\ pc' = "forward"
  /\ HistoryOnly

\* What is left of a span when it is halved again and again.
Halvings(d) == {h \in 0 .. d : \E k \in 0 .. d : h = d \div (2 ^ k)}
Learnt(low, high, scanned) ==
  [scanned |-> scanned,
   outboxes |-> history.outboxes \cup SupportIn(chain, low, Shown(high))]

\* Mutant: the whole range counts as read when only its newer half was.
ScanFirstWhole(d) ==
  /\ pc = "forward" /\ history.scanned = <<>>
  /\ LET span == Min({Confirmed, HistorySpan - 1})
     IN  /\ d \in Halvings(span)
         /\ history' = Learnt(Confirmed - d, Confirmed, <<Confirmed - span, Confirmed>>)
  /\ pc' = "scan"
  /\ UNCHANGED <<seeded, faults>> /\ HistoryOnly

\* Nothing is scanned yet: the newest blocks, down from the confirmed one.
ScanFirst(d) ==
  /\ pc = "forward" /\ history.scanned = <<>>
  /\ d \in Halvings(Min({Confirmed, HistorySpan - 1}))
  /\ history' = Learnt(Confirmed - d, Confirmed, <<Confirmed - d, Confirmed>>)
  /\ pc' = "scan"
  /\ UNCHANGED <<seeded, faults>> /\ HistoryOnly

\* The blocks confirmed since, first: old history must not delay new ones.
ScanForward(d) ==
  /\ pc = "forward" /\ history.scanned # <<>>
  /\ LET low == history.scanned[1]
         high == history.scanned[2]
         to == Min({Confirmed, high + HistorySpan})
     IN  IF high < Confirmed
         THEN /\ d \in Halvings(to - (high + 1))
              /\ history' = Learnt(high + 1, high + 1 + d, <<low, high + 1 + d>>)
         ELSE d = 0 /\ UNCHANGED history
  /\ pc' = "backfill"
  /\ UNCHANGED <<seeded, faults>> /\ HistoryOnly

\* Mutant: the range may begin below the first block.
ScanBackwardsUnderflow(d) ==
  /\ pc = "backfill"
  /\ LET low == history.scanned[1]
         high == history.scanned[2]
     IN  IF low > 0
         THEN /\ d \in Halvings(HistorySpan - 1)
              /\ history' = Learnt(low - 1 - d, low - 1, <<low - 1 - d, high>>)
         ELSE d = 0 /\ UNCHANGED history
  /\ pc' = "scan"
  /\ UNCHANGED <<seeded, faults>> /\ HistoryOnly

\* Mutant: only blocks newer than the first scan are read.
ScanBackwardsNever(d) ==
  /\ pc = "backfill" /\ d = 0
  /\ pc' = "scan"
  /\ UNCHANGED <<historyVars, faults>> /\ HistoryOnly

\* Then one range further back, towards genesis.
ScanBackwards(d) ==
  /\ pc = "backfill"
  /\ LET low == history.scanned[1]
         high == history.scanned[2]
         from == Max({0, low - HistorySpan})
     IN  IF low > 0
         THEN /\ d \in Halvings(low - 1 - from)
              /\ history' = Learnt(low - 1 - d, low - 1, <<low - 1 - d, high>>)
         ELSE d = 0 /\ UNCHANGED history
  /\ pc' = "scan"
  /\ UNCHANGED <<seeded, faults>> /\ HistoryOnly

\* A read or the write of the file fails: the range is scanned again later,
\* and the tick goes on.
HistoryFails ==
  /\ pc \in {"forward", "backfill"} /\ Fault
  /\ pc' = "scan"
  /\ UNCHANGED historyVars /\ HistoryOnly
-----------------------------------------------------------------------------
(***************************************************************************)
(* Discovery: discover_delivered.                                          *)
(***************************************************************************)
UpTo == Min({Confirmed, lastSeen + ScanSpan})
InRange == TxsIn(chain, lastSeen + 1, Shown(UpTo))
Fresh == InRange \ (done \cup Tracked(seen))

\* The first free places go to the transactions whose logs come first, in an
\* order the RPC chooses; the cursor stops before the first one left out.
Admissions ==
  LET room == Max({0, QueueCap - Cardinality(Tracked(seen))})
  IN  {A \in SUBSET Fresh : Cardinality(A) = Min({room, Cardinality(Fresh)})}
ScannedTo(A) ==
  Min({UpTo} \cup {BlockOf(t) - 1 : t \in Fresh \ A})

Discover(A) ==
  /\ pc = "scan"
  /\ IF Confirmed <= lastSeen
     THEN A = {} /\ UNCHANGED <<lastSeen, seen, due>>
     ELSE /\ A \in Admissions
          /\ seen' = Insert(seen, A)
          /\ due' = due \cup A
          /\ lastSeen' = ScannedTo(A)
  /\ pc' = "save"
  /\ AtWork /\ UNCHANGED <<faults, historyVars, saved, origin, done, attempt>>

\* The RPC fails, or one of its logs is malformed: nothing is admitted, and
\* the cursor is not saved.
DiscoverFails ==
  /\ pc = "scan" /\ Fault
  /\ pc' = "batch"
  /\ AtWork /\ UNCHANGED <<historyVars, cursorVars, queueVars>>

\* Mutant: the cursor in memory is saved as it is.
SavedCursorAhead == lastSeen

SavedCursor == HoldBack(lastSeen, {BlockOf(t) : t \in Tracked(seen)})

Save ==
  /\ pc = "save"
  /\ saved' = SavedCursor
  /\ pc' = "batch"
  /\ AtWork /\ UNCHANGED <<faults, historyVars, origin, lastSeen, queueVars>>

SaveFails ==
  /\ pc = "save" /\ Fault
  /\ pc' = "batch"
  /\ AtWork /\ UNCHANGED <<historyVars, cursorVars, queueVars>>
-----------------------------------------------------------------------------
(***************************************************************************)
(* Settlement: process_pending and acknowledge_tx.  The attempts of a      *)
(* batch run side by side; their results are applied when all are in.      *)
(***************************************************************************)
Batch(B) ==
  /\ pc = "batch"
  /\ B \in Ready(seen, due, PerTick)
  /\ attempt' = [t \in Txs |-> IF t \in B THEN [Idle EXCEPT !.step = "resolve"]
                                          ELSE Idle]
  /\ pc' = IF B = {} THEN "hints" ELSE "settle"
  /\ AtWork /\ UNCHANGED <<faults, historyVars, cursorVars, seen, due, done>>

Goto(t, a) ==
  /\ attempt' = [attempt EXCEPT ![t] = a]
  /\ AtWork /\ UNCHANGED <<pc, historyVars, cursorVars, seen, due, done>>
GotoStep(t, step) == Goto(t, [attempt[t] EXCEPT !.step = step])
At(t, step) == pc = "settle" /\ attempt[t].step = step

\* The two reads of the source chain, at its finalized block.  An executed
\* message whose Outbox is not known, or whose record cannot be read, is a
\* failure, never a message without an acknowledgment.
Unacknowledged(t) == {m \in Executed[t] \cap Ackable : <<"ack", m>> \notin final}
Unroutable(t) == {m \in Executed[t] : Home[m] \notin history.outboxes}
Unclaimed(M) == {m \in M \cap Funded : <<"fee", m>> \notin final}

\* routes::validators and relay_claimable_ids.  lost: the messages whose
\* record the RPC failed to give; blind: the read of the ledger failed, and
\* every fee is tried.
Resolve(t, lost, blind) ==
  /\ At(t, "resolve")
  /\ lost \subseteq Executed[t]
  /\ IF lost = {} /\ ~blind THEN faults' = faults ELSE Fault
  /\ LET unknown == Unroutable(t) \cup lost
         authorities == {Home[m] : m \in Unacknowledged(t) \ unknown}
         claims == IF blind THEN Received[t] ELSE Unclaimed(Received[t])
     IN  Goto(t, [step |-> CASE authorities \cup claims # {} -> "prove"
                             [] authorities \cup claims = {} /\ unknown # {} -> "failed"
                             [] OTHER -> "terminal",
                  authorities |-> authorities, claims |-> claims,
                  failure |-> unknown # {}])

\* proof_by_tx.  A proof that is not there yet, or is refused, does not hide
\* the failure of a route.
ProofAnswer(t, answer) ==
  CASE answer = "ready" /\ t \in Oversized -> "terminal"
    [] answer = "ready" /\ t \notin Oversized -> "acks"
    [] answer \in {"notready", "rejected"} /\ ~attempt[t].failure -> answer
    [] OTHER -> "failed"

Prove(t, answer) ==
  /\ At(t, "prove")
  /\ \/ answer = "ready" /\ t \in attested /\ UNCHANGED faults
     \/ answer = "notready" /\ t \notin attested /\ UNCHANGED faults
     \/ answer \in {"rejected", "error"} /\ Fault
  /\ GotoStep(t, ProofAnswer(t, answer))

\* One submitAcknowledgment per authority, one claimDelivery per message:
\* each lands or not, whatever its receipt says.
Submit(t, want, landed, fails, next) ==
  /\ landed \subseteq want
  /\ tip' = tip \cup landed
  /\ IF landed = want /\ ~fails THEN faults' = faults ELSE Fault
  /\ attempt' = [attempt EXCEPT ![t].step = next, ![t].failure = @ \/ fails]
  /\ UNCHANGED <<destVars, final, pc, historyVars, cursorVars, seen,
                 due, done>>

SubmitAcks(t, landed, fails) ==
  /\ At(t, "acks")
  /\ Submit(t, Acks({m \in Executed[t] : Home[m] \in attempt[t].authorities}),
            landed, fails, "fees")

\* The claims are sent whatever became of the acknowledgments.
SubmitFees(t, landed, fails) ==
  /\ At(t, "fees")
  /\ Submit(t, Fees(attempt[t].claims), landed, fails, "verify")

\* Only the finalized source state releases the transaction.
Verify(t, unread) ==
  /\ At(t, "verify")
  /\ IF unread THEN Fault ELSE faults' = faults
  /\ LET open == \/ Unacknowledged(t) # {} \/ Unroutable(t) # {}
                 \/ Unclaimed(attempt[t].claims) # {}
     IN  GotoStep(t, IF attempt[t].failure \/ unread \/ open
                     THEN "failed" ELSE "acknowledged")

\* Finished transactions leave the queue, the others wait for their retry.
Apply(D) ==
  /\ pc = "settle"
  /\ \A t \in Txs : attempt[t].step \notin Steps
  /\ LET tried == {t \in Txs : attempt[t].step # "idle"}
         finished == {t \in tried : attempt[t].step \in {"acknowledged", "terminal"}}
     IN  /\ seen' = Remove(seen, finished)
         /\ D \in Remember(done, finished, DoneCap)
         /\ done' = D
         /\ due' = due \ tried
  /\ attempt' = [t \in Txs |-> Idle]
  /\ pc' = "hints"
  /\ AtWork /\ UNCHANGED <<faults, historyVars, cursorVars>>

\* The retry time of a transaction comes.
Elapse(t) ==
  /\ t \in Tracked(seen) \ due /\ attempt[t] = Idle
  /\ due' = due \cup {t}
  /\ AtWork /\ UNCHANGED <<faults, pc, historyVars, cursorVars, seen, done, attempt>>
-----------------------------------------------------------------------------
Environment ==
  \/ Mine \/ Finalize \/ SourceReorg
  \/ \E t \in Txs : Attest(t)
  \/ \E t \in Txs, o \in Obligations : AnyoneSettles(t, o)

Tick ==
  \/ \E read \in SUBSET {"inbox", "validator"} : Hints(read)
  \/ \E d \in 0 .. HistorySpan : ScanFirst(d) \/ ScanForward(d) \/ ScanBackwards(d)
  \/ \E A \in SUBSET Txs : Discover(A)
  \/ Save
  \/ \E B \in SUBSET Txs : Batch(B)
  \/ \E D \in SUBSET Txs : Apply(D)
  \/ HistoryFails \/ DiscoverFails \/ SaveFails

Attempt(t) ==
  \/ \E lost \in SUBSET Msgs, blind \in BOOLEAN : Resolve(t, lost, blind)
  \/ \E answer \in {"ready", "notready", "rejected", "error"} : Prove(t, answer)
  \/ \E landed \in SUBSET Obligations, fails \in BOOLEAN :
       SubmitAcks(t, landed, fails) \/ SubmitFees(t, landed, fails)
  \/ \E unread \in BOOLEAN : Verify(t, unread)

Next ==
  \/ Environment \/ Start \/ Crash \/ Tick
  \/ \E t \in Txs : Attempt(t) \/ Elapse(t)

Spec == Init /\ [][Next]_vars

\* The worker runs on, restarts, and is woken for its retries; proof-gen and
\* the finality of the source chain keep up.  Nothing is promised of either
\* chain's growth, and the faults that happen are finitely many.
Fairness ==
  /\ WF_vars(Start) /\ WF_vars(Tick) /\ WF_vars(Finalize)
  /\ \A t \in Txs : WF_vars(Attempt(t)) /\ WF_vars(Elapse(t)) /\ WF_vars(Attest(t))

FairSpec == Spec /\ Fairness
-----------------------------------------------------------------------------
\* Nothing behind the saved cursor is lost: whatever the queue, the crashes,
\* the failed calls and the reorganisations, a delivery that a restart would
\* no longer scan is settled in the finalized state of the source chain, or
\* its proof can never be accepted.
NothingForgotten ==
  saved # NoBlock =>
    \A t \in ConfirmedTxs \ Oversized :
      BlockOf(t) \in (origin + 1) .. saved => Settled(t)

\* The history never claims a block it has not read: every Outbox that a
\* block of the scanned range made or unmade supported is known, though the
\* range grows at both ends, in halves, through crashes and failed writes.
HistoryComplete ==
  history.scanned # <<>> =>
    SupportIn(chain, history.scanned[1], history.scanned[2])
      \subseteq history.outboxes

\* Every delivery beyond a saved cursor is settled in the end: a full queue,
\* an Outbox not known yet, a proof not ready, a submission that is lost or
\* reorganised away, a crash, only delay it.
EventuallySettled ==
  \A t \in Txs \ Oversized :
    (saved # NoBlock /\ t \in ConfirmedTxs /\ BlockOf(t) > saved) ~> Settled(t)
=============================================================================
