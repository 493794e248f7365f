-------------------------- MODULE SettlementProofs --------------------------
(***************************************************************************)
(* For every destination chain, set of messages, Outboxes, cap, span and   *)
(* cursor setting: the history of support claims no block it has not read, *)
(* and no delivery behind the acknowledgment submitter's saved cursor is   *)
(* left unsettled.                                                         *)
(***************************************************************************)
EXTENDS Settlement, SetLemmas

OnChain(t) == \E h \in DOMAIN chain : t \in chain[h].txs

(* What a transaction that left the queue must have reached. *)
Released(t) == Settled(t) \/ t \in Oversized

Histories == [scanned : {<<>>} \cup (Nat \X Nat), outboxes : SUBSET Outboxes]

(* The history: HistoryComplete with what the next range relies on.  Only  *)
(* confirmed blocks are in it, which no branch of the chain takes back,    *)
(* and older blocks are read only once there is a range to extend.         *)
HistoryInv ==
  /\ history \in Histories
  /\ history.scanned # <<>> => /\ history.scanned[1] <= history.scanned[2]
                               /\ history.scanned[2] <= Confirmed
  /\ pc = "backfill" => history.scanned # <<>>
  /\ HistoryComplete

(* The attempts of a tick: a fee that is not among the claims an attempt   *)
(* works on is paid, and an outcome that releases the transaction is true. *)
AttemptInv ==
  \A t \in Txs :
    /\ attempt[t].step \in {"prove", "acks", "fees", "verify"} =>
         \A m \in Received[t] \cap Funded :
           m \in attempt[t].claims \/ <<"fee", m>> \in final
    /\ attempt[t].step \in {"acknowledged", "terminal"} => Released(t)

(* The queue and the cursors: what is behind the cursor in memory is       *)
(* settled or still in the queue, which holds the saved cursor back.       *)
QueueInv ==
  /\ \A t \in Tracked(seen) : OnChain(t)
  /\ \A t \in done : Released(t)
  /\ pc # "down" =>
       \A t \in Txs : OnChain(t) /\ BlockOf(t) \in (origin + 1) .. lastSeen
                        => Released(t) \/ t \in Tracked(seen)
  /\ saved # NoBlock =>
       \A t \in Txs : OnChain(t) /\ BlockOf(t) \in (origin + 1) .. saved
                        => Released(t)

SettlementInv == TypeOK /\ HistoryInv /\ AttemptInv /\ QueueInv

-----------------------------------------------------------------------------
(* The constants, as the provers like them. *)
LEMMA Constants ==
  /\ IsFiniteSet(Txs)
  /\ Received \in [Txs -> SUBSET Msgs] /\ Executed \in [Txs -> SUBSET Msgs]
  /\ Home \in [Msgs -> Outboxes] /\ Hinted \in Outboxes
  /\ Ackable \subseteq Msgs /\ Funded \subseteq Msgs /\ Oversized \subseteq Txs
  /\ Depth \in Nat /\ Lookback \in Nat /\ MaxFaults \in Nat
  /\ ScanSpan \in Nat \ {0} /\ HistorySpan \in Nat \ {0}
  /\ QueueCap \in Nat \ {0} /\ DoneCap \in Nat \ {0} /\ PerTick \in Nat \ {0}
  /\ NoBlock \notin Nat /\ StartBlock \in Nat \cup {NoBlock}
  BY SettlementAssumption

(* The chain is a sequence of blocks of known transactions and outboxes. *)
LEMMA ChainType ==
  ASSUME TypeOK
  PROVE  /\ DOMAIN chain = 1 .. Len(chain) /\ Len(chain) \in Nat
         /\ \A h \in DOMAIN chain : /\ chain[h].txs \subseteq Txs
                                    /\ chain[h].support \subseteq Outboxes
  <1>1. chain \in Seq(Blocks)
    BY SettlementAssumption DEF TypeOK, IsChain
  <1>2. DOMAIN chain = 1 .. Len(chain) /\ Len(chain) \in Nat
    BY <1>1
  <1>3. \A h \in DOMAIN chain : chain[h] \in Blocks
    BY <1>1
  <1> QED
    BY <1>2, <1>3 DEF Blocks

(* Confirmed, the heights the RPC shows and the cursors are block numbers. *)
LEMMA HeightFacts ==
  ASSUME TypeOK
  PROVE  /\ Confirmed \in Nat /\ Confirmed <= head /\ head \in Nat
         /\ Confirmed = IF 0 >= head - Depth THEN 0 ELSE head - Depth
         /\ \A h \in Nat : h <= Confirmed => Shown(h) = h
         /\ UpTo \in Nat /\ UpTo <= Confirmed
  <1>1. head \in Nat /\ lastSeen \in Nat
    BY ChainType DEF TypeOK
  <1>2. Confirmed = IF 0 >= head - Depth THEN 0 ELSE head - Depth
    BY <1>1, Constants, MaxOfTwo DEF Confirmed
  <1>3. Confirmed \in Nat /\ Confirmed <= head
    BY <1>1, <1>2, Constants
  <1>4. ASSUME NEW h \in Nat, h <= Confirmed PROVE Shown(h) = h
    <2>1. Min({h, Confirmed}) = h
      BY <1>3, <1>4, MinOfTwo
    <2> QED
      BY <2>1 DEF Shown
  <1>5. lastSeen + ScanSpan \in Nat
    BY <1>1, Constants
  <1>6. UpTo = IF Confirmed <= lastSeen + ScanSpan THEN Confirmed
               ELSE lastSeen + ScanSpan
    BY <1>3, <1>5, MinOfTwo DEF UpTo
  <1> QED
    BY <1>1, <1>2, <1>3, <1>4, <1>5, <1>6

(* A restart resumes at or below the cursor that was saved. *)
LEMMA ResumeFacts ==
  ASSUME TypeOK
  PROVE  ResumeCursor \in Nat /\ (saved # NoBlock => ResumeCursor <= saved)
  <1>1. head \in Nat /\ saved \in Nat \cup {NoBlock}
    BY HeightFacts DEF TypeOK
  <1>2. CASE saved # NoBlock
    <2>1. saved \in Nat /\ ResumeCursor = Max({0, saved - Lookback})
      BY <1>1, <1>2 DEF ResumeCursor
    <2> QED
      BY <2>1, Constants, MaxOfTwo
  <1>3. CASE saved = NoBlock /\ StartBlock # NoBlock
    <2>1. StartBlock \in Nat /\ ResumeCursor = Max({0, StartBlock - 1})
      BY <1>3, Constants DEF ResumeCursor
    <2> QED
      BY <1>3, <2>1, MaxOfTwo
  <1>4. CASE saved = NoBlock /\ StartBlock = NoBlock
    BY <1>1, <1>4 DEF ResumeCursor
  <1> QED
    BY <1>2, <1>3, <1>4

(* The block of a transaction is one that holds it. *)
LEMMA BlockOfProperty ==
  ASSUME TypeOK, NEW t, OnChain(t)
  PROVE  /\ BlockOf(t) \in DOMAIN chain /\ t \in chain[BlockOf(t)].txs
         /\ BlockOf(t) \in Nat \ {0}
  <1>1. BlockOf(t) \in DOMAIN chain /\ t \in chain[BlockOf(t)].txs
    BY Zenon DEF OnChain, BlockOf
  <1> QED
    BY <1>1, ChainType

(* What a scan of a range finds is on the chain, and all of it. *)
LEMMA TxsInProperty ==
  ASSUME TypeOK, NEW a, NEW b
  PROVE  /\ TxsIn(chain, a, b) \subseteq Txs
         /\ \A t \in TxsIn(chain, a, b) : OnChain(t)
         /\ \A t : OnChain(t) /\ BlockOf(t) \in a .. b => t \in TxsIn(chain, a, b)
  <1>1. \A t : t \in TxsIn(chain, a, b)
                 <=> \E h \in (a .. b) \cap DOMAIN chain : t \in chain[h].txs
    BY DEF TxsIn
  <1>2. TxsIn(chain, a, b) \subseteq Txs
    BY <1>1, ChainType
  <1>3. \A t \in TxsIn(chain, a, b) : OnChain(t)
    BY <1>1 DEF OnChain
  <1>4. ASSUME NEW t, OnChain(t), BlockOf(t) \in a .. b
        PROVE  t \in TxsIn(chain, a, b)
    BY <1>1, <1>4, BlockOfProperty
  <1> QED
    BY <1>2, <1>3, <1>4

(* A range of support is what its two parts hold. *)
LEMMA SupportInSplit ==
  ASSUME NEW c, NEW a \in Int, NEW b \in Int, NEW d \in Int,
         DOMAIN c \subseteq Int
  PROVE  SupportIn(c, a, d) \subseteq SupportIn(c, a, b) \cup SupportIn(c, b + 1, d)
  <1>1. \A x, y, o : o \in SupportIn(c, x, y)
                       <=> \E h \in (x .. y) \cap DOMAIN c : o \in c[h].support
    BY DEF SupportIn
  <1>2. \A h \in DOMAIN c : h \in a .. d => h \in a .. b \/ h \in (b + 1) .. d
    OBVIOUS
  <1> QED
    BY <1>1, <1>2

(* The events of a range name known outboxes. *)
LEMMA SupportInType ==
  ASSUME TypeOK, NEW a, NEW b
  PROVE  SupportIn(chain, a, b) \subseteq Outboxes
  BY ChainType DEF SupportIn

(* What is left of a span that is halved is at most the span. *)
LEMMA HalvingsProperty ==
  ASSUME NEW n \in Nat, NEW d \in Halvings(n)
  PROVE  d \in Nat /\ d <= n
  BY DEF Halvings

(* Settled: both kinds of obligation are done. *)
LEMMA SettledProperty ==
  ASSUME NEW t \in Txs
  PROVE  Settled(t) <=> /\ Unacknowledged(t) = {}
                        /\ \A m \in Received[t] \cap Funded : <<"fee", m>> \in final
  BY DEF Settled, Owed, Acks, Fees, Unacknowledged

(* What is final stays final, and what is released stays released. *)
LEMMA ReleasedStays ==
  ASSUME final \subseteq final', NEW t, Released(t)
  PROVE  Released(t)'
  BY DEF Released, Settled, Owed

-----------------------------------------------------------------------------
(* A worker that has not started has read, queued and saved nothing. *)
LEMMA InitSettlementInv == Init => SettlementInv
  <1> SUFFICES ASSUME Init PROVE SettlementInv
    OBVIOUS
  <1>1. Untracked(Txs) \in [Txs -> Nat] /\ Tracked(Untracked(Txs)) = {}
    BY DEF Untracked, Tracked
  <1>2. \A t \in Txs : attempt[t] = Idle
    BY DEF Init
  <1>3. TypeOK
    <2>1. attempt \in [Txs -> Attempts]
      BY DEF Init, Idle, Attempts
    <2>2. chain \in Seq(Blocks)
      BY SettlementAssumption DEF Init, IsChain
    <2>3. 0 \in 0 .. Len(chain)
      BY <2>2
    <2>4. fork \in BOOLEAN
      BY Zenon DEF Init
    <2> QED
      BY <1>1, <2>1, <2>3, <2>4, Constants DEF Init, TypeOK, NoHistory
  <1>4. HistoryInv
    BY DEF Init, HistoryInv, Histories, HistoryComplete, NoHistory
  <1>5. AttemptInv
    BY <1>2 DEF AttemptInv, Idle
  <1>6. QueueInv
    BY <1>1 DEF Init, QueueInv
  <1> QED
    BY <1>3, <1>4, <1>5, <1>6 DEF SettlementInv

(* The history is typed as the record it is; TypeOK says the same of its   *)
(* fields.                                                                 *)
LEMMA HistoryType ==
  ASSUME NEW h \in Histories
  PROVE  /\ h.outboxes \subseteq Outboxes
         /\ h.scanned = <<>> \/ h.scanned \in Nat \X Nat
  BY DEF Histories

(* A fault stays within the bound on faults. *)
LEMMA FaultType ==
  ASSUME TypeOK, faults' = faults \/ Fault
  PROVE  faults' \in 0 .. MaxFaults
  BY Constants DEF TypeOK, Fault

(* Of a step that leaves the queue and the cursors alone, it is enough     *)
(* that what is final stays final.                                         *)
LEMMA QueueFrame ==
  ASSUME QueueInv, chain' = chain, final \subseteq final',
         pc' = "down" <=> pc = "down", UNCHANGED <<cursorVars, seen, done>>
  PROVE  QueueInv'
  <1>1. \A t : OnChain(t)' <=> OnChain(t)
    BY DEF OnChain
  <1>2. \A t : BlockOf(t)' = BlockOf(t)
    BY DEF BlockOf
  <1>3. \A t : Released(t) => Released(t)'
    BY ReleasedStays
  <1> QED
    BY <1>1, <1>2, <1>3 DEF QueueInv, cursorVars

(* An attempt that is left alone stays right while more becomes final. *)
LEMMA AttemptFrame ==
  ASSUME AttemptInv, attempt' = attempt, final \subseteq final'
  PROVE  AttemptInv'
  <1>1. \A t : Released(t) => Released(t)'
    BY ReleasedStays
  <1> QED
    BY <1>1 DEF AttemptInv

(* The confirmed height does not go back. *)
LEMMA DepthBelow ==
  ASSUME NEW g \in Nat, NEW h \in Nat, g <= h
  PROVE  Max({0, h - Depth}) \in Nat /\ Max({0, g - Depth}) <= Max({0, h - Depth})
  <1>1. Depth \in Nat /\ g - Depth \in Int /\ h - Depth \in Int
    BY Constants
  <1>2. /\ Max({0, g - Depth}) = IF 0 >= g - Depth THEN 0 ELSE g - Depth
        /\ Max({0, h - Depth}) = IF 0 >= h - Depth THEN 0 ELSE h - Depth
    BY <1>1, MaxOfTwo
  <1> QED
    BY <1>1, <1>2

(* The confirmed height grows with the head. *)
LEMMA ConfirmedGrows ==
  ASSUME TypeOK, head' \in Nat, head <= head'
  PROVE  Confirmed' \in Nat /\ Confirmed <= Confirmed'
  <1>1. head \in Nat
    BY HeightFacts
  <1> QED
    BY <1>1, DepthBelow, Zenon DEF Confirmed

(* A history that is left alone stays right while the head grows. *)
LEMMA HistoryFrame ==
  ASSUME TypeOK, HistoryInv, history' = history, chain' = chain,
         head' \in Nat, head <= head', pc' = "backfill" => pc = "backfill"
  PROVE  HistoryInv'
  <1>1. Confirmed \in Nat /\ Confirmed' \in Nat /\ Confirmed <= Confirmed'
    BY HeightFacts, ConfirmedGrows
  <1>2. history.scanned # <<>> => history.scanned[2] \in Nat
    <2>1. history.scanned = <<>> \/ history.scanned \in Nat \X Nat
      BY DEF TypeOK
    <2> QED
      BY <2>1
  <1>3. HistoryComplete'
    BY DEF HistoryInv, HistoryComplete
  <1> QED
    BY <1>1, <1>2, <1>3 DEF HistoryInv

-----------------------------------------------------------------------------
(* The chains: the destination grows, the source settles, finalises and    *)
(* loses what is not final.                                                *)
LEMMA EnvironmentStep ==
  ASSUME SettlementInv, Environment
  PROVE  SettlementInv'
  <1> USE DEF SettlementInv
  <1>1. /\ final \subseteq final' /\ chain' = chain
        /\ UNCHANGED <<pc, historyVars, cursorVars, queueVars>>
    <2>1. final' = final \/ final' = tip
      BY DEF Environment, Mine, Attest, AnyoneSettles, Finalize, SourceReorg,
             sourceVars
    <2>2. chain' = chain /\ UNCHANGED <<pc, historyVars, cursorVars, queueVars>>
      BY DEF Environment, Mine, Attest, AnyoneSettles, Finalize, SourceReorg,
             destVars
    <2> QED
      BY <2>1, <2>2 DEF TypeOK
  <1>2. head' \in 0 .. Len(chain) /\ head' \in Nat /\ head <= head'
    BY ChainType, HeightFacts
    DEF Environment, Mine, Attest, AnyoneSettles, Finalize, SourceReorg,
        TypeOK, destVars
  <1>3. fork' \in BOOLEAN
    <2>1. fork' \in BOOLEAN \/ fork' = fork
      BY Zenon
      DEF Environment, Mine, Attest, AnyoneSettles, Finalize, SourceReorg, destVars
    <2> QED
      BY <2>1, Zenon DEF TypeOK
  <1>4. attested' \subseteq Txs
    <2>1. attested' = attested \/ \E t \in Txs : attested' = attested \cup {t}
      BY DEF Environment, Mine, Attest, AnyoneSettles, Finalize, SourceReorg,
             destVars
    <2> QED
      BY <2>1 DEF TypeOK
  <1>5. final' \subseteq tip' /\ tip' \subseteq Obligations
    BY DEF Environment, Mine, Attest, AnyoneSettles, Finalize, SourceReorg,
           TypeOK, sourceVars
  <1>6. faults' \in 0 .. MaxFaults
    <2>1. faults' = faults \/ Fault
      BY DEF Environment, Mine, Attest, AnyoneSettles, Finalize, SourceReorg
    <2> QED
      BY <2>1, FaultType
  <1>7. TypeOK'
    BY <1>1, <1>2, <1>3, <1>4, <1>5, <1>6
    DEF TypeOK, historyVars, cursorVars, queueVars
  <1>8. HistoryInv'
    BY <1>1, <1>2, HistoryFrame DEF historyVars
  <1>9. AttemptInv'
    BY <1>1, AttemptFrame DEF queueVars
  <1>10. QueueInv'
    BY <1>1, QueueFrame DEF queueVars
  <1> QED
    BY <1>7, <1>8, <1>9, <1>10

(* A restart resumes at the saved cursor, or begins a new line. *)
LEMMA StartStep ==
  ASSUME SettlementInv, Start
  PROVE  SettlementInv'
  <1> USE DEF SettlementInv
  <1>1. /\ pc' = "hints" /\ lastSeen' = ResumeCursor
        /\ origin' = IF saved = NoBlock THEN ResumeCursor ELSE origin
        /\ UNCHANGED <<destVars, sourceVars, faults, historyVars, saved, queueVars>>
    BY DEF Start
  <1>2. /\ ResumeCursor \in Nat /\ origin \in Nat /\ saved \in Nat \cup {NoBlock}
        /\ saved # NoBlock => ResumeCursor <= saved
    BY ResumeFacts DEF TypeOK
  <1>3. TypeOK'
    BY <1>1, <1>2 DEF TypeOK, destVars, sourceVars, historyVars, queueVars
  <1>4. HistoryInv'
    BY <1>1, HeightFacts, HistoryFrame DEF historyVars, destVars
  <1>5. AttemptInv'
    BY <1>1, AttemptFrame DEF queueVars, sourceVars
  <1>6. QueueInv'
    <2>1. \A t : OnChain(t)' <=> OnChain(t)
      BY <1>1 DEF OnChain, destVars
    <2>2. \A t : BlockOf(t)' = BlockOf(t)
      BY <1>1 DEF BlockOf, destVars
    <2>3. \A t : Released(t) => Released(t)'
      BY <1>1, ReleasedStays DEF sourceVars
    <2>4. ASSUME NEW t \in Txs, OnChain(t), BlockOf(t) \in (origin' + 1) .. lastSeen'
          PROVE  Released(t)
      <3>1. BlockOf(t) \in Nat
        BY <2>4, BlockOfProperty
      <3>2. saved # NoBlock /\ saved \in Nat
        BY <1>1, <1>2, <2>4, <3>1
      <3>3. BlockOf(t) \in (origin + 1) .. saved
        BY <1>1, <1>2, <2>4, <3>1, <3>2
      <3> QED
        BY <2>4, <3>2, <3>3 DEF QueueInv
    <2> QED
      BY <1>1, <2>1, <2>2, <2>3, <2>4 DEF QueueInv, queueVars
  <1> QED
    BY <1>3, <1>4, <1>5, <1>6

(* A crash forgets the queue, the attempts and the hints, nothing on disk. *)
LEMMA CrashStep ==
  ASSUME SettlementInv, Crash
  PROVE  SettlementInv'
  <1> USE DEF SettlementInv
  <1>1. Untracked(Txs) \in [Txs -> Nat] /\ Tracked(Untracked(Txs)) = {}
    BY DEF Untracked, Tracked
  <1>2. /\ pc' = "down" /\ seeded' = {} /\ Fault
        /\ seen' = Untracked(Txs) /\ due' = {} /\ done' = {}
        /\ attempt' = [t \in Txs |-> Idle]
        /\ UNCHANGED <<destVars, sourceVars, history, cursorVars>>
    BY DEF Crash
  <1>3. TypeOK'
    <2>1. attempt' \in [Txs -> Attempts]
      BY <1>2 DEF Idle, Attempts
    <2>2. faults' \in 0 .. MaxFaults
      BY <1>2, FaultType
    <2> QED
      BY <1>1, <1>2, <2>1, <2>2 DEF TypeOK, destVars, sourceVars, cursorVars
  <1>4. HistoryInv'
    BY <1>2, HeightFacts, HistoryFrame DEF destVars
  <1>5. AttemptInv'
    BY <1>2 DEF AttemptInv, Idle
  <1>6. QueueInv'
    <2>1. \A t : OnChain(t)' <=> OnChain(t)
      BY <1>2 DEF OnChain, destVars
    <2>2. \A t : BlockOf(t)' = BlockOf(t)
      BY <1>2 DEF BlockOf, destVars
    <2>3. \A t : Released(t) => Released(t)'
      BY <1>2, ReleasedStays DEF sourceVars
    <2> QED
      BY <1>1, <1>2, <2>1, <2>2, <2>3 DEF QueueInv, cursorVars
  <1> QED
    BY <1>3, <1>4, <1>5, <1>6

-----------------------------------------------------------------------------
(* The history.  Its steps leave the queue, the cursors and both chains    *)
(* alone.                                                                  *)
LEMMA HistoryStepFrame ==
  ASSUME SettlementInv, HistoryOnly, history' \in Histories,
         seeded' \subseteq {"inbox", "validator"}, faults' = faults \/ Fault,
         pc \in {"hints", "forward", "backfill"},
         pc' \in {"forward", "backfill", "scan"}
  PROVE  /\ TypeOK' /\ AttemptInv' /\ QueueInv'
         /\ chain' = chain /\ Confirmed' = Confirmed
  <1> USE DEF SettlementInv
  <1>1. UNCHANGED <<chain, head, fork, attested, tip, final, saved, origin, lastSeen,
                    seen, due, done, attempt>>
    BY DEF HistoryOnly, AtWork, destVars, sourceVars, cursorVars, queueVars
  <1>2. faults' \in 0 .. MaxFaults
    BY FaultType
  <1>3. /\ history'.outboxes \subseteq Outboxes
        /\ history'.scanned = <<>> \/ history'.scanned \in Nat \X Nat
    BY HistoryType DEF Histories
  <1>4. TypeOK'
    BY <1>1, <1>2, <1>3 DEF TypeOK
  <1>5. AttemptInv'
    BY <1>1, AttemptFrame
  <1>6. QueueInv'
    <2>1. pc # "down" /\ pc' # "down"
      OBVIOUS
    <2> QED
      BY <1>1, <2>1, QueueFrame DEF cursorVars
  <1> QED
    BY <1>1, <1>4, <1>5, <1>6 DEF Confirmed

(* A hint adds Outboxes and no block. *)
LEMMA HintsStep ==
  ASSUME SettlementInv, NEW read, Hints(read)
  PROVE  SettlementInv'
  <1> USE DEF SettlementInv
  <1> DEFINE added == (IF "inbox" \in read THEN SupportedAt(chain, Shown(head)) ELSE {})
                        \cup (IF "validator" \in read THEN {Hinted} ELSE {})
  <1>1. /\ pc = "hints" /\ pc' = "forward" /\ HistoryOnly
        /\ read \subseteq {"inbox", "validator"} /\ seeded' = seeded \cup read
        /\ faults' = faults \/ Fault
    BY DEF Hints
  <1>2. added \subseteq Outboxes
    BY Constants DEF SupportedAt
  <1>3. history' = [history EXCEPT !.outboxes = @ \cup added]
    BY DEF Hints, HistoryInv
  <1> HIDE DEF added
  <1>4. /\ history' = [scanned |-> history.scanned,
                       outboxes |-> history.outboxes \cup added]
        /\ history' \in Histories
    BY <1>2, <1>3 DEF HistoryInv, Histories
  <1>5. seeded' \subseteq {"inbox", "validator"}
    BY <1>1 DEF TypeOK
  <1>6. TypeOK' /\ AttemptInv' /\ QueueInv' /\ chain' = chain /\ Confirmed' = Confirmed
    BY <1>1, <1>4, <1>5, HistoryStepFrame
  <1>7. history'.scanned = history.scanned /\ history.outboxes \subseteq history'.outboxes
    BY <1>4
  <1>8. HistoryComplete'
    BY <1>6, <1>7 DEF HistoryInv, HistoryComplete
  <1> QED
    BY <1>1, <1>4, <1>6, <1>7, <1>8 DEF HistoryInv, Histories

(* A range that reaches no further than the confirmed block is read whole, *)
(* and if it adjoins what was scanned the history stays complete.          *)
LEMMA HistoryExtends ==
  ASSUME SettlementInv, HistoryOnly, UNCHANGED <<seeded, faults>>,
         pc \in {"forward", "backfill"}, pc' \in {"backfill", "scan"},
         NEW a, NEW b \in Nat, b <= Confirmed, NEW low \in Nat, NEW high \in Nat,
         history' = Learnt(a, b, <<low, high>>),
         low <= high, high <= Confirmed,
         SupportIn(chain, low, high)
           \subseteq history.outboxes \cup SupportIn(chain, a, b)
  PROVE  SettlementInv'
  <1> USE DEF SettlementInv
  <1>1. /\ history' \in Histories /\ history'.scanned # <<>>
        /\ history'.scanned[1] = low /\ history'.scanned[2] = high
        /\ history'.outboxes = history.outboxes \cup SupportIn(chain, a, b)
    <2>1. Shown(b) = b
      BY HeightFacts
    <2>2. history' = [scanned |-> <<low, high>>,
                      outboxes |-> history.outboxes \cup SupportIn(chain, a, b)]
      BY <2>1 DEF Learnt
    <2>3. history.outboxes \subseteq Outboxes /\ SupportIn(chain, a, b) \subseteq Outboxes
      BY SupportInType DEF TypeOK
    <2> QED
      BY <2>2, <2>3 DEF Histories
  <1>2. TypeOK' /\ AttemptInv' /\ QueueInv' /\ chain' = chain /\ Confirmed' = Confirmed
    BY <1>1, HistoryStepFrame DEF TypeOK
  <1>3. HistoryComplete'
    BY <1>1, <1>2 DEF HistoryComplete
  <1> QED
    BY <1>1, <1>2, <1>3 DEF HistoryInv, Histories

(* The first scan of the outbox history. *)
LEMMA ScanFirstStep ==
  ASSUME SettlementInv, NEW d, ScanFirst(d)
  PROVE  SettlementInv'
  <1> USE DEF SettlementInv
  <1>1. /\ pc = "forward" /\ pc' = "scan" /\ HistoryOnly /\ UNCHANGED <<seeded, faults>>
        /\ d \in Halvings(Min({Confirmed, HistorySpan - 1}))
        /\ history' = Learnt(Confirmed - d, Confirmed, <<Confirmed - d, Confirmed>>)
    BY DEF ScanFirst
  <1>2. Confirmed \in Nat /\ HistorySpan - 1 \in Nat
    BY HeightFacts, Constants
  <1>3. /\ Min({Confirmed, HistorySpan - 1}) \in Nat
        /\ Min({Confirmed, HistorySpan - 1}) <= Confirmed
    BY <1>2, MinOfTwo
  <1>4. d \in Nat /\ d <= Confirmed
    <2>1. d \in Nat /\ d <= Min({Confirmed, HistorySpan - 1})
      BY <1>1, <1>3, HalvingsProperty
    <2> QED
      BY <1>2, <1>3, <2>1
  <1>5. Confirmed - d \in Nat /\ Confirmed - d <= Confirmed
    BY <1>2, <1>4
  <1> QED
    BY <1>1, <1>2, <1>5, HistoryExtends

(* The range of a scan that has begun. *)
LEMMA ScannedFacts ==
  ASSUME SettlementInv, history.scanned # <<>>
  PROVE  /\ history.scanned[1] \in Nat /\ history.scanned[2] \in Nat
         /\ history.scanned[1] <= history.scanned[2]
         /\ history.scanned[2] <= Confirmed
         /\ SupportIn(chain, history.scanned[1], history.scanned[2])
              \subseteq history.outboxes
         /\ DOMAIN chain \subseteq Int
  <1>1. history.scanned = <<>> \/ history.scanned \in Nat \X Nat
    BY DEF SettlementInv, TypeOK
  <1>2. history.scanned[1] \in Nat /\ history.scanned[2] \in Nat
    BY <1>1
  <1>3. DOMAIN chain \subseteq Int
    BY ChainType DEF SettlementInv
  <1> QED
    BY <1>2, <1>3 DEF SettlementInv, HistoryInv, HistoryComplete

(* A step that finds nothing to read. *)
LEMMA HistoryKeeps ==
  ASSUME SettlementInv, HistoryOnly, UNCHANGED history,
         seeded' \subseteq {"inbox", "validator"}, faults' = faults \/ Fault,
         pc \in {"forward", "backfill"}, pc' \in {"backfill", "scan"},
         history.scanned # <<>> \/ pc' = "scan"
  PROVE  SettlementInv'
  <1> USE DEF SettlementInv
  <1>1. history' \in Histories
    BY DEF HistoryInv, Histories
  <1>2. TypeOK' /\ AttemptInv' /\ QueueInv' /\ chain' = chain /\ Confirmed' = Confirmed
    BY <1>1, HistoryStepFrame
  <1> QED
    BY <1>2 DEF HistoryInv, HistoryComplete

(* A scan of the history forward, from what was scanned last. *)
LEMMA ScanForwardStep ==
  ASSUME SettlementInv, NEW d, ScanForward(d)
  PROVE  SettlementInv'
  <1> USE DEF SettlementInv
  <1> DEFINE low == history.scanned[1]
             high == history.scanned[2]
             to == Min({Confirmed, high + HistorySpan})
  <1>1. /\ pc = "forward" /\ pc' = "backfill" /\ HistoryOnly
        /\ UNCHANGED <<seeded, faults>> /\ history.scanned # <<>>
        /\ IF high < Confirmed
           THEN /\ d \in Halvings(to - (high + 1))
                /\ history' = Learnt(high + 1, high + 1 + d, <<low, high + 1 + d>>)
           ELSE d = 0 /\ UNCHANGED history
    BY DEF ScanForward
  <1>2. /\ low \in Nat /\ high \in Nat /\ low <= high /\ high <= Confirmed
        /\ SupportIn(chain, low, high) \subseteq history.outboxes
        /\ DOMAIN chain \subseteq Int
    BY <1>1, ScannedFacts
  <1>3. Confirmed \in Nat /\ HistorySpan \in Nat \ {0}
    BY HeightFacts, Constants
  <1> HIDE DEF low, high
  <1>4. CASE high < Confirmed
    <2>1. to \in Nat /\ to <= Confirmed /\ high + 1 <= to
      <3>1. high + HistorySpan \in Nat
        BY <1>2, <1>3
      <3>2. to = IF Confirmed <= high + HistorySpan THEN Confirmed
                 ELSE high + HistorySpan
        BY <1>3, <3>1, MinOfTwo
      <3> QED
        BY <1>2, <1>3, <1>4, <3>1, <3>2
    <2> HIDE DEF to
    <2>2. to - (high + 1) \in Nat
      BY <1>2, <2>1
    <2>3. d \in Nat /\ d <= to - (high + 1)
      BY <1>1, <1>4, <2>2, HalvingsProperty
    <2>4. high + 1 + d \in Nat /\ high + 1 + d <= Confirmed /\ low <= high + 1 + d
      BY <1>2, <1>3, <2>1, <2>3
    <2>5. SupportIn(chain, low, high + 1 + d)
            \subseteq history.outboxes \cup SupportIn(chain, high + 1, high + 1 + d)
      <3>1. low \in Int /\ high \in Int /\ high + 1 + d \in Int
        BY <1>2, <2>4
      <3>2. SupportIn(chain, low, high + 1 + d) \subseteq
              SupportIn(chain, low, high) \cup SupportIn(chain, high + 1, high + 1 + d)
        BY <1>2, <3>1, SupportInSplit
      <3> QED
        BY <1>2, <3>2
    <2> QED
      BY <1>1, <1>2, <1>4, <2>4, <2>5, HistoryExtends
  <1>5. CASE ~(high < Confirmed)
    BY <1>1, <1>5, HistoryKeeps DEF TypeOK
  <1> QED
    BY <1>4, <1>5

(* A scan of the history backwards, towards the first block. *)
LEMMA ScanBackwardsStep ==
  ASSUME SettlementInv, NEW d, ScanBackwards(d)
  PROVE  SettlementInv'
  <1> USE DEF SettlementInv
  <1> DEFINE low == history.scanned[1]
             high == history.scanned[2]
             from == Max({0, low - HistorySpan})
  <1>1. /\ pc = "backfill" /\ pc' = "scan" /\ HistoryOnly
        /\ UNCHANGED <<seeded, faults>>
        /\ IF low > 0
           THEN /\ d \in Halvings(low - 1 - from)
                /\ history' = Learnt(low - 1 - d, low - 1, <<low - 1 - d, high>>)
           ELSE d = 0 /\ UNCHANGED history
    BY DEF ScanBackwards
  <1>2. /\ low \in Nat /\ high \in Nat /\ low <= high /\ high <= Confirmed
        /\ SupportIn(chain, low, high) \subseteq history.outboxes
        /\ DOMAIN chain \subseteq Int
    BY <1>1, ScannedFacts DEF HistoryInv
  <1>3. Confirmed \in Nat /\ HistorySpan \in Nat \ {0}
    BY HeightFacts, Constants
  <1> HIDE DEF low, high
  <1>4. CASE low > 0
    <2>1. from \in Nat /\ low - 1 - from \in Nat
      <3>1. low - HistorySpan \in Int
        BY <1>2, <1>3
      <3>2. from = IF 0 >= low - HistorySpan THEN 0 ELSE low - HistorySpan
        BY <3>1, MaxOfTwo
      <3> QED
        BY <1>2, <1>3, <1>4, <3>2
    <2> HIDE DEF from
    <2>2. d \in Nat /\ d <= low - 1 - from
      BY <1>1, <1>4, <2>1, HalvingsProperty
    <2>3. /\ low - 1 - d \in Nat /\ low - 1 \in Nat /\ low - 1 <= Confirmed
          /\ low - 1 - d <= high
      BY <1>2, <1>3, <1>4, <2>1, <2>2
    <2>4. SupportIn(chain, low - 1 - d, high)
            \subseteq history.outboxes \cup SupportIn(chain, low - 1 - d, low - 1)
      <3>1. low - 1 - d \in Int /\ low - 1 \in Int /\ high \in Int /\ (low - 1) + 1 = low
        BY <1>2, <2>3
      <3>2. SupportIn(chain, low - 1 - d, high) \subseteq
              SupportIn(chain, low - 1 - d, low - 1)
                \cup SupportIn(chain, (low - 1) + 1, high)
        BY <1>2, <3>1, SupportInSplit
      <3> QED
        BY <1>2, <3>1, <3>2
    <2> QED
      BY <1>1, <1>2, <1>4, <2>3, <2>4, HistoryExtends
  <1>5. CASE ~(low > 0)
    BY <1>1, <1>5, HistoryKeeps DEF TypeOK
  <1> QED
    BY <1>4, <1>5

(* A scan of the history that fails. *)
LEMMA HistoryFailsStep ==
  ASSUME SettlementInv, HistoryFails
  PROVE  SettlementInv'
  <1>1. /\ pc \in {"forward", "backfill"} /\ pc' = "scan" /\ Fault
        /\ HistoryOnly /\ UNCHANGED <<history, seeded>>
    BY DEF HistoryFails, historyVars
  <1> QED
    BY <1>1, HistoryKeeps DEF SettlementInv, TypeOK

-----------------------------------------------------------------------------
(* The queue and the attempts: their steps leave the history and the       *)
(* destination chain alone.                                                *)
LEMMA WorkStepFrame ==
  ASSUME TypeOK, HistoryInv, UNCHANGED <<destVars, historyVars>>, pc' # "backfill"
  PROVE  /\ HistoryInv' /\ chain' = chain
         /\ \A t : (OnChain(t)' <=> OnChain(t)) /\ BlockOf(t)' = BlockOf(t)
  <1>1. UNCHANGED <<chain, head, history>>
    BY DEF destVars, historyVars
  <1>2. HistoryInv'
    BY <1>1, HeightFacts, HistoryFrame
  <1> QED
    BY <1>1, <1>2 DEF OnChain, BlockOf

(* discover_delivered: each transaction of the range is queued, was        *)
(* queued, is done, or stops the cursor below its block.                   *)
LEMMA DiscoverStep ==
  ASSUME SettlementInv, NEW A \in SUBSET Txs, Discover(A)
  PROVE  SettlementInv'
  <1> USE DEF SettlementInv
  <1>1. /\ pc = "scan" /\ pc' = "save"
        /\ UNCHANGED <<destVars, sourceVars, faults, historyVars, saved, origin,
                       done, attempt>>
    BY DEF Discover, AtWork
  <1>2. /\ HistoryInv' /\ chain' = chain
        /\ \A t : (OnChain(t)' <=> OnChain(t)) /\ BlockOf(t)' = BlockOf(t)
    BY <1>1, WorkStepFrame
  <1>3. AttemptInv'
    BY <1>1, AttemptFrame DEF sourceVars
  <1>4. \A t : Released(t) => Released(t)'
    BY <1>1, ReleasedStays DEF sourceVars
  <1>5. CASE Confirmed <= lastSeen
    <2>1. UNCHANGED <<lastSeen, seen, due>>
      BY <1>5 DEF Discover
    <2>2. TypeOK'
      BY <1>1, <2>1 DEF TypeOK, destVars, sourceVars, historyVars
    <2>3. QueueInv'
      BY <1>1, <1>2, <2>1, QueueFrame DEF cursorVars, sourceVars
    <2> QED
      BY <1>2, <1>3, <2>2, <2>3
  <1>6. CASE ~(Confirmed <= lastSeen)
    <2>1. /\ A \subseteq Fresh /\ seen' = Insert(seen, A) /\ due' = due \cup A
          /\ lastSeen' = ScannedTo(A)
      BY <1>6 DEF Discover, Admissions
    <2>2. /\ lastSeen \in Nat /\ UpTo \in Nat /\ UpTo <= Confirmed
          /\ Shown(UpTo) = UpTo
      BY HeightFacts DEF TypeOK
    <2>3. InRange = TxsIn(chain, lastSeen + 1, UpTo)
      BY <2>2 DEF InRange
    <2>4. \A t \in Fresh : t \in Txs /\ OnChain(t)
      BY <2>3, TxsInProperty DEF Fresh
    <2>5. seen' \in [Txs -> Nat] /\ Tracked(seen') = Tracked(seen) \cup A
      BY <2>1, Constants, InsertProperty DEF TypeOK
    <2>6. /\ lastSeen' \in Nat /\ lastSeen' <= UpTo
          /\ \A t \in Fresh \ A : lastSeen' < BlockOf(t)
      <3> DEFINE B == {BlockOf(t) : t \in Fresh \ A}
      <3>1. B \subseteq Nat \ {0}
        BY <2>4, BlockOfProperty
      <3>2. {BlockOf(t) - 1 : t \in Fresh \ A} = {b - 1 : b \in B}
        OBVIOUS
      <3>3. lastSeen' = HoldBack(UpTo, B)
        BY <2>1, <3>2 DEF ScannedTo, HoldBack
      <3>4. \A t \in Fresh \ A : BlockOf(t) \in B
        OBVIOUS
      <3> HIDE DEF B
      <3> QED
        BY <2>2, <3>1, <3>3, <3>4, HoldBackProperty
    <2>7. TypeOK'
      <3>1. due' \subseteq Txs
        BY <2>1 DEF TypeOK
      <3> QED
        BY <1>1, <2>5, <2>6, <3>1 DEF TypeOK, destVars, sourceVars, historyVars
    <2>8. ASSUME NEW t \in Txs, OnChain(t), BlockOf(t) \in (origin + 1) .. lastSeen'
          PROVE  Released(t) \/ t \in Tracked(seen')
      <3>1. BlockOf(t) \in Nat /\ origin \in Nat
        BY <2>8, BlockOfProperty DEF TypeOK
      <3>2. CASE BlockOf(t) <= lastSeen
        <4>1. BlockOf(t) \in (origin + 1) .. lastSeen
          BY <2>2, <2>6, <2>8, <3>1, <3>2
        <4> QED
          BY <1>1, <2>5, <2>8, <4>1 DEF QueueInv
      <3>3. CASE ~(BlockOf(t) <= lastSeen)
        <4>1. BlockOf(t) \in (lastSeen + 1) .. UpTo
          BY <2>2, <2>6, <2>8, <3>1, <3>3
        <4>2. t \in InRange
          BY <2>3, <2>8, <4>1, TxsInProperty
        <4>3. t \notin Fresh \ A
          BY <2>6, <2>8, <3>1
        <4> QED
          BY <2>5, <4>2, <4>3 DEF Fresh, QueueInv
      <3> QED
        BY <3>2, <3>3
    <2>9. QueueInv'
      BY <1>1, <1>2, <1>4, <2>1, <2>4, <2>5, <2>8 DEF QueueInv
    <2> QED
      BY <1>2, <1>3, <2>7, <2>9
  <1> QED
    BY <1>5, <1>6

(* The save: what it leaves behind the cursor is not in the queue any more. *)
LEMMA SaveStep ==
  ASSUME SettlementInv, Save
  PROVE  SettlementInv'
  <1> USE DEF SettlementInv
  <1>1. /\ pc = "save" /\ pc' = "batch" /\ saved' = SavedCursor
        /\ UNCHANGED <<destVars, sourceVars, faults, historyVars, origin, lastSeen,
                       queueVars>>
    BY DEF Save, AtWork
  <1>2. /\ HistoryInv' /\ chain' = chain
        /\ \A t : (OnChain(t)' <=> OnChain(t)) /\ BlockOf(t)' = BlockOf(t)
    BY <1>1, WorkStepFrame
  <1>3. AttemptInv'
    BY <1>1, AttemptFrame DEF sourceVars, queueVars
  <1>4. \A t : Released(t) => Released(t)'
    BY <1>1, ReleasedStays DEF sourceVars
  <1>5. lastSeen \in Nat
    BY DEF TypeOK
  <1>6. /\ saved' \in Nat /\ saved' <= lastSeen
        /\ \A t \in Tracked(seen) : saved' < BlockOf(t)
    <2> DEFINE B == {BlockOf(t) : t \in Tracked(seen)}
    <2>1. B \subseteq Nat \ {0}
      BY BlockOfProperty DEF QueueInv
    <2>2. saved' = HoldBack(lastSeen, B)
      BY <1>1 DEF SavedCursor
    <2>3. \A t \in Tracked(seen) : BlockOf(t) \in B
      OBVIOUS
    <2> HIDE DEF B
    <2> QED
      BY <1>5, <2>1, <2>2, <2>3, HoldBackProperty
  <1>7. TypeOK'
    BY <1>1, <1>6 DEF TypeOK, destVars, sourceVars, historyVars, queueVars
  <1>8. ASSUME NEW t \in Txs, OnChain(t), BlockOf(t) \in (origin + 1) .. saved'
        PROVE  Released(t)
    <2>1. BlockOf(t) \in Nat /\ origin \in Nat
      BY <1>8, BlockOfProperty DEF TypeOK
    <2>2. BlockOf(t) \in (origin + 1) .. lastSeen
      BY <1>5, <1>6, <1>8, <2>1
    <2>3. t \notin Tracked(seen)
      BY <1>6, <1>8, <2>1
    <2> QED
      BY <1>1, <1>8, <2>2, <2>3 DEF QueueInv
  <1>9. QueueInv'
    BY <1>1, <1>2, <1>4, <1>8 DEF QueueInv, queueVars
  <1> QED
    BY <1>2, <1>3, <1>7, <1>9

(* A batch begins; a scan or a save fails; a retry comes due. *)
LEMMA BatchStep ==
  ASSUME SettlementInv, NEW B, Batch(B)
  PROVE  SettlementInv'
  <1> USE DEF SettlementInv
  <1>1. /\ pc = "batch" /\ pc' \in {"hints", "settle"}
        /\ attempt' = [t \in Txs |-> IF t \in B THEN [Idle EXCEPT !.step = "resolve"]
                                                ELSE Idle]
        /\ UNCHANGED <<destVars, sourceVars, faults, historyVars, cursorVars, seen,
                       due, done>>
    BY DEF Batch, AtWork
  <1>2. HistoryInv' /\ chain' = chain
    BY <1>1, WorkStepFrame
  <1>3. QueueInv'
    BY <1>1, <1>2, QueueFrame DEF sourceVars
  <1>4. /\ attempt' \in [Txs -> Attempts]
        /\ \A t \in Txs : attempt'[t].step \in {"idle", "resolve"}
    BY <1>1 DEF Idle, Attempts, Steps
  <1>5. TypeOK'
    BY <1>1, <1>4 DEF TypeOK, destVars, sourceVars, historyVars, cursorVars
  <1>6. AttemptInv'
    BY <1>4 DEF AttemptInv
  <1> QED
    BY <1>2, <1>3, <1>5, <1>6

(* Failed scans and saves, and delays that run out. *)
LEMMA PauseStep ==
  ASSUME SettlementInv, DiscoverFails \/ SaveFails \/ \E t \in Txs : Elapse(t)
  PROVE  SettlementInv'
  <1> USE DEF SettlementInv
  <1>1. /\ UNCHANGED <<destVars, sourceVars, historyVars, cursorVars, seen, done, attempt>>
        /\ faults' = faults \/ Fault
    BY DEF DiscoverFails, SaveFails, Elapse, AtWork, queueVars
  <1>2. pc' = pc \/ (pc \in {"scan", "save"} /\ pc' = "batch")
    BY DEF DiscoverFails, SaveFails, Elapse
  <1>3. HistoryInv' /\ chain' = chain
    <2>1. pc' = "backfill" => pc = "backfill"
      BY <1>2
    <2> QED
      BY <1>1, <2>1, HeightFacts, HistoryFrame DEF destVars, historyVars
  <1>4. AttemptInv'
    BY <1>1, AttemptFrame DEF sourceVars
  <1>5. QueueInv'
    BY <1>1, <1>2, <1>3, QueueFrame DEF sourceVars
  <1>6. TypeOK'
    <2>1. faults' \in 0 .. MaxFaults
      BY <1>1, FaultType
    <2>2. due' \subseteq Txs
      BY DEF DiscoverFails, SaveFails, Elapse, TypeOK, queueVars
    <2>3. pc' \in {"down", "hints", "forward", "backfill", "scan", "save", "batch",
                   "settle"}
      BY <1>2 DEF TypeOK
    <2> QED
      BY <1>1, <2>1, <2>2, <2>3 DEF TypeOK, destVars, sourceVars, historyVars, cursorVars
  <1> QED
    BY <1>3, <1>4, <1>5, <1>6

(* The outcomes of a batch: what leaves the queue is released. *)
LEMMA ApplyStep ==
  ASSUME SettlementInv, NEW D, Apply(D)
  PROVE  SettlementInv'
  <1> USE DEF SettlementInv
  <1> DEFINE tried == {t \in Txs : attempt[t].step # "idle"}
             finished == {t \in tried : attempt[t].step \in {"acknowledged", "terminal"}}
  <1>1. /\ pc = "settle" /\ pc' = "hints"
        /\ seen' = Remove(seen, finished)
        /\ D \in Remember(done, finished, DoneCap) /\ done' = D
        /\ due' = due \ tried
        /\ attempt' = [t \in Txs |-> Idle]
        /\ UNCHANGED <<destVars, sourceVars, faults, historyVars, cursorVars>>
    BY DEF Apply, AtWork
  <1>2. finished \subseteq Txs /\ \A t \in finished : Released(t)
    BY DEF AttemptInv
  <1> HIDE DEF tried, finished
  <1>3. done' \subseteq done \cup finished
    BY <1>1 DEF Remember
  <1>4. seen' \in [Txs -> Nat] /\ Tracked(seen') = Tracked(seen) \ finished
    BY <1>1, RemoveProperty DEF TypeOK
  <1>5. /\ HistoryInv' /\ chain' = chain
        /\ \A t : (OnChain(t)' <=> OnChain(t)) /\ BlockOf(t)' = BlockOf(t)
    BY <1>1, WorkStepFrame
  <1>6. \A t : Released(t) => Released(t)'
    BY <1>1, ReleasedStays DEF sourceVars
  <1>7. AttemptInv'
    BY <1>1 DEF AttemptInv, Idle
  <1>8. TypeOK'
    <2>1. attempt' \in [Txs -> Attempts]
      BY <1>1 DEF Idle, Attempts
    <2>2. done' \subseteq Txs /\ due' \subseteq Txs
      BY <1>1, <1>2, <1>3 DEF TypeOK
    <2> QED
      BY <1>1, <1>4, <2>1, <2>2 DEF TypeOK, destVars, sourceVars, historyVars, cursorVars
  <1>9. QueueInv'
    <2>1. UNCHANGED <<saved, origin, lastSeen>> /\ pc # "down"
      BY <1>1 DEF cursorVars
    <2>2. \A t \in Tracked(seen') : OnChain(t)'
      BY <1>4, <1>5 DEF QueueInv
    <2>3. \A t \in done' : Released(t)'
      BY <1>2, <1>3, <1>6 DEF QueueInv
    <2>4. ASSUME NEW t \in Txs, OnChain(t), BlockOf(t) \in (origin + 1) .. lastSeen
          PROVE  Released(t)' \/ t \in Tracked(seen')
      BY <1>2, <1>4, <1>6, <2>1, <2>4 DEF QueueInv
    <2>5. ASSUME saved # NoBlock, NEW t \in Txs, OnChain(t),
                 BlockOf(t) \in (origin + 1) .. saved
          PROVE  Released(t)'
      BY <1>6, <2>5 DEF QueueInv
    <2> QED
      BY <1>5, <2>1, <2>2, <2>3, <2>4, <2>5 DEF QueueInv
  <1> QED
    BY <1>5, <1>7, <1>8, <1>9

-----------------------------------------------------------------------------
(* One attempt.  Its steps move that attempt and may settle obligations at *)
(* the tip of the source chain; they release nothing by themselves.        *)
LEMMA AttemptFrameStep ==
  ASSUME SettlementInv, NEW t \in Txs, NEW a \in Attempts,
         pc = "settle", pc' = pc, attempt' = [attempt EXCEPT ![t] = a],
         UNCHANGED <<destVars, final, historyVars, cursorVars, seen, due, done>>,
         tip \subseteq tip', tip' \subseteq Obligations,
         faults' = faults \/ Fault,
         a.step \in {"prove", "acks", "fees", "verify"} =>
           \A m \in Received[t] \cap Funded : m \in a.claims \/ <<"fee", m>> \in final,
         a.step \in {"acknowledged", "terminal"} => Released(t)
  PROVE  SettlementInv'
  <1> USE DEF SettlementInv
  <1>1. attempt' \in [Txs -> Attempts] /\ attempt'[t] = a
        /\ \A u \in Txs \ {t} : attempt'[u] = attempt[u]
    BY DEF TypeOK
  <1>2. HistoryInv' /\ chain' = chain
    BY WorkStepFrame
  <1>3. QueueInv'
    BY <1>2, QueueFrame
  <1>4. \A u : Released(u) => Released(u)'
    BY ReleasedStays
  <1>5. AttemptInv'
    BY <1>1, <1>4 DEF AttemptInv
  <1>6. TypeOK'
    <2>1. faults' \in 0 .. MaxFaults
      BY FaultType
    <2>2. final' \subseteq tip'
      BY DEF TypeOK
    <2> QED
      BY <1>1, <2>1, <2>2 DEF TypeOK, destVars, historyVars, cursorVars
  <1> QED
    BY <1>2, <1>3, <1>5, <1>6

(* The two reads: what they find settled is settled in the final state, so *)
(* a transaction for which they find nothing to do is done.                *)
LEMMA ResolveStep ==
  ASSUME SettlementInv, NEW t \in Txs, NEW lost, NEW blind \in BOOLEAN,
         Resolve(t, lost, blind)
  PROVE  SettlementInv'
  <1> USE DEF SettlementInv
  <1> DEFINE unknown == Unroutable(t) \cup lost
             authorities == {Home[m] : m \in Unacknowledged(t) \ unknown}
             claims == IF blind THEN Received[t] ELSE Unclaimed(Received[t])
             a == [step |-> CASE authorities \cup claims # {} -> "prove"
                              [] authorities \cup claims = {} /\ unknown # {} -> "failed"
                              [] OTHER -> "terminal",
                   authorities |-> authorities, claims |-> claims,
                   failure |-> unknown # {}]
  <1>1. /\ pc = "settle" /\ pc' = pc /\ attempt' = [attempt EXCEPT ![t] = a]
        /\ lost \subseteq Executed[t]
        /\ faults' = faults \/ Fault
        /\ UNCHANGED <<destVars, sourceVars, historyVars, cursorVars, seen, due, done>>
    BY DEF Resolve, At, Goto, AtWork
  <1>2. authorities \subseteq Outboxes
    BY Constants DEF Unacknowledged
  <1>3. /\ claims \subseteq Msgs
        /\ \A m \in Received[t] \cap Funded : m \in claims \/ <<"fee", m>> \in final
    BY Constants DEF Unclaimed
  <1>4. \A m \in Unacknowledged(t) \ unknown : Home[m] \in authorities
    OBVIOUS
  <1>5. (unknown # {}) \in BOOLEAN
    BY Zenon
  <1>6. /\ a.step \in {"prove", "failed", "terminal"} /\ a.claims = claims
        /\ a.authorities = authorities /\ a.failure = (unknown # {})
        /\ a.step = "terminal" => authorities \cup claims = {} /\ unknown = {}
    <2> HIDE DEF authorities, claims, unknown
    <2> QED
      OBVIOUS
  <1>7. a \in Attempts
    <2>1. \E st \in {"prove", "failed", "terminal"} :
            a = [step |-> st, authorities |-> authorities, claims |-> claims,
                 failure |-> unknown # {}]
      <3> HIDE DEF authorities, claims, unknown
      <3> QED
        OBVIOUS
    <2> HIDE DEF authorities, claims, unknown, a
    <2> QED
      BY <1>2, <1>3, <1>5, <2>1 DEF Attempts, Steps, Outcomes
  <1> HIDE DEF authorities, claims, unknown, a
  <1>8. a.step = "terminal" => Released(t)
    <2> SUFFICES ASSUME a.step = "terminal" PROVE Settled(t)
      BY DEF Released
    <2>1. authorities = {} /\ claims = {} /\ unknown = {}
      BY <1>6
    <2>2. Unacknowledged(t) = {}
      BY <1>4, <2>1
    <2> QED
      BY <1>3, <2>1, <2>2, SettledProperty
  <1>9. a.step \notin {"acks", "fees", "verify", "acknowledged"}
    BY <1>6
  <1> QED
    BY <1>1, <1>3, <1>6, <1>7, <1>8, <1>9, AttemptFrameStep DEF sourceVars, TypeOK

(* The proof: one over the on-chain limit ends the attempt for good. *)
LEMMA ProveStep ==
  ASSUME SettlementInv, NEW t \in Txs,
         NEW answer \in {"ready", "notready", "rejected", "error"}, Prove(t, answer)
  PROVE  SettlementInv'
  <1> USE DEF SettlementInv
  <1> DEFINE a == [attempt[t] EXCEPT !.step = ProofAnswer(t, answer)]
  <1>1. /\ pc = "settle" /\ pc' = pc /\ attempt' = [attempt EXCEPT ![t] = a]
        /\ (faults' = faults \/ Fault) /\ attempt[t].step = "prove"
        /\ UNCHANGED <<destVars, sourceVars, historyVars, cursorVars, seen, due, done>>
    BY DEF Prove, At, GotoStep, Goto, AtWork
  <1>2. /\ ProofAnswer(t, answer) \in
             {"terminal", "acks", "notready", "rejected", "failed"}
        /\ ProofAnswer(t, answer) = "terminal" => t \in Oversized
    BY DEF ProofAnswer
  <1>3. attempt[t] \in Attempts
    BY DEF TypeOK
  <1>4. /\ a \in Attempts /\ a.step = ProofAnswer(t, answer)
        /\ a.claims = attempt[t].claims
    BY <1>2, <1>3 DEF Attempts, Steps, Outcomes
  <1>5. \A m \in Received[t] \cap Funded :
          m \in attempt[t].claims \/ <<"fee", m>> \in final
    BY <1>1 DEF AttemptInv
  <1> HIDE DEF a
  <1>6. a.step \in {"acknowledged", "terminal"} => Released(t)
    BY <1>2, <1>4 DEF Released
  <1> QED
    BY <1>1, <1>4, <1>5, <1>6, AttemptFrameStep DEF sourceVars, TypeOK

(* The submissions: whatever lands, the attempt goes on to be verified. *)
LEMMA SubmitStep ==
  ASSUME SettlementInv, NEW t \in Txs, NEW want, NEW landed \in SUBSET Obligations,
         NEW fails \in BOOLEAN, NEW next \in {"fees", "verify"},
         pc = "settle", attempt[t].step \in {"acks", "fees"},
         Submit(t, want, landed, fails, next)
  PROVE  SettlementInv'
  <1> USE DEF SettlementInv
  <1> DEFINE b == [attempt[t] EXCEPT !.step = next]
             a == [b EXCEPT !.failure = @ \/ fails]
  <1>1. attempt[t] \in Attempts
    BY DEF TypeOK
  <1>2. /\ pc' = pc /\ tip' = tip \cup landed /\ (faults' = faults \/ Fault)
        /\ UNCHANGED <<destVars, final, historyVars, cursorVars, seen, due, done>>
    BY DEF Submit
  <1>3. attempt' = [attempt EXCEPT ![t] = a]
    BY DEF Submit, TypeOK, Attempts
  <1>4. a \in Attempts /\ a.step = next /\ a.claims = attempt[t].claims
    BY <1>1 DEF Attempts, Steps
  <1>5. \A m \in Received[t] \cap Funded :
          m \in attempt[t].claims \/ <<"fee", m>> \in final
    BY DEF AttemptInv
  <1> HIDE DEF a
  <1>6. a.step \notin {"acknowledged", "terminal"}
    BY <1>4
  <1>7. tip \subseteq tip' /\ tip' \subseteq Obligations
    BY <1>2 DEF TypeOK
  <1> HIDE DEF SettlementInv
  <1> QED
    BY <1>2, <1>3, <1>4, <1>5, <1>6, <1>7, AttemptFrameStep

(* Only the finalized source state says "acknowledged". *)
LEMMA VerifyStep ==
  ASSUME SettlementInv, NEW t \in Txs, NEW unread \in BOOLEAN, Verify(t, unread)
  PROVE  SettlementInv'
  <1> USE DEF SettlementInv
  <1> DEFINE open == \/ Unacknowledged(t) # {} \/ Unroutable(t) # {}
                     \/ Unclaimed(attempt[t].claims) # {}
             st == IF attempt[t].failure \/ unread \/ open
                   THEN "failed" ELSE "acknowledged"
             a == [attempt[t] EXCEPT !.step = st]
  <1>1. /\ pc = "settle" /\ pc' = pc /\ attempt' = [attempt EXCEPT ![t] = a]
        /\ (faults' = faults \/ Fault) /\ attempt[t].step = "verify"
        /\ UNCHANGED <<destVars, sourceVars, historyVars, cursorVars, seen, due, done>>
    BY DEF Verify, At, GotoStep, Goto, AtWork
  <1>2. /\ st \in {"failed", "acknowledged"}
        /\ st = "acknowledged" => /\ Unacknowledged(t) = {}
                                  /\ Unclaimed(attempt[t].claims) = {}
    OBVIOUS
  <1> HIDE DEF st
  <1>3. attempt[t] \in Attempts
    BY DEF TypeOK
  <1>4. a \in Attempts /\ a.step = st
    BY <1>2, <1>3 DEF Attempts, Outcomes
  <1> HIDE DEF a
  <1>5. \A m \in Received[t] \cap Funded :
          m \in attempt[t].claims \/ <<"fee", m>> \in final
    BY <1>1 DEF AttemptInv
  <1>6. st = "acknowledged" => Released(t)
    <2> SUFFICES ASSUME st = "acknowledged" PROVE Settled(t)
      BY DEF Released
    <2>1. \A m \in Received[t] \cap Funded : <<"fee", m>> \in final
      BY <1>2, <1>5 DEF Unclaimed
    <2> QED
      BY <1>2, <2>1, SettledProperty
  <1>7. a.step \notin {"prove", "acks", "fees", "verify", "terminal"}
    BY <1>2, <1>4
  <1> QED
    BY <1>1, <1>4, <1>6, <1>7, AttemptFrameStep DEF sourceVars, TypeOK

(* Every step of an attempt. *)
LEMMA AttemptStep ==
  ASSUME SettlementInv, NEW t \in Txs, Attempt(t)
  PROVE  SettlementInv'
  <1>1. ASSUME NEW lost \in SUBSET Msgs, NEW blind \in BOOLEAN, Resolve(t, lost, blind)
        PROVE  SettlementInv'
    BY <1>1, ResolveStep
  <1>2. ASSUME NEW answer \in {"ready", "notready", "rejected", "error"},
               Prove(t, answer)
        PROVE  SettlementInv'
    BY <1>2, ProveStep
  <1>3. ASSUME NEW landed \in SUBSET Obligations, NEW fails \in BOOLEAN,
               SubmitAcks(t, landed, fails)
        PROVE  SettlementInv'
    BY <1>3, SubmitStep DEF SubmitAcks, At
  <1>4. ASSUME NEW landed \in SUBSET Obligations, NEW fails \in BOOLEAN,
               SubmitFees(t, landed, fails)
        PROVE  SettlementInv'
    BY <1>4, SubmitStep DEF SubmitFees, At
  <1>5. ASSUME NEW unread \in BOOLEAN, Verify(t, unread) PROVE SettlementInv'
    BY <1>5, VerifyStep
  <1> QED
    BY <1>1, <1>2, <1>3, <1>4, <1>5 DEF Attempt

-----------------------------------------------------------------------------
(* Every step of the worker and of the chains keeps the invariant. *)
LEMMA NextSettlementInv == SettlementInv /\ [Next]_vars => SettlementInv'
  <1> SUFFICES ASSUME SettlementInv, [Next]_vars PROVE SettlementInv'
    OBVIOUS
  <1>1. CASE Environment
    BY <1>1, EnvironmentStep
  <1>2. CASE Start
    BY <1>2, StartStep
  <1>3. CASE Crash
    BY <1>3, CrashStep
  <1>4. CASE Tick
    <2>1. ASSUME NEW read, Hints(read) PROVE SettlementInv'
      BY <2>1, HintsStep
    <2>2. ASSUME NEW d, ScanFirst(d) \/ ScanForward(d) \/ ScanBackwards(d)
          PROVE  SettlementInv'
      BY <2>2, ScanFirstStep, ScanForwardStep, ScanBackwardsStep
    <2>3. ASSUME NEW A \in SUBSET Txs, Discover(A) PROVE SettlementInv'
      BY <2>3, DiscoverStep
    <2>4. ASSUME NEW B, Batch(B) \/ Apply(B) PROVE SettlementInv'
      BY <2>4, BatchStep, ApplyStep
    <2>5. CASE Save \/ HistoryFails \/ DiscoverFails \/ SaveFails
      BY <2>5, SaveStep, HistoryFailsStep, PauseStep
    <2> QED
      BY <1>4, <2>1, <2>2, <2>3, <2>4, <2>5 DEF Tick
  <1>5. ASSUME NEW t \in Txs, Attempt(t) \/ Elapse(t) PROVE SettlementInv'
    BY <1>5, AttemptStep, PauseStep
  <1>6. CASE UNCHANGED vars
    <2>1. UNCHANGED <<destVars, sourceVars, faults, pc, historyVars, cursorVars, queueVars>>
      BY <1>6 DEF vars
    <2>2. HistoryInv' /\ chain' = chain
      BY <2>1, HeightFacts, HistoryFrame DEF SettlementInv, destVars, historyVars
    <2>3. AttemptInv' /\ QueueInv'
      BY <2>1, <2>2, AttemptFrame, QueueFrame DEF SettlementInv, sourceVars, queueVars
    <2>4. TypeOK'
      BY <2>1 DEF SettlementInv, TypeOK, destVars, sourceVars, historyVars, cursorVars,
                  queueVars
    <2> QED
      BY <2>2, <2>3, <2>4 DEF SettlementInv
  <1> QED
    BY <1>1, <1>2, <1>3, <1>4, <1>5, <1>6 DEF Next

(* The acknowledgment submitter's invariant holds in every state. *)
LEMMA SettlementInvariant == Spec => []SettlementInv
  BY InitSettlementInv, NextSettlementInv, PTL DEF Spec

(* The acknowledgment submitter's state stays what its types say. *)
THEOREM SettlementTypeCorrect == Spec => []TypeOK
  <1>1. SettlementInv => TypeOK
    BY DEF SettlementInv
  <1> QED
    BY <1>1, SettlementInvariant, PTL

(* The history of support knows every Outbox of the range it claims, for   *)
(* every chain, span and sequence of halved, failed and interrupted scans  *)
(* (ack/routes.rs).                                                        *)
THEOREM HistoryIsComplete == Spec => []HistoryComplete
  <1>1. SettlementInv => HistoryComplete
    BY DEF SettlementInv, HistoryInv
  <1> QED
    BY <1>1, SettlementInvariant, PTL

(* No delivery behind the saved cursor is left unsettled, whatever the     *)
(* queue, the crashes, the failed calls and the reorganisations of the     *)
(* source chain (ack/mod.rs: discover_delivered, process_pending,          *)
(* acknowledge_tx).                                                        *)
THEOREM NothingIsForgotten == Spec => []NothingForgotten
  <1>1. SettlementInv => NothingForgotten
    <2> SUFFICES ASSUME SettlementInv, saved # NoBlock,
                        NEW t \in ConfirmedTxs \ Oversized,
                        BlockOf(t) \in (origin + 1) .. saved
                 PROVE  Settled(t)
      BY DEF NothingForgotten
    <2>1. t \in Txs /\ OnChain(t)
      BY TxsInProperty DEF SettlementInv, ConfirmedTxs
    <2> QED
      BY <2>1 DEF SettlementInv, QueueInv, Released
  <1> QED
    BY <1>1, SettlementInvariant, PTL

=============================================================================
