--------------------------- MODULE DeliveryProofs ---------------------------
(***************************************************************************)
(* For every confirmation depth, set of limits, policy and number of       *)
(* faults: what the delivery worker reports as delivered is final, what it *)
(* pays for retries stays within the budget, what it gives up it does not  *)
(* pay for again, and what it refuses could not be topped up any more.     *)
(***************************************************************************)
EXTENDS Delivery, FiniteSetTheorems, SequenceTheorems, TLAPS

Count(e) == OrDefault(e).attempts
Charged == Larger(Count(memory), Count(disk))

(* On the way to a broadcast of retryFailedMessage, and past it. *)
Paying == worker.step \in {"retry", "resend"} /\ ~worker.queued
Paid   == worker.step = "record"

(* With an entry of the ledger in hand that will be written or weighed. *)
Holding == worker.step = "giveUp" \/ (worker.step = "await" /\ ~worker.queued)

(* Execution is for good: a reorganisation takes it back as a whole. *)
ChainInv ==
    \A j \in 1..(Depth + 1) : \A k \in j..(Depth + 1) :
        chain[j] = "executed" => chain[k] = "executed"

(* The two copies of the ledger.  Memory is never laxer than the file: it  *)
(* knows of a tombstone, and short of one it counts no less.  A process    *)
(* without a copy of its own does not pay while there is a file.           *)
LedgerInv ==
    /\ memory # NoEntry /\ disk # NoEntry /\ disk.gaveUp => memory.gaveUp
    /\ memory # NoEntry /\ ~memory.gaveUp => Count(memory) >= Count(disk)
    /\ Paying \/ Paid => ~Abandoned /\ (memory = NoEntry => disk = NoEntry)
    /\ Paying => Count(memory) < limit /\ Count(disk) < limit
    /\ Holding => worker.state # NoEntry /\ worker.state.attempts >= Count(memory)

(* What was paid is on one of the two copies, was missed, or is about to   *)
(* be recorded; unless the file holds a tombstone, which may hide a count  *)
(* that could not be read, or the entry was forgotten because the message  *)
(* is executed for good.                                                   *)
Tombstone == disk # NoEntry /\ disk.gaveUp
Forgotten == Final = "executed"
             /\ worker.step \notin {"gate", "retry", "resend", "record"}

BudgetInv ==
    /\ ~Tombstone /\ ~Forgotten =>
          total <= Charged + missed + (IF Paid THEN 1 ELSE 0)
    /\ RetryBudget

(* No copy counts what was not paid for or stalled, the one in hand not    *)
(* either, and a payment that is not yet recorded leaves room for itself.  *)
ChargeInv ==
    /\ NoOvercharge
    /\ worker.state # NoEntry => worker.state.attempts <= total + stalls
    /\ Paid => Charged < total + stalls

(* A reading of the source ledger ages well: what was settled stays        *)
(* settled, and once the deadline is past the gas limit is what it was.    *)
FundingInv ==
    /\ worker.funding.settled =>
          funding.settled /\ funding.gas = worker.funding.gas
    /\ worker.funding.gas # "none" /\ worker.funding.clock # "open" =>
          funding.clock # "open" /\ funding.gas = worker.funding.gas
    /\ worker.step \in {"begin", "simulate", "estimate"}
       /\ funding.clock = "lapsed" => worker.funding.clock # "open"
    /\ RefusalIsRight

DeliveryInv ==
    /\ TypeOK /\ ChainInv /\ DeliveredIsFinal
    /\ LedgerInv /\ BudgetInv /\ ChargeInv /\ FundingInv

-----------------------------------------------------------------------------
(* The operators of the model.                                             *)

(* The constants, as the provers like them. *)
LEMMA Constants ==
    /\ Depth \in Nat /\ MaxRetries \in Nat /\ MaxFaults \in Nat
    /\ MaxTopUpAttempts \in Nat \ {0}
    /\ Limits \subseteq Nat /\ InitialBackoff \in Nat \ {0} /\ MaxBackoff \in Nat
    /\ NoEntry \notin Entry
    BY DeliveryAssumption, PolicyAssumption, NoEntryAssumption

(* An entry stands for its count, and the passing of time changes neither  *)
(* that nor the tombstone.                                                 *)
LEMMA EntryFacts ==
    ASSUME NEW e \in Entry \cup {NoEntry}
    PROVE  /\ OrDefault(e) \in Entry /\ Count(e) \in Nat
           /\ e # NoEntry => e \in Entry /\ Count(e) = e.attempts
           /\ e = NoEntry => Count(e) = 0
           /\ Elapse(e) \in Entry \cup {NoEntry}
           /\ Elapse(e) = NoEntry <=> e = NoEntry
           /\ Count(Elapse(e)) = Count(e)
           /\ e # NoEntry => Elapse(e).gaveUp = e.gaveUp
    <1>1. CASE e = NoEntry
        BY <1>1, Constants DEF OrDefault, Count, Elapse, Default, Entry
    <1>2. CASE e # NoEntry
        <2>1. e \in Entry /\ OrDefault(e) = e /\ Count(e) = e.attempts
            BY <1>2 DEF OrDefault, Count
        <2>2. /\ Elapse(e) \in Entry /\ Elapse(e).attempts = e.attempts
              /\ Elapse(e).gaveUp = e.gaveUp
            BY <1>2, <2>1, Constants DEF Elapse, Entry
        <2>3. Elapse(e) # NoEntry /\ Count(Elapse(e)) = Elapse(e).attempts
            BY <2>2, Constants DEF OrDefault, Count
        <2> QED
            BY <1>2, <2>1, <2>2, <2>3 DEF Entry
    <1> QED
        BY <1>1, <1>2

(* What a read shows, and what is written: entries.  The stricter of two   *)
(* copies counts the larger number and keeps either tombstone.             *)
LEMMA SeenFacts ==
    ASSUME memory \in Entry \cup {NoEntry}, disk \in Entry \cup {NoEntry},
           NEW readable \in BOOLEAN
    PROVE  /\ Seen(readable) \in Entry \cup {NoEntry}
           /\ Seen(readable) = NoEntry => memory = NoEntry
           /\ readable => Count(Seen(readable)) = Charged
           /\ readable /\ Seen(readable) = NoEntry => disk = NoEntry
           /\ ~readable => Seen(readable) = memory
           /\ readable /\ Seen(readable) # NoEntry =>
                 (Seen(readable).gaveUp <=> Abandoned)
           /\ Count(Seen(readable)) >= Count(memory)
           /\ Count(Seen(readable)) <= Charged
    <1> USE DEF Seen
    <1>0. Count(memory) \in Nat /\ Count(disk) \in Nat
        BY EntryFacts
    <1>1. CASE ~readable
        BY <1>0, <1>1 DEF Charged, Larger
    <1>2. CASE readable /\ disk = NoEntry
        <2>1. Seen(readable) = memory /\ Count(disk) = 0
            BY <1>2, EntryFacts
        <2> QED
            BY <1>0, <1>2, <2>1 DEF Charged, Larger, Abandoned
    <1>3. CASE readable /\ disk # NoEntry /\ memory = NoEntry
        <2>1. Seen(readable) = disk /\ Count(memory) = 0
            BY <1>3, EntryFacts
        <2> QED
            BY <1>0, <1>3, <2>1 DEF Charged, Larger, Abandoned
    <1>4. CASE readable /\ disk # NoEntry /\ memory # NoEntry
        <2>1. /\ memory \in Entry /\ disk \in Entry
              /\ Count(memory) = memory.attempts /\ Count(disk) = disk.attempts
            BY <1>4, EntryFacts
        <2>2. Seen(readable) = Stricter(memory, disk)
            BY <1>4
        <2>3. /\ Stricter(memory, disk) \in Entry
              /\ Stricter(memory, disk).attempts = Larger(memory.attempts, disk.attempts)
              /\ Stricter(memory, disk).gaveUp <=> memory.gaveUp \/ disk.gaveUp
            <3>1. Larger(memory.attempts, disk.attempts) \in Nat
                BY <2>1 DEF Entry, Larger
            <3>2. Larger(memory.wait, disk.wait) \in 0..MaxBackoff
                BY <2>1, Constants DEF Entry, Larger
            <3> QED
                BY <2>1, <3>1, <3>2 DEF Entry, Stricter
        <2>4. Abandoned <=> memory.gaveUp \/ disk.gaveUp
            BY <1>4 DEF Abandoned
        <2>5. Stricter(memory, disk) # NoEntry
            BY <2>3, Constants
        <2>6. Count(Stricter(memory, disk)) = Larger(memory.attempts, disk.attempts)
            BY <2>3, <2>5, EntryFacts
        <2>7. Count(Stricter(memory, disk)) = Charged
            BY <2>1, <2>6 DEF Charged
        <2>8. Charged >= Count(memory)
            BY <1>0 DEF Charged, Larger
        <2>9. Charged \in Nat
            BY <1>0 DEF Charged, Larger
        <2> QED
            BY <1>0, <1>4, <2>2, <2>3, <2>4, <2>5, <2>7, <2>8, <2>9
    <1> QED
        BY <1>1, <1>2, <1>3, <1>4

(* What record_attempt and start put are entries. *)
LEMMA PutFacts ==
    ASSUME memory \in Entry \cup {NoEntry}, disk \in Entry \cup {NoEntry},
           NEW readable \in BOOLEAN
    PROVE  /\ First \in Entry /\ First.attempts = 0 /\ ~First.gaveUp
           /\ Recorded(readable) \in Entry /\ ~Recorded(readable).gaveUp
           /\ Recorded(readable).attempts = Count(Seen(readable)) + 1
           /\ Started(readable) \in Entry
           /\ Started(readable).attempts = Count(Seen(readable))
    <1>1. ASSUME NEW n PROVE Backoff(n) \in 0..MaxBackoff
        BY Constants DEF Backoff
    <1>2. First \in Entry /\ First.attempts = 0 /\ ~First.gaveUp
        BY <1>1 DEF First, Entry
    <1>3. Seen(readable) \in Entry \cup {NoEntry} /\ Count(Seen(readable)) \in Nat
        BY SeenFacts, EntryFacts
    <1>4. /\ Recorded(readable) \in Entry /\ ~Recorded(readable).gaveUp
          /\ Recorded(readable).attempts = Count(Seen(readable)) + 1
        BY <1>1, <1>3 DEF Recorded, Entry, Count
    <1>5. /\ Started(readable) \in Entry
          /\ Started(readable).attempts = Count(Seen(readable))
        BY <1>2, <1>3, EntryFacts DEF Started
    <1> QED
        BY <1>2, <1>4, <1>5

(* The chain as a function of the block's position: the oldest first. *)
LEMMA ChainFacts ==
    ASSUME chain \in [1..(Depth + 1) -> Status], NEW s \in Status
    PROVE  /\ Tip = chain[Depth + 1] /\ Final = chain[1]
           /\ Tip \in Status /\ Final \in Status
           /\ DOMAIN chain = 1..(Depth + 1)
           /\ Extend(s) \in [1..(Depth + 1) -> Status]
           /\ \A k \in 1..(Depth + 1) :
                 Extend(s)[k] = IF k <= Depth THEN chain[k + 1] ELSE s
    <1>1. /\ chain \in Seq(Status) /\ Len(chain) = Depth + 1
          /\ DOMAIN chain = 1..(Depth + 1)
        BY Constants, IsASeq, LenProperties
    <1>2. chain # << >>
        BY <1>1, Constants, EmptySeq
    <1>3. Tip = chain[Depth + 1] /\ Final = chain[1]
        BY <1>1, <1>2, Constants, HeadTailProperties DEF Tip, Final, Last
    <1>4. /\ Tail(chain) \in Seq(Status) /\ Len(Tail(chain)) = Depth
          /\ \A k \in 1..Depth : Tail(chain)[k] = chain[k + 1]
        BY <1>1, <1>2, Constants, HeadTailProperties
    <1>5. /\ Extend(s) \in Seq(Status) /\ Len(Extend(s)) = Depth + 1
          /\ \A k \in 1..Depth : Extend(s)[k] = chain[k + 1]
          /\ Extend(s)[Depth + 1] = s
        BY <1>4, Constants, AppendProperties DEF Extend
    <1>6. Extend(s) \in [1..(Depth + 1) -> Status]
        BY <1>5, Constants, LenProperties, ElementOfSeq
    <1>7. ASSUME NEW k \in 1..(Depth + 1)
          PROVE  Extend(s)[k] = IF k <= Depth THEN chain[k + 1] ELSE s
        <2>1. CASE k \in 1..Depth
            BY <1>5, <2>1, Constants
        <2>2. CASE k = Depth + 1
            BY <1>5, <2>2, Constants
        <2> QED
            BY <2>1, <2>2, Constants
    <1> QED
        BY <1>1, <1>3, <1>6, <1>7, Constants

(* A transaction or an empty block leaves an execution executed, and what  *)
(* is final final.                                                         *)
LEMMA ExtendKeeps ==
    ASSUME chain \in [1..(Depth + 1) -> Status], ChainInv,
           NEW s \in Status, Tip = "executed" => s = "executed",
           chain' = Extend(s)
    PROVE  /\ chain' \in [1..(Depth + 1) -> Status] /\ ChainInv'
           /\ Final = "executed" => Final' = "executed"
    <1>1. chain' \in [1..(Depth + 1) -> Status]
        BY ChainFacts
    <1>2. Final' = chain'[1]
        <2>1. chain' \in Seq(Status) /\ chain' # << >>
            BY <1>1, Constants, IsASeq, LenProperties, EmptySeq
        <2> QED
            BY <2>1, HeadTailProperties DEF Final
    <1>3. \A k \in 1..(Depth + 1) :
             chain'[k] = IF k <= Depth THEN chain[k + 1] ELSE s
        BY ChainFacts
    <1>4. Tip = chain[Depth + 1] /\ Final = chain[1]
        BY ChainFacts
    <1>5. ASSUME NEW j \in 1..(Depth + 1), NEW k \in j..(Depth + 1),
                 chain'[j] = "executed"
          PROVE  chain'[k] = "executed"
        <2>0. k \in 1..(Depth + 1) /\ Depth \in Nat
            BY Constants
        <2>1. CASE j = Depth + 1
            BY <1>5, <2>0, <2>1
        <2>2. CASE j # Depth + 1
            <3>1. chain[j + 1] = "executed" /\ j + 1 \in 1..(Depth + 1)
                BY <1>3, <1>5, <2>0, <2>2
            <3>2. CASE k = Depth + 1
                <4>1. chain[Depth + 1] = "executed"
                    BY <3>1, <2>0 DEF ChainInv
                <4> QED
                    BY <1>3, <1>4, <2>0, <3>2, <4>1
            <3>3. CASE k # Depth + 1
                <4>1. k + 1 \in (j + 1)..(Depth + 1)
                    BY <2>0, <3>3
                <4>2. chain[k + 1] = "executed"
                    BY <3>1, <4>1 DEF ChainInv
                <4> QED
                    BY <1>3, <2>0, <3>3, <4>2
            <3> QED
                BY <3>2, <3>3
        <2> QED
            BY <2>1, <2>2
    <1>6. ChainInv'
        BY <1>5 DEF ChainInv
    <1>7. ASSUME Final = "executed" PROVE Final' = "executed"
        <2>0. Depth \in Nat /\ 1 \in 1..(Depth + 1)
            BY Constants
        <2>1. \A k \in 1..(Depth + 1) : chain[k] = "executed"
            BY <1>4, <1>7, <2>0 DEF ChainInv
        <2>2. chain'[1] = "executed"
            BY <1>3, <1>4, <2>0, <2>1
        <2> QED
            BY <1>2, <2>2
    <1> QED
        BY <1>1, <1>6, <1>7

(* A reorganisation takes back as a whole, and nothing final. *)
LEMMA ReorgKeeps ==
    ASSUME chain \in [1..(Depth + 1) -> Status], ChainInv,
           NEW cut \in 1..Depth, Reorg(cut)
    PROVE  /\ chain' \in [1..(Depth + 1) -> Status] /\ ChainInv'
           /\ Final' = Final
    <1>0. Depth \in Nat
        BY Constants
    <1>1. chain' = [k \in 1..(Depth + 1) |->
                       IF k <= cut THEN chain[k] ELSE chain[cut]]
        BY ChainFacts DEF Reorg
    <1>2. chain' \in [1..(Depth + 1) -> Status]
        BY <1>0, <1>1
    <1>3. Final' = chain'[1]
        <2>1. chain' \in Seq(Status) /\ chain' # << >>
            BY <1>2, Constants, IsASeq, LenProperties, EmptySeq
        <2> QED
            BY <2>1, HeadTailProperties DEF Final
    <1>4. Final = chain[1]
        BY ChainFacts DEF Status
    <1>5. ChainInv'
        BY <1>0, <1>1 DEF ChainInv
    <1> QED
        BY <1>0, <1>1, <1>2, <1>3, <1>4, <1>5

(* What is final is at the tip. *)
LEMMA FinalAtTip ==
    ASSUME chain \in [1..(Depth + 1) -> Status], ChainInv, Final = "executed"
    PROVE  Tip = "executed"
    <1>1. Final = chain[1] /\ Tip = chain[Depth + 1]
        BY ChainFacts DEF Status
    <1> QED
        BY <1>1, Constants DEF ChainInv

(* The account of faults is not overdrawn. *)
LEMMA FaultAccount ==
    ASSUME faults \in 0..MaxFaults, NEW kinds, Suffer(kinds)
    PROVE  faults' \in 0..MaxFaults
    <1>1. IsFiniteSet(FaultKinds)
        <2> DEFINE A == {"rpc"} B == A \cup {"reorg"} C == B \cup {"crash"}
                   D == C \cup {"read"} E == D \cup {"write"} F == E \cup {"queue"}
                   G == F \cup {"stall"} H == G \cup {"lost"} I == H \cup {"race"}
        <2>1. IsFiniteSet(A)
            BY FS_Singleton
        <2>2. IsFiniteSet(B) /\ IsFiniteSet(C)
            BY <2>1, FS_AddElement
        <2>3. IsFiniteSet(D) /\ IsFiniteSet(E)
            BY <2>2, FS_AddElement
        <2>4. IsFiniteSet(F) /\ IsFiniteSet(G)
            BY <2>3, FS_AddElement
        <2>5. IsFiniteSet(H) /\ IsFiniteSet(I)
            BY <2>4, FS_AddElement
        <2>6. FaultKinds = I
            BY DEF FaultKinds
        <2> QED
            BY <2>5, <2>6
    <1>2. kinds \subseteq FaultKinds
        BY DeliveryAssumption DEF Suffer
    <1>3. Cardinality(kinds) \in Nat
        BY <1>1, <1>2, FS_Subset, FS_CardinalityType
    <1> QED
        BY <1>3, Constants DEF Suffer

-----------------------------------------------------------------------------
(* The worker's moves.                                                     *)

Kinds == Phases \cup {"AwaitingVotes", "AwaitingExecution", "Retryable"}

(* An idle worker has nothing in hand. *)
LEMMA IdleFacts ==
    /\ Idle \in Workers /\ NoRead \in Ledger
    /\ Idle.step = "idle" /\ Idle.state = NoEntry /\ Idle.funding = NoRead
    /\ ~Idle.queued /\ NoRead.gas = "none" /\ ~NoRead.settled
    BY Constants DEF Idle, Workers, NoRead, Ledger, Steps

(* A report leaves the worker idle, and the phase as it was or as said. *)
LEMMA ReportFacts ==
    ASSUME pool \in Pools, NEW kind \in Kinds, Report(kind)
    PROVE  /\ worker' = Idle /\ pool' \in Pools
           /\ pool'.phase = IF kind \in Phases THEN kind ELSE pool.phase
    BY DEF Report, Kinds, Phases, Pools

(* A move inside a job changes the step and nothing else. *)
LEMMA GotoFacts ==
    ASSUME worker \in Workers, NEW s \in Steps, Goto(s)
    PROVE  /\ worker' \in Workers /\ pool' = pool
           /\ worker'.step = s /\ worker'.funding = worker.funding
           /\ worker'.queued = worker.queued /\ worker'.state = worker.state
    BY DEF Goto, Workers

(* So does the way into reconcile_execution by a duplicate. *)
LEMMA DuplicateFacts ==
    ASSUME worker \in Workers, Duplicate
    PROVE  /\ worker' \in Workers /\ pool' = pool
           /\ worker'.step = "processed" /\ worker'.funding = worker.funding
           /\ worker'.queued = worker.queued /\ worker'.state = worker.state
    BY DEF Duplicate, Workers, Steps

(* And another turn of the send loop. *)
LEMMA AgainFacts ==
    ASSUME worker \in Workers, Again
    PROVE  /\ worker' \in Workers /\ pool' = pool
           /\ worker'.step = "send" /\ worker'.funding = worker.funding
           /\ worker'.queued = worker.queued /\ worker'.state = worker.state
    <1>1. worker.tries + 1 \in 0..MaxRetries
        BY Constants DEF Again, Workers
    <1>2. "send" \in Steps
        BY DEF Steps
    <1> DEFINE t == worker.tries + 1
    <1>3. worker' = [worker EXCEPT !.step = "send", !.tries = t] /\ pool' = pool
        BY DEF Again
    <1> HIDE DEF t
    <1> QED
        BY <1>1, <1>2, <1>3 DEF Workers, t

(* To the end of the schedule with an entry in hand. *)
LEMMA HoldFacts ==
    ASSUME worker \in Workers, NEW e \in Entry, NEW s \in Steps,
           worker' = [worker EXCEPT !.step = s, !.state = e]
    PROVE  /\ worker' \in Workers
           /\ worker'.step = s /\ worker'.funding = worker.funding
           /\ worker'.queued = worker.queued /\ worker'.state = e
    BY DEF Workers

(* after_failed_retry gives up with the entry, or waits. *)
LEMMA AfterFacts ==
    ASSUME worker \in Workers, pool \in Pools, NEW e \in Entry, AfterFailedRetry(e)
    PROVE  /\ worker' \in Workers /\ pool' \in Pools /\ pool'.phase = pool.phase
           /\ \/ worker' = Idle
              \/ /\ worker'.step = "giveUp" /\ worker'.funding = worker.funding
                 /\ worker'.queued = worker.queued /\ worker'.state = e
    <1>1. CASE e.attempts >= limit
        BY <1>1, HoldFacts DEF AfterFailedRetry, Steps
    <1>2. CASE ~(e.attempts >= limit)
        BY <1>2, ReportFacts, IdleFacts DEF AfterFailedRetry, Kinds, Phases
    <1> QED
        BY <1>1, <1>2

(* A block while the worker reads: only the age of what it read grows. *)
LEMMA AgeFacts ==
    ASSUME worker \in Workers,
           worker' = IF worker.step = "confirmed" /\ worker.age < Depth
                     THEN [worker EXCEPT !.age = @ + 1] ELSE worker
    PROVE  /\ worker' \in Workers
           /\ worker'.step = worker.step /\ worker'.funding = worker.funding
           /\ worker'.queued = worker.queued /\ worker'.state = worker.state
    BY Constants DEF Workers

(* A step of a job that leaves the ledger and the counts alone: it does    *)
(* not start paying, and takes no entry in hand that was not there.        *)
Quiet ==
    /\ UNCHANGED <<ledgerVars, limit, countVars>>
    /\ Paying' => Paying
    /\ Paid' <=> Paid
    /\ Holding' => Holding /\ worker'.state = worker.state
    /\ worker'.state \in {worker.state, NoEntry}
    /\ Forgotten => Forgotten'

(* A quiet step, which neither charges nor pays, keeps the ledger, the     *)
(* budget and the charges right.                                           *)
LEMMA QuietKeeps ==
    ASSUME DeliveryInv, Quiet
    PROVE  LedgerInv' /\ BudgetInv' /\ ChargeInv'
    <1>1. /\ memory' = memory /\ disk' = disk /\ limit' = limit
          /\ total' = total /\ stalls' = stalls /\ missed' = missed
        BY DEF Quiet, ledgerVars, countVars
    <1>2. /\ Count(memory)' = Count(memory) /\ Count(disk)' = Count(disk)
          /\ Charged' = Charged /\ Tombstone' = Tombstone /\ Abandoned' = Abandoned
          /\ RetryBudget' = RetryBudget /\ NoOvercharge' = NoOvercharge
        BY <1>1 DEF Count, Charged, Tombstone, Abandoned, RetryBudget, NoOvercharge
    <1>3. LedgerInv'
        BY <1>1, <1>2, Zenon DEF DeliveryInv, LedgerInv, Quiet
    <1>4. BudgetInv'
        BY <1>1, <1>2, Zenon DEF DeliveryInv, BudgetInv, Quiet
    <1>5. ChargeInv'
        BY <1>1, <1>2, Zenon DEF DeliveryInv, ChargeInv, Quiet
    <1> QED
        BY <1>3, <1>4, <1>5

(* The steps at which a job still works with its look at the source        *)
(* ledger, and those with nothing of the retry ledger at stake.            *)
Looking == {"begin", "simulate", "estimate"}
Early   == {"begin", "simulate", "estimate", "send", "receipt", "processed",
            "confirmed", "pending", "retryable", "start"}

(* Quiet: a step that leaves the worker where it is, *)
LEMMA SameIsQuiet ==
    ASSUME UNCHANGED <<ledgerVars, limit, countVars>>,
           Final = "executed" => Final' = "executed",
           worker'.step = worker.step, worker'.queued = worker.queued,
           worker'.state = worker.state
    PROVE  Quiet
    BY DEF Quiet, Paying, Paid, Holding, Forgotten

(* one that ends its turn, *)
LEMMA IdleIsQuiet ==
    ASSUME UNCHANGED <<ledgerVars, limit, countVars>>,
           Final = "executed" => Final' = "executed",
           worker' = Idle, ~Paid
    PROVE  Quiet
    BY IdleFacts DEF Quiet, Paying, Paid, Holding, Forgotten

(* and one that moves it to an early step. *)
LEMMA MoveIsQuiet ==
    ASSUME UNCHANGED <<ledgerVars, limit, countVars>>,
           Final = "executed" => Final' = "executed",
           worker'.step \in Early, worker'.state = worker.state, ~Paid
    PROVE  Quiet
    BY DEF Quiet, Paying, Paid, Holding, Forgotten, Early

(* What a job has read of the source ledger ages with it. *)
LEMMA FundingKept ==
    ASSUME FundingInv, funding' = funding,
           pool'.phase = "unfunded" => pool.phase = "unfunded",
           \/ worker' = Idle
           \/ /\ worker'.funding = worker.funding
              /\ worker'.step \in Looking => worker.step \in Looking
    PROVE  FundingInv'
    <1>1. RefusalIsRight'
        BY DEF FundingInv, RefusalIsRight
    <1>2. CASE worker' = Idle
        BY <1>1, <1>2, IdleFacts DEF FundingInv
    <1>3. CASE /\ worker'.funding = worker.funding
               /\ worker'.step \in Looking => worker.step \in Looking
        BY <1>1, <1>3 DEF FundingInv, Looking
    <1> QED
        BY <1>2, <1>3

(* A quiet step on an unchanged chain keeps the invariant. *)
LEMMA TurnKeeps ==
    ASSUME DeliveryInv, Quiet, UNCHANGED <<inboxVars, overCap>>,
           faults' \in 0..MaxFaults, topUp' \in TopUps,
           worker' \in Workers, pool' \in Pools,
           pool'.phase = pool.phase \/ pool'.phase \notin {"delivered", "unfunded"},
           \/ worker' = Idle
           \/ /\ worker'.funding = worker.funding
              /\ worker'.step \in Looking => worker.step \in Looking
    PROVE  DeliveryInv'
    <1>1. /\ chain' = chain /\ funding' = funding /\ overCap' = overCap
          /\ memory' = memory /\ disk' = disk /\ limit' = limit
          /\ total' = total /\ stalls' = stalls /\ missed' = missed
        BY DEF Quiet, inboxVars, ledgerVars, countVars
    <1>2. TypeOK'
        BY <1>1 DEF DeliveryInv, TypeOK
    <1>3. ChainInv' /\ DeliveredIsFinal'
        BY <1>1 DEF DeliveryInv, ChainInv, DeliveredIsFinal, Final
    <1>4. FundingInv'
        BY <1>1, FundingKept DEF DeliveryInv
    <1> QED
        BY <1>2, <1>3, <1>4, QuietKeeps DEF DeliveryInv

(* So does the end of a turn that neither delivers nor refuses, *)
LEMMA TurnEnds ==
    ASSUME DeliveryInv,
           UNCHANGED <<inboxVars, ledgerVars, limit, overCap, countVars>>,
           faults' \in 0..MaxFaults, topUp' \in TopUps, ~Paid,
           NEW kind \in Kinds \ {"delivered", "unfunded"}, Report(kind)
    PROVE  DeliveryInv'
    <1>1. pool \in Pools
        BY DEF DeliveryInv, TypeOK
    <1>2. /\ worker' = Idle /\ pool' \in Pools
          /\ pool'.phase = pool.phase \/ pool'.phase \notin {"delivered", "unfunded"}
        BY <1>1, ReportFacts
    <1>3. Final' = Final
        BY DEF inboxVars, Final
    <1>4. Quiet
        BY <1>2, <1>3, IdleIsQuiet
    <1> QED
        BY <1>2, <1>4, IdleFacts, TurnKeeps

(* and a move to an early step. *)
LEMMA TurnMoves ==
    ASSUME DeliveryInv,
           UNCHANGED <<inboxVars, ledgerVars, limit, overCap, countVars>>,
           faults' \in 0..MaxFaults, topUp' \in TopUps, ~Paid,
           worker' \in Workers, pool' = pool,
           worker'.step \in Early, worker'.state = worker.state,
           worker'.funding = worker.funding,
           worker'.step \in Looking => worker.step \in Looking
    PROVE  DeliveryInv'
    <1>1. pool' \in Pools
        BY DEF DeliveryInv, TypeOK
    <1>2. Final' = Final
        BY DEF inboxVars, Final
    <1>3. Quiet
        BY <1>2, MoveIsQuiet
    <1> QED
        BY <1>1, <1>3, TurnKeeps

-----------------------------------------------------------------------------
(* The chains, the clock and the pool.                                     *)

(* A block, or another relayer's transaction in one. *)
LEMMA BlockStep ==
    ASSUME DeliveryInv, NEW s \in Status, Tip = "executed" => s = "executed",
           chain' = Extend(s), faults' \in 0..MaxFaults,
           worker' = IF worker.step = "confirmed" /\ worker.age < Depth
                     THEN [worker EXCEPT !.age = @ + 1] ELSE worker,
           UNCHANGED <<funding, ledgerVars, limit, overCap, pool, topUp, countVars>>
    PROVE  DeliveryInv'
    <1>0. TypeOK /\ ChainInv
        BY DEF DeliveryInv
    <1>1. /\ worker' \in Workers
          /\ worker'.step = worker.step /\ worker'.funding = worker.funding
          /\ worker'.queued = worker.queued /\ worker'.state = worker.state
        BY <1>0, AgeFacts DEF TypeOK
    <1>2. /\ chain' \in [1..(Depth + 1) -> Status] /\ ChainInv'
          /\ Final = "executed" => Final' = "executed"
        BY <1>0, ExtendKeeps DEF TypeOK
    <1>3. TypeOK'
        BY <1>0, <1>1, <1>2 DEF TypeOK, ledgerVars, countVars
    <1>4. DeliveredIsFinal'
        BY <1>2 DEF DeliveryInv, DeliveredIsFinal
    <1>5. Quiet
        BY <1>1, <1>2, SameIsQuiet
    <1>6. FundingInv'
        BY <1>1, FundingKept DEF DeliveryInv
    <1> QED
        BY <1>2, <1>3, <1>4, <1>5, <1>6, QuietKeeps DEF DeliveryInv

(* A reorganisation of the destination chain, which leaves what is final. *)
LEMMA ReorgStep ==
    ASSUME DeliveryInv, NEW cut \in 1..Depth, Reorg(cut)
    PROVE  DeliveryInv'
    <1>0. TypeOK /\ ChainInv
        BY DEF DeliveryInv
    <1>1. /\ chain' \in [1..(Depth + 1) -> Status] /\ ChainInv' /\ Final' = Final
        BY <1>0, ReorgKeeps DEF TypeOK
    <1>2. faults' \in 0..MaxFaults
        BY <1>0, FaultAccount DEF Reorg, TypeOK
    <1>3. UNCHANGED <<funding, ledgerVars, limit, overCap, pool, worker, topUp,
                      countVars>>
        BY DEF Reorg
    <1>4. TypeOK'
        BY <1>0, <1>1, <1>2, <1>3 DEF TypeOK, ledgerVars, countVars
    <1>5. DeliveredIsFinal'
        BY <1>1, <1>3 DEF DeliveryInv, DeliveredIsFinal
    <1>6. Quiet
        BY <1>1, <1>3, SameIsQuiet
    <1>7. FundingInv'
        BY <1>3, FundingKept DEF DeliveryInv
    <1> QED
        BY <1>1, <1>4, <1>5, <1>6, <1>7, QuietKeeps DEF DeliveryInv

(* The source chain moves on: what the job has read stays true enough. *)
LEMMA SourceMoves ==
    ASSUME DeliveryInv, PayerTopsUp \/ FeeSettled \/ DeadlinePasses \/ GraceLapses
    PROVE  DeliveryInv'
    <1>0. TypeOK
        BY DEF DeliveryInv
    <1>1. UNCHANGED <<chain, ledgerVars, limit, overCap, pool, worker, topUp,
                      faults, countVars>>
        BY DEF PayerTopsUp, FeeSettled, DeadlinePasses, GraceLapses, SourceStep
    <1>2. funding \in Ledger /\ worker \in Workers
        BY <1>0 DEF TypeOK
    <1>3. funding' \in Ledger /\ FundingInv'
        <2>1. CASE PayerTopsUp
            <3>1. /\ funding.gas = "short" /\ ~funding.settled /\ funding.clock = "open"
                  /\ funding' \in Ledger /\ funding'.gas = "enough"
                  /\ ~funding'.settled /\ funding'.clock = "open"
                BY <1>2, <2>1 DEF PayerTopsUp, SourceStep, Ledger
            <3>2. RefusalIsRight'
                BY <1>1, <3>1 DEF DeliveryInv, FundingInv, RefusalIsRight
            <3> QED
                BY <1>1, <3>1, <3>2 DEF DeliveryInv, FundingInv
        <2>2. CASE FeeSettled
            <3>1. /\ funding' \in Ledger /\ funding'.gas = funding.gas
                  /\ ~funding.settled
                  /\ funding'.settled /\ funding'.clock = funding.clock
                BY <1>2, <2>2 DEF FeeSettled, SourceStep, Ledger
            <3>2. RefusalIsRight'
                BY <1>1, <3>1 DEF DeliveryInv, FundingInv, RefusalIsRight
            <3> QED
                BY <1>1, <3>1, <3>2 DEF DeliveryInv, FundingInv
        <2>3. CASE DeadlinePasses
            <3>1. /\ funding' \in Ledger /\ funding'.gas = funding.gas
                  /\ funding'.settled = funding.settled /\ funding'.clock = "past"
                  /\ funding.clock = "open"
                BY <1>2, <2>3 DEF DeadlinePasses, SourceStep, Ledger
            <3>2. RefusalIsRight'
                BY <1>1, <3>1 DEF DeliveryInv, FundingInv, RefusalIsRight
            <3> QED
                BY <1>1, <3>1, <3>2 DEF DeliveryInv, FundingInv
        <2>4. CASE GraceLapses
            <3>1. /\ funding' \in Ledger /\ funding'.gas = funding.gas
                  /\ funding'.settled = funding.settled /\ funding'.clock = "lapsed"
                  /\ funding.clock = "past"
                  /\ worker.step \in {"begin", "simulate", "estimate"} =>
                        worker.funding.clock # "open"
                BY <1>2, <2>4 DEF GraceLapses, SourceStep, Ledger
            <3>2. RefusalIsRight'
                BY <1>1, <3>1 DEF DeliveryInv, FundingInv, RefusalIsRight
            <3> QED
                BY <1>1, <3>1, <3>2 DEF DeliveryInv, FundingInv
        <2> QED
            BY <2>1, <2>2, <2>3, <2>4
    <1>4. TypeOK'
        BY <1>0, <1>1, <1>3 DEF TypeOK, ledgerVars, countVars
    <1>5. Final' = Final /\ ChainInv' /\ DeliveredIsFinal'
        BY <1>1 DEF DeliveryInv, ChainInv, DeliveredIsFinal, Final
    <1>6. Quiet
        BY <1>1, <1>5, SameIsQuiet
    <1> QED
        BY <1>3, <1>4, <1>5, <1>6, QuietKeeps DEF DeliveryInv

(* Time passes: the waits shrink, and nothing else. *)
LEMMA TickStep ==
    ASSUME DeliveryInv, Tick
    PROVE  DeliveryInv'
    <1>0. TypeOK
        BY DEF DeliveryInv
    <1>1. UNCHANGED <<inboxVars, limit, overCap, pool, topUp, faults, countVars>>
        BY DEF Tick
    <1>2. memory' = Elapse(memory) /\ disk' = Elapse(disk)
        BY DEF Tick
    <1>3. /\ memory \in Entry \cup {NoEntry} /\ disk \in Entry \cup {NoEntry}
          /\ worker \in Workers /\ worker.state \in Entry \cup {NoEntry}
        BY <1>0 DEF TypeOK, Workers
    <1>4. /\ worker' \in Workers /\ worker'.state = Elapse(worker.state)
          /\ worker'.step = worker.step /\ worker'.queued = worker.queued
          /\ worker'.funding = worker.funding
        <2>1. Elapse(worker.state) \in Entry \cup {NoEntry}
            BY <1>3, EntryFacts
        <2> QED
            BY <1>3, <2>1 DEF Tick, Workers
    <1>5. /\ memory' \in Entry \cup {NoEntry} /\ Count(memory') = Count(memory)
          /\ memory' = NoEntry <=> memory = NoEntry
          /\ memory # NoEntry => memory'.gaveUp = memory.gaveUp
        BY <1>2, <1>3, EntryFacts
    <1>6. /\ disk' \in Entry \cup {NoEntry} /\ Count(disk') = Count(disk)
          /\ disk' = NoEntry <=> disk = NoEntry
          /\ disk # NoEntry => disk'.gaveUp = disk.gaveUp
        BY <1>2, <1>3, EntryFacts
    <1>7. /\ worker'.state = NoEntry <=> worker.state = NoEntry
          /\ worker.state # NoEntry => worker'.state.attempts = worker.state.attempts
        BY <1>3, <1>4, EntryFacts
    <1>8. /\ limit' = limit /\ total' = total /\ stalls' = stalls /\ missed' = missed
          /\ chain' = chain /\ funding' = funding /\ pool' = pool
        BY <1>1 DEF inboxVars, countVars
    <1>9. TypeOK'
        BY <1>0, <1>1, <1>4, <1>5, <1>6 DEF TypeOK, inboxVars, countVars
    <1>10. ChainInv' /\ DeliveredIsFinal' /\ Final' = Final
        BY <1>8 DEF DeliveryInv, ChainInv, DeliveredIsFinal, Final
    <1>11. FundingInv'
        BY <1>4, <1>8, FundingKept DEF DeliveryInv
    <1>12. /\ Charged' = Charged /\ (Tombstone' <=> Tombstone)
           /\ (Abandoned' <=> Abandoned) /\ (Forgotten' <=> Forgotten)
           /\ Paying' = Paying /\ Paid' = Paid /\ Holding' = Holding
        <2>1. Abandoned' <=> Abandoned
            BY <1>5, <1>6 DEF Abandoned
        <2> QED
            BY <1>4, <1>5, <1>6, <1>10, <2>1
            DEF Charged, Tombstone, Forgotten, Paying, Paid, Holding
    <1>13. LedgerInv'
        BY <1>5, <1>6, <1>7, <1>8, <1>12 DEF DeliveryInv, LedgerInv
    <1>14. BudgetInv'
        <2>1. RetryBudget'
            BY <1>8 DEF DeliveryInv, BudgetInv, RetryBudget
        <2> QED
            BY <1>8, <1>12, <2>1 DEF DeliveryInv, BudgetInv
    <1>15. ChargeInv'
        <2>1. NoOvercharge'
            <3>1. /\ memory # NoEntry => memory'.attempts = memory.attempts
                  /\ disk # NoEntry => disk'.attempts = disk.attempts
                BY <1>3, <1>5, <1>6, EntryFacts
            <3> QED
                BY <1>5, <1>6, <1>8, <3>1 DEF DeliveryInv, ChargeInv, NoOvercharge
        <2> QED
            BY <1>7, <1>8, <1>12, <2>1 DEF DeliveryInv, ChargeInv
    <1> QED
        BY <1>9, <1>10, <1>11, <1>13, <1>14, <1>15 DEF DeliveryInv

(* The pool, the top-up task and the idle tick. *)
LEMMA PoolStep ==
    ASSUME DeliveryInv, CollectVotes \/ TopUpFails \/ TopUpSettles \/ IdleTick
    PROVE  DeliveryInv'
    <1>0. TypeOK
        BY DEF DeliveryInv
    <1>1. /\ UNCHANGED <<inboxVars, ledgerVars, limit, overCap, worker, faults,
                         countVars>>
          /\ topUp' \in TopUps /\ pool' \in Pools /\ pool'.phase = pool.phase
        <2>1. CASE CollectVotes
            BY <1>0, <2>1 DEF CollectVotes, TypeOK, Pools
        <2>2. CASE TopUpFails
            BY <1>0, <2>2 DEF TopUpFails, TypeOK, TopUps
        <2>3. CASE TopUpSettles
            BY <1>0, <2>3 DEF TopUpSettles, TypeOK, TopUps
        <2>4. CASE IdleTick
            BY <1>0, <2>4 DEF IdleTick, TypeOK, vars, inboxVars, ledgerVars, countVars
        <2> QED
            BY <2>1, <2>2, <2>3, <2>4
    <1>2. Final' = Final
        BY <1>1 DEF inboxVars, Final
    <1>3. Quiet
        BY <1>1, <1>2, SameIsQuiet
    <1>4. worker' \in Workers /\ faults' \in 0..MaxFaults
        BY <1>0, <1>1 DEF TypeOK
    <1> QED
        BY <1>1, <1>3, <1>4, TurnKeeps

(* A job begins with a fresh look at the source ledger, or with none. *)
LEMMA DispatchStep ==
    ASSUME DeliveryInv, Dispatch
    PROVE  DeliveryInv'
    <1>0. TypeOK
        BY DEF DeliveryInv
    <1>1. /\ UNCHANGED <<inboxVars, ledgerVars, limit, overCap, pool, topUp, faults,
                         countVars>>
          /\ worker.step = "idle"
        BY DEF Dispatch
    <1>2. /\ worker' \in Workers /\ worker'.state = NoEntry /\ ~worker'.queued
          /\ worker'.step \in {"processed", "begin"}
          /\ worker'.funding \in {funding, NoRead}
        BY <1>0, IdleFacts DEF Dispatch, FundingRead, TypeOK, Workers, Steps
    <1>3. TypeOK'
        BY <1>0, <1>1, <1>2 DEF TypeOK, inboxVars, ledgerVars, countVars
    <1>4. ChainInv' /\ DeliveredIsFinal' /\ Final' = Final
        BY <1>1 DEF DeliveryInv, ChainInv, DeliveredIsFinal, Final, inboxVars
    <1>5. Quiet
        BY <1>1, <1>2, <1>4
        DEF Quiet, Paying, Paid, Holding, Forgotten
    <1>6. FundingInv'
        <2>1. funding' = funding /\ pool' = pool
            BY <1>1 DEF inboxVars
        <2>2. RefusalIsRight'
            BY <2>1 DEF DeliveryInv, FundingInv, RefusalIsRight
        <2>3. CASE worker'.funding = funding
            BY <2>1, <2>2, <2>3 DEF FundingInv
        <2>4. CASE worker'.funding = NoRead
            <3>1. NoRead.clock # "open"
                BY DEF NoRead
            <3> QED
                BY <2>1, <2>2, <2>4, <3>1, IdleFacts DEF FundingInv
        <2> QED
            BY <1>2, <2>3, <2>4
    <1> QED
        BY <1>3, <1>4, <1>5, <1>6, QuietKeeps DEF DeliveryInv

-----------------------------------------------------------------------------
(* handle_job.                                                             *)

(* Turns without a fault, or with one, stay within the account. *)
LEMMA TurnTypes ==
    ASSUME TypeOK
    PROVE  /\ worker \in Workers /\ pool \in Pools /\ topUp \in TopUps
           /\ faults \in 0..MaxFaults /\ funding \in Ledger
           /\ Calm => faults' \in 0..MaxFaults
           /\ UNCHANGED topUp => topUp' \in TopUps
           /\ AfterSimulate \in {"send", "estimate"}
    BY DEF TypeOK, Calm, AfterSimulate

(* The worker starts the turn of a job. *)
LEMMA BeginStep ==
    ASSUME DeliveryInv, Begin
    PROVE  DeliveryInv'
    <1>0. TypeOK
        BY DEF DeliveryInv
    <1>1. /\ UNCHANGED <<inboxVars, ledgerVars, limit, overCap, topUp, countVars>>
          /\ worker.step = "begin" /\ Calm /\ ~Paid
        BY DEF Begin, At, Paid
    <1>2. CASE overCap
        <2>1. Report("overCap")
            BY <1>2 DEF Begin
        <2> QED
            BY <1>0, <1>1, <2>1, TurnEnds, TurnTypes DEF Kinds, Phases
    <1>3. CASE ~overCap
        <2>1. PICK s \in {"simulate", "send", "estimate"} : Goto(s)
            BY <1>0, <1>3, TurnTypes DEF Begin
        <2> QED
            BY <1>0, <1>1, <2>1, GotoFacts, TurnMoves, TurnTypes
            DEF Steps, Early, Looking
    <1> QED
        BY <1>2, <1>3

(* The simulation of deliver, and each of its answers. *)
LEMMA SimulateStep ==
    ASSUME DeliveryInv, SimulateCall
    PROVE  DeliveryInv'
    <1>0. TypeOK
        BY DEF DeliveryInv
    <1>1. /\ UNCHANGED <<inboxVars, ledgerVars, limit, overCap, topUp, countVars>>
          /\ worker.step = "simulate" /\ ~Paid
        BY DEF SimulateCall, At, Paid
    <1>2. CASE Calm /\ Goto(AfterSimulate)
        BY <1>0, <1>1, <1>2, GotoFacts, TurnMoves, TurnTypes
        DEF Steps, Early, Looking
    <1>3. CASE Calm /\ Duplicate
        BY <1>0, <1>1, <1>3, DuplicateFacts, TurnMoves, TurnTypes
        DEF Early, Looking
    <1>4. CASE Refused
        BY <1>0, <1>1, <1>4, TurnEnds, TurnTypes, FaultAccount DEF Refused, Kinds, Phases
    <1> QED
        BY <1>2, <1>3, <1>4 DEF SimulateCall

(* The under-funding guard refuses only what can no longer be topped up. *)
LEMMA EstimateStep ==
    ASSUME DeliveryInv, Estimate
    PROVE  DeliveryInv'
    <1>0. TypeOK
        BY DEF DeliveryInv
    <1>1. /\ UNCHANGED <<inboxVars, ledgerVars, limit, overCap, countVars>>
          /\ worker.step = "estimate" /\ ~Paid
        BY DEF Estimate, At, Paid
    <1>2. CASE /\ Calm /\ worker.funding.gas = "short" /\ Foreclosed
               /\ Report("unfunded") /\ UNCHANGED topUp
        <2>1. /\ worker' = Idle /\ pool' \in Pools /\ pool'.phase = "unfunded"
            BY <1>0, <1>2, ReportFacts, TurnTypes DEF Kinds, Phases
        <2>2. /\ chain' = chain /\ funding' = funding
              /\ UNCHANGED <<ledgerVars, limit, overCap, countVars>>
            BY <1>1 DEF inboxVars
        <2>3. TypeOK'
            BY <1>0, <1>2, <2>1, <2>2, IdleFacts, TurnTypes
            DEF TypeOK, ledgerVars, countVars
        <2>4. ChainInv' /\ DeliveredIsFinal' /\ Final' = Final
            BY <2>1, <2>2 DEF DeliveryInv, ChainInv, DeliveredIsFinal, Final
        <2>5. Quiet
            BY <1>1, <2>1, <2>2, <2>4, IdleIsQuiet
        <2>6. funding.gas = "short" /\ (funding.settled \/ funding.clock # "open")
            <3>1. CASE worker.funding.settled
                BY <1>2, <3>1 DEF DeliveryInv, FundingInv
            <3>2. CASE funding.clock = "lapsed"
                BY <1>1, <1>2, <3>2 DEF DeliveryInv, FundingInv
            <3> QED
                BY <1>2, <3>1, <3>2 DEF Foreclosed
        <2>7. FundingInv'
            BY <2>1, <2>2, <2>6, IdleFacts DEF FundingInv, RefusalIsRight
        <2> QED
            BY <2>3, <2>4, <2>5, <2>7, QuietKeeps DEF DeliveryInv
    <1>3. CASE Calm /\ Report("Retryable") /\ RequestTopUp
        <2>1. topUp' \in TopUps
            <3>1. CASE ~MayRequest
                BY <1>0, <1>3, <3>1, TurnTypes DEF RequestTopUp
            <3>2. CASE MayRequest /\ topUp.attempts < MaxTopUpAttempts
                BY <1>0, <1>3, <3>2, TurnTypes, Constants DEF RequestTopUp, TopUps
            <3>3. CASE MayRequest /\ topUp.mark = "none"
                BY <1>0, <1>3, <3>3, TurnTypes, Constants DEF RequestTopUp, TopUps
            <3> QED
                BY <3>1, <3>2, <3>3 DEF MayRequest
        <2> QED
            BY <1>0, <1>1, <1>3, <2>1, TurnEnds, TurnTypes DEF Kinds, Phases
    <1>4. CASE Calm /\ Goto("send") /\ UNCHANGED topUp
        BY <1>0, <1>1, <1>4, GotoFacts, TurnMoves, TurnTypes
        DEF Steps, Early, Looking
    <1>5. CASE Calm /\ Duplicate /\ UNCHANGED topUp
        BY <1>0, <1>1, <1>5, DuplicateFacts, TurnMoves, TurnTypes
        DEF Early, Looking
    <1>6. CASE Refused /\ UNCHANGED topUp
        BY <1>0, <1>1, <1>6, TurnEnds, TurnTypes, FaultAccount DEF Refused, Kinds, Phases
    <1>7. CASE Suffer({"rpc"}) /\ Goto("send") /\ UNCHANGED topUp
        BY <1>0, <1>1, <1>7, GotoFacts, TurnMoves, TurnTypes, FaultAccount
        DEF Steps, Early, Looking
    <1> QED
        BY <1>2, <1>3, <1>4, <1>5, <1>6, <1>7 DEF Estimate

(* Sending deliver, and each way it can fail. *)
LEMMA SendStep ==
    ASSUME DeliveryInv, Send
    PROVE  DeliveryInv'
    <1>0. TypeOK
        BY DEF DeliveryInv
    <1>1. /\ UNCHANGED <<inboxVars, ledgerVars, limit, overCap, topUp, countVars>>
          /\ worker.step = "send" /\ ~Paid
        BY DEF Send, At, Paid
    <1>2. CASE Calm /\ Goto("receipt")
        BY <1>0, <1>1, <1>2, GotoFacts, TurnMoves, TurnTypes
        DEF Steps, Early, Looking
    <1>3. CASE Calm /\ Duplicate
        BY <1>0, <1>1, <1>3, DuplicateFacts, TurnMoves, TurnTypes
        DEF Early, Looking
    <1>4. CASE Suffer({"rpc"}) /\ Again
        BY <1>0, <1>1, <1>4, AgainFacts, TurnMoves, TurnTypes, FaultAccount
        DEF Early, Looking
    <1>5. CASE Suffer({"rpc"}) /\ Report("Retryable")
        BY <1>0, <1>1, <1>5, TurnEnds, TurnTypes, FaultAccount DEF Kinds, Phases
    <1> QED
        BY <1>2, <1>3, <1>4, <1>5 DEF Send

(* The chain moves with the worker's own transaction. *)
LEMMA ExtendTurn ==
    ASSUME DeliveryInv, Quiet, UNCHANGED <<funding, overCap>>,
           NEW s \in Outcomes(Tip), chain' = Extend(s),
           faults' \in 0..MaxFaults, topUp' \in TopUps,
           worker' \in Workers, pool' \in Pools,
           \/ pool'.phase = pool.phase
           \/ pool'.phase = "delivered" /\ Final' = "executed"
           \/ pool'.phase \notin {"delivered", "unfunded"},
           \/ worker' = Idle
           \/ /\ worker'.funding = worker.funding
              /\ worker'.step \in Looking => worker.step \in Looking
    PROVE  DeliveryInv'
    <1>0. TypeOK /\ ChainInv
        BY DEF DeliveryInv
    <1>1. /\ funding' = funding /\ overCap' = overCap
          /\ memory' = memory /\ disk' = disk /\ limit' = limit
          /\ total' = total /\ stalls' = stalls /\ missed' = missed
        BY DEF Quiet, ledgerVars, countVars
    <1>2. s \in Status /\ (Tip = "executed" => s = "executed")
        BY <1>0 DEF Outcomes, Status
    <1>3. /\ chain' \in [1..(Depth + 1) -> Status] /\ ChainInv'
          /\ Final = "executed" => Final' = "executed"
        BY <1>0, <1>2, ExtendKeeps DEF TypeOK
    <1>4. TypeOK'
        BY <1>0, <1>1, <1>3 DEF TypeOK
    <1>5. DeliveredIsFinal'
        BY <1>3 DEF DeliveryInv, DeliveredIsFinal
    <1>6. FundingInv'
        BY <1>1, FundingKept DEF DeliveryInv
    <1> QED
        BY <1>3, <1>4, <1>5, <1>6, QuietKeeps DEF DeliveryInv

(* What the worker's own transaction does to the final block. *)
LEMMA ExtendFinal ==
    ASSUME DeliveryInv, NEW s \in Outcomes(Tip), chain' = Extend(s)
    PROVE  /\ Final = "executed" => Final' = "executed"
           /\ Depth = 0 => Final' = s
    <1>0. TypeOK /\ ChainInv
        BY DEF DeliveryInv
    <1>1. s \in Status /\ (Tip = "executed" => s = "executed")
        BY DEF Outcomes, Status
    <1>2. /\ chain' \in [1..(Depth + 1) -> Status]
          /\ Final = "executed" => Final' = "executed"
        BY <1>0, <1>1, ExtendKeeps DEF TypeOK
    <1>3. Final' = chain'[1]
        <2>1. chain' \in Seq(Status) /\ chain' # << >>
            BY <1>2, Constants, IsASeq, LenProperties, EmptySeq
        <2> QED
            BY <2>1, HeadTailProperties DEF Final
    <1>4. Depth = 0 => chain'[1] = s
        BY <1>0, <1>1, ChainFacts, Constants DEF TypeOK
    <1> QED
        BY <1>2, <1>3, <1>4

(* The receipt of deliver, or the wait for it running out. *)
LEMMA ReceiptStep ==
    ASSUME DeliveryInv, Receipt
    PROVE  DeliveryInv'
    <1>0. TypeOK
        BY DEF DeliveryInv
    <1>1. /\ UNCHANGED <<funding, ledgerVars, limit, overCap, topUp, countVars>>
          /\ worker.step = "receipt" /\ ~Paid
        BY DEF Receipt, At, Paid
    <1>2. ASSUME Calm, NEW s \in Outcomes(Tip), chain' = Extend(s), Logged(s)
          PROVE  DeliveryInv'
        <2>1. Final = "executed" => Final' = "executed"
            BY <1>2, ExtendFinal
        <2>2. CASE s = "executed" /\ Executed
            <3>1. PICK kind \in {"delivered", "AwaitingExecution"} :
                     Report(kind) /\ (kind = "delivered" => Depth = 0)
                BY <2>2 DEF Executed
            <3>2. /\ worker' = Idle /\ pool' \in Pools
                  /\ \/ pool'.phase = pool.phase
                     \/ pool'.phase = "delivered" /\ Depth = 0
                BY <1>0, <3>1, ReportFacts, TurnTypes DEF Kinds, Phases
            <3>3. Quiet
                BY <1>1, <2>1, <3>2, IdleIsQuiet
            <3>4. Depth = 0 => Final' = "executed"
                BY <1>2, <2>2, ExtendFinal
            <3> QED
                BY <1>0, <1>1, <1>2, <3>2, <3>3, <3>4, IdleFacts, TurnTypes, ExtendTurn
        <2>3. CASE Report("AwaitingExecution")
            <3>1. /\ worker' = Idle /\ pool' \in Pools /\ pool'.phase = pool.phase
                BY <1>0, <2>3, ReportFacts, TurnTypes DEF Kinds, Phases
            <3>2. Quiet
                BY <1>1, <2>1, <3>1, IdleIsQuiet
            <3> QED
                BY <1>0, <1>1, <1>2, <3>1, <3>2, IdleFacts, TurnTypes, ExtendTurn
        <2>4. CASE Goto("start")
            <3>1. /\ worker' \in Workers /\ pool' = pool /\ worker'.step = "start"
                  /\ worker'.funding = worker.funding /\ worker'.state = worker.state
                BY <1>0, <2>4, GotoFacts, TurnTypes DEF Steps
            <3>2. Quiet
                BY <1>1, <2>1, <3>1, MoveIsQuiet DEF Early
            <3>3. worker'.step \notin Looking
                BY <3>1 DEF Looking
            <3> QED
                BY <1>0, <1>1, <1>2, <3>1, <3>2, <3>3, TurnTypes, ExtendTurn
        <2> QED
            BY <1>2, <2>2, <2>3, <2>4 DEF Logged
    <1>3. CASE UNCHANGED chain
        <2>0. UNCHANGED inboxVars
            BY <1>1, <1>3 DEF inboxVars
        <2>1. CASE Calm /\ Duplicate
            BY <1>0, <1>1, <2>0, <2>1, DuplicateFacts, TurnMoves, TurnTypes
            DEF Early, Looking
        <2>2. CASE Suffer({"rpc"}) /\ Again
            BY <1>0, <1>1, <2>0, <2>2, AgainFacts, TurnMoves, TurnTypes, FaultAccount
            DEF Early, Looking
        <2>3. CASE Suffer({"rpc"}) /\ Report("Retryable")
            BY <1>0, <1>1, <2>0, <2>3, TurnEnds, TurnTypes, FaultAccount
            DEF Kinds, Phases
        <2> QED
            BY <1>2, <2>1, <2>2, <2>3 DEF Receipt
    <1> QED
        BY <1>2, <1>3 DEF Receipt

-----------------------------------------------------------------------------
(* reconcile_execution.                                                    *)

(* No copy overcharges, in terms of what is charged. *)
LEMMA ChargeFacts ==
    ASSUME TypeOK
    PROVE  /\ Count(memory) \in Nat /\ Count(disk) \in Nat /\ Charged \in Nat
           /\ Count(memory) <= Charged /\ Count(disk) <= Charged
           /\ Charged \in {Count(memory), Count(disk)}
           /\ limit \in Nat /\ total \in Nat /\ stalls \in Nat /\ missed \in Nat
           /\ NoOvercharge <=> Charged <= total + stalls
           /\ Tombstone => Abandoned
           /\ worker.state \in Entry \cup {NoEntry}
    <1>0. /\ memory \in Entry \cup {NoEntry} /\ disk \in Entry \cup {NoEntry}
          /\ limit \in Nat /\ total \in Nat /\ stalls \in Nat /\ missed \in Nat
          /\ worker.state \in Entry \cup {NoEntry}
        BY Constants DEF TypeOK, Workers
    <1>1. Count(memory) \in Nat /\ Count(disk) \in Nat
        BY <1>0, EntryFacts
    <1>2. /\ Charged \in Nat /\ Count(memory) <= Charged /\ Count(disk) <= Charged
          /\ Charged \in {Count(memory), Count(disk)}
        BY <1>1 DEF Charged, Larger
    <1>3. NoOvercharge <=> /\ memory # NoEntry => memory.attempts <= total + stalls
                           /\ disk # NoEntry => disk.attempts <= total + stalls
        BY DEF NoOvercharge
    <1>4. /\ memory # NoEntry => Count(memory) = memory.attempts
          /\ disk # NoEntry => Count(disk) = disk.attempts
          /\ memory = NoEntry => Count(memory) = 0
          /\ disk = NoEntry => Count(disk) = 0
        BY <1>0, EntryFacts
    <1>5. NoOvercharge <=> Count(memory) <= total + stalls /\ Count(disk) <= total + stalls
        BY <1>0, <1>1, <1>3, <1>4
    <1>6. Tombstone => Abandoned
        BY DEF Tombstone, Abandoned
    <1> QED
        BY <1>0, <1>1, <1>2, <1>5, <1>6

(* The same in one formula, *)
LEMMA ChargeFormula ==
    TypeOK => /\ Count(memory) \in Nat /\ Charged \in Nat
              /\ (NoOvercharge <=> Charged <= total + stalls)
    BY ChargeFacts

(* and so of the next state. *)
LEMMA ChargeFactsNext ==
    ASSUME TypeOK'
    PROVE  /\ Count(memory)' \in Nat /\ Charged' \in Nat
           /\ (NoOvercharge' <=> Charged' <= total' + stalls')
    <1>1. (TypeOK => /\ Count(memory) \in Nat /\ Charged \in Nat
                     /\ (NoOvercharge <=> Charged <= total + stalls))'
        BY ChargeFormula, PTL
    <1> QED
        BY <1>1

(* A larger allowance allows no less. *)
LEMMA Roomier ==
    ASSUME NEW n \in Nat, NEW a \in Nat, NEW b \in Nat, NEW c \in Nat, b >= a,
           n <= a + c
    PROVE  n <= b + c + 0 /\ n <= c + b
    OBVIOUS

(* The end: what is executed for good is forgotten and reported. *)
LEMMA SettleStep ==
    ASSUME DeliveryInv, Settle, UNCHANGED <<funding, limit, overCap, topUp, countVars>>,
           chain' \in [1..(Depth + 1) -> Status], ChainInv', Final' = "executed"
    PROVE  DeliveryInv'
    <1>0. TypeOK
        BY DEF DeliveryInv
    <1>1. PICK bad \in SUBSET {"write"} :
             Suffer(bad) /\ Forget("write" \notin bad) /\ Report("delivered")
        BY DEF Settle
    <1>2. /\ worker' = Idle /\ pool' \in Pools /\ pool'.phase = "delivered"
        BY <1>0, <1>1, ReportFacts, TurnTypes DEF Kinds, Phases
    <1>3. memory' = NoEntry /\ disk' \in {disk, NoEntry}
        BY <1>1 DEF Forget
    <1>4. faults' \in 0..MaxFaults
        BY <1>0, <1>1, FaultAccount, TurnTypes
    <1>5. funding' = funding /\ limit' = limit /\ total' = total
          /\ stalls' = stalls /\ missed' = missed
        BY DEF countVars
    <1>6. TypeOK'
        BY <1>0, <1>2, <1>3, <1>4, <1>5, IdleFacts DEF TypeOK
    <1>7. DeliveredIsFinal'
        BY DEF DeliveredIsFinal
    <1>8. worker'.step = "idle" /\ worker'.state = NoEntry
        BY <1>2, IdleFacts
    <1>9. LedgerInv'
        BY <1>3, <1>8 DEF LedgerInv, Paying, Paid, Holding
    <1>10. BudgetInv'
        <2>1. Forgotten'
            BY <1>8 DEF Forgotten
        <2>2. RetryBudget'
            BY <1>5 DEF DeliveryInv, BudgetInv, RetryBudget
        <2> QED
            BY <2>1, <2>2 DEF BudgetInv
    <1>11. ChargeInv'
        <2>1. NoOvercharge'
            BY <1>3, <1>5 DEF DeliveryInv, ChargeInv, NoOvercharge
        <2> QED
            BY <1>8, <2>1 DEF ChargeInv, Paid
    <1>12. FundingInv'
        BY <1>2, <1>5, FundingKept DEF DeliveryInv
    <1> QED
        BY <1>6, <1>7, <1>9, <1>10, <1>11, <1>12 DEF DeliveryInv

(* A read that fails ends the turn and charges nothing. *)
LEMMA ReadFailsStep ==
    ASSUME DeliveryInv, ReadFails, ~Paid,
           UNCHANGED <<inboxVars, limit, overCap, topUp, countVars>>
    PROVE  DeliveryInv'
    <1>0. TypeOK
        BY DEF DeliveryInv
    <1> QED
        BY <1>0, TurnEnds, TurnTypes, FaultAccount DEF ReadFails, Kinds, Phases

(* An execution seen at the tip is at most Depth blocks old, as far as the *)
(* window goes.                                                            *)
LEMMA AgeInWindow ==
    ASSUME TypeOK, Tip = "executed"
    PROVE  Cardinality({k \in DOMAIN chain : chain[k] = "executed"}) - 1 \in 0..Depth
    <1> DEFINE S == {k \in 1..(Depth + 1) : chain[k] = "executed"}
    <1>1. DOMAIN chain = 1..(Depth + 1) /\ Tip = chain[Depth + 1]
        BY ChainFacts DEF TypeOK, Status
    <1>2. Depth + 1 \in S
        BY <1>1, Constants
    <1>3. IsFiniteSet(1..(Depth + 1)) /\ Cardinality(1..(Depth + 1)) = Depth + 1
        BY Constants, FS_Interval
    <1>4. /\ IsFiniteSet(S) /\ Cardinality(S) \in Nat /\ Cardinality(S) <= Depth + 1
        BY <1>3, FS_Subset, FS_CardinalityType
    <1>5. Cardinality(S) # 0
        BY <1>2, <1>4, FS_EmptySet
    <1>6. {k \in DOMAIN chain : chain[k] = "executed"} = S
        BY <1>1, Zenon
    <1> HIDE DEF S
    <1>7. Cardinality(S) - 1 \in 0..Depth
        BY <1>4, <1>5, Constants
    <1> QED
        BY <1>6, <1>7, Zenon

(* The read of processedAt at the tip. *)
LEMMA ProcessedStep ==
    ASSUME DeliveryInv, ReadProcessed
    PROVE  DeliveryInv'
    <1>0. TypeOK /\ ChainInv
        BY DEF DeliveryInv
    <1>1. /\ UNCHANGED <<inboxVars, limit, overCap, topUp, countVars>>
          /\ worker.step = "processed" /\ ~Paid
        BY DEF ReadProcessed, At, Paid
    <1>2. CASE ReadFails
        BY <1>1, <1>2, ReadFailsStep
    <1>3. CASE Tip = "executed" /\ Depth = 0 /\ Settle
        <2>1. chain' = chain
            BY <1>1 DEF inboxVars
        <2>2. Final = "executed"
            BY <1>0, <1>3, ChainFacts DEF TypeOK, Status
        <2>3. /\ chain' \in [1..(Depth + 1) -> Status] /\ ChainInv' /\ Final' = "executed"
            BY <1>0, <2>1, <2>2 DEF TypeOK, ChainInv, Final
        <2>4. UNCHANGED <<funding, limit, overCap, topUp, countVars>>
            BY <1>1 DEF inboxVars
        <2> QED
            BY <1>3, <2>3, <2>4, SettleStep
    <1>4. CASE /\ Tip = "executed" /\ Calm
               /\ worker' = [worker EXCEPT !.step = "confirmed",
                                !.age = Cardinality({k \in DOMAIN chain :
                                                       chain[k] = "executed"}) - 1]
               /\ UNCHANGED <<pool, ledgerVars>>
        <2> DEFINE a == Cardinality({k \in DOMAIN chain : chain[k] = "executed"}) - 1
        <2>1. a \in 0..Depth
            BY <1>0, <1>4, AgeInWindow
        <2>2. worker \in Workers /\ worker' = [worker EXCEPT !.step = "confirmed", !.age = a]
            BY <1>0, <1>4, TurnTypes
        <2>3. "confirmed" \in Steps
            BY DEF Steps
        <2> HIDE DEF a
        <2>4. /\ worker' \in Workers /\ worker'.step = "confirmed"
              /\ worker'.funding = worker.funding /\ worker'.state = worker.state
            BY <2>1, <2>2, <2>3 DEF Workers
        <2> QED
            BY <1>0, <1>1, <1>4, <2>4, TurnMoves, TurnTypes DEF Early, Looking
    <1>5. CASE Calm /\ Goto("pending") /\ UNCHANGED ledgerVars
        BY <1>0, <1>1, <1>5, GotoFacts, TurnMoves, TurnTypes DEF Steps, Early, Looking
    <1> QED
        BY <1>2, <1>3, <1>4, <1>5 DEF ReadProcessed

(* The read of processedAt in the confirmed block. *)
LEMMA ConfirmedStep ==
    ASSUME DeliveryInv, ReadConfirmed
    PROVE  DeliveryInv'
    <1>0. TypeOK /\ ChainInv
        BY DEF DeliveryInv
    <1>1. /\ UNCHANGED <<inboxVars, limit, overCap, topUp, countVars>>
          /\ worker.step = "confirmed" /\ ~Paid
        BY DEF ReadConfirmed, At, Paid
    <1>2. CASE ReadFails
        BY <1>1, <1>2, ReadFailsStep
    <1>3. CASE Confirmed /\ Settle
        <2>1. chain' = chain /\ UNCHANGED <<funding, limit, overCap, topUp, countVars>>
            BY <1>1 DEF inboxVars
        <2>2. /\ chain' \in [1..(Depth + 1) -> Status] /\ ChainInv' /\ Final' = "executed"
            BY <1>0, <1>3, <2>1 DEF TypeOK, ChainInv, Final, Confirmed
        <2> QED
            BY <1>3, <2>1, <2>2, SettleStep
    <1>4. CASE Calm /\ Report("AwaitingExecution") /\ UNCHANGED ledgerVars
        BY <1>0, <1>1, <1>4, TurnEnds, TurnTypes DEF Kinds, Phases
    <1> QED
        BY <1>2, <1>3, <1>4 DEF ReadConfirmed

(* The read of whether the message is pending at the Inbox. *)
LEMMA PendingStep ==
    ASSUME DeliveryInv, ReadPending
    PROVE  DeliveryInv'
    <1>0. TypeOK /\ ChainInv
        BY DEF DeliveryInv
    <1>1. /\ UNCHANGED <<inboxVars, limit, overCap, topUp, countVars>>
          /\ worker.step = "pending" /\ ~Paid
        BY DEF ReadPending, At, Paid
    <1>2. CASE ReadFails
        BY <1>1, <1>2, ReadFailsStep
    <1>3. CASE /\ Tip = "pending" /\ Calm
               /\ worker' = [worker EXCEPT !.step = "retry", !.queued = TRUE]
               /\ UNCHANGED <<pool, ledgerVars>>
        <2>1. /\ worker' \in Workers /\ worker'.step = "retry" /\ worker'.queued = TRUE
              /\ worker'.funding = worker.funding /\ worker'.state = worker.state
            BY <1>0, <1>3, TurnTypes DEF Workers, Steps
        <2>2. Final # "executed"
            BY <1>0, <1>3, FinalAtTip DEF TypeOK
        <2>3. Quiet
            BY <1>1, <1>3, <2>1, <2>2 DEF Quiet, Paying, Paid, Holding, Forgotten
        <2>4. worker'.step \notin Looking /\ pool' = pool
            BY <1>3, <2>1 DEF Looking
        <2> QED
            BY <1>0, <1>1, <1>3, <2>1, <2>3, <2>4, TurnKeeps, TurnTypes
    <1>4. CASE Calm /\ Goto("retryable") /\ UNCHANGED ledgerVars
        BY <1>0, <1>1, <1>4, GotoFacts, TurnMoves, TurnTypes DEF Steps, Early, Looking
    <1> QED
        BY <1>2, <1>3, <1>4 DEF ReadPending

(* The read of whether the message failed, or was never accepted. *)
LEMMA RetryableStep ==
    ASSUME DeliveryInv, ReadRetryable
    PROVE  DeliveryInv'
    <1>0. TypeOK /\ ChainInv
        BY DEF DeliveryInv
    <1>1. /\ UNCHANGED <<inboxVars, limit, overCap, topUp, countVars>>
          /\ worker.step = "retryable" /\ ~Paid
        BY DEF ReadRetryable, At, Paid
    <1>2. CASE ReadFails
        BY <1>1, <1>2, ReadFailsStep
    <1>3. CASE Tip = "failed" /\ Calm /\ Goto("gate") /\ UNCHANGED ledgerVars
        <2>1. /\ worker' \in Workers /\ worker'.step = "gate" /\ pool' = pool
              /\ worker'.funding = worker.funding /\ worker'.state = worker.state
            BY <1>0, <1>3, TurnTypes, GotoFacts DEF Steps
        <2>2. Final # "executed"
            BY <1>0, <1>3, FinalAtTip DEF TypeOK
        <2>3. Quiet
            BY <1>1, <1>3, <2>1, <2>2 DEF Quiet, Paying, Paid, Holding, Forgotten
        <2>4. worker'.step \notin Looking
            BY <2>1 DEF Looking
        <2> QED
            BY <1>0, <1>1, <1>3, <2>1, <2>3, <2>4, TurnKeeps, TurnTypes
    <1>4. CASE /\ Calm /\ Report(IF worker.dup THEN "Retryable" ELSE "AwaitingVotes")
               /\ UNCHANGED ledgerVars
        <2>1. PICK kind \in {"Retryable", "AwaitingVotes"} : Report(kind)
            BY <1>4
        <2> QED
            BY <1>0, <1>1, <1>4, <2>1, TurnEnds, TurnTypes DEF Kinds, Phases
    <1> QED
        BY <1>2, <1>3, <1>4 DEF ReadRetryable

(* estimate_gas and the preflight of a retry. *)
LEMMA PreflightStep ==
    ASSUME DeliveryInv, Preflight
    PROVE  DeliveryInv'
    <1>0. TypeOK
        BY DEF DeliveryInv
    <1>1. /\ UNCHANGED <<inboxVars, ledgerVars, limit, overCap, topUp, countVars>>
          /\ worker.step = "retry" /\ ~Paid
        BY DEF Preflight, At, Paid
    <1>2. CASE Calm /\ Goto("resend")
        <2>1. /\ worker' \in Workers /\ worker'.step = "resend" /\ pool' = pool
              /\ worker'.funding = worker.funding /\ worker'.state = worker.state
              /\ worker'.queued = worker.queued
            BY <1>0, <1>2, TurnTypes, GotoFacts DEF Steps
        <2>2. Quiet
            BY <1>1, <2>1 DEF Quiet, Paying, Paid, Holding, Forgotten
        <2>3. worker'.step \notin Looking
            BY <2>1 DEF Looking
        <2> QED
            BY <1>0, <1>1, <1>2, <2>1, <2>2, <2>3, TurnKeeps, TurnTypes
    <1>3. CASE Report("AwaitingExecution") /\ (Calm \/ Suffer({"rpc"}))
        BY <1>0, <1>1, <1>3, TurnEnds, TurnTypes, FaultAccount DEF Kinds, Phases
    <1> QED
        BY <1>2, <1>3 DEF Preflight

(* The broadcast of retryPendingMessage. *)
LEMMA ResendPendingStep ==
    ASSUME DeliveryInv, ResendPending
    PROVE  DeliveryInv'
    <1>0. TypeOK
        BY DEF DeliveryInv
    <1>1. /\ UNCHANGED <<inboxVars, ledgerVars, limit, overCap, topUp, countVars>>
          /\ worker.step = "resend" /\ worker.queued /\ ~Paid
        BY DEF ResendPending, At, Paid
    <1>2. CASE Calm /\ Goto("await")
        <2>1. /\ worker' \in Workers /\ worker'.step = "await" /\ pool' = pool
              /\ worker'.funding = worker.funding /\ worker'.state = worker.state
              /\ worker'.queued = worker.queued
            BY <1>0, <1>2, TurnTypes, GotoFacts DEF Steps
        <2>2. Quiet
            BY <1>1, <2>1 DEF Quiet, Paying, Paid, Holding, Forgotten
        <2>3. worker'.step \notin Looking
            BY <2>1 DEF Looking
        <2> QED
            BY <1>0, <1>1, <1>2, <2>1, <2>2, <2>3, TurnKeeps, TurnTypes
    <1>3. CASE Suffer({"rpc"}) /\ Report("AwaitingExecution")
        BY <1>0, <1>1, <1>3, TurnEnds, TurnTypes, FaultAccount DEF Kinds, Phases
    <1> QED
        BY <1>2, <1>3 DEF ResendPending

(* The receipt of a retry. *)
LEMMA AwaitStep ==
    ASSUME DeliveryInv, AwaitRetry
    PROVE  DeliveryInv'
    <1>0. TypeOK
        BY DEF DeliveryInv
    <1>1. /\ UNCHANGED <<funding, limit, overCap, topUp, countVars>>
          /\ worker.step = "await" /\ ~Paid
        BY DEF AwaitRetry, At, Paid
    <1>t. /\ worker \in Workers /\ pool \in Pools /\ topUp' \in TopUps
        BY <1>0, <1>1, TurnTypes
    <1>2. ASSUME worker.queued = FALSE
          PROVE  worker.state \in Entry
        BY <1>0, <1>1, <1>2, ChargeFacts DEF DeliveryInv, LedgerInv, Holding
    <1>3. ASSUME UNCHANGED ledgerVars, Final = "executed" => Final' = "executed",
                 \/ Report("AwaitingExecution")
                 \/ worker.queued /\ Goto("start")
                 \/ worker.queued = FALSE /\ AfterFailedRetry(worker.state)
          PROVE  /\ Quiet /\ worker' \in Workers /\ pool' \in Pools
                 /\ pool'.phase = pool.phase
                 /\ \/ worker' = Idle
                    \/ /\ worker'.funding = worker.funding
                       /\ worker'.step \notin Looking
        <2>1. CASE Report("AwaitingExecution")
            <3>1. /\ worker' = Idle /\ pool' \in Pools /\ pool'.phase = pool.phase
                BY <1>t, <2>1, ReportFacts DEF Kinds, Phases
            <3> QED
                BY <1>1, <1>3, <3>1, IdleIsQuiet, IdleFacts
        <2>2. CASE Goto("start")
            <3>1. /\ worker' \in Workers /\ pool' = pool /\ worker'.step = "start"
                  /\ worker'.funding = worker.funding /\ worker'.state = worker.state
                BY <1>t, <2>2, GotoFacts DEF Steps
            <3> QED
                BY <1>1, <1>t, <1>3, <3>1, MoveIsQuiet DEF Early, Looking
        <2>3. CASE worker.queued = FALSE /\ AfterFailedRetry(worker.state)
            <3>1. /\ worker' \in Workers /\ pool' \in Pools /\ pool'.phase = pool.phase
                  /\ \/ worker' = Idle
                     \/ /\ worker'.step = "giveUp" /\ worker'.funding = worker.funding
                        /\ worker'.queued = worker.queued
                        /\ worker'.state = worker.state
                BY <1>t, <1>2, <2>3, AfterFacts
            <3>2. CASE worker' = Idle
                BY <1>1, <1>3, <3>1, <3>2, IdleIsQuiet
            <3>3. CASE /\ worker'.step = "giveUp" /\ worker'.funding = worker.funding
                       /\ worker'.queued = worker.queued
                       /\ worker'.state = worker.state
                <4>1. Quiet
                    BY <1>1, <1>3, <2>3, <3>3 DEF Quiet, Paying, Paid, Holding, Forgotten
                <4> QED
                    BY <3>1, <3>3, <4>1 DEF Looking
            <3> QED
                BY <3>1, <3>2, <3>3
        <2> QED
            BY <1>3, <2>1, <2>2, <2>3
    <1>4. ASSUME NEW s \in Outcomes(Tip), chain' = Extend(s), Depth = 0, Settle,
                 s = "executed"
          PROVE  DeliveryInv'
        <2>1. s \in Status /\ (Tip = "executed" => s = "executed")
            BY <1>4 DEF Status
        <2>2. /\ chain' \in [1..(Depth + 1) -> Status] /\ ChainInv'
            BY <1>0, <1>4, <2>1, ExtendKeeps DEF TypeOK, DeliveryInv
        <2>3. Final' = "executed"
            BY <1>4, ExtendFinal
        <2> QED
            BY <1>1, <1>4, <2>2, <2>3, SettleStep
    <1>5. ASSUME NEW s \in Outcomes(Tip), chain' = Extend(s),
                 faults' \in 0..MaxFaults, UNCHANGED ledgerVars,
                 \/ Report("AwaitingExecution")
                 \/ worker.queued /\ Goto("start")
                 \/ worker.queued = FALSE /\ AfterFailedRetry(worker.state)
          PROVE  DeliveryInv'
        <2>1. Final = "executed" => Final' = "executed"
            BY <1>5, ExtendFinal
        <2> QED
            BY <1>1, <1>t, <1>3, <1>5, <2>1, ExtendTurn
    <1>6. ASSUME faults' \in 0..MaxFaults, UNCHANGED <<chain, ledgerVars>>, NoProgress
          PROVE  DeliveryInv'
        <2>1. UNCHANGED inboxVars /\ Final' = Final
            BY <1>1, <1>6 DEF inboxVars, Final
        <2>2. \/ Report("AwaitingExecution")
              \/ worker.queued = FALSE /\ AfterFailedRetry(worker.state)
            BY <1>t, <1>6 DEF NoProgress, Workers
        <2> QED
            BY <1>1, <1>t, <1>3, <1>6, <2>1, <2>2, TurnKeeps
    <1>7. ASSUME Tip = Expected,
                 NEW s \in Outcomes(Tip), chain' = Extend(s),
                 \/ s = "executed" /\ Depth = 0 /\ Settle
                 \/ /\ s = "executed" /\ Depth > 0 /\ Calm
                    /\ Report("AwaitingExecution") /\ UNCHANGED ledgerVars
                 \/ /\ s = "pending"
                    /\ IF worker.queued THEN Suffer({"rpc"}) ELSE Calm
                    /\ Report("AwaitingExecution") /\ UNCHANGED ledgerVars
                 \/ /\ s = "failed" /\ Calm /\ UNCHANGED ledgerVars
                    /\ IF worker.queued THEN Goto("start")
                       ELSE AfterFailedRetry(worker.state)
          PROVE  DeliveryInv'
        <2>1. Calm \/ Suffer({"rpc"}) => faults' \in 0..MaxFaults
            BY <1>0, TurnTypes, FaultAccount
        <2>2. CASE s = "executed" /\ Depth = 0 /\ Settle
            BY <1>4, <1>7, <2>2
        <2>3. CASE /\ Calm \/ Suffer({"rpc"})
                   /\ Report("AwaitingExecution") /\ UNCHANGED ledgerVars
            BY <1>5, <1>7, <2>1, <2>3
        <2>4. CASE /\ Calm /\ UNCHANGED ledgerVars
                   /\ IF worker.queued THEN Goto("start")
                      ELSE AfterFailedRetry(worker.state)
            <3>1. \/ worker.queued /\ Goto("start")
                  \/ worker.queued = FALSE /\ AfterFailedRetry(worker.state)
                BY <1>t, <2>4 DEF Workers
            <3> QED
                BY <1>5, <1>7, <2>1, <2>4, <3>1
        <2> QED
            BY <1>7, <2>2, <2>3, <2>4
    <1>8. Calm \/ Suffer({"rpc"}) => faults' \in 0..MaxFaults
        BY <1>0, TurnTypes, FaultAccount
    <1> QED
        BY <1>6, <1>7, <1>8 DEF AwaitRetry

-----------------------------------------------------------------------------
(* The ledger.                                                             *)

(* get: what was read is remembered, which changes what is charged in      *)
(* neither direction and keeps memory no laxer than the file.              *)
LEMMA CacheFacts ==
    ASSUME TypeOK, LedgerInv, NEW readable \in BOOLEAN, Cache(readable)
    PROVE  /\ memory' \in Entry \cup {NoEntry} /\ disk' = disk
           /\ Charged' = Charged /\ (Abandoned' <=> Abandoned)
           /\ Tombstone' = Tombstone
           /\ Count(memory)' = Count(Seen(readable))
           /\ memory' # NoEntry /\ disk' # NoEntry /\ disk'.gaveUp => memory'.gaveUp
           /\ memory' # NoEntry /\ ~memory'.gaveUp => Count(memory)' >= Count(disk)'
    <1>1. memory' = Seen(readable) /\ disk' = disk
        BY DEF Cache
    <1>2. /\ memory \in Entry \cup {NoEntry} /\ disk \in Entry \cup {NoEntry}
        BY DEF TypeOK
    <1>3. /\ Count(memory)' = Count(Seen(readable)) /\ Count(disk)' = Count(disk)
          /\ Tombstone' = Tombstone
        BY <1>1 DEF Count, Tombstone
    <1>4. Count(memory) \in Nat /\ Count(disk) \in Nat /\ Count(Seen(readable)) \in Nat
        BY <1>2, SeenFacts, EntryFacts
    <1>5. CASE readable
        <2>1. /\ Count(Seen(readable)) = Charged
              /\ Seen(readable) = NoEntry => disk = NoEntry /\ memory = NoEntry
              /\ Seen(readable) # NoEntry => (Seen(readable).gaveUp <=> Abandoned)
            BY <1>2, <1>5, SeenFacts
        <2>2. Charged' = Charged /\ Charged >= Count(disk)
            BY <1>3, <1>4, <2>1 DEF Charged, Larger
        <2>3. disk # NoEntry /\ disk.gaveUp => Abandoned
            BY DEF Abandoned
        <2>4. Abandoned' <=> Abandoned
            BY <1>1, <2>1, <2>3 DEF Abandoned
        <2> QED
            BY <1>1, <1>2, <1>3, <2>1, <2>2, <2>3, <2>4, SeenFacts
    <1>6. CASE ~readable
        <2>1. memory' = memory
            BY <1>1, <1>2, <1>6, SeenFacts
        <2> QED
            BY <1>1, <1>2, <1>3, <2>1 DEF LedgerInv, Abandoned, Charged, Count
    <1> QED
        BY <1>5, <1>6

(* DestinationFailed for the first time. *)
LEMMA StartStep ==
    ASSUME DeliveryInv, StartSchedule
    PROVE  DeliveryInv'
    <1>0. TypeOK /\ LedgerInv
        BY DEF DeliveryInv
    <1>1. /\ UNCHANGED <<inboxVars, limit, overCap, topUp, countVars>>
          /\ worker.step = "start"
        BY DEF StartSchedule, At
    <1>2. PICK bad \in SUBSET {"read", "write"} :
             /\ Suffer(bad) /\ Start("read" \notin bad, "write" \notin bad)
             /\ LET e == Started("read" \notin bad) IN
                \/ /\ worker' = [worker EXCEPT !.step = "giveUp", !.state = e]
                   /\ UNCHANGED pool
                \/ Report("AwaitingExecution")
        BY DEF StartSchedule
    <1> DEFINE readable == "read" \notin bad
               e == Started(readable)
    <1>3. readable \in BOOLEAN
        OBVIOUS
    <1>4. /\ memory \in Entry \cup {NoEntry} /\ disk \in Entry \cup {NoEntry}
          /\ worker \in Workers /\ pool \in Pools
        BY <1>0 DEF TypeOK
    <1> HIDE DEF readable
    <1>5. e \in Entry /\ e.attempts = Count(Seen(readable))
        BY <1>3, <1>4, PutFacts
    <1>6. /\ worker' \in Workers /\ pool' \in Pools /\ pool'.phase = pool.phase
          /\ \/ worker' = Idle
             \/ /\ worker'.step = "giveUp" /\ worker'.funding = worker.funding
                /\ worker'.state = e
        <2>1. CASE /\ worker' = [worker EXCEPT !.step = "giveUp", !.state = e]
                   /\ UNCHANGED pool
            BY <1>4, <1>5, <2>1, HoldFacts DEF Steps
        <2>2. CASE Report("AwaitingExecution")
            BY <1>4, <2>2, ReportFacts, IdleFacts DEF Kinds, Phases
        <2> QED
            BY <1>2, <2>1, <2>2 DEF readable
    <1>7. faults' \in 0..MaxFaults
        BY <1>0, <1>2, FaultAccount, TurnTypes
    <1>8. /\ memory' \in Entry \cup {NoEntry} /\ disk' \in Entry \cup {NoEntry}
          /\ Charged' = Charged /\ (Tombstone' <=> Tombstone)
          /\ Count(memory)' = Count(Seen(readable))
          /\ memory' # NoEntry /\ disk' # NoEntry /\ disk'.gaveUp => memory'.gaveUp
          /\ memory' # NoEntry /\ ~memory'.gaveUp => Count(memory)' >= Count(disk)'
        <2>1. CASE Cache(readable)
            BY <1>0, <1>3, <1>4, <2>1, CacheFacts
        <2>2. CASE /\ ~Unknown(readable) /\ Seen(readable) = NoEntry
                   /\ Put(First, "write" \notin bad)
            <3>1. memory = NoEntry /\ disk = NoEntry
                BY <1>3, <1>4, <2>2, SeenFacts DEF Unknown
            <3>2. /\ First \in Entry /\ First.attempts = 0 /\ ~First.gaveUp
                BY <1>3, <1>4, PutFacts
            <3>3. memory' = First /\ disk' \in {First, NoEntry}
                BY <2>2, <3>1 DEF Put
            <3>4. /\ Count(memory) = 0 /\ Count(disk) = 0 /\ Count(NoEntry) = 0
                  /\ Count(First) = 0
                BY <3>1, <3>2, EntryFacts, Constants
            <3>5. Count(memory)' = 0 /\ Count(disk)' = 0
                BY <3>3, <3>4 DEF Count
            <3> QED
                BY <2>2, <3>1, <3>2, <3>3, <3>4, <3>5, Constants
                DEF Charged, Larger, Tombstone
        <2> QED
            BY <1>2, <2>1, <2>2 DEF Start, readable
    <1>9. /\ chain' = chain /\ funding' = funding /\ limit' = limit
          /\ total' = total /\ stalls' = stalls /\ missed' = missed
        BY <1>1 DEF inboxVars, countVars
    <1>10. TypeOK'
        BY <1>0, <1>1, <1>6, <1>7, <1>8, <1>9 DEF TypeOK
    <1>11. ChainInv' /\ DeliveredIsFinal' /\ Final' = Final
        BY <1>6, <1>9 DEF DeliveryInv, ChainInv, DeliveredIsFinal, Final
    <1>12. worker'.step \in {"idle", "giveUp"} /\ worker'.state \in {NoEntry, e}
           /\ (worker'.step = "giveUp" => worker'.state = e)
        BY <1>6, IdleFacts
    <1>13. ~Paying' /\ ~Paid' /\ (Holding' => worker'.state = e)
           /\ (Forgotten => Forgotten')
        BY <1>11, <1>12 DEF Paying, Paid, Holding, Forgotten
    <1>14. LedgerInv'
        <2>1. e # NoEntry
            BY <1>5, Constants
        <2>2. Count(memory)' \in Nat
            BY <1>10, ChargeFactsNext
        <2> QED
            BY <1>5, <1>8, <1>13, <2>1, <2>2 DEF LedgerInv
    <1>15. BudgetInv'
        <2>1. RetryBudget'
            BY <1>9 DEF DeliveryInv, BudgetInv, RetryBudget
        <2>2. ~Paid
            BY <1>1 DEF Paid
        <2> QED
            BY <1>8, <1>9, <1>13, <2>1, <2>2 DEF DeliveryInv, BudgetInv
    <1>16. ChargeInv'
        <2>1. Charged <= total + stalls /\ Count(Seen(readable)) <= Charged
            BY <1>0, <1>3, <1>4, ChargeFacts, SeenFacts DEF DeliveryInv, ChargeInv
        <2>2. NoOvercharge'
            <3>1. NoOvercharge' <=> Charged' <= total' + stalls'
                BY <1>10, ChargeFactsNext
            <3> QED
                BY <1>8, <1>9, <2>1, <3>1
        <2>3. e.attempts <= total + stalls
            BY <1>0, <1>5, <2>1, ChargeFacts DEF Entry
        <2> QED
            BY <1>9, <1>12, <1>13, <2>2, <2>3 DEF ChargeInv
    <1>17. FundingInv'
        <2>1. worker'.step \notin Looking
            BY <1>12 DEF Looking
        <2> QED
            BY <1>6, <1>9, <2>1, FundingKept DEF DeliveryInv
    <1> QED
        BY <1>10, <1>11, <1>14, <1>15, <1>16, <1>17 DEF DeliveryInv

(* The gate lets through only a message that neither copy has given up and *)
(* that both count below the limit.                                        *)
LEMMA GateStep ==
    ASSUME DeliveryInv, CheckGate
    PROVE  DeliveryInv'
    <1>0. TypeOK /\ LedgerInv
        BY DEF DeliveryInv
    <1>1. /\ UNCHANGED <<inboxVars, limit, overCap, topUp, countVars>>
          /\ worker.step = "gate"
        BY DEF CheckGate, At
    <1>2. PICK bad \in SUBSET {"read"} :
             LET readable == "read" \notin bad
                 e == OrDefault(Seen(readable)) IN
             /\ Suffer(bad) /\ Cache(readable)
             /\ \/ /\ worker' = [worker EXCEPT !.step = "giveUp", !.state = e]
                   /\ UNCHANGED pool
                \/ Report("AwaitingExecution")
                \/ ~Unknown(readable) /\ ~Spent(e, limit) /\ Goto("retry")
        BY DEF CheckGate, Waits
    <1> DEFINE readable == "read" \notin bad
               e == OrDefault(Seen(readable))
    <1>3. readable \in BOOLEAN
        OBVIOUS
    <1>4. /\ memory \in Entry \cup {NoEntry} /\ disk \in Entry \cup {NoEntry}
          /\ worker \in Workers /\ pool \in Pools
        BY <1>0 DEF TypeOK
    <1>c. Cache(readable)
        BY <1>2
    <1> HIDE DEF readable
    <1>5. e \in Entry /\ e.attempts = Count(Seen(readable))
        BY <1>3, <1>4, SeenFacts, EntryFacts DEF Count
    <1>6. /\ memory' \in Entry \cup {NoEntry} /\ disk' = disk
          /\ Charged' = Charged /\ (Abandoned' <=> Abandoned) /\ Tombstone' = Tombstone
          /\ Count(memory)' = Count(Seen(readable))
          /\ memory' # NoEntry /\ disk' # NoEntry /\ disk'.gaveUp => memory'.gaveUp
          /\ memory' # NoEntry /\ ~memory'.gaveUp => Count(memory)' >= Count(disk)'
        BY <1>0, <1>3, <1>c, CacheFacts
    <1>7. /\ chain' = chain /\ funding' = funding /\ limit' = limit
          /\ total' = total /\ stalls' = stalls /\ missed' = missed
        BY <1>1 DEF inboxVars, countVars
    <1>8. /\ worker' \in Workers /\ pool' \in Pools /\ pool'.phase = pool.phase
          /\ \/ worker' = Idle
             \/ /\ worker'.step = "giveUp" /\ worker'.funding = worker.funding
                /\ worker'.state = e
             \/ /\ worker'.step = "retry" /\ worker'.funding = worker.funding
                /\ worker'.state = worker.state
                /\ ~Unknown(readable) /\ ~Spent(e, limit)
        <2>1. CASE /\ worker' = [worker EXCEPT !.step = "giveUp", !.state = e]
                   /\ UNCHANGED pool
            BY <1>4, <1>5, <2>1, HoldFacts DEF Steps
        <2>2. CASE Report("AwaitingExecution")
            BY <1>4, <2>2, ReportFacts, IdleFacts DEF Kinds, Phases
        <2>3. CASE ~Unknown(readable) /\ ~Spent(e, limit) /\ Goto("retry")
            BY <1>4, <2>3, GotoFacts DEF Steps
        <2> QED
            BY <1>2, <2>1, <2>2, <2>3 DEF readable
    <1>9. faults' \in 0..MaxFaults
        BY <1>0, <1>2, FaultAccount, TurnTypes
    <1>10. TypeOK'
        BY <1>0, <1>1, <1>6, <1>7, <1>8, <1>9 DEF TypeOK
    <1>11. ChainInv' /\ DeliveredIsFinal' /\ Final' = Final
        BY <1>7, <1>8 DEF DeliveryInv, ChainInv, DeliveredIsFinal, Final
    <1>12. ~Paid' /\ (Holding' => worker'.state = e)
           /\ worker'.state \in {NoEntry, e, worker.state}
           /\ (Paying' => ~Unknown(readable) /\ ~Spent(e, limit))
        BY <1>8, IdleFacts DEF Paying, Paid, Holding
    <1>13. /\ Count(memory) \in Nat /\ Count(disk) \in Nat /\ limit \in Nat
           /\ Count(disk)' = Count(disk)
        BY <1>0, <1>6, ChargeFacts DEF Count
    <1>14. ASSUME ~Unknown(readable), ~Spent(e, limit)
           PROVE  /\ ~Abandoned /\ (memory' = NoEntry => disk' = NoEntry)
                  /\ Count(memory)' < limit /\ Count(disk)' < limit
        <2>1. ~e.gaveUp /\ e.attempts < limit
            BY <1>5, <1>13, <1>14 DEF Spent, Entry
        <2>2. Seen(readable) # NoEntry => e = Seen(readable)
            BY DEF OrDefault
        <2>3. CASE readable
            <3>1. /\ Count(Seen(readable)) = Charged
                  /\ Seen(readable) = NoEntry => disk = NoEntry /\ memory = NoEntry
                  /\ Seen(readable) # NoEntry => (Seen(readable).gaveUp <=> Abandoned)
                BY <1>3, <1>4, <2>3, SeenFacts
            <3>2. ~Abandoned
                BY <2>1, <2>2, <3>1 DEF Abandoned
            <3>3. memory' = Seen(readable)
                BY <1>c DEF Cache
            <3>4. Count(disk) <= Charged /\ Charged \in Nat
                BY <1>0, ChargeFacts
            <3> QED
                BY <1>5, <1>6, <1>13, <2>1, <3>1, <3>2, <3>3, <3>4
        <2>4. CASE ~readable
            <3>1. memory # NoEntry /\ Seen(readable) = memory
                BY <1>3, <1>4, <1>14, <2>4, SeenFacts DEF Unknown
            <3>2. ~memory.gaveUp /\ Count(memory) < limit
                BY <1>5, <2>1, <2>2, <3>1
            <3>3. ~Abandoned /\ Count(disk) <= Count(memory)
                BY <1>0, <1>13, <3>1, <3>2 DEF LedgerInv, Abandoned
            <3>4. memory' = memory
                BY <1>c, <3>1 DEF Cache
            <3> QED
                BY <1>6, <1>13, <3>1, <3>2, <3>3, <3>4
        <2> QED
            BY <1>3, <2>3, <2>4
    <1>15. LedgerInv'
        <2>1. e # NoEntry
            BY <1>5, Constants
        <2>2. Holding' => worker'.state # NoEntry /\ worker'.state.attempts >= Count(memory)'
            <3>1. Count(memory)' \in Nat
                BY <1>10, ChargeFactsNext
            <3> QED
                BY <1>5, <1>6, <1>12, <2>1, <3>1
        <2>3. Paying' => /\ ~Abandoned' /\ (memory' = NoEntry => disk' = NoEntry)
                         /\ Count(memory)' < limit' /\ Count(disk)' < limit'
            BY <1>6, <1>7, <1>12, <1>14
        <2> QED
            BY <1>6, <1>12, <2>2, <2>3 DEF LedgerInv
    <1>16. BudgetInv'
        <2>1. RetryBudget'
            BY <1>7 DEF DeliveryInv, BudgetInv, RetryBudget
        <2>2. ~Paid /\ ~Forgotten
            BY <1>1 DEF Paid, Forgotten
        <2> QED
            BY <1>6, <1>7, <1>12, <2>1, <2>2 DEF DeliveryInv, BudgetInv
    <1>17. ChargeInv'
        <2>1. Charged <= total + stalls /\ Count(Seen(readable)) <= Charged
            BY <1>0, <1>3, <1>4, ChargeFacts, SeenFacts DEF DeliveryInv, ChargeInv
        <2>2. NoOvercharge'
            <3>1. NoOvercharge' <=> Charged' <= total' + stalls'
                BY <1>10, ChargeFactsNext
            <3> QED
                BY <1>6, <1>7, <2>1, <3>1
        <2>3. e.attempts <= total + stalls
            BY <1>0, <1>5, <2>1, ChargeFacts DEF Entry
        <2>4. worker.state # NoEntry => worker.state.attempts <= total + stalls
            BY DEF DeliveryInv, ChargeInv
        <2> HIDE DEF e
        <2> QED
            BY <1>7, <1>12, <2>2, <2>3, <2>4 DEF ChargeInv
    <1>18. FundingInv'
        <2>1. worker' = Idle \/ (worker'.funding = worker.funding
                                 /\ worker'.step \notin Looking)
            BY <1>8 DEF Looking
        <2> QED
            BY <1>7, <1>8, <2>1, FundingKept DEF DeliveryInv
    <1> QED
        BY <1>10, <1>11, <1>15, <1>16, <1>17, <1>18 DEF DeliveryInv

(* A paid retry: the gate's count leaves room for it. *)
LEMMA ResendFailedStep ==
    ASSUME DeliveryInv, ResendFailed
    PROVE  DeliveryInv'
    <1>0. TypeOK /\ LedgerInv
        BY DEF DeliveryInv
    <1>1. /\ UNCHANGED <<inboxVars, ledgerVars, limit, overCap, topUp>>
          /\ worker.step = "resend" /\ ~worker.queued
        BY DEF ResendFailed, At
    <1>2. CASE Suffer({"rpc"}) /\ Report("AwaitingExecution") /\ UNCHANGED countVars
        BY <1>0, <1>1, <1>2, TurnEnds, TurnTypes, FaultAccount DEF Kinds, Phases, Paid
    <1>3. ASSUME \/ Calm /\ Sent(1) /\ Goto("record") /\ UNCHANGED <<stalls, missed>>
                 \/ /\ \E n \in {0, 1} :
                          /\ Suffer({IF n = 0 THEN "queue" ELSE "stall"})
                          /\ Sent(n) /\ stalls' = stalls + 1 - n
                    /\ worker' = [worker EXCEPT !.step = "record", !.stalled = TRUE]
                    /\ UNCHANGED <<pool, missed>>
                 \/ /\ Suffer({"lost"}) /\ Sent(1) /\ missed' = missed + 1
                    /\ Report("AwaitingExecution") /\ UNCHANGED stalls
          PROVE  DeliveryInv'
        <2>1. worker \in Workers /\ pool \in Pools
            BY <1>0, TurnTypes
        <2>2. faults' \in 0..MaxFaults
            BY <1>0, <1>3, FaultAccount, TurnTypes
        <2>3. /\ total \in Nat /\ stalls \in Nat /\ missed \in Nat
              /\ Charged \in Nat /\ limit \in Limits /\ limit \in Nat
              /\ Count(memory) \in Nat /\ Count(disk) \in Nat
              /\ Charged \in {Count(memory), Count(disk)}
              /\ NoOvercharge => Charged <= total + stalls
            BY <1>0, ChargeFacts DEF TypeOK
        <2>4. /\ worker' \in Workers /\ pool' \in Pools /\ pool'.phase = pool.phase
              /\ \/ /\ worker'.step = "record" /\ worker'.funding = worker.funding
                    /\ worker'.state = worker.state
                    /\ missed' = missed /\ total' + stalls' = total + stalls + 1
                    /\ total' \in {total, total + 1} /\ stalls' \in Nat
                 \/ /\ worker' = Idle /\ missed' = missed + 1 /\ total' = total + 1
                    /\ stalls' = stalls
            <3>1. CASE Sent(1) /\ Goto("record") /\ UNCHANGED <<stalls, missed>>
                BY <2>1, <2>3, <3>1, GotoFacts DEF Steps, Sent
            <3>2. CASE /\ \E n \in {0, 1} : Sent(n) /\ stalls' = stalls + 1 - n
                       /\ worker' = [worker EXCEPT !.step = "record", !.stalled = TRUE]
                       /\ UNCHANGED <<pool, missed>>
                <4>1. /\ worker' \in Workers /\ worker'.step = "record"
                      /\ worker'.funding = worker.funding /\ worker'.state = worker.state
                    BY <2>1, <3>2 DEF Workers, Steps
                <4>2. /\ total' + stalls' = total + stalls + 1
                      /\ total' \in {total, total + 1} /\ stalls' \in Nat
                    BY <2>3, <3>2 DEF Sent
                <4> QED
                    BY <2>1, <3>2, <4>1, <4>2
            <3>3. CASE /\ Sent(1) /\ missed' = missed + 1
                       /\ Report("AwaitingExecution") /\ UNCHANGED stalls
                BY <2>1, <3>3, ReportFacts, IdleFacts DEF Kinds, Phases, Sent
            <3> QED
                BY <1>3, <3>1, <3>2, <3>3
        <2>5. /\ chain' = chain /\ funding' = funding /\ limit' = limit
              /\ memory' = memory /\ disk' = disk
            BY <1>1 DEF inboxVars, ledgerVars
        <2>6. TypeOK'
            BY <1>0, <1>1, <2>2, <2>3, <2>4, <2>5 DEF TypeOK
        <2>7. ChainInv' /\ DeliveredIsFinal' /\ Final' = Final
            BY <2>4, <2>5 DEF DeliveryInv, ChainInv, DeliveredIsFinal, Final
        <2>8. /\ Charged' = Charged /\ Abandoned' = Abandoned /\ Tombstone' = Tombstone
              /\ Count(memory)' = Count(memory) /\ Count(disk)' = Count(disk)
            BY <2>5 DEF Charged, Abandoned, Tombstone, Count
        <2>9. Paying /\ ~Paid /\ ~Forgotten
            BY <1>1 DEF Paying, Paid, Forgotten
        <2>10. /\ ~Abandoned /\ (memory = NoEntry => disk = NoEntry)
               /\ Count(memory) < limit /\ Count(disk) < limit
            BY <1>0, <2>9 DEF LedgerInv
        <2>11. ~Tombstone
            BY <1>0, <2>10, ChargeFacts
        <2>12. total <= Charged + missed
            BY <2>3, <2>9, <2>11 DEF DeliveryInv, BudgetInv
        <2>13. ~Paying' /\ ~Holding' /\ (worker' = Idle => ~Paid')
               /\ (worker'.step = "record" => Paid')
            BY <2>4, IdleFacts DEF Paying, Holding, Paid
        <2>14. LedgerInv'
            BY <1>0, <2>5, <2>8, <2>10, <2>13 DEF LedgerInv
        <2>15. BudgetInv'
            <3>1. total' <= limit + missed'
                BY <2>3, <2>4, <2>10, <2>12
            <3>2. RetryBudget'
                BY <2>3, <3>1 DEF RetryBudget
            <3>3. total' <= Charged' + missed' + (IF Paid' THEN 1 ELSE 0)
                BY <2>3, <2>4, <2>8, <2>12, <2>13
            <3> QED
                BY <3>2, <3>3 DEF BudgetInv
        <2>16. ChargeInv'
            <3>1. Charged <= total + stalls
                BY <2>3 DEF DeliveryInv, ChargeInv
            <3>2. NoOvercharge'
                <4>1. NoOvercharge' <=> Charged' <= total' + stalls'
                    BY <2>6, ChargeFactsNext
                <4> QED
                    BY <2>3, <2>4, <2>8, <3>1, <4>1
            <3>3. Paid' => Charged' < total' + stalls'
                BY <2>3, <2>4, <2>8, <2>13, <3>1
            <3>4. worker'.state # NoEntry =>
                     worker'.state.attempts <= total' + stalls'
                <4>1. worker.state # NoEntry =>
                         worker.state.attempts \in Nat
                         /\ worker.state.attempts <= total + stalls
                    BY <1>0, ChargeFacts DEF DeliveryInv, ChargeInv, Entry
                <4>2. CASE worker' = Idle
                    BY <4>2, IdleFacts
                <4>3. CASE /\ worker'.state = worker.state
                           /\ total' + stalls' = total + stalls + 1
                    BY <2>3, <4>1, <4>3
                <4> QED
                    BY <2>4, <4>2, <4>3
            <3> QED
                BY <3>2, <3>3, <3>4 DEF ChargeInv
        <2>17. FundingInv'
            <3>1. worker' = Idle \/ (worker'.funding = worker.funding
                                     /\ worker'.step \notin Looking)
                BY <2>4 DEF Looking
            <3> QED
                BY <2>4, <2>5, <3>1, FundingKept DEF DeliveryInv
        <2> QED
            BY <2>6, <2>7, <2>14, <2>15, <2>16, <2>17 DEF DeliveryInv
    <1> QED
        BY <1>2, <1>3 DEF ResendFailed

(* record_attempt: what is charged grows by one, whether or not the file   *)
(* could be read or written.                                               *)
LEMMA RecordStep ==
    ASSUME DeliveryInv, RecordAttempt
    PROVE  DeliveryInv'
    <1>0. TypeOK /\ LedgerInv
        BY DEF DeliveryInv
    <1>1. /\ UNCHANGED <<inboxVars, limit, overCap, topUp, countVars>>
          /\ worker.step = "record"
        BY DEF RecordAttempt, At
    <1>2. PICK bad \in SUBSET {"read", "write"} :
             LET e == Recorded("read" \notin bad) IN
             /\ Suffer(bad) /\ Put(e, "write" \notin bad)
             /\ \/ AfterFailedRetry(e)
                \/ /\ worker' = [worker EXCEPT !.step = "await", !.state = e]
                   /\ UNCHANGED pool
        BY DEF RecordAttempt
    <1> DEFINE readable == "read" \notin bad
               e == Recorded(readable)
    <1>3. readable \in BOOLEAN
        OBVIOUS
    <1>4. /\ memory \in Entry \cup {NoEntry} /\ disk \in Entry \cup {NoEntry}
          /\ worker \in Workers /\ pool \in Pools
        BY <1>0 DEF TypeOK
    <1>5. memory' = e /\ disk' \in {e, disk}
        BY <1>2 DEF Put
    <1> HIDE DEF readable
    <1>6. e \in Entry /\ ~e.gaveUp /\ e.attempts = Count(Seen(readable)) + 1
        BY <1>3, <1>4, PutFacts
    <1>7. Paid /\ ~Paying /\ ~Forgotten
        BY <1>1 DEF Paid, Paying, Forgotten
    <1>8. ~Abandoned /\ (memory = NoEntry => disk = NoEntry)
        BY <1>0, <1>7 DEF LedgerInv
    <1>9. /\ Count(memory) \in Nat /\ Count(disk) \in Nat /\ Charged \in Nat
          /\ Count(disk) <= Charged
        BY <1>0, ChargeFacts
    <1>10. Count(Seen(readable)) = Charged
        <2>1. CASE readable
            BY <1>3, <1>4, <2>1, SeenFacts
        <2>2. CASE ~readable
            <3>1. Seen(readable) = memory
                BY <1>3, <1>4, <2>2, SeenFacts
            <3>2. CASE memory = NoEntry
                <4>1. Count(memory) = 0 /\ Count(disk) = 0
                    BY <1>4, <1>8, <3>2, EntryFacts
                <4> QED
                    BY <3>1, <4>1 DEF Charged, Larger
            <3>3. CASE memory # NoEntry
                <4>1. Count(memory) >= Count(disk)
                    BY <1>0, <1>8, <3>3 DEF LedgerInv, Abandoned
                <4> QED
                    BY <1>9, <3>1, <4>1 DEF Charged, Larger
            <3> QED
                BY <3>2, <3>3
        <2> QED
            BY <1>3, <2>1, <2>2
    <1>11. e # NoEntry /\ Count(e) = Charged + 1
        BY <1>6, <1>10, EntryFacts, Constants
    <1>12. /\ Count(memory)' = Charged + 1 /\ Count(disk)' \in {Charged + 1, Count(disk)}
        <2>1. Count(memory)' = Count(e) /\ Count(disk)' \in {Count(e), Count(disk)}
            BY <1>5 DEF Count
        <2> QED
            BY <1>11, <2>1
    <1>13. Charged' = Charged + 1
        BY <1>9, <1>12 DEF Charged, Larger
    <1>14. /\ worker' \in Workers /\ pool' \in Pools /\ pool'.phase = pool.phase
           /\ \/ worker' = Idle
              \/ /\ worker'.step \in {"giveUp", "await"}
                 /\ worker'.funding = worker.funding /\ worker'.state = e
        <2>1. CASE AfterFailedRetry(e)
            BY <1>4, <1>6, <2>1, AfterFacts
        <2>2. CASE /\ worker' = [worker EXCEPT !.step = "await", !.state = e]
                   /\ UNCHANGED pool
            BY <1>4, <1>6, <2>2, HoldFacts DEF Steps
        <2> QED
            BY <1>2, <2>1, <2>2 DEF readable
    <1>15. faults' \in 0..MaxFaults
        BY <1>0, <1>2, FaultAccount, TurnTypes
    <1>16. /\ chain' = chain /\ funding' = funding /\ limit' = limit
           /\ total' = total /\ stalls' = stalls /\ missed' = missed
        BY <1>1 DEF inboxVars, countVars
    <1>17. TypeOK'
        BY <1>0, <1>1, <1>4, <1>5, <1>6, <1>14, <1>15, <1>16 DEF TypeOK
    <1>18. ChainInv' /\ DeliveredIsFinal' /\ Final' = Final
        BY <1>14, <1>16 DEF DeliveryInv, ChainInv, DeliveredIsFinal, Final
    <1>19. /\ ~Paying' /\ ~Paid' /\ (Holding' => worker'.state = e)
           /\ worker'.state \in {NoEntry, e}
        BY <1>14, IdleFacts DEF Paying, Paid, Holding
    <1>20. ~(disk' # NoEntry /\ disk'.gaveUp)
        BY <1>5, <1>6, <1>8 DEF Abandoned
    <1>21. LedgerInv'
        <2>1. Count(memory)' >= Count(disk)'
            BY <1>9, <1>12
        <2>2. e.attempts >= Count(memory)'
            BY <1>6, <1>9, <1>10, <1>12
        <2> QED
            BY <1>11, <1>19, <1>20, <2>1, <2>2 DEF LedgerInv
    <1>22. BudgetInv'
        <2>1. RetryBudget'
            BY <1>16 DEF DeliveryInv, BudgetInv, RetryBudget
        <2>2. ~Tombstone
            BY <1>0, <1>8, ChargeFacts
        <2>3. total <= Charged + missed + 1
            BY <1>7, <2>2 DEF DeliveryInv, BudgetInv
        <2>4. total \in Nat /\ missed \in Nat
            BY <1>0 DEF TypeOK
        <2>5. total' <= Charged' + missed' + 0
            BY <1>9, <1>13, <1>16, <2>3, <2>4
        <2> QED
            BY <1>19, <2>1, <2>5 DEF BudgetInv
    <1>23. ChargeInv'
        <2>1. /\ Charged < total + stalls /\ total \in Nat /\ stalls \in Nat
            BY <1>0, <1>7 DEF DeliveryInv, ChargeInv, TypeOK
        <2>2. Charged + 1 <= total + stalls
            BY <1>9, <2>1
        <2>3. NoOvercharge'
            <3>1. NoOvercharge' <=> Charged' <= total' + stalls'
                BY <1>17, ChargeFactsNext
            <3> QED
                BY <1>13, <1>16, <2>2, <3>1
        <2>4. e.attempts <= total + stalls
            BY <1>6, <1>10, <2>2
        <2> QED
            BY <1>16, <1>19, <2>3, <2>4 DEF ChargeInv
    <1>24. FundingInv'
        <2>1. worker' = Idle \/ (worker'.funding = worker.funding
                                 /\ worker'.step \notin Looking)
            BY <1>14 DEF Looking
        <2> QED
            BY <1>14, <1>16, <2>1, FundingKept DEF DeliveryInv
    <1> QED
        BY <1>17, <1>18, <1>21, <1>22, <1>23, <1>24 DEF DeliveryInv

(* The tombstone keeps the count in hand. *)
LEMMA GiveUpStep ==
    ASSUME DeliveryInv, GiveUp
    PROVE  DeliveryInv'
    <1>0. TypeOK /\ LedgerInv
        BY DEF DeliveryInv
    <1>1. /\ UNCHANGED <<inboxVars, limit, overCap, topUp, countVars>>
          /\ worker.step = "giveUp" /\ Report("exhausted") /\ ~Paid
        BY DEF GiveUp, At, Paid
    <1>2. CASE Calm /\ UNCHANGED ledgerVars
        BY <1>0, <1>1, <1>2, TurnEnds, TurnTypes DEF Kinds, Phases
    <1>3. ASSUME NEW bad \in SUBSET {"write"}, Suffer(bad),
                 Put([worker.state EXCEPT !.gaveUp = TRUE], "write" \notin bad)
          PROVE  DeliveryInv'
        <2> DEFINE e == [worker.state EXCEPT !.gaveUp = TRUE]
        <2>1. /\ worker.state # NoEntry /\ worker.state \in Entry
              /\ worker.state.attempts >= Count(memory)
              /\ worker.state.attempts <= total + stalls
            BY <1>0, <1>1, ChargeFacts DEF DeliveryInv, LedgerInv, ChargeInv, Holding
        <2>2. e \in Entry /\ e.gaveUp = TRUE /\ e.attempts = worker.state.attempts
            BY <2>1 DEF Entry
        <2>3. memory' = e /\ disk' = IF "write" \notin bad THEN e ELSE disk
            BY <1>3 DEF Put
        <2> HIDE DEF e
        <2>4. /\ memory \in Entry \cup {NoEntry} /\ disk \in Entry \cup {NoEntry}
              /\ pool \in Pools
            BY <1>0 DEF TypeOK
        <2>5. e # NoEntry /\ Count(e) = worker.state.attempts
            BY <2>2, EntryFacts, Constants
        <2>6. /\ Count(memory)' = worker.state.attempts
              /\ Count(disk)' = IF "write" \notin bad THEN worker.state.attempts
                                ELSE Count(disk)
            BY <2>3, <2>5 DEF Count
        <2>7. /\ worker' = Idle /\ pool' \in Pools /\ pool'.phase = "exhausted"
            BY <1>1, <2>4, ReportFacts DEF Kinds, Phases
        <2>8. worker'.step = "idle" /\ worker'.state = NoEntry
            BY <2>7, IdleFacts
        <2>9. faults' \in 0..MaxFaults
            BY <1>0, <1>3, FaultAccount, TurnTypes
        <2>10. /\ chain' = chain /\ funding' = funding /\ limit' = limit
               /\ total' = total /\ stalls' = stalls /\ missed' = missed
            BY <1>1 DEF inboxVars, countVars
        <2>11. disk' \in Entry \cup {NoEntry}
            BY <2>2, <2>3, <2>4
        <2>12. TypeOK'
            BY <1>0, <1>1, <2>2, <2>3, <2>7, <2>9, <2>10, <2>11, IdleFacts DEF TypeOK
        <2>13. ChainInv' /\ DeliveredIsFinal' /\ Final' = Final
            BY <2>7, <2>10 DEF DeliveryInv, ChainInv, DeliveredIsFinal, Final
        <2>14. ~Paying' /\ ~Paid' /\ ~Holding' /\ (Forgotten => Forgotten')
            BY <2>8, <2>13 DEF Paying, Paid, Holding, Forgotten
        <2>15. LedgerInv'
            BY <2>2, <2>3, <2>14 DEF LedgerInv
        <2>16. /\ Count(memory) \in Nat /\ Count(disk) \in Nat /\ Charged \in Nat
               /\ Charged \in {Count(memory), Count(disk)}
               /\ Count(disk) <= Charged
               /\ total \in Nat /\ stalls \in Nat /\ missed \in Nat
               /\ worker.state.attempts \in Nat
               /\ NoOvercharge => Charged <= total + stalls
            BY <1>0, <2>1, ChargeFacts DEF Entry
        <2>17. BudgetInv'
            <3>1. RetryBudget'
                BY <2>10 DEF DeliveryInv, BudgetInv, RetryBudget
            <3>2. CASE "write" \notin bad
                BY <2>2, <2>3, <2>5, <3>1, <3>2 DEF BudgetInv, Tombstone
            <3>3. CASE "write" \in bad
                <4>1. Charged' >= Charged /\ Charged' \in Nat
                    BY <2>1, <2>6, <2>16, <3>3 DEF Charged, Larger
                <4>2. Tombstone' = Tombstone
                    BY <2>3, <3>3 DEF Tombstone
                <4>3. ~Tombstone /\ ~Forgotten => total <= Charged + missed
                    BY <1>1, <2>16 DEF DeliveryInv, BudgetInv
                <4>4. ~Tombstone' /\ ~Forgotten' => total' <= Charged' + missed' + 0
                    <5>1. total <= Charged + missed => total' <= Charged' + missed' + 0
                        BY <2>10, <2>16, <4>1, Roomier
                    <5> QED
                        BY <2>14, <4>2, <4>3, <5>1, Zenon
                <4> QED
                    BY <2>14, <3>1, <4>4 DEF BudgetInv
            <3> QED
                BY <3>2, <3>3
        <2>18. ChargeInv'
            <3>1. Charged' <= total + stalls
                BY <2>1, <2>6, <2>16 DEF DeliveryInv, ChargeInv, Charged, Larger
            <3>2. NoOvercharge'
                BY <2>10, <2>12, <3>1, ChargeFactsNext
            <3> QED
                BY <2>8, <2>14, <3>2 DEF ChargeInv
        <2>19. FundingInv'
            BY <2>7, <2>10, FundingKept DEF DeliveryInv
        <2> QED
            BY <2>12, <2>13, <2>15, <2>17, <2>18, <2>19 DEF DeliveryInv
    <1> QED
        BY <1>2, <1>3 DEF GiveUp

(* A crash adds to what was missed what memory knew and the file did not. *)
LEMMA CrashStep ==
    ASSUME DeliveryInv, Crash
    PROVE  DeliveryInv'
    <1>0. TypeOK
        BY DEF DeliveryInv
    <1>1. /\ memory' = NoEntry /\ disk' = disk /\ limit' \in Limits
          /\ worker' = Idle /\ topUp' = [mark |-> "none", attempts |-> 0]
          /\ chain' = chain /\ funding' = funding /\ overCap' = overCap
          /\ total' = total /\ stalls' = stalls
        BY DEF Crash, inboxVars
    <1>2. pool' \in Pools /\ pool'.phase \in {"open", pool.phase}
        <2>1. pool \in Pools
            BY <1>0 DEF TypeOK
        <2> QED
            BY <2>1 DEF Crash, Pools, Phases
    <1>3. /\ Count(memory) \in Nat /\ Count(disk) \in Nat /\ Charged \in Nat
          /\ total \in Nat /\ missed \in Nat
          /\ disk \in Entry \cup {NoEntry}
        BY <1>0, ChargeFacts DEF TypeOK
    <1>4. missed' = missed + (IF Paid THEN 1 ELSE 0)
                    + Larger(Count(memory) - Count(disk), 0)
        BY DEF Crash, At, Paid, Count
    <1>5. missed' \in Nat /\ missed' >= missed
        BY <1>3, <1>4 DEF Larger
    <1>6. faults' \in 0..MaxFaults
        BY <1>0, FaultAccount, TurnTypes DEF Crash
    <1>7. topUp' \in TopUps
        BY <1>1, Constants DEF TopUps
    <1>8. TypeOK'
        BY <1>0, <1>1, <1>2, <1>5, <1>6, <1>7, IdleFacts DEF TypeOK
    <1>9. ChainInv' /\ DeliveredIsFinal' /\ Final' = Final
        BY <1>1, <1>2 DEF DeliveryInv, ChainInv, DeliveredIsFinal, Final
    <1>10. worker'.step = "idle" /\ worker'.state = NoEntry
        BY <1>1, IdleFacts
    <1>11. ~Paying' /\ ~Paid' /\ ~Holding' /\ (Forgotten => Forgotten')
        BY <1>9, <1>10 DEF Paying, Paid, Holding, Forgotten
    <1>12. LedgerInv'
        BY <1>1, <1>11 DEF LedgerInv
    <1>13. Charged' = Count(disk)
        <2>1. Count(memory)' = 0 /\ Count(disk)' = Count(disk)
            <3>1. Count(NoEntry) = 0
                BY EntryFacts
            <3> QED
                BY <1>1, <3>1 DEF Count
        <2> QED
            BY <1>3, <2>1 DEF Charged, Larger
    <1>14. BudgetInv'
        <2>1. RetryBudget'
            <3>1. PICK most \in Limits : total <= most + missed
                BY DEF DeliveryInv, BudgetInv, RetryBudget
            <3>2. most \in Nat
                BY Constants
            <3>3. total' <= most + missed'
                <4>1. total <= missed + most
                    BY <1>3, <3>1, <3>2
                <4>2. total <= most + missed'
                    BY <1>3, <1>5, <3>2, <4>1, Roomier
                <4>3. total' = total
                    BY <1>1
                <4> QED
                    BY <4>2, <4>3, Zenon
            <3> QED
                BY <3>3, Zenon DEF RetryBudget
        <2>2. Tombstone' = Tombstone
            BY <1>1 DEF Tombstone
        <2>3. ~Tombstone /\ ~Forgotten =>
                 total <= Charged + missed + (IF Paid THEN 1 ELSE 0)
            BY DEF DeliveryInv, BudgetInv
        <2>4. Charged = Count(disk) + Larger(Count(memory) - Count(disk), 0)
            BY <1>3 DEF Charged, Larger
        <2>5. Larger(Count(memory) - Count(disk), 0) \in Nat
            BY <1>3 DEF Larger
        <2>6. Charged' + missed' + 0 = Charged + missed + (IF Paid THEN 1 ELSE 0)
            BY <1>3, <1>4, <1>13, <2>4, <2>5
        <2> QED
            BY <1>1, <1>11, <2>1, <2>2, <2>3, <2>6 DEF BudgetInv
    <1>15. ChargeInv'
        <2>1. NoOvercharge'
            BY <1>1 DEF DeliveryInv, ChargeInv, NoOvercharge
        <2> QED
            BY <1>10, <1>11, <2>1 DEF ChargeInv
    <1>16. FundingInv'
        BY <1>1, <1>2, FundingKept DEF DeliveryInv
    <1> QED
        BY <1>8, <1>9, <1>12, <1>14, <1>15, <1>16 DEF DeliveryInv

-----------------------------------------------------------------------------
(* The theorems.                                                           *)

(* The invariant holds when the worker starts. *)
LEMMA InitStep ==
    ASSUME Init
    PROVE  DeliveryInv
    <1>1. chain = [k \in 1..(Depth + 1) |-> "unaccepted"]
        BY DEF Init
    <1>2. /\ memory = NoEntry /\ disk = NoEntry /\ worker = Idle
          /\ limit \in Limits /\ overCap \in OverCap
          /\ faults = 0 /\ total = 0 /\ stalls = 0 /\ missed = 0
        BY DEF Init
    <1>3. funding \in Ledger
        BY DeliveryAssumption DEF Init, Ledger
    <1>4. pool \in Pools /\ pool.phase = "open"
        BY DEF Init, Pools, Phases
    <1>5. topUp \in TopUps
        BY Constants DEF Init, TopUps
    <1>6. worker.step = "idle" /\ worker.state = NoEntry /\ worker \in Workers
          /\ worker.funding = NoRead
        BY <1>2, IdleFacts
    <1>7. TypeOK
        <2>1. chain \in [1..(Depth + 1) -> Status]
            BY <1>1 DEF Status
        <2>2. overCap \in BOOLEAN
            BY <1>2, DeliveryAssumption
        <2> QED
            BY <1>2, <1>3, <1>4, <1>5, <1>6, <2>1, <2>2, Constants DEF TypeOK
    <1>8. ChainInv /\ DeliveredIsFinal
        BY <1>1, <1>4, Constants DEF ChainInv, DeliveredIsFinal
    <1>9. LedgerInv
        BY <1>2, <1>6 DEF LedgerInv, Paying, Paid, Holding
    <1>10. Charged = 0
        BY <1>2, EntryFacts DEF Charged, Larger
    <1>11. BudgetInv
        <2>1. RetryBudget
            BY <1>2, <1>7, Constants DEF RetryBudget
        <2> QED
            BY <1>2, <1>6, <1>10, <2>1 DEF BudgetInv, Paid
    <1>12. ChargeInv
        BY <1>2, <1>6 DEF ChargeInv, NoOvercharge, Paid
    <1>13. FundingInv
        BY <1>4, <1>6, IdleFacts DEF FundingInv, RefusalIsRight
    <1> QED
        BY <1>7, <1>8, <1>9, <1>11, <1>12, <1>13 DEF DeliveryInv

(* Every step of the system keeps the invariant. *)
LEMMA NextStep ==
    ASSUME DeliveryInv, [Next]_vars
    PROVE  DeliveryInv'
    <1>0. TypeOK
        BY DEF DeliveryInv
    <1>1. CASE Block
        <2>1. Tip \in Status
            BY <1>0, ChainFacts DEF TypeOK, Status
        <2>2. faults' \in 0..MaxFaults
            BY <1>0, <1>1 DEF Block, TypeOK
        <2> QED
            BY <1>1, <2>1, <2>2, BlockStep DEF Block
    <1>2. CASE OthersAct
        <2>1. PICK s \in Outcomes(Tip) : chain' = Extend(s)
            BY <1>2 DEF OthersAct
        <2>2. s \in Status /\ (Tip = "executed" => s = "executed")
            BY DEF Outcomes, Status
        <2>3. faults' \in 0..MaxFaults
            BY <1>0, <1>2, FaultAccount, TurnTypes DEF OthersAct
        <2> QED
            BY <1>2, <2>1, <2>2, <2>3, BlockStep DEF OthersAct
    <1>3. CASE \E cut \in 1..Depth : Reorg(cut)
        BY <1>3, ReorgStep
    <1>4. CASE PayerTopsUp \/ FeeSettled \/ DeadlinePasses \/ GraceLapses
        BY <1>4, SourceMoves
    <1>5. CASE Tick
        BY <1>5, TickStep
    <1>6. CASE CollectVotes \/ TopUpFails \/ TopUpSettles \/ IdleTick
        BY <1>6, PoolStep
    <1>7. CASE Dispatch
        BY <1>7, DispatchStep
    <1>8. CASE HandleJob
        BY <1>8, BeginStep, SimulateStep, EstimateStep, SendStep, ReceiptStep, StartStep
        DEF HandleJob
    <1>9. CASE Reconcile
        BY <1>9, ProcessedStep, ConfirmedStep, PendingStep, RetryableStep, GateStep,
           PreflightStep, ResendFailedStep, ResendPendingStep, RecordStep, AwaitStep,
           GiveUpStep
        DEF Reconcile
    <1>10. CASE Crash
        BY <1>10, CrashStep
    <1>11. CASE UNCHANGED vars
        <2>1. /\ UNCHANGED <<inboxVars, ledgerVars, limit, overCap, worker, pool, topUp,
                             faults, countVars>>
            BY <1>11 DEF vars, inboxVars, ledgerVars, countVars
        <2>2. Quiet
            BY <2>1, SameIsQuiet DEF inboxVars, Final
        <2> QED
            BY <1>0, <2>1, <2>2, TurnKeeps, TurnTypes
    <1> QED
        BY <1>1, <1>2, <1>3, <1>4, <1>5, <1>6, <1>7, <1>8, <1>9, <1>10, <1>11 DEF Next

(* The invariant all the theorems below rest on. *)
THEOREM DeliveryInvariant == Spec => []DeliveryInv
    BY InitStep, NextStep, PTL DEF Spec

(* The state of the worker, the pool and the two ledgers has its type; in  *)
(* particular the send loop ends (tries), a depth read at the tip is one   *)
(* of the window (age) and no message has more top-ups requested than      *)
(* MAX_TOP_UP_ATTEMPTS.                                                    *)
THEOREM DeliveryTypeCorrect == Spec => []TypeOK
    <1>1. DeliveryInv => TypeOK
        BY DEF DeliveryInv
    <1> QED
        BY <1>1, DeliveryInvariant, PTL

(* What reconcile_execution reports as delivered is executed in a block no *)
(* reorganisation replaces, for every depth and every interleaving of      *)
(* reads, blocks, other callers and reorganisations.                       *)
THEOREM DeliveredFinal == Spec => []DeliveredIsFinal
    <1>1. DeliveryInv => DeliveredIsFinal
        BY DEF DeliveryInv
    <1> QED
        BY <1>1, DeliveryInvariant, PTL

(* No failing read or write, restart or change of limit lets the worker    *)
(* pay for more retries than the largest limit and those it lost count of. *)
THEOREM Budget == Spec => []RetryBudget
    <1>1. DeliveryInv => RetryBudget
        BY DEF DeliveryInv, BudgetInv
    <1> QED
        BY <1>1, DeliveryInvariant, PTL

(* Neither copy of the ledger charges what was not broadcast or stalled. *)
THEOREM ChargedFairly == Spec => []NoOvercharge
    <1>1. DeliveryInv => NoOvercharge
        BY DEF DeliveryInv, ChargeInv
    <1> QED
        BY <1>1, DeliveryInvariant, PTL

(* The under-funding guard refuses only a message that nobody can top up   *)
(* any more, though it decides on an old look at the source ledger.        *)
THEOREM RefusedRightly == Spec => []RefusalIsRight
    <1>1. DeliveryInv => RefusalIsRight
        BY DEF DeliveryInv, FundingInv
    <1> QED
        BY <1>1, DeliveryInvariant, PTL

(* A tombstone in either copy stops the payments: the one step that raises *)
(* total is a retry the gate let through, and while the worker is on its   *)
(* way to it no copy has one.                                              *)
THEOREM AbandonedNeverPaid == Spec => AbandonedStays
    <1>1. ASSUME DeliveryInv, [Next]_vars, Abandoned
          PROVE  total' = total
        <2>1. CASE ResendFailed
            <3>1. Paying
                BY <2>1 DEF ResendFailed, At, Paying
            <3> QED
                BY <1>1, <3>1 DEF DeliveryInv, LedgerInv
        <2>2. CASE UNCHANGED vars
            BY <2>2 DEF vars
        <2>3. CASE Next /\ ~ResendFailed
            BY <2>3
            DEF Next, HandleJob, Reconcile, Block, OthersAct, Reorg, PayerTopsUp,
                FeeSettled, DeadlinePasses, GraceLapses, SourceStep, Tick, CollectVotes,
                Dispatch, Begin, SimulateCall, Estimate, Send, Receipt, StartSchedule,
                ReadProcessed, ReadConfirmed, ReadPending, ReadRetryable, CheckGate,
                Preflight, ResendPending, RecordAttempt, AwaitRetry, GiveUp, TopUpFails,
                TopUpSettles, Crash, IdleTick, vars, countVars
        <2> QED
            BY <1>1, <2>1, <2>2, <2>3
    <1>2. DeliveryInv /\ [Next]_vars => [Abandoned => total' = total]_vars
        BY <1>1
    <1> QED
        BY <1>2, DeliveryInvariant, PTL DEF Spec, AbandonedStays

=============================================================================
