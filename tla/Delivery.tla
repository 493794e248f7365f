------------------------------ MODULE Delivery ------------------------------
(***************************************************************************)
(* The delivery worker of one route (delivery/mod.rs) and one message: the *)
(* jobs the pool gives it, handle_job and reconcile_execution with their   *)
(* reads and transactions as separate steps, the ledger of failed retries  *)
(* (FailedRetry), the top-up requests, and around them the destination     *)
(* Inbox with its other callers and its reorganisations, the source        *)
(* chain's funding of the message, crashes and faults.                     *)
(*                                                                         *)
(* All state the worker keeps is per message and the worker is serial, so  *)
(* one message shows what can happen to each. Gas and value are reduced to *)
(* whether they suffice; the timers of the pool to their having run out.   *)
(***************************************************************************)
EXTENDS FailedRetry, Sequences, SequencesExt, FiniteSets

CONSTANTS
    Depth,             \* block_confirmation_depth
    Simulate,          \* delivery.simulate_before_send
    MaxRetries,        \* delivery.max_retries
    AutoTopUp,         \* auto_request_top_up
    MaxTopUpAttempts,  \* MAX_TOP_UP_ATTEMPTS
    OverCap,           \* may the envelope ask for more than the route's caps?
    Fundings,          \* gas fields getMessageInfo may show at first
    Faults,            \* the kinds of fault that happen
    MaxFaults          \* bound: how many of them

FaultKinds == {"rpc", "reorg", "crash", "read", "write", "queue", "stall",
               "lost", "race"}

ASSUME DeliveryAssumption ==
    /\ Depth \in Nat /\ MaxRetries \in Nat /\ MaxFaults \in Nat
    /\ Simulate \in BOOLEAN /\ AutoTopUp \in BOOLEAN
    /\ MaxTopUpAttempts \in Nat \ {0} /\ OverCap \subseteq BOOLEAN
    /\ Fundings \subseteq {"none", "short", "enough"}
    /\ Faults \subseteq FaultKinds

VARIABLES
    chain,    \* the Inbox's view of the message in the last Depth+1 blocks
    funding,  \* the source ledger's view of it, and the source clock
    limit,    \* failed_retry.max_attempts of the running process
    overCap,  \* the envelope asks for too much gas or value
    pool,     \* what the pool knows: [phase, accepted, quorum]
    worker,   \* the job the worker is on, and where in it
    topUp,    \* TopUpLedger
    faults,   \* history: faults so far
    total,    \* history: retryFailedMessage sent by all processes
    stalls,   \* history: broadcasts that timed out without being sent
    missed    \* history: retries sent that the ledger does not know of

inboxVars  == <<chain, funding>>
ledgerVars == <<memory, disk>>
countVars  == <<total, stalls, missed>>
vars == <<chain, funding, memory, disk, limit, overCap, pool, worker, topUp,
          faults, total, stalls, missed>>

Status == {"unaccepted", "pending", "failed", "executed"}
Phases == {"open", "delivered", "overCap", "unfunded", "exhausted"}
Steps  == {"idle", "begin", "simulate", "estimate", "send", "receipt",
           "processed", "confirmed", "pending", "retryable", "gate", "retry",
           "resend", "record", "await", "start", "giveUp"}

Ledger == [gas : {"none", "short", "enough"}, settled : BOOLEAN,
           clock : {"open", "past", "lapsed"}]
NoRead == [gas |-> "none", settled |-> FALSE, clock |-> "past"]

(* The locals of handle_job and reconcile_execution. dup: entered through  *)
(* settle_duplicate_revert. age: how far processedAt lies below the tip.   *)
(* queued: the message is pending, not failed. stalled: no receipt to wait *)
(* for. state: the ledger entry in hand.                                   *)
Idle == [step |-> "idle", dup |-> FALSE, funding |-> NoRead, tries |-> 0,
         age |-> 0, queued |-> FALSE, stalled |-> FALSE, state |-> NoEntry]

Tip   == Last(chain)
Final == Head(chain)

Init ==
    /\ chain = [k \in 1..(Depth + 1) |-> "unaccepted"]
    /\ \E g \in Fundings :
          funding = [gas |-> g, settled |-> FALSE, clock |-> "open"]
    /\ memory = NoEntry /\ disk = NoEntry
    /\ limit \in Limits /\ overCap \in OverCap
    /\ pool = [phase |-> "open", accepted |-> FALSE, quorum |-> FALSE]
    /\ worker = Idle
    /\ topUp = [mark |-> "none", attempts |-> 0]
    /\ faults = 0 /\ total = 0 /\ stalls = 0
    /\ missed = 0

(* The faults of a step, each drawn from the same account. *)
Suffer(kinds) ==
    /\ kinds \subseteq Faults
    /\ faults + Cardinality(kinds) <= MaxFaults
    /\ faults' = faults + Cardinality(kinds)

Calm == UNCHANGED faults

-----------------------------------------------------------------------------
(* The destination chain (external).                                       *)

(* A call of deliverMessage, retryPendingMessage or retryFailedMessage     *)
(* moves an accepted message on; executed is for good.                     *)
Outcomes(s) == IF s = "executed" THEN {s} ELSE {"pending", "failed", "executed"}

(* A block is added, after which the message stands at s. The age of what  *)
(* the worker has read grows with the chain.                               *)
Extend(s) == Append(Tail(chain), s)

Block ==
    /\ chain' = Extend(Tip)
    /\ chain' # chain \/ (worker.step = "confirmed" /\ worker.age < Depth)
    /\ worker' = IF worker.step = "confirmed" /\ worker.age < Depth
                 THEN [worker EXCEPT !.age = @ + 1] ELSE worker
    /\ UNCHANGED <<funding, ledgerVars, limit, overCap, pool, topUp, faults,
                   countVars>>

(* Another relayer's transaction, or one of ours that was thought lost. *)
OthersAct ==
    /\ Suffer({"race"})
    /\ \E s \in Outcomes(Tip) \ {Tip} : chain' = Extend(s)
    /\ worker' = IF worker.step = "confirmed" /\ worker.age < Depth
                 THEN [worker EXCEPT !.age = @ + 1] ELSE worker
    /\ UNCHANGED <<funding, ledgerVars, limit, overCap, pool, topUp,
                   countVars>>

(* The blocks above `cut` are replaced by ones without the message. A      *)
(* block Depth below the tip is never replaced.                            *)
Reorg(cut) ==
    /\ Suffer({"reorg"})
    /\ chain[cut] # Tip
    /\ chain' = [k \in DOMAIN chain |-> IF k <= cut THEN chain[k] ELSE chain[cut]]
    /\ UNCHANGED <<funding, ledgerVars, limit, overCap, pool, worker, topUp,
                   countVars>>

-----------------------------------------------------------------------------
(* The source chain (external) and the clock.                              *)

SourceStep(f) ==
    /\ funding' = f
    /\ UNCHANGED <<chain, ledgerVars, limit, overCap, pool, worker, topUp,
                   faults, countVars>>

(* topUpGasLimit reverts once the fee is settled or the deadline past. *)
PayerTopsUp ==
    /\ funding.gas = "short" /\ ~funding.settled /\ funding.clock = "open"
    /\ SourceStep([funding EXCEPT !.gas = "enough"])

FeeSettled ==
    /\ funding.gas # "none" /\ ~funding.settled
    /\ SourceStep([funding EXCEPT !.settled = TRUE])

DeadlinePasses ==
    /\ funding.gas # "none" /\ funding.clock = "open"
    /\ SourceStep([funding EXCEPT !.clock = "past"])

(* TOP_UP_DEADLINE_GRACE is longer than the reads between a job's look at  *)
(* the ledger and its decision, so no job sees both ends of it.            *)
GraceLapses ==
    /\ funding.clock = "past"
    /\ worker.step \in {"begin", "simulate", "estimate"} =>
          worker.funding.clock # "open"
    /\ SourceStep([funding EXCEPT !.clock = "lapsed"])

Tick ==
    /\ \/ memory # NoEntry /\ memory.wait > 0
       \/ disk # NoEntry /\ disk.wait > 0
    /\ memory' = Elapse(memory) /\ disk' = Elapse(disk)
    /\ worker' = [worker EXCEPT !.state = Elapse(@)]
    /\ UNCHANGED <<inboxVars, limit, overCap, pool, topUp, faults, countVars>>

-----------------------------------------------------------------------------
(* The pool's side.                                                        *)

CollectVotes ==
    /\ ~pool.quorum /\ pool.phase = "open"
    /\ pool' = [pool EXCEPT !.quorum = TRUE]
    /\ UNCHANGED <<inboxVars, ledgerVars, limit, overCap, worker, topUp, faults,
                   countVars>>

(* read_message_funding: the entry of the ledger, unless the read fails,   *)
(* its gas limit is absurd, or the route has no RelayerContract.           *)
FundingRead == {funding, NoRead}

(* A job. One with votes looks at the ledger first.                        *)
Dispatch ==
    /\ worker.step = "idle" /\ pool.phase = "open"
    /\ IF pool.accepted \/ ~pool.quorum
       THEN worker' = [Idle EXCEPT !.step = "processed"]
       ELSE \E read \in FundingRead :
               worker' = [Idle EXCEPT !.step = "begin", !.funding = read]
    /\ UNCHANGED <<inboxVars, ledgerVars, limit, overCap, pool, topUp, faults,
                   countVars>>

(* The worker reports and the pool takes note: the end of delivery::run's  *)
(* turn and note_delivery_result.                                          *)
Report(kind) ==
    /\ worker' = Idle
    /\ pool' = CASE kind \in Phases -> [pool EXCEPT !.phase = kind]
                 [] kind = "AwaitingVotes" -> [pool EXCEPT !.accepted = FALSE]
                 [] kind = "AwaitingExecution" -> [pool EXCEPT !.accepted = TRUE]
                 [] kind = "Retryable" -> pool

Goto(s) == worker' = [worker EXCEPT !.step = s] /\ UNCHANGED pool

At(s) == worker.step = s

-----------------------------------------------------------------------------
(* handle_job.                                                             *)

(* settle_duplicate_revert: a duplicate proves acceptance, not execution. *)
Duplicate ==
    /\ worker' = [worker EXCEPT !.step = "processed", !.dup = TRUE]
    /\ UNCHANGED pool

(* settle_pre_send_revert: a revert proves only that this attempt failed,  *)
(* so the work goes back to the pool.                                      *)
Refused == Suffer({"rpc"}) /\ Report("Retryable")

(* The funding is known, so the send will be pinned to it: estimate first. *)
AfterSimulate == IF worker.funding.gas = "none" THEN "send" ELSE "estimate"

(* The caps of the route on value and gas. *)
Begin ==
    /\ At("begin") /\ Calm
    /\ IF overCap THEN Report("overCap")
       ELSE Goto(IF Simulate THEN "simulate" ELSE AfterSimulate)
    /\ UNCHANGED <<inboxVars, ledgerVars, limit, overCap, topUp, countVars>>

(* An eth_call of deliverMessage. InsufficientGasForDestination goes on to *)
(* the send, any other revert and any failure of the call back to the pool. *)
SimulateCall ==
    /\ At("simulate")
    /\ \/ Calm /\ Tip = "unaccepted" /\ Goto(AfterSimulate)
       \/ Calm /\ Tip # "unaccepted" /\ Duplicate
       \/ Refused
    /\ UNCHANGED <<inboxVars, ledgerVars, limit, overCap, topUp, countVars>>

\* Mutant: no grace after the deadline.
ForeclosedEarly ==
    \/ worker.funding.settled
    \/ funding.clock # "open"

\* Mutant: the deadline is not looked at.
ForeclosedBySettling == worker.funding.settled

(* top_up_foreclosed: of the ledger as the job read it, and the time now. *)
Foreclosed ==
    \/ worker.funding.settled
    \/ funding.clock = "lapsed"

(* TopUpLedger::begin, in TopUpRequester::request. *)
MayRequest ==
    /\ AutoTopUp
    /\ \/ topUp.mark = "none"
       \/ topUp.mark = "failed" /\ topUp.attempts < MaxTopUpAttempts

RequestTopUp ==
    IF MayRequest
    THEN topUp' = [mark |-> "inFlight", attempts |-> topUp.attempts + 1]
    ELSE UNCHANGED topUp

(* The under-funding guard. InsufficientGasForDestination goes on here too. *)
Estimate ==
    /\ At("estimate")
    /\ \/ /\ Calm /\ Tip = "unaccepted" /\ worker.funding.gas = "short"
          /\ Foreclosed
          /\ Report("unfunded") /\ UNCHANGED topUp
       \/ /\ Calm /\ Tip = "unaccepted" /\ worker.funding.gas = "short"
          /\ ~Foreclosed
          /\ Report("Retryable") /\ RequestTopUp
       \/ /\ Calm /\ Tip = "unaccepted" /\ worker.funding.gas = "enough"
          /\ Goto("send") /\ UNCHANGED topUp
       \/ /\ Calm /\ Tip # "unaccepted" /\ Duplicate
          /\ UNCHANGED topUp
       \/ /\ Refused \/ (Suffer({"rpc"}) /\ Goto("send"))
          /\ UNCHANGED topUp
    /\ UNCHANGED <<inboxVars, ledgerVars, limit, overCap, countVars>>

(* The detached task: TopUpLedger::fail, *)
TopUpFails ==
    /\ topUp.mark = "inFlight"
    /\ topUp' = [topUp EXCEPT !.mark = "failed"]
    /\ UNCHANGED <<inboxVars, ledgerVars, limit, overCap, pool, worker, faults,
                   countVars>>

(* and settle: mined, or rejected by the contract. *)
TopUpSettles ==
    /\ topUp.mark = "inFlight"
    /\ topUp' = [topUp EXCEPT !.mark = "settled"]
    /\ UNCHANGED <<inboxVars, ledgerVars, limit, overCap, pool, worker, faults,
                   countVars>>

\* Mutant: the send loop has no end.
AgainAlways ==
    /\ worker' = [worker EXCEPT !.step = "send", !.tries = @ + 1]
    /\ UNCHANGED pool

(* Another turn of the send loop, perhaps with more gas, while tries last. *)
Again ==
    /\ worker.tries < MaxRetries
    /\ worker' = [worker EXCEPT !.step = "send", !.tries = @ + 1]
    /\ UNCHANGED pool

(* Preflight at the exact gas limit, then the broadcast. *)
Send ==
    /\ At("send")
    /\ \/ Calm /\ Tip = "unaccepted" /\ Goto("receipt")
       \/ Calm /\ Tip # "unaccepted" /\ Duplicate
       \/ Suffer({"rpc"}) /\ (Again \/ Report("Retryable"))
    /\ UNCHANGED <<inboxVars, ledgerVars, limit, overCap, topUp, countVars>>

(* Execution was seen in a receipt. *)
Executed == Report(IF Depth = 0 THEN "delivered" ELSE "AwaitingExecution")

(* classify_success_logs: which logs the Inbox wrote for the message. (A   *)
(* receipt with none of them is a failed attempt, like one never seen.)    *)
Logged(s) ==
    \/ s = "executed" /\ Executed
    \/ s = "pending" /\ Report("AwaitingExecution")
    \/ s = "failed" /\ Goto("start")

(* The receipt, by its logs; a transaction that lost the race reverts. *)
Receipt ==
    /\ At("receipt")
    /\ \/ /\ Calm /\ Tip = "unaccepted"
          /\ \E s \in Outcomes(Tip) :
                /\ chain' = Extend(s)
                /\ Logged(s)
       \/ Calm /\ Tip # "unaccepted" /\ Duplicate /\ UNCHANGED chain
       \/ Suffer({"rpc"}) /\ (Again \/ Report("Retryable")) /\ UNCHANGED chain
    /\ UNCHANGED <<funding, ledgerVars, limit, overCap, topUp, countVars>>

(* DestinationFailed for the first time: FailedRetries::start. *)
StartSchedule ==
    /\ At("start")
    /\ \E bad \in SUBSET {"read", "write"} :
          /\ Suffer(bad)
          /\ Start("read" \notin bad, "write" \notin bad)
          /\ LET e == Started("read" \notin bad) IN
             \/ /\ e.attempts >= limit
                /\ worker' = [worker EXCEPT !.step = "giveUp", !.state = e]
                /\ UNCHANGED pool
             \/ e.attempts < limit /\ Report("AwaitingExecution")
    /\ UNCHANGED <<inboxVars, limit, overCap, topUp, countVars>>

-----------------------------------------------------------------------------
(* reconcile_execution.                                                    *)

ReadFails == Suffer({"rpc"}) /\ Report("Retryable") /\ UNCHANGED ledgerVars

(* ExecutionState::Executed *)
Settle ==
    \E bad \in SUBSET {"write"} :
        Suffer(bad) /\ Forget("write" \notin bad) /\ Report("delivered")

(* processedAt at the tip. Its distance from the tip is remembered as the  *)
(* block it names.                                                         *)
ReadProcessed ==
    /\ At("processed")
    /\ \/ ReadFails
       \/ Tip = "executed" /\ Depth = 0 /\ Settle
       \/ /\ Tip = "executed" /\ Depth > 0 /\ Calm
          /\ worker' = [worker EXCEPT !.step = "confirmed",
                           !.age = Cardinality({k \in DOMAIN chain :
                                                  chain[k] = "executed"}) - 1]
          /\ UNCHANGED <<pool, ledgerVars>>
       \/ Tip # "executed" /\ Calm /\ Goto("pending") /\ UNCHANGED ledgerVars
    /\ UNCHANGED <<inboxVars, limit, overCap, topUp, countVars>>

\* Mutant: the two reads at the tip are trusted.
ConfirmedByAge == worker.age >= Depth

(* The block is deep enough, and holds the execution when read by number. *)
Confirmed == worker.age >= Depth /\ Final = "executed"

(* The block number, and processedAt in the confirmed block. That block is *)
(* never replaced, so the two reads may be one step.                       *)
ReadConfirmed ==
    /\ At("confirmed")
    /\ \/ ReadFails
       \/ Confirmed /\ Settle
       \/ ~Confirmed /\ Calm /\ Report("AwaitingExecution") /\ UNCHANGED ledgerVars
    /\ UNCHANGED <<inboxVars, limit, overCap, topUp, countVars>>

ReadPending ==
    /\ At("pending")
    /\ \/ ReadFails
       \/ /\ Tip = "pending" /\ Calm
          /\ worker' = [worker EXCEPT !.step = "retry", !.queued = TRUE]
          /\ UNCHANGED <<pool, ledgerVars>>
       \/ Tip # "pending" /\ Calm /\ Goto("retryable") /\ UNCHANGED ledgerVars
    /\ UNCHANGED <<inboxVars, limit, overCap, topUp, countVars>>

(* Neither executed, nor pending, nor failed: not accepted, as far as one  *)
(* can tell. After a duplicate that is no answer.                          *)
ReadRetryable ==
    /\ At("retryable")
    /\ \/ ReadFails
       \/ Tip = "failed" /\ Calm /\ Goto("gate") /\ UNCHANGED ledgerVars
       \/ /\ Tip # "failed" /\ Calm
          /\ Report(IF worker.dup THEN "Retryable" ELSE "AwaitingVotes")
          /\ UNCHANGED ledgerVars
    /\ UNCHANGED <<inboxVars, limit, overCap, topUp, countVars>>

(* FailedRetries::gate *)
CheckGate ==
    /\ At("gate")
    /\ \E bad \in SUBSET {"read"} :
          LET readable == "read" \notin bad
              e == OrDefault(Seen(readable)) IN
          /\ Suffer(bad) /\ Cache(readable)
          /\ \/ /\ ~Unknown(readable) /\ Spent(e, limit)
                /\ worker' = [worker EXCEPT !.step = "giveUp", !.state = e]
                /\ UNCHANGED pool
             \/ /\ Unknown(readable) \/ ~Spent(e, limit)
                /\ IF Waits(readable) THEN Report("AwaitingExecution")
                   ELSE Goto("retry")
    /\ UNCHANGED <<inboxVars, limit, overCap, topUp, countVars>>

Expected == IF worker.queued THEN "pending" ELSE "failed"

(* estimate_gas and the preflight: over the cap, deferred or failing, the  *)
(* work is retained and nothing is charged.                                *)
Preflight ==
    /\ At("retry")
    /\ \/ Calm /\ Tip = Expected /\ Goto("resend")
       \/ Calm /\ Tip # Expected /\ Report("AwaitingExecution")
       \/ Suffer({"rpc"}) /\ Report("AwaitingExecution")
    /\ UNCHANGED <<inboxVars, ledgerVars, limit, overCap, topUp, countVars>>

Sent(n) == total' = total + n

(* The broadcast of retryFailedMessage: accepted; no slot in time; cut off *)
(* by the timeout, sent or not; refused; refused as far as we heard.       *)
ResendFailed ==
    /\ At("resend") /\ ~worker.queued
    /\ \/ Calm /\ Sent(1) /\ Goto("record") /\ UNCHANGED <<stalls, missed>>
       \/ /\ \E n \in {0, 1} :
                /\ Suffer({IF n = 0 THEN "queue" ELSE "stall"})
                /\ Sent(n) /\ stalls' = stalls + 1 - n
          /\ worker' = [worker EXCEPT !.step = "record", !.stalled = TRUE]
          /\ UNCHANGED <<pool, missed>>
       \/ /\ Suffer({"rpc"}) /\ Report("AwaitingExecution")
          /\ UNCHANGED countVars
       \/ /\ Suffer({"lost"}) /\ Sent(1) /\ missed' = missed + 1
          /\ Report("AwaitingExecution") /\ UNCHANGED stalls
    /\ UNCHANGED <<inboxVars, ledgerVars, limit, overCap, topUp>>

\* Mutant: retries of pending messages are charged too.
ResendPendingCharged ==
    /\ At("resend") /\ worker.queued
    /\ Calm /\ worker' = [worker EXCEPT !.step = "record", !.queued = FALSE]
    /\ UNCHANGED pool
    /\ UNCHANGED <<inboxVars, ledgerVars, limit, overCap, topUp, countVars>>

(* The broadcast of retryPendingMessage, which costs no budget. *)
ResendPending ==
    /\ At("resend") /\ worker.queued
    /\ \/ Calm /\ Goto("await")
       \/ Suffer({"rpc"}) /\ Report("AwaitingExecution")
    /\ UNCHANGED <<inboxVars, ledgerVars, limit, overCap, topUp, countVars>>

(* after_failed_retry *)
AfterFailedRetry(e) ==
    IF e.attempts >= limit
    THEN worker' = [worker EXCEPT !.step = "giveUp", !.state = e] /\ UNCHANGED pool
    ELSE Report("AwaitingExecution")

(* record_attempt, before the receipt is waited for. *)
RecordAttempt ==
    /\ At("record")
    /\ \E bad \in SUBSET {"read", "write"} :
          LET e == Recorded("read" \notin bad) IN
          /\ Suffer(bad) /\ Put(e, "write" \notin bad)
          /\ IF worker.stalled THEN AfterFailedRetry(e)
             ELSE /\ worker' = [worker EXCEPT !.step = "await", !.state = e]
                  /\ UNCHANGED pool
    /\ UNCHANGED <<inboxVars, limit, overCap, topUp, countVars>>

(* No progress: no receipt, or one that reverted or shows no event. *)
NoProgress ==
    IF worker.queued THEN Report("AwaitingExecution")
    ELSE AfterFailedRetry(worker.state)

(* The receipt of a retry. With Depth = 0 execution ends the matter. *)
AwaitRetry ==
    /\ At("await")
    /\ \/ /\ Tip = Expected
          /\ \E s \in Outcomes(Tip) :
                /\ chain' = Extend(s)
                /\ \/ s = "executed" /\ Depth = 0 /\ Settle
                   \/ /\ s = "executed" /\ Depth > 0 /\ Calm
                      /\ Report("AwaitingExecution") /\ UNCHANGED ledgerVars
                   \/ /\ s = "pending"
                      /\ IF worker.queued THEN Suffer({"rpc"}) ELSE Calm
                      /\ Report("AwaitingExecution") /\ UNCHANGED ledgerVars
                   \/ /\ s = "failed" /\ Calm /\ UNCHANGED ledgerVars
                      /\ IF worker.queued THEN Goto("start")
                         ELSE AfterFailedRetry(worker.state)
       \/ /\ Tip # Expected /\ Calm /\ NoProgress
          /\ UNCHANGED <<chain, ledgerVars>>
       \/ /\ Suffer({"rpc"}) /\ NoProgress /\ UNCHANGED <<chain, ledgerVars>>
    /\ UNCHANGED <<funding, limit, overCap, topUp, countVars>>

(* give_up_failed_retries: the tombstone, and the work is dropped. *)
GiveUp ==
    /\ At("giveUp")
    /\ \/ worker.state.gaveUp /\ Calm /\ UNCHANGED ledgerVars
       \/ /\ ~worker.state.gaveUp
          /\ \E bad \in SUBSET {"write"} :
                /\ Suffer(bad)
                /\ Put([worker.state EXCEPT !.gaveUp = TRUE], "write" \notin bad)
    /\ Report("exhausted")
    /\ UNCHANGED <<inboxVars, limit, overCap, topUp, countVars>>

-----------------------------------------------------------------------------
(* The process ends and another takes its place, perhaps with another      *)
(* limit. Memory is gone; the rescan may find the message once more.       *)
Crash ==
    /\ Suffer({"crash"})
    /\ memory' = NoEntry /\ UNCHANGED disk
    /\ limit' \in Limits
    /\ \E again \in BOOLEAN :
          pool' = [phase |-> IF again THEN "open" ELSE pool.phase,
                   accepted |-> FALSE, quorum |-> FALSE]
    /\ worker' = Idle /\ topUp' = [mark |-> "none", attempts |-> 0]
    /\ missed' = missed + (IF At("record") THEN 1 ELSE 0)
                 + Larger(OrDefault(memory).attempts - OrDefault(disk).attempts, 0)
    /\ UNCHANGED <<inboxVars, overCap, total, stalls>>

HandleJob == Begin \/ SimulateCall \/ Estimate \/ Send \/ Receipt \/ StartSchedule

Reconcile ==
    \/ ReadProcessed \/ ReadConfirmed \/ ReadPending \/ ReadRetryable
    \/ CheckGate \/ Preflight \/ ResendFailed \/ ResendPending
    \/ RecordAttempt \/ AwaitRetry \/ GiveUp

(* Nothing to do: the worker's idle tick. *)
IdleTick == At("idle") /\ pool.phase # "open" /\ UNCHANGED vars

Next ==
    \/ Block \/ OthersAct \/ \E cut \in 1..Depth : Reorg(cut)
    \/ PayerTopsUp \/ FeeSettled \/ DeadlinePasses \/ GraceLapses \/ Tick
    \/ CollectVotes \/ Dispatch \/ HandleJob \/ Reconcile
    \/ TopUpFails \/ TopUpSettles \/ Crash \/ IdleTick

Spec == Init /\ [][Next]_vars

FairSpec ==
    /\ Spec
    /\ WF_vars(Block) /\ WF_vars(DeadlinePasses) /\ WF_vars(GraceLapses)
    /\ WF_vars(Tick) /\ WF_vars(CollectVotes) /\ WF_vars(Dispatch)
    /\ WF_vars(HandleJob) /\ WF_vars(Reconcile)

-----------------------------------------------------------------------------
Pools == [phase : Phases, accepted : BOOLEAN, quorum : BOOLEAN]
Workers == [step : Steps, dup : BOOLEAN, funding : Ledger,
            tries : 0..MaxRetries, age : 0..Depth, queued : BOOLEAN,
            stalled : BOOLEAN, state : Entry \cup {NoEntry}]
TopUps == [mark : {"none"}, attempts : {0}]
          \cup [mark : {"inFlight", "failed", "settled"},
                attempts : 1..MaxTopUpAttempts]

TypeOK ==
    /\ chain \in [1..(Depth + 1) -> Status]
    /\ funding \in Ledger
    /\ memory \in Entry \cup {NoEntry} /\ disk \in Entry \cup {NoEntry}
    /\ limit \in Limits /\ overCap \in BOOLEAN
    /\ pool \in Pools /\ worker \in Workers /\ topUp \in TopUps
    /\ faults \in 0..MaxFaults
    /\ total \in Nat /\ stalls \in Nat /\ missed \in Nat

(* A message reported as delivered is executed in a block that no          *)
(* reorganisation can replace, though the reads that say so straddle       *)
(* blocks and reorganisations and a duplicate proves only acceptance       *)
(* (reconcile_execution, settle_duplicate_revert).                         *)
DeliveredIsFinal == pool.phase = "delivered" => Final = "executed"

(* All processes together pay for no more retries than the largest limit,  *)
(* except for those the ledger does not know of: a send whose answer was   *)
(* lost, one that a crash overtook before it was counted, and what memory  *)
(* had counted and the file had not when a crash followed a failed write.  *)
(* Apart from these, no failing read or write, no restart and no change of *)
(* limit resets the count (gate, get's cache, stricter, record_attempt).   *)
RetryBudget == \E most \in Limits : total <= most + missed

(* Nothing is charged to the budget but broadcasts of retryFailedMessage   *)
(* and stalls of them: retries of pending messages, failing preflights and *)
(* restarts are free.                                                      *)
NoOvercharge ==
    \A e \in {memory, disk} \ {NoEntry} : e.attempts <= total + stalls

(* A message given up is never paid for again while its tombstone stands,  *)
(* not after a restart with a higher limit, nor when the file cannot be    *)
(* read (give_up, gate).                                                   *)
Abandoned == \E e \in {memory, disk} \ {NoEntry} : e.gaveUp

AbandonedStays == [][Abandoned => total' = total]_vars

(* A message dropped for want of gas can never be topped up any more, even *)
(* though the job decides on an old reading of the ledger (the guard in    *)
(* handle_job, TOP_UP_DEADLINE_GRACE).                                     *)
RefusalIsRight ==
    pool.phase = "unfunded" =>
        funding.gas = "short" /\ (funding.settled \/ funding.clock # "open")

(* When faults cease the message is settled for good: delivered, refused,  *)
(* or given up once its budget is spent.                                   *)
EventuallySettled == <>[](pool.phase # "open")

(* What put_failed_retry's comment promises: the count is written after    *)
(* the broadcast and before the receipt "so a crash cannot forget gas      *)
(* already spent". It does not hold: a crash between the two forgets it.   *)
CrashForgetsNothing == \E most \in Limits : total <= most
=============================================================================
