# A TLA+ development for asc-message-relayer

The relayer carries messages published on Creditcoin (the source chain) to
destination EVM chains, acknowledges their execution back on the source, claims
what was locked on a client chain, and keeps the attestors of each destination up
to date. It may not lose a message or an acknowledgment, whatever crashes; it may
not submit the same delivery twice at a time; it may count only the votes of the
attestors in force; and a worker that has stopped must be told from one that is
waiting. This directory states those promises precisely, checks them with TLC on
small instances, and proves with TLAPS, for every instance, all of the safety ones
that hold.

Source paths below are relative to `src/message-relayer/src/` unless they say
otherwise.

## 1. Inventory

| Component | State | Operations | Interacts with |
| --- | --- | --- | --- |
| Outbox watcher, `events/` (one per route) | `last_seen`, `FinalityTracker` | `watch_outbox`, `poll_once`, `fetch_message_logs`, `discovery_at`/`authorized_at`, `resume_cursor` | reads the source chain; writes work store and checkpoint; sends on `indexed_tx` |
| Checkpoint store, `checkpoint.rs` | a JSON file of cursors, each with the `durable_work` marker | `load`, `get`, `set`, `set_journaled`, `write_atomic` | every scanning worker |
| Work store, `work.rs` | one file per unfinished message; `RouteCursor` per route; failed-retry files | `prepare_route`, `record`, `pending`, `complete`, `put_failed_retry`, `forget_failed_retry` | watcher records, pool reads and completes, delivery keeps its retry counts there |
| Vote pool, `pool/mod.rs` (one) | per route: attestors, threshold, slots, insertion order, early votes; one deferred message | `note_indexed`, `note_vote`, `apply_attestor_set`, `note_delivery_result`, `prune_expired`, `refill`, `collect_ready_deliveries`, `collect_stalled_reobservations`, `query_bundle` | five input channels, one delivery channel per route, requests for reobservation |
| Delivery worker, `delivery/mod.rs` (one per route) | one job at a time; the top-up ledger (memory only) | `run`, `handle_job`, `reconcile_execution`, `settle_duplicate_revert`, `send_top_up_request` | destination Inbox, source RelayerContract, broadcast locks, pool |
| Failed-retry ledger, `delivery/failed_retry.rs` | attempts, next attempt and tombstone per message, in memory and on disk | `get`, `start`, `gate`, `record_attempt`, `give_up`, `forget` | delivery worker, work store |
| Broadcast locks, `broadcast.rs` | one lock per signer | `broadcast` | every sender |
| Ack submitter, `ack/` (one per route) | `last_seen`, pending transactions, completed ones, route history | `discover_delivered`, `process_pending`, `acknowledge_tx` | destination logs, proof-gen, source contracts, checkpoint |
| Claim submitter, `claim/` | `last_seen`, pending, completed | `discover_locks`, `process_pending`, `claim_tx` | as the ack submitter |
| Attestor-set watcher, `attestor_set.rs` | last set sent | poll `attestors()` and `threshold()` | sends set updates to the pool |
| Set-update aggregator, `set_update/` | the on-chain view, votes per digest, digests in flight | `refresh`, `handle_vote`, `submit` | validator contract, broadcast locks |
| Health, `health.rs` | last success and last error per worker | `heartbeat`, `error`, `status` | every worker; the orchestrator's probe |
| Pacer, RPC providers, `pacing.rs`, `rpc.rs` | a back-off level; a provider and its failures | `after`, `deferring`, `note_ok`, `note_err`, `connect` | every polling worker |
| p2p worker, `p2p/` | a swarm, peer counts | `handle_swarm_event`, the request arm | gossip mesh, pool, aggregator |
| Observer client, `observer_client.rs` | one session | `run`, `session`, `handle_event` | observer node, pool, aggregator |
| Observer node, `src/observer-node/src/` | the hub ring, one loop per client, peers per topic | `publish`, `client_loop`, `handle_client_frame`, `handle_swarm_event` | gossip mesh, clients |
| Server, `lib.rs` | the set of tasks, one cancellation token | `run` | starts everything; one task's exit ends the process |

What is hard here:

* **Crashes.** Any worker that returns stops the process, and the orchestrator
  starts it again. Votes, slots, queues and in-flight marks are in memory only;
  the cursor, the journal and the retry counts are on disk, each written at a
  different moment, and a directory entry that was not synced can be undone by a
  power loss.
* **Interleaving.** The pool's `select!` takes votes, set updates, results,
  messages and ticks in any order, while jobs queue for a serial worker.
* **Stale state.** Votes outlive the attestor set they were checked against; a
  cursor may come from a release that kept no journal; `attestors()` and
  `threshold()` are separate reads.
* **Limits.** The vote cache, the early-vote buffer, the delivery channel and the
  window of the journal walk all overflow in normal operation.
* **Unreliable delivery.** Gossip loses, repeats and reorders votes; sessions with
  the observer break; channels shed what does not fit.
* **One key, several senders.** A broadcast that times out may still arrive, and
  the next sender reads its nonce from the chain.
* **Time.** Health is judged by deadlines against timers, back-offs and jobs of
  various lengths, and a dead transport looks like a failing endpoint.

`PROJECT.json` lists these as hazards, each at its line, with the properties that
would catch it.

## 2. Modules

### DurableHandoff: from the source chain to a verdict

One route with persistence enabled. The disk is `records` (files of the work
directory), `synced` (directory entries a power loss cannot undo), `ckpt` and
`ckptSynced` (the cursor in the file, and the one a power loss may bring back).
Memory is `lastSeen`, `observed`, the poll in progress (`scan`), `channel`, and
the pool's working set split into `open`, `flying` and `resolved`. `finished` is
history: the messages whose worker reported `Delivered` or `Terminal`.

| Action | Code |
| --- | --- |
| `Restart` | `watch_outbox` up to its loop; `ResumeCursor` is `resume_cursor` |
| `PollNothing`, `BeginPoll` | head of `poll_once`; a provider may lag, but not below the last head it reported (`pick_to_block`) |
| `ShrinkRange`, `FetchLogs` | the loop on `LogRangeTooLarge` |
| `SkipLog`, `RecordLog`, `RecordUnsynced`, `SendLog`, `FinishPoll`, `PollFails` | the loop over logs, its error exits, the cursor |
| `SaveCursor` | `set_journaled` with `write_atomic`: written and synced, written but not synced, or not written (logged only) |
| `Receive`, `Refill`, `Prune` | `can_index`, `make_room`, `refill`, `prune_expired` |
| `Dispatch`, `Retry`, `Verdict` | hand-over to the worker and its results; `Verdict` removes the record first |
| `Exit`, `CancelDuringSend`, `VerdictFails`, `PowerLoss` | the supervisor, and what survives |

`Refill(P, C, R)` leaves the choice of the backlog records `P` and of the
long-resident messages `C` open; `WorkCursor` and `VotePool` have the details.

**Custody** is the abstract specification: a message is unknown, held or settled;
holding ends only in settlement; the source is passed over only for messages held
or settled. The refinement mapping takes `held` to the synced records of
unfinished messages and `passed` to the messages at or below the block where a
restart would resume, under either cursor it may find.

### VotePool: the pool and its neighbours

One route of the pool, one action per arm of `pool::run` (the whole arm: what it
dispatches, and what it requeues when the delivery channel is full), with the
serial delivery worker, the watcher's messages and the set updates around it. The
helpers on the record `route` carry the names of the code: `CanIndex`, `MakeRoom`,
`Admit` (`note_indexed`), `Ready`/`JobFor`/`Launch` (`dispatch_if_ready`),
`Requeue`, `BufferEarly`, `AfterResult`, `PruneExpired`, `Candidates`, `Rotated`,
`Load`.

Abstractions: a clock becomes a flag (`backoff`, `probeDue`) that an action of its
own clears, or a prefix of the insertion order (age limits). `delivery_attempts`
is left out: it only chooses the length of a delay. A signature is the address it
recovers to, or `NoSigner`; `Signed` says which recoveries can happen at all.
`Reloads` holds the sets the watcher may send, torn pairs included. The delivery
worker reports any outcome, except that a job with votes never reports
`AwaitingVotes` (`settle_duplicate_revert`). Crashes are in DurableHandoff; here
`Init` may find any journal. `TypeOK` here also says that the insertion order and the
slots hold the same ids, which `refill` relies on when it indexes one by the other.

### WorkCursor: the walk of the journal

`RouteCursor` and `WorkStore::pending`, step by step, with `record` and `complete`
between calls (all of them hold one lock). Ids are numbers, 0 is `None`. `owed`
and `last` are history: the records of the running lap not yet offered, and the id
offered last.

### Delivery, with FailedRetry: a job at the worker

One message at the worker of one route: everything the worker keeps is per
message, and it does one job at a time. `chain` is what the Inbox says of the
message in the last `Depth + 1` blocks; its head is the confirmed block, which a
reorganisation never reaches, its last element the tip. `worker` holds the step
of the job and the locals of the two functions; every RPC that matters to what
follows is a step, so blocks, reorganisations, other relayers and crashes come
between any two.

| Actions | Code |
| --- | --- |
| `Dispatch`, `Report` | `delivery::run` around a job, with the funding read before it, and `note_delivery_result` after it |
| `Begin`, `SimulateCall`, `Estimate`, `Send`, `Receipt` | `handle_job`: the caps, the simulation, the under-funding guard, the send loop |
| `Duplicate` | `settle_duplicate_revert` |
| `ReadProcessed`, `ReadConfirmed`, `ReadPending`, `ReadRetryable` | the reads at the head of `reconcile_execution` |
| `CheckGate`, `Preflight`, `ResendFailed`, `ResendPending`, `RecordAttempt`, `AwaitRetry` | the rest of it: gate, preflight, broadcast, count, receipt |
| `StartSchedule`, `GiveUp` | the first `DestinationFailed`; `give_up_failed_retries` |
| `TopUpFails`, `TopUpSettles` | the detached task of `TopUpRequester::request` |
| `Crash` | the process is replaced, perhaps with another `max_attempts`; the rescan may bring a finished message back |

`FailedRetry` has the ledger's operations under their own names (`Seen` and
`Cache` are `get`; `Spent` and `Waits` are `gate`; `Recorded` is
`record_attempt`). `next_attempt_at` is kept as the time left, so `Tick` needs no
bound. `funding.clock` is the delivery deadline and the end of
`TOP_UP_DEADLINE_GRACE`. `GraceLapses` carries the one timing assumption: the
grace (900 s) is longer than the two reads (20 s each) between a job's look at the
ledger and its decision, so no job sees both ends of it.

Gas and value are reduced to whether they suffice, and `bumped_gas_limit` to
another turn of the send loop. A kind in `Faults` is drawn from one account of
`MaxFaults`: `rpc` (a call fails, times out, reverts or is deferred), `race`
(someone else's transaction), `queue` (a broadcast that timed out and was not
sent), `stall` (one that was), `lost` (an error for a transaction the node took),
`read` and `write` (the ledger's file), `reorg`, `crash`.

### Settlement, with PendingTxs: the acknowledgment submitter

One route of `ack/`, on a destination chain of confirmed and unconfirmed blocks
and a source chain with a tip that may lose what is not final. The worker is a
`pc` through one tick of `ack::run`: refresh the history, discover, save, settle.
The attempts of a tick run concurrently, each with a step of its own, so crashes,
reorganisations and other submitters come between any two calls.

| Actions | Code |
| --- | --- |
| `Start`, `Crash` | `ack::run` up to its loop; memory is lost |
| `ScanFirst`, `ScanForward`, `ScanBackwards`, `HistoryFails` | `RouteHistory::refresh` and `advance`, halved ranges and failed writes included |
| `Discover`, `DiscoverFails` | `discover_delivered`: the range, what is new, what a full queue turns away, where the cursor stops |
| `Save`, `SaveFails` | the cursor held behind `oldest_pending_block` |
| `Batch`, `Apply` | `process_pending` around the attempts |
| `Resolve`, `Prove`, `SubmitAcks`, `SubmitFees`, `Verify` | `acknowledge_tx`: authorities and funded messages, proof-gen, both submissions, the check of the finalized state |

`PendingTxs` has the queue (`pending.rs`) that this module and Claim share; an
instant is the order of first sight, and ties are open because a range's logs come
in any order. What a transaction owes is `Owed`; `Settled` is judged in the
finalized state of the source chain, `Oversized` transactions aside (their proof is
over the on-chain limit, which the code treats as terminal).

### Claim: the claim submitter

The same tick over the locks of a client chain. What differs is in the module: a
full queue evicts, a proof that does not come is dropped after `MAX_CLAIM_AGE`, a
revert is terminal, a malformed log is skipped. `writtenOff` is history: what the
worker has given up with a log line.

The target on Creditcoin is read at its latest block (`any_unclaimed`) and one
receipt confirms a claim (`claim_tx`), so the worker releases a lock on evidence
that a reorganisation of Creditcoin may take back. `claimed` is the target at the
latest block, `final` the same at the finalized one; `Finalize` moves the second to
the first, and `Reorg` takes back any of what lies between them. `released` is history:
what the worker took for paid. `undone` is history too: the locks a reorganisation
took back after the worker had seen them paid. Those the code does not look at
again, and both properties of the module name them as an exception (section 3).

### Broadcast and SetUpdate: one key, several senders

`Broadcast` is the lock of one signer: `Enqueue`, `Acquire`, `QueueTimeout`,
`ReadNonce`, `Answer`, `NoAnswer`, with a node that keeps a pool of transactions,
may drop one, and may receive an abandoned one late (`wire`). A nonce may also be
read from a node that is behind.

`SetUpdate` extends it with the aggregator of one route and a delivery worker that
signs with the same key. `BeginRefresh`, `ReadThreshold`, `FinishRefresh` are the
separate reads of `refresh`; `HandleVote` is `handle_vote` up to the submission;
`Simulate`, `SimulateFails`, `SubmitReturns` are `submit`, which does not wait for a
receipt. Elections and an administrator change the set behind its back.

### Supervision: stopped, failing, or idle

Health, pacer, reconnecting provider, the delivery worker's liveness ticker and the
server, over discrete time, for one worker; workers share only the registry, where
each has its own entry. The loops differ in what they report when and in what they
reconnect, so the worker is of one of four kinds:

| `kind` | Code | What is its own |
| --- | --- | --- |
| `watcher` | `watch_outbox` | reports progress inside a poll (`Progress`) that may fail afterwards; rebuilds its provider; no pacer |
| `scanner` | `ack::run`, `claim::run` | the scan is reported, then `process_pending` runs in the same tick, and the pacer hears of the scan last; rebuilds the provider it scans with |
| `setwatcher` | `attestor_set::run` | dials for every poll; hands a changed set to the pool |
| `delivery` | `delivery::run` | waits for jobs; keeps the provider it started with |

Setup, a poll, a job and what follows its report take any time; a loop that waits
answers a timer when it is due. `Hang` is a call that never returns. `ProbeKills`
is the orchestrator's liveness probe on `/health`, `WorkerExits` the end of any task.

`toil` and `outage` are history: the time spent at work since the last report, and
how long the endpoint of a poller has served nothing this process uses. A batch of
logs counts as served until it is dealt with (`stage = "batch"`), because the
watcher reports each of them. `delivery::run` also handles an `Err` of `handle_job`,
which that function does not return at this commit; the branch, and
`last_error_at` with it, is left out. The set-update aggregator, the pool, the p2p
worker, the observer client and the balance monitor report heartbeats as well; their
entries are not modelled here.

### Gossip: how votes arrive

Either vote source: the embedded swarm or a session with an observer node. One
chain, one vote per topic. `Hear`, `Publish`, `Forward`, `Receive`, `Offer`, `Take`
follow a vote; `Ask`, `SendRequest`, `ClientFrame`, `PublishRequest` and `Gossip`
follow a request for it; `Connect`, `Closed`, `Lagged`, `SessionLost`, `LoopEnds`,
`ObserverRestart` are the session. Loops of sessions the client has given up still
count against `max_clients` until they find out.

## 3. Runs

| Run | Configuration | Shows |
| --- | --- | --- |
| `handoff` | 3 messages in 3 blocks, one unauthorised; range 2, lookback 1, channel 1, working set 1, 2 faults | `TypeOK`, `NoLoss`, `ScanJournaled`, `WorkingSetBacked`, the refinement `KeepsCustody`, and `EveryMessageFinishes` |
| `pool_rotation` | journal; 2 messages, 2 signers, a reload that removes one and is torn to a threshold of 0; 1 or 2 slots, 1 place in the delivery channel | `TypeOK`, `OneJobPerMessage`, `VotesAreCurrent`, `BundleIsQuorum`, `NothingDropped` |
| `pool_memory` | no journal; 2 messages, one of them signed by nobody, 1 slot, 1 reload | `BundleIsQuorum`, `EventuallyResolved` |
| `cursor` | 4 ids, window 2, 3 examined per call, limit 2 | `LiveIsExact`, `LapCovers`, `EveryRecordOffered` |
| `delivery_safety` | depth 2, limits 1 and 3, 3 faults of every kind | `TypeOK`, `DeliveredIsFinal`, `RetryBudget`, `NoOvercharge`, `AbandonedStays` |
| `delivery_settled` | depth 1, limits 0 and 1, all fundings, top-ups on, no simulation, 2 faults | `RefusalIsRight`, `EventuallySettled` |
| `delivery_crash` | limit 1, 1 crash | violated: `CrashForgetsNothing` |
| `settlement` | 2 transactions, 2 messages, 3 Outboxes of which one is retired and one only configured; queue 1, range 2, 1 fault | `TypeOK`, `NothingForgotten`, `HistoryComplete`, `EventuallySettled` |
| `claim` | 4 transactions in 2 blocks, one malformed, one oversized; queue 1, 2 faults | `TypeOK`, `LocksAccountedFor`, `LocksFinish` |
| `set_update` | 3 attestors, 2 regimes, 2 elections, 2 senders, 1 fault | `TypeOK`, `NoGap`, `NoCollision`, `SentOnce`, `Converges` |
| `supervision` | the four kinds of worker; the code's constants in minutes, rounded up | `WaitingIsNotStale`, `OutageShows`, `Recovers` |
| `gossip` | 1 attestor with up to 2 connections, every buffer 1 place, 1 fault, 1 burst | `GaugeIsFleet`, `VotesArrive` |

`delivery_crash` is the finding of this project, a small one. A crash between the
broadcast of `retryFailedMessage` and the write of its count lets the next process
pay once more than the limit, where `work.rs:330` says a crash cannot forget gas
already spent; `RetryBudget` shows that this window and lost answers are the only
ways to overrun.

### Observations

What the models make visible and no run refutes a promise about:

* A broadcast of a retry that never obtained the signer's slot (`Stalled::Queue`)
  is charged like one that was sent (`delivery/mod.rs:2129`), though `config.rs:171`
  describes the limit as transactions to spend. `NoOvercharge` shows that nothing
  else is charged for nothing.
* `Converges` has two exceptions. `Orphaned`: an update the node accepted and then
  dropped, or that reverted, stays in `in_flight` until the nonce moves or the
  process restarts. `Uncounted`: votes are counted when a new signer is heard
  (`set_update/mod.rs:226`), so when the threshold falls after every attestor in
  force was heard, nothing counts them again. Without either the property fails.
* A claim that was paid and then reorganised away on Creditcoin is lost in silence: a
  payment read at the latest block, or one receipt, releases the lock
  (`claim/mod.rs:589`, `:655`), the saved cursor moves past it, and nothing looks at
  it again unless a restart resumes `scan_lookback_blocks` behind it. The acknowledgment
  submitter demands a finalized state for the same reason (`ack/routes.rs:396`); no
  document says that the claim submitter does. `undone` marks these locks.
  `LocksAccountedFor` shows that nothing else is lost, and that a payment the
  worker did not see is claimed again when it is taken back.
* A delivery job whose steps all run into their limits takes about 370 s, says nothing
  in between, and is reported stale: the deadline is 360 s. The comment at
  `delivery/mod.rs:1137` accepts that. The same holds of a poll or of
  `process_pending`. `WaitingIsNotStale` therefore bounds what a stale worker did: it
  worked longer than the deadline leaves beside its longest wait.
* The Outbox watcher reports progress inside a poll that then fails
  (`events/mod.rs:255`, `:419`), although `health.rs` speaks of completed iterations.
  One that fails behind its first log every time stays "ok"; only an endpoint that
  serves nothing at all shows, which is what `OutageShows` says. A delivery worker
  all of whose sends fail counts each job as progress, and `OutageShows` excludes it.
* `Recovers` is about the providers that are rebuilt. Those of the delivery worker
  (`delivery/mod.rs:236`) and those with which the acknowledgment and the claim
  submitter write to Creditcoin (`ack/mod.rs:228`, `claim/mod.rs:226`) live as long as
  the process; the calls of one that died fail until something else ends it.
* When one worker exits, `Server::run` cancels the others and waits for them; one
  that hangs keeps it waiting, and the probe, no longer answered, ends the process.
* `pacing.rs` documents 160 s at level 5; `BASE * 2^(level - 1)` gives 80 s.
* The embedded swarm counts `Subscribed` events and ignores closed connections, so
  its peer count grows with reconnects; `GaugeIsFleet` is about the observer source,
  which keeps a set. After a reconnect the relayer's gauge is stale until the next
  change of peers, which is what the history variable `current` is for.
* The observer client's reconnect back-off is never reset after a good session.

### Bounds

The bounds are the smallest at which the interesting cases happen. Two faults let
a failed sync be followed by a power loss. One slot makes every second message meet
a full table, so that admission, deferral, eviction and rotation compete; two slots
and one place make the delivery channel refuse a job. A window smaller than the
journal and a call shorter than the lap make laps span windows and calls, and calls
span laps. At depth 2 a reorganisation can remove an execution and two blocks can
follow while the worker is between two reads. Limits that differ between processes
let a tombstone meet a higher limit, and limit 3 lets memory and disk disagree in
the middle of a budget, and be merged, before it is spent. The second Delivery run
has no simulation, so that the estimate is what finds a message under-funded. In
Settlement a queue of one fills within a range, and the transaction turned away
needs an Outbox that only the backward scan finds. In Claim three locks meet a
queue of one, so locks are evicted while another is held; with two faults a payment
nobody waits for can be reorganised away, and a crash can follow a reorganisation of
what the worker had released. One fault in
SetUpdate is a stalled send, a lost answer, a stale nonce, an eviction, a
restart or an administrator, and there are two elections to fall between. Supervision keeps the
code's proportions in minutes: no wait reaches half of the deadline, which
`CodeWaitsFit` of its instance states, so that waits, work and failures can add up
to the deadline only together. Buffers of one
place make every hand-off of Gossip shed.

No run switches deadlock checking off: the relayer always has a step to take.

### Fairness

* The tasks of the relayer and their timers keep running (tokio polls every
  task, `select!` arms are fair): weak fairness of the workers' steps. The
  orchestrator restarts the process: weak fairness of `Restart` and `Start`. Faults
  are finite everywhere (`MaxFaults`).
* In DurableHandoff the offers of `Refill` and the hand-over `Dispatch` are
  strongly fair: the first is what `EveryRecordOffered` shows of the walk, the
  second what `EventuallyResolved` shows of the pool.
* The environment: an attestor asked again and again to sign what it has signed
  answers; a delivery that can succeed and is attempted again and again succeeds
  (strong fairness of `Succeed`, `Verdict`). Nothing is assumed of a single
  attempt. A message nobody signs was executed elsewhere: its probe succeeds.
* WorkCursor: the pool keeps calling, and restarts stop in the end.
* Delivery: the worker's steps, the pool's dispatch and its gathering of votes
  (what VotePool shows), the clock and the production of blocks are weakly fair;
  other relayers, the payer and the settlement of fees owe nothing.
* Settlement and Claim: proof-gen attests what is confirmed, and retries come due. In
  Settlement the source chain finalizes; in Claim Creditcoin need not. No chain has
  to grow.
* SetUpdate: the node mines; `BeginRefresh` and `HandleVote` are strongly fair,
  since both are arms of one `select!` that is busy while a submission runs, and
  attestors repeat their votes each cycle.
* Supervision: time passes, the loops step, the orchestrator probes and restarts, all
  weakly fair; a start that is repeated succeeds at last (strong fairness of `Online`).
  Progress inside a poll and jobs owe nothing.
* Gossip: peers come back, and `Hear` is strongly fair because the mesh may be
  without peers in between. `MaxBursts` says that a reader is not outrun for ever.

`EventuallyResolved` is checked without a journal, and so without rotation: with
rotation it depends on the real-time bound `WORKING_SET_RESIDENCE` (a message
stays five minutes before it can be rotated out), which flags cannot express.

## 4. Proofs

Each proof module `XProofs` extends the module `X` it is about; `SupportProofs` has
three parts, about WorkCursor, Supervision and Gossip, which share no variable and
have a specification each (`CursorSpec`, `WatchSpec`, `GossipSpec`). The theorems hold
for every value of the constants that satisfies the `ASSUME` of the modules
concerned, in particular for any number of messages, transactions, workers and
faults.

| Module | Theorem | States |
| --- | --- | --- |
| `DurableHandoffProofs` | `TypeCorrect`, `CursorNeverAhead`, `ScanIsJournaled`, `MemoryIsBacked` | `[]` of `TypeOK`, `NoLoss`, `ScanJournaled`, `WorkingSetBacked` |
| | `HandoffKeepsCustody` | `Spec => KeepsCustody`, the refinement of Custody |
| `VotePoolProofs` | `PoolTypeCorrect`, `OneJob`, `VotesStayCurrent` | `[]` of `TypeOK`, `OneJobPerMessage`, `VotesAreCurrent` |
| | `BundlesAreQuorums`, `NothingIsDropped` | the action properties `BundleIsQuorum`, `NothingDropped` |
| `SupportProofs` | `LiveExact`, `LapComplete` | WorkCursor: `[]` of `LiveIsExact`, `LapCovers` |
| | `OutageIsSeen` | Supervision: `[]OutageShows` |
| | `WaitingIsAlive` | Supervision: `[]WaitingIsNotStale` |
| | `GaugeShowsFleet` | Gossip: `[]GaugeIsFleet` |
| `DeliveryProofs` | `DeliveryTypeCorrect`, `DeliveredFinal`, `Budget`, `ChargedFairly`, `RefusedRightly` | `[]` of `TypeOK`, `DeliveredIsFinal`, `RetryBudget`, `NoOvercharge`, `RefusalIsRight` |
| | `AbandonedNeverPaid` | the action property `AbandonedStays` |
| `SettlementProofs` | `SettlementTypeCorrect`, `HistoryIsComplete`, `NothingIsForgotten` | `[]` of `TypeOK`, `HistoryComplete`, `NothingForgotten` |
| `ClaimProofs` | `ClaimTypeCorrect`, `LocksAccounted` | `[]` of `TypeOK`, `LocksAccountedFor` |
| `SetUpdateProofs` | `SetUpdateTypeCorrect`, `SendsLeaveNoGap`, `SendsDoNotCollide`, `UpdatesAreSentOnce` | `[]` of `TypeOK`, Broadcast's `NoGap` and `NoCollision`, `SentOnce` |

`SetLemmas` has what these share: minima and maxima of finite sets of naturals, and
what the queue of `PendingTxs` guarantees. `EvictionsProperty`: an eviction
brings the queue within its cap and takes only what was in it. `HoldBackProperty`: the
cursor that is saved lies below the anchor of everything in the queue.

Every proof has the same shape: an inductive invariant, one lemma for each action
that preserves it, one lemma `Next...` (`EveryStep` in VotePoolProofs) that goes
through the disjuncts of `Next`, and the theorems as consequences. None of the
properties is inductive by itself; what each had to be strengthened by is the
interesting part.

**DurableHandoff** (`IInv`). A step that saves the cursor needs to know that what
lies behind the cursor in memory is already safe, which is `ScanJournaled`; that in
turn needs, for `FinishPoll`, that the part of the range already worked through is
safe; and a verdict keeps a message safe only because what is in flight has a
record or is finished. The argument turns on `SafeGrows`: no action, no fault among
them, takes a message out of `Safe == (records \cap synced) \cup finished`.
`ResumeIsSafe` gives the restart, `SaveKeepsNoLoss` the cursor's three outcomes,
`DownKeeps` the faults. The refinement adds `FinishedGrows` and `PassedIsSafe`.

**VotePool** (`PoolInv`). `Tables`: the insertion order lists the loaded messages,
each once, and the table is never over its size, which is why the loop of
`make_room` runs at most once. `Current`: the votes held were signed, and those of
open messages are of today's attestors. `JobsInv`: each message in flight has one
job, in the channel, at the worker or among the results. `VerdictInv`: what is
resolved has a final verdict, and with a journal nothing that has arrived is
without a record. The helpers of the model map routes to routes, so most of the
work is in lemmas about them (`DropKeeps`, `AdmitKeeps`, `BufferEarlyKeeps`,
`PruneKeeps`, `LoadKeeps`, `PostKeeps`), chained by the transitive relation `Keeps`:
no slot is lost but a resolved one, and what is in flight and the attestor set are
the same. `NothingDropped` is where eviction, rotation and age limits meet: a slot
that leaves the table is resolved, so it has a verdict, or its record is still in
the journal. `Without` and `Load` are recursive functions; the proofs
unfold them through lemmas that such a function exists (`LeavesExists`,
`LoadsExists`).

**WorkCursor** (`CursorInv`). `LapCovers` needs that what is owed is on disk, that
the window lies ahead of the cursor, and that a call runs only on a cursor that has
counted its records. `WindowIsSmallest` is the core: a refilled window has the
smallest ids ahead, so whatever it leaves out lies beyond all of it.

**Delivery** (`DeliveryInv`).
* `DeliveredIsFinal` needs `ChainInv`: along the window of blocks an execution once
  there stays, so that a message executed in the confirmed block is executed in
  every later one, and a reorganisation takes an execution back as a whole.
* `RetryBudget` needs `LedgerInv` and `BudgetInv`. Memory is never laxer than the
  file: it knows of the file's tombstone, and short of one it counts no less. A
  worker on the way to a broadcast has both counts below the limit. What was paid is
  on one of the copies, was missed, or is about to be recorded, unless a tombstone
  hides the count or the entry was forgotten because the message is executed for
  good. `AbandonedStays` is the part of `LedgerInv` that says a worker about to pay
  has no tombstone in either copy.
* `NoOvercharge` needs `ChargeInv`: the entry the job has in hand counts nothing
  else either, and a payment not yet recorded leaves room for itself.
* `RefusalIsRight` needs `FundingInv`: the job decides on an old reading of the
  source ledger, which ages well. What was settled stays settled, and once the
  deadline is past the gas limit is what it was.

**Settlement** (`SettlementInv`). `HistoryInv` adds to `HistoryComplete` that only
confirmed blocks are in the history, which no branch takes back. `AttemptInv` says
what each step of an attempt has established: a fee that is not among the claims it
works on is paid, and an outcome that releases the transaction from the queue is
true of the finalized state. `QueueInv` relates the cursors to the queue: what is
behind the cursor in memory is settled or still tracked, and what is tracked holds
the saved cursor back.

**Claim** (`ClaimInv`). What is claimed may be lost again, so the argument cannot be
about `claimed`: it is about `Ended`, what the worker has released or written off,
which only grows. `ScanAccountedFor` is for the cursor in memory,
`SaveAccountedFor` for the one on disk, `Anchored` says that an anchor is no higher than
its block, and `DoneAccountedFor` that what a scan skips because it is done has
ended. `EvidenceInv` gives the releases their meaning: what the worker takes for
paid, in an attempt or for good, is paid or in `undone`. Together they are
`LocksAccountedFor`.

**SetUpdate and Broadcast** (`SetUpdateInv`). `SendInv` is about the lock, the node
and the wire, whatever is sent. `LockInv`: who is past the line has the lock, and
nobody is in the line twice. `GapInv` is `NoGap` extended to what is on the wire and
to a call that has read its nonce. `FreshInv`: if nothing is doubtful, the nonce a
caller has read is still free. On top of it, `NonceInv` bounds the updates by the
elections and administrators that pay for them, which makes the bound in `TypeOK` a
theorem; `BackedInv`: every signature an update carries was made, so what takes
effect on the chain was elected; `LoadInv`: who sends what; `OnceInv`: a digest with a live
transaction is in flight or behind the nonce, and a submission that has not reached
the node has no transaction yet.

**Supervision** (`WatchInv`, `TimelyInv`). `OutageShows` needs that the last success
of a poller is no younger than the outage (`OutageInv`): whatever it reports it was
served, inside a poll or at its end. `RestInv` says that a worker that does not turn
yet remembers nothing, and that a deferral is waited for between two polls.
`WaitingIsNotStale` needs `SilenceInv`: the silence, the age of the last report of
either kind, is no longer than the work done since that report and one wait. For a
poller that is idle, the time to its next tick and the rest of its deferral are
still to come out of that wait; a scanner settling has the whole of it before it.
For the delivery worker the wait is two ticks, since a tick that does not report
follows a job reported less than a tick ago. Nothing is assumed of how the timers
compare with the deadline.

**Gossip** (`GossipInv`). `FleetInv`: the set of the observer is the one gossipsub
has, and it holds no peer whose last connection is gone. `GaugeInv`: the newest
status on the way tells the size of that set, wherever it is, in the ring, in the
socket when the ring has none, or in the gauge when neither has one, unless the
reader was outrun or there is no session. `Published`, `ForwardStep` and
`ReceiveStep` move a status from one place to the next; the lemmas on `Newest`
(`StatusAppended`, `OtherAppended`, `FirstRead`) say what appending and reading do.

The invariants were checked with TLC on the instances of section 3 before they were
proved.

### Assumptions

Beyond the types of the constants and that a sentinel is not one of the values it
stands beside, the proofs use: `Txs`, `Messages` and `Workers` are finite;
the caps, spans and window sizes are positive, as `config.rs` or the constants of
the code have them; `InitialBackoff <= MaxBackoff`, and there is a limit
(`PolicyAssumption`); an elected set is finite and not empty, and a regime's
threshold is between one and its size (`SetUpdateAssumption`, what the validator
contract enforces); a transaction is in one block of a destination chain, and an
Inbox takes messages of supported Outboxes only (`IsChain`). Nothing is assumed about
the number of faults, nor of how caps, spans, depths and lookbacks compare. The runs
of section 3 evaluate every assumption.

No theorem has a hypothesis of its own.

### Only model-checked

* Every liveness property (`EveryMessageFinishes`, `EventuallyResolved`,
  `EveryRecordOffered`, Delivery's and Settlement's `EventuallySettled`,
  `LocksFinish`, `Converges`, `Recovers`, `VotesArrive`): fairness is out of the
  prover's reach.
* `CrashForgetsNothing` is refuted, see section 3.

## 5. Not modelled

* Byte encodings, ABI bindings, revert classification by selector, HTTP, metrics,
  outcomes, balances and configuration: parsing and reporting. Their effects appear
  as calls that fail and as the kinds of answers the callers tell apart.
* libp2p, the websocket library and the RPC transports: the environment of Gossip,
  Supervision and the rest.
* Gas, value and fees beyond whether they suffice.
* Several routes: they share the pool's loop and the signer's lock (the latter is
  modelled with two senders); every table is per route.

## 6. Plan

Modelled: every part that keeps state the protocol depends on. Proved: every safety
property of the passing runs, and the refinement of Custody. What could follow:

1. A pool with two routes, to state that a busy route does not starve another one.
2. The steps of the liveness arguments that are safety: each waits on a chain of
   actions, and that a link once enabled stays enabled can be proved without fairness.
3. The peer count of the embedded swarm (`p2p/mod.rs:385`), once it is decided what it
   should show after a reconnect.
