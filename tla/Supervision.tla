---------------------------- MODULE Supervision -----------------------------
(***************************************************************************)
(* How a worker that stopped is told from one that fails or has nothing to *)
(* do: the health registry (src/message-relayer/src/health.rs), the pacer  *)
(* of rate-limited loops (pacing.rs), the provider that is rebuilt after   *)
(* failures (rpc.rs), the liveness ticker of the delivery worker           *)
(* (delivery/mod.rs), and the server that ends when a worker does          *)
(* (lib.rs).                                                               *)
(*                                                                         *)
(* One worker, for workers share only the registry, where each has its own *)
(* entry.  It is of one of four kinds:                                     *)
(*   "watcher"     the Outbox watcher: it reports progress inside a poll   *)
(*                 that may fail later, it rebuilds its provider, and it   *)
(*                 is not paced;                                           *)
(*   "scanner"     the acknowledgment and the claim submitter: a scan is   *)
(*                 reported, then what is pending is proved and sent in    *)
(*                 the same tick, and the pacer hears of the scan last;    *)
(*   "setwatcher"  the attestor-set watcher: it dials for every poll and   *)
(*                 hands a changed set to the pool;                        *)
(*   "delivery"    the delivery worker: it waits for jobs and keeps the    *)
(*                 provider it started with.                               *)
(*                                                                         *)
(* Time is discrete.  A poll or a job takes any time, and so does setup; a *)
(* loop that waits answers a timer when it is due.  The registry keeps     *)
(* instants, the model their ages, up to one past the limit asked about.   *)
(***************************************************************************)
EXTENDS Integers, Sequences, FiniteSetsExt

CONSTANTS
  Deadline,     \* PROGRESS_DEADLINE
  PollInterval, \* the pollers' interval
  Windows,      \* the pacer's deferral at each level: BASE * 2^(level - 1)
  RebuildAfter, \* REBUILD_AFTER_FAILURES
  HealthTick    \* the delivery worker's liveness interval

ASSUME SupervisionAssumption ==
  /\ {Deadline, PollInterval, RebuildAfter, HealthTick} \subseteq Nat \ {0}
  /\ Windows \in Seq(Nat) /\ Windows # <<>>

VARIABLES
  kind,     \* the kind of the worker
  mode,     \* "down", "setup", "turning" or "hung"
  stage,    \* "idle"; "poll", "batch" when its logs are in hand; "job"; "settle"
  okAge,    \* age of last_ok
  errAge,   \* age of last_err; past the deadline also when there is none
  due,      \* time to the next tick of the worker's interval
  endpoint, \* "up", "down" or "limiting"
  provider, \* "none", "live", or "dead": it answers every call with an error
  fails,    \* consecutive_failures
  level,    \* the pacer
  defer,    \* what is left of its deferral window
  limited,  \* rate_limited of the scan of this tick
  jobAge,   \* age of last_job_at, up to HealthTick, or NoJob
  toil,     \* history: time spent at work since the last report
  outage    \* history: how long the endpoint has served nothing this process uses

NoJob == -1
Kinds == {"watcher", "scanner", "setwatcher", "delivery"}
registry == <<okAge, errAge, toil>>
pacing == <<level, defer, limited>>
rpc == <<provider, fails>>
world == <<endpoint, outage>>
watchVars == <<kind, mode, stage, registry, due, world, rpc, pacing, jobAge>>

Past == Deadline + 1
Older(age, cap) == IF age = NoJob THEN NoJob ELSE Min({age + 1, cap})
Sooner(t) == Max({0, t - 1})

WatchInit ==
  /\ kind \in Kinds /\ mode = "down" /\ stage = "idle"
  /\ okAge = 0 /\ errAge = Past /\ toil = 0 /\ due = 0
  /\ endpoint = "up" /\ outage = 0 /\ provider = "none" /\ fails = 0
  /\ level = 0 /\ defer = 0 /\ limited = FALSE /\ jobAge = NoJob
-----------------------------------------------------------------------------
(***************************************************************************)
(* Health.                                                                 *)
(***************************************************************************)
Heartbeat == okAge' = 0 /\ toil' = 0 /\ UNCHANGED errAge

\* Mutant: a failed iteration reports nothing.
ErrorUnreported == UNCHANGED registry

Error == errAge' = 0 /\ toil' = 0 /\ UNCHANGED okAge

\* Health::status.
Status ==
  CASE okAge <= Deadline -> "ok"
    [] okAge > Deadline /\ errAge <= Deadline -> "degraded"
    [] OTHER -> "stale"
-----------------------------------------------------------------------------
(***************************************************************************)
(* Time and the world.                                                     *)
(***************************************************************************)
\* A loop that waits answers a timer that is due.  Nobody observes the process
\* while it is down.
Urgent ==
  \/ mode = "down"
  \/ mode = "turning" /\ stage = "idle" /\ due = 0

AtWork == mode = "setup" \/ (mode = "turning" /\ stage # "idle")

Tick ==
  /\ ~Urgent
  /\ okAge' = Older(okAge, Past) /\ errAge' = Older(errAge, Past)
  /\ toil' = IF AtWork THEN Older(toil, Past) ELSE toil
  /\ outage' = IF endpoint = "up" \/ stage = "batch" THEN 0 ELSE Older(outage, Past)
  /\ due' = Sooner(due) /\ defer' = Sooner(defer)
  /\ jobAge' = Older(jobAge, HealthTick)
  /\ UNCHANGED <<kind, mode, stage, endpoint, rpc, level, limited>>

EndpointChanges(e) ==
  /\ kind # "delivery" /\ endpoint # e /\ endpoint' = e
  /\ outage' = IF "up" \in {endpoint, e} THEN 0 ELSE outage
  /\ UNCHANGED <<kind, mode, stage, registry, due, rpc, pacing, jobAge>>

TransportDies ==
  /\ provider = "live" /\ provider' = "dead"
  /\ UNCHANGED <<kind, mode, stage, registry, due, world, fails, pacing, jobAge>>
-----------------------------------------------------------------------------
(***************************************************************************)
(* The process: Server::run and the orchestrator.                          *)
(***************************************************************************)
\* A worker registers before it connects to anything.
Start ==
  /\ mode = "down" /\ mode' = "setup"
  /\ okAge' = 0 /\ errAge' = Past /\ toil' = 0 /\ outage' = 0
  /\ UNCHANGED <<kind, stage, due, endpoint, rpc, pacing, jobAge>>

\* All but the attestor-set watcher have dialled when their loop begins.
Online ==
  /\ mode = "setup" /\ mode' = "turning"
  /\ provider' = (IF kind = "setwatcher" THEN "none" ELSE "live")
  /\ UNCHANGED <<kind, stage, registry, due, world, fails, pacing, jobAge>>

\* A call without a time limit never returns.
Hang ==
  /\ mode \in {"setup", "turning"} /\ mode' = "hung"
  /\ UNCHANGED <<kind, stage, registry, due, world, rpc, pacing, jobAge>>

Cleared ==
  /\ mode' = "down" /\ stage' = "idle" /\ due' = 0 /\ provider' = "none" /\ fails' = 0
  /\ level' = 0 /\ defer' = 0 /\ limited' = FALSE /\ jobAge' = NoJob
  /\ UNCHANGED <<kind, registry, world>>

\* The probe of a stale worker fails, and the process is replaced.
ProbeKills == mode # "down" /\ Status = "stale" /\ Cleared

\* This worker or another one returns, at setup or later: all are cancelled.
\* One that hangs does not notice, but the probe is no longer answered.
WorkerExits == mode # "down" /\ Cleared
-----------------------------------------------------------------------------
(***************************************************************************)
(* The pollers.                                                            *)
(***************************************************************************)
\* A tick of the interval: the next is an interval after this one, however late
\* it is (MissedTickBehavior::Delay).
Polls ==
  /\ kind # "delivery" /\ mode = "turning" /\ stage = "idle"
  /\ due = 0 /\ due' = PollInterval

PollDeferred ==
  /\ Polls /\ defer > 0
  /\ UNCHANGED <<kind, mode, stage, registry, world, rpc, pacing, jobAge>>

\* An empty slot is dialled first, and the dial may fail.
BeginPoll ==
  /\ Polls /\ defer = 0 /\ stage' = "poll"
  /\ provider' \in IF provider = "none" THEN {"none", "live"} ELSE {provider}
  /\ UNCHANGED <<kind, mode, registry, world, fails, pacing, jobAge>>

Polling == kind # "delivery" /\ mode = "turning" /\ stage \in {"poll", "batch"}

\* What the endpoint has to serve it serves, or it has.
Served == stage = "batch" \/ (provider = "live" /\ endpoint = "up")

\* Mutant: progress is reported before the logs are read.
ProgressEarly ==
  /\ Polling /\ kind = "watcher" /\ Heartbeat
  /\ UNCHANGED <<kind, mode, stage, due, world, rpc, pacing, jobAge>>

\* The watcher has one more receipt of a dense block, or one more of the logs it
\* was given.  What it does with the log may need the endpoint or not, and may
\* fail.
Progress ==
  /\ Polling /\ kind = "watcher" /\ Served /\ Heartbeat
  /\ stage' \in {stage, "batch"}
  /\ UNCHANGED <<kind, mode, due, world, rpc, pacing, jobAge>>

\* RateLimitPacer::after.
Pace(rateLimited) ==
  IF rateLimited
  THEN /\ level' = Min({level + 1, Len(Windows)})
       /\ defer' = Windows[Min({level + 1, Len(Windows)})]
  ELSE /\ level' = Max({0, level - 1})
       /\ UNCHANGED defer

\* The pacer hears of a poll: a scanner's after what is pending was tried, the
\* attestor-set watcher's at once, the Outbox watcher's never.
PollEnds(ok, rateLimited) ==
  \/ kind = "watcher" /\ stage' = "idle" /\ UNCHANGED pacing
  \/ /\ kind = "scanner" /\ stage' = "settle" /\ limited' = rateLimited
     /\ UNCHANGED <<level, defer>>
  \/ /\ kind = "setwatcher" /\ stage' = (IF ok THEN "settle" ELSE "idle")
     /\ Pace(rateLimited) /\ UNCHANGED limited

PollOk ==
  /\ Polling /\ Served
  /\ IF kind = "setwatcher" THEN provider' = "none" ELSE UNCHANGED provider
  /\ fails' = 0
  /\ Heartbeat /\ PollEnds(TRUE, FALSE)
  /\ UNCHANGED <<kind, mode, due, world, jobAge>>

\* Mutant: the provider is kept whatever happens.
NoteErrKeeps == provider' = provider /\ fails' = Min({fails + 1, RebuildAfter - 1})

\* Reconnecting::note_err.
NoteErr ==
  IF fails + 1 < RebuildAfter
  THEN fails' = fails + 1 /\ UNCHANGED provider
  ELSE fails' = 0 /\ provider' = "none"

\* A poll may fail whatever the endpoint does: on a log it cannot use, a block
\* it cannot find, a record it cannot write.
PollErr ==
  /\ Polling
  /\ IF kind = "setwatcher" THEN provider' = "none" /\ UNCHANGED fails ELSE NoteErr
  /\ Error /\ PollEnds(FALSE, endpoint = "limiting" /\ provider = "live")
  /\ UNCHANGED <<kind, mode, due, world, jobAge>>

\* What follows the report is over: process_pending, the set that is handed to
\* the pool, the result of a job that is.
Settled ==
  /\ mode = "turning" /\ stage = "settle" /\ stage' = "idle"
  /\ IF kind = "scanner" THEN Pace(limited) ELSE UNCHANGED <<level, defer>>
  /\ limited' = FALSE
  /\ UNCHANGED <<kind, mode, registry, due, world, rpc, jobAge>>
-----------------------------------------------------------------------------
(***************************************************************************)
(* The delivery worker.                                                    *)
(***************************************************************************)
Free == kind = "delivery" /\ mode = "turning" /\ stage = "idle"

TakeJob ==
  /\ Free /\ stage' = "job"
  /\ UNCHANGED <<kind, mode, registry, due, world, rpc, pacing, jobAge>>

\* Every job ends with an outcome, a failed call among them, and an outcome is
\* progress: handle_job returns no error, so last_error_at is never set.
JobDone ==
  /\ kind = "delivery" /\ mode = "turning" /\ stage = "job" /\ stage' = "settle"
  /\ Heartbeat /\ jobAge' = 0
  /\ UNCHANGED <<kind, mode, due, world, rpc, pacing>>

\* idle_ticker_should_heartbeat, with no error to wait for.
ShouldHeartbeat == jobAge = NoJob \/ jobAge >= HealthTick

LivenessTick ==
  /\ Free /\ due = 0 /\ due' = HealthTick
  /\ IF ShouldHeartbeat THEN Heartbeat ELSE UNCHANGED registry
  /\ UNCHANGED <<kind, mode, stage, world, rpc, pacing, jobAge>>
-----------------------------------------------------------------------------
Work ==
  \/ PollDeferred \/ BeginPoll \/ PollOk \/ PollErr \/ Settled
  \/ JobDone \/ LivenessTick

WatchNext ==
  \/ Tick \/ TransportDies \/ \E e \in {"up", "down", "limiting"} : EndpointChanges(e)
  \/ Start \/ Online \/ Hang \/ ProbeKills \/ WorkerExits
  \/ PollDeferred \/ BeginPoll \/ Progress \/ PollOk \/ PollErr \/ Settled
  \/ TakeJob \/ JobDone \/ LivenessTick

WatchSpec == WatchInit /\ [][WatchNext]_watchVars

\* Time passes, timers fire, a call that does not hang returns, the orchestrator
\* probes and restarts, and a start that is repeated succeeds.
WatchFairness ==
  /\ WF_watchVars(Tick) /\ WF_watchVars(Work) /\ WF_watchVars(Start) /\ WF_watchVars(ProbeKills)
  /\ SF_watchVars(Online)

WatchFairSpec == WatchSpec /\ WatchFairness
-----------------------------------------------------------------------------
\* The longest a worker of each kind waits between two reports.
Waits ==
  CASE kind = "delivery" -> {2 * HealthTick}
    [] kind = "watcher" -> {PollInterval}
    [] OTHER -> {PollInterval} \cup {PollInterval + Windows[i] : i \in DOMAIN Windows}

\* The probe kills no worker for waiting.  One that is stale hangs, or what it
\* has done since its last report took longer than the deadline leaves beside
\* the longest wait: deferrals, failures and an idle route do not add up to a
\* restart, a job or a batch of receipts that takes minutes may.
WaitingIsNotStale ==
  Status = "stale" =>
    \/ mode \in {"hung", "down"}
    \/ \E w \in Waits : toil + w > Deadline

\* An outage shows: when the endpoint of a poller serves nothing for longer than
\* the deadline, the poller is not reported healthy, whatever it reports inside
\* a poll.  (A batch of logs counts as served until it is dealt with.)
OutageShows ==
  kind # "delivery" /\ mode # "down" /\ outage > Deadline => Status # "ok"

\* A loop that hangs is replaced, and a poller drops a provider that only
\* answers with errors, though no call ever says that it is dead.  The delivery
\* worker keeps the one it has.
Recovers == []<>(mode = "turning" /\ (kind # "delivery" => provider # "dead"))
=============================================================================
