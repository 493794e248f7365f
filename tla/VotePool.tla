------------------------------ MODULE VotePool ------------------------------
(***************************************************************************)
(* The vote pool (pool/mod.rs) of one route with its neighbours: the       *)
(* Outbox watcher that indexes messages, the gossip that brings votes, the *)
(* watcher that replaces the attestor set, the serial delivery worker and  *)
(* the journal of unfinished messages. One action per arm of the select    *)
(* loop of pool::run, the whole arm each time.                             *)
(*                                                                         *)
(* Clocks are abstracted to what they permit: a delay is a flag that an    *)
(* action of its own clears, and an age limit picks a prefix of the        *)
(* insertion order. delivery_attempts only chooses the length of a delay.  *)
(***************************************************************************)
EXTENDS Integers, FiniteSets, Sequences, SequencesExt

CONSTANTS
    Messages,     \* message ids of the route
    Signers,      \* addresses that may appear in a vote
    NoSigner,     \* recover_signer failed
    Signed,       \* <<m, s>>: s really signed m, in canonical form
    FirstSet,     \* resolve_attestors at start: [attestors, threshold]
    Reloads,      \* the sets the on-chain watcher may read, torn reads included
    MaxReloads,   \* bound: how many of them arrive
    CacheSizes,   \* what cache.max_messages may be set to
    DeliveryCap,  \* DELIVERY_CHANNEL_CAP
    Persistent    \* the pool has a WorkStore

ASSUME PoolAssumption ==
    /\ IsFiniteSet(Messages)
    /\ Signed \subseteq Messages \X Signers /\ NoSigner \notin Signers
    /\ Reloads \cup {FirstSet}
         \subseteq [attestors : SUBSET Signers, threshold : Nat]
    /\ CacheSizes \subseteq Nat \ {0} /\ DeliveryCap \in Nat \ {0}
    /\ MaxReloads \in Nat /\ Persistent \in BOOLEAN

VARIABLES
    route,     \* RouteState
    arriving,  \* indexed_rx
    deferred,  \* deferred_indexed: at most one message
    records,   \* the journal; empty when not Persistent
    queue,     \* jobs in the route's delivery channel
    worker,    \* the job the worker is on: at most one
    results,   \* delivery_result_rx
    verdict,   \* history: messages the worker has reported as final
    reloads    \* history: attestor-set updates so far

vars == <<route, arriving, deferred, records, queue, worker, results, verdict,
          reloads>>

Phases == {"absent", "open", "delivered", "terminal"}
Kinds  == {"Delivered", "Terminal", "AwaitingVotes", "AwaitingExecution",
           "Retryable"}
Votes  == [msg : Messages, claimed : Signers, recovered : Signers \cup {NoSigner}]

(* MessageSlot. probeDue: never reconciled, or not for DELIVERY_RETRY_MAX. *)
(* backoff: next_delivery_attempt_at is in the future.                     *)
Slot == [phase : Phases, signers : SUBSET Signers, inFlight : BOOLEAN,
         accepted : BOOLEAN, probeDue : BOOLEAN, backoff : BOOLEAN]

Fresh  == [phase |-> "open", signers |-> {}, inFlight |-> FALSE,
           accepted |-> FALSE, probeDue |-> TRUE, backoff |-> FALSE]
Absent == [Fresh EXCEPT !.phase = "absent"]

Job    == [msg : Messages, bundle : SUBSET Signers, reconcileOnly : BOOLEAN]
Result == [msg : Messages, kind : Kinds]

Loaded(r)    == {m \in Messages : r.slots[m].phase # "absent"}
Open(r)      == {m \in Messages : r.slots[m].phase = "open"}
Resolved(r)  == Loaded(r) \ Open(r)
Upto(s, n)   == SubSeq(s, 1, IF n < Len(s) THEN n ELSE Len(s))

\* retain: what is left of the sequence without the elements of S.
Without(s, S) ==
    LET left[i \in 0 .. Len(s)] ==
          IF i = 0 THEN <<>>
          ELSE IF s[i] \in S THEN left[i - 1] ELSE Append(left[i - 1], s[i])
    IN left[Len(s)]

(* No vote has been buffered and nothing is loaded when the pool starts. A *)
(* journal left by an earlier process may hold unfinished messages.        *)
Init ==
    /\ \E cap \in CacheSizes :
         route = [cache_max |-> cap, attestors |-> FirstSet.attestors,
                threshold |-> FirstSet.threshold,
                slots |-> [m \in Messages |-> Absent], order |-> <<>>,
                early |-> [m \in Messages |-> {}], earlyOrder |-> <<>>]
    /\ records \in IF Persistent THEN SUBSET Messages ELSE {{}}
    /\ arriving = <<>> /\ deferred = {}
    /\ queue = <<>> /\ worker = {} /\ results = {}
    /\ verdict = {} /\ reloads = 0

-----------------------------------------------------------------------------
(* RouteState and State, as functions of the route.                        *)

(* Take slots out of the table and out of the insertion order. *)
Drop(r, S) ==
    [r EXCEPT !.slots = [m \in Messages |-> IF m \in S THEN Absent ELSE @[m]],
              !.order = Without(@, S)]

CanIndex(r, m) ==
    \/ m \in Loaded(r)
    \/ Cardinality(Loaded(r)) < r.cache_max
    \/ Resolved(r) # {}

(* make_room: a full table gives up its oldest resolved slot. Its loop      *)
(* runs at most once, for the table is never more than full (Tables, in     *)
(* VotePoolProofs).                                                         *)
MakeRoom(r) ==
    IF Cardinality(Loaded(r)) < r.cache_max THEN r
    ELSE Drop(r, ToSet(Upto(Without(r.order, Open(r)), 1)))

\* Mutant: early votes are adopted without looking at the set of today.
AdmitAllEarly(r, m) ==
    LET room == MakeRoom(r) IN
    IF m \in Loaded(r) \/ Cardinality(Loaded(room)) >= r.cache_max THEN r
    ELSE [room EXCEPT !.slots[m] = [Fresh EXCEPT !.signers = r.early[m]],
                      !.order = Append(@, m),
                      !.early[m] = {},
                      !.earlyOrder = Without(@, {m})]

(* The state part of note_indexed: a slot of its own, with the early votes *)
(* of those who are attestors now.                                         *)
Admit(r, m) ==
    LET room == MakeRoom(r) IN
    IF m \in Loaded(r) \/ Cardinality(Loaded(room)) >= r.cache_max THEN r
    ELSE [room EXCEPT
            !.slots[m] = [Fresh EXCEPT !.signers = r.early[m] \cap r.attestors],
            !.order = Append(@, m),
            !.early[m] = {},
            !.earlyOrder = Without(@, {m})]

\* Mutant: a threshold of zero is met by no votes.
HasQuorumOfNone(r, m) == Cardinality(r.slots[m].signers) >= r.threshold

\* Mutant: one vote short of the threshold is enough.
HasQuorumShort(r, m) ==
    r.threshold > 0 /\ Cardinality(r.slots[m].signers) >= r.threshold - 1

HasQuorum(r, m) ==
    r.threshold > 0 /\ Cardinality(r.slots[m].signers) >= r.threshold

\* Mutant: the tick does not probe messages below quorum.
ReadyNoProbe(r, m, allowProbe) ==
    LET s == r.slots[m] IN
    /\ s.phase = "open" /\ ~s.inFlight /\ ~s.backoff
    /\ HasQuorum(r, m) \/ s.accepted

(* dispatch_if_ready: its test, the job it builds and its mark on the slot. *)
Ready(r, m, allowProbe) ==
    LET s == r.slots[m] IN
    /\ s.phase = "open" /\ ~s.inFlight /\ ~s.backoff
    /\ HasQuorum(r, m) \/ s.accepted \/ (allowProbe /\ s.probeDue)

JobFor(r, m) == [msg |-> m, bundle |-> r.slots[m].signers,
                 reconcileOnly |-> r.slots[m].accepted \/ ~HasQuorum(r, m)]

Launch(r, S) ==
    [r EXCEPT !.slots = [m \in Messages |->
        IF m \in S THEN [@[m] EXCEPT !.inFlight = TRUE, !.backoff = FALSE]
                   ELSE @[m]]]

\* Mutant: the in-flight mark of a job that was not sent stays.
RequeueMarked(r, S) ==
    [r EXCEPT !.slots = [m \in Messages |->
        IF m \in S THEN [@[m] EXCEPT !.backoff = TRUE] ELSE @[m]]]

(* requeue_delivery for each job the channel had no room for. *)
Requeue(r, S) ==
    [r EXCEPT !.slots = [m \in Messages |->
        IF m \in S THEN [@[m] EXCEPT !.inFlight = FALSE, !.backoff = TRUE]
                   ELSE @[m]]]

(* dispatch_delivery_job for the ready messages S: try_send fails only for *)
(* want of room, and what is not sent returns to its slot.                 *)
Post(r, S) ==
    \E sent \in SUBSET S, room \in {DeliveryCap - Len(queue)} :
        /\ Cardinality(sent) <= room
        /\ sent = S \/ Cardinality(sent) = room
        /\ \E jobs \in SetToSeqs({JobFor(r, m) : m \in sent}) :
              queue' = queue \o jobs
        /\ route' = Requeue(Launch(r, S), S \ sent)

(* The arms of the loop run after its head has admitted what it can. *)
LoopTop == \A m \in deferred : ~CanIndex(route, m)

-----------------------------------------------------------------------------
(* The arms of pool::run.                                                  *)

(* note_indexed, and the dispatch of what the early votes bring to quorum. *)
NoteIndexed(m) ==
    \E r \in {Admit(route, m)} :
        Post(r, IF m \notin Loaded(route) /\ Ready(r, m, FALSE)
                THEN {m} ELSE {})

(* The head of the loop: the deferred message gets its slot. *)
AdmitDeferred(m) ==
    /\ m \in deferred /\ CanIndex(route, m)
    /\ deferred' = {}
    /\ NoteIndexed(m)
    /\ UNCHANGED <<arriving, records, worker, results, verdict, reloads>>

(* The indexed_rx arm: a message that does not fit is set aside without a  *)
(* journal, and left to the refill with one.                               *)
Receive ==
    /\ deferred = {} /\ arriving # <<>>
    /\ arriving' = Tail(arriving)
    /\ LET m == Head(arriving) IN
       \/ /\ CanIndex(route, m)
          /\ NoteIndexed(m)
          /\ UNCHANGED deferred
       \/ /\ ~CanIndex(route, m)
          /\ deferred' = IF Persistent THEN {} ELSE {m}
          /\ UNCHANGED <<route, queue>>
    /\ UNCHANGED <<records, worker, results, verdict, reloads>>

\* Mutant: the claimed signer is believed.
ValidClaim(r, v) == v.claimed \in r.attestors

(* A vote counts when the claimed signer is an attestor and the signature  *)
(* recovers to it.                                                         *)
Valid(r, v) == v.claimed \in r.attestors /\ v.recovered = v.claimed

(* buffer_early_vote with evict_early_overflow. *)
BufferEarly(r, v) ==
    LET m     == v.msg
        queued == IF r.early[m] = {} THEN Append(r.earlyOrder, m)
                  ELSE r.earlyOrder
        over  == IF Len(queued) > r.cache_max THEN {Head(queued)} ELSE {}
        votes == [r.early EXCEPT ![m] = @ \cup {v.recovered}]
    IN [r EXCEPT !.early = [x \in Messages |->
                              IF x \in over THEN {} ELSE votes[x]],
                 !.earlyOrder = Without(queued, over)]

(* note_vote. A vote that is not valid, is for a resolved message or is a  *)
(* repeat changes nothing.                                                 *)
NoteVote(v) ==
    /\ LoopTop /\ Valid(route, v)
    /\ \/ /\ v.msg \notin Loaded(route)
          /\ route' = BufferEarly(route, v)
          /\ UNCHANGED queue
       \/ /\ v.msg \in Open(route)
          /\ v.recovered \notin route.slots[v.msg].signers
          /\ LET r == [route EXCEPT !.slots[v.msg].signers = @ \cup {v.recovered}]
             IN Post(r, IF Cardinality(r.slots[v.msg].signers) >= r.threshold
                           /\ Ready(r, v.msg, FALSE)
                        THEN {v.msg} ELSE {})
    /\ UNCHANGED <<arriving, deferred, records, worker, results, verdict,
                   reloads>>

(* apply_attestor_set: the new set prunes what was collected, in-flight    *)
(* messages included, and may bring others to quorum.                      *)
ApplySet(u) ==
    LET kept == [m \in Messages |->
                   IF m \in Open(route)
                   THEN [route.slots[m] EXCEPT !.signers = @ \cap u.attestors]
                   ELSE route.slots[m]]
        r == [route EXCEPT !.attestors = u.attestors,
                           !.threshold = u.threshold, !.slots = kept]
    IN
    /\ LoopTop /\ reloads < MaxReloads /\ reloads' = reloads + 1
    /\ <<u.attestors, u.threshold>> # <<route.attestors, route.threshold>>
    /\ Post(r, {m \in Open(r) :
                  /\ Cardinality(r.slots[m].signers) >= u.threshold
                  /\ Ready(r, m, FALSE)})
    /\ UNCHANGED <<arriving, deferred, records, worker, results, verdict>>

(* note_delivery_result. *)
AfterResult(s, kind) ==
    LET landed == [s EXCEPT !.inFlight = FALSE] IN
    CASE kind = "Delivered" -> [landed EXCEPT !.phase = "delivered"]
      [] kind = "Terminal" -> [landed EXCEPT !.phase = "terminal"]
      [] kind = "AwaitingVotes" ->
           [landed EXCEPT !.probeDue = FALSE, !.accepted = FALSE,
                          !.backoff = FALSE]
      [] kind = "AwaitingExecution" ->
           [landed EXCEPT !.probeDue = FALSE, !.accepted = TRUE,
                          !.backoff = TRUE]
      [] kind = "Retryable" -> [landed EXCEPT !.backoff = TRUE]

\* Mutant: a retryable failure is given up on, record and all.
TakeResultGivesUp(x) ==
    /\ LoopTop /\ x \in results
    /\ results' = results \ {x}
    /\ records' = IF x.kind \in {"Delivered", "Terminal", "Retryable"}
                  THEN records \ {x.msg} ELSE records
    /\ route' = [route EXCEPT !.slots[x.msg] =
                    AfterResult(@, IF x.kind = "Retryable" THEN "Terminal"
                                   ELSE x.kind)]
    /\ UNCHANGED <<arriving, deferred, queue, worker, verdict, reloads>>

(* A result: the journal's record goes first, then the slot is marked. *)
TakeResult(x) ==
    /\ LoopTop /\ x \in results
    /\ results' = results \ {x}
    /\ records' = IF x.kind \in {"Delivered", "Terminal"}
                  THEN records \ {x.msg} ELSE records
    /\ route' = IF x.msg \in Loaded(route)
                THEN [route EXCEPT !.slots[x.msg] = AfterResult(@, x.kind)]
                ELSE route
    /\ UNCHANGED <<arriving, deferred, queue, worker, verdict, reloads>>

(* prune_expired: the delivered slots, the terminal ones among the `old`   *)
(* oldest, and the `stale` oldest buffers of early votes.                  *)
PruneExpired(r, old, stale) ==
    LET gone == {m \in Messages :
                   \/ r.slots[m].phase = "delivered"
                   \/ /\ r.slots[m].phase = "terminal"
                      /\ m \in ToSet(Upto(r.order, old))}
        lost == ToSet(Upto(r.earlyOrder, stale))
    IN [Drop(r, gone) EXCEPT
          !.early = [m \in Messages |-> IF m \in lost THEN {} ELSE @[m]],
          !.earlyOrder = Without(@, lost)]

Capacity(r) == IF Cardinality(Loaded(r)) < r.cache_max
               THEN r.cache_max - Cardinality(Loaded(r)) ELSE 0

(* The slots refill may rotate out, oldest first: open, not in flight and  *)
(* among the `aged` oldest.                                                *)
Candidates(r, aged) ==
    Upto(Without(Upto(r.order, aged),
                 Messages \ {m \in Open(r) : ~r.slots[m].inFlight}),
         IF r.cache_max \div 4 > 1 THEN r.cache_max \div 4 ELSE 1)

(* What work.pending may return: it walks its cursor for a bounded number  *)
(* of records, so any choice of records that are not loaded.               *)
Pending(r, limit) ==
    UNION {SetToSeqs(S) :
             S \in {T \in SUBSET (records \ Loaded(r)) : Cardinality(T) <= limit}}

(* The slots rotated out to load `pending`. *)
Rotated(r, pending, cands) ==
    LET excess == Len(pending) - Capacity(r)
    IN ToSet(Upto(cands, IF excess > 0 THEN excess ELSE 0))

(* Take the pending records in, in their order. *)
Load(r, pending) ==
    LET loaded[i \in 0 .. Len(pending)] ==
          IF i = 0 THEN r ELSE Admit(loaded[i - 1], pending[i])
    IN loaded[Len(pending)]

(* The prune tick: prune, refill, and hand over what is ready, the probes  *)
(* of messages below quorum included. A message refill loads may be ready  *)
(* from its early votes; every other one may be probed at once.            *)
Tick(old, stale, aged) ==
    /\ LoopTop
    /\ \E pruned \in {PruneExpired(route, old, stale)} :
       \E cands \in {Candidates(pruned, aged)} :
       \E pending \in IF Persistent
                      THEN Pending(pruned, Capacity(pruned) + Len(cands))
                      ELSE {<<>>} :
       \E out \in {Rotated(pruned, pending, cands)} :
       \E r \in {Load(Drop(pruned, out), pending)} :
          /\ records' = records \cup out
          /\ Post(r, {m \in Messages : Ready(r, m, TRUE)})
    /\ UNCHANGED <<arriving, deferred, worker, results, verdict, reloads>>

-----------------------------------------------------------------------------
(* Time, and the tasks around the pool.                                    *)

(* next_delivery_attempt_at, or the reconciliation interval, passes. *)
BackoffElapses(m) ==
    /\ m \in Open(route) /\ route.slots[m].backoff
    /\ route' = [route EXCEPT !.slots[m].backoff = FALSE]
    /\ UNCHANGED <<arriving, deferred, records, queue, worker, results,
                   verdict, reloads>>

ProbeElapses(m) ==
    /\ m \in Open(route) /\ ~route.slots[m].probeDue
    /\ route' = [route EXCEPT !.slots[m].probeDue = TRUE]
    /\ UNCHANGED <<arriving, deferred, records, queue, worker, results,
                   verdict, reloads>>

(* The Outbox watcher records and sends a message; a repeated scan sends   *)
(* it again.                                                               *)
Index(m) ==
    /\ m \notin ToSet(arriving)
    /\ arriving' = Append(arriving, m)
    /\ records' = IF Persistent THEN records \cup {m} ELSE records
    /\ UNCHANGED <<route, deferred, queue, worker, results, verdict, reloads>>

(* The delivery worker is serial. *)
WorkerTakes ==
    /\ worker = {} /\ queue # <<>>
    /\ queue' = Tail(queue) /\ worker' = {Head(queue)}
    /\ UNCHANGED <<route, arriving, deferred, records, results, verdict,
                   reloads>>

(* The outcome of handle_job or of reconcile_execution. A job with votes   *)
(* never reports AwaitingVotes: settle_duplicate_revert retries instead.   *)
WorkerReports(j, kind) ==
    /\ j \in worker
    /\ kind = "AwaitingVotes" => j.reconcileOnly
    /\ worker' = {}
    /\ results' = results \cup {[msg |-> j.msg, kind |-> kind]}
    /\ verdict' = IF kind \in {"Delivered", "Terminal"}
                  THEN verdict \cup {j.msg} ELSE verdict
    /\ UNCHANGED <<route, arriving, deferred, records, queue, reloads>>

Next ==
    \/ \E m \in Messages :
          \/ AdmitDeferred(m) \/ Index(m)
          \/ BackoffElapses(m) \/ ProbeElapses(m)
    \/ \E v \in Votes : v.recovered \in {NoSigner} \cup
                                        {s \in Signers : <<v.msg, s>> \in Signed}
                        /\ NoteVote(v)
    \/ \E u \in Reloads : ApplySet(u)
    \/ \E x \in results : TakeResult(x)
    \/ \E old, aged \in 0..Len(route.order), stale \in 0..Len(route.earlyOrder) :
          Tick(old, stale, aged)
    \/ Receive \/ WorkerTakes
    \/ \E j \in worker, kind \in Kinds : WorkerReports(j, kind)

Spec == Init /\ [][Next]_vars

-----------------------------------------------------------------------------
(* collect_stalled_reobservations: the messages whose attestors are asked  *)
(* to sign again, every minute while this lasts.                           *)
Stalled(r, m) ==
    LET s == r.slots[m] IN
    /\ s.phase = "open" /\ ~s.inFlight /\ ~s.accepted
    /\ Cardinality(s.signers) < r.threshold

(***************************************************************************)
(* Fairness. The tasks of the relayer keep running and clocks advance:     *)
(* weak fairness. A result or a tick may have to let the head of the loop  *)
(* admit a deferred message first. The environment: attestors asked again  *)
(* and again to sign what they have signed answer in the end, maybe while  *)
(* a probe is out (weak fairness); a delivery with votes, or one already   *)
(* accepted, attempted again and again succeeds in the end, and a probe of *)
(* a message that nobody signs any more, because it was executed by        *)
(* another relayer or before a crash, finds that out (strong fairness).    *)
(***************************************************************************)
Answer(m, s) ==
    /\ Stalled([route EXCEPT !.slots[m].inFlight = FALSE], m)
    /\ NoteVote([msg |-> m, claimed |-> s, recovered |-> s])

Succeed(m) ==
    \E j \in worker : /\ j.msg = m
                      /\ \/ ~j.reconcileOnly \/ route.slots[m].accepted
                         \/ \A s \in Signers : <<m, s>> \notin Signed
                      /\ WorkerReports(j, "Delivered")

Admission == \E m \in Messages : AdmitDeferred(m)

Fairness ==
    /\ WF_vars(Receive)
    /\ WF_vars(WorkerTakes \/ \E j \in worker, kind \in Kinds : WorkerReports(j, kind))
    /\ WF_vars(Admission \/ \E x \in results : TakeResult(x))
    /\ WF_vars(Admission \/ Tick(0, 0, 0))
    /\ \A m \in Messages :
          /\ WF_vars(BackoffElapses(m) \/ ProbeElapses(m))
          /\ WF_vars(\E s \in Signers : <<m, s>> \in Signed /\ Answer(m, s))
          /\ SF_vars(Succeed(m))

FairSpec == Spec /\ Fairness

-----------------------------------------------------------------------------
(* Types, and the two tables agree: an id is in the insertion order once   *)
(* when it has a slot, else not at all (refill indexes one by the other).  *)
TypeOK ==
    /\ route \in [cache_max : CacheSizes, attestors : SUBSET Signers, threshold : Nat,
                  slots : [Messages -> Slot], order : Seq(Messages),
                  early : [Messages -> SUBSET Signers],
                  earlyOrder : Seq(Messages)]
    /\ IsInjective(route.order) /\ ToSet(route.order) = Loaded(route)
    /\ arriving \in Seq(Messages) /\ records \subseteq Messages
    /\ deferred \subseteq Messages /\ Cardinality(deferred) <= 1
    /\ queue \in Seq(Job) /\ worker \subseteq Job
    /\ results \subseteq Result
    /\ verdict \subseteq Messages /\ reloads \in 0..MaxReloads

(* The jobs under way for m: queued, at the worker, or reported. *)
UnderWay(m) ==
    Cardinality({i \in DOMAIN queue : queue[i].msg = m})
        + Cardinality({j \in worker : j.msg = m})
        + Cardinality({x \in results : x.msg = m})

(* in_flight is exact: a slot is in flight when and only when one job of   *)
(* its message is under way, and a message without a slot has none. So no  *)
(* message is ever submitted twice at a time, none is stranded in flight   *)
(* with no answer to come, and no slot is pruned, evicted or rotated away  *)
(* under its job (dispatch_if_ready, requeue_delivery,                     *)
(* note_delivery_result, refill, make_room).                               *)
OneJobPerMessage ==
    \A m \in Messages :
        UnderWay(m) = IF m \in Open(route) /\ route.slots[m].inFlight
                      THEN 1 ELSE 0

(* Every vote held for a message was really signed by the attestor it is   *)
(* held under, and the votes of an unfinished message, in flight or not,   *)
(* are those of today's attestors (note_vote, buffer_early_vote,           *)
(* note_indexed, apply_attestor_set).                                      *)
VotesAreCurrent ==
    \A m \in Messages :
        /\ \A s \in route.slots[m].signers \cup route.early[m] :
              <<m, s>> \in Signed
        /\ m \in Open(route) => route.slots[m].signers \subseteq route.attestors

(* A job that carries votes to the Inbox carries a quorum of the set in    *)
(* force when it is handed over, whatever was pruned, adopted, requeued or *)
(* reloaded before, and never under a threshold of zero                    *)
(* (dispatch_if_ready, apply_attestor_set, note_indexed).                  *)
BundleIsQuorum ==
    [][\A j \in ToSet(queue') \ ToSet(queue) :
          ~j.reconcileOnly =>
              /\ route'.threshold > 0
              /\ Cardinality(j.bundle \cap route'.attestors) >= route'.threshold]_vars

(* The messages the pool's side answers for. *)
Held == ToSet(arriving) \cup deferred \cup Loaded(route) \cup records

(* A message once held is let go only after a final verdict, with or       *)
(* without a journal: not when the table is full, not in a rotation, not   *)
(* by age (pool::run, make_room, refill, prune_expired).                   *)
NothingDropped == [][Held \ Held' \subseteq verdict]_vars

(* Every message held ends in a verdict, through a change of attestors, a  *)
(* full table and a full delivery channel, when those who signed it sign   *)
(* again on request, or when it was executed elsewhere and no vote will    *)
(* come (pool::run, collect_stalled_reobservations,                        *)
(* collect_ready_deliveries).                                              *)
EventuallyResolved == \A m \in Messages : (m \in Held) ~> (m \in verdict)

=============================================================================
