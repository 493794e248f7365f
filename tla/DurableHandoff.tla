--------------------------- MODULE DurableHandoff ---------------------------
(***************************************************************************)
(* The hand-off of a published message from the source chain to delivery,  *)
(* on one route, with persistence enabled: the Outbox watcher              *)
(* (events/mod.rs), the journal of unfinished messages (work.rs), the      *)
(* scan cursor (checkpoint.rs) and the pool's bounded working set          *)
(* (pool/mod.rs), under worker failures, process exits and power losses.   *)
(*                                                                         *)
(* Votes, retries and timers are abstracted here (VotePool has them): a    *)
(* loaded message is open, at the delivery worker, or resolved.            *)
(***************************************************************************)
EXTENDS Integers, FiniteSets

CONSTANTS
    Messages,    \* identities of MessagePublished events on the source chain
    BlockOf,     \* [Messages -> Nat \ {0}]: the block each is published in
    Authorized,  \* the ones whose Outbox Discovery authorises at that block
    MaxBlock,    \* bound: the highest finalized block of a behaviour
    StartBlock,  \* route.start_block, 1 when it is not configured
    Lookback,    \* scan_lookback_blocks
    ScanSpan,    \* MAX_BLOCKS_PER_SCAN
    ChannelCap,  \* capacity of indexed_tx
    CacheMax,    \* cache.max_messages
    MaxFaults    \* bound: failed polls, failed saves, exits and power losses

ASSUME ConstantsAssumption ==
    /\ BlockOf \in [Messages -> Nat \ {0}]
    /\ Authorized \subseteq Messages
    /\ MaxBlock \in Nat /\ Lookback \in Nat /\ MaxFaults \in Nat
    /\ StartBlock \in Nat \ {0} /\ ScanSpan \in Nat \ {0}
    /\ ChannelCap \in Nat \ {0} /\ CacheMax \in Nat \ {0}

VARIABLES
    head,        \* the source chain's finalized head
    records,     \* messages with a file in the work directory
    synced,      \* the directory entries a power loss cannot undo
    ckpt,        \* the cursor entry in the checkpoint file
    ckptSynced,  \* the entry a power loss may bring back
    up,          \* the process is running
    lastSeen,    \* the watcher's in-memory cursor, last_seen
    observed,    \* FinalityTracker: the highest head this process has seen
    scan,        \* the poll in progress
    channel,     \* messages sent on indexed_tx and not yet received
    open,        \* loaded, waiting for votes or for a retry
    flying,      \* loaded, handed to the delivery worker
    resolved,    \* loaded, delivered or terminal
    finished,    \* history: messages whose worker reached a final verdict
    faults       \* history: number of faults so far

chainVars == <<head>>
diskVars  == <<records, synced, ckpt, ckptSynced>>
watchVars == <<up, lastSeen, observed>>
poolVars  == <<channel, open, flying, resolved>>
vars == <<head, records, synced, ckpt, ckptSynced, up, lastSeen,
          observed, scan, channel, open, flying, resolved, finished, faults>>

Blocks == 0..MaxBlock
Entry  == [block : Nat, durable : BOOLEAN]
Scan   == [phase : {"idle", "fetch", "logs"}, to : Nat,
           todo : SUBSET Messages, sending : SUBSET Messages]
Idle   == [phase |-> "idle", to |-> 0, todo |-> {}, sending |-> {}]
Loaded == open \cup flying \cup resolved

(* The messages the route must carry: authorised and not before its start. *)
InScope == {m \in Authorized : StartBlock <= BlockOf[m]}

(* The logs of the blocks lo..hi. *)
LogsIn(lo, hi) == {m \in Messages : lo <= BlockOf[m] /\ BlockOf[m] <= hi}

-----------------------------------------------------------------------------
(* Starting with no checkpoint entry (block 0), or with one written by a   *)
(* release that kept no journal: its durable_work marker is absent.        *)
Init ==
    /\ head \in Blocks
    /\ ckpt \in {[block |-> b, durable |-> FALSE] : b \in 0..head}
    /\ ckptSynced = ckpt
    /\ records = {} /\ synced = {}
    /\ up = FALSE /\ lastSeen = 0 /\ observed = 0 /\ scan = Idle
    /\ channel = {} /\ open = {} /\ flying = {} /\ resolved = {}
    /\ finished = {} /\ faults = 0

(* The source chain finalizes one more block. *)
Finalize ==
    /\ head < MaxBlock
    /\ head' = head + 1
    /\ UNCHANGED <<diskVars, watchVars, scan, poolVars, finished, faults>>

-----------------------------------------------------------------------------
(* The watcher.                                                            *)

\* Mutant: the marker is not consulted.
ResumeNoMarker(c) == IF c.block > Lookback THEN c.block - Lookback ELSE 0

\* Mutant: the subtraction does not saturate.
ResumeNoSaturation(c) == IF c.durable THEN c.block - Lookback ELSE StartBlock - 1

(* resume_cursor: a cursor is trusted only with the journal's marker.      *)
ResumeCursor(c) ==
    IF c.durable
    THEN IF c.block > Lookback THEN c.block - Lookback ELSE 0
    ELSE StartBlock - 1

(* watch_outbox up to its loop. *)
Restart ==
    /\ ~up
    /\ up' = TRUE
    /\ lastSeen' = ResumeCursor(ckpt)
    /\ UNCHANGED <<chainVars, diskVars, observed, scan, poolVars, finished, faults>>

(* set_journaled: rename the new entry into place, then sync the directory *)
(* as a best effort. A failed write leaves the old entry and is logged.    *)
SaveCursor(b) ==
    LET entry == [block |-> b, durable |-> TRUE] IN
    \/ ckpt' = entry /\ ckptSynced' = entry /\ UNCHANGED faults
    \/ /\ faults < MaxFaults /\ faults' = faults + 1
       /\ \/ ckpt' = entry /\ UNCHANGED ckptSynced
          \/ UNCHANGED <<ckpt, ckptSynced>>

(* pick_to_block: the head a provider reports may lag the chain, but one   *)
(* below the last it reported is an error that leaves everything alone.    *)
ReportedHeads == {h \in Blocks : observed <= h /\ h <= head}

(* A poll that finds nothing new still saves the cursor. *)
PollNothing ==
    /\ up /\ scan = Idle
    /\ \E h \in ReportedHeads : h <= lastSeen /\ observed' = h
    /\ SaveCursor(lastSeen)
    /\ UNCHANGED <<chainVars, records, synced, up, lastSeen, scan, poolVars,
                   finished>>

BeginPoll ==
    /\ up /\ scan = Idle
    /\ \E h \in ReportedHeads :
          /\ lastSeen < h /\ observed' = h
          /\ scan' = [Idle EXCEPT !.phase = "fetch",
                                  !.to = IF h < lastSeen + ScanSpan
                                         THEN h ELSE lastSeen + ScanSpan]
    /\ UNCHANGED <<chainVars, diskVars, up, lastSeen, poolVars, finished,
                   faults>>

(* The provider refuses the range: LogRangeTooLarge halves it. *)
ShrinkRange ==
    /\ up /\ scan.phase = "fetch" /\ lastSeen + 1 < scan.to
    /\ scan' = [scan EXCEPT !.to = lastSeen + 1
                                     + (scan.to - (lastSeen + 1)) \div 2]
    /\ UNCHANGED <<chainVars, diskVars, watchVars, poolVars, finished,
                   faults>>

FetchLogs ==
    /\ up /\ scan.phase = "fetch"
    /\ scan' = [scan EXCEPT !.phase = "logs",
                            !.todo = LogsIn(lastSeen + 1, scan.to)]
    /\ UNCHANGED <<chainVars, diskVars, watchVars, poolVars, finished,
                   faults>>

(* A log whose emitter was not authorised at its block is passed over. *)
SkipLog(m) ==
    /\ up /\ m \in scan.todo \ Authorized /\ scan.sending = {}
    /\ scan' = [scan EXCEPT !.todo = @ \ {m}]
    /\ UNCHANGED <<chainVars, diskVars, watchVars, poolVars, finished,
                   faults>>

(* WorkStore::record: the file is in place and its directory synced, which *)
(* settles every earlier entry of the directory too.                       *)
Record(S) ==
    /\ records' = records \cup S
    /\ synced' = records'

\* Mutant: the log is sent on without being recorded.
RecordLogUnrecorded(m) ==
    /\ up /\ m \in scan.todo \cap Authorized /\ scan.sending = {}
    /\ scan' = [scan EXCEPT !.todo = @ \ {m}, !.sending = {m}]
    /\ UNCHANGED <<records, synced>>
    /\ UNCHANGED <<chainVars, ckpt, ckptSynced, watchVars, poolVars,
                   finished, faults>>

RecordLog(m) ==
    /\ up /\ m \in scan.todo \cap Authorized /\ scan.sending = {}
    /\ Record({m})
    /\ scan' = [scan EXCEPT !.todo = @ \ {m}, !.sending = {m}]
    /\ UNCHANGED <<chainVars, ckpt, ckptSynced, watchVars, poolVars,
                   finished, faults>>

\* Mutant: the failed directory sync is ignored.
RecordUnsyncedIgnored(m) ==
    /\ up /\ m \in scan.todo \cap Authorized /\ scan.sending = {}
    /\ faults < MaxFaults /\ faults' = faults + 1
    /\ records' = records \cup {m}
    /\ scan' = [scan EXCEPT !.todo = @ \ {m}, !.sending = {m}]
    /\ UNCHANGED <<chainVars, synced, ckpt, ckptSynced, watchVars,
                   poolVars, finished>>

(* The file is in place but the directory sync failed: record returns an   *)
(* error, and the poll ends with the cursor where it was.                  *)
RecordUnsynced(m) ==
    /\ up /\ m \in scan.todo \cap Authorized /\ scan.sending = {}
    /\ faults < MaxFaults /\ faults' = faults + 1
    /\ records' = records \cup {m}
    /\ scan' = Idle
    /\ UNCHANGED <<chainVars, synced, ckpt, ckptSynced, watchVars,
                   poolVars, finished>>

(* indexed_tx.send waits for room. *)
SendLog ==
    /\ up /\ scan.sending # {}
    /\ Cardinality(channel) < ChannelCap
    /\ channel' = channel \cup scan.sending
    /\ scan' = [scan EXCEPT !.sending = {}]
    /\ UNCHANGED <<chainVars, diskVars, watchVars, open, flying, resolved,
                   finished, faults>>

(* An RPC error, an invalid log or a failed write ends the poll. *)
PollFails ==
    /\ up /\ scan # Idle
    /\ faults < MaxFaults /\ faults' = faults + 1
    /\ scan' = Idle
    /\ UNCHANGED <<chainVars, diskVars, watchVars, poolVars, finished>>

FinishPoll ==
    /\ up /\ scan.phase = "logs" /\ scan.todo = {} /\ scan.sending = {}
    /\ lastSeen' = scan.to
    /\ SaveCursor(scan.to)
    /\ scan' = Idle
    /\ UNCHANGED <<chainVars, records, synced, up, observed, poolVars, finished>>

-----------------------------------------------------------------------------
(* The pool's working set.                                                 *)

(* The arm of pool::run for an indexed message, with can_index and         *)
(* make_room: a full set gives up one resolved slot, and a message that    *)
(* does not fit is dropped, for its record stays.                          *)
Receive(m) ==
    /\ up /\ m \in channel
    /\ channel' = channel \ {m}
    /\ \/ /\ m \in Loaded
          /\ UNCHANGED <<open, resolved>>
       \/ /\ m \notin Loaded /\ Cardinality(Loaded) < CacheMax
          /\ open' = open \cup {m}
          /\ UNCHANGED resolved
       \/ /\ m \notin Loaded /\ Cardinality(Loaded) >= CacheMax
          /\ \E v \in resolved : resolved' = resolved \ {v}
          /\ open' = open \cup {m}
       \/ /\ m \notin Loaded /\ Cardinality(Loaded) >= CacheMax
          /\ resolved = {}
          /\ UNCHANGED <<open, resolved>>
    /\ UNCHANGED <<chainVars, diskVars, watchVars, scan, flying, finished,
                   faults>>

Dispatch(m) ==
    /\ up /\ m \in open
    /\ open' = open \ {m} /\ flying' = flying \cup {m}
    /\ UNCHANGED <<chainVars, diskVars, watchVars, scan, channel, resolved,
                   finished, faults>>

\* Mutant: a result that is not final also removes the record.
RetryCompletes(m) ==
    /\ up /\ m \in flying
    /\ flying' = flying \ {m} /\ open' = open \cup {m}
    /\ records' = records \ {m} /\ synced' = records'
    /\ UNCHANGED <<chainVars, ckpt, ckptSynced, watchVars, scan, channel,
                   resolved, finished, faults>>

(* A result that is not final returns the message to the set. *)
Retry(m) ==
    /\ up /\ m \in flying
    /\ flying' = flying \ {m} /\ open' = open \cup {m}
    /\ UNCHANGED <<chainVars, diskVars, watchVars, scan, channel, resolved,
                   finished, faults>>

(* Delivered or Terminal: complete() removes the record and syncs the      *)
(* directory before note_delivery_result marks the slot.                   *)
Verdict(m) ==
    /\ up /\ m \in flying
    /\ finished' = finished \cup {m}
    /\ records' = records \ {m} /\ synced' = records'
    /\ flying' = flying \ {m} /\ resolved' = resolved \cup {m}
    /\ UNCHANGED <<chainVars, ckpt, ckptSynced, watchVars, scan, channel,
                   open, faults>>

(* prune_expired: delivered slots at once, terminal ones after their TTL.  *)
Prune(m) ==
    /\ up /\ m \in resolved
    /\ resolved' = resolved \ {m}
    /\ UNCHANGED <<chainVars, diskVars, watchVars, scan, channel, open,
                   flying, finished, faults>>

(* What refill may take from the backlog: `limit` records not loaded.      *)
Backlog(limit) == {P \in SUBSET (records \ Loaded) : Cardinality(P) <= limit}

(* State::refill on the prune tick: load P from the backlog; the long      *)
(* resident open messages C may be rotated out to make room, and those     *)
(* that are, R, are recorded again before they leave memory.               *)
Refill(P, C, R) ==
    LET capacity == IF Cardinality(Loaded) < CacheMax
                    THEN CacheMax - Cardinality(Loaded) ELSE 0 IN
    /\ up
    /\ Cardinality(C) <= IF CacheMax \div 4 > 1 THEN CacheMax \div 4 ELSE 1
    /\ P # {} /\ P \in Backlog(capacity + Cardinality(C))
    /\ R \subseteq C
    /\ Cardinality(R) = IF Cardinality(P) > capacity
                        THEN Cardinality(P) - capacity ELSE 0
    /\ IF R = {} THEN UNCHANGED <<records, synced>> ELSE Record(R)
    /\ open' = (open \ R) \cup P
    /\ UNCHANGED <<chainVars, ckpt, ckptSynced, watchVars, scan, channel,
                   flying, resolved, finished, faults>>

-----------------------------------------------------------------------------
(* Faults.                                                                 *)

(* The process ends: everything in memory is gone. *)
Down ==
    /\ up' = FALSE /\ lastSeen' = 0 /\ observed' = 0 /\ scan' = Idle
    /\ channel' = {} /\ open' = {} /\ flying' = {} /\ resolved' = {}

(* Any worker that returns stops the whole process, and so does a kill. *)
Exit ==
    /\ up /\ faults < MaxFaults /\ faults' = faults + 1
    /\ Down
    /\ UNCHANGED <<chainVars, diskVars, finished>>

(* Cancelled while waiting to send: poll_once returns Ok with the cursor   *)
(* unmoved, and that cursor is saved before the process ends.              *)
CancelDuringSend ==
    /\ up /\ scan.sending # {} /\ faults < MaxFaults
    /\ faults' = faults + 1
    /\ ckpt' = [block |-> lastSeen, durable |-> TRUE] /\ ckptSynced' = ckpt'
    /\ Down
    /\ UNCHANGED <<chainVars, records, synced, finished>>

(* The verdict is in, and complete() fails: before the file is removed, or *)
(* after it, at the directory sync. The error stops the process.           *)
VerdictFails(m) ==
    /\ up /\ m \in flying /\ faults < MaxFaults /\ faults' = faults + 1
    /\ finished' = finished \cup {m}
    /\ records' \in {records, records \ {m}}
    /\ Down
    /\ UNCHANGED <<chainVars, synced, ckpt, ckptSynced>>

(* A power loss keeps what was synced and may keep or undo the rest. *)
PowerLoss ==
    /\ faults < MaxFaults /\ faults' = faults + 1
    /\ \E S \in SUBSET (records \cup synced) :
          /\ records \cap synced \subseteq S
          /\ records' = S /\ synced' = S
    /\ ckpt' \in {ckpt, ckptSynced} /\ ckptSynced' = ckpt'
    /\ Down
    /\ UNCHANGED <<chainVars, finished>>

-----------------------------------------------------------------------------
Next ==
    \/ Finalize \/ Restart
    \/ PollNothing \/ BeginPoll \/ ShrinkRange \/ FetchLogs
    \/ \E m \in Messages :
          SkipLog(m) \/ RecordLog(m) \/ RecordUnsynced(m)
    \/ SendLog \/ PollFails \/ FinishPoll
    \/ \E m \in Messages :
          Receive(m) \/ Dispatch(m) \/ Retry(m) \/ Verdict(m) \/ Prune(m)
    \/ \E P \in SUBSET records, C \in SUBSET open : \E R \in SUBSET C :
          Refill(P, C, R)
    \/ Exit \/ CancelDuringSend \/ PowerLoss
    \/ \E m \in Messages : VerdictFails(m)

Spec == Init /\ [][Next]_vars

(***************************************************************************)
(* Fairness: tokio keeps polling every task, and the supervisor restarts   *)
(* the process, so enabled steps of the watcher and of the pool are taken  *)
(* (weak fairness). The lap of the work-store cursor offers every record   *)
(* again and again (WorkCursor), the pool's probe hands every open message *)
(* to the worker again and again (VotePool), and the environment must let  *)
(* the worker reach a final verdict in the end (strong fairness). Faults   *)
(* are finite: MaxFaults.                                                  *)
(***************************************************************************)
Fairness ==
    /\ WF_vars(\/ Restart \/ BeginPoll \/ FetchLogs \/ SendLog \/ FinishPoll
               \/ \E m \in Messages : SkipLog(m) \/ RecordLog(m))
    /\ WF_vars(\E m \in Messages : Receive(m) \/ Prune(m))
    /\ \A m \in InScope :
          /\ SF_vars(Dispatch(m)) /\ SF_vars(Verdict(m))
          /\ SF_vars(\E P \in SUBSET records, C \in SUBSET open :
                        m \in P /\ \E R \in SUBSET C : Refill(P, C, R))

FairSpec == Spec /\ Fairness

-----------------------------------------------------------------------------
TypeOK ==
    /\ head \in Blocks /\ observed \in Blocks
    /\ records \subseteq Messages /\ synced \subseteq Messages
    /\ ckpt \in Entry /\ ckptSynced \in Entry
    /\ up \in BOOLEAN /\ lastSeen \in Nat /\ faults \in 0..MaxFaults
    /\ scan \in Scan
    /\ channel \subseteq Messages /\ finished \subseteq Messages
    /\ open \subseteq Messages /\ flying \subseteq Messages
    /\ resolved \subseteq Messages

(* The messages no fault can take away: their record survives a power      *)
(* loss, or their delivery is final.                                       *)
Safe == (records \cap synced) \cup finished

Covered(b) == {m \in InScope : BlockOf[m] <= b}

(* The persisted cursor never runs ahead of the journal. Whatever fails    *)
(* and whenever, a message at or below a cursor that a restart may read    *)
(* has a record that survives a power loss, or a final verdict: the scan   *)
(* will not see it again, so nothing else could bring it back              *)
(* (watch_outbox, poll_once, set_journaled, complete).                     *)
NoLoss ==
    \A c \in {ckpt, ckptSynced} : c.durable => Covered(c.block) \subseteq Safe

(* The same of the cursors in memory: behind last_seen, and behind the     *)
(* part of the range the poll has worked through, every message is safe.   *)
(* FinishPoll turns the second into the first, set_journaled the first     *)
(* into NoLoss (poll_once).                                                *)
ScanJournaled ==
    /\ up => Covered(lastSeen) \subseteq Safe
    /\ scan.phase = "logs" => Covered(scan.to) \subseteq Safe \cup scan.todo

(* Memory holds no unfinished message that disk does not: what waits in    *)
(* the channel or in the working set, or is at the delivery worker, has a  *)
(* record until its verdict is final, so an exit at any point loses votes  *)
(* but never the message (poll_once, pool::run, refill).                   *)
WorkingSetBacked ==
    channel \cup scan.sending \cup open \cup flying
        \subseteq records \cup finished

(* Every message in scope, once its block is finalized, reaches a final    *)
(* verdict, through any finite number of faults.                           *)
EveryMessageFinishes ==
    \A m \in InScope : (BlockOf[m] <= head) ~> (m \in finished)

-----------------------------------------------------------------------------
(* What the hand-off promises: custody of a message, once taken, ends only *)
(* in its settlement, and the source is passed over only for messages in   *)
(* custody.                                                                *)
custody == INSTANCE Custody WITH
    held    <- (records \cap synced) \ finished,
    settled <- finished,
    passed  <- {m \in InScope :
                  \A c \in {ckpt, ckptSynced} : BlockOf[m] <= ResumeCursor(c)}

(* The detailed hand-off implements the custody specification: no step of  *)
(* the watcher, the pool, the disk or a fault drops a message in custody   *)
(* or moves the restart position past one that is not.                     *)
KeepsCustody == custody!Spec

=============================================================================
