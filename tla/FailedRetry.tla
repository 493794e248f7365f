---------------------------- MODULE FailedRetry ----------------------------
(***************************************************************************)
(* FailedRetries (delivery/failed_retry.rs) for one message: how often a   *)
(* retryFailedMessage has been paid for, when the next one is due, and     *)
(* whether the message was given up. One copy is in memory, one in a file  *)
(* of the work store; either may be missing, and a read or a write of the  *)
(* file may fail. A route without a work store behaves as one whose writes *)
(* all fail.                                                               *)
(*                                                                         *)
(* next_attempt_at is kept as the time left until it, so the clock is      *)
(* unbounded and the state is not.                                         *)
(***************************************************************************)
EXTENDS Integers

CONSTANTS
    Limits,          \* values of failed_retry.max_attempts, one per process
    InitialBackoff,  \* failed_retry_initial_backoff_secs
    MaxBackoff,      \* failed_retry_max_backoff_secs
    NoEntry          \* None

ASSUME PolicyAssumption ==
    /\ Limits \subseteq Nat /\ Limits # {}
    /\ InitialBackoff \in Nat \ {0} /\ MaxBackoff \in Nat
    /\ InitialBackoff <= MaxBackoff

VARIABLES
    memory,  \* this process's copy
    disk     \* the file's copy

Entry == [attempts : Nat, wait : 0..MaxBackoff, gaveUp : BOOLEAN]

ASSUME NoEntryAssumption == NoEntry \notin Entry

Larger(a, b) == IF a >= b THEN a ELSE b

(* FailedRetryPolicy::backoff *)
Backoff(n) ==
    IF InitialBackoff * 2^n \in 0..MaxBackoff THEN InitialBackoff * 2^n
    ELSE MaxBackoff

Default == [attempts |-> 0, wait |-> 0, gaveUp |-> FALSE]
First   == [attempts |-> 0, wait |-> Backoff(0), gaveUp |-> FALSE]

(* stricter: whichever copy spends less. *)
Stricter(a, b) ==
    [attempts |-> Larger(a.attempts, b.attempts),
     wait     |-> Larger(a.wait, b.wait),
     gaveUp   |-> a.gaveUp \/ b.gaveUp]

(* What get returns, given whether the file could be read, *)
Seen(readable) ==
    IF ~readable \/ disk = NoEntry THEN memory
    ELSE IF memory = NoEntry THEN disk ELSE Stricter(memory, disk)

(* and whether it fails: no file and no copy of our own. *)
Unknown(readable) == ~readable /\ memory = NoEntry

OrDefault(e) == IF e = NoEntry THEN Default ELSE e

\* Mutant: get does not remember what it read.
CacheNothing(readable) == UNCHANGED <<memory, disk>>

(* get keeps what it has read. *)
Cache(readable) == memory' = Seen(readable) /\ UNCHANGED disk

(* put: a failed write is only logged. *)
Put(e, written) ==
    /\ memory' = e
    /\ disk' = IF written THEN e ELSE disk

Forget(written) ==
    /\ memory' = NoEntry
    /\ disk' = IF written THEN NoEntry ELSE disk

(* start: an entry that exists, or that cannot be read, is not replaced. *)
Start(readable, written) ==
    IF ~Unknown(readable) /\ Seen(readable) = NoEntry
    THEN Put(First, written) ELSE Cache(readable)

Started(readable) ==
    IF Seen(readable) = NoEntry THEN First ELSE Seen(readable)

\* Mutant: the tombstone is not looked at, only the count.
SpentCount(e, limit) == e.attempts >= limit

(* gate: the budget is used up, or was abandoned under an earlier limit. *)
Spent(e, limit) == e.gaveUp \/ e.attempts >= limit

(* gate: too early, or the entry cannot be read. *)
Waits(readable) == Unknown(readable) \/ OrDefault(Seen(readable)).wait > 0

(* record_attempt *)
Recorded(readable) ==
    LET n == OrDefault(Seen(readable)).attempts + 1 IN
    [attempts |-> n, wait |-> Backoff(n), gaveUp |-> FALSE]

(* A second passes. *)
Elapse(e) ==
    IF e = NoEntry THEN e
    ELSE [e EXCEPT !.wait = IF @ > 0 THEN @ - 1 ELSE 0]
============================================================================
