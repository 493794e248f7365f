----------------------------- MODULE SetUpdate ------------------------------
(***************************************************************************)
(* The aggregator of attestor-set updates of one route                     *)
(* (src/message-relayer/src/set_update/mod.rs), the validator contract it  *)
(* updates, and the delivery worker that signs with the same key.          *)
(*                                                                         *)
(* An update is identified by its digest: the proposed set and the nonce   *)
(* of the validator.  The aggregator is one task: it refreshes its view,   *)
(* or handles one vote to the end of its submission.  The view is read in  *)
(* three calls.  It does not wait for receipts.                            *)
(***************************************************************************)
EXTENDS Broadcast

CONSTANTS
  Regimes,       \* pairs [attestors, threshold] an administrator may set
  First,         \* the regime in force at the start
  Elections,     \* the sets that are elected, in their order
  NoView,
  MaxDeliveries  \* bound: messages of the delivery worker

Attestors == UNION {r.attestors : r \in Regimes} \cup UNION {Elections[i] : i \in DOMAIN Elections}

\* The two tasks that sign with the key.
Delivery == "delivery"
Aggregator == "aggregator"

\* A validator has at least one attestor and asks for one signature or more.
ASSUME SetUpdateAssumption ==
  /\ {Delivery, Aggregator} \subseteq Workers
  /\ First \in Regimes
  /\ Regimes \subseteq [attestors : SUBSET Attestors, threshold : Nat]
  /\ \A r \in Regimes : r.threshold \in 1 .. Cardinality(r.attestors)
  /\ Elections \in Seq(SUBSET Attestors) /\ Elections # <<>>
  /\ \A i \in DOMAIN Elections : IsFiniteSet(Elections[i]) /\ Elections[i] # {}
  /\ NoView \notin [attestors : SUBSET Attestors, threshold : Nat, nonce : Nat]
  /\ MaxDeliveries \in Nat

VARIABLES
  regime,      \* the validator's attestors and threshold
  nonce,       \* attestorSetUpdateNonce
  elections,   \* how many elections there have been
  signed,      \* votes the attestors have gossiped: signer and digest
  toDeliver,   \* messages the delivery worker has yet to get through
  task,        \* what the aggregator is doing
  reading,     \* the part of the view read so far
  current,     \* the view, or NoView
  votes,       \* signers per digest
  inFlight,    \* digests submitted at the view's nonce
  submitting,  \* the update that is being submitted
  forgotten    \* history: digests in flight when the process ended

chainVars == <<regime, nonce>>
gossipVars == <<elections, signed>>
memory == <<task, reading, current, votes, inFlight, submitting>>
vars == <<sendVars, chainVars, gossipVars, toDeliver, memory, forgotten>>

Elected == Elections[elections]
Digest == <<Elected, nonce>>
MaxUpdates == Len(Elections) + MaxFaults
Digests == {Elections[i] : i \in DOMAIN Elections} \X (0 .. MaxUpdates)
NoUpdate == [digest |-> <<{}, 0>>, signers |-> {}]
Delivered == [digest |-> <<{}, 0>>, signers |-> {Delivery}]

\* The transactions for digest d that may still be mined.
Live(d) == {tx \in pool \cup wire : tx.load.digest = d /\ tx.load # Delivered}

TypeOK ==
  /\ SendTypeOK
  /\ regime.attestors \subseteq Attestors /\ regime.threshold \in Nat
  /\ nonce \in 0 .. MaxUpdates /\ elections \in DOMAIN Elections
  /\ signed \subseteq Attestors \X Digests
  /\ toDeliver \in 0 .. MaxDeliveries
  /\ task \in {"idle", "threshold", "nonce", "simulate", "submit"}
  /\ current = NoView \/ current.nonce \in 0 .. nonce
  /\ \A d \in DOMAIN votes : votes[d] \subseteq Attestors
  /\ DOMAIN votes \cup inFlight \subseteq {d \in Digests : current # NoView /\ d[2] = current.nonce}
  /\ forgotten \subseteq Digests

\* Every attestor in force signs an update while the elected set is another;
\* its vote reaches the aggregator at any time, again and again.
Asked(r, n, e) ==
  IF r.attestors = Elections[e] THEN {} ELSE r.attestors \X {<<Elections[e], n>>}

NothingKnown ==
  /\ task = "idle" /\ reading = First /\ current = NoView
  /\ votes = <<>> /\ inFlight = {} /\ submitting = NoUpdate

Init ==
  /\ SendInit
  /\ regime = First /\ nonce = 0 /\ elections = 1 /\ signed = Asked(First, 0, 1)
  /\ toDeliver = MaxDeliveries /\ NothingKnown /\ forgotten = {}
-----------------------------------------------------------------------------
(***************************************************************************)
(* The validator, its administrator, and the attestors.                    *)
(***************************************************************************)
Elect ==
  /\ elections < Len(Elections) /\ elections' = elections + 1
  /\ signed' = signed \cup Asked(regime, nonce, elections')
  /\ UNCHANGED <<sendVars, chainVars, toDeliver, memory, forgotten>>

\* An administrator may replace the set without touching the nonce.
Administer(r) ==
  /\ r \in Regimes \ {regime} /\ Fault
  /\ regime' = r
  /\ signed' = signed \cup Asked(r, nonce, elections)
  /\ UNCHANGED <<lockVars, send, nodeVars, wire, doubtful, refused, nonce, elections,
                 toDeliver, memory, forgotten>>

\* submitAttestorSetUpdate succeeds.
Valid(update) ==
  /\ update.digest[2] = nonce
  /\ update.signers \subseteq regime.attestors
  /\ Cardinality(update.signers) >= regime.threshold

MineBlock ==
  \E tx \in pool :
    /\ Mine(tx)
    /\ IF tx.load # Delivered /\ Valid(tx.load)
       THEN /\ nonce' = nonce + 1
            /\ regime' = [attestors |-> tx.load.digest[1],
                          threshold |-> Min({regime.threshold, Cardinality(tx.load.digest[1])})]
            /\ signed' = signed \cup Asked(regime', nonce', elections)
       ELSE UNCHANGED <<chainVars, signed>>
    /\ toDeliver' = IF tx.load = Delivered THEN Max({0, toDeliver - 1}) ELSE toDeliver
    /\ UNCHANGED <<elections, memory, forgotten>>

\* The delivery worker sends with the same key until its message is through.
Deliver ==
  /\ toDeliver > 0 /\ \A tx \in pool : tx.load # Delivered
  /\ Enqueue(Delivery, Delivered)
  /\ UNCHANGED <<chainVars, gossipVars, toDeliver, memory, forgotten>>
-----------------------------------------------------------------------------
(***************************************************************************)
(* refresh: attestors(), threshold(), attestorSetUpdateNonce().            *)
(***************************************************************************)
\* Mutant: the view is read once.
BeginRefreshOnce ==
  /\ task = "idle" /\ task' = "threshold" /\ current = NoView
  /\ reading' = [attestors |-> regime.attestors, threshold |-> 0]
  /\ UNCHANGED <<sendVars, chainVars, gossipVars, toDeliver, current, votes, inFlight,
                 submitting, forgotten>>

BeginRefresh ==
  /\ task = "idle" /\ task' = "threshold"
  /\ reading' = [attestors |-> regime.attestors, threshold |-> 0]
  /\ UNCHANGED <<sendVars, chainVars, gossipVars, toDeliver, current, votes, inFlight,
                 submitting, forgotten>>

ReadThreshold ==
  /\ task = "threshold" /\ task' = "nonce"
  /\ reading' = [reading EXCEPT !.threshold = regime.threshold]
  /\ UNCHANGED <<sendVars, chainVars, gossipVars, toDeliver, current, votes, inFlight,
                 submitting, forgotten>>

\* Mutant: the votes of the spent nonce are kept.
FinishRefreshKeeps ==
  /\ task = "nonce" /\ task' = "idle" /\ reading' = First
  /\ current' = [attestors |-> reading.attestors, threshold |-> reading.threshold, nonce |-> nonce]
  /\ UNCHANGED <<sendVars, chainVars, gossipVars, toDeliver, votes, inFlight, submitting, forgotten>>

\* A nonce that has moved ends what was gathered and submitted for the old one.
FinishRefresh ==
  /\ task = "nonce" /\ task' = "idle" /\ reading' = First
  /\ current' = [attestors |-> reading.attestors, threshold |-> reading.threshold, nonce |-> nonce]
  /\ IF current # NoView /\ current.nonce # nonce
     THEN votes' = <<>> /\ inFlight' = {}
     ELSE UNCHANGED <<votes, inFlight>>
  /\ UNCHANGED <<sendVars, chainVars, gossipVars, toDeliver, submitting, forgotten>>

\* Any of the calls fails: the last view stays.
RefreshFails ==
  /\ task \in {"threshold", "nonce"} /\ Fault
  /\ task' = "idle" /\ reading' = First
  /\ UNCHANGED <<lockVars, send, nodeVars, wire, doubtful, refused, chainVars, gossipVars,
                 toDeliver, current, votes, inFlight, submitting, forgotten>>
-----------------------------------------------------------------------------
(***************************************************************************)
(* handle_vote and submit.                                                 *)
(***************************************************************************)
\* verify_vote.
Verifies(a, d) == current # NoView /\ d[2] = current.nonce /\ a \in current.attestors

Slot(d) == IF d \in DOMAIN votes THEN votes[d] ELSE {}
Without(d) == [e \in DOMAIN votes \ {d} |-> votes[e]]
With(d, S) == [e \in DOMAIN votes \cup {d} |-> IF e = d THEN S ELSE votes[e]]

\* Mutant: a digest in flight is gathered and submitted again.
HandleVoteAgain(a, d) ==
  /\ task = "idle" /\ <<a, d>> \in signed
  /\ Verifies(a, d) /\ a \notin Slot(d)
  /\ IF Cardinality(Slot(d) \cup {a}) < current.threshold
     THEN votes' = With(d, Slot(d) \cup {a}) /\ UNCHANGED <<task, inFlight, submitting>>
     ELSE /\ task' = "simulate" /\ votes' = Without(d)
          /\ inFlight' = inFlight \cup {d}
          /\ submitting' = [digest |-> d, signers |-> Slot(d) \cup {a}]
  /\ UNCHANGED <<sendVars, chainVars, gossipVars, toDeliver, reading, current, forgotten>>

\* A vote that counts; every other one is dropped.
HandleVote(a, d) ==
  /\ task = "idle" /\ <<a, d>> \in signed
  /\ Verifies(a, d) /\ d \notin inFlight /\ a \notin Slot(d)
  /\ IF Cardinality(Slot(d) \cup {a}) < current.threshold
     THEN votes' = With(d, Slot(d) \cup {a}) /\ UNCHANGED <<task, inFlight, submitting>>
     ELSE /\ task' = "simulate" /\ votes' = Without(d)
          /\ inFlight' = inFlight \cup {d}
          /\ submitting' = [digest |-> d, signers |-> Slot(d) \cup {a}]
  /\ UNCHANGED <<sendVars, chainVars, gossipVars, toDeliver, reading, current, forgotten>>

Simulate ==
  /\ task = "simulate" /\ Valid(submitting)
  /\ Enqueue(Aggregator, submitting)
  /\ task' = "submit"
  /\ UNCHANGED <<chainVars, gossipVars, toDeliver, reading, current, votes, inFlight,
                 submitting, forgotten>>

\* A failed submission is no longer in flight: later votes try again.
Failed ==
  /\ task' = "idle" /\ submitting' = NoUpdate
  /\ inFlight' = inFlight \ {submitting.digest}
  /\ UNCHANGED <<reading, current, votes>>

\* The simulation reverts, or cannot be made.
SimulateFails ==
  /\ task = "simulate" /\ Failed
  /\ IF Valid(submitting) THEN Fault ELSE UNCHANGED faults
  /\ UNCHANGED <<lockVars, send, nodeVars, wire, doubtful, refused, chainVars, gossipVars,
                 toDeliver, forgotten>>

SubmitReturns ==
  /\ task = "submit" /\ Return(Aggregator)
  /\ IF send[Aggregator].stage = "ok"
     THEN /\ task' = "idle" /\ submitting' = NoUpdate
          /\ UNCHANGED <<inFlight, reading, current, votes>>
     ELSE Failed
  /\ UNCHANGED <<chainVars, gossipVars, toDeliver, forgotten>>

DeliveryReturns ==
  /\ Return(Delivery)
  /\ UNCHANGED <<chainVars, gossipVars, toDeliver, memory, forgotten>>

Restart(left) ==
  /\ Abort(left)
  /\ task' = "idle" /\ reading' = First /\ current' = NoView
  /\ votes' = <<>> /\ inFlight' = {} /\ submitting' = NoUpdate
  /\ forgotten' = forgotten \cup inFlight
  /\ UNCHANGED <<chainVars, gossipVars, toDeliver>>
-----------------------------------------------------------------------------
Sending(w) == SendStep(w) /\ UNCHANGED <<chainVars, gossipVars, toDeliver, memory, forgotten>>

Aggregate ==
  \/ ReadThreshold \/ FinishRefresh \/ RefreshFails
  \/ Simulate \/ SimulateFails \/ SubmitReturns

Next ==
  \/ Elect \/ MineBlock \/ Deliver \/ DeliveryReturns \/ BeginRefresh \/ Aggregate
  \/ \E r \in Regimes : Administer(r)
  \/ \E a \in Attestors, d \in Digests : HandleVote(a, d)
  \/ \E w \in Workers : Sending(w)
  \/ NodeStep /\ UNCHANGED <<chainVars, gossipVars, toDeliver, memory, forgotten>>
  \/ \E left \in SUBSET {Tx(w) : w \in Workers} : Restart(left)

Spec == Init /\ [][Next]_vars

\* The tasks and the node go on, blocks are mined, attestors gossip their
\* votes for the elected set again and again.
Fairness ==
  /\ WF_vars(Aggregate) /\ WF_vars(\E w \in Workers : Sending(w)) /\ WF_vars(MineBlock)
  /\ WF_vars(Deliver \/ DeliveryReturns)
  /\ SF_vars(BeginRefresh)
  /\ \A a \in Attestors : SF_vars(HandleVote(a, Digest))

FairSpec == Spec /\ Fairness
-----------------------------------------------------------------------------
\* Votes that gather again while an update waits to be mined do not send it a
\* second time: two transactions for one digest mean that a submission had no
\* answer, or that the process that knew of the first is gone.
SentOnce ==
  \A d \in Digests : Cardinality(Live(d)) > 1 => d \in forgotten \cup {l.digest : l \in doubtful}

\* The transactions for digest d that can still be mined.
Minable(d) == {tx \in Live(d) : mined .. (tx.nonce - 1) \subseteq Nonces(pool)}

\* An update that was accepted and then dropped, reverted, or caught behind a
\* transaction that was dropped, stays in flight at its nonce: this process
\* does not submit it again.
Orphaned == Digest \in inFlight /\ Minable(Digest) = {} /\ submitting.digest # Digest

\* The votes are only counted when a signer is new to them: when the threshold
\* has fallen after every attestor in force was heard, nothing counts again.
Uncounted ==
  Digest \in DOMAIN votes /\ current # NoView /\ current.attestors \subseteq votes[Digest]

\* The validator gets the elected set in the end, through torn views, rotated
\* regimes, spent nonces and failed submissions; the exceptions are an update
\* orphaned in flight, and one whose last vote came before the threshold fell.
Converges == []<>(regime.attestors = Elected \/ Orphaned \/ Uncounted)
=============================================================================
