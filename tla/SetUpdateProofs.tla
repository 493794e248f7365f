-------------------------- MODULE SetUpdateProofs ---------------------------
(***************************************************************************)
(* Proofs about the aggregator of set updates and the lock it shares with  *)
(* the delivery worker, for any attestors, regimes, elections, workers and *)
(* bounds.                                                                 *)
(*                                                                         *)
(* The invariant has two layers.  SendInv is about the lock, the node and  *)
(* the wire, whatever is sent; the rest is about the aggregator and the    *)
(* validator.                                                              *)
(***************************************************************************)
EXTENDS SetUpdate, SetLemmas, FiniteSetTheorems, SequenceTheorems, TLAPS

Updates == [digest : (SUBSET Attestors) \X Nat, signers : SUBSET (Attestors \cup {Delivery})]
Calls == [stage : Stages, load : Updates \cup {NoLoad}, nonce : Nat]
Views == [attestors : SUBSET Attestors, threshold : Nat, nonce : Nat]
Rules == [attestors : SUBSET Attestors, threshold : Nat]
Flag(b) == IF b THEN 1 ELSE 0

\* The workers between the read of the nonce and the node's answer.
InCall(w) == send[w].stage \in {"reading", "sending"}

SendType ==
  /\ slot \in Workers \cup {Nobody} /\ line \in Seq(Workers)
  /\ send \in [Workers -> Calls]
  /\ mined \in Nat /\ faults \in 0 .. MaxFaults
  /\ \A tx \in pool \cup wire : tx.nonce \in Nat
  /\ \A s, t \in pool : s.nonce = t.nonce => s = t
  /\ evicted \subseteq Nat /\ refused \in BOOLEAN
  /\ IsFiniteSet(pool)

\* Who is in the line waits, and waits there once; who is past it has the lock.
LockInv ==
  /\ \A i \in DOMAIN line : send[line[i]].stage = "queued"
  /\ \A i, j \in DOMAIN line : line[i] = line[j] => i = j
  /\ \A w \in Workers : InCall(w) => slot = w

\* Below a transaction every nonce is used, or was.
Below(tx) == mined .. (tx.nonce - 1) \subseteq Nonces(pool) \cup evicted

GapInv ==
  /\ \A tx \in pool \cup wire : Below(tx)
  /\ \A w \in Workers : send[w].stage = "sending" => Below(Tx(w))

\* The nonce that was read is still free, if nothing is doubtful.
FreshInv ==
  /\ \A tx \in wire : tx.load \in doubtful
  /\ refused => doubtful # {}
  /\ doubtful = {} => \A w \in Workers : send[w].stage = "sending" => Takes(Tx(w))

SendInv == SendType /\ LockInv /\ GapInv /\ FreshInv

\* What the validator and the aggregator know.
ChainType ==
  /\ regime \in Rules /\ regime.threshold > 0
  /\ nonce \in Nat /\ elections \in DOMAIN Elections
  /\ signed \subseteq Attestors \X Digests
  /\ toDeliver \in 0 .. MaxDeliveries

MemoryType ==
  /\ task \in {"idle", "threshold", "nonce", "simulate", "submit"}
  /\ reading \in Rules
  /\ current = NoView \/ (current \in Views /\ current.nonce <= nonce)
  /\ DOMAIN votes \cup inFlight \subseteq {d \in Digests : current # NoView /\ d[2] = current.nonce}
  /\ submitting \in Updates
  /\ forgotten \subseteq Digests

\* An election or an administrator pays for every update that is spent, and for
\* the one the attestors sign.
NonceInv ==
  /\ nonce + Flag(regime.attestors # Elected) <= elections + faults
  /\ \A s \in signed : s[2][2] + 1 + Flag(s[2][1] # Elected) <= elections + faults

\* Every signature an update carries has been made.
Backed(u) == \A a \in u.signers : <<a, u.digest>> \in signed

BackedInv ==
  /\ \A d \in DOMAIN votes : \A a \in votes[d] : <<a, d>> \in signed
  /\ Backed(submitting)
  /\ \A tx \in pool \cup wire : tx.load = Delivered \/ Backed(tx.load)

\* Who sends what.
LoadInv ==
  /\ task = "submit" => send[Aggregator].stage # "idle" /\ send[Aggregator].load = submitting
  /\ task # "submit" => send[Aggregator].stage = "idle"
  /\ \A w \in Workers \ {Aggregator} : send[w].stage # "idle" => send[w].load = Delivered
  /\ task \in {"simulate", "submit"} => submitting.digest \in inFlight

\* The digests whose submissions were all answered, to a process that lives.
Clean(d) == d \notin forgotten \cup {l.digest : l \in doubtful}

\* The submission that runs has not reached the node.
Unsent == task = "simulate" \/ (task = "submit" /\ send[Aggregator].stage # "ok")

OnceInv ==
  \A d \in Digests : Clean(d) =>
    /\ \A s, t \in Live(d) : s = t
    /\ Live(d) # {} => \/ d \in inFlight
                       \/ d[2] < nonce /\ (current = NoView \/ d[2] < current.nonce)
    /\ Unsent /\ submitting.digest = d => Live(d) = {}

SetUpdateInv ==
  SendInv /\ ChainType /\ MemoryType /\ NonceInv /\ BackedInv /\ LoadInv /\ OnceInv
-----------------------------------------------------------------------------
(***************************************************************************)
(* The node.                                                               *)
(***************************************************************************)
(* What the account's pending nonce is, as the nonce filler reads it: the  *)
(* pool is too small to use every nonce of the range it is looked up in.   *)
LEMMA PendingCountProperty ==
  SendType => /\ PendingCount \in Nat /\ PendingCount >= mined
              /\ PendingCount \notin Nonces(pool)
              /\ mined .. (PendingCount - 1) \subseteq Nonces(pool)
  <1> SUFFICES ASSUME SendType
               PROVE  /\ PendingCount \in Nat /\ PendingCount >= mined
                      /\ PendingCount \notin Nonces(pool)
                      /\ mined .. (PendingCount - 1) \subseteq Nonces(pool)
    OBVIOUS
  <1> DEFINE c == Cardinality(pool)
             range == mined .. mined + c
             free == {n \in range : n \notin Nonces(pool)}
  <1>1. IsFiniteSet(pool) /\ c \in Nat /\ mined \in Nat
    BY FS_CardinalityType DEF SendType
  <1>2. free # {}
    <2>1. SUFFICES ASSUME \A n \in range : n \in Nonces(pool) PROVE FALSE
      OBVIOUS
    <2> DEFINE f == [n \in range |-> CHOOSE tx \in pool : tx.nonce = n]
    <2>2. ASSUME NEW n \in range PROVE f[n] \in pool /\ f[n].nonce = n
      BY <2>1 DEF Nonces
    <2>3. f \in [range -> pool]
      BY <2>2
    <2>4. IsFiniteSet(range) /\ Cardinality(range) = c + 1
      <3> HIDE DEF c
      <3> QED
        BY <1>1, FS_Interval
    <2>5. Cardinality(pool) < Cardinality(range)
      BY <1>1, <2>4
    <2> HIDE DEF f, range
    <2>6. \E x, y \in range : x # y /\ f[x] = f[y]
      BY <2>3, <2>4, <2>5, <1>1, FS_PigeonHole
    <2> QED
      BY <2>2, <2>6
  <1>3. free \subseteq Nat
    <2> HIDE DEF c
    <2> QED
      BY <1>1
  <1>4. PendingCount = Min(free)
    BY DEF PendingCount
  <1>5. PendingCount \in free /\ \A n \in free : PendingCount <= n
    <2> HIDE DEF free
    <2> QED
      BY <1>2, <1>3, <1>4, MinProperty
  <1> HIDE DEF c
  <1>6. ASSUME NEW n \in mined .. (PendingCount - 1) PROVE n \in Nonces(pool)
    <2> HIDE DEF PendingCount
    <2>1. n \in range /\ ~(PendingCount <= n)
      BY <1>1, <1>5
    <2> QED
      BY <2>1, <1>5
  <1> HIDE DEF PendingCount
  <1> QED
    BY <1>1, <1>5, <1>6

(* A worker waits in the line once at most, so the line is no longer than  *)
(* there are workers.                                                      *)
LEMMA LineIsShort ==
  SendType /\ LockInv => Len(line) <= Cardinality(Workers)
  <1> SUFFICES ASSUME SendType, LockInv PROVE Len(line) <= Cardinality(Workers)
    OBVIOUS
  <1>1. line \in [1 .. Len(line) -> Workers] /\ Len(line) \in Nat /\ DOMAIN line = 1 .. Len(line)
    BY DEF SendType
  <1>2. line \in Injection(1 .. Len(line), Workers)
    BY <1>1 DEF LockInv, Injection, IsInjective
  <1>3. Cardinality(1 .. Len(line)) <= Cardinality(Workers)
    BY <1>2, FS_Injection, BroadcastAssumption
  <1>4. Cardinality(1 .. Len(line)) = Len(line)
    <2>1. \A n \in Nat : Cardinality(1 .. n) = n
      BY FS_Interval
    <2> QED
      BY <1>1, <2>1
  <1> QED
    BY <1>3, <1>4

(* A step that neither the node nor the wire sees, and that makes no       *)
(* worker ready to send, keeps what is said of nonces.                     *)
LEMMA NodeFrame ==
  ASSUME SendInv, UNCHANGED <<nodeVars, wire, doubtful, refused>>,
         \A w \in Workers : send'[w].stage = "sending"
                              => send[w].stage = "sending" /\ send'[w].nonce = send[w].nonce
  PROVE  GapInv' /\ FreshInv'
  <1> USE DEF SendInv, nodeVars
  <1>1. GapInv'
    BY DEF GapInv, Below, Nonces, Tx
  <1>2. FreshInv'
    BY DEF FreshInv, Takes, Nonces, Tx
  <1> QED
    BY <1>1, <1>2

(* The sends of a step that changes one worker's call. *)
LEMMA CallStep ==
  ASSUME SendType, NEW w \in Workers, NEW c \in Calls, send' = [send EXCEPT ![w] = c]
  PROVE  /\ send' \in [Workers -> Calls] /\ send'[w] = c
         /\ \A v \in Workers \ {w} : send'[v] = send[v]
  BY DEF SendType

(* The stage of a call is a field of it. *)
LEMMA StageStep ==
  ASSUME SendType, NEW w \in Workers, NEW s \in Stages, send' = [send EXCEPT ![w].stage = s]
  PROVE  /\ send' \in [Workers -> Calls]
         /\ send'[w].stage = s /\ send'[w].load = send[w].load /\ send'[w].nonce = send[w].nonce
         /\ \A v \in Workers \ {w} : send'[v] = send[v]
  BY DEF SendType, Calls

(* Nothing of the sends changes but the count of faults. *)
LEMMA FaultSend ==
  ASSUME SendInv, UNCHANGED <<lockVars, send, nodeVars, wire, doubtful, refused>>,
         Fault \/ UNCHANGED faults
  PROVE  SendInv'
  <1>1. SendType'
    BY BroadcastAssumption DEF SendInv, SendType, Fault, lockVars, nodeVars
  <1>2. LockInv'
    BY DEF SendInv, LockInv, lockVars, InCall
  <1>3. GapInv' /\ FreshInv'
    BY NodeFrame
  <1> QED
    BY <1>1, <1>2, <1>3 DEF SendInv

(* A worker joins the end of the line. *)
LEMMA EnqueueSend ==
  ASSUME SendInv, NEW w \in Workers, NEW load \in Updates, Enqueue(w, load)
  PROVE  SendInv'
  <1> USE DEF SendInv
  <1> DEFINE c == [stage |-> "queued", load |-> load, nonce |-> 0]
  <1>1. c \in Calls
    BY DEF Calls, Stages
  <1>2. /\ send' \in [Workers -> Calls] /\ send'[w] = c
        /\ \A v \in Workers \ {w} : send'[v] = send[v]
    BY <1>1, CallStep DEF Enqueue
  <1>3. SendType'
    BY <1>2 DEF SendType, Enqueue, nodeVars
  <1>4. \A i \in DOMAIN line : line[i] \in Workers \ {w}
    BY DEF SendType, LockInv, Enqueue
  <1>5. LockInv'
    <2>1. /\ DOMAIN line' = 1 .. Len(line) + 1 /\ line'[Len(line) + 1] = w
          /\ DOMAIN line = 1 .. Len(line)
          /\ \A i \in 1 .. Len(line) : line'[i] = line[i]
      BY DEF Enqueue, SendType
    <2> QED
      BY <2>1, <1>2, <1>4 DEF SendType, LockInv, Enqueue, InCall
  <1>6. GapInv' /\ FreshInv'
    BY <1>2, NodeFrame DEF Enqueue
  <1> QED
    BY <1>3, <1>5, <1>6

(* The first of the line gets the lock when it is free. *)
LEMMA AcquireSend ==
  ASSUME SendInv, NEW w \in Workers, Acquire(w)
  PROVE  SendInv'
  <1> USE DEF SendInv
  <1>2. /\ send' \in [Workers -> Calls] /\ send'[w].stage = "reading"
        /\ \A v \in Workers \ {w} : send'[v] = send[v]
    BY StageStep DEF Acquire, Stages
  <1>3. SendType'
    BY <1>2 DEF SendType, Acquire, nodeVars
  <1>4. LockInv'
    <2>1. /\ DOMAIN line' = 1 .. Len(line) - 1 /\ line[1] = w
          /\ DOMAIN line = 1 .. Len(line) /\ Len(line) \in Nat /\ Len(line) > 0
          /\ \A i \in 1 .. Len(line) - 1 : line'[i] = line[i + 1]
      BY DEF Acquire, SendType
    <2>2. \A i \in DOMAIN line' : i + 1 \in DOMAIN line /\ line'[i] = line[i + 1] /\ line'[i] # w
      BY <2>1 DEF LockInv
    <2>3. \A i \in DOMAIN line' : line'[i] \in Workers \ {w} /\ send'[line'[i]].stage = "queued"
      BY <2>2, <1>2, <1>3 DEF SendType, LockInv
    <2>4. \A i, j \in DOMAIN line' : line'[i] = line'[j] => i = j
      BY <2>1, <2>2 DEF LockInv
    <2>5. \A v \in Workers \ {w} : ~InCall(v)
      BY BroadcastAssumption DEF Acquire, LockInv
    <2> QED
      BY <2>3, <2>4, <2>5, <1>2 DEF LockInv, Acquire, InCall
  <1>5. GapInv' /\ FreshInv'
    BY <1>2, NodeFrame DEF Acquire
  <1> QED
    BY <1>3, <1>4, <1>5

\* The sequence without its element i, as QueueTimeout writes it.
Drop(s, i) == SubSeq(s, 1, i - 1) \o SubSeq(s, i + 1, Len(s))

(* It keeps the other elements, in their order. *)
LEMMA DropAt ==
  ASSUME NEW S, NEW s \in Seq(S), NEW i \in 1 .. Len(s)
  PROVE  /\ Drop(s, i) \in Seq(S) /\ DOMAIN Drop(s, i) = 1 .. Len(s) - 1
         /\ \A j \in 1 .. Len(s) - 1 : Drop(s, i)[j] = s[IF j < i THEN j ELSE j + 1]
  <1> DEFINE t == Drop(s, i)
             p == SubSeq(s, 1, i - 1)
             q == SubSeq(s, i + 1, Len(s))
  <1>1. Len(s) \in Nat /\ i \in Int /\ \A j \in 1 .. Len(s) : s[j] \in S
    OBVIOUS
  <1>2. p \in Seq(S) /\ Len(p) = i - 1 /\ \A j \in 1 .. i - 1 : p[j] = s[j]
    <2>1. \A j \in 1 .. i - 1 : s[j] \in S
      BY <1>1
    <2>2. /\ p \in Seq(S) /\ Len(p) = IF 1 <= i - 1 THEN (i - 1) - 1 + 1 ELSE 0
          /\ \A j \in 1 .. (i - 1) - 1 + 1 : p[j] = s[1 + j - 1]
      BY <2>1, <1>1, SubSeqProperties
    <2> HIDE DEF p
    <2> QED
      BY <2>2, <1>1
  <1>3. /\ q \in Seq(S) /\ Len(q) = Len(s) - i
        /\ \A j \in 1 .. Len(s) - i : q[j] = s[i + j]
    <2>1. \A j \in i + 1 .. Len(s) : s[j] \in S
      BY <1>1
    <2>2. /\ q \in Seq(S) /\ Len(q) = IF i + 1 <= Len(s) THEN Len(s) - (i + 1) + 1 ELSE 0
          /\ \A j \in 1 .. Len(s) - (i + 1) + 1 : q[j] = s[(i + 1) + j - 1]
      BY <2>1, <1>1, SubSeqProperties
    <2> HIDE DEF q
    <2> QED
      BY <2>2, <1>1
  <1> HIDE DEF p, q
  <1>4. /\ p \o q \in Seq(S) /\ Len(p \o q) = Len(p) + Len(q)
        /\ \A j \in 1 .. Len(p) + Len(q) :
             (p \o q)[j] = IF j <= Len(p) THEN p[j] ELSE q[j - Len(p)]
    BY <1>2, <1>3, ConcatProperties
  <1>5. t = p \o q
    BY DEF p, q, Drop
  <1> HIDE DEF t
  <1>6. Len(p) + Len(q) = Len(s) - 1
    BY <1>1, <1>2, <1>3
  <1>7. t \in Seq(S) /\ DOMAIN t = 1 .. Len(s) - 1
    <2>1. t \in Seq(S) /\ Len(t) = Len(s) - 1
      BY <1>4, <1>5, <1>6, Zenon
    <2>2. DOMAIN t = 1 .. Len(t)
      BY <2>1, LenProperties, Zenon
    <2> QED
      BY <2>1, <2>2, Zenon
  <1>8. \A j \in 1 .. Len(s) - 1 : t[j] = IF j <= i - 1 THEN p[j] ELSE q[j - (i - 1)]
    BY <1>2, <1>4, <1>5, <1>6, Zenon
  <1>9. ASSUME NEW j \in 1 .. Len(s) - 1 PROVE t[j] = s[IF j < i THEN j ELSE j + 1]
    <2>1. CASE j < i
      <3>1. j \in 1 .. i - 1 /\ j <= i - 1
        BY <2>1, <1>1
      <3>2. t[j] = p[j]
        BY <3>1, <1>8, Zenon
      <3> QED
        BY <3>1, <3>2, <2>1, <1>2, Zenon
    <2>2. CASE ~(j < i)
      <3>1. ~(j <= i - 1) /\ j - (i - 1) \in 1 .. Len(s) - i /\ i + (j - (i - 1)) = j + 1
        BY <2>2, <1>1
      <3>2. t[j] = q[j - (i - 1)]
        BY <3>1, <1>8, Zenon
      <3>3. q[j - (i - 1)] = s[i + (j - (i - 1))]
        BY <3>1, <1>3, Zenon
      <3> QED
        BY <3>1, <3>2, <3>3, <2>2, Zenon
    <2> QED
      BY <2>1, <2>2
  <1> QED
    BY <1>7, <1>9, Zenon DEF t

(* A worker that has waited too long leaves the line. *)
LEMMA QueueTimeoutSend ==
  ASSUME SendInv, NEW w \in Workers, QueueTimeout(w)
  PROVE  SendInv'
  <1> USE DEF SendInv
  <1>1. PICK i \in DOMAIN line :
          line[i] = w /\ line' = SubSeq(line, 1, i - 1) \o SubSeq(line, i + 1, Len(line))
    BY DEF QueueTimeout
  <1>2. /\ send' \in [Workers -> Calls] /\ send'[w].stage = "err"
        /\ \A v \in Workers \ {w} : send'[v] = send[v]
    BY StageStep DEF QueueTimeout, Stages
  <1> DEFINE old(j) == IF j < i THEN j ELSE j + 1
  <1>3. /\ Len(line) \in Nat /\ i \in 1 .. Len(line) /\ DOMAIN line = 1 .. Len(line)
        /\ line' \in Seq(Workers) /\ DOMAIN line' = 1 .. Len(line) - 1
        /\ \A j \in 1 .. Len(line) - 1 : line'[j] = line[old(j)]
    <2>1. /\ line \in Seq(Workers) /\ i \in 1 .. Len(line)
          /\ Len(line) \in Nat /\ DOMAIN line = 1 .. Len(line)
      BY DEF SendType
    <2>2. /\ line' \in Seq(Workers) /\ DOMAIN line' = 1 .. Len(line) - 1
          /\ \A j \in 1 .. Len(line) - 1 : line'[j] = line[IF j < i THEN j ELSE j + 1]
      <3>1. line' = Drop(line, i)
        BY <1>1 DEF Drop
      <3> QED
        BY <2>1, <3>1, DropAt, Zenon
    <2> QED
      BY <2>1, <2>2
  <1>4. SendType'
    BY <1>2, <1>3, BroadcastAssumption DEF SendType, QueueTimeout, Fault, nodeVars
  <1>5. \A j \in DOMAIN line' : old(j) \in DOMAIN line /\ old(j) # i /\ line'[j] = line[old(j)]
    BY <1>3
  <1>6. LockInv'
    <2>1. \A j \in DOMAIN line' : line'[j] \in Workers \ {w} /\ send'[line'[j]].stage = "queued"
      <3> SUFFICES ASSUME NEW j \in DOMAIN line'
                   PROVE  line'[j] \in Workers \ {w} /\ send'[line'[j]].stage = "queued"
        OBVIOUS
      <3>1. PICK k \in DOMAIN line : k # i /\ line'[j] = line[k]
        BY <1>5
      <3>2. line[k] # w /\ send[line[k]].stage = "queued"
        BY <3>1, <1>1 DEF LockInv
      <3>3. line[k] \in Workers
        BY DEF SendType
      <3> QED
        BY <3>1, <3>2, <3>3, <1>2
    <2>2. \A j, k \in DOMAIN line' : old(j) = old(k) => j = k
      BY <1>3
    <2> HIDE DEF old
    <2>3. \A j, k \in DOMAIN line' : line'[j] = line'[k] => j = k
      BY <2>2, <1>5 DEF LockInv
    <2> QED
      BY <2>1, <2>3, <1>2 DEF LockInv, QueueTimeout, InCall
  <1>7. GapInv' /\ FreshInv'
    BY <1>2, NodeFrame DEF QueueTimeout
  <1> QED
    BY <1>4, <1>6, <1>7

(* A call that is over is forgotten. *)
LEMMA ReturnSend ==
  ASSUME SendInv, NEW w \in Workers, Return(w)
  PROVE  SendInv'
  <1> USE DEF SendInv
  <1>1. NoSend \in Calls
    BY DEF Calls, Stages, NoSend
  <1>2. /\ send' \in [Workers -> Calls] /\ send'[w] = NoSend
        /\ \A v \in Workers \ {w} : send'[v] = send[v]
    BY <1>1, CallStep DEF Return
  <1>3. SendType'
    BY <1>2 DEF SendType, Return, nodeVars, lockVars
  <1>4. LockInv'
    BY <1>2 DEF SendType, LockInv, Return, lockVars, InCall, NoSend
  <1>5. GapInv' /\ FreshInv'
    BY <1>2, NodeFrame DEF Return, NoSend
  <1> QED
    BY <1>3, <1>4, <1>5

(* The nonce that is read has no gap below it, and it is free unless the   *)
(* node was behind.                                                        *)
LEMMA ReadNonceSend ==
  ASSUME SendInv, NEW w \in Workers, NEW n, ReadNonce(w, n)
  PROVE  SendInv'
  <1> USE DEF SendInv
  <1>1. /\ PendingCount \in Nat /\ PendingCount >= mined
        /\ PendingCount \notin Nonces(pool)
        /\ mined .. (PendingCount - 1) \subseteq Nonces(pool)
    BY PendingCountProperty
  <1>2. n \in Nat /\ n >= mined /\ n <= PendingCount /\ mined \in Nat
    <2> HIDE DEF PendingCount
    <2> QED
      BY <1>1 DEF ReadNonce, SendType
  <1>3. /\ send' \in [Workers -> Calls]
        /\ send'[w].stage = "sending" /\ send'[w].nonce = n
        /\ \A v \in Workers \ {w} : send'[v] = send[v]
    <2> DEFINE f == [send EXCEPT ![w].stage = "sending"]
    <2>1. send \in [Workers -> Calls] /\ "sending" \in Stages
      BY DEF SendType, Stages
    <2>2. /\ f \in [Workers -> Calls] /\ f[w].stage = "sending"
          /\ \A v \in Workers \ {w} : f[v] = send[v]
      BY <2>1 DEF Calls
    <2>3. send' = [f EXCEPT ![w].nonce = n]
      BY DEF ReadNonce
    <2> HIDE DEF f
    <2> QED
      BY <2>2, <2>3, <1>2 DEF Calls
  <1>4. UNCHANGED <<lockVars, nodeVars, wire, refused>> /\ send[w].stage = "reading"
    BY DEF ReadNonce
  <1>5. SendType'
    <2>1. faults' \in 0 .. MaxFaults
      BY BroadcastAssumption DEF ReadNonce, Fault, SendType
    <2> QED
      BY <2>1, <1>3, <1>4 DEF SendType, nodeVars, lockVars
  <1>6. LockInv'
    BY <1>3, <1>4 DEF LockInv, lockVars, InCall, SendType
  <1>7. GapInv'
    <2>1. mined .. (n - 1) \subseteq Nonces(pool)
      BY <1>1, <1>2
    <2>2. Below(Tx(w))'
      BY <2>1, <1>3, <1>4 DEF Below, Tx, Nonces, nodeVars
    <2>3. \A v \in Workers \ {w} : send'[v].stage = "sending" => Below(Tx(v))'
      BY <1>3, <1>4 DEF GapInv, Below, Tx, Nonces, nodeVars
    <2>4. \A tx \in (pool \cup wire)' : Below(tx)'
      BY <1>4 DEF GapInv, Below, Nonces, nodeVars
    <2> QED
      BY <2>2, <2>3, <2>4 DEF GapInv
  <1>8. FreshInv'
    <2>1. doubtful \subseteq doubtful'
      BY DEF ReadNonce
    <2>2. \A tx \in wire' : tx.load \in doubtful'
      BY <2>1, <1>4 DEF FreshInv
    <2>3. refused' => doubtful' # {}
      BY <2>1, <1>4 DEF FreshInv
    <2>4. ASSUME doubtful' = {}, NEW v \in Workers, send'[v].stage = "sending"
          PROVE  Takes(Tx(v))'
      <3>1. n = PendingCount /\ doubtful = {}
        BY <2>4 DEF ReadNonce
      <3>2. CASE v = w
        <4>1. n >= mined /\ n \notin Nonces(pool)
          BY <3>1, <1>1, <1>2
        <4> QED
          BY <4>1, <3>2, <1>3, <1>4 DEF Takes, Tx, Nonces, nodeVars
      <3>3. CASE v # w
        BY <3>1, <3>3, <2>4, <1>3, <1>4 DEF FreshInv, Takes, Tx, Nonces, nodeVars
      <3> QED
        BY <3>2, <3>3
    <2> QED
      BY <2>2, <2>3, <2>4 DEF FreshInv
  <1> QED
    BY <1>5, <1>6, <1>7, <1>8

(* A transaction enters the pool where its nonce is free. *)
LEMMA PoolGrows ==
  ASSUME SendInv, NEW tx, tx.nonce \in Nat, Takes(tx), Below(tx),
         pool' = pool \cup {tx}, UNCHANGED <<mined, evicted>>
  PROVE  /\ IsFiniteSet(pool') /\ \A s, t \in pool' : s.nonce = t.nonce => s = t
         /\ Nonces(pool)' = Nonces(pool) \cup {tx.nonce}
         /\ \A s : Below(s) => Below(s)'
  <1>1. IsFiniteSet(pool')
    BY FS_AddElement DEF SendInv, SendType
  <1>2. Nonces(pool)' = Nonces(pool) \cup {tx.nonce}
    BY DEF Nonces
  <1>3. \A s, t \in pool' : s.nonce = t.nonce => s = t
    BY DEF Takes, Nonces, SendInv, SendType
  <1>4. \A s : Below(s) => Below(s)'
    BY <1>2 DEF Below
  <1> QED
    BY <1>1, <1>2, <1>3, <1>4

(* The node answers: it takes the transaction, or says that its nonce is   *)
(* used; in both cases the lock is free again.                             *)
LEMMA AnswerSend ==
  ASSUME SendInv, NEW w \in Workers, Answer(w)
  PROVE  SendInv'
  <1> USE DEF SendInv
  <1> DEFINE s == IF Takes(Tx(w)) THEN "ok" ELSE "err"
  <1>1. /\ send' \in [Workers -> Calls]
        /\ send'[w].stage = s
        /\ \A v \in Workers \ {w} : send'[v] = send[v]
    <2>1. send' = [send EXCEPT ![w].stage = s] /\ s \in Stages
      BY DEF Answer, Stages
    <2> HIDE DEF s
    <2> QED
      BY <2>1, StageStep
  <1>2. \A v \in Workers : ~InCall(v)'
    BY <1>1 DEF LockInv, InCall, Answer
  <1>3. \A v \in Workers : send'[v].stage # "sending"
    BY <1>2 DEF InCall
  <1>4. Tx(w).nonce \in Nat /\ Below(Tx(w))
    BY DEF Tx, SendType, Calls, GapInv, Answer
  <1>5. UNCHANGED <<line, mined, evicted, wire, faults, doubtful>> /\ slot' = Nobody
    BY DEF Answer
  <1>6. LockInv'
    <2>1. \A i \in DOMAIN line : line[i] \in Workers \ {w}
      BY DEF LockInv, Answer, SendType
    <2> QED
      BY <2>1, <1>1, <1>2, <1>5 DEF LockInv
  <1>7. CASE Takes(Tx(w))
    <2>1. pool' = pool \cup {Tx(w)} /\ UNCHANGED refused
      BY <1>7 DEF Answer
    <2>2. /\ IsFiniteSet(pool') /\ \A a, b \in pool' : a.nonce = b.nonce => a = b
          /\ \A t : Below(t) => Below(t)'
      BY <1>4, <1>5, <1>7, <2>1, PoolGrows
    <2>3. SendType'
      BY <2>1, <2>2, <1>1, <1>4, <1>5 DEF SendType
    <2>4. GapInv'
      BY <2>1, <2>2, <1>3, <1>4, <1>5 DEF GapInv
    <2>5. FreshInv'
      BY <2>1, <1>3, <1>5 DEF FreshInv
    <2> QED
      BY <2>3, <2>4, <2>5, <1>6
  <1>8. CASE ~Takes(Tx(w))
    <2>1. refused' = TRUE /\ UNCHANGED pool
      BY <1>8 DEF Answer
    <2>2. SendType'
      BY <2>1, <1>1, <1>5 DEF SendType
    <2>3. GapInv'
      BY <2>1, <1>3, <1>5 DEF GapInv, Below, Nonces
    <2>4. doubtful # {}
      BY <1>8 DEF FreshInv, Answer
    <2>5. FreshInv'
      BY <2>1, <2>4, <1>3, <1>5 DEF FreshInv
    <2> QED
      BY <2>2, <2>3, <2>5, <1>6
  <1> QED
    BY <1>7, <1>8

(* A send that ends without an answer leaves its transaction on the wire   *)
(* and marks it as doubtful, or leaves nothing.                            *)
LEMMA NoAnswerSend ==
  ASSUME SendInv, NEW w \in Workers, NEW left \in BOOLEAN, NoAnswer(w, left)
  PROVE  SendInv'
  <1> USE DEF SendInv
  <1>1. /\ send' \in [Workers -> Calls] /\ send'[w].stage = "err"
        /\ \A v \in Workers \ {w} : send'[v] = send[v]
    BY StageStep DEF NoAnswer, Stages
  <1>2. \A v \in Workers : ~InCall(v)'
    BY <1>1 DEF LockInv, InCall, NoAnswer
  <1>3. \A v \in Workers : send'[v].stage # "sending"
    BY <1>2 DEF InCall
  <1>4. UNCHANGED <<line, nodeVars, refused>> /\ slot' = Nobody /\ doubtful \subseteq doubtful'
    BY DEF NoAnswer
  <1>5. wire' \subseteq wire \cup {Tx(w)} /\ (Tx(w) \in wire' => Tx(w).load \in doubtful')
    BY DEF NoAnswer, FreshInv, Tx
  <1>6. Tx(w).nonce \in Nat /\ (Tx(w) \in wire' => Below(Tx(w)))
    BY DEF Tx, SendType, Calls, GapInv, NoAnswer
  <1>7. SendType'
    <2>1. faults' \in 0 .. MaxFaults
      BY BroadcastAssumption DEF NoAnswer, Fault, SendType
    <2> QED
      BY <2>1, <1>1, <1>4, <1>5, <1>6 DEF SendType, nodeVars
  <1>8. LockInv'
    <2>1. \A i \in DOMAIN line : line[i] \in Workers \ {w}
      BY DEF LockInv, NoAnswer, SendType
    <2> QED
      BY <2>1, <1>1, <1>2, <1>4 DEF LockInv
  <1>9. GapInv'
    BY <1>3, <1>4, <1>5, <1>6 DEF GapInv, Below, Nonces, nodeVars
  <1>10. FreshInv'
    BY <1>3, <1>4, <1>5 DEF FreshInv
  <1> QED
    BY <1>7, <1>8, <1>9, <1>10

(* A transaction that nobody waits for reaches the node after all. *)
LEMMA ArriveSend ==
  ASSUME SendInv, NEW tx, Arrive(tx)
  PROVE  SendInv'
  <1> USE DEF SendInv
  <1>1. UNCHANGED <<lockVars, send, mined, evicted, faults, doubtful, refused>>
    BY DEF Arrive
  <1>2. tx.nonce \in Nat /\ Below(tx) /\ doubtful # {} /\ wire' \subseteq wire
    BY DEF Arrive, SendType, GapInv, FreshInv
  <1>3. LockInv'
    BY <1>1 DEF LockInv, lockVars, InCall
  <1>4. FreshInv'
    BY <1>1, <1>2 DEF FreshInv
  <1>5. CASE Takes(tx)
    <2>1. pool' = pool \cup {tx}
      BY <1>5 DEF Arrive
    <2>2. /\ IsFiniteSet(pool') /\ \A a, b \in pool' : a.nonce = b.nonce => a = b
          /\ \A t : Below(t) => Below(t)'
      BY <1>1, <1>2, <1>5, <2>1, PoolGrows
    <2>3. SendType'
      BY <2>1, <2>2, <1>1, <1>2 DEF SendType, lockVars
    <2>4. GapInv'
      <3>1. \A w \in Workers : Tx(w)' = Tx(w)
        BY <1>1 DEF Tx
      <3> QED
        BY <3>1, <2>1, <2>2, <1>1, <1>2 DEF GapInv
    <2> QED
      BY <2>3, <2>4, <1>3, <1>4
  <1>6. CASE ~Takes(tx)
    <2>1. pool' = pool
      BY <1>6 DEF Arrive
    <2>2. SendType'
      BY <2>1, <1>1, <1>2 DEF SendType, lockVars
    <2>3. GapInv'
      BY <2>1, <1>1, <1>2 DEF GapInv, Below, Nonces, Tx
    <2> QED
      BY <2>2, <2>3, <1>3, <1>4
  <1> QED
    BY <1>5, <1>6

(* Or it never does. *)
LEMMA VanishSend ==
  ASSUME SendInv, NEW tx, Vanish(tx)
  PROVE  SendInv'
  <1> USE DEF SendInv
  <1>1. UNCHANGED <<lockVars, send, nodeVars, faults, doubtful, refused>> /\ wire' \subseteq wire
    BY DEF Vanish
  <1>2. SendType'
    BY <1>1 DEF SendType, lockVars, nodeVars
  <1>3. LockInv'
    BY <1>1 DEF LockInv, lockVars, InCall
  <1>4. GapInv'
    BY <1>1 DEF GapInv, Below, Nonces, Tx, nodeVars
  <1>5. FreshInv'
    BY <1>1 DEF FreshInv, Takes, Nonces, Tx, nodeVars
  <1> QED
    BY <1>2, <1>3, <1>4, <1>5

(* The account's nonce passes the transaction that is mined. *)
LEMMA MineSend ==
  ASSUME SendInv, NEW tx, Mine(tx)
  PROVE  SendInv'
  <1> USE DEF SendInv
  <1>1. /\ tx \in pool /\ tx.nonce = mined /\ pool' = pool \ {tx} /\ mined' = mined + 1
        /\ UNCHANGED <<lockVars, send, evicted, wire, faults, doubtful, refused>> /\ mined \in Nat
    BY DEF Mine, SendType
  <1>2. Nonces(pool)' = Nonces(pool) \ {mined}
    BY <1>1 DEF Nonces, SendType
  <1>3. SendType'
    <2>1. IsFiniteSet(pool')
      BY <1>1, FS_RemoveElement DEF SendType
    <2> QED
      BY <2>1, <1>1 DEF SendType, lockVars
  <1>4. LockInv'
    BY <1>1 DEF LockInv, lockVars, InCall
  <1>5. ASSUME NEW t, t.nonce \in Nat, Below(t) PROVE Below(t)'
    <2> SUFFICES ASSUME NEW k \in mined' .. (t.nonce - 1) PROVE k \in Nonces(pool)' \cup evicted'
      BY DEF Below
    <2>1. k \in mined .. (t.nonce - 1) /\ k # mined
      BY <1>1, <1>5
    <2> QED
      BY <2>1, <1>1, <1>2, <1>5 DEF Below
  <1>6. GapInv'
    <2>1. \A w \in Workers : Tx(w)' = Tx(w) /\ Tx(w).nonce \in Nat
      BY <1>1 DEF Tx, SendType, Calls
    <2>2. \A t \in (pool \cup wire)' : t \in pool \cup wire /\ t.nonce \in Nat
      BY <1>1 DEF SendType
    <2> QED
      BY <2>1, <2>2, <1>1, <1>5 DEF GapInv
  <1>7. FreshInv'
    <2>1. ASSUME doubtful = {}, NEW w \in Workers, send[w].stage = "sending"
          PROVE  Takes(Tx(w))'
      <3>1. Tx(w).nonce >= mined /\ Tx(w).nonce \notin Nonces(pool) /\ Tx(w).nonce \in Nat
        BY <2>1 DEF FreshInv, Takes, Tx, SendType, Calls
      <3>2. mined \in Nonces(pool)
        BY <1>1 DEF Nonces
      <3>3. Tx(w).nonce >= mined' /\ Tx(w).nonce \notin Nonces(pool)'
        BY <3>1, <3>2, <1>1, <1>2
      <3> QED
        BY <3>3, <1>1 DEF Takes, Tx
    <2> QED
      BY <2>1, <1>1 DEF FreshInv
  <1> QED
    BY <1>3, <1>4, <1>6, <1>7

(* The node drops a transaction, and its nonce is remembered as evicted. *)
LEMMA EvictSend ==
  ASSUME SendInv, NEW tx, Evict(tx)
  PROVE  SendInv'
  <1> USE DEF SendInv
  <1>1. /\ tx \in pool /\ pool' = pool \ {tx} /\ evicted' = evicted \cup {tx.nonce}
        /\ UNCHANGED <<lockVars, send, mined, wire, doubtful, refused>>
    BY DEF Evict
  <1>2. Nonces(pool)' = Nonces(pool) \ {tx.nonce}
    BY <1>1 DEF Nonces, SendType
  <1>3. SendType'
    <2>1. IsFiniteSet(pool')
      BY <1>1, FS_RemoveElement DEF SendType
    <2>2. faults' \in 0 .. MaxFaults
      BY BroadcastAssumption DEF Evict, Fault, SendType
    <2> QED
      BY <2>1, <2>2, <1>1 DEF SendType, lockVars
  <1>4. LockInv'
    BY <1>1 DEF LockInv, lockVars, InCall
  <1>5. \A t : Below(t) => Below(t)'
    BY <1>1, <1>2 DEF Below
  <1>6. \A w \in Workers : Tx(w)' = Tx(w)
    BY <1>1 DEF Tx
  <1>7. GapInv'
    BY <1>1, <1>5, <1>6 DEF GapInv
  <1>8. FreshInv'
    BY <1>1, <1>2, <1>6 DEF FreshInv, Takes
  <1> QED
    BY <1>3, <1>4, <1>7, <1>8

(* The process ends, and what it was sending is doubtful. *)
LEMMA AbortSend ==
  ASSUME SendInv, NEW left, Abort(left)
  PROVE  SendInv'
  <1> USE DEF SendInv
  <1>1. /\ UNCHANGED <<nodeVars, refused>> /\ wire' = wire \cup left
        /\ doubtful' = doubtful \cup {tx.load : tx \in left}
        /\ slot' = Nobody /\ line' = <<>> /\ send' = [w \in Workers |-> NoSend]
    BY DEF Abort
  <1>2. ASSUME NEW tx \in left
        PROVE  tx.nonce \in Nat /\ Below(tx)
    <2>1. PICK w \in Workers : send[w].stage = "sending" /\ tx = Tx(w)
      BY DEF Abort
    <2> QED
      BY <2>1 DEF Tx, SendType, Calls, GapInv
  <1>3. send' \in [Workers -> Calls] /\ \A w \in Workers : send'[w].stage = "idle"
    BY <1>1 DEF NoSend, Calls, Stages
  <1>4. SendType'
    <2>1. faults' \in 0 .. MaxFaults
      BY BroadcastAssumption DEF Abort, Fault, SendType
    <2>2. line' \in Seq(Workers)
      BY <1>1
    <2> QED
      BY <2>1, <2>2, <1>1, <1>2, <1>3 DEF SendType, nodeVars
  <1>5. LockInv'
    BY <1>1, <1>3 DEF LockInv, InCall
  <1>6. GapInv'
    BY <1>1, <1>2, <1>3 DEF GapInv, Below, Nonces, nodeVars
  <1>7. FreshInv'
    BY <1>1, <1>3 DEF FreshInv
  <1> QED
    BY <1>4, <1>5, <1>6, <1>7

(* A process that starts has sent nothing. *)
LEMMA InitSend ==
  ASSUME SendInit
  PROVE  SendInv
  <1>1. send \in [Workers -> Calls] /\ \A w \in Workers : send[w].stage = "idle"
    BY DEF SendInit, NoSend, Calls, Stages
  <1>2. SendType
    <2>1. line \in Seq(Workers) /\ IsFiniteSet(pool) /\ faults \in 0 .. MaxFaults
      BY FS_EmptySet, BroadcastAssumption DEF SendInit
    <2> QED
      BY <2>1, <1>1 DEF SendInit, SendType
  <1>3. LockInv
    BY <1>1 DEF SendInit, LockInv, InCall
  <1>4. GapInv
    BY <1>1 DEF SendInit, GapInv
  <1>5. FreshInv
    BY <1>1 DEF SendInit, FreshInv
  <1> QED
    BY <1>2, <1>3, <1>4, <1>5 DEF SendInv

-----------------------------------------------------------------------------
(***************************************************************************)
(* The validator and the attestors.                                        *)
(***************************************************************************)
(* A digest is an elected set and a nonce. *)
LEMMA DigestFacts ==
  /\ Len(Elections) \in Nat /\ DOMAIN Elections = 1 .. Len(Elections)
  /\ MaxUpdates \in Nat /\ MaxFaults \in Nat
  /\ \A d \in Digests : /\ d \in (SUBSET Attestors) \X Nat /\ d[2] <= MaxUpdates
                        /\ IsFiniteSet(d[1]) /\ d[1] # {}
  /\ \A i \in DOMAIN Elections : Elections[i] \in SUBSET Attestors
  /\ \A i \in DOMAIN Elections, n \in 0 .. MaxUpdates : <<Elections[i], n>> \in Digests
  <1>1. /\ Len(Elections) \in Nat /\ DOMAIN Elections = 1 .. Len(Elections)
        /\ \A i \in DOMAIN Elections : Elections[i] \in SUBSET Attestors
    BY SetUpdateAssumption
  <1>2. MaxUpdates \in Nat /\ MaxFaults \in Nat
    BY <1>1, BroadcastAssumption DEF MaxUpdates
  <1>3. ASSUME NEW d \in Digests
        PROVE  /\ d \in (SUBSET Attestors) \X Nat /\ d[2] <= MaxUpdates
               /\ IsFiniteSet(d[1]) /\ d[1] # {}
    <2>1. PICK i \in DOMAIN Elections, n \in 0 .. MaxUpdates : d = <<Elections[i], n>>
      BY DEF Digests
    <2> QED
      BY <2>1, <1>1, <1>2, SetUpdateAssumption
  <1>4. ASSUME NEW i \in DOMAIN Elections, NEW n \in 0 .. MaxUpdates
        PROVE  <<Elections[i], n>> \in Digests
    BY DEF Digests
  <1> QED
    BY <1>1, <1>2, <1>3, <1>4

(* The votes that the attestors in force are asked for. *)
LEMMA AskedProperty ==
  ASSUME NEW r \in Rules, NEW n \in 0 .. MaxUpdates, NEW e \in DOMAIN Elections
  PROVE  /\ Asked(r, n, e) \subseteq Attestors \X Digests
         /\ \A s \in Asked(r, n, e) : /\ s[2][1] = Elections[e] /\ s[2][2] = n
                                      /\ r.attestors # Elections[e]
  <1>1. <<Elections[e], n>> \in Digests
    BY DigestFacts
  <1>2. r.attestors \subseteq Attestors
    BY DEF Rules
  <1> QED
    BY <1>1, <1>2 DEF Asked

(* The bound of the model's nonces is never met by a guard: elections and  *)
(* faults pay for every update.                                            *)
LEMMA NonceBound ==
  ChainType /\ NonceInv /\ faults \in 0 .. MaxFaults
    => /\ nonce \in 0 .. MaxUpdates /\ elections + faults <= MaxUpdates
       /\ elections \in Nat /\ faults \in Nat
  <1> SUFFICES ASSUME ChainType, NonceInv, faults \in 0 .. MaxFaults
               PROVE  /\ nonce \in 0 .. MaxUpdates /\ elections + faults <= MaxUpdates
                      /\ elections \in Nat /\ faults \in Nat
    OBVIOUS
  <1>1. elections \in 1 .. Len(Elections) /\ Len(Elections) \in Nat /\ MaxFaults \in Nat
    BY DigestFacts DEF ChainType
  <1>2. elections + faults <= MaxUpdates /\ elections \in Nat /\ faults \in Nat
    BY <1>1 DEF MaxUpdates
  <1>3. nonce <= elections + faults /\ nonce \in Nat
    <2> DEFINE b == Flag(regime.attestors # Elected)
    <2>1. b \in {0, 1} /\ nonce + b <= elections + faults /\ nonce \in Nat
      BY DEF NonceInv, Flag, ChainType
    <2> HIDE DEF b
    <2> QED
      BY <2>1, <1>2
  <1> QED
    BY <1>2, <1>3, DigestFacts

-----------------------------------------------------------------------------
(***************************************************************************)
(* What the steps of one part leave alone.                                 *)
(***************************************************************************)
others == <<chainVars, gossipVars, toDeliver, memory, forgotten>>

(* A budget that grows pays for as much. *)
LEMMA Pays ==
  ASSUME NEW a \in Nat, NEW b \in Nat, NEW c \in Nat, b <= c
  PROVE  \A x \in Int : x <= a + b => x <= a + c
  OBVIOUS

(* A step of the sends keeps what the validator and the aggregator know. *)
LEMMA OthersFrame ==
  ASSUME SetUpdateInv, UNCHANGED others, faults' \in Nat, faults <= faults'
  PROVE  ChainType' /\ MemoryType' /\ NonceInv'
  <1> USE DEF SetUpdateInv, others, chainVars, gossipVars, memory
  <1>1. ChainType'
    BY DEF ChainType
  <1>2. MemoryType'
    BY DEF MemoryType
  <1>3. NonceInv'
    <2>1. elections \in Nat /\ faults \in Nat
      BY NonceBound DEF SendInv, SendType
    <2>2. \A x \in Int : x <= elections + faults => x <= elections + faults'
      BY <2>1, Pays, Zenon
    <2>3. nonce + Flag(regime.attestors # Elected) \in Int
      BY DEF ChainType, Flag
    <2>4. \A s \in signed : s[2][2] + 1 + Flag(s[2][1] # Elected) \in Int
      BY DigestFacts DEF ChainType, Flag
    <2>5. nonce + Flag(regime.attestors # Elected) <= elections + faults'
      BY <2>2, <2>3, Zenon DEF NonceInv
    <2>6. \A s \in signed : s[2][2] + 1 + Flag(s[2][1] # Elected) <= elections + faults'
      BY <2>2, <2>4, Zenon DEF NonceInv
    <2> QED
      BY <2>5, <2>6 DEF NonceInv, Elected
  <1> QED
    BY <1>1, <1>2, <1>3

(* A step that sends nothing new for a clean digest, and forgets nothing   *)
(* of what is in flight, does not send an update twice.                    *)
LEMMA OnceFrame ==
  ASSUME SetUpdateInv, nonce' \in Nat, nonce <= nonce',
         UNCHANGED <<current, inFlight, submitting>>,
         doubtful \subseteq doubtful', forgotten \subseteq forgotten',
         \A d \in Digests : Clean(d)' => Live(d)' \subseteq Live(d),
         Unsent' => Unsent
  PROVE  OnceInv'
  <1> SUFFICES ASSUME NEW d \in Digests, Clean(d)'
               PROVE  /\ \A s, t \in Live(d)' : s = t
                      /\ Live(d)' # {} => \/ d \in inFlight'
                                          \/ d[2] < nonce' /\ (current' = NoView \/ d[2] < current'.nonce)
                      /\ Unsent' /\ submitting'.digest = d => Live(d)' = {}
    BY DEF OnceInv
  <1>1. Clean(d) /\ Live(d)' \subseteq Live(d)
    BY DEF Clean
  <1>2. d[2] < nonce => d[2] < nonce'
    BY DigestFacts DEF SetUpdateInv, ChainType
  <1>3. /\ \A s, t \in Live(d) : s = t
        /\ Live(d) # {} => \/ d \in inFlight
                           \/ d[2] < nonce /\ (current = NoView \/ d[2] < current.nonce)
        /\ Unsent /\ submitting.digest = d => Live(d) = {}
    BY <1>1, Zenon DEF SetUpdateInv, OnceInv
  <1>4. \A s, t \in Live(d)' : s = t
    BY <1>1, <1>3
  <1>5. Live(d)' # {} => \/ d \in inFlight'
                         \/ d[2] < nonce' /\ (current' = NoView \/ d[2] < current'.nonce)
    <2> HAVE Live(d)' # {}
    <2>1. d \in inFlight \/ (d[2] < nonce' /\ (current = NoView \/ d[2] < current.nonce))
      BY <1>1, <1>2, <1>3
    <2> QED
      BY <2>1
  <1>6. Unsent' /\ submitting'.digest = d => Live(d)' = {}
    BY <1>1, <1>3
  <1> QED
    BY <1>4, <1>5, <1>6

(* The loads of the sends: a call that runs keeps its load. *)
LEMMA LoadFrame ==
  ASSUME SetUpdateInv, UNCHANGED <<task, submitting, inFlight>>,
         \A w \in Workers : /\ send'[w].stage = "idle" <=> send[w].stage = "idle"
                            /\ send'[w].stage # "idle" => send'[w].load = send[w].load
  PROVE  LoadInv'
  <1>1. Aggregator \in Workers
    BY SetUpdateAssumption
  <1> QED
    BY <1>1 DEF SetUpdateInv, LoadInv

(* The signatures: none is ever taken back. *)
LEMMA BackedFrame ==
  ASSUME SetUpdateInv, UNCHANGED <<votes, submitting>>, signed \subseteq signed',
         \A tx \in (pool \cup wire)' : tx \in pool \cup wire \/ tx.load = Delivered
                                         \/ Backed(tx.load)
  PROVE  BackedInv'
  <1>1. \A u : Backed(u) => Backed(u)'
    BY DEF Backed
  <1>2. Backed(submitting)'
    BY DEF SetUpdateInv, BackedInv, Backed
  <1>3. \A tx \in (pool \cup wire)' : tx.load = Delivered \/ Backed(tx.load)'
    BY <1>1 DEF SetUpdateInv, BackedInv
  <1>4. \A d \in DOMAIN votes' : \A a \in votes'[d] : <<a, d>> \in signed'
    BY DEF SetUpdateInv, BackedInv
  <1> QED
    BY <1>2, <1>3, <1>4 DEF BackedInv

-----------------------------------------------------------------------------
(***************************************************************************)
(* The steps of the sends, with the aggregator's invariants.               *)
(***************************************************************************)
(* Who is in a call sends a message of the delivery worker, or the update  *)
(* that the aggregator has in flight.                                      *)
LEMMA LoadOf ==
  ASSUME SetUpdateInv, NEW w \in Workers, send[w].stage # "idle"
  PROVE  /\ w = Aggregator => /\ task = "submit" /\ send[w].load = submitting
                              /\ submitting.digest \in inFlight
         /\ w # Aggregator => send[w].load = Delivered
         /\ send[w].load = Delivered \/ Backed(send[w].load)
  BY DEF SetUpdateInv, LoadInv, BackedInv

(* A step of the sends that brings no new transaction for a clean digest. *)
LEMMA SendKeeps ==
  ASSUME SetUpdateInv, SendInv', UNCHANGED others, Fault \/ UNCHANGED faults,
         doubtful \subseteq doubtful',
         \A w \in Workers : /\ send'[w].stage = "idle" <=> send[w].stage = "idle"
                            /\ send'[w].stage # "idle" => send'[w].load = send[w].load
                            /\ send[w].stage = "ok" => send'[w].stage = "ok",
         \A tx \in (pool \cup wire)' : tx \in pool \cup wire \/ tx.load = Delivered
                                         \/ Backed(tx.load),
         \A d \in Digests : Clean(d)' => Live(d)' \subseteq Live(d)
  PROVE  SetUpdateInv'
  <1>1. faults' \in Nat /\ faults <= faults'
    BY BroadcastAssumption DEF SetUpdateInv, SendInv, SendType, Fault
  <1>2. ChainType' /\ MemoryType' /\ NonceInv'
    BY <1>1, OthersFrame
  <1>3. /\ UNCHANGED <<task, submitting, inFlight, votes, current, nonce, forgotten>>
        /\ signed' = signed
    BY DEF others, memory, chainVars, gossipVars
  <1>4. LoadInv'
    BY <1>3, LoadFrame
  <1>5. BackedInv'
    BY <1>3, BackedFrame
  <1>6. OnceInv'
    <2>1. Unsent' => Unsent
      BY <1>3, SetUpdateAssumption DEF Unsent
    <2>2. nonce' \in Nat /\ nonce <= nonce'
      BY <1>3 DEF SetUpdateInv, ChainType
    <2> QED
      BY <2>1, <2>2, <1>3, OnceFrame
  <1> QED
    BY <1>2, <1>4, <1>5, <1>6 DEF SetUpdateInv

(* The lock is waited for, given, or given up; the nonce is read. *)
LEMMA QuietSending ==
  ASSUME SetUpdateInv, UNCHANGED others, NEW w \in Workers,
         Acquire(w) \/ QueueTimeout(w) \/ \E n : ReadNonce(w, n)
  PROVE  SetUpdateInv'
  <1>1. SendInv'
    BY AcquireSend, QueueTimeoutSend, ReadNonceSend DEF SetUpdateInv
  <1>2. /\ UNCHANGED <<pool, wire>> /\ doubtful \subseteq doubtful'
        /\ Fault \/ UNCHANGED faults
    BY DEF Acquire, QueueTimeout, ReadNonce, nodeVars
  <1>3. /\ send[w].stage \in {"queued", "reading"}
        /\ send'[w].stage \in {"reading", "err", "sending"} /\ send'[w].load = send[w].load
        /\ \A v \in Workers \ {w} : send'[v] = send[v]
    <2>1. SendType /\ LockInv
      BY DEF SetUpdateInv, SendInv
    <2>2. CASE Acquire(w)
      <3>1. 1 \in DOMAIN line /\ line[1] = w
        BY <2>1, <2>2 DEF Acquire, SendType
      <3>2. send[w].stage = "queued"
        BY <3>1, <2>1 DEF LockInv
      <3> QED
        BY <3>2, <2>1, <2>2, StageStep DEF Acquire, Stages
    <2>3. CASE QueueTimeout(w)
      BY <2>1, <2>3, StageStep DEF QueueTimeout, Stages
    <2>4. CASE \E n : ReadNonce(w, n)
      <3>1. PICK n : ReadNonce(w, n)
        BY <2>4
      <3> DEFINE f == [send EXCEPT ![w].stage = "sending"]
      <3>2. /\ f \in [Workers -> Calls] /\ f[w].stage = "sending" /\ f[w].load = send[w].load
            /\ \A v \in Workers \ {w} : f[v] = send[v]
        BY <2>1 DEF SendType, Calls, Stages
      <3>3. send' = [f EXCEPT ![w].nonce = n] /\ send[w].stage = "reading"
        BY <3>1 DEF ReadNonce
      <3> HIDE DEF f
      <3> QED
        BY <3>2, <3>3 DEF Calls
    <2> QED
      BY <2>2, <2>3, <2>4
  <1>4. \A d \in Digests : Live(d)' = Live(d)
    BY <1>2 DEF Live
  <1> QED
    BY <1>1, <1>2, <1>3, <1>4, SendKeeps

(* The node answers the aggregator or the delivery worker. *)
LEMMA AnswerSending ==
  ASSUME SetUpdateInv, UNCHANGED others, NEW w \in Workers, Answer(w)
  PROVE  SetUpdateInv'
  <1>1. SendInv'
    BY AnswerSend DEF SetUpdateInv
  <1> DEFINE s == IF Takes(Tx(w)) THEN "ok" ELSE "err"
  <1>2. /\ send[w].stage = "sending" /\ send'[w].stage = s /\ send'[w].load = send[w].load
        /\ \A v \in Workers \ {w} : send'[v] = send[v]
    <2>1. send' = [send EXCEPT ![w].stage = s] /\ s \in Stages /\ send[w].stage = "sending"
      BY DEF Answer, Stages
    <2> HIDE DEF s
    <2> QED
      BY <2>1, StageStep DEF SetUpdateInv, SendInv
  <1>3. /\ UNCHANGED <<wire, doubtful, faults>> /\ pool \subseteq pool'
        /\ pool' \subseteq pool \cup {Tx(w)} /\ (~Takes(Tx(w)) => pool' = pool)
    BY DEF Answer
  <1>4. /\ w = Aggregator => /\ task = "submit" /\ send[w].load = submitting
                             /\ submitting.digest \in inFlight
        /\ w # Aggregator => send[w].load = Delivered
        /\ send[w].load = Delivered \/ Backed(send[w].load)
    BY <1>2, LoadOf
  <1>5. Tx(w).load = send[w].load
    BY DEF Tx
  <1>6. CASE w # Aggregator \/ ~Takes(Tx(w))
    <2>1. \A d \in Digests : Live(d)' \subseteq Live(d)
      BY <1>3, <1>4, <1>5, <1>6 DEF Live
    <2> QED
      BY <2>1, <1>1, <1>2, <1>3, <1>4, <1>5, SendKeeps
  <1>7. CASE w = Aggregator /\ Takes(Tx(w))
    <2>1. faults' \in Nat /\ faults <= faults'
      BY <1>3 DEF SetUpdateInv, SendInv, SendType
    <2>2. ChainType' /\ MemoryType' /\ NonceInv'
      BY <2>1, OthersFrame
    <2>3. /\ UNCHANGED <<task, submitting, inFlight, votes, current, nonce, forgotten>>
          /\ signed' = signed
      BY DEF others, memory, chainVars, gossipVars
    <2>4. LoadInv'
      BY <2>3, <1>2, LoadFrame
    <2>5. BackedInv'
      BY <2>3, <1>3, <1>4, <1>5, BackedFrame
    <2>6. OnceInv'
      <3>1. task = "submit" /\ Unsent /\ ~Unsent'
        BY <2>3, <1>2, <1>4, <1>7 DEF Unsent
      <3>2. SUFFICES ASSUME NEW d \in Digests, Clean(d)'
                     PROVE  /\ \A a, b \in Live(d)' : a = b
                            /\ Live(d)' # {} =>
                                 \/ d \in inFlight'
                                 \/ d[2] < nonce' /\ (current' = NoView \/ d[2] < current'.nonce)
        BY <3>1, Zenon DEF OnceInv
      <3>3. Clean(d)
        BY <2>3, <1>3, <3>2 DEF Clean
      <3>4. CASE d = submitting.digest
        <4>1. Live(d) = {}
          BY <3>1, <3>3, <3>4, Zenon DEF SetUpdateInv, OnceInv
        <4>2. Live(d)' \subseteq {Tx(w)}
          BY <4>1, <1>3 DEF Live
        <4>3. d \in inFlight'
          BY <3>4, <2>3, <1>4, <1>7
        <4> QED
          BY <4>2, <4>3
      <3>5. CASE d # submitting.digest
        <4>1. Live(d)' \subseteq Live(d)
          BY <3>5, <1>3, <1>4, <1>5, <1>7 DEF Live
        <4>2. /\ \A a, b \in Live(d) : a = b
              /\ Live(d) # {} => \/ d \in inFlight
                                 \/ d[2] < nonce /\ (current = NoView \/ d[2] < current.nonce)
          BY <3>3, Zenon DEF SetUpdateInv, OnceInv
        <4> QED
          BY <4>1, <4>2, <2>3
      <3> QED
        BY <3>4, <3>5
    <2> QED
      BY <2>2, <2>4, <2>5, <2>6, <1>1 DEF SetUpdateInv
  <1> QED
    BY <1>6, <1>7

(* There is no answer. *)
LEMMA NoAnswerSending ==
  ASSUME SetUpdateInv, UNCHANGED others, NEW w \in Workers, NEW left \in BOOLEAN,
         NoAnswer(w, left)
  PROVE  SetUpdateInv'
  <1>1. SendInv'
    BY NoAnswerSend DEF SetUpdateInv
  <1>2. /\ InCall(w) /\ send'[w].stage = "err" /\ send'[w].load = send[w].load
        /\ \A v \in Workers \ {w} : send'[v] = send[v]
    BY StageStep DEF NoAnswer, Stages, SetUpdateInv, SendInv, InCall
  <1>3. /\ pool' = pool /\ doubtful \subseteq doubtful' /\ Fault
        /\ wire' \subseteq wire \cup {Tx(w)}
        /\ left => send[w].load \in doubtful'
        /\ ~left => wire' = wire
    BY DEF NoAnswer, nodeVars
  <1>4. send[w].load = Delivered \/ Backed(send[w].load)
    BY <1>2, LoadOf DEF InCall
  <1>5. Tx(w).load = send[w].load
    BY DEF Tx
  <1>6. \A d \in Digests : Clean(d)' => Live(d)' \subseteq Live(d)
    BY <1>3, <1>5 DEF Live, Clean
  <1>7. \A v \in Workers : /\ send'[v].stage = "idle" <=> send[v].stage = "idle"
                           /\ send'[v].stage # "idle" => send'[v].load = send[v].load
                           /\ send[v].stage = "ok" => send'[v].stage = "ok"
    BY <1>2 DEF InCall
  <1> QED
    BY <1>1, <1>3, <1>4, <1>5, <1>6, <1>7, SendKeeps

(* What happens to a transaction on the wire or in the pool brings no new  *)
(* one.                                                                    *)
LEMMA NodeSending ==
  ASSUME SetUpdateInv, UNCHANGED others, NodeStep
  PROVE  SetUpdateInv'
  <1>1. SendInv'
    BY ArriveSend, VanishSend, EvictSend DEF SetUpdateInv, NodeStep
  <1>2. /\ (pool \cup wire)' \subseteq pool \cup wire /\ UNCHANGED <<send, doubtful>>
        /\ Fault \/ UNCHANGED faults
    BY DEF NodeStep, Arrive, Vanish, Evict, nodeVars
  <1>3. \A d \in Digests : Live(d)' \subseteq Live(d)
    BY <1>2 DEF Live
  <1> QED
    BY <1>1, <1>2, <1>3, SendKeeps

(* The delivery worker starts a send, or is done with one. *)
LEMMA DeliveryStep ==
  ASSUME SetUpdateInv, Deliver \/ DeliveryReturns
  PROVE  SetUpdateInv'
  <1>1. Delivered \in Updates /\ {Delivery, Aggregator} \subseteq Workers
    BY SetUpdateAssumption DEF Delivered, Updates
  <1>2. SendInv'
    BY <1>1, EnqueueSend, ReturnSend DEF SetUpdateInv, Deliver, DeliveryReturns
  <1>3. /\ UNCHANGED others /\ UNCHANGED <<pool, wire, doubtful, faults>>
    BY DEF Deliver, DeliveryReturns, Enqueue, Return, nodeVars, others
  <1>4. /\ send'[Delivery].stage # "idle" => send'[Delivery].load = Delivered
        /\ \A v \in Workers \ {Delivery} : send'[v] = send[v]
    BY <1>1 DEF Deliver, DeliveryReturns, Enqueue, Return, NoSend, SetUpdateInv, SendInv, SendType
  <1>5. Aggregator # Delivery
    BY DEF Aggregator, Delivery
  <1>6. send'[Aggregator] = send[Aggregator]
    BY <1>1, <1>4, <1>5
  <1>7. UNCHANGED <<task, submitting, inFlight, votes, current, nonce, forgotten, signed>>
    BY <1>3 DEF others, memory, chainVars, gossipVars
  <1>8. faults' \in Nat /\ faults <= faults' /\ nonce' \in Nat /\ nonce <= nonce'
    BY <1>3, <1>7 DEF SetUpdateInv, SendInv, SendType, ChainType
  <1>9. ChainType' /\ MemoryType' /\ NonceInv'
    BY <1>3, <1>8, OthersFrame
  <1>10. LoadInv'
    BY <1>4, <1>5, <1>6, <1>7 DEF LoadInv, SetUpdateInv
  <1>11. BackedInv'
    BY <1>3, <1>7, BackedFrame
  <1>12. OnceInv'
    <2>1. Unsent' => Unsent
      BY <1>6, <1>7 DEF Unsent
    <2>2. \A d \in Digests : Live(d)' \subseteq Live(d)
      BY <1>3 DEF Live
    <2> QED
      BY <2>1, <2>2, <1>3, <1>7, <1>8, OnceFrame
  <1> QED
    BY <1>2, <1>9, <1>10, <1>11, <1>12 DEF SetUpdateInv

-----------------------------------------------------------------------------
(***************************************************************************)
(* The validator's steps.                                                  *)
(***************************************************************************)
(* A step that changes nothing of the sends but the faults, and nothing of *)
(* the aggregator.                                                         *)
LEMMA RegimeFrame ==
  ASSUME SetUpdateInv, UNCHANGED <<lockVars, send, nodeVars, wire, doubtful, refused>>,
         Fault \/ UNCHANGED faults, UNCHANGED <<nonce, memory, forgotten>>, signed \subseteq signed'
  PROVE  SendInv' /\ MemoryType' /\ BackedInv' /\ LoadInv' /\ OnceInv'
  <1>1. SendInv'
    BY FaultSend DEF SetUpdateInv
  <1>2. UNCHANGED <<task, reading, submitting, inFlight, votes, current, forgotten, nonce, pool, wire>>
    BY DEF memory, nodeVars
  <1>3. MemoryType'
    BY <1>2 DEF SetUpdateInv, MemoryType
  <1>4. BackedInv'
    BY <1>2, BackedFrame
  <1>5. LoadInv'
    BY <1>2, LoadFrame
  <1>6. OnceInv'
    <2>1. Unsent' => Unsent
      BY <1>2 DEF Unsent
    <2>2. \A d \in Digests : Live(d)' \subseteq Live(d)
      BY <1>2 DEF Live
    <2>3. nonce' \in Nat /\ nonce <= nonce'
      BY <1>2 DEF SetUpdateInv, ChainType
    <2> QED
      BY <2>1, <2>2, <2>3, <1>2, OnceFrame
  <1> QED
    BY <1>1, <1>3, <1>4, <1>5, <1>6

(* The arithmetic of the nonces' budget, for an election: the flags may    *)
(* rise by one, and so does the budget.                                    *)
LEMMA ElectPays ==
  ASSUME NEW e \in Nat, NEW f \in Nat, NEW x \in Nat, NEW b \in {0, 1}, NEW c \in {0, 1},
         x + b <= e + f
  PROVE  x + c <= (e + 1) + f
  OBVIOUS

(* A new set is elected: the attestors in force sign it. *)
LEMMA ElectStep ==
  ASSUME SetUpdateInv, Elect
  PROVE  SetUpdateInv'
  <1> DEFINE new == Asked(regime, nonce, elections')
  <1>1. /\ elections' = elections + 1 /\ elections < Len(Elections) /\ signed' = signed \cup new
        /\ UNCHANGED <<lockVars, send, nodeVars, wire, doubtful, refused, faults, chainVars,
                       toDeliver, memory, forgotten>>
    BY DEF Elect, sendVars
  <1>2. SendInv' /\ MemoryType' /\ BackedInv' /\ LoadInv' /\ OnceInv'
    BY <1>1, RegimeFrame DEF chainVars
  <1>3. /\ nonce \in 0 .. MaxUpdates /\ elections \in Nat /\ faults \in Nat
        /\ regime \in Rules
    BY NonceBound DEF SetUpdateInv, SendInv, SendType, ChainType
  <1>4. elections' \in DOMAIN Elections
    BY <1>1, <1>3, DigestFacts DEF SetUpdateInv, ChainType
  <1>5. /\ new \subseteq Attestors \X Digests
        /\ \A s \in new : s[2][1] = Elections[elections'] /\ s[2][2] = nonce
    BY <1>3, <1>4, AskedProperty
  <1> HIDE DEF new
  <1>6. ChainType'
    BY <1>1, <1>4, <1>5 DEF SetUpdateInv, ChainType, chainVars
  <1>7. NonceInv'
    <2>1. nonce' = nonce /\ regime' = regime /\ faults' = faults /\ nonce \in Nat
      BY <1>1, <1>3 DEF chainVars
    <2>2. \A b : Flag(b) \in {0, 1}
      BY DEF Flag
    <2>3. nonce + Flag(regime.attestors # Elected) <= elections + faults
      BY DEF SetUpdateInv, NonceInv
    <2>4. nonce + Flag((regime.attestors # Elected)') <= (elections + 1) + faults
      BY <2>1, <2>2, <2>3, <1>3, ElectPays
    <2>5. nonce + 1 <= (elections + 1) + faults
      <3>1. 1 \in {0, 1}
        OBVIOUS
      <3> QED
        BY <3>1, <2>1, <2>2, <2>3, <1>3, ElectPays
    <2>6. ASSUME NEW s \in signed
          PROVE  s[2][2] + 1 + Flag((s[2][1] # Elected)') <= (elections + 1) + faults
      <3>1. s[2][2] + 1 + Flag(s[2][1] # Elected) <= elections + faults
        BY DEF SetUpdateInv, NonceInv
      <3>2. s[2][2] + 1 \in Nat
        BY DigestFacts DEF SetUpdateInv, ChainType
      <3> QED
        BY <3>1, <3>2, <2>2, <1>3, ElectPays
    <2>7. ASSUME NEW s \in new
          PROVE  s[2][2] + 1 + Flag((s[2][1] # Elected)') <= (elections + 1) + faults
      <3>1. s[2][2] = nonce /\ ~(s[2][1] # Elected)'
        BY <1>5 DEF Elected
      <3>2. s[2][2] + 1 + Flag((s[2][1] # Elected)') = nonce + 1
        BY <3>1, <2>1 DEF Flag
      <3> QED
        BY <3>2, <2>5, Zenon
    <2>8. nonce' + Flag((regime.attestors # Elected)') <= elections' + faults'
      BY <2>1, <2>4, <1>1, Zenon
    <2>9. \A s \in signed' : s[2][2] + 1 + Flag((s[2][1] # Elected)') <= elections' + faults'
      BY <2>1, <2>6, <2>7, <1>1, Zenon
    <2> QED
      BY <2>8, <2>9, Zenon DEF NonceInv
  <1> QED
    BY <1>2, <1>6, <1>7 DEF SetUpdateInv

(* The same for a fault. *)
LEMMA FaultPays ==
  ASSUME NEW e \in Nat, NEW f \in Nat, NEW x \in Nat, NEW b \in {0, 1}, NEW c \in {0, 1},
         x + b <= e + f
  PROVE  x + c <= e + (f + 1)
  OBVIOUS

(* An administrator sets another regime: its attestors sign what is        *)
(* elected.                                                                *)
LEMMA AdministerStep ==
  ASSUME SetUpdateInv, NEW r \in Regimes, Administer(r)
  PROVE  SetUpdateInv'
  <1> DEFINE new == Asked(r, nonce, elections)
  <1>1. /\ Fault /\ regime' = r /\ signed' = signed \cup new
        /\ UNCHANGED <<lockVars, send, nodeVars, wire, doubtful, refused, nonce, elections,
                       toDeliver, memory, forgotten>>
    BY DEF Administer
  <1>2. SendInv' /\ MemoryType' /\ BackedInv' /\ LoadInv' /\ OnceInv'
    BY <1>1, RegimeFrame
  <1>3. /\ nonce \in 0 .. MaxUpdates /\ elections \in Nat /\ faults \in Nat
        /\ elections \in DOMAIN Elections
    BY NonceBound DEF SetUpdateInv, SendInv, SendType, ChainType
  <1>4. r \in Rules /\ r.threshold > 0
    BY SetUpdateAssumption DEF Rules
  <1>5. /\ new \subseteq Attestors \X Digests
        /\ \A s \in new : s[2][1] = Elected /\ s[2][2] = nonce
    BY <1>3, <1>4, AskedProperty DEF Elected
  <1> HIDE DEF new
  <1>6. ChainType'
    BY <1>1, <1>4, <1>5 DEF SetUpdateInv, ChainType
  <1>7. NonceInv'
    <2>1. nonce' = nonce /\ elections' = elections /\ faults' = faults + 1 /\ nonce \in Nat
      BY <1>1, <1>3 DEF Fault
    <2>2. \A b : Flag(b) \in {0, 1}
      BY DEF Flag
    <2>3. Elected' = Elected
      BY <2>1 DEF Elected
    <2>4. nonce + Flag(regime.attestors # Elected) <= elections + faults
      BY DEF SetUpdateInv, NonceInv
    <2>5. nonce + Flag(regime'.attestors # Elected) <= elections + (faults + 1)
      BY <2>1, <2>2, <2>4, <1>3, FaultPays
    <2>6. nonce + 1 <= elections + (faults + 1)
      <3>1. 1 \in {0, 1}
        OBVIOUS
      <3> QED
        BY <3>1, <2>1, <2>2, <2>4, <1>3, FaultPays
    <2>7. ASSUME NEW s \in signed
          PROVE  s[2][2] + 1 + Flag(s[2][1] # Elected) <= elections + (faults + 1)
      <3>1. s[2][2] + 1 + Flag(s[2][1] # Elected) <= elections + faults
        BY DEF SetUpdateInv, NonceInv
      <3>2. s[2][2] + 1 \in Nat
        BY DigestFacts DEF SetUpdateInv, ChainType
      <3> QED
        BY <3>1, <3>2, <2>2, <1>3, FaultPays
    <2>8. ASSUME NEW s \in new
          PROVE  s[2][2] + 1 + Flag(s[2][1] # Elected) <= elections + (faults + 1)
      <3>1. s[2][2] + 1 + Flag(s[2][1] # Elected) = nonce + 1
        BY <1>5, <2>1 DEF Flag
      <3> QED
        BY <3>1, <2>6, Zenon
    <2>9. nonce' + Flag(regime'.attestors # Elected') <= elections' + faults'
      BY <2>1, <2>3, <2>5, Zenon
    <2>10. \A s \in signed' : s[2][2] + 1 + Flag(s[2][1] # Elected') <= elections' + faults'
      BY <2>1, <2>3, <2>7, <2>8, <1>1, Zenon
    <2> QED
      BY <2>9, <2>10, Zenon DEF NonceInv
  <1> QED
    BY <1>2, <1>6, <1>7 DEF SetUpdateInv

(* An update that the validator takes: the nonce and the set it leaves are *)
(* paid for, because an attestor has signed it.                            *)
LEMMA UpdateMined ==
  ASSUME SetUpdateInv, NEW tx \in pool, tx.load # Delivered, Valid(tx.load),
         nonce' = nonce + 1,
         regime' = [attestors |-> tx.load.digest[1],
                    threshold |-> Min({regime.threshold, Cardinality(tx.load.digest[1])})],
         signed' = signed \cup Asked(regime', nonce', elections),
         UNCHANGED <<elections, faults>>, toDeliver' \in 0 .. MaxDeliveries
  PROVE  ChainType' /\ NonceInv' /\ signed \subseteq signed'
  <1> DEFINE d == tx.load.digest
             new == Asked(regime', nonce', elections)
  <1>1. PICK a \in tx.load.signers : <<a, d>> \in signed
    <2>1. Backed(tx.load)
      BY DEF SetUpdateInv, BackedInv
    <2>2. tx.load.signers # {}
      <3>1. SUFFICES ASSUME tx.load.signers = {} PROVE FALSE
        OBVIOUS
      <3>2. Cardinality(tx.load.signers) = 0
        BY <3>1, FS_EmptySet
      <3>3. Cardinality(tx.load.signers) >= regime.threshold /\ regime.threshold \in Nat
            /\ regime.threshold > 0
        BY DEF Valid, SetUpdateInv, ChainType, Rules
      <3> QED
        BY <3>2, <3>3
    <2> QED
      BY <2>1, <2>2 DEF Backed
  <1>2. d \in Digests /\ d[2] = nonce
    BY <1>1 DEF SetUpdateInv, ChainType, Valid
  <1>3. /\ d[1] \in SUBSET Attestors /\ IsFiniteSet(d[1]) /\ d[1] # {}
    BY <1>2, DigestFacts
  <1>4. /\ nonce \in Nat /\ elections \in Nat /\ faults \in Nat
        /\ elections \in DOMAIN Elections /\ elections + faults <= MaxUpdates /\ MaxUpdates \in Nat
    BY NonceBound, DigestFacts DEF SetUpdateInv, SendInv, SendType, ChainType
  <1>5. regime' \in Rules /\ regime'.threshold > 0 /\ regime'.attestors = d[1]
    <2>1. Cardinality(d[1]) \in Nat /\ Cardinality(d[1]) # 0
      BY <1>3, FS_CardinalityType, FS_EmptySet
    <2>2. regime.threshold \in Nat /\ regime.threshold > 0
      BY DEF SetUpdateInv, ChainType, Rules
    <2> DEFINE c == Cardinality(d[1])
               m == Min({regime.threshold, c})
    <2>3. m = IF regime.threshold <= c THEN regime.threshold ELSE c
      <3> HIDE DEF c
      <3>1. regime.threshold \in Int /\ c \in Int
        BY <2>1, <2>2 DEF c
      <3> QED
        BY <3>1, MinOfTwo
    <2>4. m \in Nat /\ m > 0
      <3> HIDE DEF c, m
      <3>1. c \in Nat /\ c # 0
        BY <2>1 DEF c
      <3> QED
        BY <3>1, <2>2, <2>3
    <2>5. regime' = [attestors |-> d[1], threshold |-> m]
      OBVIOUS
    <2> HIDE DEF m, d
    <2> QED
      BY <2>4, <2>5, <1>3 DEF Rules
  <1>6. \A b : Flag(b) \in {0, 1}
    BY DEF Flag
  <1>7. nonce + 1 + Flag(d[1] # Elected) <= elections + faults
    <2>1. <<a, d>>[2] = d
      OBVIOUS
    <2>2. d[2] + 1 + Flag(d[1] # Elected) <= elections + faults
      BY <1>1, <2>1, Zenon DEF SetUpdateInv, NonceInv
    <2> QED
      BY <2>2, <1>2, Zenon
  <1>8. nonce' \in 0 .. MaxUpdates
    <2> DEFINE b == Flag(d[1] # Elected)
    <2>1. b \in {0, 1}
      BY <1>6
    <2> HIDE DEF b
    <2>2. nonce + 1 + b <= elections + faults
      BY <1>7 DEF b
    <2> QED
      BY <2>1, <2>2, <1>4
  <1>9. /\ new \subseteq Attestors \X Digests
        /\ \A s \in new : /\ s[2][1] = Elected /\ s[2][2] = nonce' /\ d[1] # Elected
    BY <1>4, <1>5, <1>8, AskedProperty DEF Elected
  <1> HIDE DEF new, d
  <1>10. ChainType'
    <2>1. signed' = signed \cup new /\ nonce' \in Nat
      BY <1>8 DEF new
    <2> QED
      BY <2>1, <1>4, <1>5, <1>9 DEF SetUpdateInv, ChainType
  <1>11. NonceInv'
    <2>1. elections' = elections /\ faults' = faults /\ Elected' = Elected /\ signed' = signed \cup new
      BY DEF Elected, new
    <2>2. nonce' + Flag(regime'.attestors # Elected') <= elections' + faults'
      <3>1. nonce' = nonce + 1
        OBVIOUS
      <3> QED
        BY <3>1, <2>1, <1>5, <1>7, Zenon
    <2>3. ASSUME NEW s \in new PROVE s[2][2] + 1 + Flag(s[2][1] # Elected) <= elections + faults
      <3>1. s[2][2] = nonce + 1 /\ s[2][1] = Elected /\ d[1] # Elected
        BY <2>3, <1>9
      <3>2. Flag(s[2][1] # Elected) = 0 /\ Flag(d[1] # Elected) = 1
        BY <3>1 DEF Flag
      <3>3. nonce + 1 + 1 <= elections + faults
        BY <3>2, <1>7, Zenon
      <3>4. nonce + 1 + 1 + 0 = nonce + 1 + 1
        BY <1>4
      <3> QED
        BY <3>1, <3>2, <3>3, <3>4, Zenon
    <2>4. \A s \in signed : s[2][2] + 1 + Flag(s[2][1] # Elected) <= elections + faults
      BY DEF SetUpdateInv, NonceInv
    <2>5. \A s \in signed' : s[2][2] + 1 + Flag(s[2][1] # Elected') <= elections' + faults'
      BY <2>1, <2>3, <2>4, Zenon
    <2> QED
      BY <2>2, <2>5, Zenon DEF NonceInv
  <1> QED
    BY <1>10, <1>11

(* A block: the sender's next transaction is mined, and the validator      *)
(* takes it, or it reverts.                                                *)
LEMMA MineBlockStep ==
  ASSUME SetUpdateInv, MineBlock
  PROVE  SetUpdateInv'
  <1>1. PICK tx \in pool :
          /\ Mine(tx)
          /\ IF tx.load # Delivered /\ Valid(tx.load)
             THEN /\ nonce' = nonce + 1
                  /\ regime' = [attestors |-> tx.load.digest[1],
                                threshold |-> Min({regime.threshold, Cardinality(tx.load.digest[1])})]
                  /\ signed' = signed \cup Asked(regime', nonce', elections)
             ELSE UNCHANGED <<chainVars, signed>>
          /\ toDeliver' = IF tx.load = Delivered THEN Max({0, toDeliver - 1}) ELSE toDeliver
          /\ UNCHANGED <<elections, memory, forgotten>>
    BY DEF MineBlock
  <1>2. /\ (pool \cup wire)' \subseteq pool \cup wire /\ UNCHANGED <<send, doubtful, faults>>
    BY <1>1 DEF Mine
  <1>3. SendInv'
    BY <1>1, MineSend DEF SetUpdateInv
  <1>4. toDeliver' \in 0 .. MaxDeliveries
    <2>1. toDeliver \in 0 .. MaxDeliveries
      BY DEF SetUpdateInv, ChainType
    <2>2. Max({0, toDeliver - 1}) = IF 0 >= toDeliver - 1 THEN 0 ELSE toDeliver - 1
      BY <2>1, MaxOfTwo
    <2>3. Max({0, toDeliver - 1}) \in 0 .. MaxDeliveries
      <3> DEFINE m == Max({0, toDeliver - 1})
      <3>1. m = IF 0 >= toDeliver - 1 THEN 0 ELSE toDeliver - 1
        BY <2>2
      <3> HIDE DEF m
      <3>2. MaxDeliveries \in Nat
        BY SetUpdateAssumption
      <3>3. m \in 0 .. MaxDeliveries
        BY <3>1, <3>2, <2>1
      <3> QED
        BY <3>3 DEF m
    <2> QED
      BY <2>1, <2>3, <1>1
  <1>5. ChainType' /\ NonceInv' /\ signed \subseteq signed' /\ nonce <= nonce' /\ nonce' \in Nat
    <2>1. CASE tx.load # Delivered /\ Valid(tx.load)
      <3>1. ChainType' /\ NonceInv' /\ signed \subseteq signed'
        BY <2>1, <1>1, <1>2, <1>4, UpdateMined
      <3> QED
        BY <3>1, <2>1, <1>1 DEF SetUpdateInv, ChainType
    <2>2. CASE ~(tx.load # Delivered /\ Valid(tx.load))
      <3>1. UNCHANGED <<nonce, regime, signed, elections, faults>>
        BY <2>2, <1>1, <1>2 DEF chainVars
      <3>2. ChainType'
        BY <3>1, <1>4 DEF SetUpdateInv, ChainType
      <3>3. NonceInv'
        BY <3>1 DEF SetUpdateInv, NonceInv, Elected
      <3> QED
        BY <3>1, <3>2, <3>3 DEF SetUpdateInv, ChainType
    <2> QED
      BY <2>1, <2>2
  <1>6. UNCHANGED <<task, reading, submitting, inFlight, votes, current, forgotten>>
    BY <1>1 DEF memory
  <1>7. MemoryType'
    <2>1. current \in Views /\ current.nonce <= nonce => current.nonce <= nonce'
      <3>1. current \in Views => current.nonce \in Nat
        BY DEF Views
      <3>2. nonce \in Nat /\ nonce' \in Nat /\ nonce <= nonce'
        BY <1>5 DEF SetUpdateInv, ChainType
      <3> QED
        BY <3>1, <3>2
    <2> QED
      BY <2>1, <1>6 DEF SetUpdateInv, MemoryType
  <1>8. BackedInv'
    BY <1>2, <1>5, <1>6, BackedFrame
  <1>9. LoadInv'
    BY <1>2, <1>6, LoadFrame
  <1>10. OnceInv'
    <2>1. Unsent' => Unsent
      BY <1>2, <1>6 DEF Unsent
    <2>2. \A d \in Digests : Live(d)' \subseteq Live(d)
      BY <1>2 DEF Live
    <2> QED
      BY <2>1, <2>2, <1>2, <1>5, <1>6, OnceFrame
  <1> QED
    BY <1>3, <1>5, <1>7, <1>8, <1>9, <1>10 DEF SetUpdateInv

-----------------------------------------------------------------------------
(***************************************************************************)
(* The aggregator's steps.                                                 *)
(***************************************************************************)
(* A step of the aggregator that sends nothing. *)
LEMMA MemoryFrame ==
  ASSUME SetUpdateInv, UNCHANGED <<lockVars, send, nodeVars, wire, doubtful, refused>>,
         Fault \/ UNCHANGED faults, UNCHANGED <<chainVars, gossipVars, toDeliver>>
  PROVE  SendInv' /\ ChainType' /\ NonceInv' /\ \A d : Live(d)' = Live(d)
  <1>1. SendInv'
    BY FaultSend DEF SetUpdateInv
  <1>2. /\ faults' \in Nat /\ faults \in Nat /\ faults <= faults' /\ elections \in Nat
        /\ UNCHANGED <<nonce, regime, elections, signed>>
    BY <1>1, NonceBound DEF SetUpdateInv, SendInv, SendType, Fault, chainVars, gossipVars
  <1>3. ChainType'
    BY <1>2 DEF SetUpdateInv, ChainType
  <1>4. NonceInv'
    <2>1. \A x \in Int : x <= elections + faults => x <= elections + faults'
      BY <1>2, Pays, Zenon
    <2>2. nonce + Flag(regime.attestors # Elected) \in Int
      BY DEF SetUpdateInv, ChainType, Flag
    <2>3. \A s \in signed : s[2][2] + 1 + Flag(s[2][1] # Elected) \in Int
      BY DigestFacts DEF SetUpdateInv, ChainType, Flag
    <2>4. /\ nonce + Flag(regime.attestors # Elected) <= elections + faults
          /\ \A s \in signed : s[2][2] + 1 + Flag(s[2][1] # Elected) <= elections + faults
      BY DEF SetUpdateInv, NonceInv
    <2>5. /\ nonce + Flag(regime.attestors # Elected) <= elections + faults'
          /\ \A s \in signed : s[2][2] + 1 + Flag(s[2][1] # Elected) <= elections + faults'
      BY <2>1, <2>2, <2>3, <2>4, Zenon
    <2> QED
      BY <2>5, <1>2 DEF NonceInv, Elected
  <1>5. \A d : Live(d)' = Live(d)
    BY DEF Live, nodeVars
  <1> QED
    BY <1>1, <1>3, <1>4, <1>5

(* The calls of a refresh: only the part of the view read so far changes,  *)
(* and nothing is being submitted.                                         *)
LEMMA RefreshStep ==
  ASSUME SetUpdateInv, BeginRefresh \/ ReadThreshold \/ RefreshFails
  PROVE  SetUpdateInv'
  <1>1. /\ UNCHANGED <<lockVars, send, nodeVars, wire, doubtful, refused>>
        /\ Fault \/ UNCHANGED faults
        /\ UNCHANGED <<chainVars, gossipVars, toDeliver>>
        /\ UNCHANGED <<current, votes, inFlight, submitting, forgotten>>
    BY DEF BeginRefresh, ReadThreshold, RefreshFails, sendVars
  <1>2. /\ task \in {"idle", "threshold", "nonce"} /\ task' \in {"idle", "threshold", "nonce"}
        /\ reading' \in Rules
    BY SetUpdateAssumption
    DEF BeginRefresh, ReadThreshold, RefreshFails, SetUpdateInv, MemoryType, ChainType, Rules
  <1>3. SendInv' /\ ChainType' /\ NonceInv' /\ \A d : Live(d)' = Live(d)
    BY <1>1, MemoryFrame
  <1>4. nonce' = nonce /\ signed' = signed /\ UNCHANGED <<pool, wire>>
    BY <1>1 DEF chainVars, gossipVars, nodeVars
  <1>5. MemoryType'
    BY <1>1, <1>2, <1>4 DEF SetUpdateInv, MemoryType
  <1>6. BackedInv'
    BY <1>1, <1>4, BackedFrame
  <1>7. LoadInv'
    BY <1>1, <1>2 DEF SetUpdateInv, LoadInv
  <1>8. OnceInv'
    <2>1. ~Unsent'
      BY <1>2 DEF Unsent
    <2>2. nonce' \in Nat /\ nonce <= nonce'
      BY <1>4 DEF SetUpdateInv, ChainType
    <2> QED
      BY <2>1, <2>2, <1>1, <1>3, OnceFrame
  <1> QED
    BY <1>3, <1>5, <1>6, <1>7, <1>8 DEF SetUpdateInv

(* The view is complete.  What was in flight at a nonce that is spent can  *)
(* never be asked for again.                                               *)
LEMMA FinishRefreshStep ==
  ASSUME SetUpdateInv, FinishRefresh
  PROVE  SetUpdateInv'
  <1>1. /\ UNCHANGED <<lockVars, send, nodeVars, wire, doubtful, refused, faults>>
        /\ UNCHANGED <<chainVars, gossipVars, toDeliver>>
        /\ UNCHANGED <<submitting, forgotten>>
        /\ task = "nonce" /\ task' = "idle" /\ reading' = First
    BY DEF FinishRefresh, sendVars
  <1>2. SendInv' /\ ChainType' /\ NonceInv' /\ \A d : Live(d)' = Live(d)
    BY <1>1, MemoryFrame
  <1>3. nonce' = nonce /\ signed' = signed /\ UNCHANGED <<pool, wire>> /\ nonce \in Nat
    BY <1>1 DEF chainVars, gossipVars, nodeVars, SetUpdateInv, ChainType
  <1>4. current' \in Views /\ current' # NoView /\ current'.nonce = nonce
    <2>1. reading \in Rules
      BY DEF SetUpdateInv, MemoryType
    <2>2. current' \in Views /\ current'.nonce = nonce
      BY <2>1, <1>3 DEF FinishRefresh, Rules, Views
    <2> QED
      BY <2>2, SetUpdateAssumption DEF Views
  <1>5. \A d \in DOMAIN votes' \cup inFlight' : /\ d \in Digests /\ d[2] = nonce
                                               /\ (d \in DOMAIN votes' => votes' = votes)
    <2>1. CASE current # NoView /\ current.nonce # nonce
      BY <2>1 DEF FinishRefresh
    <2>2. CASE ~(current # NoView /\ current.nonce # nonce)
      BY <2>2 DEF FinishRefresh, SetUpdateInv, MemoryType
    <2> QED
      BY <2>1, <2>2
  <1>6. MemoryType'
    <2>1. current'.nonce <= nonce'
      BY <1>3, <1>4
    <2>2. First \in Rules
      BY SetUpdateAssumption DEF Rules
    <2>3. submitting' \in Updates /\ forgotten' \subseteq Digests
      BY <1>1 DEF SetUpdateInv, MemoryType
    <2>4. (DOMAIN votes \cup inFlight)'
             \subseteq {d \in Digests : current' # NoView /\ d[2] = current'.nonce}
      BY <1>4, <1>5
    <2> QED
      BY <2>1, <2>2, <2>3, <2>4, <1>1, <1>4 DEF MemoryType
  <1>7. BackedInv'
    <2>1. \A d \in DOMAIN votes' : \A a \in votes'[d] : <<a, d>> \in signed'
      BY <1>3, <1>5 DEF SetUpdateInv, BackedInv
    <2> QED
      BY <2>1, <1>1, <1>3 DEF SetUpdateInv, BackedInv, Backed
  <1>8. LoadInv'
    BY <1>1 DEF SetUpdateInv, LoadInv
  <1>9. OnceInv'
    <2> SUFFICES ASSUME NEW d \in Digests, Clean(d)'
                 PROVE  /\ \A s, t \in Live(d)' : s = t
                        /\ Live(d)' # {} =>
                             \/ d \in inFlight'
                             \/ d[2] < nonce' /\ (current' = NoView \/ d[2] < current'.nonce)
                        /\ Unsent' /\ submitting'.digest = d => Live(d)' = {}
      BY DEF OnceInv
    <2>1. ~Unsent' /\ Clean(d) /\ Live(d)' = Live(d) /\ d[2] \in Nat
      BY <1>1, <1>2, DigestFacts DEF Unsent, Clean
    <2>2. /\ \A s, t \in Live(d) : s = t
          /\ Live(d) # {} => \/ d \in inFlight
                             \/ d[2] < nonce /\ (current = NoView \/ d[2] < current.nonce)
      BY <2>1, Zenon DEF SetUpdateInv, OnceInv
    <2>3. d \in inFlight => d \in inFlight' \/ d[2] < nonce
      <3> HAVE d \in inFlight
      <3>1. current # NoView /\ d[2] = current.nonce /\ current.nonce <= nonce
        BY DEF SetUpdateInv, MemoryType
      <3>2. CASE current.nonce = nonce
        BY <3>1, <3>2 DEF FinishRefresh
      <3>3. CASE current.nonce # nonce
        BY <3>1, <3>3, <2>1, <1>3
      <3> QED
        BY <3>2, <3>3
    <2>4. Live(d)' # {} => d \in inFlight' \/ (d[2] < nonce' /\ d[2] < current'.nonce)
      BY <2>1, <2>2, <2>3, <1>3, <1>4
    <2> QED
      BY <2>1, <2>2, <2>4
  <1> QED
    BY <1>2, <1>6, <1>7, <1>8, <1>9 DEF SetUpdateInv

(* A vote is counted.  The last one that is missing finds no transaction   *)
(* of its digest about.                                                    *)
LEMMA HandleVoteStep ==
  ASSUME SetUpdateInv, NEW a \in Attestors, NEW d \in Digests, HandleVote(a, d)
  PROVE  SetUpdateInv'
  <1> DEFINE S == Slot(d) \cup {a}
  <1>1. /\ UNCHANGED <<lockVars, send, nodeVars, wire, doubtful, refused, faults>>
        /\ UNCHANGED <<chainVars, gossipVars, toDeliver>>
        /\ UNCHANGED <<reading, current, forgotten>> /\ task = "idle"
    BY DEF HandleVote, sendVars
  <1>2. SendInv' /\ ChainType' /\ NonceInv' /\ \A e : Live(e)' = Live(e)
    BY <1>1, MemoryFrame
  <1>3. nonce' = nonce /\ signed' = signed /\ UNCHANGED <<pool, wire>> /\ nonce \in Nat
    BY <1>1 DEF chainVars, gossipVars, nodeVars, SetUpdateInv, ChainType
  <1>4. /\ \A b \in S : <<b, d>> \in signed
        /\ S \subseteq Attestors
    <2>1. \A b \in S : <<b, d>> \in signed
      BY DEF HandleVote, Slot, SetUpdateInv, BackedInv
    <2>2. signed \subseteq Attestors \X Digests
      BY DEF SetUpdateInv, ChainType
    <2> QED
      BY <2>1, <2>2
  <1>5. current # NoView /\ d[2] = current.nonce /\ d \notin inFlight
    BY DEF HandleVote, Verifies
  <1> HIDE DEF S
  <1>6. CASE Cardinality(S) < current.threshold
    <2>1. votes' = With(d, S) /\ UNCHANGED <<task, inFlight, submitting>>
      BY <1>6 DEF HandleVote, S
    <2>2. /\ DOMAIN votes' = DOMAIN votes \cup {d} /\ votes'[d] = S
          /\ \A e \in DOMAIN votes \ {d} : votes'[e] = votes[e]
      BY <2>1 DEF With
    <2>3. MemoryType'
      BY <2>1, <2>2, <1>1, <1>3, <1>5 DEF SetUpdateInv, MemoryType
    <2>4. BackedInv'
      <3>1. \A e \in DOMAIN votes' : \A b \in votes'[e] : <<b, e>> \in signed
        BY <2>2, <1>4 DEF SetUpdateInv, BackedInv
      <3> QED
        BY <3>1, <2>1, <1>3 DEF SetUpdateInv, BackedInv, Backed
    <2>5. LoadInv'
      BY <2>1, <1>1 DEF SetUpdateInv, LoadInv
    <2>6. OnceInv'
      <3>1. Unsent' => Unsent
        BY <2>1, <1>1 DEF Unsent
      <3>2. nonce' \in Nat /\ nonce <= nonce'
        BY <1>3
      <3> QED
        BY <3>1, <3>2, <2>1, <1>1, <1>2, OnceFrame
    <2> QED
      BY <2>3, <2>4, <2>5, <2>6, <1>2 DEF SetUpdateInv
  <1>7. CASE ~(Cardinality(S) < current.threshold)
    <2>1. /\ task' = "simulate" /\ votes' = Without(d) /\ inFlight' = inFlight \cup {d}
          /\ submitting' = [digest |-> d, signers |-> S]
      BY <1>7 DEF HandleVote, S
    <2>2. /\ DOMAIN votes' = DOMAIN votes \ {d}
          /\ \A e \in DOMAIN votes \ {d} : votes'[e] = votes[e]
      BY <2>1 DEF Without
    <2>3. MemoryType'
      <3>1. submitting' \in Updates
        BY <2>1, <1>4, DigestFacts DEF Updates
      <3> QED
        BY <3>1, <2>1, <2>2, <1>1, <1>3, <1>5 DEF SetUpdateInv, MemoryType
    <2>4. BackedInv'
      <3>1. \A e \in DOMAIN votes' : \A b \in votes'[e] : <<b, e>> \in signed
        BY <2>2 DEF SetUpdateInv, BackedInv
      <3>2. Backed(submitting)'
        BY <2>1, <1>3, <1>4 DEF Backed
      <3> QED
        BY <3>1, <3>2, <1>3 DEF SetUpdateInv, BackedInv, Backed
    <2>5. LoadInv'
      BY <2>1, <1>1 DEF SetUpdateInv, LoadInv
    <2>6. OnceInv'
      <3> SUFFICES ASSUME NEW e \in Digests, Clean(e)'
                   PROVE  /\ \A s, t \in Live(e)' : s = t
                          /\ Live(e)' # {} =>
                               \/ e \in inFlight'
                               \/ e[2] < nonce' /\ (current' = NoView \/ e[2] < current'.nonce)
                          /\ Unsent' /\ submitting'.digest = e => Live(e)' = {}
        BY DEF OnceInv
      <3>1. Clean(e) /\ Live(e)' = Live(e) /\ submitting'.digest = d /\ d[2] \in Nat
        BY <2>1, <1>1, <1>2, DigestFacts DEF Clean
      <3>2. /\ \A s, t \in Live(e) : s = t
            /\ Live(e) # {} => \/ e \in inFlight
                               \/ e[2] < nonce /\ (current = NoView \/ e[2] < current.nonce)
        BY <3>1, Zenon DEF SetUpdateInv, OnceInv
      <3>3. Live(e)' # {} => \/ e \in inFlight'
                             \/ e[2] < nonce' /\ (current' = NoView \/ e[2] < current'.nonce)
        BY <3>1, <3>2, <2>1, <1>1, <1>3
      <3>4. e = d => Live(e) = {}
        BY <3>1, <3>2, <1>5
      <3> QED
        BY <3>1, <3>2, <3>3, <3>4
    <2> QED
      BY <2>3, <2>4, <2>5, <2>6, <1>2 DEF SetUpdateInv
  <1> QED
    BY <1>6, <1>7

(* The simulation succeeds, and the aggregator joins the line. *)
LEMMA SimulateStep ==
  ASSUME SetUpdateInv, Simulate
  PROVE  SetUpdateInv'
  <1>1. /\ task = "simulate" /\ task' = "submit" /\ Enqueue(Aggregator, submitting)
        /\ UNCHANGED <<chainVars, gossipVars, toDeliver>>
        /\ UNCHANGED <<reading, current, votes, inFlight, submitting, forgotten>>
    BY DEF Simulate
  <1>2. submitting \in Updates /\ Aggregator \in Workers
    BY SetUpdateAssumption DEF SetUpdateInv, MemoryType
  <1>3. SendInv'
    BY <1>1, <1>2, EnqueueSend DEF SetUpdateInv
  <1>4. UNCHANGED <<nodeVars, wire, faults, doubtful, pool>>
    BY <1>1 DEF Enqueue, nodeVars
  <1>5. /\ send'[Aggregator].stage = "queued" /\ send'[Aggregator].load = submitting
        /\ \A v \in Workers \ {Aggregator} : send'[v] = send[v]
    BY <1>1, <1>2 DEF Enqueue, SetUpdateInv, SendInv, SendType
  <1>6. UNCHANGED <<nonce, regime, elections, signed, toDeliver>>
    BY <1>1 DEF chainVars, gossipVars
  <1>7. ChainType' /\ MemoryType' /\ NonceInv'
    BY <1>1, <1>4, <1>6 DEF SetUpdateInv, ChainType, MemoryType, NonceInv, Elected
  <1>8. BackedInv'
    BY <1>1, <1>4, <1>6, BackedFrame
  <1>9. LoadInv'
    BY <1>1, <1>5 DEF SetUpdateInv, LoadInv
  <1>10. OnceInv'
    <2>1. Unsent
      BY <1>1 DEF Unsent
    <2>2. nonce' \in Nat /\ nonce <= nonce'
      BY <1>6 DEF SetUpdateInv, ChainType
    <2>3. \A d \in Digests : Live(d)' \subseteq Live(d)
      BY <1>4 DEF Live
    <2> QED
      BY <2>1, <2>2, <2>3, <1>1, <1>4, OnceFrame
  <1> QED
    BY <1>3, <1>7, <1>8, <1>9, <1>10 DEF SetUpdateInv

(* No update is being submitted. *)
LEMMA NoUpdateFacts ==
  NoUpdate \in Updates /\ NoUpdate.signers = {}
  BY DEF NoUpdate, Updates

(* A failed submission leaves the digests in flight; nothing of it has     *)
(* reached the node, unless it is doubtful.                                *)
LEMMA FailedOnce ==
  ASSUME SetUpdateInv, Failed, Unsent, UNCHANGED <<nonce, forgotten, pool, wire, doubtful>>
  PROVE  OnceInv' /\ MemoryType'
  <1>1. /\ task' = "idle" /\ submitting' = NoUpdate /\ inFlight' = inFlight \ {submitting.digest}
        /\ UNCHANGED <<reading, current, votes>>
    BY DEF Failed
  <1>2. MemoryType'
    BY <1>1, NoUpdateFacts DEF SetUpdateInv, MemoryType
  <1>3. OnceInv'
    <2> SUFFICES ASSUME NEW d \in Digests, Clean(d)'
                 PROVE  /\ \A s, t \in Live(d)' : s = t
                        /\ Live(d)' # {} =>
                             \/ d \in inFlight'
                             \/ d[2] < nonce' /\ (current' = NoView \/ d[2] < current'.nonce)
                        /\ Unsent' /\ submitting'.digest = d => Live(d)' = {}
      BY DEF OnceInv
    <2>1. ~Unsent' /\ Clean(d) /\ Live(d)' = Live(d)
      BY <1>1 DEF Unsent, Clean, Live
    <2>2. /\ \A s, t \in Live(d) : s = t
          /\ Live(d) # {} => \/ d \in inFlight
                             \/ d[2] < nonce /\ (current = NoView \/ d[2] < current.nonce)
          /\ submitting.digest = d => Live(d) = {}
      BY <2>1, Zenon DEF SetUpdateInv, OnceInv
    <2> QED
      BY <2>1, <2>2, <1>1
  <1> QED
    BY <1>2, <1>3

(* The simulation fails. *)
LEMMA SimulateFailsStep ==
  ASSUME SetUpdateInv, SimulateFails
  PROVE  SetUpdateInv'
  <1>1. /\ UNCHANGED <<lockVars, send, nodeVars, wire, doubtful, refused>>
        /\ Fault \/ UNCHANGED faults
        /\ UNCHANGED <<chainVars, gossipVars, toDeliver, forgotten>>
        /\ task = "simulate" /\ Failed
    BY DEF SimulateFails
  <1>2. SendInv' /\ ChainType' /\ NonceInv'
    BY <1>1, MemoryFrame
  <1>3. UNCHANGED <<nonce, signed, pool, wire>>
    BY <1>1 DEF chainVars, gossipVars, nodeVars
  <1>4. OnceInv' /\ MemoryType'
    BY <1>1, <1>3, FailedOnce DEF Unsent
  <1>5. BackedInv'
    BY <1>1, <1>3, NoUpdateFacts DEF SetUpdateInv, BackedInv, Backed, Failed
  <1>6. LoadInv'
    BY <1>1 DEF SetUpdateInv, LoadInv, Failed
  <1> QED
    BY <1>2, <1>4, <1>5, <1>6 DEF SetUpdateInv

(* The submission ends: a failed one is no longer in flight. *)
LEMMA SubmitReturnsStep ==
  ASSUME SetUpdateInv, SubmitReturns
  PROVE  SetUpdateInv'
  <1>1. /\ task = "submit" /\ Return(Aggregator) /\ task' = "idle" /\ submitting' = NoUpdate
        /\ UNCHANGED <<chainVars, gossipVars, toDeliver, forgotten>>
        /\ UNCHANGED <<reading, current, votes>>
        /\ send[Aggregator].stage = "ok" => UNCHANGED inFlight
        /\ send[Aggregator].stage # "ok" => Failed
    BY DEF SubmitReturns, Failed
  <1>2. Aggregator \in Workers
    BY SetUpdateAssumption
  <1>3. SendInv'
    BY <1>1, <1>2, ReturnSend DEF SetUpdateInv
  <1>4. UNCHANGED <<nodeVars, wire, faults, doubtful, pool>>
    BY <1>1 DEF Return, nodeVars
  <1>5. /\ send'[Aggregator].stage = "idle"
        /\ \A v \in Workers \ {Aggregator} : send'[v] = send[v]
    BY <1>1, <1>2 DEF Return, NoSend, SetUpdateInv, SendInv, SendType
  <1>6. UNCHANGED <<nonce, regime, elections, signed, toDeliver>>
    BY <1>1 DEF chainVars, gossipVars
  <1>7. ChainType' /\ NonceInv'
    BY <1>4, <1>6 DEF SetUpdateInv, ChainType, NonceInv, Elected
  <1>8. BackedInv'
    BY <1>1, <1>4, <1>6, NoUpdateFacts DEF SetUpdateInv, BackedInv, Backed
  <1>9. LoadInv'
    BY <1>1, <1>5 DEF SetUpdateInv, LoadInv
  <1>10. OnceInv' /\ MemoryType'
    <2>1. CASE send[Aggregator].stage = "ok"
      <3>1. MemoryType'
        BY <2>1, <1>1, <1>6, NoUpdateFacts DEF SetUpdateInv, MemoryType
      <3>2. ~Unsent'
        BY <1>1 DEF Unsent
      <3>3. \A d \in Digests : Clean(d)' => Clean(d) /\ Live(d)' = Live(d)
        BY <1>1, <1>4 DEF Clean, Live
      <3>4. UNCHANGED <<inFlight, current, nonce>>
        BY <2>1, <1>1, <1>6
      <3>5. ASSUME NEW d \in Digests, Clean(d)'
            PROVE  /\ \A s, t \in Live(d)' : s = t
                   /\ Live(d)' # {} =>
                        \/ d \in inFlight'
                        \/ d[2] < nonce' /\ (current' = NoView \/ d[2] < current'.nonce)
        <4>1. Clean(d) /\ Live(d)' = Live(d)
          BY <3>3, <3>5
        <4>2. /\ \A s, t \in Live(d) : s = t
              /\ Live(d) # {} => \/ d \in inFlight
                                 \/ d[2] < nonce /\ (current = NoView \/ d[2] < current.nonce)
          BY <4>1, Zenon DEF SetUpdateInv, OnceInv
        <4> QED
          BY <4>1, <4>2, <3>4
      <3>6. OnceInv'
        BY <3>2, <3>5, Zenon DEF OnceInv
      <3> QED
        BY <3>1, <3>6
    <2>2. CASE send[Aggregator].stage # "ok"
      BY <2>2, <1>1, <1>4, <1>6, FailedOnce DEF Unsent
    <2> QED
      BY <2>1, <2>2
  <1> QED
    BY <1>3, <1>7, <1>8, <1>9, <1>10 DEF SetUpdateInv

(* The process ends and starts again: what was in flight is forgotten, and *)
(* what was on its way is doubtful.                                        *)
LEMMA RestartStep ==
  ASSUME SetUpdateInv, NEW left, Restart(left)
  PROVE  SetUpdateInv'
  <1>1. /\ Abort(left) /\ task' = "idle" /\ reading' = First /\ current' = NoView
        /\ votes' = <<>> /\ inFlight' = {} /\ submitting' = NoUpdate
        /\ forgotten' = forgotten \cup inFlight
        /\ UNCHANGED <<chainVars, gossipVars, toDeliver>>
    BY DEF Restart
  <1>2. SendInv'
    BY <1>1, AbortSend DEF SetUpdateInv
  <1>3. /\ pool' = pool /\ wire' = wire \cup left /\ Fault
        /\ doubtful' = doubtful \cup {tx.load : tx \in left}
        /\ \A w \in Workers : send'[w].stage = "idle"
    BY <1>1 DEF Abort, nodeVars, NoSend
  <1>4. ASSUME NEW tx \in left PROVE tx.load = Delivered \/ Backed(tx.load)
    <2>1. PICK w \in Workers : send[w].stage = "sending" /\ tx = Tx(w)
      BY <1>1 DEF Abort
    <2> QED
      BY <2>1, LoadOf DEF Tx
  <1>5. UNCHANGED <<nonce, regime, elections, signed, toDeliver>>
    BY <1>1 DEF chainVars, gossipVars
  <1>6. ChainType'
    BY <1>5 DEF SetUpdateInv, ChainType
  <1>7. NonceInv'
    <2>1. /\ faults' \in Nat /\ faults \in Nat /\ faults <= faults' /\ elections \in Nat
      BY <1>2, <1>3, NonceBound DEF SetUpdateInv, SendInv, SendType, Fault
    <2>2. \A x \in Int : x <= elections + faults => x <= elections + faults'
      BY <2>1, Pays, Zenon
    <2>3. nonce + Flag(regime.attestors # Elected) \in Int
      BY DEF SetUpdateInv, ChainType, Flag
    <2>4. \A s \in signed : s[2][2] + 1 + Flag(s[2][1] # Elected) \in Int
      BY DigestFacts DEF SetUpdateInv, ChainType, Flag
    <2>5. /\ nonce + Flag(regime.attestors # Elected) <= elections + faults
          /\ \A s \in signed : s[2][2] + 1 + Flag(s[2][1] # Elected) <= elections + faults
      BY DEF SetUpdateInv, NonceInv
    <2>6. /\ nonce + Flag(regime.attestors # Elected) <= elections + faults'
          /\ \A s \in signed : s[2][2] + 1 + Flag(s[2][1] # Elected) <= elections + faults'
      BY <2>2, <2>3, <2>4, <2>5, Zenon
    <2> QED
      BY <2>6, <1>5 DEF NonceInv, Elected
  <1>8. MemoryType'
    <2>1. First \in Rules
      BY SetUpdateAssumption DEF Rules
    <2>2. DOMAIN votes' = {}
      BY <1>1
    <2>3. forgotten' \subseteq Digests
      BY <1>1 DEF SetUpdateInv, MemoryType
    <2> QED
      BY <2>1, <2>2, <2>3, <1>1, NoUpdateFacts DEF MemoryType
  <1>9. BackedInv'
    <2>1. \A u : Backed(u)' <=> Backed(u)
      BY <1>5 DEF Backed
    <2>2. \A tx \in (pool \cup wire)' : tx.load = Delivered \/ Backed(tx.load)'
      BY <2>1, <1>3, <1>4 DEF SetUpdateInv, BackedInv
    <2>3. DOMAIN votes' = {}
      BY <1>1
    <2>4. Backed(submitting)'
      BY <1>1, NoUpdateFacts DEF Backed
    <2> QED
      BY <2>2, <2>3, <2>4 DEF BackedInv
  <1>10. LoadInv'
    BY <1>1, <1>3, SetUpdateAssumption DEF LoadInv
  <1>11. OnceInv'
    <2> SUFFICES ASSUME NEW d \in Digests, Clean(d)'
                 PROVE  /\ \A s, t \in Live(d)' : s = t
                        /\ Live(d)' # {} =>
                             \/ d \in inFlight'
                             \/ d[2] < nonce' /\ (current' = NoView \/ d[2] < current'.nonce)
                        /\ Unsent' /\ submitting'.digest = d => Live(d)' = {}
      BY DEF OnceInv
    <2>1. ~Unsent' /\ Clean(d) /\ d \notin inFlight
      BY <1>1, <1>3 DEF Unsent, Clean
    <2>2. Live(d)' \subseteq Live(d)
      BY <1>3 DEF Live, Clean
    <2>3. /\ \A s, t \in Live(d) : s = t
          /\ Live(d) # {} => d[2] < nonce
      BY <2>1, Zenon DEF SetUpdateInv, OnceInv
    <2> QED
      BY <2>1, <2>2, <2>3, <1>1, <1>5
  <1> QED
    BY <1>2, <1>6, <1>7, <1>8, <1>9, <1>10, <1>11 DEF SetUpdateInv

(* At the start the validator has its first regime, the attestors have     *)
(* signed the first elected set, and the aggregator knows nothing.         *)
LEMMA InitStep ==
  ASSUME Init
  PROVE  SetUpdateInv
  <1>1. /\ SendInit /\ regime = First /\ nonce = 0 /\ elections = 1 /\ signed = Asked(First, 0, 1)
        /\ toDeliver = MaxDeliveries /\ NothingKnown /\ forgotten = {}
    BY DEF Init
  <1>2. SendInv
    BY <1>1, InitSend
  <1>3. /\ First \in Rules /\ First.threshold > 0 /\ 1 \in DOMAIN Elections
        /\ MaxDeliveries \in Nat
    BY DigestFacts, SetUpdateAssumption DEF Rules
  <1>4. /\ Asked(First, 0, 1) \subseteq Attestors \X Digests
        /\ \A s \in Asked(First, 0, 1) : s[2][1] = Elections[1] /\ s[2][2] = 0
    BY <1>3, DigestFacts, AskedProperty
  <1>5. ChainType
    BY <1>1, <1>3, <1>4 DEF ChainType
  <1>6. NonceInv
    <2>1. faults = 0 /\ Elected = Elections[1]
      BY <1>1 DEF SendInit, Elected
    <2>2. \A b : Flag(b) \in {0, 1}
      BY DEF Flag
    <2>3. nonce + Flag(regime.attestors # Elected) <= elections + faults
      BY <2>1, <2>2, <1>1
    <2>4. \A s \in signed : s[2][2] + 1 + Flag(s[2][1] # Elected) <= elections + faults
      BY <2>1, <1>1, <1>4 DEF Flag
    <2> QED
      BY <2>3, <2>4 DEF NonceInv
  <1>7. MemoryType
    BY <1>1, <1>3, NoUpdateFacts DEF MemoryType, NothingKnown
  <1>8. BackedInv
    BY <1>1, NoUpdateFacts DEF BackedInv, Backed, NothingKnown, SendInit
  <1>9. LoadInv
    BY <1>1, SetUpdateAssumption DEF LoadInv, NothingKnown, SendInit, NoSend
  <1>10. OnceInv
    BY <1>1 DEF OnceInv, Live, SendInit
  <1> QED
    BY <1>2, <1>5, <1>6, <1>7, <1>8, <1>9, <1>10 DEF SetUpdateInv

-----------------------------------------------------------------------------
(* Every step keeps the invariant. *)
LEMMA NextStep ==
  ASSUME SetUpdateInv, [Next]_vars
  PROVE  SetUpdateInv'
  <1>1. CASE Elect
    BY <1>1, ElectStep
  <1>2. CASE MineBlock
    BY <1>2, MineBlockStep
  <1>3. CASE Deliver \/ DeliveryReturns
    BY <1>3, DeliveryStep
  <1>4. CASE BeginRefresh \/ ReadThreshold \/ RefreshFails
    BY <1>4, RefreshStep
  <1>5. CASE FinishRefresh
    BY <1>5, FinishRefreshStep
  <1>6. CASE Simulate
    BY <1>6, SimulateStep
  <1>7. CASE SimulateFails
    BY <1>7, SimulateFailsStep
  <1>8. CASE SubmitReturns
    BY <1>8, SubmitReturnsStep
  <1>9. CASE \E r \in Regimes : Administer(r)
    BY <1>9, AdministerStep
  <1>10. CASE \E a \in Attestors, d \in Digests : HandleVote(a, d)
    BY <1>10, HandleVoteStep
  <1>11. CASE \E w \in Workers : Sending(w)
    <2>1. PICK w \in Workers : SendStep(w) /\ UNCHANGED others
      BY <1>11 DEF Sending, others
    <2>2. CASE Acquire(w) \/ QueueTimeout(w)
      BY <2>1, <2>2, QuietSending
    <2>3. CASE \E n \in 0 .. mined + Cardinality(pool \cup wire) : ReadNonce(w, n)
      BY <2>1, <2>3, QuietSending
    <2>4. CASE Answer(w)
      BY <2>1, <2>4, AnswerSending
    <2>5. CASE \E left \in BOOLEAN : NoAnswer(w, left)
      BY <2>1, <2>5, NoAnswerSending
    <2> QED
      BY <2>1, <2>2, <2>3, <2>4, <2>5 DEF SendStep
  <1>12. CASE NodeStep /\ UNCHANGED <<chainVars, gossipVars, toDeliver, memory, forgotten>>
    BY <1>12, NodeSending DEF others
  <1>13. CASE \E left \in SUBSET {Tx(w) : w \in Workers} : Restart(left)
    BY <1>13, RestartStep
  <1>14. CASE UNCHANGED vars
    <2>1. /\ UNCHANGED <<lockVars, send, nodeVars, wire, doubtful, refused, faults>>
          /\ UNCHANGED others
      BY <1>14 DEF vars, sendVars, others
    <2>2. SendInv'
      BY <2>1, FaultSend DEF SetUpdateInv
    <2>3. \A d \in Digests : Live(d)' = Live(d)
      BY <2>1 DEF Live, nodeVars
    <2> QED
      BY <2>1, <2>2, <2>3, SendKeeps DEF nodeVars
  <1> QED
    BY <1>1, <1>2, <1>3, <1>4, <1>5, <1>6, <1>7, <1>8, <1>9, <1>10, <1>11, <1>12, <1>13, <1>14
    DEF Next, Aggregate

(* The invariant holds of every state the aggregator, the delivery worker, *)
(* the node and the validator can reach.                                   *)
THEOREM SetUpdateInvariant == Spec => []SetUpdateInv
  <1>1. Init => SetUpdateInv
    BY InitStep
  <1>2. SetUpdateInv /\ [Next]_vars => SetUpdateInv'
    BY NextStep
  <1> QED
    BY <1>1, <1>2, PTL DEF Spec

(* Type correctness: the line of the signer's lock is no longer than its   *)
(* workers, the votes and the digests in flight belong to the view's       *)
(* nonce, and the validator's nonce stays below the number of elections    *)
(* and faults although no guard says so.                                   *)
THEOREM SetUpdateTypeCorrect == Spec => []TypeOK
  <1>1. SetUpdateInv => TypeOK
    <2> SUFFICES ASSUME SetUpdateInv PROVE TypeOK
      OBVIOUS
    <2>1. SendTypeOK
      <3>1. Len(line) <= Cardinality(Workers)
        BY LineIsShort DEF SetUpdateInv, SendInv
      <3>2. \A w \in Workers : send[w].stage \in Stages /\ send[w].nonce \in Nat
        BY DEF SetUpdateInv, SendInv, SendType, Calls
      <3> QED
        BY <3>1, <3>2 DEF SetUpdateInv, SendInv, SendType, SendTypeOK
    <2>2. nonce \in 0 .. MaxUpdates
      BY NonceBound DEF SetUpdateInv, SendInv, SendType
    <2>3. regime.attestors \subseteq Attestors /\ regime.threshold \in Nat
      BY DEF SetUpdateInv, ChainType, Rules
    <2>4. current = NoView \/ current.nonce \in 0 .. nonce
      BY DEF SetUpdateInv, ChainType, MemoryType, Views
    <2>5. \A d \in DOMAIN votes : votes[d] \subseteq Attestors
      BY DEF SetUpdateInv, ChainType, BackedInv
    <2> QED
      BY <2>1, <2>2, <2>3, <2>4, <2>5 DEF SetUpdateInv, ChainType, MemoryType, TypeOK
  <1> QED
    BY <1>1, SetUpdateInvariant, PTL

(* NoGap: no send of the shared key, given up or not, leaves a nonce       *)
(* unused below a transaction of the pool, for any number of workers.      *)
THEOREM SendsLeaveNoGap == Spec => []NoGap
  <1>1. SetUpdateInv => NoGap
    BY DEF SetUpdateInv, SendInv, GapInv, Below, NoGap
  <1> QED
    BY <1>1, SetUpdateInvariant, PTL

(* NoCollision: the node refuses a nonce as used only after a stale read   *)
(* or a send without an answer, for any number of workers.                 *)
THEOREM SendsDoNotCollide == Spec => []NoCollision
  <1>1. SetUpdateInv => NoCollision
    BY DEF SetUpdateInv, SendInv, FreshInv, NoCollision
  <1> QED
    BY <1>1, SetUpdateInvariant, PTL

(* SentOnce: votes that gather again do not submit an update a second time *)
(* while the first transaction may be mined.                               *)
THEOREM UpdatesAreSentOnce == Spec => []SentOnce
  <1>1. SetUpdateInv => SentOnce
    <2> SUFFICES ASSUME SetUpdateInv, NEW d \in Digests,
                        d \notin forgotten \cup {l.digest : l \in doubtful}
                 PROVE  ~(Cardinality(Live(d)) > 1)
      BY DEF SentOnce
    <2>1. \A s, t \in Live(d) : s = t
      BY Zenon DEF SetUpdateInv, OnceInv, Clean
    <2>2. CASE Live(d) = {}
      <3>1. Cardinality(Live(d)) = 0
        BY <2>2, FS_EmptySet, Zenon
      <3> QED
        BY <3>1
    <2>3. CASE Live(d) # {}
      <3>1. PICK s \in Live(d) : TRUE
        BY <2>3
      <3>2. Live(d) = {s}
        BY <2>1, <3>1
      <3>3. Cardinality(Live(d)) = 1
        BY <3>2, FS_Singleton, Zenon
      <3> QED
        BY <3>3
    <2> QED
      BY <2>2, <2>3
  <1> QED
    BY <1>1, SetUpdateInvariant, PTL

=============================================================================
