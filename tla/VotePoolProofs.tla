--------------------------- MODULE VotePoolProofs ---------------------------
(***************************************************************************)
(* Proofs about the vote pool of a route and its neighbours, for any       *)
(* messages, signers, attestor sets, cache sizes and bounds, with a        *)
(* journal or without one.                                                 *)
(*                                                                         *)
(* The operators of the model map routes to routes, so the lemmas come in  *)
(* two layers: what an operator does to a route that is well formed, and   *)
(* then one lemma for each arm of the loop.                                *)
(***************************************************************************)
EXTENDS VotePool, FiniteSetTheorems, FunctionTheorems, SequenceTheorems, TLAPS

Sets == INSTANCE SetLemmas

Routes == [cache_max : CacheSizes, attestors : SUBSET Signers, threshold : Nat,
           slots : [Messages -> Slot], order : Seq(Messages),
           early : [Messages -> SUBSET Signers], earlyOrder : Seq(Messages)]

\* A sequence of the elements of S, each once.
Lists(s, S) == ToSet(s) = S /\ IsInjective(s)

\* The order and the table agree, and the table is not over its size.
Tables(r) ==
  /\ r \in Routes
  /\ Lists(r.order, Loaded(r))
  /\ Cardinality(Loaded(r)) <= r.cache_max

\* The votes that are held were signed, and those of open messages by the
\* attestors of today.
Current(r) ==
  \A m \in Messages :
     /\ \A s \in r.slots[m].signers \cup r.early[m] : <<m, s>> \in Signed
     /\ m \in Open(r) => r.slots[m].signers \subseteq r.attestors

InFlight(r) == {m \in Open(r) : r.slots[m].inFlight}

TasksType ==
  /\ arriving \in Seq(Messages) /\ records \subseteq Messages
  /\ deferred \subseteq Messages /\ \A m, n \in deferred : m = n
  /\ queue \in Seq(Job) /\ worker \subseteq Job /\ results \subseteq Result
  /\ verdict \subseteq Messages /\ reloads \in 0 .. MaxReloads

Msgs(S) == {x.msg : x \in S}

\* Each message of F has one job, in the queue q, at the worker w or among the
\* results x.
OneJobEach(q, w, x, F) ==
  /\ \A i, j \in DOMAIN q : q[i].msg = q[j].msg => i = j
  /\ \A j, k \in w : j = k
  /\ \A y, z \in x : y.msg = z.msg => y = z
  /\ Msgs(ToSet(q)) \cap Msgs(w) = {} /\ Msgs(ToSet(q)) \cap Msgs(x) = {}
  /\ Msgs(w) \cap Msgs(x) = {}
  /\ Msgs(ToSet(q)) \cup Msgs(w) \cup Msgs(x) = F

JobsInv == OneJobEach(queue, worker, results, InFlight(route))

\* What is marked as finished was reported as finished, and the journal has
\* what the watcher has sent and no verdict has closed.
VerdictInv ==
  /\ Resolved(route) \subseteq verdict
  /\ \A x \in results : x.kind \in {"Delivered", "Terminal"} => x.msg \in verdict
  /\ Persistent => deferred = {} /\ ToSet(arriving) \subseteq records \cup verdict

PoolInv == Tables(route) /\ Current(route) /\ TasksType /\ JobsInv /\ VerdictInv
-----------------------------------------------------------------------------
(***************************************************************************)
(* Sequences.                                                              *)
(***************************************************************************)
(* Counting up to n: a set with 0 and with the successor of each of its    *)
(* elements has every number to n.                                         *)
LEMMA CountingUp ==
  ASSUME NEW n \in Nat, NEW G, 0 \in G, \A i \in 1 .. n : i - 1 \in G => i \in G
  PROVE  \A i \in 0 .. n : i \in G
  <1> DEFINE Bad == {i \in 0 .. n : i \notin G}
  <1>1. SUFFICES ASSUME Bad # {} PROVE FALSE
    OBVIOUS
  <1>2. Bad \subseteq Nat
    OBVIOUS
  <1>3. PICK i \in Bad : \A j \in Bad : i <= j
    <2> HIDE DEF Bad
    <2> QED
      BY <1>1, <1>2, Sets!LeastExists
  <1>4. i \in 1 .. n
    BY <1>3
  <1>5. i - 1 \notin Bad /\ i - 1 \in 0 .. n
    <2>1. ~(i <= i - 1)
      BY <1>4
    <2> QED
      BY <2>1, <1>3, <1>4
  <1> QED
    BY <1>3, <1>4, <1>5

\* The recursion of Without, as its function satisfies it.
Leaves(s, S, f) ==
  f = [i \in 0 .. Len(s) |->
         IF i = 0 THEN <<>> ELSE IF s[i] \in S THEN f[i - 1] ELSE Append(f[i - 1], s[i])]

(* There is such a function. *)
LEMMA LeavesExists ==
  ASSUME NEW T, NEW s \in Seq(T), NEW S
  PROVE  \E f : Leaves(s, S, f)
  <1> DEFINE n == Len(s)
             step(f, i) == IF i = 0 THEN <<>> ELSE IF s[i] \in S THEN f[i - 1] ELSE Append(f[i - 1], s[i])
             upto(f, k) == f = [i \in 0 .. k |-> step(f, i)]
             G == {k \in 0 .. n : \E f : upto(f, k)}
  <1>1. n \in Nat
    OBVIOUS
  <1>2. 0 \in G
    <2> DEFINE f == [i \in 0 .. 0 |-> <<>>]
    <2>1. upto(f, 0)
      <3>1. \A i \in 0 .. 0 : step(f, i) = <<>>
        OBVIOUS
      <3> HIDE DEF step
      <3> QED
        BY <3>1
    <2>2. 0 \in 0 .. n
      BY <1>1
    <2> HIDE DEF f, upto
    <2> QED
      BY <2>1, <2>2
  <1>3. ASSUME NEW k \in 1 .. n, k - 1 \in G PROVE k \in G
    <2>1. PICK g : upto(g, k - 1)
      BY <1>3
    <2> DEFINE f == [i \in 0 .. k |-> IF i = k THEN step(g, k) ELSE g[i]]
    <2>2. \A i \in 0 .. k : i # k => i \in 0 .. k - 1 /\ i - 1 # k
      BY <1>1
    <2>3. \A i \in 0 .. k : i # 0 => i - 1 \in 0 .. k /\ i - 1 # k
      BY <1>1
    <2>4. \A i \in 0 .. k : step(f, i) = step(g, i)
      BY <2>3
    <2>5. \A i \in 0 .. k : f[i] = step(g, i)
      <3> HIDE DEF step
      <3>1. \A i \in 0 .. k : i # k => g[i] = step(g, i)
        BY <2>1, <2>2
      <3> QED
        BY <3>1
    <2>6. upto(f, k)
      <3>1. f = [i \in 0 .. k |-> f[i]]
        OBVIOUS
      <3>2. \A i \in 0 .. k : f[i] = step(f, i)
        BY <2>4, <2>5, Zenon
      <3> HIDE DEF step, f
      <3> QED
        BY <3>1, <3>2, Zenon
    <2>7. k \in 0 .. n
      BY <1>1
    <2> HIDE DEF f, upto
    <2> QED
      BY <2>6, <2>7
  <1>4. n \in G
    <2>1. n \in 0 .. n
      BY <1>1
    <2> HIDE DEF G, n
    <2> QED
      BY <1>1, <1>2, <1>3, <2>1, CountingUp
  <1>5. PICK f : upto(f, n)
    BY <1>4
  <1> QED
    BY <1>5 DEF Leaves

(* What retain leaves: the elements that are not in S, each once if each   *)
(* was there once.                                                         *)
LEMMA WithoutProperty ==
  ASSUME NEW T, NEW s \in Seq(T), NEW S
  PROVE  /\ Without(s, S) \in Seq(T)
         /\ ToSet(Without(s, S)) = ToSet(s) \ S
         /\ IsInjective(s) => IsInjective(Without(s, S))
  <1> DEFINE n == Len(s)
             f == CHOOSE g : Leaves(s, S, g)
             fst(i) == {s[k] : k \in 1 .. i}
             good(i) == /\ f[i] \in Seq(T)
                        /\ ToSet(f[i]) = fst(i) \ S
                        /\ IsInjective(s) => IsInjective(f[i])
             G == {i \in 0 .. n : good(i)}
  <1>1. n \in Nat /\ DOMAIN s = 1 .. n /\ \A i \in 1 .. n : s[i] \in T
    OBVIOUS
  <1>2. Leaves(s, S, f)
    BY LeavesExists, Zenon
  <1>3. Without(s, S) = f[n]
    BY DEF Without, Leaves
  <1> HIDE DEF f
  <1>4. /\ f[0] = <<>>
        /\ \A i \in 1 .. n : f[i] = IF s[i] \in S THEN f[i - 1] ELSE Append(f[i - 1], s[i])
    <2> DEFINE step(i) ==
          IF i = 0 THEN <<>> ELSE IF s[i] \in S THEN f[i - 1] ELSE Append(f[i - 1], s[i])
    <2>1. f = [i \in 0 .. n |-> step(i)]
      BY <1>2 DEF Leaves
    <2>2. \A i \in 0 .. n : f[i] = step(i)
      <3> HIDE DEF step, n
      <3> QED
        BY <2>1
    <2>3. 0 \in 0 .. n /\ \A i \in 1 .. n : i \in 0 .. n /\ i # 0
      <3> HIDE DEF n
      <3> QED
        BY <1>1
    <2>4. step(0) = <<>>
      OBVIOUS
    <2>5. \A i \in 1 .. n : step(i) = IF s[i] \in S THEN f[i - 1] ELSE Append(f[i - 1], s[i])
      BY <2>3, Zenon
    <2> HIDE DEF step, n
    <2> QED
      BY <2>2, <2>3, <2>4, <2>5, Zenon
  <1>5. 0 \in G
    <2>1. fst(0) = {}
      BY <1>1
    <2>2. <<>> \in Seq(T) /\ DOMAIN <<>> = {}
      OBVIOUS
    <2>3. ToSet(<<>>) = {} /\ IsInjective(<<>>)
      BY <2>2, Zenon DEF ToSet, IsInjective
    <2>4. 0 \in 0 .. n
      BY <1>1
    <2> HIDE DEF fst, n
    <2> QED
      BY <2>1, <2>2, <2>3, <2>4, <1>4, Zenon
  <1>6. ASSUME NEW i \in 1 .. n, i - 1 \in G PROVE i \in G
    <2>1. good(i - 1) /\ i \in 0 .. n
      BY <1>6, <1>1
    <2>2. fst(i) = fst(i - 1) \cup {s[i]}
      <3>1. 1 .. i = (1 .. i - 1) \cup {i}
        BY <1>1
      <3> QED
        BY <3>1
    <2>3. CASE s[i] \in S
      <3>1. f[i] = f[i - 1]
        BY <2>3, <1>4
      <3> HIDE DEF fst
      <3> QED
        BY <3>1, <2>1, <2>2, <2>3
    <2>4. CASE s[i] \notin S
      <3> DEFINE t == f[i - 1]
      <3>1. f[i] = Append(t, s[i]) /\ t \in Seq(T) /\ s[i] \in T
        BY <2>1, <2>4, <1>1, <1>4
      <3>2. Len(t) \in Nat /\ DOMAIN t = 1 .. Len(t)
        BY <3>1
      <3>3. /\ f[i] \in Seq(T) /\ DOMAIN f[i] = 1 .. Len(t) + 1 /\ f[i][Len(t) + 1] = s[i]
            /\ \A k \in 1 .. Len(t) : f[i][k] = t[k]
        <4> HIDE DEF t
        <4> QED
          BY <3>1
      <3>4. ToSet(f[i]) = ToSet(t) \cup {s[i]}
        <4> HIDE DEF t
        <4> QED
          BY <3>2, <3>3 DEF ToSet
      <3>5. ToSet(f[i]) = fst(i) \ S
        <4>1. ToSet(t) = fst(i - 1) \ S
          BY <2>1
        <4> HIDE DEF fst, t
        <4> QED
          BY <4>1, <3>4, <2>2, <2>4
      <3>6. ASSUME IsInjective(s) PROVE IsInjective(f[i])
        <4>1. \A k \in 1 .. i - 1 : s[k] # s[i]
          BY <3>6, <1>1 DEF IsInjective
        <4>2. s[i] \notin ToSet(t)
          <5>1. ToSet(t) = fst(i - 1) \ S
            BY <2>1
          <5> HIDE DEF t
          <5> QED
            BY <5>1, <4>1
        <4>3. \A k \in 1 .. Len(t) : t[k] # s[i]
          <5> HIDE DEF t
          <5> QED
            BY <4>2, <3>2 DEF ToSet
        <4>4. \A k, l \in 1 .. Len(t) : t[k] = t[l] => k = l
          <5>1. IsInjective(t)
            BY <2>1, <3>6
          <5> HIDE DEF t
          <5> QED
            BY <5>1, <3>2 DEF IsInjective
        <4> HIDE DEF t
        <4> QED
          BY <4>3, <4>4, <3>2, <3>3 DEF IsInjective
      <3> HIDE DEF fst
      <3> QED
        BY <3>3, <3>5, <3>6, <2>1
    <2> QED
      BY <2>3, <2>4
  <1>7. n \in G
    <2>1. n \in 0 .. n
      BY <1>1
    <2> HIDE DEF G, n
    <2> QED
      BY <1>1, <1>5, <1>6, <2>1, CountingUp
  <1>8. fst(n) = ToSet(s)
    BY <1>1 DEF ToSet
  <1> HIDE DEF fst, n
  <1> QED
    BY <1>3, <1>7, <1>8

(* A prefix is a sequence of the same elements. *)
LEMMA UptoProperty ==
  ASSUME NEW T, NEW s \in Seq(T), NEW n \in Nat
  PROVE  /\ Upto(s, n) \in Seq(T) /\ Len(Upto(s, n)) <= n
         /\ ToSet(Upto(s, n)) \subseteq ToSet(s)
         /\ n >= Len(s) => Upto(s, n) = s
         /\ n <= Len(s) => Len(Upto(s, n)) = n
  <1> DEFINE k == IF n < Len(s) THEN n ELSE Len(s)
  <1>1. k \in 0 .. Len(s) /\ k <= n /\ (n >= Len(s) => k = Len(s)) /\ (n <= Len(s) => k = n)
    OBVIOUS
  <1> HIDE DEF k
  <1>2. /\ SubSeq(s, 1, k) \in Seq(T) /\ DOMAIN SubSeq(s, 1, k) = 1 .. k
        /\ Len(SubSeq(s, 1, k)) = k /\ \A i \in 1 .. k : SubSeq(s, 1, k)[i] = s[i]
    BY <1>1
  <1>3. 1 .. k \subseteq DOMAIN s
    BY <1>1
  <1>4. ToSet(SubSeq(s, 1, k)) \subseteq ToSet(s)
    BY <1>2, <1>3 DEF ToSet
  <1>5. n >= Len(s) => SubSeq(s, 1, k) = s
    BY <1>1, <1>2
  <1>6. Upto(s, n) = SubSeq(s, 1, k)
    BY DEF Upto, k
  <1> QED
    BY <1>1, <1>2, <1>4, <1>5, <1>6

(* Appending a new element to a list. *)
LEMMA AppendLists ==
  ASSUME NEW T, NEW s \in Seq(T), NEW S, Lists(s, S), NEW e \in T, e \notin S
  PROVE  Append(s, e) \in Seq(T) /\ Lists(Append(s, e), S \cup {e})
  <1> DEFINE t == Append(s, e)
  <1>1. /\ t \in Seq(T) /\ DOMAIN t = 1 .. Len(s) + 1 /\ t[Len(s) + 1] = e
        /\ \A k \in 1 .. Len(s) : t[k] = s[k]
    OBVIOUS
  <1>2. Len(s) \in Nat /\ DOMAIN s = 1 .. Len(s)
    OBVIOUS
  <1> HIDE DEF t
  <1>3. ToSet(t) = S \cup {e}
    BY <1>1, <1>2 DEF Lists, ToSet
  <1>4. \A k \in 1 .. Len(s) : s[k] # e
    BY <1>2 DEF Lists, ToSet
  <1>5. \A k, l \in 1 .. Len(s) : s[k] = s[l] => k = l
    BY <1>2 DEF Lists, IsInjective
  <1>6. IsInjective(t)
    BY <1>1, <1>2, <1>4, <1>5 DEF IsInjective
  <1> QED
    BY <1>1, <1>3, <1>6 DEF Lists, t

-----------------------------------------------------------------------------
(***************************************************************************)
(* What the operators do to a route.                                       *)
(***************************************************************************)
(* The slots of a message that is not loaded and of one just loaded.       *)
LEMMA NewSlots ==
  /\ Absent \in Slot /\ Absent.phase = "absent" /\ Absent.signers = {}
  /\ \A S \in SUBSET Signers :
        /\ [Fresh EXCEPT !.signers = S] \in Slot
        /\ [Fresh EXCEPT !.signers = S].phase = "open"
        /\ [Fresh EXCEPT !.signers = S].signers = S
        /\ [Fresh EXCEPT !.signers = S].inFlight = FALSE
  BY DEF Absent, Fresh, Slot, Phases

(* The set of loaded messages, and its parts, are finite. *)
LEMMA TablesAreFinite ==
  ASSUME NEW r
  PROVE  /\ IsFiniteSet(Loaded(r)) /\ Open(r) \subseteq Loaded(r)
         /\ Cardinality(Loaded(r)) \in Nat
         /\ Loaded(r) \subseteq Messages
  <1>1. Loaded(r) \subseteq Messages /\ Open(r) \subseteq Loaded(r)
    BY DEF Loaded, Open
  <1> QED
    BY <1>1, PoolAssumption, FS_Subset, FS_CardinalityType

(* What every operator keeps: the parameters of the route, the shape of    *)
(* the tables and the messages in flight.                                  *)
Same(r, q) ==
  /\ q.cache_max = r.cache_max /\ q.attestors = r.attestors /\ q.threshold = r.threshold
  /\ Tables(q) /\ Current(q) /\ InFlight(q) = InFlight(r)

(* Taking slots out, none of them in flight. *)
LEMMA DropKeeps ==
  ASSUME NEW r, Tables(r), Current(r), NEW S, S \cap InFlight(r) = {}
  PROVE  /\ Same(r, Drop(r, S))
         /\ Loaded(Drop(r, S)) = Loaded(r) \ S
         /\ Open(Drop(r, S)) = Open(r) \ S
         /\ Drop(r, S).early = r.early /\ Drop(r, S).earlyOrder = r.earlyOrder
  <1> DEFINE f == [m \in Messages |-> IF m \in S THEN Absent ELSE r.slots[m]]
             o == Without(r.order, S)
             q == [r EXCEPT !.slots = f, !.order = o]
  <1>1. Drop(r, S) = q
    BY DEF Drop
  <1>2. r \in Routes /\ r.slots \in [Messages -> Slot] /\ r.order \in Seq(Messages)
    BY DEF Tables, Routes
  <1>3. o \in Seq(Messages) /\ ToSet(o) = Loaded(r) \ S /\ IsInjective(o)
    BY <1>2, WithoutProperty DEF Tables, Lists
  <1>4. f \in [Messages -> Slot]
    BY <1>2, NewSlots
  <1>5. \A m \in Messages : f[m] = IF m \in S THEN Absent ELSE r.slots[m]
    OBVIOUS
  <1> HIDE DEF f, o
  <1>6. /\ q \in Routes /\ q.slots = f /\ q.order = o /\ q.cache_max = r.cache_max
        /\ q.attestors = r.attestors /\ q.threshold = r.threshold
        /\ q.early = r.early /\ q.earlyOrder = r.earlyOrder
    BY <1>2, <1>3, <1>4 DEF Routes
  <1> HIDE DEF q
  <1>7. Loaded(q) = Loaded(r) \ S /\ Open(q) = Open(r) \ S
    BY <1>5, <1>6, NewSlots DEF Loaded, Open
  <1>8. InFlight(q) = InFlight(r)
    BY <1>5, <1>6, <1>7 DEF InFlight, Open
  <1>9. Tables(q)
    <2>1. Cardinality(Loaded(q)) <= Cardinality(Loaded(r))
      BY <1>7, TablesAreFinite, FS_Subset
    <2>2. r.cache_max \in Nat
      BY <1>2, PoolAssumption DEF Routes
    <2>3. Cardinality(Loaded(q)) \in Nat /\ Cardinality(Loaded(r)) \in Nat
      BY TablesAreFinite
    <2>4. Cardinality(Loaded(q)) <= q.cache_max
      BY <2>1, <2>2, <2>3, <1>6 DEF Tables
    <2>5. Lists(q.order, Loaded(q))
      BY <1>3, <1>6, <1>7 DEF Lists
    <2> QED
      BY <1>6, <2>4, <2>5 DEF Tables
  <1>10. Current(q)
    <2> SUFFICES ASSUME NEW m \in Messages
                 PROVE  /\ \A s \in q.slots[m].signers \cup q.early[m] : <<m, s>> \in Signed
                        /\ m \in Open(q) => q.slots[m].signers \subseteq q.attestors
      BY DEF Current
    <2>1. q.slots[m].signers \subseteq r.slots[m].signers
      BY <1>5, <1>6, NewSlots
    <2> QED
      BY <2>1, <1>6, <1>7 DEF Current
  <1> QED
    BY <1>1, <1>6, <1>7, <1>8, <1>9, <1>10 DEF Same

(* What an operator that makes or uses room keeps: it gives up none but    *)
(* resolved slots, and resolves none.                                      *)
Keeps(r, q) ==
  /\ Same(r, q)
  /\ Resolved(q) \subseteq Resolved(r) /\ Loaded(r) \ Loaded(q) \subseteq Resolved(r)

(* A route keeps what it has. *)
LEMMA KeepsReflexive ==
  ASSUME NEW r, Tables(r), Current(r)
  PROVE  Keeps(r, r)
  BY DEF Keeps, Same

(* Two steps that keep what a route has keep it together. *)
LEMMA KeepsTransitive ==
  ASSUME NEW p, NEW q, NEW r, Keeps(p, q), Keeps(q, r)
  PROVE  Keeps(p, r)
  <1>1. Same(p, r)
    BY DEF Keeps, Same
  <1>2. Resolved(r) \subseteq Resolved(p)
    BY DEF Keeps
  <1>3. Loaded(p) \ Loaded(r) \subseteq Resolved(p)
    BY DEF Keeps
  <1> QED
    BY <1>1, <1>2, <1>3 DEF Keeps

(* Slots that are resolved may go. *)
LEMMA DropResolved ==
  ASSUME NEW r, Tables(r), Current(r), NEW S, S \cap Open(r) = {}
  PROVE  Keeps(r, Drop(r, S))
  <1>1. S \cap InFlight(r) = {}
    BY DEF InFlight
  <1>2. Same(r, Drop(r, S)) /\ Loaded(Drop(r, S)) = Loaded(r) \ S /\ Open(Drop(r, S)) = Open(r) \ S
    BY <1>1, DropKeeps
  <1> QED
    BY <1>2 DEF Keeps, Resolved

(* make_room keeps what has no verdict, and makes room if it can be made.  *)
LEMMA MakeRoomKeeps ==
  ASSUME NEW r, Tables(r), Current(r)
  PROVE  /\ Keeps(r, MakeRoom(r)) /\ Loaded(MakeRoom(r)) \subseteq Loaded(r)
         /\ MakeRoom(r).early = r.early
         /\ \A m \in Messages \ Loaded(r) :
               CanIndex(r, m) => Cardinality(Loaded(MakeRoom(r))) < r.cache_max
  <1>1. CASE Cardinality(Loaded(r)) < r.cache_max
    BY <1>1, KeepsReflexive DEF MakeRoom
  <1>2. CASE ~(Cardinality(Loaded(r)) < r.cache_max)
    <2> DEFINE w == Without(r.order, Open(r))
               u == Upto(w, 1)
               S == ToSet(u)
    <2>1. MakeRoom(r) = Drop(r, S)
      BY <1>2 DEF MakeRoom
    <2>2. r.order \in Seq(Messages) /\ ToSet(r.order) = Loaded(r) /\ r.cache_max \in Nat
      BY PoolAssumption DEF Tables, Lists, Routes
    <2>3. w \in Seq(Messages) /\ ToSet(w) = Resolved(r)
      BY <2>2, WithoutProperty DEF Resolved
    <2> HIDE DEF w
    <2>4. u \in Seq(Messages) /\ ToSet(u) \subseteq ToSet(w) /\ (1 <= Len(w) => Len(u) = 1)
      BY <2>3, UptoProperty
    <2> HIDE DEF u
    <2>5. S \subseteq Resolved(r) /\ S \cap Open(r) = {}
      BY <2>3, <2>4 DEF Resolved
    <2>6. Resolved(r) # {} => S # {}
      <3> SUFFICES ASSUME Resolved(r) # {} PROVE S # {}
        OBVIOUS
      <3>1. DOMAIN w # {}
        BY <2>3, Zenon DEF ToSet
      <3>2. 1 <= Len(w)
        BY <2>3, <3>1
      <3>3. 1 \in DOMAIN u
        BY <2>4, <3>2
      <3> QED
        BY <3>3 DEF ToSet
    <2> HIDE DEF S
    <2>7. Keeps(r, Drop(r, S))
      BY <2>5, DropResolved
    <2>8. S \cap InFlight(r) = {}
      BY <2>5 DEF InFlight
    <2>9. Loaded(Drop(r, S)) = Loaded(r) \ S /\ Drop(r, S).early = r.early
      BY <2>8, DropKeeps
    <2>10. ASSUME NEW m \in Messages \ Loaded(r), CanIndex(r, m)
           PROVE  Cardinality(Loaded(r) \ S) < r.cache_max
      <3>1. S # {} /\ S \subseteq Loaded(r)
        BY <1>2, <2>5, <2>6, <2>10 DEF CanIndex, Resolved
      <3>2. Loaded(r) \ S # Loaded(r)
        BY <3>1
      <3>3. IsFiniteSet(Loaded(r)) /\ Cardinality(Loaded(r)) \in Nat
        BY TablesAreFinite
      <3>4. /\ Cardinality(Loaded(r) \ S) <= Cardinality(Loaded(r))
            /\ Cardinality(Loaded(r) \ S) # Cardinality(Loaded(r))
        BY <3>2, <3>3, FS_Subset
      <3>5. Cardinality(Loaded(r) \ S) \in Nat
        BY <3>3, FS_Subset, FS_CardinalityType
      <3>6. Cardinality(Loaded(r)) <= r.cache_max
        BY DEF Tables
      <3> QED
        BY <3>3, <3>4, <3>5, <3>6, <2>2
    <2> QED
      BY <2>1, <2>7, <2>9, <2>10
  <1> QED
    BY <1>1, <1>2

(* note_indexed loses no message, and takes its own in if it can.          *)
LEMMA AdmitKeeps ==
  ASSUME NEW r, Tables(r), Current(r), NEW m \in Messages
  PROVE  /\ Keeps(r, Admit(r, m)) /\ Loaded(Admit(r, m)) \subseteq Loaded(r) \cup {m}
         /\ CanIndex(r, m) => m \in Loaded(Admit(r, m))
  <1> DEFINE room == MakeRoom(r)
             out == m \in Loaded(r) \/ Cardinality(Loaded(room)) >= r.cache_max
  <1>1. /\ Keeps(r, room) /\ Loaded(room) \subseteq Loaded(r) /\ room.early = r.early
        /\ m \notin Loaded(r) /\ CanIndex(r, m) => Cardinality(Loaded(room)) < r.cache_max
    BY MakeRoomKeeps
  <1>2. Cardinality(Loaded(room)) \in Nat /\ r.cache_max \in Nat
    BY TablesAreFinite, PoolAssumption DEF Tables, Routes
  <1> HIDE DEF room
  <1>3. CASE out
    <2>1. Admit(r, m) = r
      BY <1>3 DEF Admit, room
    <2>2. CanIndex(r, m) => m \in Loaded(r)
      BY <1>1, <1>2, <1>3
    <2> QED
      BY <2>1, <2>2, KeepsReflexive
  <1>4. CASE ~out
    <2> DEFINE V == r.early[m] \cap r.attestors
               fresh == [Fresh EXCEPT !.signers = V]
               f == [room.slots EXCEPT ![m] = fresh]
               o == Append(room.order, m)
               e == [room.early EXCEPT ![m] = {}]
               eo == Without(room.earlyOrder, {m})
               q == [room EXCEPT !.slots = f, !.order = o, !.early = e, !.earlyOrder = eo]
    <2>1. Tables(room) /\ Current(room) /\ room.attestors = r.attestors
          /\ room.cache_max = r.cache_max /\ room.threshold = r.threshold
          /\ InFlight(room) = InFlight(r)
      BY <1>1 DEF Keeps, Same
    <2>2. /\ room \in Routes /\ room.slots \in [Messages -> Slot] /\ room.order \in Seq(Messages)
          /\ room.early \in [Messages -> SUBSET Signers] /\ room.earlyOrder \in Seq(Messages)
          /\ Lists(room.order, Loaded(room)) /\ r.attestors \in SUBSET Signers
      BY <2>1 DEF Tables, Routes
    <2>3. Admit(r, m) = q
      <3>1. Admit(r, m) = [room EXCEPT
               !.slots[m] = [Fresh EXCEPT !.signers = r.early[m] \cap r.attestors],
               !.order = Append(@, m), !.early[m] = {}, !.earlyOrder = Without(@, {m})]
        BY <1>4 DEF Admit, room
      <3> QED
        BY <3>1, <2>2 DEF Routes
    <2>4. V \in SUBSET Signers
      BY <2>2
    <2>5. fresh \in Slot /\ fresh.phase = "open" /\ fresh.signers = V /\ fresh.inFlight = FALSE
      BY <2>4, NewSlots
    <2>6. m \notin Loaded(room)
      BY <1>1, <1>4
    <2>7. o \in Seq(Messages) /\ Lists(o, Loaded(room) \cup {m})
      BY <2>2, <2>6, AppendLists
    <2>8. eo \in Seq(Messages)
      BY <2>2, WithoutProperty
    <2>9. \A s \in V : s \in r.attestors /\ <<m, s>> \in Signed
      BY DEF Current
    <2> HIDE DEF V, fresh
    <2>10. f \in [Messages -> Slot] /\ f[m] = fresh /\ \A x \in Messages : x # m => f[x] = room.slots[x]
      BY <2>2, <2>5
    <2>11. /\ e \in [Messages -> SUBSET Signers]
           /\ e[m] = {} /\ \A x \in Messages : x # m => e[x] = room.early[x]
      BY <2>2
    <2> HIDE DEF f, o, e, eo
    <2>12. /\ q \in Routes /\ q.slots = f /\ q.order = o /\ q.cache_max = room.cache_max
           /\ q.attestors = room.attestors /\ q.threshold = room.threshold
           /\ q.early = e /\ q.earlyOrder = eo
      BY <2>2, <2>7, <2>8, <2>10, <2>11 DEF Routes
    <2> HIDE DEF q
    <2>13. Loaded(q) = Loaded(room) \cup {m} /\ Open(q) = Open(room) \cup {m}
      BY <2>5, <2>6, <2>10, <2>12 DEF Loaded, Open
    <2>14. InFlight(q) = InFlight(room)
      BY <2>5, <2>6, <2>10, <2>12, <2>13 DEF InFlight, Loaded, Open
    <2>15. Tables(q)
      <3>1. Cardinality(Loaded(q)) = Cardinality(Loaded(room)) + 1
        BY <2>6, <2>13, TablesAreFinite, FS_AddElement
      <3>2. Cardinality(Loaded(q)) <= r.cache_max
        BY <3>1, <1>2, <1>4
      <3> QED
        BY <3>2, <2>1, <2>7, <2>12, <2>13 DEF Tables
    <2>16. Current(q)
      <3> SUFFICES ASSUME NEW x \in Messages
                   PROVE  /\ \A s \in q.slots[x].signers \cup q.early[x] : <<x, s>> \in Signed
                          /\ x \in Open(q) => q.slots[x].signers \subseteq q.attestors
        BY DEF Current
      <3>1. CASE x = m
        BY <3>1, <2>1, <2>5, <2>9, <2>10, <2>11, <2>12
      <3>2. CASE x # m
        BY <3>2, <2>1, <2>10, <2>11, <2>12, <2>13 DEF Current
      <3> QED
        BY <3>1, <3>2
    <2>17. Same(r, q)
      BY <2>1, <2>12, <2>14, <2>15, <2>16 DEF Same
    <2>18. Keeps(r, q)
      <3>1. Resolved(q) \subseteq Resolved(room) /\ Loaded(r) \ Loaded(q) \subseteq Resolved(r)
        BY <2>13, <1>1 DEF Resolved, Keeps
      <3> QED
        BY <3>1, <2>17, <1>1 DEF Keeps
    <2> QED
      BY <2>3, <2>13, <2>18, <1>1
  <1> QED
    BY <1>3, <1>4

(* New tables of early votes, each of them signed.                         *)
LEMMA EarlyKeeps ==
  ASSUME NEW r, Tables(r), Current(r), NEW e \in [Messages -> SUBSET Signers],
         \A m \in Messages : \A s \in e[m] : <<m, s>> \in Signed,
         NEW eo \in Seq(Messages)
  PROVE  /\ Keeps(r, [r EXCEPT !.early = e, !.earlyOrder = eo])
         /\ Loaded([r EXCEPT !.early = e, !.earlyOrder = eo]) = Loaded(r)
  <1> DEFINE q == [r EXCEPT !.early = e, !.earlyOrder = eo]
  <1>1. /\ q \in Routes /\ q.slots = r.slots /\ q.order = r.order /\ q.cache_max = r.cache_max
        /\ q.attestors = r.attestors /\ q.threshold = r.threshold /\ q.early = e
    BY DEF Tables, Routes
  <1> HIDE DEF q
  <1>2. Loaded(q) = Loaded(r) /\ Open(q) = Open(r)
    BY <1>1 DEF Loaded, Open
  <1>3. InFlight(q) = InFlight(r) /\ Resolved(q) = Resolved(r)
    BY <1>1, <1>2 DEF InFlight, Resolved
  <1>4. Tables(q)
    BY <1>1, <1>2 DEF Tables
  <1>5. Current(q)
    BY <1>1, <1>2 DEF Current
  <1> QED
    BY <1>1, <1>2, <1>3, <1>4, <1>5 DEF Keeps, Same, q

(* buffer_early_vote holds the vote, or evicts the oldest buffer.          *)
LEMMA BufferEarlyKeeps ==
  ASSUME NEW r, Tables(r), Current(r), NEW v \in Votes, Valid(r, v),
         <<v.msg, v.recovered>> \in Signed
  PROVE  Keeps(r, BufferEarly(r, v)) /\ Loaded(BufferEarly(r, v)) = Loaded(r)
  <1> DEFINE m == v.msg
             queued == IF r.early[m] = {} THEN Append(r.earlyOrder, m) ELSE r.earlyOrder
             over == IF Len(queued) > r.cache_max THEN {Head(queued)} ELSE {}
             votes == [r.early EXCEPT ![m] = @ \cup {v.recovered}]
             e == [x \in Messages |-> IF x \in over THEN {} ELSE votes[x]]
             eo == Without(queued, over)
  <1>1. BufferEarly(r, v) = [r EXCEPT !.early = e, !.earlyOrder = eo]
    BY DEF BufferEarly
  <1>2. /\ m \in Messages /\ v.recovered \in Signers
        /\ r.early \in [Messages -> SUBSET Signers] /\ r.earlyOrder \in Seq(Messages)
    BY DEF Votes, Valid, Tables, Routes
  <1>3. queued \in Seq(Messages)
    BY <1>2
  <1>4. eo \in Seq(Messages)
    <2> HIDE DEF queued, over
    <2> QED
      BY <1>3, WithoutProperty
  <1>5. votes \in [Messages -> SUBSET Signers] /\ \A x \in Messages : \A s \in votes[x] : <<x, s>> \in Signed
    <2>1. \A x \in Messages : votes[x] = IF x = m THEN r.early[m] \cup {v.recovered} ELSE r.early[x]
      BY <1>2
    <2>2. \A x \in Messages : \A s \in r.early[x] : <<x, s>> \in Signed
      BY DEF Current
    <2>3. votes \in [Messages -> SUBSET Signers]
      BY <1>2
    <2> HIDE DEF votes
    <2> QED
      BY <2>1, <2>2, <2>3, <1>2
  <1> HIDE DEF over, votes, queued
  <1>6. e \in [Messages -> SUBSET Signers] /\ \A x \in Messages : \A s \in e[x] : <<x, s>> \in Signed
    BY <1>5
  <1> HIDE DEF e, eo
  <1>7. Keeps(r, [r EXCEPT !.early = e, !.earlyOrder = eo])
        /\ Loaded([r EXCEPT !.early = e, !.earlyOrder = eo]) = Loaded(r)
    BY <1>4, <1>6, EarlyKeeps
  <1> QED
    BY <1>1, <1>7, Zenon

(* prune_expired gives up resolved slots and early votes.                  *)
LEMMA PruneKeeps ==
  ASSUME NEW r, Tables(r), Current(r), NEW old, NEW stale \in Nat
  PROVE  Keeps(r, PruneExpired(r, old, stale))
  <1> DEFINE gone == {m \in Messages :
                         \/ r.slots[m].phase = "delivered"
                         \/ r.slots[m].phase = "terminal" /\ m \in ToSet(Upto(r.order, old))}
             lost == ToSet(Upto(r.earlyOrder, stale))
             q == Drop(r, gone)
             e == [m \in Messages |-> IF m \in lost THEN {} ELSE q.early[m]]
             eo == Without(q.earlyOrder, lost)
  <1>1. PruneExpired(r, old, stale)
          = [q EXCEPT !.early = [m \in Messages |-> IF m \in lost THEN {} ELSE @[m]],
                      !.earlyOrder = Without(@, lost)]
    BY DEF PruneExpired
  <1>2. gone \cap Open(r) = {}
    BY DEF Open
  <1>3. gone \cap InFlight(r) = {}
    BY <1>2 DEF InFlight
  <1> HIDE DEF gone
  <1>4. Keeps(r, q)
    BY <1>2, DropResolved
  <1> HIDE DEF lost, q
  <1>5. Tables(q) /\ Current(q)
    BY <1>4 DEF Keeps, Same
  <1>6. q \in Routes /\ q.early \in [Messages -> SUBSET Signers] /\ q.earlyOrder \in Seq(Messages)
    BY <1>5 DEF Tables, Routes
  <1>7. PruneExpired(r, old, stale) = [q EXCEPT !.early = e, !.earlyOrder = eo]
    BY <1>1, <1>6 DEF Routes
  <1>8. eo \in Seq(Messages)
    BY <1>6, WithoutProperty
  <1>9. e \in [Messages -> SUBSET Signers] /\ \A x \in Messages : \A s \in e[x] : <<x, s>> \in Signed
    BY <1>5, <1>6 DEF Current
  <1> HIDE DEF e, eo
  <1>10. Keeps(q, [q EXCEPT !.early = e, !.earlyOrder = eo])
    BY <1>5, <1>8, <1>9, EarlyKeeps
  <1> QED
    BY <1>4, <1>7, <1>10, KeepsTransitive

\* The recursion of Load, as its function satisfies it.
Loads(r, p, f) == f = [i \in 0 .. Len(p) |-> IF i = 0 THEN r ELSE Admit(f[i - 1], p[i])]

(* There is such a function. *)
LEMMA LoadsExists ==
  ASSUME NEW r, NEW p \in Seq(Messages)
  PROVE  \E f : Loads(r, p, f)
  <1> DEFINE n == Len(p)
             step(f, i) == IF i = 0 THEN r ELSE Admit(f[i - 1], p[i])
             upto(f, k) == f = [i \in 0 .. k |-> step(f, i)]
             G == {k \in 0 .. n : \E f : upto(f, k)}
  <1>1. n \in Nat
    OBVIOUS
  <1>2. 0 \in G
    <2> DEFINE f == [i \in 0 .. 0 |-> r]
    <2>1. upto(f, 0)
      <3>1. \A i \in 0 .. 0 : step(f, i) = r
        OBVIOUS
      <3> HIDE DEF step
      <3> QED
        BY <3>1
    <2>2. 0 \in 0 .. n
      BY <1>1
    <2> HIDE DEF f, upto
    <2> QED
      BY <2>1, <2>2
  <1>3. ASSUME NEW k \in 1 .. n, k - 1 \in G PROVE k \in G
    <2>1. PICK g : upto(g, k - 1)
      BY <1>3
    <2> DEFINE f == [i \in 0 .. k |-> IF i = k THEN step(g, k) ELSE g[i]]
    <2>2. \A i \in 0 .. k : i # k => i \in 0 .. k - 1 /\ i - 1 # k
      BY <1>1
    <2>3. \A i \in 0 .. k : i # 0 => i - 1 \in 0 .. k /\ i - 1 # k
      BY <1>1
    <2>4. \A i \in 0 .. k : step(f, i) = step(g, i)
      BY <2>3
    <2>5. \A i \in 0 .. k : f[i] = step(g, i)
      <3> HIDE DEF step
      <3>1. \A i \in 0 .. k : i # k => g[i] = step(g, i)
        BY <2>1, <2>2
      <3> QED
        BY <3>1
    <2>6. upto(f, k)
      <3>1. f = [i \in 0 .. k |-> f[i]]
        OBVIOUS
      <3>2. \A i \in 0 .. k : f[i] = step(f, i)
        BY <2>4, <2>5, Zenon
      <3> HIDE DEF step, f
      <3> QED
        BY <3>1, <3>2, Zenon
    <2>7. k \in 0 .. n
      BY <1>1
    <2> HIDE DEF f, upto
    <2> QED
      BY <2>6, <2>7
  <1>4. n \in G
    <2>1. n \in 0 .. n
      BY <1>1
    <2> HIDE DEF G, n
    <2> QED
      BY <1>1, <1>2, <1>3, <2>1, CountingUp
  <1>5. PICK f : upto(f, n)
    BY <1>4
  <1> QED
    BY <1>5 DEF Loads

(* refill's loading loses no message either.                               *)
LEMMA LoadKeeps ==
  ASSUME NEW r, Tables(r), Current(r), NEW p \in Seq(Messages)
  PROVE  Keeps(r, Load(r, p))
  <1> DEFINE n == Len(p)
             f == CHOOSE g : Loads(r, p, g)
             G == {i \in 0 .. n : Keeps(r, f[i])}
  <1>1. n \in Nat /\ \A i \in 1 .. n : p[i] \in Messages
    OBVIOUS
  <1>2. Loads(r, p, f)
    BY LoadsExists, Zenon
  <1>3. Load(r, p) = f[n]
    BY DEF Load, Loads
  <1> HIDE DEF f
  <1>4. f[0] = r /\ \A i \in 1 .. n : f[i] = Admit(f[i - 1], p[i])
    <2> DEFINE step(i) == IF i = 0 THEN r ELSE Admit(f[i - 1], p[i])
    <2>1. f = [i \in 0 .. n |-> step(i)]
      BY <1>2 DEF Loads
    <2>2. \A i \in 0 .. n : f[i] = step(i)
      <3> HIDE DEF step, n
      <3> QED
        BY <2>1
    <2>3. 0 \in 0 .. n /\ \A i \in 1 .. n : i \in 0 .. n /\ i # 0
      <3> HIDE DEF n
      <3> QED
        BY <1>1
    <2>4. step(0) = r
      OBVIOUS
    <2>5. \A i \in 1 .. n : step(i) = Admit(f[i - 1], p[i])
      BY <2>3, Zenon
    <2> HIDE DEF step, n
    <2> QED
      BY <2>2, <2>3, <2>4, <2>5, Zenon
  <1>5. 0 \in G
    <2>1. 0 \in 0 .. n
      BY <1>1
    <2> HIDE DEF n
    <2> QED
      BY <2>1, <1>4, KeepsReflexive
  <1>6. ASSUME NEW i \in 1 .. n, i - 1 \in G PROVE i \in G
    <2>1. Keeps(r, f[i - 1]) /\ i \in 0 .. n
      BY <1>1, <1>6
    <2>2. Tables(f[i - 1]) /\ Current(f[i - 1])
      BY <2>1 DEF Keeps, Same
    <2>3. Keeps(f[i - 1], Admit(f[i - 1], p[i]))
      BY <2>2, <1>1, AdmitKeeps
    <2>4. Keeps(r, f[i])
      BY <2>1, <2>3, <1>4, KeepsTransitive
    <2> HIDE DEF n
    <2> QED
      BY <2>1, <2>4
  <1>7. n \in G
    <2>1. n \in 0 .. n
      BY <1>1
    <2> HIDE DEF G, n
    <2> QED
      BY <1>1, <1>5, <1>6, <2>1, CountingUp
  <1> HIDE DEF n
  <1> QED
    BY <1>3, <1>7

-----------------------------------------------------------------------------
(***************************************************************************)
(* Handing jobs over.                                                      *)
(***************************************************************************)
(* The sequences SetToSeqs makes of a finite set list it.                  *)
LEMMA SetToSeqsLists ==
  ASSUME NEW S, IsFiniteSet(S), NEW s \in SetToSeqs(S)
  PROVE  s \in Seq(S) /\ Lists(s, S)
  <1> DEFINE n == Cardinality(S)
  <1>1. n \in Nat
    BY FS_CardinalityType
  <1>2. s \in [1 .. n -> S] /\ \A i, j \in 1 .. n : s[i] = s[j] => i = j
    BY DEF SetToSeqs
  <1>3. IsFiniteSet(1 .. n) /\ Cardinality(1 .. n) = n
    BY <1>1, FS_Interval
  <1> HIDE DEF n
  <1>4. s \in Injection(1 .. n, S)
    BY <1>2, Fun_IsInj
  <1>5. s \in Surjection(1 .. n, S)
    BY <1>3, <1>4, FS_Injection DEF n
  <1>6. \A e \in S : \E i \in 1 .. n : s[i] = e
    BY <1>5 DEF Surjection
  <1>7. DOMAIN s = 1 .. n
    BY <1>2
  <1>8. ToSet(s) = S
    BY <1>2, <1>6, <1>7 DEF ToSet
  <1>9. IsInjective(s)
    BY <1>2, <1>7 DEF IsInjective
  <1>10. s \in Seq(S)
    BY <1>1, <1>2
  <1> QED
    BY <1>8, <1>9, <1>10 DEF Lists

(* Jobs that join the queue for messages that had none.                    *)
LEMMA QueueJobs ==
  ASSUME NEW q \in Seq(Job), NEW w, NEW x, NEW F, OneJobEach(q, w, x, F),
         NEW t \in Seq(Job), IsInjective(t), Msgs(ToSet(t)) \cap F = {},
         \A j, k \in ToSet(t) : j.msg = k.msg => j = k
  PROVE  /\ q \o t \in Seq(Job) /\ ToSet(q \o t) = ToSet(q) \cup ToSet(t)
         /\ OneJobEach(q \o t, w, x, F \cup Msgs(ToSet(t)))
  <1> DEFINE c == q \o t
  <1>1. /\ c \in Seq(Job) /\ Len(q) \in Nat /\ Len(t) \in Nat
        /\ DOMAIN q = 1 .. Len(q) /\ DOMAIN t = 1 .. Len(t) /\ DOMAIN c = 1 .. Len(q) + Len(t)
        /\ \A i \in 1 .. Len(q) : c[i] = q[i]
        /\ \A i \in 1 .. Len(t) : c[Len(q) + i] = t[i]
    OBVIOUS
  <1> HIDE DEF c
  <1>2. \A i \in DOMAIN c : \/ i \in DOMAIN q /\ c[i] = q[i]
                            \/ i - Len(q) \in DOMAIN t /\ c[i] = t[i - Len(q)]
    <2> SUFFICES ASSUME NEW i \in DOMAIN c, i \notin DOMAIN q
                 PROVE  i - Len(q) \in DOMAIN t /\ c[i] = t[i - Len(q)]
      BY <1>1
    <2>1. i - Len(q) \in 1 .. Len(t) /\ Len(q) + (i - Len(q)) = i
      BY <1>1
    <2> QED
      BY <2>1, <1>1
  <1>3. \A i \in DOMAIN q : i \in DOMAIN c /\ c[i] = q[i]
    BY <1>1
  <1>4. \A i \in DOMAIN t : Len(q) + i \in DOMAIN c /\ c[Len(q) + i] = t[i]
    BY <1>1
  <1>5. ToSet(c) = ToSet(q) \cup ToSet(t)
    BY <1>2, <1>3, <1>4 DEF ToSet
  <1>6. Msgs(ToSet(c)) = Msgs(ToSet(q)) \cup Msgs(ToSet(t))
    BY <1>5 DEF Msgs
  <1>7. ASSUME NEW i \in DOMAIN c, NEW j \in DOMAIN c, c[i].msg = c[j].msg PROVE i = j
    <2>1. \A k \in DOMAIN q : q[k].msg \in F
      BY DEF OneJobEach, Msgs, ToSet
    <2>2. \A k \in DOMAIN t : t[k].msg \notin F /\ t[k] \in ToSet(t)
      BY DEF Msgs, ToSet
    <2>3. CASE i \in DOMAIN q /\ c[i] = q[i]
      <3>1. j \in DOMAIN q /\ c[j] = q[j]
        BY <1>2, <1>7, <2>1, <2>2, <2>3
      <3> QED
        BY <2>3, <3>1, <1>7 DEF OneJobEach
    <2>4. CASE i - Len(q) \in DOMAIN t /\ c[i] = t[i - Len(q)]
      <3>1. j - Len(q) \in DOMAIN t /\ c[j] = t[j - Len(q)]
        BY <1>2, <1>7, <2>1, <2>2, <2>4
      <3>2. i - Len(q) = j - Len(q)
        BY <2>2, <2>4, <3>1, <1>7 DEF IsInjective
      <3> QED
        BY <3>2, <1>1
    <2> QED
      BY <2>3, <2>4, <1>2
  <1>8. Msgs(ToSet(t)) \cap Msgs(w) = {} /\ Msgs(ToSet(t)) \cap Msgs(x) = {}
    BY DEF OneJobEach
  <1>9. OneJobEach(c, w, x, F \cup Msgs(ToSet(t)))
    BY <1>6, <1>7, <1>8 DEF OneJobEach
  <1> QED
    BY <1>1, <1>5, <1>9 DEF c

(* A job carries its message's votes, and to the Inbox only a quorum.      *)
LEMMA JobCarriesQuorum ==
  ASSUME NEW r, Tables(r), Current(r), NEW m \in Open(r)
  PROVE  /\ JobFor(r, m) \in Job /\ JobFor(r, m).msg = m
         /\ ~JobFor(r, m).reconcileOnly =>
               /\ r.threshold > 0
               /\ Cardinality(JobFor(r, m).bundle \cap r.attestors) >= r.threshold
  <1>1. m \in Messages /\ r.slots[m] \in Slot
    BY DEF Open, Tables, Routes
  <1>2. r.slots[m].signers \in SUBSET Signers /\ r.slots[m].accepted \in BOOLEAN
    BY <1>1 DEF Slot
  <1> DEFINE late == r.slots[m].accepted \/ ~HasQuorum(r, m)
  <1>3. late \in BOOLEAN
    BY <1>2
  <1> HIDE DEF late
  <1>4. JobFor(r, m) = [msg |-> m, bundle |-> r.slots[m].signers, reconcileOnly |-> late]
    BY DEF JobFor, late
  <1>5. JobFor(r, m) \in Job
    BY <1>1, <1>2, <1>3, <1>4 DEF Job
  <1>6. JobFor(r, m).msg = m /\ JobFor(r, m).bundle = r.slots[m].signers
        /\ JobFor(r, m).reconcileOnly = late
    BY <1>4
  <1>7. r.slots[m].signers \cap r.attestors = r.slots[m].signers
    BY <1>1 DEF Current
  <1>8. ~late => r.threshold > 0 /\ Cardinality(r.slots[m].signers) >= r.threshold
    BY DEF late, HasQuorum
  <1> QED
    BY <1>5, <1>6, <1>7, <1>8

(* Marking slots in flight: what it leaves of the route.                   *)
LEMMA MarkKeeps ==
  ASSUME NEW r, Tables(r), Current(r), NEW S \in SUBSET Open(r), S \cap InFlight(r) = {},
         NEW T \in SUBSET S
  PROVE  LET q == Requeue(Launch(r, S), S \ T) IN
         /\ Tables(q) /\ Current(q)
         /\ q.attestors = r.attestors /\ q.threshold = r.threshold
         /\ Loaded(q) = Loaded(r) /\ Resolved(q) = Resolved(r)
         /\ InFlight(q) = InFlight(r) \cup T
  <1> DEFINE f == [m \in Messages |->
                     IF m \in S THEN [r.slots[m] EXCEPT !.inFlight = TRUE, !.backoff = FALSE]
                     ELSE r.slots[m]]
             g == [m \in Messages |->
                     IF m \in S \ T THEN [f[m] EXCEPT !.inFlight = FALSE, !.backoff = TRUE]
                     ELSE f[m]]
             p == [r EXCEPT !.slots = f]
             q == [p EXCEPT !.slots = g]
  <1>1. r \in Routes /\ r.slots \in [Messages -> Slot]
    BY DEF Tables, Routes
  <1>2. \A m \in Messages :
           /\ f[m] \in Slot /\ f[m].phase = r.slots[m].phase /\ f[m].signers = r.slots[m].signers
           /\ f[m].inFlight = IF m \in S THEN TRUE ELSE r.slots[m].inFlight
    <2> SUFFICES ASSUME NEW m \in Messages
                 PROVE  /\ f[m] \in Slot /\ f[m].phase = r.slots[m].phase
                        /\ f[m].signers = r.slots[m].signers
                        /\ f[m].inFlight = IF m \in S THEN TRUE ELSE r.slots[m].inFlight
      OBVIOUS
    <2>1. r.slots[m] \in Slot
      BY <1>1
    <2> QED
      BY <2>1 DEF Slot
  <1>3. Launch(r, S) = p
    BY DEF Launch
  <1> HIDE DEF f
  <1>4. f \in [Messages -> Slot]
    BY <1>2 DEF f
  <1>5. \A m \in Messages :
           /\ g[m] \in Slot /\ g[m].phase = r.slots[m].phase /\ g[m].signers = r.slots[m].signers
           /\ g[m].inFlight = IF m \in S \ T THEN FALSE
                              ELSE IF m \in S THEN TRUE ELSE r.slots[m].inFlight
    <2> SUFFICES ASSUME NEW m \in Messages
                 PROVE  /\ g[m] \in Slot /\ g[m].phase = r.slots[m].phase
                        /\ g[m].signers = r.slots[m].signers
                        /\ g[m].inFlight = IF m \in S \ T THEN FALSE
                                           ELSE IF m \in S THEN TRUE ELSE r.slots[m].inFlight
      OBVIOUS
    <2>1. f[m] \in Slot
      BY <1>2
    <2>2. /\ g[m] \in Slot /\ g[m].phase = f[m].phase /\ g[m].signers = f[m].signers
          /\ g[m].inFlight = IF m \in S \ T THEN FALSE ELSE f[m].inFlight
      BY <2>1 DEF Slot
    <2> HIDE DEF g
    <2> QED
      BY <2>2, <1>2
  <1>6. p \in Routes /\ p.slots = f
    BY <1>1, <1>4 DEF Routes
  <1>7. Requeue(p, S \ T) = q
    <2> HIDE DEF p
    <2>1. Requeue(p, S \ T) = [p EXCEPT !.slots = [m \in Messages |->
             IF m \in S \ T THEN [@[m] EXCEPT !.inFlight = FALSE, !.backoff = TRUE] ELSE @[m]]]
      BY DEF Requeue
    <2> QED
      BY <2>1, <1>6 DEF Routes
  <1>8. g \in [Messages -> Slot]
    <2>1. \A m \in Messages : g[m] \in Slot
      BY <1>5
    <2> QED
      BY <2>1
  <1> HIDE DEF g
  <1>9. /\ q \in Routes /\ q.slots = g /\ q.order = r.order /\ q.cache_max = r.cache_max
        /\ q.attestors = r.attestors /\ q.threshold = r.threshold /\ q.early = r.early
    BY <1>1, <1>4, <1>8 DEF Routes
  <1> HIDE DEF q, p
  <1>10. Loaded(q) = Loaded(r) /\ Open(q) = Open(r)
    BY <1>5, <1>9 DEF Loaded, Open
  <1>11. Resolved(q) = Resolved(r)
    BY <1>10 DEF Resolved
  <1>12. InFlight(q) = InFlight(r) \cup T
    <2>1. S \subseteq Messages /\ T \subseteq Messages
      BY DEF Open
    <2>2. \A m \in Open(r) : g[m].inFlight = IF m \in S \ T THEN FALSE
                                ELSE IF m \in S THEN TRUE ELSE r.slots[m].inFlight
      BY <1>5 DEF Open
    <2>3. \A m \in Open(r) : g[m].inFlight <=> (r.slots[m].inFlight \/ m \in T)
      <3> SUFFICES ASSUME NEW m \in Open(r)
                   PROVE  g[m].inFlight <=> (r.slots[m].inFlight \/ m \in T)
        OBVIOUS
      <3>1. CASE m \in T
        BY <3>1, <2>2
      <3>2. CASE m \in S \ T
        BY <3>2, <2>2 DEF InFlight
      <3>3. CASE m \notin S
        BY <3>3, <2>2
      <3> QED
        BY <3>1, <3>2, <3>3
    <2> QED
      BY <2>3, <1>9, <1>10 DEF InFlight
  <1>13. Tables(q)
    BY <1>9, <1>10 DEF Tables
  <1>14. Current(q)
    <2>1. \A m \in Messages : q.slots[m].signers = r.slots[m].signers
      BY <1>5, <1>9
    <2> QED
      BY <2>1, <1>9, <1>10 DEF Current
  <1> QED
    BY <1>3, <1>7, <1>9, <1>10, <1>11, <1>12, <1>13, <1>14

(* dispatch_delivery_job: what is sent has a job and is marked.            *)
LEMMA PostKeeps ==
  ASSUME NEW r, Tables(r), Current(r), NEW S \in SUBSET Open(r), S \cap InFlight(r) = {},
         queue \in Seq(Job), OneJobEach(queue, worker, results, InFlight(r)), Post(r, S)
  PROVE  /\ Tables(route') /\ Current(route')
         /\ Loaded(route') = Loaded(r) /\ Resolved(route') = Resolved(r)
         /\ queue' \in Seq(Job) /\ OneJobEach(queue', worker, results, InFlight(route'))
         /\ \A j \in ToSet(queue') \ ToSet(queue) :
              ~j.reconcileOnly =>
                 /\ route'.threshold > 0
                 /\ Cardinality(j.bundle \cap route'.attestors) >= route'.threshold
  <1>1. PICK sent \in SUBSET S :
          /\ \E jobs \in SetToSeqs({JobFor(r, m) : m \in sent}) : queue' = queue \o jobs
          /\ route' = Requeue(Launch(r, S), S \ sent)
    BY DEF Post
  <1> DEFINE made == {JobFor(r, m) : m \in sent}
  <1>2. PICK jobs \in SetToSeqs(made) : queue' = queue \o jobs
    BY <1>1
  <1>3. \A m \in sent : m \in Open(r) /\ JobFor(r, m) \in Job /\ JobFor(r, m).msg = m
    BY JobCarriesQuorum
  <1>4. IsFiniteSet(made)
    <2> DEFINE h == [m \in sent |-> JobFor(r, m)]
    <2>1. IsFiniteSet(sent)
      BY <1>3, PoolAssumption, FS_Subset DEF Open
    <2>2. h \in Surjection(sent, made)
      BY DEF Surjection
    <2> HIDE DEF h, made
    <2> QED
      BY <2>1, <2>2, FS_Surjection
  <1>5. \A j \in made : j \in Job /\ j.msg \in sent /\ j = JobFor(r, j.msg)
    BY <1>3
  <1>6. Msgs(made) = sent
    BY <1>3 DEF Msgs
  <1> HIDE DEF made
  <1>7. jobs \in Seq(made) /\ Lists(jobs, made)
    BY <1>4, SetToSeqsLists
  <1>8. jobs \in Seq(Job) /\ ToSet(jobs) = made /\ IsInjective(jobs)
    <2>1. made \subseteq Job
      BY <1>5
    <2> QED
      BY <2>1, <1>7 DEF Lists
  <1>9. sent \cap InFlight(r) = {}
    OBVIOUS
  <1>10. /\ queue \o jobs \in Seq(Job) /\ ToSet(queue \o jobs) = ToSet(queue) \cup ToSet(jobs)
         /\ OneJobEach(queue \o jobs, worker, results, InFlight(r) \cup Msgs(ToSet(jobs)))
    <2>1. \A j, k \in ToSet(jobs) : j.msg = k.msg => j = k
      BY <1>5, <1>8
    <2>2. Msgs(ToSet(jobs)) \cap InFlight(r) = {}
      BY <1>6, <1>8, <1>9
    <2> QED
      BY <2>1, <2>2, <1>8, QueueJobs
  <1>11. /\ Tables(route') /\ Current(route')
         /\ route'.attestors = r.attestors /\ route'.threshold = r.threshold
         /\ Loaded(route') = Loaded(r) /\ Resolved(route') = Resolved(r)
         /\ InFlight(route') = InFlight(r) \cup sent
    <2> DEFINE q == Requeue(Launch(r, S), S \ sent)
    <2>1. /\ Tables(q) /\ Current(q)
          /\ q.attestors = r.attestors /\ q.threshold = r.threshold
          /\ Loaded(q) = Loaded(r) /\ Resolved(q) = Resolved(r)
          /\ InFlight(q) = InFlight(r) \cup sent
      BY MarkKeeps
    <2>2. route' = q
      BY <1>1
    <2> HIDE DEF q
    <2> QED
      BY <2>1, <2>2
  <1>12. OneJobEach(queue', worker, results, InFlight(route'))
    BY <1>2, <1>6, <1>8, <1>10, <1>11
  <1>13. ASSUME NEW j \in ToSet(queue') \ ToSet(queue), ~j.reconcileOnly
         PROVE  /\ route'.threshold > 0
                /\ Cardinality(j.bundle \cap route'.attestors) >= route'.threshold
    <2>1. j \in made
      BY <1>2, <1>8, <1>10
    <2>2. j = JobFor(r, j.msg) /\ j.msg \in Open(r)
      BY <2>1, <1>3, <1>5
    <2>3. /\ r.threshold > 0
          /\ Cardinality(j.bundle \cap r.attestors) >= r.threshold
      BY <2>2, <1>13, JobCarriesQuorum
    <2> QED
      BY <2>3, <1>11
  <1> QED
    BY <1>2, <1>10, <1>11, <1>12, <1>13

-----------------------------------------------------------------------------
(***************************************************************************)
(* The arms of the loop. Each keeps the invariant, hands over no bundle    *)
(* short of a quorum and lets no message go without a verdict.             *)
(***************************************************************************)
Handed ==
  \A j \in ToSet(queue') \ ToSet(queue) :
     ~j.reconcileOnly =>
        /\ route'.threshold > 0
        /\ Cardinality(j.bundle \cap route'.attestors) >= route'.threshold

Sound == PoolInv' /\ Handed /\ Held \ Held' \subseteq verdict

(* Other slots for the messages that have one.                             *)
LEMMA SlotsKeep ==
  ASSUME NEW r, Tables(r), NEW q \in Routes, q.order = r.order, q.cache_max = r.cache_max,
         \A m \in Messages : q.slots[m].phase = "absent" <=> r.slots[m].phase = "absent"
  PROVE  Tables(q) /\ Loaded(q) = Loaded(r)
  <1>1. Loaded(q) = Loaded(r)
    BY DEF Loaded
  <1> QED
    BY <1>1 DEF Tables

(* Only messages that are ready are handed over.                           *)
LEMMA ReadyIsOpen ==
  ASSUME NEW r, NEW m \in Messages, NEW b, Ready(r, m, b)
  PROVE  m \in Open(r) /\ m \notin InFlight(r)
  BY DEF Ready, Open, InFlight

(* note_indexed with its dispatch.                                         *)
LEMMA NoteIndexedKeeps ==
  ASSUME PoolInv, NEW m \in Messages, NoteIndexed(m), UNCHANGED <<worker, results>>
  PROVE  /\ Tables(route') /\ Current(route') /\ queue' \in Seq(Job) /\ JobsInv' /\ Handed
         /\ Resolved(route') \subseteq Resolved(route)
         /\ Loaded(route) \ Loaded(route') \subseteq Resolved(route)
         /\ CanIndex(route, m) => m \in Loaded(route')
  <1> DEFINE r == Admit(route, m)
             S == IF m \notin Loaded(route) /\ Ready(r, m, FALSE) THEN {m} ELSE {}
  <1>1. Tables(route) /\ Current(route) /\ queue \in Seq(Job)
        /\ OneJobEach(queue, worker, results, InFlight(route))
    BY DEF PoolInv, TasksType, JobsInv
  <1>2. Keeps(route, r) /\ (CanIndex(route, m) => m \in Loaded(r))
    BY <1>1, AdmitKeeps
  <1>3. Post(r, S)
    BY DEF NoteIndexed
  <1>4. S \in SUBSET Open(r) /\ S \cap InFlight(r) = {}
    <2> HIDE DEF r
    <2> QED
      BY ReadyIsOpen
  <1> HIDE DEF r, S
  <1>5. Tables(r) /\ Current(r) /\ InFlight(r) = InFlight(route)
    BY <1>2 DEF Keeps, Same
  <1>6. /\ Tables(route') /\ Current(route')
        /\ Loaded(route') = Loaded(r) /\ Resolved(route') = Resolved(r)
        /\ queue' \in Seq(Job) /\ OneJobEach(queue', worker, results, InFlight(route'))
        /\ Handed
    BY <1>1, <1>3, <1>4, <1>5, PostKeeps DEF Handed
  <1>7. JobsInv'
    BY <1>6 DEF JobsInv
  <1> QED
    BY <1>2, <1>6, <1>7 DEF Keeps

(* The head of the loop.                                                   *)
LEMMA AdmitDeferredStep ==
  ASSUME PoolInv, NEW m \in Messages, AdmitDeferred(m)
  PROVE  Sound
  <1>1. m \in deferred /\ CanIndex(route, m) /\ deferred' = {} /\ NoteIndexed(m)
        /\ UNCHANGED <<arriving, records, worker, results, verdict, reloads>>
    BY DEF AdmitDeferred
  <1>2. /\ Tables(route') /\ Current(route') /\ queue' \in Seq(Job) /\ JobsInv' /\ Handed
        /\ Resolved(route') \subseteq Resolved(route)
        /\ Loaded(route) \ Loaded(route') \subseteq Resolved(route)
        /\ m \in Loaded(route')
    BY <1>1, NoteIndexedKeeps
  <1>3. TasksType'
    BY <1>1, <1>2 DEF PoolInv, TasksType
  <1>4. VerdictInv'
    BY <1>1, <1>2 DEF PoolInv, VerdictInv
  <1>5. Held \ Held' \subseteq verdict
    <2>1. deferred = {m}
      BY <1>1 DEF PoolInv, TasksType
    <2> QED
      BY <2>1, <1>1, <1>2 DEF PoolInv, VerdictInv, Held
  <1> QED
    BY <1>2, <1>3, <1>4, <1>5 DEF Sound, PoolInv

(* The first element and the rest of a sequence that is not empty.         *)
LEMMA HeadAndTail ==
  ASSUME NEW T, NEW s \in Seq(T), s # <<>>
  PROVE  /\ Head(s) \in T /\ Tail(s) \in Seq(T) /\ 1 \in DOMAIN s /\ s[1] = Head(s)
         /\ ToSet(s) = {Head(s)} \cup ToSet(Tail(s))
         /\ \A i \in DOMAIN Tail(s) : i + 1 \in DOMAIN s /\ Tail(s)[i] = s[i + 1] /\ i \in Nat \ {0}
  <1> DEFINE t == Tail(s)
  <1>1. /\ Head(s) \in T /\ t \in Seq(T) /\ Head(s) = s[1] /\ Len(s) \in Nat \ {0}
        /\ DOMAIN s = 1 .. Len(s) /\ DOMAIN t = 1 .. Len(s) - 1
        /\ \A i \in 1 .. Len(s) - 1 : t[i] = s[i + 1]
    OBVIOUS
  <1> HIDE DEF t
  <1>2. ASSUME NEW i \in DOMAIN s, i # 1 PROVE i - 1 \in DOMAIN t /\ t[i - 1] = s[i]
    <2>1. i - 1 \in 1 .. Len(s) - 1 /\ (i - 1) + 1 = i
      BY <1>1, <1>2
    <2>2. t[i - 1] = s[(i - 1) + 1]
      BY <2>1, <1>1
    <2> QED
      BY <2>1, <2>2, <1>1
  <1>3. \A i \in DOMAIN t : i + 1 \in DOMAIN s /\ t[i] = s[i + 1] /\ i \in Nat \ {0}
    BY <1>1
  <1>4. 1 \in DOMAIN s
    BY <1>1
  <1>5. ToSet(s) = {Head(s)} \cup ToSet(t)
    <2>1. Head(s) \in ToSet(s)
      BY <1>1, <1>4, Zenon DEF ToSet
    <2>2. ToSet(t) \subseteq ToSet(s)
      BY <1>3, Zenon DEF ToSet
    <2>3. ASSUME NEW i \in DOMAIN s PROVE s[i] \in {Head(s)} \cup ToSet(t)
      <3>1. CASE i = 1
        BY <3>1, <1>1
      <3>2. CASE i # 1
        BY <3>2, <1>2, Zenon DEF ToSet
      <3> QED
        BY <3>1, <3>2
    <2>4. ToSet(s) \subseteq {Head(s)} \cup ToSet(t)
      BY <2>3, Zenon DEF ToSet
    <2> QED
      BY <2>1, <2>2, <2>4, Zenon
  <1> QED
    BY <1>1, <1>3, <1>4, <1>5 DEF t

(* The indexed_rx arm.                                                     *)
LEMMA ReceiveStep ==
  ASSUME PoolInv, Receive
  PROVE  Sound
  <1> DEFINE m == Head(arriving)
             a == Tail(arriving)
  <1>1. /\ deferred = {} /\ arriving # <<>> /\ arriving' = a
        /\ UNCHANGED <<records, worker, results, verdict, reloads>>
    BY DEF Receive
  <1>2. \/ CanIndex(route, m) /\ NoteIndexed(m) /\ UNCHANGED deferred
        \/ /\ ~CanIndex(route, m) /\ deferred' = IF Persistent THEN {} ELSE {m}
           /\ UNCHANGED <<route, queue>>
    BY DEF Receive
  <1>3. m \in Messages /\ a \in Seq(Messages) /\ ToSet(arriving) = {m} \cup ToSet(a)
    BY <1>1, HeadAndTail DEF PoolInv, TasksType
  <1> HIDE DEF m, a
  <1>4. CASE CanIndex(route, m) /\ NoteIndexed(m) /\ UNCHANGED deferred
    <2>1. /\ Tables(route') /\ Current(route') /\ queue' \in Seq(Job) /\ JobsInv' /\ Handed
          /\ Resolved(route') \subseteq Resolved(route)
          /\ Loaded(route) \ Loaded(route') \subseteq Resolved(route)
          /\ m \in Loaded(route')
      BY <1>1, <1>3, <1>4, NoteIndexedKeeps
    <2>2. TasksType'
      BY <1>1, <1>3, <1>4, <2>1 DEF PoolInv, TasksType
    <2>3. VerdictInv'
      BY <1>1, <1>3, <1>4, <2>1 DEF PoolInv, VerdictInv
    <2>4. Held \ Held' \subseteq verdict
      BY <1>1, <1>3, <1>4, <2>1 DEF PoolInv, VerdictInv, Held
    <2> QED
      BY <2>1, <2>2, <2>3, <2>4 DEF Sound, PoolInv
  <1>5. CASE /\ ~CanIndex(route, m) /\ deferred' = IF Persistent THEN {} ELSE {m}
             /\ UNCHANGED <<route, queue>>
    <2>1. Tables(route') /\ Current(route') /\ JobsInv' /\ Handed
      BY <1>1, <1>5 DEF PoolInv, JobsInv, Handed
    <2>2. TasksType'
      <3>1. deferred' \subseteq Messages /\ \A x, y \in deferred' : x = y
        BY <1>3, <1>5
      <3> QED
        BY <3>1, <1>1, <1>3, <1>5 DEF PoolInv, TasksType
    <2>3. VerdictInv'
      <3>1. Persistent => deferred' = {} /\ ToSet(a) \subseteq records \cup verdict
        BY <1>3, <1>5 DEF PoolInv, VerdictInv
      <3> QED
        BY <3>1, <1>1, <1>5 DEF PoolInv, VerdictInv
    <2>4. Held \ Held' \subseteq verdict
      <3>1. m \in records \cup verdict \/ m \in deferred'
        BY <1>3, <1>5 DEF PoolInv, VerdictInv
      <3> QED
        BY <3>1, <1>1, <1>3, <1>5 DEF Held
    <2> QED
      BY <2>1, <2>2, <2>3, <2>4 DEF Sound, PoolInv
  <1> QED
    BY <1>2, <1>4, <1>5

(* note_vote, for a vote that was signed if anyone signed it.              *)
LEMMA NoteVoteStep ==
  ASSUME PoolInv, NEW v \in Votes, NoteVote(v),
         v.recovered \in {NoSigner} \cup {s \in Signers : <<v.msg, s>> \in Signed}
  PROVE  Sound
  <1> DEFINE m == v.msg
  <1>1. /\ Valid(route, v)
        /\ UNCHANGED <<arriving, deferred, records, worker, results, verdict, reloads>>
    BY DEF NoteVote
  <1>2. /\ Tables(route) /\ Current(route) /\ queue \in Seq(Job)
        /\ OneJobEach(queue, worker, results, InFlight(route))
        /\ route \in Routes /\ route.attestors \in SUBSET Signers
        /\ route.slots \in [Messages -> Slot]
    BY DEF PoolInv, TasksType, JobsInv, Tables, Routes
  <1>3. m \in Messages /\ v.recovered \in Signers /\ <<m, v.recovered>> \in Signed
        /\ v.recovered \in route.attestors
    BY <1>1, <1>2, PoolAssumption DEF Valid, Votes
  <1>4. CASE m \notin Loaded(route) /\ route' = BufferEarly(route, v) /\ UNCHANGED queue
    <2>1. Keeps(route, route') /\ Loaded(route') = Loaded(route)
      BY <1>1, <1>2, <1>3, <1>4, BufferEarlyKeeps
    <2>2. Tables(route') /\ Current(route') /\ JobsInv'
      BY <2>1, <1>1, <1>2, <1>4 DEF Keeps, Same, JobsInv
    <2>3. TasksType' /\ Handed
      BY <1>1, <1>4 DEF PoolInv, TasksType, Handed
    <2>4. VerdictInv'
      BY <2>1, <1>1, <1>4 DEF PoolInv, VerdictInv, Keeps
    <2>5. Held' = Held
      BY <2>1, <1>1 DEF Held
    <2> QED
      BY <2>2, <2>3, <2>4, <2>5 DEF Sound, PoolInv
  <1>5. CASE /\ m \in Open(route)
             /\ LET r == [route EXCEPT !.slots[m].signers = @ \cup {v.recovered}]
                IN Post(r, IF Cardinality(r.slots[m].signers) >= r.threshold /\ Ready(r, m, FALSE)
                           THEN {m} ELSE {})
    <2> DEFINE s == route.slots[m]
               t == [s EXCEPT !.signers = @ \cup {v.recovered}]
               f == [route.slots EXCEPT ![m] = t]
               r == [route EXCEPT !.slots[m].signers = @ \cup {v.recovered}]
               S == IF Cardinality(r.slots[m].signers) >= r.threshold /\ Ready(r, m, FALSE)
                    THEN {m} ELSE {}
    <2>1. s \in Slot
      BY <1>2, <1>3
    <2>2. /\ t \in Slot /\ t.phase = s.phase /\ t.signers = s.signers \cup {v.recovered}
          /\ t.inFlight = s.inFlight
      BY <2>1, <1>3 DEF Slot
    <2>3. r = [route EXCEPT !.slots = f]
      BY <1>2 DEF Routes
    <2>4. Post(r, S)
      BY <1>5
    <2> HIDE DEF t
    <2>5. f \in [Messages -> Slot] /\ f[m] = t /\ \A x \in Messages : x # m => f[x] = route.slots[x]
      BY <2>2, <1>2, <1>3
    <2> HIDE DEF f, s
    <2>6. /\ r \in Routes /\ r.slots = f /\ r.order = route.order /\ r.cache_max = route.cache_max
          /\ r.attestors = route.attestors /\ r.early = route.early
      BY <2>3, <2>5, <1>2 DEF Routes
    <2>7. S \in SUBSET Open(r) /\ S \cap InFlight(r) = {}
      <3> HIDE DEF r
      <3> QED
        BY <1>3, ReadyIsOpen
    <2> HIDE DEF r, S
    <2>8. \A x \in Messages : /\ r.slots[x].phase = route.slots[x].phase
                              /\ r.slots[x].inFlight = route.slots[x].inFlight
      BY <2>2, <2>5, <2>6 DEF s
    <2>9. Tables(r) /\ Loaded(r) = Loaded(route)
      BY <2>6, <2>8, <1>2, SlotsKeep
    <2>10. Open(r) = Open(route)
      BY <2>8 DEF Open
    <2>11. InFlight(r) = InFlight(route) /\ Resolved(r) = Resolved(route)
      <3>1. Open(route) \subseteq Messages
        BY DEF Open
      <3> QED
        BY <3>1, <2>8, <2>9, <2>10 DEF InFlight, Resolved
    <2>12. Current(r)
      <3> SUFFICES ASSUME NEW x \in Messages
                   PROVE  /\ \A z \in r.slots[x].signers \cup r.early[x] : <<x, z>> \in Signed
                          /\ x \in Open(r) => r.slots[x].signers \subseteq r.attestors
        BY DEF Current
      <3>1. CASE x = m
        BY <3>1, <1>2, <1>3, <2>2, <2>5, <2>6, <2>10 DEF Current, s
      <3>2. CASE x # m
        BY <3>2, <1>2, <2>5, <2>6, <2>10 DEF Current
      <3> QED
        BY <3>1, <3>2
    <2>13. /\ Tables(route') /\ Current(route')
           /\ Loaded(route') = Loaded(route) /\ Resolved(route') = Resolved(route)
           /\ queue' \in Seq(Job) /\ OneJobEach(queue', worker, results, InFlight(route'))
           /\ Handed
      <3>1. OneJobEach(queue, worker, results, InFlight(r))
        BY <1>2, <2>11
      <3> QED
        BY <3>1, <1>2, <2>4, <2>7, <2>9, <2>11, <2>12, PostKeeps DEF Handed
    <2>14. JobsInv' /\ TasksType' /\ VerdictInv'
      BY <2>13, <1>1 DEF PoolInv, TasksType, JobsInv, VerdictInv
    <2>15. Held' = Held
      BY <2>13, <1>1 DEF Held
    <2> QED
      BY <2>13, <2>14, <2>15 DEF Sound, PoolInv
  <1> QED
    BY <1>4, <1>5 DEF NoteVote

(* apply_attestor_set.                                                     *)
LEMMA ApplySetStep ==
  ASSUME PoolInv, NEW u \in Reloads, ApplySet(u)
  PROVE  Sound
  <1> DEFINE kept == [m \in Messages |->
                        IF m \in Open(route)
                        THEN [route.slots[m] EXCEPT !.signers = @ \cap u.attestors]
                        ELSE route.slots[m]]
             r == [route EXCEPT !.attestors = u.attestors, !.threshold = u.threshold,
                                !.slots = kept]
             S == {m \in Open(r) : /\ Cardinality(r.slots[m].signers) >= u.threshold
                                   /\ Ready(r, m, FALSE)}
  <1>1. /\ reloads < MaxReloads /\ reloads' = reloads + 1 /\ Post(r, S)
        /\ UNCHANGED <<arriving, deferred, records, worker, results, verdict>>
    BY DEF ApplySet
  <1>2. /\ Tables(route) /\ Current(route) /\ queue \in Seq(Job)
        /\ OneJobEach(queue, worker, results, InFlight(route))
        /\ route \in Routes /\ route.slots \in [Messages -> Slot]
    BY DEF PoolInv, TasksType, JobsInv, Tables, Routes
  <1>3. u.attestors \in SUBSET Signers /\ u.threshold \in Nat
    BY PoolAssumption
  <1>4. \A m \in Messages :
           /\ kept[m] \in Slot /\ kept[m].phase = route.slots[m].phase
           /\ kept[m].inFlight = route.slots[m].inFlight
           /\ kept[m].signers = IF m \in Open(route) THEN route.slots[m].signers \cap u.attestors
                                ELSE route.slots[m].signers
    <2> SUFFICES ASSUME NEW m \in Messages
                 PROVE  /\ kept[m] \in Slot /\ kept[m].phase = route.slots[m].phase
                        /\ kept[m].inFlight = route.slots[m].inFlight
                        /\ kept[m].signers = IF m \in Open(route)
                                             THEN route.slots[m].signers \cap u.attestors
                                             ELSE route.slots[m].signers
      OBVIOUS
    <2>1. route.slots[m] \in Slot
      BY <1>2
    <2> QED
      BY <2>1 DEF Slot
  <1>5. kept \in [Messages -> Slot]
    <2>1. \A m \in Messages : kept[m] \in Slot
      BY <1>4
    <2> QED
      BY <2>1
  <1> HIDE DEF kept
  <1>6. /\ r \in Routes /\ r.slots = kept /\ r.order = route.order
        /\ r.cache_max = route.cache_max /\ r.attestors = u.attestors /\ r.early = route.early
    BY <1>2, <1>3, <1>5 DEF Routes
  <1> HIDE DEF r
  <1>7. S \in SUBSET Open(r) /\ S \cap InFlight(r) = {}
    BY ReadyIsOpen DEF Open
  <1> HIDE DEF S
  <1>8. Tables(r) /\ Loaded(r) = Loaded(route)
    BY <1>2, <1>4, <1>6, SlotsKeep
  <1>9. Open(r) = Open(route) /\ Open(route) \subseteq Messages
    BY <1>4, <1>6 DEF Open
  <1>10. InFlight(r) = InFlight(route) /\ Resolved(r) = Resolved(route)
    BY <1>4, <1>6, <1>8, <1>9 DEF InFlight, Resolved
  <1>11. Current(r)
    BY <1>2, <1>4, <1>6, <1>9 DEF Current
  <1>12. /\ Tables(route') /\ Current(route')
         /\ Loaded(route') = Loaded(route) /\ Resolved(route') = Resolved(route)
         /\ queue' \in Seq(Job) /\ OneJobEach(queue', worker, results, InFlight(route'))
         /\ Handed
    <2>1. OneJobEach(queue, worker, results, InFlight(r))
      BY <1>2, <1>10
    <2> QED
      BY <2>1, <1>1, <1>2, <1>7, <1>8, <1>10, <1>11, PostKeeps DEF Handed
  <1>13. TasksType'
    <2>1. reloads' \in 0 .. MaxReloads
      BY <1>1, PoolAssumption DEF PoolInv, TasksType
    <2> QED
      BY <2>1, <1>1, <1>12 DEF PoolInv, TasksType
  <1>14. JobsInv' /\ VerdictInv'
    BY <1>1, <1>12 DEF PoolInv, JobsInv, VerdictInv
  <1>15. Held' = Held
    BY <1>1, <1>12 DEF Held
  <1> QED
    BY <1>12, <1>13, <1>14, <1>15 DEF Sound, PoolInv

(* What a result makes of the slot.                                        *)
LEMMA AfterResultProperty ==
  ASSUME NEW s \in Slot, s.phase = "open", NEW kind \in Kinds
  PROVE  /\ AfterResult(s, kind) \in Slot /\ ~AfterResult(s, kind).inFlight
         /\ AfterResult(s, kind).signers = s.signers
         /\ AfterResult(s, kind).phase # "absent"
         /\ AfterResult(s, kind).phase # "open" => kind \in {"Delivered", "Terminal"}
  <1> DEFINE l == [s EXCEPT !.inFlight = FALSE]
  <1>1. l \in Slot /\ ~l.inFlight /\ l.signers = s.signers /\ l.phase = "open"
    BY DEF Slot
  <1>2. CASE kind = "Delivered"
    <2>1. AfterResult(s, kind) = [l EXCEPT !.phase = "delivered"]
      BY <1>2 DEF AfterResult
    <2> HIDE DEF l
    <2> QED
      BY <2>1, <1>1, <1>2 DEF Slot, Phases
  <1>3. CASE kind = "Terminal"
    <2>1. AfterResult(s, kind) = [l EXCEPT !.phase = "terminal"]
      BY <1>3 DEF AfterResult
    <2> HIDE DEF l
    <2> QED
      BY <2>1, <1>1, <1>3 DEF Slot, Phases
  <1>4. CASE kind = "AwaitingVotes"
    <2>1. AfterResult(s, kind) = [l EXCEPT !.probeDue = FALSE, !.accepted = FALSE, !.backoff = FALSE]
      BY <1>4 DEF AfterResult
    <2> HIDE DEF l
    <2> QED
      BY <2>1, <1>1 DEF Slot
  <1>5. CASE kind = "AwaitingExecution"
    <2>1. AfterResult(s, kind) = [l EXCEPT !.probeDue = FALSE, !.accepted = TRUE, !.backoff = TRUE]
      BY <1>5 DEF AfterResult
    <2> HIDE DEF l
    <2> QED
      BY <2>1, <1>1 DEF Slot
  <1>6. CASE kind = "Retryable"
    <2>1. AfterResult(s, kind) = [l EXCEPT !.backoff = TRUE]
      BY <1>6 DEF AfterResult
    <2> HIDE DEF l
    <2> QED
      BY <2>1, <1>1 DEF Slot
  <1> QED
    BY <1>2, <1>3, <1>4, <1>5, <1>6 DEF Kinds

\* The route with another slot for m.
WithSlot(r, m, s) == [r EXCEPT !.slots = [r.slots EXCEPT ![m] = s]]

(* A new slot for a message that has one.                                  *)
LEMMA OneSlot ==
  ASSUME NEW r, Tables(r), Current(r), NEW m \in Loaded(r), NEW s \in Slot,
         s.phase # "absent", s.signers = r.slots[m].signers,
         s.phase = "open" => m \in Open(r), NEW q, q = WithSlot(r, m, s)
  PROVE  /\ Tables(q) /\ Current(q) /\ Loaded(q) = Loaded(r)
         /\ s.phase = "open" => Open(q) = Open(r)
         /\ s.phase # "open" => Open(q) = Open(r) \ {m}
         /\ s.phase = "open" /\ s.inFlight = r.slots[m].inFlight => InFlight(q) = InFlight(r)
         /\ ~s.inFlight => InFlight(q) = InFlight(r) \ {m}
  <1> DEFINE f == [r.slots EXCEPT ![m] = s]
  <1>1. r \in Routes /\ r.slots \in [Messages -> Slot] /\ m \in Messages
        /\ r.slots[m].phase # "absent"
    BY DEF Tables, Routes, Loaded
  <1>2. f \in [Messages -> Slot] /\ f[m] = s /\ \A x \in Messages : x # m => f[x] = r.slots[x]
    BY <1>1
  <1>0. q = [r EXCEPT !.slots = f]
    BY DEF WithSlot
  <1> HIDE DEF f
  <1>3. /\ q \in Routes /\ q.slots = f /\ q.order = r.order /\ q.cache_max = r.cache_max
        /\ q.attestors = r.attestors /\ q.early = r.early
    BY <1>0, <1>1, <1>2 DEF Routes
  <1>4. \A x \in Messages : q.slots[x].phase = "absent" <=> r.slots[x].phase = "absent"
    BY <1>1, <1>2, <1>3
  <1>5. Tables(q) /\ Loaded(q) = Loaded(r)
    BY <1>3, <1>4, SlotsKeep
  <1>6. /\ s.phase = "open" => Open(q) = Open(r)
        /\ s.phase # "open" => Open(q) = Open(r) \ {m}
    BY <1>1, <1>2, <1>3 DEF Open
  <1>7. \A x \in Open(q) : x # m => q.slots[x].inFlight = r.slots[x].inFlight
    <2>1. \A x \in Open(q) : x \in Messages
      BY DEF Open
    <2> QED
      BY <2>1, <1>2, <1>3
  <1>8. q.slots[m].inFlight = s.inFlight
    BY <1>2, <1>3
  <1>9. s.phase = "open" /\ s.inFlight = r.slots[m].inFlight => InFlight(q) = InFlight(r)
    BY <1>6, <1>7, <1>8 DEF InFlight
  <1>10. ~s.inFlight => InFlight(q) = InFlight(r) \ {m}
    BY <1>6, <1>7, <1>8 DEF InFlight
  <1>11. Current(q)
    <2> SUFFICES ASSUME NEW x \in Messages
                 PROVE  /\ \A z \in q.slots[x].signers \cup q.early[x] : <<x, z>> \in Signed
                        /\ x \in Open(q) => q.slots[x].signers \subseteq q.attestors
      BY DEF Current
    <2>1. q.slots[x].signers = r.slots[x].signers
      BY <1>2, <1>3
    <2>2. x \in Open(q) => x \in Open(r)
      BY <1>6
    <2> QED
      BY <2>1, <2>2, <1>3 DEF Current
  <1> QED
    BY <1>5, <1>6, <1>9, <1>10, <1>11

(* A result that is taken was the one job of its message.                  *)
LEMMA TakenResult ==
  ASSUME NEW q, NEW w, NEW x, NEW F, OneJobEach(q, w, x, F), NEW y \in x
  PROVE  y.msg \in F /\ OneJobEach(q, w, x \ {y}, F \ {y.msg})
  <1>1. Msgs(x \ {y}) = Msgs(x) \ {y.msg}
    BY DEF OneJobEach, Msgs
  <1>2. y.msg \in Msgs(x)
    BY DEF Msgs
  <1>3. \A a, b \in x \ {y} : a.msg = b.msg => a = b
    BY DEF OneJobEach
  <1>4. /\ \A i, j \in DOMAIN q : q[i].msg = q[j].msg => i = j
        /\ \A j, k \in w : j = k
    BY Zenon DEF OneJobEach
  <1>5. /\ Msgs(ToSet(q)) \cap Msgs(w) = {} /\ Msgs(ToSet(q)) \cap Msgs(x) = {}
        /\ Msgs(w) \cap Msgs(x) = {} /\ Msgs(ToSet(q)) \cup Msgs(w) \cup Msgs(x) = F
    BY Zenon DEF OneJobEach
  <1>6. /\ Msgs(ToSet(q)) \cap Msgs(x \ {y}) = {} /\ Msgs(w) \cap Msgs(x \ {y}) = {}
        /\ Msgs(ToSet(q)) \cup Msgs(w) \cup Msgs(x \ {y}) = F \ {y.msg}
    BY <1>1, <1>2, <1>5
  <1>7. y.msg \in F
    BY <1>2, <1>5
  <1> QED
    BY <1>3, <1>4, <1>5, <1>6, <1>7, Zenon DEF OneJobEach

(* note_delivery_result.                                                   *)
LEMMA TakeResultStep ==
  ASSUME PoolInv, NEW x \in results, TakeResult(x)
  PROVE  Sound
  <1> DEFINE m == x.msg
             s == AfterResult(route.slots[m], x.kind)
             final == x.kind \in {"Delivered", "Terminal"}
  <1>1. /\ Tables(route) /\ Current(route) /\ OneJobEach(queue, worker, results, InFlight(route))
        /\ route \in Routes /\ route.slots \in [Messages -> Slot]
        /\ x \in Result /\ m \in Messages /\ x.kind \in Kinds
    BY DEF PoolInv, JobsInv, TasksType, Tables, Routes, Result
  <1>2. m \in InFlight(route) /\ OneJobEach(queue, worker, results \ {x}, InFlight(route) \ {m})
    BY <1>1, TakenResult
  <1>3. m \in Open(route) /\ m \in Loaded(route) /\ route.slots[m].phase = "open"
    BY <1>2 DEF InFlight, Open, Loaded
  <1>4. /\ results' = results \ {x}
        /\ records' = IF final THEN records \ {m} ELSE records
        /\ route' = [route EXCEPT !.slots[m] = AfterResult(@, x.kind)]
        /\ UNCHANGED <<arriving, deferred, queue, worker, verdict, reloads>>
    BY <1>3 DEF TakeResult
  <1>5. route' = WithSlot(route, m, s)
    BY <1>1, <1>4 DEF Routes, WithSlot
  <1>6. /\ s \in Slot /\ ~s.inFlight /\ s.signers = route.slots[m].signers
        /\ s.phase # "absent" /\ (s.phase # "open" => final)
    BY <1>1, <1>3, AfterResultProperty
  <1> HIDE DEF s
  <1>7. /\ Tables(route') /\ Current(route') /\ Loaded(route') = Loaded(route)
        /\ s.phase = "open" => Open(route') = Open(route)
        /\ s.phase # "open" => Open(route') = Open(route) \ {m}
        /\ InFlight(route') = InFlight(route) \ {m}
    <2> HIDE DEF m
    <2>1. /\ Tables(route) /\ Current(route) /\ m \in Loaded(route) /\ s \in Slot
          /\ s.phase # "absent" /\ s.signers = route.slots[m].signers
          /\ m \in Open(route)
      BY <1>1, <1>3, <1>6, Zenon
    <2>2. ~s.inFlight
      BY <1>6, Zenon
    <2>3. Tables(route') /\ Current(route') /\ Loaded(route') = Loaded(route)
      BY <2>1, <1>5, OneSlot, Zenon
    <2>4. s.phase = "open" => Open(route') = Open(route)
      BY <2>1, <1>5, OneSlot
    <2>5. s.phase # "open" => Open(route') = Open(route) \ {m}
      BY <2>1, <1>5, OneSlot
    <2>6. InFlight(route') = InFlight(route) \ {m}
      BY <2>1, <2>2, <1>5, OneSlot
    <2> QED
      BY <2>3, <2>4, <2>5, <2>6, Zenon
  <1>8. JobsInv'
    BY <1>2, <1>4, <1>7 DEF JobsInv
  <1>9. final => m \in verdict
    BY DEF PoolInv, VerdictInv
  <1>10. Resolved(route') \subseteq verdict
    BY <1>6, <1>7, <1>9 DEF Resolved, PoolInv, VerdictInv
  <1> HIDE DEF final
  <1>11. TasksType' /\ Handed
    BY <1>4 DEF PoolInv, TasksType, Handed
  <1>12. VerdictInv'
    BY <1>4, <1>9, <1>10 DEF PoolInv, VerdictInv
  <1>13. Held \ Held' \subseteq verdict
    BY <1>4, <1>7, <1>9 DEF Held
  <1> QED
    BY <1>7, <1>8, <1>11, <1>12, <1>13 DEF Sound, PoolInv

(* The prune tick: prune_expired, refill with its rotation, and dispatch.  *)
LEMMA TickStep ==
  ASSUME PoolInv, NEW old, NEW stale \in Nat, NEW aged \in Nat, Tick(old, stale, aged)
  PROVE  Sound
  <1> DEFINE p == PruneExpired(route, old, stale)
             cands == Candidates(p, aged)
  <1>1. PICK pending \in IF Persistent THEN Pending(p, Capacity(p) + Len(cands)) ELSE {<<>>} :
          LET out == Rotated(p, pending, cands)
              r == Load(Drop(p, out), pending)
          IN records' = records \cup out /\ Post(r, {m \in Messages : Ready(r, m, TRUE)})
    BY DEF Tick
  <1>2. UNCHANGED <<arriving, deferred, worker, results, verdict, reloads>>
    BY DEF Tick
  <1> DEFINE out == Rotated(p, pending, cands)
             d == Drop(p, out)
             r == Load(d, pending)
             S == {m \in Messages : Ready(r, m, TRUE)}
  <1>3. records' = records \cup out /\ Post(r, S)
    BY <1>1
  <1>4. /\ Tables(route) /\ Current(route) /\ queue \in Seq(Job) /\ records \subseteq Messages
        /\ OneJobEach(queue, worker, results, InFlight(route))
    BY DEF PoolInv, TasksType, JobsInv
  <1>5. Keeps(route, p)
    BY <1>4, PruneKeeps
  <1> HIDE DEF p
  <1>6. Tables(p) /\ Current(p) /\ p.order \in Seq(Messages) /\ p.cache_max \in Nat
    BY <1>5, PoolAssumption DEF Keeps, Same, Tables, Routes
  <1>7. pending \in Seq(Messages)
    <2>1. CASE Persistent
      <3>1. PICK T \in SUBSET (records \ Loaded(p)) : pending \in SetToSeqs(T)
        BY <1>1, <2>1 DEF Pending
      <3>2. T \subseteq Messages /\ IsFiniteSet(T)
        BY <3>1, <1>4, PoolAssumption, FS_Subset
      <3>3. pending \in Seq(T)
        BY <3>1, <3>2, SetToSeqsLists
      <3> QED
        BY <3>2, <3>3
    <2>2. CASE ~Persistent
      BY <1>1, <2>2
    <2> QED
      BY <2>1, <2>2
  <1>8. cands \in Seq(Messages) /\ ToSet(cands) \subseteq Open(p) \ InFlight(p)
    <2> DEFINE X == {m \in Open(p) : ~p.slots[m].inFlight}
               o == Upto(p.order, aged)
               w == Without(o, Messages \ X)
               n == IF p.cache_max \div 4 > 1 THEN p.cache_max \div 4 ELSE 1
    <2>1. cands = Upto(w, n)
      BY DEF Candidates
    <2>2. n \in Nat
      BY <1>6
    <2>3. o \in Seq(Messages)
      BY <1>6, UptoProperty
    <2> HIDE DEF o, X, n
    <2>4. w \in Seq(Messages) /\ ToSet(w) = ToSet(o) \ (Messages \ X)
      BY <2>3, WithoutProperty
    <2> HIDE DEF w
    <2>5. Upto(w, n) \in Seq(Messages) /\ ToSet(Upto(w, n)) \subseteq ToSet(w)
      BY <2>2, <2>4, UptoProperty
    <2>6. ToSet(o) \subseteq Messages
      BY <2>3 DEF ToSet
    <2>7. X \subseteq Open(p) \ InFlight(p)
      BY DEF X, InFlight
    <2> HIDE DEF cands
    <2> QED
      BY <2>1, <2>4, <2>5, <2>6, <2>7
  <1> HIDE DEF cands
  <1>9. out \subseteq Open(p) \ InFlight(p) /\ out \subseteq Messages
    <2> DEFINE e == Len(pending) - Capacity(p)
               k == IF e > 0 THEN e ELSE 0
    <2>1. Capacity(p) \in Nat
      BY <1>6, TablesAreFinite DEF Capacity
    <2>2. k \in Nat
      BY <2>1, <1>7
    <2>3. out = ToSet(Upto(cands, k))
      BY DEF Rotated
    <2> HIDE DEF k
    <2>4. ToSet(Upto(cands, k)) \subseteq ToSet(cands)
      BY <2>2, <1>8, UptoProperty
    <2>5. Open(p) \subseteq Messages
      BY DEF Open
    <2> QED
      BY <2>3, <2>4, <2>5, <1>8
  <1> HIDE DEF out
  <1>10. Same(p, d) /\ Loaded(d) = Loaded(p) \ out /\ Open(d) = Open(p) \ out
    <2>1. out \cap InFlight(p) = {}
      BY <1>9
    <2> QED
      BY <2>1, <1>6, DropKeeps
  <1> HIDE DEF d
  <1>11. Tables(d) /\ Current(d)
    BY <1>10 DEF Same
  <1>12. Keeps(d, r)
    BY <1>7, <1>11, LoadKeeps
  <1> HIDE DEF r
  <1>13. Tables(r) /\ Current(r) /\ InFlight(r) = InFlight(route)
    BY <1>5, <1>10, <1>12 DEF Keeps, Same
  <1>14. Resolved(r) \subseteq Resolved(route) /\ Loaded(route) \ Loaded(r) \subseteq Resolved(route) \cup out
    <2>1. Resolved(d) \subseteq Resolved(p)
      BY <1>10 DEF Resolved
    <2> QED
      BY <2>1, <1>5, <1>10, <1>12 DEF Keeps
  <1>15. S \in SUBSET Open(r) /\ S \cap InFlight(r) = {}
    BY ReadyIsOpen
  <1> HIDE DEF S
  <1>16. /\ Tables(route') /\ Current(route')
         /\ Loaded(route') = Loaded(r) /\ Resolved(route') = Resolved(r)
         /\ queue' \in Seq(Job) /\ OneJobEach(queue', worker, results, InFlight(route'))
         /\ Handed
    <2>1. OneJobEach(queue, worker, results, InFlight(r))
      BY <1>4, <1>13
    <2> QED
      BY <2>1, <1>3, <1>4, <1>13, <1>15, PostKeeps DEF Handed
  <1>17. TasksType'
    BY <1>2, <1>3, <1>9, <1>16 DEF PoolInv, TasksType
  <1>18. JobsInv' /\ VerdictInv'
    <2>1. JobsInv'
      BY <1>2, <1>16 DEF JobsInv
    <2> QED
      BY <2>1, <1>2, <1>3, <1>14, <1>16 DEF PoolInv, VerdictInv
  <1>19. Held \ Held' \subseteq verdict
    BY <1>2, <1>3, <1>14, <1>16 DEF Held, PoolInv, VerdictInv
  <1> QED
    BY <1>16, <1>17, <1>18, <1>19 DEF Sound, PoolInv

(* Time passes for a slot.                                                 *)
LEMMA TimeStep ==
  ASSUME PoolInv, NEW m \in Messages, BackoffElapses(m) \/ ProbeElapses(m)
  PROVE  Sound
  <1> DEFINE s == IF BackoffElapses(m) THEN [route.slots[m] EXCEPT !.backoff = FALSE]
                  ELSE [route.slots[m] EXCEPT !.probeDue = TRUE]
  <1>1. /\ Tables(route) /\ Current(route) /\ m \in Open(route)
        /\ route \in Routes /\ route.slots \in [Messages -> Slot]
    BY DEF PoolInv, Tables, Routes, BackoffElapses, ProbeElapses
  <1>2. m \in Loaded(route) /\ route.slots[m].phase = "open" /\ route.slots[m] \in Slot
    BY <1>1 DEF Open, Loaded
  <1>3. route' = WithSlot(route, m, s)
    <2>1. CASE BackoffElapses(m)
      BY <2>1, <1>1 DEF BackoffElapses, WithSlot, Routes
    <2>2. CASE ~BackoffElapses(m)
      <3>1. ProbeElapses(m)
        BY <2>2
      <3> QED
        BY <2>2, <3>1, <1>1 DEF ProbeElapses, WithSlot, Routes
    <2> QED
      BY <2>1, <2>2
  <1>4. UNCHANGED <<arriving, deferred, records, queue, worker, results, verdict, reloads>>
    BY DEF BackoffElapses, ProbeElapses
  <1>5. /\ s \in Slot /\ s.phase = "open" /\ s.signers = route.slots[m].signers
        /\ s.inFlight = route.slots[m].inFlight
    BY <1>2 DEF Slot
  <1> HIDE DEF s
  <1>6. /\ Tables(route') /\ Current(route') /\ Loaded(route') = Loaded(route)
        /\ Open(route') = Open(route) /\ InFlight(route') = InFlight(route)
    BY <1>1, <1>2, <1>3, <1>5, OneSlot
  <1>7. Resolved(route') = Resolved(route)
    BY <1>6 DEF Resolved
  <1>8. TasksType' /\ JobsInv' /\ VerdictInv' /\ Handed
    BY <1>4, <1>6, <1>7 DEF PoolInv, TasksType, JobsInv, VerdictInv, Handed
  <1>9. Held' = Held
    BY <1>4, <1>6 DEF Held
  <1> QED
    BY <1>6, <1>8, <1>9 DEF Sound, PoolInv

(* The Outbox watcher.                                                     *)
LEMMA IndexStep ==
  ASSUME PoolInv, NEW m \in Messages, Index(m)
  PROVE  Sound
  <1>1. /\ arriving' = Append(arriving, m)
        /\ records' = IF Persistent THEN records \cup {m} ELSE records
        /\ UNCHANGED <<route, deferred, queue, worker, results, verdict, reloads>>
    BY DEF Index
  <1>2. arriving' \in Seq(Messages) /\ ToSet(arriving') = ToSet(arriving) \cup {m}
    <2> DEFINE t == Append(arriving, m)
    <2>1. /\ arriving \in Seq(Messages) /\ Len(arriving) \in Nat /\ DOMAIN arriving = 1 .. Len(arriving)
      BY DEF PoolInv, TasksType
    <2>2. /\ t \in Seq(Messages) /\ DOMAIN t = 1 .. Len(arriving) + 1 /\ t[Len(arriving) + 1] = m
          /\ \A k \in 1 .. Len(arriving) : t[k] = arriving[k]
      BY <2>1
    <2> HIDE DEF t
    <2>3. ToSet(t) = ToSet(arriving) \cup {m}
      BY <2>1, <2>2 DEF ToSet
    <2> QED
      BY <2>2, <2>3, <1>1 DEF t
  <1>3. TasksType'
    BY <1>1, <1>2 DEF PoolInv, TasksType
  <1>4. Tables(route') /\ Current(route') /\ JobsInv' /\ Handed
    BY <1>1 DEF PoolInv, JobsInv, Handed
  <1>5. VerdictInv'
    BY <1>1, <1>2 DEF PoolInv, VerdictInv
  <1>6. Held \ Held' \subseteq verdict
    BY <1>1, <1>2 DEF Held
  <1> QED
    BY <1>3, <1>4, <1>5, <1>6 DEF Sound, PoolInv

(* The worker takes the next job.                                          *)
LEMMA WorkerTakesStep ==
  ASSUME PoolInv, WorkerTakes
  PROVE  Sound
  <1> DEFINE j == Head(queue)
             t == Tail(queue)
  <1>1. /\ worker = {} /\ queue # <<>> /\ queue' = t /\ worker' = {j}
        /\ UNCHANGED <<route, arriving, deferred, records, results, verdict, reloads>>
    BY DEF WorkerTakes
  <1>2. /\ queue \in Seq(Job) /\ OneJobEach(queue, worker, results, InFlight(route))
    BY DEF PoolInv, TasksType, JobsInv
  <1>3. /\ j \in Job /\ t \in Seq(Job) /\ 1 \in DOMAIN queue /\ queue[1] = j
        /\ ToSet(queue) = {j} \cup ToSet(t)
        /\ \A i \in DOMAIN t : i + 1 \in DOMAIN queue /\ t[i] = queue[i + 1] /\ i \in Nat \ {0}
    BY <1>1, <1>2, HeadAndTail
  <1> HIDE DEF j, t
  <1>4. Msgs(ToSet(queue)) = {j.msg} \cup Msgs(ToSet(t)) /\ Msgs({j}) = {j.msg} /\ Msgs({}) = {}
    BY <1>3 DEF Msgs
  <1>5. ASSUME NEW i \in DOMAIN t, NEW k \in DOMAIN t, t[i].msg = t[k].msg PROVE i = k
    <2>1. i + 1 = k + 1
      BY <1>2, <1>3, <1>5 DEF OneJobEach
    <2> QED
      BY <2>1, <1>3
  <1>6. j.msg \notin Msgs(ToSet(t))
    <2>1. ASSUME NEW i \in DOMAIN t, t[i].msg = j.msg PROVE FALSE
      <3>1. i + 1 = 1
        BY <1>2, <1>3, <2>1 DEF OneJobEach
      <3> QED
        BY <3>1, <1>3
    <2> QED
      BY <2>1 DEF Msgs, ToSet
  <1>7. OneJobEach(t, {j}, results, InFlight(route))
    <2>1. /\ \A y, z \in results : y.msg = z.msg => y = z
          /\ Msgs(ToSet(queue)) \cap Msgs(results) = {}
          /\ Msgs(ToSet(queue)) \cup Msgs(worker) \cup Msgs(results) = InFlight(route)
      BY <1>2, Zenon DEF OneJobEach
    <2>2. \A i, k \in DOMAIN t : t[i].msg = t[k].msg => i = k
      BY <1>5
    <2>3. \A a, b \in {j} : a = b
      OBVIOUS
    <2>4. /\ Msgs(ToSet(t)) \cap Msgs({j}) = {} /\ Msgs(ToSet(t)) \cap Msgs(results) = {}
          /\ Msgs({j}) \cap Msgs(results) = {}
      BY <2>1, <1>4, <1>6
    <2>5. Msgs(ToSet(t)) \cup Msgs({j}) \cup Msgs(results) = InFlight(route)
      BY <2>1, <1>1, <1>4
    <2> QED
      BY <2>1, <2>2, <2>3, <2>4, <2>5, Zenon DEF OneJobEach
  <1>8. TasksType'
    BY <1>1, <1>3 DEF PoolInv, TasksType
  <1>9. Tables(route') /\ Current(route') /\ JobsInv' /\ VerdictInv'
    BY <1>1, <1>7 DEF PoolInv, JobsInv, VerdictInv
  <1>10. Handed
    <2>1. ToSet(queue') \ ToSet(queue) = {}
      BY <1>1, <1>3
    <2> QED
      BY <2>1 DEF Handed
  <1>11. Held' = Held
    BY <1>1 DEF Held
  <1> QED
    BY <1>8, <1>9, <1>10, <1>11 DEF Sound, PoolInv

(* The worker reports on the job it is on.                                 *)
LEMMA WorkerReportsStep ==
  ASSUME PoolInv, NEW j \in worker, NEW kind \in Kinds, WorkerReports(j, kind)
  PROVE  Sound
  <1> DEFINE y == [msg |-> j.msg, kind |-> kind]
             final == kind \in {"Delivered", "Terminal"}
  <1>1. /\ worker' = {} /\ results' = results \cup {y}
        /\ verdict' = IF final THEN verdict \cup {j.msg} ELSE verdict
        /\ UNCHANGED <<route, arriving, deferred, records, queue, reloads>>
    BY DEF WorkerReports
  <1>2. /\ j \in Job /\ j.msg \in Messages
        /\ OneJobEach(queue, worker, results, InFlight(route))
    BY DEF PoolInv, TasksType, JobsInv, Job
  <1>3. y \in Result /\ y.msg = j.msg /\ y.kind = kind
    BY <1>2 DEF Result
  <1> HIDE DEF y
  <1>4. worker = {j}
    BY <1>2 DEF OneJobEach
  <1>5. /\ Msgs(worker) = {j.msg} /\ Msgs({}) = {}
        /\ Msgs(results \cup {y}) = Msgs(results) \cup {j.msg}
    BY <1>3, <1>4 DEF Msgs
  <1>6. \A x \in results : x.msg # j.msg
    <2>1. Msgs(worker) \cap Msgs(results) = {}
      BY <1>2 DEF OneJobEach
    <2> QED
      BY <2>1, <1>5 DEF Msgs
  <1>7. OneJobEach(queue, {}, results \cup {y}, InFlight(route))
    <2>1. \A a, b \in results \cup {y} : a.msg = b.msg => a = b
      BY <1>2, <1>3, <1>6 DEF OneJobEach
    <2> QED
      BY <2>1, <1>2, <1>5 DEF OneJobEach
  <1>8. verdict' \subseteq Messages /\ verdict \subseteq verdict' /\ (final => j.msg \in verdict')
    BY <1>1, <1>2 DEF PoolInv, TasksType
  <1>9. TasksType'
    BY <1>1, <1>3, <1>8 DEF PoolInv, TasksType
  <1>10. Tables(route') /\ Current(route') /\ JobsInv' /\ Handed
    BY <1>1, <1>7 DEF PoolInv, JobsInv, Handed
  <1>11. VerdictInv'
    <2>1. \A x \in results' : x.kind \in {"Delivered", "Terminal"} => x.msg \in verdict'
      BY <1>1, <1>3, <1>8 DEF PoolInv, VerdictInv
    <2> QED
      BY <2>1, <1>1, <1>8 DEF PoolInv, VerdictInv
  <1>12. Held' = Held
    BY <1>1 DEF Held
  <1> QED
    BY <1>9, <1>10, <1>11, <1>12 DEF Sound, PoolInv

(* The pool starts with empty tables.                                      *)
LEMMA InitStep ==
  ASSUME Init
  PROVE  PoolInv
  <1> DEFINE f == [m \in Messages |-> Absent]
             e == [m \in Messages |-> {}]
  <1>1. PICK cap \in CacheSizes :
          route = [cache_max |-> cap, attestors |-> FirstSet.attestors,
                   threshold |-> FirstSet.threshold, slots |-> f, order |-> <<>>,
                   early |-> e, earlyOrder |-> <<>>]
    BY DEF Init
  <1>2. f \in [Messages -> Slot] /\ e \in [Messages -> SUBSET Signers]
    BY NewSlots
  <1>3. \A m \in Messages : f[m] = Absent /\ e[m] = {}
    OBVIOUS
  <1>4. FirstSet.attestors \in SUBSET Signers /\ FirstSet.threshold \in Nat /\ cap \in Nat
    BY PoolAssumption
  <1> HIDE DEF f, e
  <1>5. /\ route \in Routes /\ route.slots = f /\ route.order = <<>> /\ route.early = e
        /\ route.cache_max = cap
    BY <1>1, <1>2, <1>4 DEF Routes
  <1>6. Loaded(route) = {} /\ Open(route) = {}
    BY <1>3, <1>5, NewSlots DEF Loaded, Open
  <1>7. InFlight(route) = {} /\ Resolved(route) = {}
    BY <1>6 DEF InFlight, Resolved
  <1>8. DOMAIN <<>> = {}
    OBVIOUS
  <1>9. ToSet(<<>>) = {} /\ IsInjective(<<>>)
    BY <1>8, Zenon DEF ToSet, IsInjective
  <1>10. Tables(route)
    <2>1. Lists(route.order, Loaded(route))
      BY <1>5, <1>6, <1>9 DEF Lists
    <2>2. Cardinality(Loaded(route)) <= route.cache_max
      BY <1>4, <1>5, <1>6, FS_EmptySet
    <2> QED
      BY <2>1, <2>2, <1>5 DEF Tables
  <1>11. Current(route)
    BY <1>3, <1>5, <1>6, NewSlots DEF Current
  <1>12. /\ records \subseteq Messages /\ arriving = <<>> /\ deferred = {} /\ queue = <<>>
         /\ worker = {} /\ results = {} /\ verdict = {} /\ reloads = 0
    <2>1. records \in SUBSET Messages
      <3>1. CASE Persistent
        BY <3>1 DEF Init
      <3>2. CASE ~Persistent
        BY <3>2 DEF Init
      <3> QED
        BY <3>1, <3>2
    <2> QED
      BY <2>1 DEF Init
  <1>13. TasksType
    BY <1>12, PoolAssumption DEF TasksType
  <1>14. JobsInv
    <2>1. Msgs(ToSet(queue)) = {} /\ Msgs(worker) = {} /\ Msgs(results) = {} /\ DOMAIN queue = {}
      BY <1>8, <1>9, <1>12 DEF Msgs
    <2> QED
      BY <2>1, <1>7, <1>12 DEF JobsInv, OneJobEach
  <1>15. VerdictInv
    BY <1>7, <1>9, <1>12 DEF VerdictInv
  <1> QED
    BY <1>10, <1>11, <1>13, <1>14, <1>15 DEF PoolInv

(* Every step of the pool and of its neighbours.                           *)
LEMMA EveryStep ==
  ASSUME PoolInv, [Next]_vars
  PROVE  Sound
  <1>1. CASE UNCHANGED vars
    <2>1. PoolInv'
      BY <1>1 DEF vars, PoolInv, TasksType, JobsInv, VerdictInv
    <2>2. Handed
      BY <1>1 DEF vars, Handed
    <2>3. Held' = Held
      BY <1>1 DEF vars, Held
    <2> QED
      BY <2>1, <2>2, <2>3 DEF Sound
  <1>2. ASSUME NEW m \in Messages, AdmitDeferred(m) PROVE Sound
    BY <1>2, AdmitDeferredStep
  <1>3. ASSUME NEW m \in Messages, Index(m) PROVE Sound
    BY <1>3, IndexStep
  <1>4. ASSUME NEW m \in Messages, BackoffElapses(m) \/ ProbeElapses(m) PROVE Sound
    BY <1>4, TimeStep
  <1>5. ASSUME NEW v \in Votes, NoteVote(v),
               v.recovered \in {NoSigner} \cup {s \in Signers : <<v.msg, s>> \in Signed}
        PROVE  Sound
    BY <1>5, NoteVoteStep
  <1>6. ASSUME NEW u \in Reloads, ApplySet(u) PROVE Sound
    BY <1>6, ApplySetStep
  <1>7. ASSUME NEW x \in results, TakeResult(x) PROVE Sound
    BY <1>7, TakeResultStep
  <1>8. ASSUME NEW old \in 0 .. Len(route.order), NEW aged \in 0 .. Len(route.order),
               NEW stale \in 0 .. Len(route.earlyOrder), Tick(old, stale, aged)
        PROVE  Sound
    <2>1. aged \in Nat /\ stale \in Nat
      OBVIOUS
    <2> QED
      BY <2>1, <1>8, TickStep
  <1>9. ASSUME NEW j \in worker, NEW kind \in Kinds, WorkerReports(j, kind) PROVE Sound
    BY <1>9, WorkerReportsStep
  <1>10. CASE Receive
    BY <1>10, ReceiveStep
  <1>11. CASE WorkerTakes
    BY <1>11, WorkerTakesStep
  <1> QED
    BY <1>1, <1>2, <1>3, <1>4, <1>5, <1>6, <1>7, <1>8, <1>9, <1>10, <1>11 DEF Next

-----------------------------------------------------------------------------
(***************************************************************************)
(* The theorems.                                                           *)
(***************************************************************************)
(* PoolInv is inductive: the tables, the votes, the jobs and the verdicts  *)
(* agree, after any arm of the loop and any step of its neighbours.        *)
THEOREM PoolInvariant == Spec => []PoolInv
  <1>1. Init => PoolInv
    BY InitStep
  <1>2. PoolInv /\ [Next]_vars => PoolInv'
    BY EveryStep DEF Sound
  <1> QED
    BY <1>1, <1>2, PTL DEF Spec

(* Types, and the insertion order lists the slots of the table exactly     *)
(* once each, through note_indexed, make_room, prune_expired and refill.   *)
THEOREM PoolTypeCorrect == Spec => []TypeOK
  <1>1. PoolInv => TypeOK
    <2> SUFFICES ASSUME PoolInv PROVE TypeOK
      OBVIOUS
    <2>1. Cardinality(deferred) <= 1
      <3>1. CASE deferred = {}
        BY <3>1, FS_EmptySet
      <3>2. CASE deferred # {}
        <4>1. PICK m : m \in deferred
          BY <3>2
        <4>2. \A n \in deferred : m = n
          BY <4>1, Zenon DEF PoolInv, TasksType
        <4>3. deferred = {m}
          BY <4>1, <4>2
        <4>4. Cardinality({m}) = 1
          BY FS_Singleton, Zenon
        <4> QED
          BY <4>3, <4>4
      <3> QED
        BY <3>1, <3>2
    <2> QED
      BY <2>1 DEF PoolInv, TasksType, Tables, Routes, Lists, TypeOK
  <1> QED
    BY <1>1, PoolInvariant, PTL

(* in_flight is exact: a message has one job under way when its slot is in *)
(* flight, and none else (dispatch_if_ready, requeue_delivery,             *)
(* note_delivery_result, refill, make_room).                               *)
THEOREM OneJob == Spec => []OneJobPerMessage
  <1>1. PoolInv => OneJobPerMessage
    <2> SUFFICES ASSUME PoolInv, NEW m \in Messages
                 PROVE  UnderWay(m) = IF m \in Open(route) /\ route.slots[m].inFlight
                                      THEN 1 ELSE 0
      BY DEF OneJobPerMessage
    <2> DEFINE A == {i \in DOMAIN queue : queue[i].msg = m}
               B == {j \in worker : j.msg = m}
               C == {x \in results : x.msg = m}
               one(X) == X = {} \/ \E x : X = {x}
    <2>1. OneJobEach(queue, worker, results, InFlight(route))
      BY DEF PoolInv, JobsInv
    <2>2. one(A) /\ one(B) /\ one(C)
      <3>1. \A i, k \in A : i = k
        BY <2>1 DEF OneJobEach
      <3>2. \A i, k \in B : i = k
        BY <2>1 DEF OneJobEach
      <3>3. \A i, k \in C : i = k
        BY <2>1 DEF OneJobEach
      <3>4. ASSUME NEW X, \A i, k \in X : i = k PROVE one(X)
        <4>1. SUFFICES ASSUME NEW i \in X PROVE X = {i}
          OBVIOUS
        <4> QED
          BY <3>4
      <3> HIDE DEF A, B, C, one
      <3> QED
        BY <3>1, <3>2, <3>3, <3>4
    <2>3. /\ A # {} <=> m \in Msgs(ToSet(queue))
          /\ B # {} <=> m \in Msgs(worker)
          /\ C # {} <=> m \in Msgs(results)
      BY DEF Msgs, ToSet
    <2> HIDE DEF A, B, C
    <2>4. \A X : one(X) => Cardinality(X) = IF X = {} THEN 0 ELSE 1
      BY FS_EmptySet, FS_Singleton
    <2>5. /\ Cardinality(A) = IF A = {} THEN 0 ELSE 1
          /\ Cardinality(B) = IF B = {} THEN 0 ELSE 1
          /\ Cardinality(C) = IF C = {} THEN 0 ELSE 1
      <3> HIDE DEF one
      <3> QED
        BY <2>2, <2>4
    <2>6. /\ A = {} \/ B = {}
          /\ A = {} \/ C = {}
          /\ B = {} \/ C = {}
          /\ m \in InFlight(route) <=> A # {} \/ B # {} \/ C # {}
      BY <2>1, <2>3 DEF OneJobEach
    <2>7. m \in InFlight(route) <=> m \in Open(route) /\ route.slots[m].inFlight
      BY DEF InFlight
    <2>8. UnderWay(m) = Cardinality(A) + Cardinality(B) + Cardinality(C)
      BY DEF UnderWay, A, B, C
    <2>9. UnderWay(m) = IF m \in InFlight(route) THEN 1 ELSE 0
      BY <2>5, <2>6, <2>8
    <2> QED
      BY <2>7, <2>9
  <1> QED
    BY <1>1, PoolInvariant, PTL

(* Every vote held was signed by the one it is held under, and those of an *)
(* unfinished message are of today's attestors (note_vote,                 *)
(* buffer_early_vote, note_indexed, apply_attestor_set).                   *)
THEOREM VotesStayCurrent == Spec => []VotesAreCurrent
  <1>1. PoolInv => VotesAreCurrent
    BY DEF PoolInv, Current, VotesAreCurrent
  <1> QED
    BY <1>1, PoolInvariant, PTL

(* Jobs that carry votes carry a quorum of the set in force when they are  *)
(* handed over, and never under a threshold of zero (dispatch_if_ready).   *)
THEOREM BundlesAreQuorums == Spec => BundleIsQuorum
  <1>1. PoolInv /\ [Next]_vars => [Handed]_vars
    BY EveryStep DEF Sound
  <1> QED
    BY <1>1, PoolInvariant, PTL DEF Spec, BundleIsQuorum, Handed

(* A message once held is let go only after a final verdict, with or       *)
(* without a journal (pool::run, make_room, refill, prune_expired).        *)
THEOREM NothingIsDropped == Spec => NothingDropped
  <1>1. PoolInv /\ [Next]_vars => [Held \ Held' \subseteq verdict]_vars
    BY EveryStep DEF Sound
  <1> QED
    BY <1>1, PoolInvariant, PTL DEF Spec, NothingDropped

=============================================================================
