---------------------------- MODULE ClaimProofs -----------------------------
(***************************************************************************)
(* For every set of locks, block layout, cap and cursor setting, whatever  *)
(* reorganisations take back: nothing behind the claim submitter's saved   *)
(* cursor is lost in silence.                                              *)
(***************************************************************************)
EXTENDS Claim, SetLemmas

(* LocksAccountedFor says nothing of the cursor in memory, which a save    *)
(* copies to disk, nor of what a scan skips.  What is behind the cursor in *)
(* memory may still be in the queue, where its anchor holds the saved      *)
(* cursor back; what a scan skips because it is done was not lost.  What   *)
(* was claimed may be lost again, what the worker has released stays       *)
(* released: the invariant counts releases, and EvidenceInv says what they *)
(* rest on.                                                                *)
Ended == released \cup writtenOff

ScanAccountedFor ==
  pc # "down" =>
    \A t \in Txs \ Malformed : BlockOf[t] \in (origin + 1) .. lastSeen
                                 => t \in Ended \cup Tracked(seen)

SaveAccountedFor ==
  saved # NoBlock =>
    \A t \in Txs \ Malformed : BlockOf[t] \in (origin + 1) .. saved
                                 => t \in Ended

Anchored == \A t \in Tracked(seen) : 1 <= anchor[t] /\ anchor[t] <= BlockOf[t]

DoneAccountedFor == done \subseteq Ended

(* What the worker takes for paid is paid, or a reorganisation undid it    *)
(* after the worker had seen it.                                           *)
EvidenceInv == SeenPaid \subseteq claimed \cup undone

ClaimInv ==
  /\ TypeOK /\ Anchored /\ DoneAccountedFor /\ ScanAccountedFor /\ SaveAccountedFor
  /\ EvidenceInv

(* The constants, as the provers like them. *)
LEMMA Constants ==
  /\ IsFiniteSet(Txs) /\ BlockOf \in [Txs -> Nat]
  /\ \A t \in Txs : BlockOf[t] >= 1
  /\ Depth \in Nat /\ Lookback \in Nat /\ MaxHeight \in Nat /\ MaxFaults \in Nat
  /\ ScanSpan \in Nat \ {0} /\ QueueCap \in Nat \ {0} /\ DoneCap \in Nat \ {0}
  /\ PerTick \in Nat \ {0}
  /\ NoBlock \notin Nat /\ StartBlock \in Nat \cup {NoBlock}
  BY ClaimAssumption

(* The queue is a finite set of transactions. *)
LEMMA QueueFacts ==
  ASSUME TypeOK
  PROVE  /\ IsFiniteSet(Tracked(seen)) /\ Tracked(seen) \subseteq Txs
         /\ Cardinality(Tracked(seen)) \in Nat
  <1>1. Tracked(seen) \in SUBSET Txs
    BY DEF TypeOK, Tracked
  <1> QED
    BY <1>1, Constants, FS_Subset, FS_CardinalityType

(* A queue that starts or restarts empty is under its cap. *)
LEMMA EmptyQueue ==
  /\ Untracked(Txs) \in [Txs -> Nat] /\ Tracked(Untracked(Txs)) = {}
  /\ Cardinality(Tracked(Untracked(Txs))) <= QueueCap
  <1>1. Untracked(Txs) \in [Txs -> Nat] /\ Tracked(Untracked(Txs)) = {}
    BY DEF Untracked, Tracked
  <1> QED
    BY <1>1, FS_EmptySet, Constants

(* The cursors are block numbers, and a scan never moves one back. *)
LEMMA CursorFacts ==
  ASSUME TypeOK
  PROVE  /\ ResumeCursor \in Nat
         /\ saved # NoBlock => ResumeCursor <= saved
         /\ UpTo \in Nat
         /\ Max({lastSeen, UpTo}) = IF lastSeen >= UpTo THEN lastSeen ELSE UpTo
  <1>1. head \in Nat /\ lastSeen \in Nat /\ saved \in Nat \cup {NoBlock}
    BY DEF TypeOK
  <1>2. ResumeCursor \in Nat /\ (saved # NoBlock => ResumeCursor <= saved)
    <2>1. CASE saved # NoBlock
      <3>1. saved \in Nat /\ ResumeCursor = Max({0, saved - Lookback})
        BY <1>1, <2>1 DEF ResumeCursor
      <3> QED
        BY <3>1, Constants, MaxOfTwo
    <2>2. CASE saved = NoBlock /\ StartBlock # NoBlock
      <3>1. StartBlock \in Nat /\ ResumeCursor = Max({0, StartBlock - 1})
        BY <2>2, Constants DEF ResumeCursor
      <3> QED
        BY <2>2, <3>1, MaxOfTwo
    <2>3. CASE saved = NoBlock /\ StartBlock = NoBlock
      BY <1>1, <2>3 DEF ResumeCursor
    <2> QED
      BY <2>1, <2>2, <2>3
  <1>3. Confirmed \in Nat
    <2>1. Max({0, head - Depth}) = IF 0 >= head - Depth THEN 0 ELSE head - Depth
      BY <1>1, Constants, MaxOfTwo
    <2> QED
      BY <1>1, <2>1, Constants DEF Confirmed
  <1>4. UpTo \in Nat
    <2>1. lastSeen + ScanSpan \in Nat
      BY <1>1, Constants
    <2>2. Min({Confirmed, lastSeen + ScanSpan})
            = IF Confirmed <= lastSeen + ScanSpan
              THEN Confirmed ELSE lastSeen + ScanSpan
      BY <1>3, <2>1, MinOfTwo
    <2> QED
      BY <1>3, <2>1, <2>2 DEF UpTo
  <1>5. Max({lastSeen, UpTo}) = IF lastSeen >= UpTo THEN lastSeen ELSE UpTo
    BY <1>1, <1>4, MaxOfTwo
  <1> QED
    BY <1>2, <1>4, <1>5

(* A new worker owes nothing. *)
LEMMA InitClaimInv == Init => ClaimInv
  <1> SUFFICES ASSUME Init PROVE ClaimInv
    OBVIOUS
  <1>1. TypeOK
    BY Constants, EmptyQueue DEF Init, NothingTracked, TypeOK
  <1> QED
    BY <1>1, EmptyQueue
    DEF ClaimInv, Init, NothingTracked, Anchored, DoneAccountedFor,
        ScanAccountedFor, SaveAccountedFor, EvidenceInv, SeenPaid

-----------------------------------------------------------------------------
(* discover_locks: every lock of the range is tracked, was tracked, or is  *)
(* done; an eviction is written off, and leaves the queue under its cap.   *)
LEMMA DiscoverStep ==
  ASSUME ClaimInv, Discover
  PROVE  ClaimInv'
  <1> USE DEF ClaimInv
  <1>1. PICK unnumbered \in SUBSET Fresh,
             evicted \in Evictions(Insert(seen, Fresh), QueueCap) :
          /\ seen' = Remove(Insert(seen, Fresh), evicted)
          /\ anchor' = [t \in Txs |->
               CASE t \in unnumbered -> lastSeen + 1
                 [] t \in Fresh \ unnumbered -> BlockOf[t]
                 [] OTHER -> anchor[t]]
          /\ due' = (due \cup Fresh) \ evicted
          /\ old' = old \ evicted
          /\ writtenOff' = writtenOff \cup evicted
    BY DEF Discover
  <1>2. /\ lastSeen' = Max({lastSeen, UpTo}) /\ pc' = "save" /\ pc = "scan"
        /\ UNCHANGED <<chainVars, targetVars, faults, saved, origin, done, attempt,
                       released, undone>>
    BY DEF Discover
  <1>3. /\ lastSeen \in Nat /\ UpTo \in Nat /\ lastSeen' \in Nat
        /\ lastSeen' = IF lastSeen >= UpTo THEN lastSeen ELSE UpTo
    BY <1>2, CursorFacts DEF TypeOK
  <1>4. Fresh \subseteq Txs
    BY DEF Fresh
  <1>5. /\ Insert(seen, Fresh) \in [Txs -> Nat]
        /\ Tracked(Insert(seen, Fresh)) = Tracked(seen) \cup Fresh
    <2>1. seen \in [Txs -> Nat] /\ Fresh \in SUBSET Txs
      BY <1>4 DEF TypeOK
    <2> QED
      BY <2>1, Constants, InsertProperty
  <1>6. /\ evicted \subseteq Tracked(Insert(seen, Fresh))
        /\ Cardinality(Tracked(Insert(seen, Fresh)) \ evicted) <= QueueCap
    BY <1>5, Constants, EvictionsProperty
  <1>7. /\ seen' \in [Txs -> Nat]
        /\ Tracked(seen') = (Tracked(seen) \cup Fresh) \ evicted
    BY <1>1, <1>5, RemoveProperty
  <1>8. \A t \in Txs : anchor'[t] = IF t \in unnumbered THEN lastSeen + 1
                                    ELSE IF t \in Fresh THEN BlockOf[t]
                                    ELSE anchor[t]
    BY <1>1
  <1>9. Tracked(seen) \subseteq Txs
    BY QueueFacts
  <1>10. evicted \subseteq Txs
    BY <1>4, <1>5, <1>6, <1>9
  <1>11. TypeOK'
    <2>1. anchor' \in [Txs -> Nat]
      BY <1>1, <1>3, Constants DEF TypeOK
    <2>2. Cardinality(Tracked(seen')) <= QueueCap
      BY <1>5, <1>6, <1>7
    <2>3. due' \subseteq Txs /\ old' \subseteq Txs /\ writtenOff' \subseteq Txs
      BY <1>1, <1>4, <1>10 DEF TypeOK
    <2> QED
      BY <1>2, <1>3, <1>7, <2>1, <2>2, <2>3 DEF TypeOK, chainVars, targetVars
  <1>12. Anchored'
    <2> SUFFICES ASSUME NEW t \in Tracked(seen')
                 PROVE  1 <= anchor'[t] /\ anchor'[t] <= BlockOf[t]
      BY DEF Anchored
    <2>1. t \in Txs /\ t \in Tracked(seen) \cup Fresh
      BY <1>4, <1>7, <1>9
    <2>2. CASE t \in unnumbered
      <3>1. t \in Fresh
        BY <2>2
      <3>2. lastSeen + 1 <= BlockOf[t]
        BY <1>3, <2>1, <3>1, Constants DEF Fresh
      <3> QED
        BY <1>3, <1>8, <2>1, <2>2, <3>2
    <2>3. CASE t \notin unnumbered /\ t \in Fresh
      BY <1>8, <2>1, <2>3, Constants
    <2>4. CASE t \notin unnumbered /\ t \notin Fresh
      BY <1>8, <2>1, <2>4 DEF Anchored
    <2> QED
      BY <2>2, <2>3, <2>4
  <1>13. DoneAccountedFor'
    BY <1>1, <1>2 DEF DoneAccountedFor, Ended
  <1>14. ScanAccountedFor'
    <2> SUFFICES ASSUME NEW t \in Txs \ Malformed,
                        BlockOf[t] \in (origin + 1) .. lastSeen'
                 PROVE  t \in Ended' \cup Tracked(seen')
      BY <1>2 DEF ScanAccountedFor
    <2>1. t \in Ended \cup Tracked(seen) \cup Fresh
      <3>1. BlockOf[t] \in Nat /\ origin \in Nat
        BY Constants DEF TypeOK
      <3>2. CASE BlockOf[t] <= lastSeen
        <4>1. BlockOf[t] \in (origin + 1) .. lastSeen
          BY <1>3, <3>1, <3>2
        <4> QED
          BY <1>2, <4>1 DEF ScanAccountedFor
      <3>3. CASE ~(BlockOf[t] <= lastSeen)
        <4>1. BlockOf[t] \in (lastSeen + 1) .. UpTo
          BY <1>3, <3>1, <3>3
        <4> QED
          BY <4>1 DEF Fresh, DoneAccountedFor
      <3> QED
        BY <3>2, <3>3
    <2> QED
      BY <1>1, <1>2, <1>7, <2>1 DEF Ended
  <1>15. SaveAccountedFor'
    BY <1>1, <1>2 DEF SaveAccountedFor, Ended
  <1>16. EvidenceInv'
    BY <1>2 DEF EvidenceInv, SeenPaid, targetVars
  <1> QED
    BY <1>11, <1>12, <1>13, <1>14, <1>15, <1>16

(* The save: what it leaves behind the cursor is not in the queue any more. *)
LEMMA SaveStep ==
  ASSUME ClaimInv, Save
  PROVE  ClaimInv'
  <1> USE DEF ClaimInv
  <1>1. /\ saved' = SavedCursor /\ pc = "save" /\ pc' = "batch"
        /\ UNCHANGED <<chainVars, targetVars, faults, origin, lastSeen, queueVars,
                       attempt, ends>>
    BY DEF Save
  <1> DEFINE B == {anchor[t] : t \in Tracked(seen)}
  <1>2. B \subseteq Nat \ {0}
    BY QueueFacts DEF Anchored, TypeOK
  <1>3. lastSeen \in Nat
    BY DEF TypeOK
  <1>4. /\ saved' \in Nat /\ saved' <= lastSeen
        /\ \A b \in B : saved' < b
    <2>1. saved' = HoldBack(lastSeen, B)
      BY <1>1 DEF SavedCursor
    <2> HIDE DEF B
    <2> QED
      BY <1>2, <1>3, <2>1, HoldBackProperty
  <1>5. TypeOK'
    BY <1>1, <1>4 DEF TypeOK, chainVars, targetVars, queueVars, ends
  <1>6. SaveAccountedFor'
    <2> SUFFICES ASSUME NEW t \in Txs \ Malformed,
                        BlockOf[t] \in (origin + 1) .. saved'
                 PROVE  t \in Ended
      BY <1>1 DEF SaveAccountedFor, Ended, ends
    <2>1. BlockOf[t] \in Nat /\ origin \in Nat /\ BlockOf[t] <= saved'
      BY <1>4, Constants DEF TypeOK
    <2>2. BlockOf[t] \in (origin + 1) .. lastSeen
      BY <1>3, <1>4, <2>1
    <2>3. t \notin Tracked(seen)
      <3> SUFFICES ASSUME t \in Tracked(seen) PROVE FALSE
        OBVIOUS
      <3>1. saved' < anchor[t] /\ anchor[t] <= BlockOf[t] /\ anchor[t] \in Nat
        BY <1>4 DEF Anchored, TypeOK
      <3> QED
        BY <1>4, <2>1, <3>1
    <2> QED
      BY <1>1, <2>2, <2>3 DEF ScanAccountedFor
  <1> QED
    BY <1>1, <1>5, <1>6
    DEF Anchored, DoneAccountedFor, ScanAccountedFor, Ended, EvidenceInv, SeenPaid,
        queueVars, targetVars, ends

(* The outcomes of a batch: what leaves the queue is released, on an       *)
(* evidence the attempt has seen, or written off.                          *)
LEMMA ApplyStep ==
  ASSUME ClaimInv, Apply
  PROVE  ClaimInv'
  <1> USE DEF ClaimInv
  <1> DEFINE tried == {t \in Txs : attempt[t] # "idle"}
             aged == {t \in tried \cap old : attempt[t] = "notready"}
             paid == {t \in tried : attempt[t] = "claimed"}
             givenUp == {t \in tried : attempt[t] = "terminal"} \cup aged
             finished == paid \cup givenUp
  <1>1. /\ pc = "settle" /\ pc' = "scan"
        /\ seen' = Remove(seen, finished)
        /\ done' \in Remember(done, finished, DoneCap)
        /\ due' = due \ tried
        /\ old' = old \ finished
        /\ released' = released \cup paid
        /\ writtenOff' = writtenOff \cup givenUp
        /\ attempt' = [t \in Txs |-> "idle"]
        /\ UNCHANGED <<chainVars, targetVars, faults, cursorVars, anchor, undone>>
    BY DEF Apply
  <1>2. /\ finished \subseteq Txs /\ paid \subseteq Txs /\ givenUp \subseteq Txs
        /\ finished = paid \cup givenUp /\ paid \subseteq SeenPaid
    BY DEF SeenPaid
  <1> HIDE DEF tried, paid, givenUp, finished
  <1>3. done' \subseteq done \cup finished
    BY <1>1 DEF Remember
  <1>4. seen' \in [Txs -> Nat] /\ Tracked(seen') = Tracked(seen) \ finished
    BY <1>1, RemoveProperty DEF TypeOK
  <1>5. TypeOK'
    <2>1. Cardinality(Tracked(seen')) <= QueueCap
      <3>1. Tracked(seen') \in SUBSET Tracked(seen)
        BY <1>4
      <3>2. IsFiniteSet(Tracked(seen')) /\ Cardinality(Tracked(seen')) \in Nat
            /\ Cardinality(Tracked(seen')) <= Cardinality(Tracked(seen))
        BY <3>1, QueueFacts, FS_Subset, FS_CardinalityType
      <3> QED
        BY <3>2, QueueFacts, Constants DEF TypeOK
    <2>2. /\ done' \subseteq Txs /\ due' \subseteq Txs /\ old' \subseteq Txs
          /\ writtenOff' \subseteq Txs /\ released' \subseteq Txs
      BY <1>1, <1>2, <1>3 DEF TypeOK
    <2> QED
      BY <1>1, <1>4, <2>1, <2>2 DEF TypeOK, chainVars, targetVars, cursorVars
  <1>6. Anchored'
    BY <1>1, <1>4 DEF Anchored
  <1>7. DoneAccountedFor'
    BY <1>1, <1>2, <1>3 DEF DoneAccountedFor, Ended
  <1>8. ScanAccountedFor'
    BY <1>1, <1>2, <1>4 DEF ScanAccountedFor, Ended, cursorVars
  <1>9. SaveAccountedFor'
    BY <1>1 DEF SaveAccountedFor, Ended, cursorVars
  <1>10. EvidenceInv'
    <2>1. SeenPaid' = released \cup paid
      BY <1>1 DEF SeenPaid
    <2> QED
      BY <1>1, <1>2, <2>1 DEF EvidenceInv, SeenPaid, targetVars
  <1> QED
    BY <1>5, <1>6, <1>7, <1>8, <1>9, <1>10

(* A restart resumes at the saved cursor, or begins a new line. *)
LEMMA StartStep ==
  ASSUME ClaimInv, Start
  PROVE  ClaimInv'
  <1> USE DEF ClaimInv
  <1>1. /\ pc' = "scan" /\ lastSeen' = ResumeCursor
        /\ origin' = IF saved = NoBlock THEN ResumeCursor ELSE origin
        /\ UNCHANGED <<chainVars, targetVars, faults, saved, queueVars, attempt,
                       ends>>
    BY DEF Start
  <1>2. /\ ResumeCursor \in Nat /\ origin \in Nat /\ saved \in Nat \cup {NoBlock}
        /\ saved # NoBlock => ResumeCursor <= saved
    BY CursorFacts DEF TypeOK
  <1>3. TypeOK'
    BY <1>1, <1>2 DEF TypeOK, chainVars, targetVars, queueVars, ends
  <1>4. ScanAccountedFor'
    <2> SUFFICES ASSUME NEW t \in Txs \ Malformed,
                        BlockOf[t] \in (origin' + 1) .. lastSeen'
                 PROVE  t \in Ended
      BY <1>1 DEF ScanAccountedFor, Ended, ends
    <2>1. BlockOf[t] \in Nat
      BY Constants
    <2>2. saved # NoBlock /\ saved \in Nat
      BY <1>1, <1>2, <2>1
    <2>3. BlockOf[t] \in (origin + 1) .. saved
      BY <1>1, <1>2, <2>1, <2>2
    <2> QED
      BY <2>2, <2>3 DEF SaveAccountedFor
  <1>5. SaveAccountedFor'
    BY <1>1 DEF SaveAccountedFor, Ended, ends
  <1> QED
    BY <1>1, <1>3, <1>4, <1>5
    DEF Anchored, DoneAccountedFor, Ended, EvidenceInv, SeenPaid, queueVars,
        targetVars, ends

(* A crash forgets the queue and the cursor in memory, nothing on disk. *)
LEMMA CrashStep ==
  ASSUME ClaimInv, Crash
  PROVE  ClaimInv'
  <1> USE DEF ClaimInv
  <1>1. TypeOK'
    BY Constants, EmptyQueue
    DEF Crash, Fault, TypeOK, chainVars, targetVars, cursorVars, ends
  <1> QED
    BY <1>1, EmptyQueue
    DEF Crash, Anchored, DoneAccountedFor, ScanAccountedFor, SaveAccountedFor,
        Ended, EvidenceInv, SeenPaid, targetVars, cursorVars, ends

(* Of the steps that leave the queue's transactions, the cursors and the   *)
(* releases alone, it is enough that they keep the evidence.               *)
LEMMA FrameStep ==
  ASSUME ClaimInv, TypeOK', EvidenceInv', pc' = "down" <=> pc = "down",
         UNCHANGED <<cursorVars, seen, anchor, done, writtenOff, released>>
  PROVE  ClaimInv'
  BY DEF ClaimInv, Anchored, DoneAccountedFor, ScanAccountedFor,
         SaveAccountedFor, Ended, cursorVars

(* The evidence stays while nothing paid is lost and nothing new is seen.  *)
LEMMA EvidenceKept ==
  ASSUME EvidenceInv, claimed \subseteq claimed', undone' = undone,
         SeenPaid' \subseteq SeenPaid
  PROVE  EvidenceInv'
  BY DEF EvidenceInv

(* One attempt: each of its steps writes one entry of attempt. *)
LEMMA GotoType ==
  ASSUME TypeOK, NEW t \in Txs, NEW from, NEW to \in Steps \cup Outcomes,
         Goto(t, from, to)
  PROVE  /\ attempt' \in [Txs -> {"idle"} \cup Steps \cup Outcomes]
         /\ UNCHANGED <<chainVars, pc, cursorVars, queueVars, ends>>
  BY DEF Goto, TypeOK

(* No step of an attempt touches the queue: it only moves the attempt on,  *)
(* and takes a lock for paid only when it is.                              *)
Moves(t, to) == (\E from : Goto(t, from, to)) /\ (to = "claimed" => t \in claimed')

LEMMA AttemptStep ==
  ASSUME ClaimInv, NEW t \in Txs, Attempt(t)
  PROVE  ClaimInv'
  <1> USE DEF ClaimInv
  <1>1. PICK to \in Steps \cup Outcomes : Moves(t, to)
    <2>1. ASSUME NEW blind \in BOOLEAN, Check(t, blind)
          PROVE  \E to \in Steps \cup Outcomes : Moves(t, to)
      <3>1. \/ Goto(t, "check", "claimed") /\ t \in claimed'
            \/ Goto(t, "check", "prove")
        BY <2>1 DEF Check, targetVars
      <3> QED
        BY <3>1 DEF Moves, Steps, Outcomes
    <2>2. ASSUME NEW answer, Prove(t, answer)
          PROVE  \E to \in Steps \cup Outcomes : Moves(t, to)
      <3>1. \/ Goto(t, "prove", "terminal") \/ Goto(t, "prove", "send")
            \/ Goto(t, "prove", "notready") \/ Goto(t, "prove", "retry")
        BY <2>2 DEF Prove
      <3> QED
        BY <3>1 DEF Moves, Steps, Outcomes
    <2>3. ASSUME NEW answer \in Outcomes \ {"notready"}, NEW landed \in BOOLEAN,
                 Send(t, answer, landed)
          PROVE  \E to \in Steps \cup Outcomes : Moves(t, to)
      <3>1. Goto(t, "send", answer) /\ (answer = "claimed" => t \in claimed')
        BY <2>3 DEF Send
      <3> QED
        BY <3>1 DEF Moves
    <2> QED
      BY <2>1, <2>2, <2>3 DEF Attempt
  <1>2. PICK from : Goto(t, from, to)
    BY <1>1 DEF Moves
  <1>3. /\ attempt' \in [Txs -> {"idle"} \cup Steps \cup Outcomes]
        /\ UNCHANGED <<chainVars, pc, cursorVars, queueVars, ends>>
    BY <1>2, GotoType
  <1>4. claimed' \in {claimed, claimed \cup {t}} /\ final' = final
    BY DEF Attempt, Check, Prove, Send, targetVars
  <1>5. faults' \in 0 .. MaxFaults
    <2>1. faults' = faults \/ Fault
      BY DEF Attempt, Check, Prove, Send
    <2> QED
      BY <2>1, Constants DEF Fault, TypeOK
  <1>6. TypeOK'
    BY <1>3, <1>4, <1>5 DEF TypeOK, chainVars, cursorVars, queueVars, ends
  <1>7. EvidenceInv'
    <2>1. attempt' = [attempt EXCEPT ![t] = to]
      BY <1>2 DEF Goto
    <2>2. released' = released /\ undone' = undone
      BY <1>3 DEF ends
    <2>3. \A u \in SeenPaid' : u \in SeenPaid \/ (u = t /\ to = "claimed")
      BY <2>1, <2>2 DEF SeenPaid, TypeOK
    <2> QED
      BY <1>1, <1>4, <2>2, <2>3 DEF EvidenceInv, Moves
  <1> QED
    BY <1>3, <1>6, <1>7, FrameStep DEF queueVars, ends

(* A reorganisation takes payments back, and what the worker had seen of   *)
(* them is remembered.                                                     *)
LEMMA ReorgStep ==
  ASSUME ClaimInv, Reorg
  PROVE  ClaimInv'
  <1> USE DEF ClaimInv
  <1>1. PICK lost \in SUBSET (claimed \ final) :
          claimed' = claimed \ lost /\ undone' = undone \cup (lost \cap SeenPaid)
    BY DEF Reorg
  <1>2. UNCHANGED <<chainVars, final, pc, cursorVars, queueVars, attempt, writtenOff, released>>
    BY DEF Reorg
  <1>3. TypeOK'
    <2>1. faults' \in 0 .. MaxFaults
      BY Constants DEF Reorg, Fault, TypeOK
    <2> QED
      BY <1>1, <1>2, <2>1 DEF TypeOK, chainVars, cursorVars, queueVars
  <1>4. EvidenceInv'
    <2>1. SeenPaid' = SeenPaid
      BY <1>2 DEF SeenPaid
    <2> QED
      BY <1>1, <2>1 DEF EvidenceInv
  <1> QED
    BY <1>2, <1>3, <1>4, FrameStep DEF queueVars

(* Every step of the worker and of the chains keeps the invariant. *)
LEMMA NextClaimInv == ClaimInv /\ [Next]_vars => ClaimInv'
  <1> SUFFICES ASSUME ClaimInv, [Next]_vars PROVE ClaimInv'
    OBVIOUS
  <1> USE DEF ClaimInv
  <1>1. CASE Mine
    <2>1. TypeOK'
      BY <1>1, Constants DEF Mine, TypeOK, targetVars, cursorVars, queueVars, ends
    <2>2. EvidenceInv'
      BY <1>1, EvidenceKept DEF Mine, SeenPaid, targetVars, ends
    <2> QED
      BY <1>1, <2>1, <2>2, FrameStep DEF Mine, queueVars, ends
  <1>2. CASE Start
    BY <1>2, StartStep
  <1>3. CASE Crash
    BY <1>3, CrashStep
  <1>4. CASE Discover
    BY <1>4, DiscoverStep
  <1>5. CASE DiscoverFails \/ SaveFails
    <2>1. TypeOK'
      BY <1>5, Constants
      DEF DiscoverFails, SaveFails, Fault, TypeOK, chainVars, targetVars, cursorVars,
          queueVars, ends
    <2>2. EvidenceInv'
      BY <1>5, EvidenceKept DEF DiscoverFails, SaveFails, SeenPaid, targetVars, ends
    <2> QED
      BY <1>5, <2>1, <2>2, FrameStep DEF DiscoverFails, SaveFails, queueVars, ends
  <1>6. CASE Save
    BY <1>6, SaveStep
  <1>7. CASE Batch
    <2>1. /\ attempt' \in [Txs -> {"check", "idle"}]
          /\ pc' \in {"scan", "settle"} /\ pc = "batch"
          /\ UNCHANGED <<chainVars, targetVars, faults, cursorVars, queueVars, ends>>
      BY <1>7 DEF Batch
    <2>2. TypeOK'
      BY <2>1 DEF Steps, TypeOK, chainVars, targetVars, cursorVars, queueVars, ends
    <2>3. SeenPaid' \subseteq SeenPaid
      BY <2>1 DEF SeenPaid, ends
    <2>4. EvidenceInv'
      BY <2>1, <2>3, EvidenceKept DEF targetVars, ends
    <2> QED
      BY <2>1, <2>2, <2>4, FrameStep DEF queueVars, ends
  <1>8. CASE Apply
    BY <1>8, ApplyStep
  <1>9. ASSUME NEW t \in Txs, Attest(t) PROVE ClaimInv'
    <2>1. TypeOK'
      BY <1>9 DEF Attest, TypeOK, targetVars, cursorVars, queueVars, ends
    <2>2. EvidenceInv'
      BY <1>9, EvidenceKept DEF Attest, SeenPaid, targetVars, ends
    <2> QED
      BY <1>9, <2>1, <2>2, FrameStep DEF Attest, queueVars, ends
  <1>10. ASSUME NEW t \in Txs, AnyoneClaims(t) PROVE ClaimInv'
    <2>1. TypeOK'
      BY <1>10, Constants
      DEF AnyoneClaims, Fault, TypeOK, chainVars, cursorVars, queueVars, ends
    <2>2. EvidenceInv'
      BY <1>10, EvidenceKept DEF AnyoneClaims, SeenPaid, ends
    <2> QED
      BY <1>10, <2>1, <2>2, FrameStep DEF AnyoneClaims, queueVars, ends
  <1>11. ASSUME NEW t \in Txs, Attempt(t) PROVE ClaimInv'
    BY <1>11, AttemptStep
  <1>12. ASSUME NEW t \in Txs, Elapse(t) \/ GrowOld(t) PROVE ClaimInv'
    <2>1. TypeOK'
      BY <1>12, Constants
      DEF Elapse, GrowOld, Fault, TypeOK, chainVars, targetVars, cursorVars, ends
    <2>2. EvidenceInv'
      BY <1>12, EvidenceKept DEF Elapse, GrowOld, SeenPaid, targetVars, ends
    <2> QED
      BY <1>12, <2>1, <2>2, FrameStep DEF Elapse, GrowOld, ends
  <1>13. CASE Finalize
    <2>1. TypeOK'
      BY <1>13 DEF Finalize, TypeOK, chainVars, cursorVars, queueVars, ends
    <2>2. EvidenceInv'
      BY <1>13, EvidenceKept DEF Finalize, SeenPaid, ends
    <2> QED
      BY <1>13, <2>1, <2>2, FrameStep DEF Finalize, queueVars, ends
  <1>14. CASE Reorg
    BY <1>14, ReorgStep
  <1>15. CASE UNCHANGED vars
    <2>1. TypeOK'
      BY <1>15 DEF vars, TypeOK, chainVars, targetVars, cursorVars, queueVars, ends
    <2>2. EvidenceInv'
      BY <1>15, EvidenceKept DEF vars, SeenPaid, targetVars, ends
    <2> QED
      BY <1>15, <2>1, <2>2, FrameStep DEF vars, queueVars, ends
  <1> QED
    BY <1>1, <1>2, <1>3, <1>4, <1>5, <1>6, <1>7, <1>8, <1>9, <1>10, <1>11,
       <1>12, <1>13, <1>14, <1>15
    DEF Next, Tick

(* The claim submitter's invariant holds in every state. *)
LEMMA ClaimInvariant == Spec => []ClaimInv
  BY InitClaimInv, NextClaimInv, PTL DEF Spec

(* The claim submitter's state stays what its types say, and the queue is  *)
(* never over MAX_PENDING_CLAIMS when a scan ends.                         *)
THEOREM ClaimTypeCorrect == Spec => []TypeOK
  <1>1. ClaimInv => TypeOK
    BY DEF ClaimInv
  <1> QED
    BY <1>1, ClaimInvariant, PTL

(* Whatever is evicted, refused, aged out or interrupted, a lock behind    *)
(* the saved cursor is paid, or written off with a log line, or was paid   *)
(* when the worker released it and lost to a reorganisation of Creditcoin  *)
(* since (discover_locks, process_pending, any_unclaimed and the clamp of  *)
(* the saved cursor).                                                      *)
THEOREM LocksAccounted == Spec => []LocksAccountedFor
  <1>1. ClaimInv => LocksAccountedFor
    <2> SUFFICES ASSUME ClaimInv, saved # NoBlock,
                        NEW t \in Locks, BlockOf[t] \in (origin + 1) .. saved
                 PROVE  t \in claimed \cup writtenOff \cup undone
      BY DEF LocksAccountedFor
    <2>1. t \in released \cup writtenOff
      BY DEF ClaimInv, SaveAccountedFor, Locks, Ended
    <2>2. released \subseteq claimed \cup undone
      BY DEF ClaimInv, EvidenceInv, SeenPaid
    <2> QED
      BY <2>1, <2>2
  <1> QED
    BY <1>1, ClaimInvariant, PTL

=============================================================================
