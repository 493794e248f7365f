------------------------ MODULE DurableHandoffProofs ------------------------
(***************************************************************************)
(* For every set of messages, every block layout, lookback, span and       *)
(* bound: the persisted cursor never runs ahead of the journal, nothing    *)
(* unfinished lives only in memory, and the hand-off keeps custody.        *)
(***************************************************************************)
EXTENDS DurableHandoff, TLAPS

(* NoLoss alone is not inductive: a save copies the cursor in memory to    *)
(* disk, so the invariant needs what is known of that cursor, and of the   *)
(* range the poll in progress is working through.                          *)
IInv ==
    /\ TypeOK
    /\ NoLoss
    /\ ScanJournaled
    /\ WorkingSetBacked
    /\ ~up => scan = Idle

(* The two record types, opened once here and kept folded elsewhere. *)
LEMMA IdleIsScan == Idle \in Scan
  BY DEF Idle, Scan

(* An entry of the checkpoint store is made of a block and a flag. *)
LEMMA EntryType == \A b \in Nat, d \in BOOLEAN :
                     [block |-> b, durable |-> d] \in Entry
  BY DEF Entry

(* Saving the cursor writes an entry or leaves the old one. *)
LEMMA SaveCursorType ==
  ASSUME TypeOK, NEW b \in Nat, SaveCursor(b)
  PROVE  ckpt' \in Entry /\ ckptSynced' \in Entry /\ faults' \in 0..MaxFaults
  <1> DEFINE e == [block |-> b, durable |-> TRUE]
  <1>1. e \in Entry
    BY EntryType
  <1>2. \/ ckpt' = e /\ ckptSynced' = e /\ faults' = faults
        \/ /\ faults < MaxFaults /\ faults' = faults + 1
           /\ \/ ckpt' = e /\ ckptSynced' = ckptSynced
              \/ ckpt' = ckpt /\ ckptSynced' = ckptSynced
    BY DEF SaveCursor
  <1> HIDE DEF e
  <1> QED
    BY <1>1, <1>2, ConstantsAssumption DEF TypeOK

(* What memory looks like once the process has ended. *)
LEMMA DownType ==
  ASSUME Down
  PROVE  /\ up' \in BOOLEAN /\ lastSeen' \in Nat /\ observed' \in Blocks
         /\ scan' \in Scan
         /\ channel' \subseteq Messages /\ open' \subseteq Messages
         /\ flying' \subseteq Messages /\ resolved' \subseteq Messages
  <1>1. up' \in BOOLEAN
    BY Zenon DEF Down
  <1>2. lastSeen' \in Nat /\ observed' \in Blocks
    BY ConstantsAssumption DEF Down, Blocks
  <1>3. scan' \in Scan
    BY IdleIsScan, Zenon DEF Down
  <1> QED
    BY <1>1, <1>2, <1>3 DEF Down

(* Init establishes the inductive invariant: nothing is covered before the *)
(* first journaled cursor.                                                 *)
LEMMA InitIInv == Init => IInv
  <1> SUFFICES ASSUME Init PROVE IInv
    OBVIOUS
  <1> USE ConstantsAssumption
  <1>1. TypeOK
    <2>1. head \in Blocks /\ 0 \in Blocks /\ 0 \in 0..MaxFaults
      BY DEF Init, Blocks, ConstantsAssumption
    <2>2. PICK b \in 0..head : ckpt = [block |-> b, durable |-> FALSE]
      BY DEF Init
    <2>3. ckpt \in Entry
      <3>1. b \in Nat
        BY <2>1 DEF Blocks
      <3> QED
        BY <2>2, <3>1, EntryType, Zenon
    <2> QED
      BY <2>1, <2>3, IdleIsScan DEF Init, TypeOK
  <1>2. NoLoss /\ ScanJournaled /\ WorkingSetBacked
    BY DEF Init, NoLoss, ScanJournaled, WorkingSetBacked, Idle
  <1> QED
    BY <1>1, <1>2 DEF IInv, Init

(* Every step preserves the type invariant. *)
LEMMA NextTypeOK == TypeOK /\ [Next]_vars => TypeOK'
  <1> SUFFICES ASSUME TypeOK, [Next]_vars PROVE TypeOK'
    OBVIOUS
  <1> USE ConstantsAssumption, IdleIsScan
      DEF TypeOK, Blocks, chainVars, diskVars, watchVars, poolVars
  <1>1. CASE Finalize
    BY <1>1 DEF Finalize
  <1>2. CASE Restart
    BY <1>2 DEF Restart, ResumeCursor, Entry
  <1>3. CASE PollNothing
    <2>1. PICK h \in ReportedHeads : h <= lastSeen /\ observed' = h
      BY <1>3 DEF PollNothing
    <2> QED
      BY <1>3, <2>1, SaveCursorType DEF PollNothing, ReportedHeads
  <1>4. CASE BeginPoll
    <2>1. PICK h \in ReportedHeads :
             /\ lastSeen < h /\ observed' = h
             /\ scan' = [Idle EXCEPT !.phase = "fetch",
                                     !.to = IF h < lastSeen + ScanSpan
                                            THEN h ELSE lastSeen + ScanSpan]
      BY <1>4 DEF BeginPoll
    <2>2. scan' \in Scan
      <3> DEFINE t == IF h < lastSeen + ScanSpan THEN h ELSE lastSeen + ScanSpan
      <3>1. t \in Nat
        BY DEF ReportedHeads
      <3>2. scan' = [phase |-> "fetch", to |-> t, todo |-> {}, sending |-> {}]
        BY <2>1 DEF Idle
      <3> HIDE DEF t
      <3> QED
        BY <3>1, <3>2 DEF Scan
    <2> QED
      BY <1>4, <2>1, <2>2 DEF BeginPoll, ReportedHeads
  <1>5. CASE ShrinkRange
    BY <1>5 DEF ShrinkRange, Scan
  <1>6. CASE FetchLogs
    BY <1>6 DEF FetchLogs, LogsIn, Scan
  <1>7. ASSUME NEW m \in Messages, SkipLog(m) PROVE TypeOK'
    BY <1>7 DEF SkipLog, Scan
  <1>8. ASSUME NEW m \in Messages, RecordLog(m) PROVE TypeOK'
    BY <1>8 DEF RecordLog, Record, Scan
  <1>9. ASSUME NEW m \in Messages, RecordUnsynced(m) PROVE TypeOK'
    BY <1>9 DEF RecordUnsynced, Scan
  <1>10. CASE SendLog
    BY <1>10 DEF SendLog, Scan
  <1>11. CASE PollFails
    BY <1>11 DEF PollFails
  <1>12. CASE FinishPoll
    <2>1. scan.to \in Nat
      BY DEF Scan
    <2> QED
      BY <1>12, <2>1, SaveCursorType DEF FinishPoll
  <1>13. ASSUME NEW m \in Messages, Receive(m) PROVE TypeOK'
    BY <1>13 DEF Receive
  <1>14. ASSUME NEW m \in Messages, Dispatch(m) PROVE TypeOK'
    BY <1>14 DEF Dispatch
  <1>15. ASSUME NEW m \in Messages, Retry(m) PROVE TypeOK'
    BY <1>15 DEF Retry
  <1>16. ASSUME NEW m \in Messages, Verdict(m) PROVE TypeOK'
    BY <1>16 DEF Verdict
  <1>17. ASSUME NEW m \in Messages, Prune(m) PROVE TypeOK'
    BY <1>17 DEF Prune
  <1>18. ASSUME NEW P \in SUBSET records, NEW C \in SUBSET open,
                NEW R \in SUBSET C, Refill(P, C, R)
         PROVE TypeOK'
    BY <1>18 DEF Refill, Record
  <1>19. CASE Exit
    BY <1>19, DownType DEF Exit
  <1>20. CASE CancelDuringSend
    <2>1. ckpt' \in Entry /\ ckptSynced' \in Entry
      BY <1>20, EntryType DEF CancelDuringSend
    <2> QED
      BY <1>20, <2>1, DownType DEF CancelDuringSend
  <1>21. CASE PowerLoss
    BY <1>21, DownType DEF PowerLoss
  <1>22. ASSUME NEW m \in Messages, VerdictFails(m) PROVE TypeOK'
    BY <1>22, DownType DEF VerdictFails
  <1>23. CASE UNCHANGED vars
    BY <1>23 DEF vars
  <1> QED
    BY <1>1, <1>2, <1>3, <1>4, <1>5, <1>6, <1>7, <1>8, <1>9, <1>10, <1>11,
       <1>12, <1>13, <1>14, <1>15, <1>16, <1>17, <1>18, <1>19, <1>20, <1>21,
       <1>22, <1>23 DEF Next

(* The relayer's state always has its declared shape, for every layout of  *)
(* messages over blocks and every number of faults.                        *)
THEOREM TypeCorrect == Spec => []TypeOK
  <1>1. Init => TypeOK
    BY InitIInv DEF IInv
  <1> QED
    BY <1>1, NextTypeOK, PTL DEF Spec

-----------------------------------------------------------------------------
(* The steps of the worker and of the disk that touch a record.            *)

(* Safety only grows: a synced record goes away only with a final verdict, *)
(* and a power loss cannot undo what was synced.                           *)
LEMMA SafeGrows == [Next]_vars => Safe \subseteq Safe'
  <1> SUFFICES ASSUME [Next]_vars PROVE Safe \subseteq Safe'
    OBVIOUS
  <1> USE DEF Safe, diskVars
  <1>1. CASE Finalize \/ Restart \/ BeginPoll \/ ShrinkRange \/ FetchLogs
    BY <1>1 DEF Finalize, Restart, BeginPoll, ShrinkRange, FetchLogs
  <1>2. CASE PollNothing \/ FinishPoll
    BY <1>2 DEF PollNothing, FinishPoll
  <1>3. ASSUME NEW m \in Messages,
               SkipLog(m) \/ RecordLog(m) \/ RecordUnsynced(m)
        PROVE  Safe \subseteq Safe'
    BY <1>3 DEF SkipLog, RecordLog, RecordUnsynced, Record
  <1>4. CASE SendLog \/ PollFails
    BY <1>4 DEF SendLog, PollFails
  <1>5. ASSUME NEW m \in Messages,
               Receive(m) \/ Dispatch(m) \/ Retry(m) \/ Prune(m)
        PROVE  Safe \subseteq Safe'
    BY <1>5 DEF Receive, Dispatch, Retry, Prune
  <1>6. ASSUME NEW m \in Messages, Verdict(m) PROVE Safe \subseteq Safe'
    BY <1>6 DEF Verdict
  <1>7. ASSUME NEW P \in SUBSET records, NEW C \in SUBSET open,
               NEW R \in SUBSET C, Refill(P, C, R)
        PROVE  Safe \subseteq Safe'
    BY <1>7 DEF Refill, Record
  <1>8. CASE Exit \/ CancelDuringSend
    BY <1>8 DEF Exit, CancelDuringSend
  <1>9. CASE PowerLoss
    BY <1>9 DEF PowerLoss
  <1>10. ASSUME NEW m \in Messages, VerdictFails(m) PROVE Safe \subseteq Safe'
    BY <1>10 DEF VerdictFails
  <1>11. CASE UNCHANGED vars
    BY <1>11 DEF vars
  <1> QED
    BY <1>1, <1>2, <1>3, <1>4, <1>5, <1>6, <1>7, <1>8, <1>9, <1>10, <1>11
       DEF Next

(* Reading a trusted cursor puts the scan behind it, an untrusted one puts *)
(* it before the first message of the route: either way nothing that is    *)
(* not safe lies behind the scan.                                          *)
LEMMA ResumeIsSafe ==
  ASSUME TypeOK, NoLoss
  PROVE  Covered(ResumeCursor(ckpt)) \subseteq Safe
  <1> USE ConstantsAssumption
  <1>0. ckpt.block \in Nat
    BY DEF TypeOK, Entry
  <1>1. CASE ckpt.durable
    <2>1. Covered(ckpt.block) \subseteq Safe
      BY <1>1 DEF NoLoss
    <2>2. ResumeCursor(ckpt) \in Nat /\ ResumeCursor(ckpt) <= ckpt.block
      BY <1>0, <1>1 DEF ResumeCursor
    <2>3. Covered(ResumeCursor(ckpt)) \subseteq Covered(ckpt.block)
      BY <1>0, <2>2 DEF Covered, InScope
    <2> QED
      BY <2>1, <2>3
  <1>2. CASE ~ckpt.durable
    BY <1>2 DEF ResumeCursor, Covered, InScope
  <1> QED
    BY <1>1, <1>2

(* What saving a cursor takes: everything behind it is safe. *)
LEMMA SaveKeepsNoLoss ==
  ASSUME TypeOK, NoLoss, Safe \subseteq Safe', NEW b \in Nat, SaveCursor(b),
         Covered(b) \subseteq Safe
  PROVE  NoLoss'
  <1>1. \A c \in {ckpt', ckptSynced'} :
           c \in {ckpt, ckptSynced} \/ c = [block |-> b, durable |-> TRUE]
    BY DEF SaveCursor
  <1>2. \A x : Covered(x)' = Covered(x)
    BY DEF Covered, InScope
  <1>3. ASSUME NEW c \in {ckpt', ckptSynced'}, c.durable
        PROVE  Covered(c.block) \subseteq Safe'
    <2>1. CASE c \in {ckpt, ckptSynced}
      BY <1>3, <2>1 DEF NoLoss
    <2>2. CASE c = [block |-> b, durable |-> TRUE]
      BY <2>2
    <2> QED
      BY <1>1, <2>1, <2>2
  <1> QED
    BY <1>2, <1>3 DEF NoLoss

(* With the process gone, nothing is scanned and nothing is in memory. *)
LEMMA DownKeeps ==
  ASSUME Down
  PROVE  ScanJournaled' /\ WorkingSetBacked' /\ (~up' => scan' = Idle)
  <1>1. ~up' /\ scan' = Idle
    BY Zenon DEF Down
  <1>2. scan'.phase # "logs" /\ scan'.sending = {}
    BY <1>1 DEF Idle
  <1>3. ScanJournaled'
    BY <1>1, <1>2 DEF ScanJournaled
  <1>4. channel' = {} /\ open' = {} /\ flying' = {}
    BY DEF Down
  <1>5. WorkingSetBacked'
    BY <1>2, <1>4 DEF WorkingSetBacked
  <1> QED
    BY <1>1, <1>3, <1>5

(* Steps that leave the persisted cursor, or the scan, where they are. *)
LEMMA SameCursor ==
  ASSUME NoLoss, Safe \subseteq Safe',
         {ckpt', ckptSynced'} \subseteq {ckpt, ckptSynced}
  PROVE  NoLoss'
  BY DEF NoLoss, Covered, InScope

(* A scan that does not move stays journaled when what is safe only grows. *)
LEMMA SameScan ==
  ASSUME ScanJournaled, Safe \subseteq Safe',
         UNCHANGED <<up, lastSeen, scan>>
  PROVE  ScanJournaled'
  BY DEF ScanJournaled, Covered, InScope

(* Steps that end a poll without moving the scan. *)
LEMMA AbandonedScan ==
  ASSUME ScanJournaled, Safe \subseteq Safe', UNCHANGED <<up, lastSeen>>,
         scan' = Idle
  PROVE  ScanJournaled'
  BY DEF ScanJournaled, Covered, InScope, Idle

(* Every step preserves the inductive invariant. *)
LEMMA NextIInv == IInv /\ [Next]_vars => IInv'
  <1> SUFFICES ASSUME IInv, [Next]_vars PROVE IInv'
    OBVIOUS
  <1> USE ConstantsAssumption
  <1>a. TypeOK /\ NoLoss /\ ScanJournaled /\ WorkingSetBacked
    BY DEF IInv
  <1>b. ~up => scan = Idle
    BY DEF IInv
  <1>c. TypeOK'
    BY <1>a, NextTypeOK
  <1>d. Safe \subseteq Safe'
    BY SafeGrows
  <1>e. lastSeen \in Nat /\ scan \in Scan /\ scan.to \in Nat
    BY <1>a DEF TypeOK, Scan
  <1> DEFINE Goal == /\ NoLoss' /\ ScanJournaled' /\ WorkingSetBacked'
                     /\ ~up' => scan' = Idle
  <1> SUFFICES Goal
    BY <1>c DEF IInv
  <1>1. CASE Finalize
    BY <1>1, <1>a, <1>b, <1>d, SameCursor, SameScan
       DEF Finalize, WorkingSetBacked, diskVars, watchVars, poolVars
  <1>2. CASE Restart
    <2>1. NoLoss' /\ WorkingSetBacked' /\ up'
      BY <1>2, <1>a, <1>d, SameCursor
         DEF Restart, WorkingSetBacked, diskVars, poolVars
    <2>2. Covered(lastSeen)' = Covered(ResumeCursor(ckpt))
      BY <1>2 DEF Restart, Covered, InScope
    <2>3. Covered(ResumeCursor(ckpt)) \subseteq Safe
      BY <1>a, ResumeIsSafe
    <2>4. scan'.phase # "logs"
      BY <1>2, <1>b DEF Restart, Idle
    <2> QED
      BY <1>d, <2>1, <2>2, <2>3, <2>4 DEF ScanJournaled
  <1>3. CASE PollNothing
    <2>1. Covered(lastSeen) \subseteq Safe
      BY <1>3, <1>a DEF PollNothing, ScanJournaled
    <2>2. NoLoss'
      BY <1>3, <1>a, <1>d, <1>e, <2>1, SaveKeepsNoLoss DEF PollNothing
    <2>3. ScanJournaled'
      BY <1>3, <1>a, <1>d, SameScan DEF PollNothing
    <2> QED
      BY <1>3, <1>a, <1>b, <2>2, <2>3 DEF PollNothing, WorkingSetBacked, poolVars
  <1>4. CASE BeginPoll
    <2>1. up' /\ lastSeen' = lastSeen /\ scan'.phase = "fetch"
             /\ scan'.sending = {}
      BY <1>4 DEF BeginPoll, Idle
    <2>2. ScanJournaled'
      BY <1>4, <1>a, <1>d, <2>1 DEF BeginPoll, ScanJournaled, Covered, InScope
    <2>3. WorkingSetBacked'
      BY <1>4, <1>a, <2>1 DEF BeginPoll, WorkingSetBacked, diskVars, poolVars
    <2> QED
      BY <1>4, <1>a, <1>d, <2>1, <2>2, <2>3, SameCursor DEF BeginPoll, diskVars
  <1>5. CASE ShrinkRange
    <2>1. up' /\ lastSeen' = lastSeen /\ scan'.phase = "fetch"
             /\ scan'.sending = scan.sending
      BY <1>5, <1>e DEF ShrinkRange, Scan, watchVars
    <2>2. ScanJournaled'
      BY <1>5, <1>a, <1>d, <2>1 DEF ShrinkRange, ScanJournaled, Covered, InScope
    <2>3. WorkingSetBacked'
      BY <1>5, <1>a, <2>1 DEF ShrinkRange, WorkingSetBacked, diskVars, poolVars
    <2> QED
      BY <1>5, <1>a, <1>d, <2>1, <2>2, <2>3, SameCursor DEF ShrinkRange, diskVars
  <1>6. CASE FetchLogs
    <2>1. up' /\ up /\ lastSeen' = lastSeen /\ scan'.to = scan.to
             /\ scan'.todo = LogsIn(lastSeen + 1, scan.to)
             /\ scan'.sending = scan.sending
      BY <1>6, <1>e DEF FetchLogs, Scan, watchVars
    <2>2. Covered(scan.to) \subseteq Covered(lastSeen) \cup scan'.todo
      BY <1>e, <2>1 DEF Covered, InScope, LogsIn
    <2>3. Covered(lastSeen) \subseteq Safe
      BY <1>a, <2>1 DEF ScanJournaled
    <2>4. ScanJournaled'
      BY <1>d, <2>1, <2>2, <2>3 DEF ScanJournaled, Covered, InScope
    <2>5. WorkingSetBacked'
      BY <1>6, <1>a, <2>1 DEF FetchLogs, WorkingSetBacked, diskVars, poolVars
    <2> QED
      BY <1>6, <1>a, <1>d, <2>1, <2>4, <2>5, SameCursor DEF FetchLogs, diskVars
  <1>7. ASSUME NEW m \in Messages, SkipLog(m) PROVE Goal
    <2>1. up' /\ up /\ lastSeen' = lastSeen /\ scan'.to = scan.to
             /\ scan'.phase = scan.phase
             /\ scan'.todo = scan.todo \ {m}
             /\ scan'.sending = scan.sending
      BY <1>7, <1>e DEF SkipLog, Scan, watchVars
    <2>2. m \notin Covered(scan.to)
      BY <1>7 DEF SkipLog, Covered, InScope
    <2>3. ScanJournaled'
      BY <1>a, <1>d, <2>1, <2>2 DEF ScanJournaled, Covered, InScope
    <2>4. WorkingSetBacked'
      BY <1>7, <1>a, <2>1 DEF SkipLog, WorkingSetBacked, diskVars, poolVars
    <2> QED
      BY <1>7, <1>a, <1>d, <2>1, <2>3, <2>4, SameCursor DEF SkipLog, diskVars
  <1>8. ASSUME NEW m \in Messages, RecordLog(m) PROVE Goal
    <2>1. up' /\ up /\ lastSeen' = lastSeen /\ scan'.to = scan.to
             /\ scan'.phase = scan.phase
             /\ scan'.todo = scan.todo \ {m}
             /\ scan'.sending = {m}
      BY <1>8, <1>e DEF RecordLog, Scan, watchVars
    <2>2. records' = records \cup {m} /\ m \in Safe'
      BY <1>8 DEF RecordLog, Record, Safe
    <2>3. ScanJournaled'
      BY <1>a, <1>d, <2>1, <2>2 DEF ScanJournaled, Covered, InScope
    <2>4. WorkingSetBacked'
      BY <1>8, <1>a, <2>1, <2>2 DEF RecordLog, WorkingSetBacked, poolVars
    <2> QED
      BY <1>8, <1>a, <1>d, <2>1, <2>3, <2>4, SameCursor DEF RecordLog
  <1>9. ASSUME NEW m \in Messages, RecordUnsynced(m) PROVE Goal
    <2>1. ScanJournaled'
      BY <1>9, <1>a, <1>d, AbandonedScan DEF RecordUnsynced, watchVars
    <2>2. WorkingSetBacked'
      BY <1>9, <1>a DEF RecordUnsynced, WorkingSetBacked, poolVars, Idle
    <2> QED
      BY <1>9, <1>a, <1>d, <2>1, <2>2, SameCursor DEF RecordUnsynced
  <1>10. CASE SendLog
    <2>1. up' /\ up /\ lastSeen' = lastSeen /\ scan'.to = scan.to
             /\ scan'.phase = scan.phase /\ scan'.todo = scan.todo
             /\ scan'.sending = {}
      BY <1>10, <1>e DEF SendLog, Scan, watchVars
    <2>2. ScanJournaled'
      BY <1>a, <1>d, <2>1 DEF ScanJournaled, Covered, InScope
    <2>3. WorkingSetBacked'
      BY <1>10, <1>a, <2>1 DEF SendLog, WorkingSetBacked, diskVars
    <2> QED
      BY <1>10, <1>a, <1>d, <2>1, <2>2, <2>3, SameCursor DEF SendLog, diskVars
  <1>11. CASE PollFails
    <2>1. ScanJournaled'
      BY <1>11, <1>a, <1>d, AbandonedScan DEF PollFails, watchVars
    <2>2. WorkingSetBacked'
      BY <1>11, <1>a DEF PollFails, WorkingSetBacked, diskVars, poolVars, Idle
    <2> QED
      BY <1>11, <1>a, <1>d, <2>1, <2>2, SameCursor DEF PollFails, diskVars
  <1>12. CASE FinishPoll
    <2>1. Covered(scan.to) \subseteq Safe
      BY <1>12, <1>a DEF FinishPoll, ScanJournaled
    <2>2. NoLoss'
      BY <1>12, <1>a, <1>d, <1>e, <2>1, SaveKeepsNoLoss DEF FinishPoll
    <2>3. ScanJournaled'
      BY <1>12, <1>d, <2>1 DEF FinishPoll, ScanJournaled, Covered, InScope, Idle
    <2>4. WorkingSetBacked'
      BY <1>12, <1>a DEF FinishPoll, WorkingSetBacked, poolVars, Idle
    <2> QED
      BY <1>12, <2>2, <2>3, <2>4 DEF FinishPoll
  <1>13. ASSUME NEW m \in Messages, Receive(m) PROVE Goal
    <2>1. WorkingSetBacked'
      BY <1>13, <1>a DEF Receive, WorkingSetBacked, diskVars
    <2> QED
      BY <1>13, <1>a, <1>b, <1>d, <2>1, SameCursor, SameScan
         DEF Receive, diskVars, watchVars
  <1>14. ASSUME NEW m \in Messages, Dispatch(m) \/ Retry(m) \/ Prune(m)
         PROVE  Goal
    <2>1. WorkingSetBacked'
      BY <1>14, <1>a DEF Dispatch, Retry, Prune, WorkingSetBacked, diskVars
    <2> QED
      BY <1>14, <1>a, <1>b, <1>d, <2>1, SameCursor, SameScan
         DEF Dispatch, Retry, Prune, diskVars, watchVars
  <1>15. ASSUME NEW m \in Messages, Verdict(m) PROVE Goal
    <2>1. WorkingSetBacked'
      BY <1>15, <1>a DEF Verdict, WorkingSetBacked
    <2> QED
      BY <1>15, <1>a, <1>b, <1>d, <2>1, SameCursor, SameScan
         DEF Verdict, watchVars
  <1>16. ASSUME NEW P \in SUBSET records, NEW C \in SUBSET open,
                NEW R \in SUBSET C, Refill(P, C, R)
         PROVE  Goal
    <2>1. records \subseteq records'
      BY <1>16 DEF Refill, Record
    <2>2. WorkingSetBacked'
      BY <1>16, <1>a, <2>1 DEF Refill, WorkingSetBacked
    <2> QED
      BY <1>16, <1>a, <1>b, <1>d, <2>2, SameCursor, SameScan
         DEF Refill, watchVars
  <1>17. CASE Exit
    BY <1>17, <1>a, <1>d, SameCursor, DownKeeps DEF Exit, diskVars
  <1>18. CASE CancelDuringSend
    <2>1. up
      BY <1>18 DEF CancelDuringSend
    <2>2. Covered(lastSeen) \subseteq Safe
      BY <1>a, <2>1 DEF ScanJournaled
    <2>3. \A c \in {ckpt', ckptSynced'} : c.block = lastSeen
      BY <1>18 DEF CancelDuringSend
    <2>4. NoLoss'
      BY <1>d, <2>2, <2>3 DEF NoLoss, Covered, InScope
    <2> QED
      BY <1>18, <2>4, DownKeeps DEF CancelDuringSend
  <1>19. CASE PowerLoss
    BY <1>19, <1>a, <1>d, SameCursor, DownKeeps DEF PowerLoss
  <1>20. ASSUME NEW m \in Messages, VerdictFails(m) PROVE Goal
    BY <1>20, <1>a, <1>d, SameCursor, DownKeeps DEF VerdictFails
  <1>21. CASE UNCHANGED vars
    BY <1>21, <1>a, <1>b, <1>d, SameCursor, SameScan
       DEF vars, WorkingSetBacked
  <1> QED
    BY <1>1, <1>2, <1>3, <1>4, <1>5, <1>6, <1>7, <1>8, <1>9, <1>10, <1>11,
       <1>12, <1>13, <1>14, <1>15, <1>16, <1>17, <1>18, <1>19, <1>20, <1>21
       DEF Next

(* Spec implies the inductive invariant, the root of the theorems below. *)
LEMMA Inductive == Spec => []IInv
  BY InitIInv, NextIInv, PTL DEF Spec

(* Whatever fails and whenever, no restart can read a cursor with a lost   *)
(* message behind it: it has a record that survives a power loss, or a     *)
(* final verdict.                                                          *)
THEOREM CursorNeverAhead == Spec => []NoLoss
  <1>1. IInv => NoLoss
    BY DEF IInv
  <1> QED
    BY <1>1, Inductive, PTL

(* The watcher journals every message of a range before it moves last_seen *)
(* over the range.                                                         *)
THEOREM ScanIsJournaled == Spec => []ScanJournaled
  <1>1. IInv => ScanJournaled
    BY DEF IInv
  <1> QED
    BY <1>1, Inductive, PTL

(* No unfinished message lives in memory only, so an exit at any point     *)
(* loses none.                                                             *)
THEOREM MemoryIsBacked == Spec => []WorkingSetBacked
  <1>1. IInv => WorkingSetBacked
    BY DEF IInv
  <1> QED
    BY <1>1, Inductive, PTL

(* Finished messages stay finished, and stay messages. *)
LEMMA FinishedGrows ==
  ASSUME TypeOK, [Next]_vars
  PROVE  finished \subseteq finished'
  <1>1. ASSUME NEW m \in Messages, Verdict(m) \/ VerdictFails(m)
        PROVE  finished \subseteq finished'
    BY <1>1 DEF Verdict, VerdictFails
  <1>2. ASSUME NEW m \in Messages,
               \/ SkipLog(m) \/ RecordLog(m) \/ RecordUnsynced(m)
               \/ Receive(m) \/ Dispatch(m) \/ Retry(m) \/ Prune(m)
        PROVE  finished \subseteq finished'
    BY <1>2 DEF SkipLog, RecordLog, RecordUnsynced, Receive, Dispatch, Retry,
                Prune
  <1>3. CASE \/ Finalize \/ Restart \/ PollNothing \/ BeginPoll
             \/ ShrinkRange \/ FetchLogs \/ SendLog \/ PollFails \/ FinishPoll
    BY <1>3 DEF Finalize, Restart, PollNothing, BeginPoll, ShrinkRange,
                FetchLogs, SendLog, PollFails, FinishPoll
  <1>4. ASSUME NEW P \in SUBSET records, NEW C \in SUBSET open,
               NEW R \in SUBSET C, Refill(P, C, R)
        PROVE  finished \subseteq finished'
    BY <1>4 DEF Refill
  <1>5. CASE Exit \/ CancelDuringSend \/ PowerLoss
    BY <1>5 DEF Exit, CancelDuringSend, PowerLoss
  <1>6. CASE UNCHANGED vars
    BY <1>6 DEF vars
  <1> QED
    BY <1>1, <1>2, <1>3, <1>4, <1>5, <1>6 DEF Next

(* A restart passes over no message that is not safe. *)
LEMMA PassedIsSafe ==
  ASSUME TypeOK, NoLoss
  PROVE  {m \in InScope : \A c \in {ckpt, ckptSynced} :
                             BlockOf[m] <= ResumeCursor(c)} \subseteq Safe
  <1>1. {m \in InScope : \A c \in {ckpt, ckptSynced} :
                            BlockOf[m] <= ResumeCursor(c)}
          \subseteq Covered(ResumeCursor(ckpt))
    BY DEF Covered
  <1> QED
    BY <1>1, ResumeIsSafe

(* The hand-off implements the custody specification: with a message held  *)
(* while its synced record is unfinished, no step drops one from custody,  *)
(* and a restart looks again for every message not in it.                  *)
THEOREM HandoffKeepsCustody == Spec => KeepsCustody
  <1>1. Init => custody!Init
    <2> SUFFICES ASSUME Init PROVE custody!Init
      OBVIOUS
    <2>1. PICK b : ckpt = [block |-> b, durable |-> FALSE]
      BY DEF Init
    <2>2. ResumeCursor(ckpt) = StartBlock - 1
      BY <2>1 DEF ResumeCursor
    <2>3. \A m \in InScope : ~(BlockOf[m] <= ResumeCursor(ckpt))
      BY <2>2, ConstantsAssumption DEF InScope
    <2> QED
      BY <2>3 DEF Init, custody!Init
  <1>2. IInv /\ IInv' /\ [Next]_vars => [custody!Step]_(custody!vars)
    <2> SUFFICES ASSUME IInv, IInv', [Next]_vars PROVE custody!Step
      OBVIOUS
    <2>1. TypeOK /\ TypeOK' /\ NoLoss'
      BY DEF IInv
    <2>2. Safe \subseteq Safe' /\ finished \subseteq finished'
      BY <2>1, SafeGrows, FinishedGrows
    <2>3. {m \in InScope : \A c \in {ckpt', ckptSynced'} :
                             BlockOf[m] <= ResumeCursor(c)} \subseteq Safe'
      <3>1. (TypeOK /\ NoLoss =>
               {m \in InScope : \A c \in {ckpt, ckptSynced} :
                             BlockOf[m] <= ResumeCursor(c)} \subseteq Safe)'
        BY PassedIsSafe, PTL
      <3> QED
        BY <2>1, <3>1 DEF InScope, ResumeCursor
    <2> QED
      BY <2>1, <2>2, <2>3 DEF custody!Step, Safe, TypeOK, InScope, ResumeCursor
  <1> QED
    BY <1>1, <1>2, Inductive, PTL DEF Spec, KeepsCustody, custody!Spec

=============================================================================
