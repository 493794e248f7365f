--------------------------- MODULE SupportProofs ----------------------------
(***************************************************************************)
(* Proofs about three parts that the pipeline leans on and that stand      *)
(* alone: the walk of the journal (WorkCursor), the watchdog over the      *)
(* workers (Supervision) and the source of the votes (Gossip).  They share *)
(* no variable, and each has a specification of its own.                   *)
(***************************************************************************)
EXTENDS WorkCursor, Supervision, Gossip, FiniteSetTheorems, SequenceTheorems, TLAPS

Sets == INSTANCE SetLemmas

-----------------------------------------------------------------------------
(***************************************************************************)
(* WorkCursor.  For every number of ids, window size and bounds of a call: *)
(* the count RouteCursor keeps is the number of records on disk, and a lap *)
(* offers every record that was there when it began.                       *)
(***************************************************************************)

Cursor == [open : BOOLEAN, live : Nat, after : 0..N, window : SUBSET Ids,
           lapEnd : 0..N]

(* LapCovers needs three facts of its own: what is owed is on disk, so an  *)
(* empty disk owes nothing; the window lies ahead of the cursor; and a     *)
(* call runs only on a cursor that has counted its records.                *)
CursorInv ==
    /\ records \subseteq Ids
    /\ cursor \in Cursor
    /\ call.running => cursor.open
    /\ ~cursor.open => cursor = Vacant
    /\ owed \subseteq records
    /\ \A x \in cursor.window : cursor.after < x
    /\ LiveIsExact
    /\ LapCovers

(* The ids of the route are finitely many, and so are its records. *)
LEMMA IdsFinite ==
  ASSUME NEW S, S \subseteq Ids
  PROVE  IsFiniteSet(S) /\ Cardinality(S) \in Nat /\ S \subseteq Nat
  <1>1. IsFiniteSet(Ids) /\ Ids \subseteq Nat
    BY CursorAssumption, FS_Interval DEF Ids
  <1> QED
    BY <1>1, FS_Subset, FS_CardinalityType

(* A restarted process has a cursor that has not been opened. *)
LEMMA VacantIsCursor == Vacant \in Cursor
  BY CursorAssumption DEF Cursor, Vacant

(* RouteCursor::refill keeps the smallest ids that fit: an id that fits is *)
(* in the window or beyond all of it, and the window is empty only when    *)
(* nothing fits.                                                           *)
LEMMA WindowIsSmallest ==
  ASSUME records \subseteq Ids, cursor \in Cursor
  PROVE  LET fit == {id \in records : cursor.after < id
                               /\ (cursor.after # 0 => id <= cursor.lapEnd)}
         IN  /\ Window(cursor) \subseteq fit
             /\ fit # {} => Window(cursor) # {}
             /\ \A id \in fit : \/ id \in Window(cursor)
                                \/ \A x \in Window(cursor) : x < id
  <1> DEFINE fit == {id \in records : cursor.after < id
                               /\ (cursor.after # 0 => id <= cursor.lapEnd)}
             Below(id) == {x \in fit : x < id}
  <1>1. Window(cursor) = {id \in fit : Cardinality(Below(id)) < WindowSize}
    BY DEF Window
  <1>2. fit \subseteq Ids /\ fit \subseteq Nat
    <2>1. fit \subseteq Ids
      OBVIOUS
    <2> QED
      BY <2>1, IdsFinite
  <1> HIDE DEF fit
  <1>3. Window(cursor) \subseteq fit
    BY <1>1
  <1>4. ASSUME fit # {} PROVE Window(cursor) # {}
    <2>1. PICK m \in fit : \A y \in fit : m <= y
      BY <1>2, <1>4, Sets!LeastExists
    <2>2. Below(m) = {}
      <3>1. \A y \in fit : ~(y < m)
        BY <1>2, <2>1
      <3> QED
        BY <3>1, Zenon
    <2>3. Cardinality(Below(m)) < WindowSize
      BY <2>2, FS_EmptySet, CursorAssumption
    <2> QED
      BY <1>1, <2>1, <2>3
  <1>5. ASSUME NEW id \in fit, NEW x \in Window(cursor), ~(x < id)
        PROVE  id \in Window(cursor)
    <2>1. x \in fit /\ Cardinality(Below(x)) < WindowSize
      BY <1>1
    <2>2. id <= x /\ id \in Nat /\ x \in Nat
      BY <1>2, <1>5, <2>1
    <2>3. Below(id) \in SUBSET Below(x)
      <3>1. \A y \in fit : y < id => y < x
        BY <1>2, <2>2
      <3> QED
        BY <3>1, Zenon
    <2>4. /\ IsFiniteSet(Below(x)) /\ Cardinality(Below(x)) \in Nat
          /\ Cardinality(Below(id)) \in Nat
      BY <1>2, IdsFinite
    <2>5. Cardinality(Below(id)) <= Cardinality(Below(x))
      BY <2>3, <2>4, FS_Subset
    <2> HIDE DEF Below
    <2>6. Cardinality(Below(id)) < WindowSize
      BY <2>1, <2>4, <2>5, CursorAssumption
    <2> QED
      BY <1>1, <2>6
  <1>6. \A id \in fit : \/ id \in Window(cursor)
                        \/ \A x \in Window(cursor) : x < id
    BY <1>5
  <1> QED
    BY <1>3, <1>4, <1>6 DEF fit

(* The lap ends at the last record there is. *)
LEMMA LapEndCovers ==
  ASSUME records \subseteq Ids, records # {}
  PROVE  Max(records) \in Ids /\ \A id \in records : id <= Max(records)
  <1>1. records \subseteq Nat /\ \A x \in records : x <= N
    BY IdsFinite, CursorAssumption DEF Ids
  <1>2. Max(records) \in records /\ \A y \in records : Max(records) >= y
    <2>1. Max(records) = Sets!Max(records)
      BY DEF Max, Sets!Max
    <2> QED
      BY <1>1, <2>1, CursorAssumption, Sets!MaxProperty
  <1> QED
    BY <1>1, <1>2

(* A route starts with no cursor, whatever the directory holds. *)
LEMMA InitCursorInv == CursorInit => CursorInv
  <1> SUFFICES ASSUME CursorInit PROVE CursorInv
    OBVIOUS
  <1>1. cursor \in Cursor
    BY CursorAssumption DEF CursorInit, Cursor, Vacant
  <1> QED
    BY <1>1 DEF CursorInit, CursorInv, LiveIsExact, LapCovers, Vacant, NoCall

-----------------------------------------------------------------------------
(* record counts a new file once. *)
LEMMA RecordStep ==
  ASSUME CursorInv, NEW id \in Ids, Record(id)
  PROVE  CursorInv'
  <1> USE DEF CursorInv
  <1>1. /\ records' = records \cup {id} /\ call' = call /\ owed' = owed
        /\ ~call.running
        /\ cursor' = IF cursor.open /\ id \notin records
                     THEN [cursor EXCEPT !.live = @ + 1] ELSE cursor
    BY DEF Record
  <1>2. cursor \in Cursor /\ cursor.live \in Nat
    BY DEF Cursor
  <1>3. cursor' \in Cursor
    BY <1>1, <1>2 DEF Cursor
  <1>4. /\ cursor'.after = cursor.after /\ cursor'.window = cursor.window
        /\ cursor'.lapEnd = cursor.lapEnd /\ cursor'.open = cursor.open
    BY <1>1, <1>2 DEF Cursor
  <1>5. LiveIsExact'
    <2>1. /\ IsFiniteSet(records)
          /\ Cardinality(records \cup {id}) = IF id \in records
               THEN Cardinality(records) ELSE Cardinality(records) + 1
      BY IdsFinite, FS_AddElement
    <2>2. cursor.open => cursor'.live = IF id \in records THEN cursor.live
                                        ELSE cursor.live + 1
      BY <1>1, <1>2 DEF Cursor
    <2> QED
      BY <1>1, <1>4, <2>1, <2>2 DEF LiveIsExact
  <1>6. LapCovers'
    BY <1>1, <1>4 DEF LapCovers
  <1>7. ~cursor'.open => cursor' = Vacant
    BY <1>1, <1>4
  <1> QED
    BY <1>1, <1>3, <1>4, <1>5, <1>6, <1>7

(* complete uncounts a file that was there; the saturating subtraction     *)
(* never saturates.                                                        *)
LEMMA CompleteStep ==
  ASSUME CursorInv, NEW id \in Ids, Complete(id)
  PROVE  CursorInv'
  <1> USE DEF CursorInv
  <1>1. /\ records' = records \ {id} /\ call' = call /\ owed' = owed \ {id}
        /\ ~call.running /\ id \in records
        /\ cursor' = IF cursor.open
                     THEN [cursor EXCEPT !.live = IF @ > 0 THEN @ - 1 ELSE 0]
                     ELSE cursor
    BY DEF Complete
  <1>2. cursor \in Cursor /\ cursor.live \in Nat
    BY DEF Cursor
  <1>3. cursor' \in Cursor
    BY <1>1, <1>2 DEF Cursor
  <1>4. /\ cursor'.after = cursor.after /\ cursor'.window = cursor.window
        /\ cursor'.lapEnd = cursor.lapEnd /\ cursor'.open = cursor.open
    BY <1>1, <1>2 DEF Cursor
  <1>5. LiveIsExact'
    <2>1. /\ IsFiniteSet(records) /\ Cardinality(records) \in Nat
          /\ IsFiniteSet(records \ {id}) /\ Cardinality(records \ {id}) \in Nat
      BY IdsFinite
    <2>2. Cardinality(records \ {id}) = Cardinality(records) - 1
      BY <1>1, <2>1, FS_RemoveElement
    <2>3. cursor.open => cursor'.live = cursor.live - 1
      BY <1>1, <1>2, <2>1, <2>2 DEF Cursor, LiveIsExact
    <2> QED
      BY <1>1, <1>4, <2>1, <2>2, <2>3 DEF LiveIsExact
  <1>6. LapCovers'
    BY <1>1, <1>4 DEF LapCovers
  <1>7. ~cursor'.open => cursor' = Vacant
    BY <1>1, <1>4
  <1> QED
    BY <1>1, <1>3, <1>4, <1>5, <1>6, <1>7

(* The first call of pending counts what is on disk. *)
LEMMA StartCallStep ==
  ASSUME CursorInv, NEW loaded, NEW limit, StartCall(loaded, limit)
  PROVE  CursorInv'
  <1> USE DEF CursorInv
  <1>1. CASE cursor.open
    <2>1. cursor' = cursor /\ records' = records /\ owed' = owed
      BY <1>1 DEF StartCall
    <2> QED
      BY <1>1, <2>1 DEF LiveIsExact, LapCovers
  <1>2. CASE ~cursor.open
    <2>1. cursor = Vacant
      BY <1>2
    <2>2. owed = {}
      BY <2>1 DEF LapCovers, Vacant
    <2>3. /\ cursor' = [open |-> TRUE, live |-> Cardinality(records),
                        after |-> 0, window |-> {}, lapEnd |-> 0]
          /\ records' = records /\ owed' = {}
      BY <1>2, <2>2 DEF StartCall, Vacant
    <2>4. cursor' \in Cursor
      BY <2>3, IdsFinite, CursorAssumption DEF Cursor
    <2> QED
      BY <2>3, <2>4 DEF LiveIsExact, LapCovers
  <1> QED
    BY <1>1, <1>2

(* A refill leaves the count alone, and what it leaves out of the window   *)
(* lies beyond it.                                                         *)
LEMMA RefillStep ==
  ASSUME CursorInv, RefillWindow
  PROVE  CursorInv'
  <1> USE DEF CursorInv
  <1> DEFINE end == IF cursor.after # 0 THEN cursor.lapEnd
                    ELSE IF records = {} THEN 0 ELSE Max(records)
  <1>1. /\ cursor' = [cursor EXCEPT !.window = Window(cursor), !.lapEnd = end]
        /\ records' = records /\ call' = call
        /\ owed' = IF cursor.after = 0 THEN records ELSE owed
    BY DEF RefillWindow, Refilled, Cursor
  <1>2. Window(cursor) # {}
    BY DEF RefillWindow, Refilled, Cursor
  <1>3. end \in 0..N /\ cursor.after \in 0..N /\ cursor.lapEnd \in 0..N
    BY LapEndCovers, CursorAssumption DEF Cursor, Ids
  <1>4. Window(cursor) \subseteq Ids
    BY WindowIsSmallest
  <1>5. cursor' \in Cursor
    BY <1>1, <1>3, <1>4 DEF Cursor
  <1>6. /\ cursor'.window = Window(cursor) /\ cursor'.after = cursor.after
        /\ cursor'.lapEnd = end /\ cursor'.open = cursor.open
        /\ cursor'.live = cursor.live
    BY <1>1 DEF Cursor
  <1>7. cursor.open
    BY DEF RefillWindow, InLoop
  <1>8. \A id \in owed' : /\ id \in records /\ cursor.after < id
                          /\ id <= end
                          /\ cursor.after # 0 => id <= cursor.lapEnd
    <2>1. CASE cursor.after = 0
      BY <1>1, <2>1, LapEndCovers DEF Ids
    <2>2. CASE cursor.after # 0
      BY <1>1, <2>2 DEF LapCovers
    <2> QED
      BY <2>1, <2>2
  <1> HIDE DEF end
  <1>9. LapCovers'
    BY <1>2, <1>6, <1>8, WindowIsSmallest DEF LapCovers
  <1>10. \A x \in cursor'.window : cursor'.after < x
    BY <1>6, WindowIsSmallest
  <1>11. owed' \subseteq records'
    BY <1>1
  <1> QED
    BY <1>1, <1>5, <1>6, <1>7, <1>9, <1>10, <1>11 DEF LiveIsExact

(* When a refill finds nothing, nothing of the lap is owed. *)
LEMMA EndLapStep ==
  ASSUME CursorInv, EndLap
  PROVE  CursorInv'
  <1> USE DEF CursorInv
  <1> DEFINE end == IF cursor.after # 0 THEN cursor.lapEnd
                    ELSE IF records = {} THEN 0 ELSE Max(records)
  <1>1. /\ cursor' = [open |-> cursor.open, live |-> cursor.live, after |-> 0,
                      window |-> Window(cursor), lapEnd |-> end]
        /\ records' = records /\ owed' = owed
    BY DEF EndLap, Refilled, Cursor
  <1>2. Window(cursor) = {} /\ cursor.window = {} /\ cursor.open
    BY DEF EndLap, Refilled, Cursor, InLoop
  <1>3. end \in 0..N
    BY LapEndCovers, CursorAssumption DEF Cursor, Ids
  <1>4. owed = {}
    <2>1. CASE cursor.after = 0
      BY <1>2, <2>1 DEF LapCovers
    <2>2. CASE cursor.after # 0
      <3>1. \A id \in owed : /\ id \in records /\ cursor.after < id
                             /\ id <= cursor.lapEnd
        BY <2>2 DEF LapCovers
      <3> QED
        BY <1>2, <3>1, WindowIsSmallest
    <2> QED
      BY <2>1, <2>2
  <1> HIDE DEF end
  <1>5. cursor' \in Cursor
    BY <1>1, <1>2, <1>3, CursorAssumption DEF Cursor
  <1> QED
    BY <1>1, <1>2, <1>4, <1>5 DEF LiveIsExact, LapCovers

(* Whatever pending examines next, everything still owed lies beyond it. *)
LEMMA ExamineStep ==
  ASSUME CursorInv, Examine
  PROVE  CursorInv'
  <1> USE DEF CursorInv
  <1> DEFINE id == Min(cursor.window)
  <1>1. /\ cursor' = [cursor EXCEPT !.window = @ \ {id}, !.after = id]
        /\ records' = records /\ owed' = owed \ {id} /\ cursor.window # {}
        /\ call.running
    BY DEF Examine, InLoop
  <1>2. cursor.window \subseteq Ids /\ cursor.window \subseteq Nat
    BY IdsFinite DEF Cursor
  <1>3. id \in cursor.window /\ \A y \in cursor.window : id <= y
    <2>1. id = Sets!Min(cursor.window)
      BY DEF Min, Sets!Min
    <2> QED
      BY <1>1, <1>2, <2>1, Sets!MinProperty
  <1> HIDE DEF id
  <1>4. id \in 1..N /\ id \in 0..N
    BY <1>2, <1>3, CursorAssumption DEF Ids
  <1>5. cursor' \in Cursor
    BY <1>1, <1>2, <1>4 DEF Cursor
  <1>6. /\ cursor'.window = cursor.window \ {id} /\ cursor'.after = id
        /\ cursor'.lapEnd = cursor.lapEnd /\ cursor'.open = cursor.open
        /\ cursor'.live = cursor.live
    BY <1>1 DEF Cursor
  <1>7. \A x \in cursor'.window : id < x
    BY <1>2, <1>3, <1>6
  <1>8. LapCovers'
    <2>1. cursor'.after # 0
      BY <1>4, <1>6
    <2>2. ASSUME NEW o \in owed'
          PROVE  /\ id < o /\ o <= cursor.lapEnd
                 /\ \/ o \in cursor'.window
                    \/ \A x \in cursor'.window : x < o
      <3>1. o \in owed /\ o # id /\ o <= cursor.lapEnd
        BY <1>1, <2>2 DEF LapCovers
      <3>2. CASE o \in cursor.window
        BY <1>6, <1>7, <3>1, <3>2
      <3>3. CASE \A x \in cursor.window : x < o
        BY <1>3, <1>6, <3>1, <3>3
      <3> QED
        BY <3>1, <3>2, <3>3 DEF LapCovers
    <2> QED
      BY <1>6, <2>1, <2>2 DEF LapCovers
  <1> QED
    BY <1>1, <1>5, <1>6, <1>7, <1>8 DEF LiveIsExact

(* Every step of the walk, of record and of complete keeps the invariant. *)
LEMMA NextCursorInv == CursorInv /\ [CursorNext]_cursorVars => CursorInv'
  <1> SUFFICES ASSUME CursorInv, [CursorNext]_cursorVars PROVE CursorInv'
    OBVIOUS
  <1>1. ASSUME NEW id \in Ids, Record(id) \/ Complete(id) PROVE CursorInv'
    BY <1>1, RecordStep, CompleteStep
  <1>2. ASSUME NEW loaded \in SUBSET Ids, NEW limit \in 1..MaxLimit,
               StartCall(loaded, limit)
        PROVE  CursorInv'
    BY <1>2, StartCallStep
  <1>3. CASE StopEmpty
    <2>1. /\ cursor' = [cursor EXCEPT !.after = 0] /\ cursor.live = 0
          /\ cursor.window = {} /\ records' = records /\ owed' = owed
          /\ cursor.open /\ call' = NoCall
      BY <1>3 DEF StopEmpty, InLoop, CursorInv
    <2>2. records = {}
      BY <2>1, IdsFinite, FS_EmptySet DEF CursorInv, LiveIsExact
    <2>3. cursor' \in Cursor
      BY <2>1, CursorAssumption DEF CursorInv, Cursor
    <2> QED
      BY <2>1, <2>2, <2>3
      DEF CursorInv, Cursor, LiveIsExact, LapCovers
  <1>4. CASE RefillWindow
    BY <1>4, RefillStep
  <1>5. CASE EndLap
    BY <1>5, EndLapStep
  <1>6. CASE StopAtStart \/ StopExamined
    BY <1>6 DEF StopAtStart, StopExamined, CursorInv, LiveIsExact, LapCovers,
                NoCall
  <1>7. CASE Examine
    BY <1>7, ExamineStep
  <1>8. CASE Restart
    BY <1>8, VacantIsCursor DEF Restart, CursorInv, LiveIsExact, LapCovers,
                              Vacant, NoCall
  <1>9. CASE UNCHANGED cursorVars
    BY <1>9 DEF cursorVars, CursorInv, LiveIsExact, LapCovers
  <1> QED
    BY <1>1, <1>2, <1>3, <1>4, <1>5, <1>6, <1>7, <1>8, <1>9 DEF CursorNext, Walk

(* The journal's invariant holds in every state. *)
LEMMA CursorInvariant == CursorSpec => []CursorInv
  BY InitCursorInv, NextCursorInv, PTL DEF CursorSpec

(* The count that pending trusts to say "nothing is left" is the number of *)
(* records on disk, through every order of record, complete, calls and     *)
(* restarts (RouteCursor, WorkStore::record, WorkStore::complete).         *)
THEOREM LiveExact == CursorSpec => []LiveIsExact
  <1>1. CursorInv => LiveIsExact
    BY DEF CursorInv
  <1> QED
    BY <1>1, CursorInvariant, PTL

(* A lap of the cursor skips no record that was there when it began,       *)
(* whatever the size of the window and of a call (RouteCursor::refill,     *)
(* WorkStore::pending).                                                    *)
THEOREM LapComplete == CursorSpec => []LapCovers
  <1>1. CursorInv => LapCovers
    BY DEF CursorInv
  <1> QED
    BY <1>1, CursorInvariant, PTL

-----------------------------------------------------------------------------
(***************************************************************************)
(* Supervision.  For every setting of the timers: a poller whose endpoint  *)
(* serves nothing for longer than the deadline is not reported healthy,    *)
(* and no worker is reported stale for waiting, only for what it does.     *)
(***************************************************************************)
Ages == 0 .. Past

WatchType ==
  /\ kind \in Kinds /\ mode \in {"down", "setup", "turning", "hung"}
  /\ stage \in {"idle", "poll", "batch", "job", "settle"}
  /\ endpoint \in {"up", "down", "limiting"}
  /\ okAge \in Ages /\ errAge \in Ages /\ toil \in Ages /\ outage \in Ages
  /\ due \in Nat /\ due <= IF kind = "delivery" THEN HealthTick ELSE PollInterval
  /\ level \in Nat /\ defer \in Nat /\ limited \in BOOLEAN
  /\ jobAge \in Nat \cup {NoJob}

(* A worker that does not turn yet has nothing to remember, and a deferral *)
(* is waited for between two polls.                                        *)
RestInv ==
  /\ mode \in {"down", "setup"} => stage = "idle" /\ due = 0 /\ defer = 0 /\ jobAge = NoJob
  /\ defer > 0 => stage = "idle" /\ kind \in {"scanner", "setwatcher"}

(* The last success of a poller is no younger than the outage: what it     *)
(* reports it was served.                                                  *)
OutageInv ==
  /\ endpoint = "up" \/ stage = "batch" => outage = 0
  /\ kind # "delivery" /\ mode # "down" => outage <= okAge

WatchInv == WatchType /\ RestInv /\ OutageInv

(* The constants, as the provers like them. *)
LEMMA Timers ==
  /\ Deadline \in Nat \ {0} /\ PollInterval \in Nat \ {0} /\ RebuildAfter \in Nat \ {0}
  /\ HealthTick \in Nat \ {0} /\ Past \in Nat /\ Past = Deadline + 1
  BY SupervisionAssumption DEF Past

(* What a unit of time does to an age and to a time that is left. *)
LEMMA Passing ==
  ASSUME NEW age \in Nat \cup {NoJob}, NEW cap \in Nat, NEW left \in Nat
  PROVE  /\ Older(age, cap) = IF age = NoJob THEN NoJob
                              ELSE IF age + 1 <= cap THEN age + 1 ELSE cap
         /\ Sooner(left) = IF left = 0 THEN 0 ELSE left - 1
  <1>1. Sooner(left) = IF left = 0 THEN 0 ELSE left - 1
    BY DEF Sooner, Max
  <1>2. CASE age = NoJob
    BY <1>1, <1>2 DEF Older
  <1>3. CASE age \in Nat
    <2>1. Min({age + 1, cap}) = IF age + 1 <= cap THEN age + 1 ELSE cap
      BY <1>3 DEF Min
    <2>2. age # NoJob
      BY <1>3 DEF NoJob
    <2> QED
      BY <1>1, <2>1, <2>2 DEF Older
  <1> QED
    BY <1>2, <1>3

(* RateLimitPacer::after defers only after a limited call, and by one of   *)
(* its windows.                                                            *)
LEMMA PaceFacts ==
  ASSUME WatchType, NEW rateLimited \in BOOLEAN, Pace(rateLimited)
  PROVE  /\ level' \in Nat /\ defer' \in Nat
         /\ ~rateLimited => defer' = defer
         /\ rateLimited => \E i \in DOMAIN Windows : defer' = Windows[i]
  <1>1. level \in Nat /\ defer \in Nat
    BY DEF WatchType
  <1>2. Len(Windows) \in Nat \ {0} /\ DOMAIN Windows = 1 .. Len(Windows)
        /\ \A i \in DOMAIN Windows : Windows[i] \in Nat
    BY SupervisionAssumption
  <1>3. Min({level + 1, Len(Windows)}) \in DOMAIN Windows
    BY <1>1, <1>2 DEF Min
  <1>4. Max({0, level - 1}) \in Nat
    BY <1>1 DEF Max
  <1>5. CASE rateLimited
    <2> DEFINE k == Min({level + 1, Len(Windows)})
    <2>1. level' = k /\ defer' = Windows[k]
      BY <1>5 DEF Pace
    <2>2. k \in Nat /\ Windows[k] \in Nat
      BY <1>2, <1>3
    <2> HIDE DEF k
    <2> QED
      BY <1>3, <1>5, <2>1, <2>2 DEF k
  <1>6. CASE ~rateLimited
    BY <1>1, <1>4, <1>6 DEF Pace
  <1> QED
    BY <1>5, <1>6

(* A unit of time. *)
LEMMA TickFacts ==
  ASSUME WatchType, Tick
  PROVE  /\ okAge' = IF okAge = Past THEN Past ELSE okAge + 1
         /\ errAge' = IF errAge = Past THEN Past ELSE errAge + 1
         /\ toil' = IF ~AtWork THEN toil ELSE IF toil = Past THEN Past ELSE toil + 1
         /\ outage' = IF endpoint = "up" \/ stage = "batch" THEN 0
                      ELSE IF outage = Past THEN Past ELSE outage + 1
         /\ due' = IF due = 0 THEN 0 ELSE due - 1
         /\ defer' = IF defer = 0 THEN 0 ELSE defer - 1
         /\ jobAge' = IF jobAge = NoJob THEN NoJob
                      ELSE IF jobAge + 1 <= HealthTick THEN jobAge + 1 ELSE HealthTick
         /\ kind' = kind /\ mode' = mode /\ stage' = stage /\ endpoint' = endpoint
         /\ level' = level /\ limited' = limited
  <1>1. \A age \in Ages : Older(age, Past) = IF age = Past THEN Past ELSE age + 1
    <2> SUFFICES ASSUME NEW age \in Ages
                 PROVE  Older(age, Past) = IF age = Past THEN Past ELSE age + 1
      OBVIOUS
    <2>1. age \in Nat /\ age <= Past /\ Past \in Nat /\ age # NoJob
      BY Timers DEF Ages, NoJob
    <2>2. Older(age, Past) = IF age + 1 <= Past THEN age + 1 ELSE Past
      BY <2>1, Passing
    <2> QED
      BY <2>1, <2>2
  <1>2. okAge' = IF okAge = Past THEN Past ELSE okAge + 1
    BY <1>1 DEF Tick, WatchType
  <1>3. errAge' = IF errAge = Past THEN Past ELSE errAge + 1
    BY <1>1 DEF Tick, WatchType
  <1>4. toil' = IF ~AtWork THEN toil ELSE IF toil = Past THEN Past ELSE toil + 1
    BY <1>1 DEF Tick, WatchType
  <1>5. outage' = IF endpoint = "up" \/ stage = "batch" THEN 0
                  ELSE IF outage = Past THEN Past ELSE outage + 1
    BY <1>1 DEF Tick, WatchType
  <1>6. /\ due' = IF due = 0 THEN 0 ELSE due - 1
        /\ defer' = IF defer = 0 THEN 0 ELSE defer - 1
        /\ jobAge' = IF jobAge = NoJob THEN NoJob
                     ELSE IF jobAge + 1 <= HealthTick THEN jobAge + 1 ELSE HealthTick
    BY Timers, Passing DEF Tick, WatchType
  <1> QED
    BY <1>2, <1>3, <1>4, <1>5, <1>6 DEF Tick

(* A poll that ends: what follows, and what the pacer makes of it. *)
LEMMA EndFacts ==
  ASSUME WatchType, NEW ok \in BOOLEAN, NEW rateLimited \in BOOLEAN,
         PollEnds(ok, rateLimited), kind # "delivery"
  PROVE  /\ stage' \in {"idle", "settle"} /\ (kind = "scanner" => stage' = "settle")
         /\ ok /\ kind = "setwatcher" => stage' = "settle"
         /\ level' \in Nat /\ defer' \in Nat /\ limited' \in BOOLEAN
         /\ \/ defer' = defer
            \/ /\ kind = "setwatcher" /\ rateLimited
               /\ \E i \in DOMAIN Windows : defer' = Windows[i]
  <1>1. kind \in {"watcher", "scanner", "setwatcher"}
    BY DEF WatchType, Kinds
  <1>2. CASE kind = "watcher"
    BY <1>2 DEF PollEnds, pacing, WatchType
  <1>3. CASE kind = "scanner"
    BY <1>3 DEF PollEnds, WatchType
  <1>4. CASE kind = "setwatcher"
    <2>1. Pace(rateLimited) /\ stage' = (IF ok THEN "settle" ELSE "idle") /\ limited' = limited
      BY <1>4 DEF PollEnds
    <2> QED
      BY <1>4, <2>1, PaceFacts DEF WatchType
  <1> QED
    BY <1>1, <1>2, <1>3, <1>4

(* Nothing has happened yet. *)
LEMMA InitWatchInv == WatchInit => WatchInv
  <1> SUFFICES ASSUME WatchInit PROVE WatchInv
    OBVIOUS
  <1>1. okAge \in Ages /\ errAge \in Ages /\ toil \in Ages /\ outage \in Ages
    BY Timers DEF WatchInit, Ages
  <1>2. WatchType
    <2>1. limited \in BOOLEAN /\ jobAge = NoJob /\ stage = "idle" /\ endpoint = "up"
          /\ kind \in Kinds /\ mode = "down" /\ due = 0 /\ level = 0 /\ defer = 0
      BY DEF WatchInit
    <2> QED
      BY <1>1, <2>1, Timers DEF WatchType
  <1>3. RestInv /\ OutageInv
    BY Timers DEF WatchInit, RestInv, OutageInv
  <1> QED
    BY <1>2, <1>3 DEF WatchInv

(* A unit of time: an outage and the age of the last success grow          *)
(* together.                                                               *)
LEMMA TickStep ==
  ASSUME WatchInv, Tick
  PROVE  WatchInv'
  <1>1. WatchType /\ RestInv /\ OutageInv /\ ~Urgent
    BY DEF WatchInv, Tick
  <1>2. WatchType'
    BY <1>1, TickFacts, Timers DEF WatchType, Ages, NoJob, AtWork
  <1>3. RestInv'
    BY <1>1, TickFacts, Timers DEF WatchType, RestInv, Urgent, NoJob
  <1>4. OutageInv'
    BY <1>1, TickFacts, Timers DEF WatchType, OutageInv, Ages
  <1> QED
    BY <1>2, <1>3, <1>4 DEF WatchInv

(* What is not about time: endpoints and providers, a hang, a process that *)
(* starts or ends.                                                         *)
LEMMA ProcessStep ==
  ASSUME WatchInv,
         \/ TransportDies \/ \E e \in {"up", "down", "limiting"} : EndpointChanges(e)
         \/ Start \/ Online \/ Hang \/ ProbeKills \/ WorkerExits
  PROVE  WatchInv'
  <1> USE DEF WatchInv, WatchType, RestInv, OutageInv, registry, pacing, rpc, world, NoJob, Ages
  <1>1. CASE TransportDies
    BY <1>1 DEF TransportDies
  <1>2. ASSUME NEW e \in {"up", "down", "limiting"}, EndpointChanges(e) PROVE WatchInv'
    BY <1>2, Timers DEF EndpointChanges
  <1>3. CASE Start
    BY <1>3, Timers DEF Start
  <1>4. CASE Online
    BY <1>4 DEF Online
  <1>5. CASE Hang
    BY <1>5 DEF Hang
  <1>6. CASE ProbeKills \/ WorkerExits
    <2>1. /\ mode' = "down" /\ stage' = "idle" /\ due' = 0 /\ level' = 0 /\ defer' = 0
          /\ limited' \in BOOLEAN /\ jobAge' = NoJob /\ UNCHANGED <<kind, registry, world>>
      BY <1>6 DEF ProbeKills, WorkerExits, Cleared
    <2> QED
      BY <2>1, Timers
  <1> QED
    BY <1>1, <1>2, <1>3, <1>4, <1>5, <1>6

(* A poller reports success only of what it was served, so no outage has   *)
(* begun before.                                                           *)
LEMMA PollStep ==
  ASSUME WatchInv, PollDeferred \/ BeginPoll \/ Progress \/ PollOk \/ PollErr \/ Settled
  PROVE  WatchInv'
  <1>1. WatchType /\ RestInv /\ OutageInv /\ mode = "turning" /\ mode' = mode /\ kind' = kind
    BY DEF WatchInv, PollDeferred, BeginPoll, Polls, Progress, PollOk, PollErr, Polling, Settled
  <1> USE DEF WatchInv, WatchType, RestInv, OutageInv, registry, pacing, rpc, world, NoJob, Ages
  <1>2. CASE PollDeferred
    BY <1>1, <1>2, Timers DEF PollDeferred, Polls
  <1>3. CASE BeginPoll
    BY <1>1, <1>3, Timers DEF BeginPoll, Polls
  <1>4. CASE Progress
    BY <1>1, <1>4, Timers DEF Progress, Polling, Served, Heartbeat
  <1>5. CASE PollOk
    <2>1. /\ Polling /\ Served /\ UNCHANGED <<due, world, jobAge>>
          /\ Heartbeat /\ PollEnds(TRUE, FALSE)
      BY <1>5 DEF PollOk
    <2>2. kind # "delivery" /\ stage \in {"poll", "batch"} /\ outage = 0 /\ defer = 0
      BY <1>1, <2>1 DEF Polling, Served
    <2>3. stage' \in {"idle", "settle"} /\ level' \in Nat /\ defer' = 0 /\ limited' \in BOOLEAN
      BY <1>1, <2>1, <2>2, EndFacts
    <2> QED
      BY <1>1, <2>1, <2>2, <2>3, Timers DEF Heartbeat
  <1>6. CASE PollErr
    <2> DEFINE rateLimited == endpoint = "limiting" /\ provider = "live"
    <2>1. /\ Polling /\ rateLimited \in BOOLEAN /\ UNCHANGED <<due, world, jobAge>>
          /\ Error /\ PollEnds(FALSE, rateLimited)
      BY <1>6 DEF PollErr
    <2> HIDE DEF rateLimited
    <2>2. kind # "delivery" /\ stage \in {"poll", "batch"} /\ defer = 0
      BY <1>1, <2>1 DEF Polling
    <2>3. /\ stage' \in {"idle", "settle"} /\ level' \in Nat /\ defer' \in Nat /\ limited' \in BOOLEAN
          /\ defer' = 0 \/ (kind = "setwatcher" /\ stage' = "idle")
      <3>1. kind = "setwatcher" => stage' = "idle"
        BY <2>1 DEF PollEnds
      <3> QED
        BY <1>1, <2>1, <2>2, <3>1, EndFacts
    <2> QED
      BY <1>1, <2>1, <2>2, <2>3, Timers DEF Error
  <1>7. CASE Settled
    <2>1. stage = "settle" /\ stage' = "idle" /\ limited' = FALSE /\ defer = 0
          /\ UNCHANGED <<registry, due, endpoint, outage, jobAge>>
      BY <1>1, <1>7 DEF Settled
    <2>2. /\ level' \in Nat /\ defer' \in Nat /\ (kind # "scanner" => defer' = 0)
      BY <1>1, <1>7, <2>1, PaceFacts DEF Settled
    <2> QED
      BY <1>1, <2>1, <2>2, Timers
  <1> QED
    BY <1>2, <1>3, <1>4, <1>5, <1>6, <1>7

(* The delivery worker. *)
LEMMA JobStep ==
  ASSUME WatchInv, TakeJob \/ JobDone \/ LivenessTick
  PROVE  WatchInv'
  <1>1. WatchType /\ RestInv /\ OutageInv /\ kind = "delivery" /\ mode = "turning"
    BY DEF WatchInv, TakeJob, JobDone, LivenessTick, Free
  <1> USE DEF WatchInv, WatchType, RestInv, OutageInv, registry, pacing, rpc, world, NoJob, Ages
  <1>2. CASE TakeJob
    BY <1>1, <1>2, Timers DEF TakeJob, Free
  <1>3. CASE JobDone
    BY <1>1, <1>3, Timers DEF JobDone, Heartbeat
  <1>4. CASE LivenessTick
    BY <1>1, <1>4, Timers DEF LivenessTick, Free, Heartbeat
  <1> QED
    BY <1>2, <1>3, <1>4

(* The invariant is inductive. *)
LEMMA NextWatchInv == WatchInv /\ [WatchNext]_watchVars => WatchInv'
  <1> SUFFICES ASSUME WatchInv, [WatchNext]_watchVars PROVE WatchInv'
    OBVIOUS
  <1>1. CASE WatchNext
    BY <1>1, TickStep, ProcessStep, PollStep, JobStep DEF WatchNext
  <1>2. CASE UNCHANGED watchVars
    BY <1>2 DEF WatchInv, WatchType, RestInv, OutageInv, watchVars, registry, pacing, world
  <1> QED
    BY <1>1, <1>2

(* It holds in every behaviour. *)
LEMMA WatchInvariant == WatchSpec => []WatchInv
  BY InitWatchInv, NextWatchInv, PTL DEF WatchSpec

(* OutageShows: when the endpoint of a poller serves nothing for longer    *)
(* than the deadline the poller is not reported healthy, though the Outbox *)
(* watcher reports progress inside polls that fail (Health::status,        *)
(* poll_once).                                                             *)
THEOREM OutageIsSeen == WatchSpec => []OutageShows
  <1>1. WatchInv => OutageShows
    BY Timers DEF WatchInv, WatchType, OutageInv, OutageShows, Status, Ages
  <1> QED
    BY <1>1, WatchInvariant, PTL
-----------------------------------------------------------------------------
(* How long the worker has reported nothing, neither success nor error. *)
Silence == IF okAge <= errAge THEN okAge ELSE errAge

(* What a worker has not spent at work since its last report it has waited *)
(* for a timer, and no longer than one of its waits: the time to the next  *)
(* tick and the rest of a deferral are still to come.  A tick of the       *)
(* delivery worker that reports nothing comes after a job that was         *)
(* reported less than a tick ago.                                          *)
SilenceInv ==
  /\ mode = "setup" \/ (mode = "turning" /\ stage = "settle") => Silence <= toil
  /\ mode = "turning" /\ stage \in {"poll", "batch", "job"} =>
       \E w \in Waits : Silence <= toil + w
  /\ mode = "turning" /\ stage = "idle" => \E w \in Waits : Silence + due <= toil + w
  /\ mode = "turning" /\ defer > 0 =>
       \E i \in DOMAIN Windows : Silence + defer <= toil + Windows[i]
  /\ kind = "delivery" /\ jobAge # NoJob => jobAge >= HealthTick \/ Silence <= jobAge

TimelyInv == WatchInv /\ SilenceInv

(* The waits of each kind. *)
LEMMA WaitFacts ==
  ASSUME WatchType
  PROVE  /\ \A w \in Waits : w \in Nat
         /\ kind # "delivery" => PollInterval \in Waits
         /\ kind \in {"scanner", "setwatcher"} =>
              \A i \in DOMAIN Windows : PollInterval + Windows[i] \in Waits
         /\ kind = "delivery" => 2 * HealthTick \in Waits
         /\ kind' = kind => Waits' = Waits
         /\ \A i \in DOMAIN Windows : Windows[i] \in Nat
  <1>1. \A i \in DOMAIN Windows : Windows[i] \in Nat
    BY SupervisionAssumption
  <1>2. kind' = kind => Waits' = Waits
    BY DEF Waits
  <1>3. CASE kind = "delivery"
    BY <1>1, <1>2, <1>3, Timers DEF Waits
  <1>4. CASE kind = "watcher"
    BY <1>1, <1>2, <1>4, Timers DEF Waits
  <1>5. CASE kind \in {"scanner", "setwatcher"}
    BY <1>1, <1>2, <1>5, Timers DEF Waits
  <1> QED
    BY <1>3, <1>4, <1>5 DEF WatchType, Kinds

(* Reports end the silence, and nothing else shortens it. *)
LEMMA SilenceFacts ==
  ASSUME WatchInv
  PROVE  /\ Silence \in Ages
         /\ WatchInv' => Silence' \in Ages
         /\ Heartbeat => Silence' = 0 /\ toil' = 0
         /\ Error => Silence' = 0 /\ toil' = 0
         /\ UNCHANGED registry => Silence' = Silence /\ toil' = toil
         /\ Tick => Silence' <= Silence + 1
  <1> USE DEF WatchInv, WatchType, Silence, Ages
  <1>1. Silence \in Ages /\ (WatchInv' => Silence' \in Ages)
    BY Timers
  <1>2. (Heartbeat => Silence' = 0 /\ toil' = 0) /\ (Error => Silence' = 0 /\ toil' = 0)
    BY Timers DEF Heartbeat, Error
  <1>3. UNCHANGED registry => Silence' = Silence /\ toil' = toil
    BY DEF registry
  <1>4. ASSUME Tick PROVE Silence' <= Silence + 1
    BY <1>4, TickFacts, Timers
  <1> QED
    BY <1>1, <1>2, <1>3, <1>4

(* A unit more of silence and a unit less of waiting keep to the limit. *)
LEMMA Nearer ==
  ASSUME NEW x \in Nat, NEW y \in Nat, y <= x + 1, NEW wait \in Nat, wait > 0,
         NEW limit \in Nat, x + wait <= limit
  PROVE  y + (wait - 1) <= limit
  OBVIOUS

(* A unit more of silence and one more of work keep to the limit, at the   *)
(* cap of the two ages as well.                                            *)
LEMMA Abreast ==
  ASSUME NEW x \in Ages, NEW y \in Ages, y <= x + 1, NEW t \in Ages, NEW w \in Nat,
         x <= t + w
  PROVE  y <= (IF t = Past THEN Past ELSE t + 1) + w
  BY Timers DEF Ages

(* Time that passes adds to the silence what it takes from the wait or     *)
(* what it adds to the work.                                               *)
LEMMA TickTimely ==
  ASSUME TimelyInv, Tick
  PROVE  SilenceInv'
  <1>1. WatchInv /\ WatchType /\ SilenceInv /\ ~Urgent /\ WatchInv'
    BY TickStep DEF TimelyInv, WatchInv, Tick
  <1>2. /\ Silence \in Ages /\ Silence' \in Ages /\ Silence' <= Silence + 1
        /\ Silence \in Nat /\ Silence' \in Nat
        /\ toil \in Ages /\ toil \in Nat /\ due \in Nat /\ defer \in Nat
    BY <1>1, SilenceFacts, Timers DEF WatchType, Ages
  <1>3. /\ kind' = kind /\ mode' = mode /\ stage' = stage
        /\ toil' = IF ~AtWork THEN toil ELSE IF toil = Past THEN Past ELSE toil + 1
        /\ due' = IF due = 0 THEN 0 ELSE due - 1
        /\ defer' = IF defer = 0 THEN 0 ELSE defer - 1
        /\ jobAge' = IF jobAge = NoJob THEN NoJob
                     ELSE IF jobAge + 1 <= HealthTick THEN jobAge + 1 ELSE HealthTick
    BY <1>1, TickFacts
  <1>4. Waits' = Waits /\ \A w \in Waits : w \in Nat
    BY <1>1, <1>3, WaitFacts
  <1>5. mode = "setup" \/ (mode = "turning" /\ stage = "settle") => Silence' <= toil'
    <2> SUFFICES ASSUME mode = "setup" \/ (mode = "turning" /\ stage = "settle")
                 PROVE  Silence' <= toil'
      OBVIOUS
    <2>1. Silence <= toil + 0
      BY <1>1, <1>2 DEF SilenceInv
    <2>2. toil' = IF toil = Past THEN Past ELSE toil + 1
      BY <1>3 DEF AtWork
    <2>3. Silence' <= (IF toil = Past THEN Past ELSE toil + 1) + 0
      BY <1>2, <2>1, Abreast
    <2> QED
      BY <1>2, <2>2, <2>3, Timers
  <1>6. mode = "turning" /\ stage \in {"poll", "batch", "job"} =>
          \E w \in Waits : Silence' <= toil' + w
    <2> SUFFICES ASSUME mode = "turning", stage \in {"poll", "batch", "job"}
                 PROVE  \E w \in Waits : Silence' <= toil' + w
      OBVIOUS
    <2>1. PICK w \in Waits : Silence <= toil + w
      BY <1>1 DEF SilenceInv
    <2>2. toil' = IF toil = Past THEN Past ELSE toil + 1
      BY <1>3 DEF AtWork
    <2>3. Silence' <= toil' + w
      BY <1>2, <1>4, <2>1, <2>2, Abreast
    <2> QED
      BY <2>3
  <1>7. mode = "turning" /\ stage = "idle" => \E w \in Waits : Silence' + due' <= toil' + w
    <2> SUFFICES ASSUME mode = "turning", stage = "idle"
                 PROVE  \E w \in Waits : Silence' + due' <= toil' + w
      OBVIOUS
    <2>1. PICK w \in Waits : Silence + due <= toil + w
      BY <1>1 DEF SilenceInv
    <2>2. toil' = toil /\ due > 0 /\ due' = due - 1
      BY <1>1, <1>2, <1>3 DEF AtWork, Urgent
    <2>3. toil + w \in Nat
      BY <1>2, <1>4
    <2>4. Silence' + (due - 1) <= toil + w
      BY <1>2, <2>1, <2>2, <2>3, Nearer
    <2> QED
      BY <2>2, <2>4
  <1>8. mode = "turning" /\ defer' > 0 =>
          \E i \in DOMAIN Windows : Silence' + defer' <= toil' + Windows[i]
    <2> SUFFICES ASSUME mode = "turning", defer' > 0
                 PROVE  \E i \in DOMAIN Windows : Silence' + defer' <= toil' + Windows[i]
      OBVIOUS
    <2>1. defer > 0 /\ defer' = defer - 1
      BY <1>2, <1>3
    <2>2. PICK i \in DOMAIN Windows : Silence + defer <= toil + Windows[i]
      BY <1>1, <2>1 DEF SilenceInv
    <2>3. toil' = toil
      BY <1>1, <1>3, <2>1 DEF AtWork, WatchInv, RestInv
    <2>4. toil + Windows[i] \in Nat
      BY <1>1, <1>2, WaitFacts
    <2>5. Silence' + (defer - 1) <= toil + Windows[i]
      BY <1>2, <2>1, <2>2, <2>4, Nearer
    <2> QED
      BY <2>1, <2>3, <2>5
  <1>9. kind = "delivery" /\ jobAge' # NoJob => jobAge' >= HealthTick \/ Silence' <= jobAge'
    <2>1. kind = "delivery" /\ jobAge # NoJob => jobAge >= HealthTick \/ Silence <= jobAge
      BY <1>1 DEF SilenceInv
    <2>2. jobAge \in Nat \cup {NoJob} /\ HealthTick \in Nat
      BY <1>1, Timers DEF WatchType
    <2> QED
      BY <1>2, <1>3, <2>1, <2>2 DEF NoJob
  <1> QED
    BY <1>3, <1>4, <1>5, <1>6, <1>7, <1>8, <1>9 DEF SilenceInv

(* A poller that waits after a report has its interval before it, and      *)
(* perhaps a deferral.                                                     *)
LEMMA Rested ==
  ASSUME WatchInv, WatchInv', mode = "turning", mode' = "turning", kind' = kind,
         stage' = "idle", Silence' <= toil',
         \/ defer' = 0
         \/ \E i \in DOMAIN Windows : defer' = Windows[i],
         kind = "delivery" => UNCHANGED jobAge /\ SilenceInv /\ Silence' = Silence
  PROVE  SilenceInv'
  <1>1. WatchType /\ WatchType'
    BY DEF WatchInv
  <1>2. /\ Silence' \in Nat /\ toil' \in Nat /\ due' \in Nat
        /\ due' <= IF kind = "delivery" THEN HealthTick ELSE PollInterval
    BY <1>1, SilenceFacts, Timers DEF WatchType, Ages
  <1>3. \E w \in Waits' : Silence' + due' <= toil' + w
    <2>1. CASE kind = "delivery"
      <3>1. 2 * HealthTick \in Waits'
        BY <1>1, <2>1, WaitFacts
      <3>2. Silence' + due' <= toil' + 2 * HealthTick
        BY <1>2, <2>1, Timers
      <3> QED
        BY <3>1, <3>2
    <2>2. CASE kind # "delivery"
      <3>1. PollInterval \in Waits'
        BY <1>1, <2>2, WaitFacts
      <3>2. \A x, y, t, p \in Nat : x <= t /\ y <= p => x + y <= t + p
        OBVIOUS
      <3>3. Silence' + due' <= toil' + PollInterval
        BY <1>2, <2>2, <3>2, Timers
      <3> QED
        BY <3>1, <3>3
    <2> QED
      BY <2>1, <2>2
  <1>4. defer' > 0 => \E i \in DOMAIN Windows : Silence' + defer' <= toil' + Windows[i]
    <2> SUFFICES ASSUME defer' > 0
                 PROVE  \E i \in DOMAIN Windows : Silence' + defer' <= toil' + Windows[i]
      OBVIOUS
    <2>1. PICK i \in DOMAIN Windows : defer' = Windows[i]
      OBVIOUS
    <2>2. Windows[i] \in Nat
      BY <1>1, WaitFacts
    <2> QED
      BY <1>2, <2>1, <2>2
  <1>5. kind = "delivery" /\ jobAge' # NoJob => jobAge' >= HealthTick \/ Silence' <= jobAge'
    BY DEF SilenceInv
  <1> QED
    BY <1>3, <1>4, <1>5 DEF SilenceInv

(* A poll begins when the interval is over, one that ends is reported, and *)
(* a tick within a deferral has less of it before it than its window.      *)
LEMMA PollTimely ==
  ASSUME TimelyInv, PollDeferred \/ BeginPoll \/ Progress \/ PollOk \/ PollErr \/ Settled
  PROVE  SilenceInv'
  <1>1. /\ WatchInv /\ WatchType /\ RestInv /\ SilenceInv /\ WatchInv'
        /\ mode = "turning" /\ mode' = "turning" /\ kind' = kind
        /\ Waits' = Waits /\ \A w \in Waits : w \in Nat
    <2>1. WatchInv'
      BY PollStep DEF TimelyInv
    <2> QED
      BY <2>1, WaitFacts
         DEF TimelyInv, WatchInv, PollDeferred, BeginPoll, Polls, Progress, PollOk, PollErr,
             Polling, Settled
  <1>2. Silence \in Nat /\ toil \in Nat /\ defer \in Nat
    BY <1>1, SilenceFacts, Timers DEF WatchType, Ages
  <1>3. CASE PollDeferred
    <2>1. /\ kind # "delivery" /\ stage = "idle" /\ stage' = "idle" /\ due' = PollInterval
          /\ defer > 0 /\ defer' = defer /\ Silence' = Silence /\ toil' = toil
      BY <1>1, <1>3, SilenceFacts DEF PollDeferred, Polls, pacing
    <2>2. PICK i \in DOMAIN Windows : Silence + defer <= toil + Windows[i]
      BY <1>1, <2>1 DEF SilenceInv
    <2>3. PollInterval + Windows[i] \in Waits /\ Windows[i] \in Nat
      BY <1>1, <2>1, <2>2, WaitFacts DEF RestInv
    <2>4. Silence' + due' <= toil' + (PollInterval + Windows[i])
      <3>1. Silence + PollInterval <= toil + (PollInterval + Windows[i])
        BY <1>2, <2>1, <2>2, <2>3, Timers
      <3> QED
        BY <2>1, <3>1
    <2>5. Silence' + defer' <= toil' + Windows[i]
      BY <2>1, <2>2
    <2> QED
      BY <1>1, <2>1, <2>3, <2>4, <2>5 DEF SilenceInv
  <1>4. CASE BeginPoll
    <2>1. /\ kind # "delivery" /\ stage = "idle" /\ stage' = "poll" /\ due = 0
          /\ defer' = 0 /\ Silence' = Silence /\ toil' = toil
      BY <1>1, <1>4, SilenceFacts DEF BeginPoll, Polls, pacing
    <2>2. PICK w \in Waits : Silence + due <= toil + w
      BY <1>1, <2>1 DEF SilenceInv
    <2>3. Silence' <= toil' + w
      BY <1>2, <2>1, <2>2
    <2> QED
      BY <1>1, <2>1, <2>3 DEF SilenceInv
  <1>5. CASE Progress
    <2>1. /\ kind # "delivery" /\ stage' \in {"poll", "batch"} /\ defer' = 0
          /\ Silence' = 0 /\ toil' = 0
      BY <1>1, <1>5, SilenceFacts DEF Progress, Polling, RestInv, pacing, WatchType
    <2>2. PollInterval \in Waits /\ Silence' <= toil' + PollInterval
      BY <1>1, <2>1, WaitFacts, Timers
    <2> QED
      BY <1>1, <2>1, <2>2 DEF SilenceInv
  <1>6. ASSUME NEW ok \in BOOLEAN, NEW rateLimited \in BOOLEAN, PollEnds(ok, rateLimited),
               Polling, Silence' = 0, toil' = 0
        PROVE  SilenceInv'
    <2>1. kind # "delivery" /\ defer = 0
      BY <1>1, <1>2, <1>6 DEF Polling, RestInv
    <2>2. /\ stage' \in {"idle", "settle"}
          /\ defer' = 0 \/ \E i \in DOMAIN Windows : defer' = Windows[i]
      BY <1>1, <1>6, <2>1, EndFacts
    <2>3. CASE stage' = "idle"
      BY <1>1, <1>6, <2>1, <2>2, <2>3, Rested
    <2>4. CASE stage' = "settle"
      <3>1. ~(defer' > 0)
        BY <1>1, <2>4 DEF WatchInv, RestInv
      <3> QED
        BY <1>1, <1>6, <2>1, <2>4, <3>1 DEF SilenceInv
    <2> QED
      BY <2>2, <2>3, <2>4
  <1>7. CASE PollOk
    BY <1>1, <1>6, <1>7, SilenceFacts DEF PollOk
  <1>8. CASE PollErr
    <2> DEFINE rateLimited == endpoint = "limiting" /\ provider = "live"
    <2>1. rateLimited \in BOOLEAN /\ PollEnds(FALSE, rateLimited) /\ Polling /\ Error
      BY <1>8 DEF PollErr
    <2> HIDE DEF rateLimited
    <2> QED
      BY <1>1, <1>6, <2>1, SilenceFacts
  <1>9. CASE Settled
    <2>1. /\ stage = "settle" /\ stage' = "idle" /\ defer = 0 /\ jobAge' = jobAge
          /\ Silence' = Silence /\ toil' = toil /\ Silence <= toil
      BY <1>1, <1>2, <1>9, SilenceFacts DEF Settled, RestInv, SilenceInv
    <2>2. defer' = 0 \/ \E i \in DOMAIN Windows : defer' = Windows[i]
      <3>1. limited \in BOOLEAN
        BY <1>1 DEF WatchType
      <3> QED
        BY <1>1, <1>9, <2>1, <3>1, PaceFacts DEF Settled
    <2> QED
      BY <1>1, <2>1, <2>2, Rested
  <1> QED
    BY <1>3, <1>4, <1>5, <1>7, <1>8, <1>9

(* A job is taken within the longest wait, and its end is a report; a tick *)
(* that reports nothing comes within a tick of a report.                   *)
LEMMA JobTimely ==
  ASSUME TimelyInv, TakeJob \/ JobDone \/ LivenessTick
  PROVE  SilenceInv'
  <1>1. /\ WatchInv /\ WatchType /\ RestInv /\ SilenceInv /\ WatchInv'
        /\ kind = "delivery" /\ mode = "turning" /\ mode' = mode /\ kind' = kind
        /\ Waits' = Waits /\ 2 * HealthTick \in Waits /\ \A w \in Waits : w \in Nat
    <2>1. WatchInv'
      BY JobStep DEF TimelyInv
    <2> QED
      BY <2>1, WaitFacts DEF TimelyInv, WatchInv, TakeJob, JobDone, LivenessTick, Free
  <1>2. /\ Silence \in Nat /\ toil \in Nat /\ jobAge \in Nat \cup {NoJob}
        /\ ~(defer > 0) /\ ~(defer' > 0)
    BY <1>1, SilenceFacts, Timers DEF WatchType, WatchInv, RestInv, Ages
  <1>3. CASE TakeJob
    <2>1. /\ stage = "idle" /\ stage' = "job" /\ jobAge' = jobAge /\ due \in Nat
          /\ Silence' = Silence /\ toil' = toil
      BY <1>1, <1>3, SilenceFacts DEF TakeJob, Free, WatchType
    <2>2. PICK w \in Waits : Silence + due <= toil + w
      BY <1>1, <2>1 DEF SilenceInv
    <2>3. Silence' <= toil' + w
      BY <1>1, <1>2, <2>1, <2>2
    <2> QED
      BY <1>1, <1>2, <2>1, <2>3 DEF SilenceInv
  <1>4. CASE JobDone
    <2>1. stage' = "settle" /\ Silence' = 0 /\ toil' = 0 /\ jobAge' = 0
      BY <1>1, <1>4, SilenceFacts DEF JobDone
    <2> QED
      BY <1>1, <1>2, <2>1 DEF SilenceInv
  <1>5. CASE LivenessTick
    <2>1. stage = "idle" /\ stage' = "idle" /\ jobAge' = jobAge /\ due' = HealthTick
      BY <1>5 DEF LivenessTick, Free
    <2>2. CASE ShouldHeartbeat
      <3>1. Silence' = 0 /\ toil' = 0
        BY <1>1, <1>5, <2>2, SilenceFacts DEF LivenessTick
      <3>2. Silence' + due' <= toil' + 2 * HealthTick
        BY <2>1, <3>1, Timers
      <3>3. jobAge' # NoJob => jobAge' >= HealthTick \/ Silence' <= jobAge'
        BY <1>2, <2>1, <3>1
      <3> QED
        BY <1>1, <1>2, <2>1, <3>2, <3>3 DEF SilenceInv
    <2>3. CASE ~ShouldHeartbeat
      <3>1. Silence' = Silence /\ toil' = toil
        BY <1>1, <1>5, <2>3, SilenceFacts DEF LivenessTick
      <3>2. Silence <= jobAge /\ jobAge \in Nat /\ jobAge < HealthTick
        BY <1>1, <1>2, <2>3, Timers DEF ShouldHeartbeat, SilenceInv
      <3>3. Silence' + due' <= toil' + 2 * HealthTick
        <4>1. Silence + HealthTick <= toil + 2 * HealthTick
          BY <1>2, <3>2, Timers
        <4> QED
          BY <2>1, <3>1, <4>1
      <3>4. Silence' <= jobAge'
        BY <2>1, <3>1, <3>2
      <3> QED
        BY <1>1, <1>2, <2>1, <3>3, <3>4 DEF SilenceInv
    <2> QED
      BY <2>2, <2>3
  <1> QED
    BY <1>3, <1>4, <1>5

(* A loop begins to turn when its setup is done, which is work. *)
LEMMA ProcessTimely ==
  ASSUME TimelyInv,
         \/ TransportDies \/ \E e \in {"up", "down", "limiting"} : EndpointChanges(e)
         \/ Start \/ Online \/ Hang \/ ProbeKills \/ WorkerExits
  PROVE  SilenceInv'
  <1>1. WatchInv /\ WatchType /\ RestInv /\ SilenceInv /\ WatchInv'
    BY ProcessStep DEF TimelyInv, WatchInv
  <1>2. CASE TransportDies \/ \E e \in {"up", "down", "limiting"} : EndpointChanges(e)
    <2>1. /\ kind' = kind /\ mode' = mode /\ stage' = stage /\ due' = due /\ defer' = defer
          /\ jobAge' = jobAge /\ UNCHANGED registry
      BY <1>2 DEF TransportDies, EndpointChanges, pacing
    <2>2. Silence' = Silence /\ toil' = toil /\ Waits' = Waits
      BY <1>1, <2>1, SilenceFacts, WaitFacts
    <2> QED
      BY <1>1, <2>1, <2>2 DEF SilenceInv
  <1>3. CASE Start
    <2>1. mode' = "setup" /\ okAge' = 0 /\ errAge' = Past /\ toil' = 0 /\ jobAge' = NoJob
      BY <1>1, <1>3 DEF Start, RestInv
    <2>2. Silence' <= toil'
      BY <2>1, Timers DEF Silence
    <2> QED
      BY <2>1, <2>2 DEF SilenceInv
  <1>4. CASE Hang
    <2>1. kind' = kind /\ mode' = "hung" /\ jobAge' = jobAge /\ UNCHANGED registry
      BY <1>4 DEF Hang
    <2>2. Silence' = Silence
      BY <1>1, <2>1, SilenceFacts
    <2> QED
      BY <1>1, <2>1, <2>2 DEF SilenceInv
  <1>5. CASE ProbeKills \/ WorkerExits
    BY <1>5 DEF ProbeKills, WorkerExits, Cleared, SilenceInv
  <1>6. CASE Online
    <2>1. /\ mode = "setup" /\ mode' = "turning" /\ kind' = kind /\ UNCHANGED registry
          /\ stage' = "idle" /\ due' = 0 /\ defer' = 0 /\ jobAge' = NoJob
      BY <1>1, <1>6 DEF Online, RestInv, pacing
    <2>2. Silence' = Silence /\ toil' = toil /\ Silence <= toil /\ Silence \in Nat /\ toil \in Nat
      BY <1>1, <2>1, SilenceFacts, Timers DEF SilenceInv, WatchType, Ages
    <2>3. PICK w \in Waits' : w \in Nat
      BY <1>1, <2>1, WaitFacts
    <2>4. Silence' + due' <= toil' + w
      BY <2>1, <2>2, <2>3
    <2> QED
      BY <2>1, <2>3, <2>4 DEF SilenceInv
  <1> QED
    BY <1>2, <1>3, <1>4, <1>5, <1>6

(* WaitingIsNotStale: the probe kills no worker for its timers, whatever   *)
(* they are: a worker that is stale hangs, or has been at work since its   *)
(* last report for longer than the deadline leaves beside the longest wait *)
(* (Health::status, RateLimitPacer, idle_ticker_should_heartbeat).         *)
THEOREM WaitingIsAlive == WatchSpec => []WaitingIsNotStale
  <1>1. WatchInit => TimelyInv
    BY InitWatchInv DEF WatchInit, TimelyInv, SilenceInv
  <1>2. TimelyInv /\ [WatchNext]_watchVars => TimelyInv'
    <2> SUFFICES ASSUME TimelyInv, [WatchNext]_watchVars PROVE TimelyInv'
      OBVIOUS
    <2>1. WatchInv'
      BY NextWatchInv DEF TimelyInv
    <2>2. CASE WatchNext
      BY <2>1, <2>2, TickTimely, ProcessTimely, PollTimely, JobTimely DEF WatchNext, TimelyInv
    <2>3. CASE UNCHANGED watchVars
      <3>1. Silence' = Silence /\ Waits' = Waits
        BY <2>3, SilenceFacts, WaitFacts DEF TimelyInv, WatchInv, watchVars
      <3> QED
        BY <2>1, <2>3, <3>1 DEF TimelyInv, SilenceInv, watchVars, registry, pacing
    <2> QED
      BY <2>2, <2>3
  <1>3. TimelyInv => WaitingIsNotStale
    <2> SUFFICES ASSUME TimelyInv, Status = "stale", mode \notin {"hung", "down"}
                 PROVE  \E w \in Waits : toil + w > Deadline
      BY DEF WaitingIsNotStale
    <2>1. WatchType /\ SilenceInv /\ mode \in {"setup", "turning"}
      BY DEF TimelyInv, WatchInv, WatchType
    <2>2. /\ Silence > Deadline /\ Silence \in Nat /\ toil \in Nat /\ due \in Nat
          /\ Deadline \in Nat /\ \A w \in Waits : w \in Nat
      BY <2>1, Timers, WaitFacts DEF Status, Silence, WatchType, Ages
    <2>3. PICK v \in Waits : v \in Nat
      BY <2>1, WaitFacts
    <2>4. CASE mode = "setup" \/ stage = "settle"
      BY <2>1, <2>2, <2>3, <2>4 DEF SilenceInv
    <2>5. CASE mode = "turning" /\ stage \in {"poll", "batch", "job"}
      <3>1. PICK w \in Waits : Silence <= toil + w
        BY <2>1, <2>5 DEF SilenceInv
      <3> QED
        BY <2>2, <3>1
    <2>6. CASE mode = "turning" /\ stage = "idle"
      <3>1. PICK w \in Waits : Silence + due <= toil + w
        BY <2>1, <2>6 DEF SilenceInv
      <3> QED
        BY <2>2, <3>1
    <2> QED
      BY <2>1, <2>4, <2>5, <2>6 DEF WatchType
  <1> QED
    BY <1>1, <1>2, <1>3, PTL DEF WatchSpec
-----------------------------------------------------------------------------
(***************************************************************************)
(* Gossip.  For every number of attestors, connections and every capacity: *)
(* the gauge is the fleet.                                                 *)
(***************************************************************************)
Events == {Vote(t) : t \in Topics} \cup {PeerStatus(n) : n \in Nat} \cup {Request}

IsStatus(e) == e.kind = "peer_status"

NoStatus(s) == \A i \in DOMAIN s : ~IsStatus(s[i])

(* The last status of s, when there is one, is n. *)
Newest(s, n) ==
  \A i \in DOMAIN s :
    IsStatus(s[i]) /\ (\A j \in DOMAIN s : i < j => ~IsStatus(s[j])) => s[i].peers = n

GossipType ==
  /\ source \in {"swarm", "observer"} /\ link \in {"down", "up", "closed"}
  /\ conns \in [Peers -> Nat] /\ told \subseteq Peers /\ subscribed \subseteq Peers
  /\ ring \in Seq(Events) /\ socket \in Seq(Events)
  /\ lagged \in BOOLEAN /\ current \in BOOLEAN

(* The observer's set is the one gossipsub has, and it holds no peer that  *)
(* is gone.                                                                *)
FleetInv ==
  /\ \A p \in told : conns[p] > 0
  /\ source = "observer" => subscribed = told
  /\ source = "swarm" => ~current

(* The newest status on the way, or the gauge when none is, tells the      *)
(* observer's set, for a reader that has lost nothing.                     *)
Tells(n) ==
  /\ Newest(ring, n)
  /\ NoStatus(ring) => Newest(socket, n)
  /\ NoStatus(ring) /\ NoStatus(socket) => gauge = n

GaugeInv ==
  /\ current => link = "up"
  /\ current /\ ~lagged => Tells(Cardinality(subscribed))

GossipInv == GossipType /\ FleetInv /\ GaugeInv

(* What an event is. *)
LEMMA EventFacts ==
  /\ \A t \in Topics : Vote(t) \in Events /\ ~IsStatus(Vote(t))
  /\ \A n \in Nat : PeerStatus(n) \in Events /\ IsStatus(PeerStatus(n)) /\ PeerStatus(n).peers = n
  /\ Request \in Events /\ ~IsStatus(Request)
  BY DEF Events, IsStatus, Vote, PeerStatus, Request

(* Appending to what a reader has before it. *)
LEMMA Appended ==
  ASSUME NEW s \in Seq(Events), NEW e \in Events
  PROVE  /\ s \o <<e>> \in Seq(Events) /\ Append(s, e) = s \o <<e>>
         /\ DOMAIN (s \o <<e>>) = 1..(Len(s) + 1) /\ DOMAIN s = 1..Len(s) /\ Len(s) \in Nat
         /\ \A i \in DOMAIN s : (s \o <<e>>)[i] = s[i]
         /\ (s \o <<e>>)[Len(s) + 1] = e
  OBVIOUS

(* A status that is appended is the newest. *)
LEMMA StatusAppended ==
  ASSUME NEW s \in Seq(Events), NEW e \in Events, IsStatus(e)
  PROVE  Newest(s \o <<e>>, e.peers) /\ ~NoStatus(s \o <<e>>)
  <1> DEFINE r == s \o <<e>>
  <1>1. /\ DOMAIN r = 1..(Len(s) + 1) /\ Len(s) \in Nat /\ r[Len(s) + 1] = e
    BY Appended
  <1> HIDE DEF r
  <1>2. Len(s) + 1 \in DOMAIN r
    BY <1>1
  <1>3. ASSUME NEW i \in DOMAIN r, \A j \in DOMAIN r : i < j => ~IsStatus(r[j])
        PROVE  r[i].peers = e.peers
    <2>1. ~(i < Len(s) + 1)
      BY <1>1, <1>2, <1>3
    <2>2. i = Len(s) + 1
      BY <1>1, <2>1
    <2> QED
      BY <1>1, <2>2
  <1>4. Newest(r, e.peers) /\ ~NoStatus(r)
    BY <1>1, <1>2, <1>3 DEF Newest, NoStatus
  <1> QED
    BY <1>4 DEF r

(* Another event leaves the newest status what it was. *)
LEMMA OtherAppended ==
  ASSUME NEW s \in Seq(Events), NEW e \in Events, ~IsStatus(e), NEW n
  PROVE  /\ Newest(s, n) => Newest(s \o <<e>>, n)
         /\ NoStatus(s \o <<e>>) => NoStatus(s)
  <1> DEFINE r == s \o <<e>>
  <1>1. /\ DOMAIN r = 1..(Len(s) + 1) /\ Len(s) \in Nat /\ r[Len(s) + 1] = e
        /\ DOMAIN s = 1..Len(s) /\ \A i \in DOMAIN s : r[i] = s[i]
    BY Appended
  <1> HIDE DEF r
  <1>2. DOMAIN s \subseteq DOMAIN r
    BY <1>1
  <1>3. ASSUME Newest(s, n), NEW i \in DOMAIN r, IsStatus(r[i]),
               \A j \in DOMAIN r : i < j => ~IsStatus(r[j])
        PROVE  r[i].peers = n
    <2>1. i # Len(s) + 1
      BY <1>1, <1>3
    <2>2. i \in DOMAIN s
      BY <1>1, <2>1
    <2>3. IsStatus(s[i]) /\ \A j \in DOMAIN s : i < j => ~IsStatus(s[j])
      BY <1>1, <1>2, <1>3, <2>2
    <2> QED
      BY <1>1, <1>3, <2>2, <2>3 DEF Newest
  <1>4. (Newest(s, n) => Newest(r, n)) /\ (NoStatus(r) => NoStatus(s))
    BY <1>1, <1>2, <1>3 DEF Newest, NoStatus
  <1> QED
    BY <1>4 DEF r

(* Reading the first event: the newest status stays what it is, unless it  *)
(* is the one that is read.                                                *)
LEMMA FirstRead ==
  ASSUME NEW s \in Seq(Events), s # <<>>, NEW n
  PROVE  /\ Tail(s) \in Seq(Events) /\ Head(s) \in Events
         /\ Newest(s, n) => Newest(Tail(s), n)
         /\ NoStatus(Tail(s)) /\ ~IsStatus(Head(s)) => NoStatus(s)
         /\ Newest(s, n) /\ NoStatus(Tail(s)) /\ IsStatus(Head(s)) => Head(s).peers = n
  <1> DEFINE r == Tail(s)
  <1>1. /\ r \in Seq(Events) /\ Head(s) \in Events /\ Head(s) = s[1]
        /\ Len(s) \in Nat \ {0} /\ DOMAIN s = 1..Len(s) /\ DOMAIN r = 1..(Len(s) - 1)
        /\ \A i \in DOMAIN r : r[i] = s[i + 1]
    OBVIOUS
  <1> HIDE DEF r
  <1>2. \A i \in DOMAIN s : i # 1 => i - 1 \in DOMAIN r /\ r[i - 1] = s[i]
    BY <1>1
  <1>3. ASSUME Newest(s, n), NEW i \in DOMAIN r, IsStatus(r[i]),
               \A j \in DOMAIN r : i < j => ~IsStatus(r[j])
        PROVE  r[i].peers = n
    <2>1. i + 1 \in DOMAIN s /\ r[i] = s[i + 1]
      BY <1>1
    <2>2. ASSUME NEW j \in DOMAIN s, i + 1 < j PROVE ~IsStatus(s[j])
      <3>1. j - 1 \in DOMAIN r /\ i < j - 1 /\ r[j - 1] = s[j]
        BY <1>1, <1>2, <2>2
      <3> QED
        BY <1>3, <3>1
    <2> QED
      BY <1>3, <2>1, <2>2 DEF Newest
  <1>4. ASSUME NoStatus(r) PROVE \A j \in DOMAIN s : 1 < j => ~IsStatus(s[j])
    BY <1>1, <1>2, <1>4 DEF NoStatus
  <1>5. ASSUME NoStatus(r), ~IsStatus(Head(s)) PROVE NoStatus(s)
    <2> SUFFICES ASSUME NEW j \in DOMAIN s PROVE ~IsStatus(s[j])
      BY DEF NoStatus
    <2>1. j = 1 \/ 1 < j
      BY <1>1
    <2> QED
      BY <1>1, <1>4, <1>5, <2>1
  <1>6. ASSUME Newest(s, n), NoStatus(r), IsStatus(Head(s)) PROVE Head(s).peers = n
    <2>1. 1 \in DOMAIN s
      BY <1>1
    <2> QED
      BY <1>1, <1>4, <1>6, <2>1 DEF Newest
  <1>7. Newest(s, n) => Newest(r, n)
    BY <1>3 DEF Newest
  <1> QED
    BY <1>1, <1>5, <1>6, <1>7 DEF r

(* The sets of peers are finite. *)
LEMMA PeersFinite ==
  ASSUME NEW S, S \subseteq Peers
  PROVE  IsFiniteSet(S) /\ Cardinality(S) \in Nat
  BY GossipAssumption, FS_Subset, FS_CardinalityType

(* What the loop reads after an event is published: all of it, or it knows *)
(* that it lost something (Hub::publish).                                  *)
LEMMA Published ==
  ASSUME GossipType, NEW e \in Events, Publish(e), link = "up"
  PROVE  /\ ring' \in Seq(Events) /\ lagged' \in BOOLEAN
         /\ ~lagged' => ~lagged /\ ring' = ring \o <<e>>
  <1>1. /\ ring \in Seq(Events) /\ lagged \in BOOLEAN
        /\ ring' = (IF Len(ring) = RingCap THEN Tail(ring) ELSE ring) \o <<e>>
        /\ lagged' = (lagged \/ Len(ring) = RingCap)
    BY DEF GossipType, Publish
  <1>2. CASE Len(ring) # RingCap
    BY <1>1, <1>2, Appended
  <1>3. CASE Len(ring) = RingCap
    <2>1. Len(ring) # 0
      BY <1>3, GossipAssumption
    <2>2. ring # <<>>
      BY <1>1, <2>1
    <2>3. Tail(ring) \in Seq(Events)
      BY <1>1, <2>2, FirstRead
    <2>4. Tail(ring) \o <<e>> \in Seq(Events)
      BY <2>3, Appended
    <2> QED
      BY <1>1, <1>3, <2>4
  <1> QED
    BY <1>2, <1>3

(* A change of the observer's set is told to whoever is connected: the     *)
(* gauge invariant holds again whatever it was (report_peer_count).        *)
LEMMA ReportTells ==
  ASSUME GossipType, GaugeInv, NEW S, S \subseteq Peers, Report(S),
         link' = link, socket' = socket, gauge' = gauge
  PROVE  /\ GaugeInv'
         /\ ring' \in Seq(Events) /\ lagged' \in BOOLEAN /\ current' \in BOOLEAN
  <1> DEFINE e == PeerStatus(Cardinality(S))
  <1>1. e \in Events /\ IsStatus(e) /\ e.peers = Cardinality(S)
    BY PeersFinite, EventFacts
  <1> HIDE DEF e
  <1>2. subscribed' = S
    BY DEF Report
  <1>3. CASE S = subscribed
    BY <1>2, <1>3 DEF Report, hub, GossipType, GaugeInv, Tells
  <1>4. CASE S # subscribed /\ link = "up"
    <2>1. Publish(e) /\ current' = TRUE
      BY <1>4 DEF Report, e
    <2>2. /\ ring' \in Seq(Events) /\ lagged' \in BOOLEAN
          /\ ~lagged' => ~lagged /\ ring' = ring \o <<e>>
      BY <1>1, <1>4, <2>1, Published
    <2>3. ring \in Seq(Events)
      BY DEF GossipType
    <2>4. Newest(ring \o <<e>>, Cardinality(S)) /\ ~NoStatus(ring \o <<e>>)
      BY <1>1, <2>3, StatusAppended
    <2>5. ASSUME ~lagged' PROVE Tells(Cardinality(subscribed))'
      BY <1>2, <2>2, <2>4, <2>5 DEF Tells
    <2> QED
      BY <1>4, <2>1, <2>2, <2>5 DEF GaugeInv
  <1>5. CASE S # subscribed /\ link # "up"
    BY <1>5 DEF Report, Publish, hub, GossipType, GaugeInv
  <1> QED
    BY <1>3, <1>4, <1>5

(* What is no status changes nothing about the statuses. *)
LEMMA OtherPublished ==
  ASSUME GossipType, GaugeInv, NEW e \in Events, ~IsStatus(e), Publish(e),
         UNCHANGED <<subscribed, link, socket, gauge, current>>
  PROVE  GaugeInv' /\ ring' \in Seq(Events) /\ lagged' \in BOOLEAN
  <1>1. CASE link = "up"
    <2>1. /\ ring' \in Seq(Events) /\ lagged' \in BOOLEAN
          /\ ~lagged' => ~lagged /\ ring' = ring \o <<e>>
      BY <1>1, Published
    <2>2. ring \in Seq(Events)
      BY DEF GossipType
    <2>3. ASSUME current', ~lagged' PROVE Tells(Cardinality(subscribed))'
      <3> DEFINE n == Cardinality(subscribed)
      <3>1. n' = n
        OBVIOUS
      <3>2. Tells(n)
        BY <2>1, <2>3 DEF GaugeInv
      <3> HIDE DEF n
      <3>3. /\ Newest(ring, n) => Newest(ring', n)
            /\ NoStatus(ring') => NoStatus(ring)
        BY <2>1, <2>2, <2>3, OtherAppended
      <3>4. Tells(n)'
        BY <3>1, <3>2, <3>3 DEF Tells
      <3> QED
        BY <3>4 DEF n
    <2> QED
      BY <1>1, <2>1, <2>3 DEF GaugeInv
  <1>2. CASE link # "up"
    BY <1>2 DEF Publish, hub, GossipType, GaugeInv
  <1> QED
    BY <1>1, <1>2

(* At the start nobody is connected. *)
LEMMA InitGossipInv == GossipInit => GossipInv
  <1> SUFFICES ASSUME GossipInit PROVE GossipInv
    OBVIOUS
  <1>1. GossipType
    <2>1. conns \in [Peers -> Nat] /\ ring \in Seq(Events) /\ socket \in Seq(Events)
      <3>1. << >> \in Seq(Events)
        OBVIOUS
      <3>2. conns = [p \in Peers |-> 0] /\ ring = << >> /\ socket = << >>
        BY DEF GossipInit
      <3>3. conns \in [Peers -> Nat]
        BY <3>2
      <3> QED
        BY <3>1, <3>2, <3>3
    <2>2. /\ source \in {"swarm", "observer"} /\ link \in {"down", "up", "closed"}
          /\ told \subseteq Peers /\ subscribed \subseteq Peers
          /\ lagged \in BOOLEAN /\ current \in BOOLEAN
      BY DEF GossipInit
    <2> QED
      BY <2>1, <2>2 DEF GossipType
  <1>2. FleetInv /\ GaugeInv
    BY DEF GossipInit, FleetInv, GaugeInv
  <1> QED
    BY <1>1, <1>2 DEF GossipInv

(* What the invariant speaks of. *)
GossipView == <<source, conns, told, subscribed, link, ring, lagged, socket, gauge, current>>

LEMMA ViewKeepsGossip ==
  ASSUME GossipInv, UNCHANGED GossipView
  PROVE  GossipInv'
  BY DEF GossipInv, GossipView, GossipType, FleetInv, GaugeInv, Tells

(* Votes and requests that are no events of the hub do not touch it. *)
LEMMA OtherStep ==
  ASSUME GossipInv,
         \/ \E t \in Topics : Vanish(t) \/ Take(t)
         \/ Propose \/ Ask \/ Gossip \/ SendRequest \/ ClientFrame \/ PublishRequest \/ LoopEnds
  PROVE  GossipInv'
  <1>1. UNCHANGED GossipView
    BY DEF GossipView, Vanish, Take, Propose, Ask, Gossip, SendRequest, ClientFrame,
           PublishRequest, LoopEnds, Fault, swarm, session, hub, pool
  <1> QED
    BY <1>1, ViewKeepsGossip

(* Peers come and go: the set and the connections move together, and the   *)
(* change is reported.                                                     *)
LEMMA PeerStep ==
  ASSUME GossipInv, NEW p \in Peers,
         Dial(p) \/ PeerSubscribed(p) \/ PeerUnsubscribed(p) \/ ConnectionClosed(p)
  PROVE  GossipInv'
  <1>1. GossipType /\ FleetInv /\ GaugeInv
    BY DEF GossipInv
  <1>2. CASE Dial(p)
    <2>1. /\ conns' \in [Peers -> Nat]
          /\ \A q \in Peers : conns'[q] = IF q = p THEN conns[p] + 1 ELSE conns[q]
      BY <1>1, <1>2 DEF Dial, GossipType
    <2>2. UNCHANGED <<source, told, subscribed, link, ring, lagged, socket, gauge, current>>
      BY <1>2 DEF Dial, pool, session
    <2>3. \A q \in told' : conns'[q] > 0
      BY <1>1, <2>1, <2>2 DEF FleetInv, GossipType
    <2> QED
      BY <1>1, <2>1, <2>2, <2>3 DEF GossipInv, GossipType, FleetInv, GaugeInv, Tells
  <1>3. CASE source = "swarm" /\ ~Dial(p)
    <2>1. /\ UNCHANGED <<source, subscribed, link, ring, lagged, socket, current>>
      BY <1>3 DEF PeerSubscribed, PeerUnsubscribed, ConnectionClosed, Counted, hub, Fault
    <2>2. /\ conns' \in [Peers -> Nat] /\ told' \subseteq Peers
          /\ \A q \in told' : conns'[q] > 0
      <3>1. CASE PeerSubscribed(p)
        BY <1>1, <3>1 DEF PeerSubscribed, GossipType, FleetInv
      <3>2. CASE PeerUnsubscribed(p)
        BY <1>1, <3>2 DEF PeerUnsubscribed, GossipType, FleetInv
      <3>3. CASE ConnectionClosed(p)
        BY <1>1, <3>3 DEF ConnectionClosed, GossipType, FleetInv
      <3> QED
        BY <1>3, <3>1, <3>2, <3>3
    <2> QED
      BY <1>1, <1>3, <2>1, <2>2 DEF GossipInv, GossipType, FleetInv, GaugeInv
  <1>4. CASE source = "observer" /\ ~Dial(p)
    <2>1. UNCHANGED <<source, link, socket, gauge>>
      BY <1>4 DEF PeerSubscribed, PeerUnsubscribed, ConnectionClosed, Fault
    <2>2. subscribed = told
      BY <1>1, <1>4 DEF FleetInv
    <2>3. /\ conns' \in [Peers -> Nat] /\ told' \subseteq Peers
          /\ \A q \in told' : conns'[q] > 0
          /\ Report(told')
      <3>1. CASE PeerSubscribed(p)
        BY <1>1, <1>4, <2>2, <3>1 DEF PeerSubscribed, NoteSubscribed, GossipType, FleetInv
      <3>2. CASE PeerUnsubscribed(p)
        BY <1>1, <1>4, <2>2, <3>2 DEF PeerUnsubscribed, NoteUnsubscribed, GossipType, FleetInv
      <3>3. CASE ConnectionClosed(p)
        BY <1>1, <1>4, <2>2, <3>3 DEF ConnectionClosed, NoteDisconnected, GossipType, FleetInv
      <3> QED
        BY <1>4, <3>1, <3>2, <3>3
    <2> DEFINE S == told'
    <2>4. S \subseteq Peers /\ Report(S)
      BY <2>3
    <2> HIDE DEF S
    <2>5. /\ GaugeInv' /\ subscribed' = S
          /\ ring' \in Seq(Events) /\ lagged' \in BOOLEAN /\ current' \in BOOLEAN
      BY <1>1, <2>1, <2>4, ReportTells DEF Report
    <2> QED
      BY <1>1, <1>4, <2>1, <2>3, <2>5 DEF GossipInv, GossipType, FleetInv, S
  <1> QED
    BY <1>1, <1>2, <1>3, <1>4 DEF GossipType

(* A vote or a request passes through the observer. *)
LEMMA HearStep ==
  ASSUME GossipInv, (\E t \in Topics : Hear(t)) \/ OthersRequest
  PROVE  GossipInv'
  <1>1. /\ GossipType /\ FleetInv /\ GaugeInv
        /\ UNCHANGED <<source, conns, told, subscribed, link, socket, gauge, current>>
    BY DEF GossipInv, Hear, OthersRequest, swarm, pool
  <1>2. CASE source = "swarm"
    <2>1. UNCHANGED GossipView
      BY <1>1, <1>2 DEF GossipView, Hear, OthersRequest, hub
    <2> QED
      BY <2>1, ViewKeepsGossip
  <1>3. CASE source # "swarm"
    <2>1. \E e \in Events : ~IsStatus(e) /\ Publish(e)
      BY <1>3, EventFacts DEF Hear, OthersRequest, ObserveVote, ObserveSetUpdate,
         ObserveReobservation, Topics
    <2>2. GaugeInv' /\ ring' \in Seq(Events) /\ lagged' \in BOOLEAN
      BY <1>1, <2>1, OtherPublished
    <2> QED
      BY <1>1, <2>2 DEF GossipInv, GossipType, FleetInv
  <1> QED
    BY <1>2, <1>3

(* A session begins without a reader, and one that ends leaves none; the   *)
(* loop that was outrun ends its session (Lagged).                         *)
LEMMA SessionStep ==
  ASSUME GossipInv, Connect \/ Lagged \/ Closed \/ SessionLost \/ ObserverRestart
  PROVE  GossipInv'
  <1>1. GossipType /\ FleetInv /\ GaugeInv /\ << >> \in Seq(Events)
    BY DEF GossipInv
  <1>2. ~current'
    BY <1>1 DEF Connect, Lagged, Closed, SessionLost, ObserverRestart, DropReader, GaugeInv
  <1>3. source' = source /\ link' \in {"down", "up", "closed"} /\ lagged' \in BOOLEAN
    BY <1>1 DEF Connect, Lagged, Closed, SessionLost, ObserverRestart, DropReader, hub,
           GossipType
  <1>4. ring' \in Seq(Events) /\ socket' \in Seq(Events)
    <2>1. CASE Connect \/ Closed
      BY <1>1, <2>1 DEF Connect, Closed, hub, GossipType
    <2>2. CASE Lagged \/ SessionLost \/ ObserverRestart
      <3>1. ring' = << >> /\ (socket' = socket \/ socket' = << >>)
        BY <2>2 DEF Lagged, SessionLost, ObserverRestart, DropReader
      <3> QED
        BY <1>1, <3>1 DEF GossipType
    <2> QED
      BY <2>1, <2>2
  <1>5. /\ conns' \in [Peers -> Nat] /\ told' \subseteq Peers /\ subscribed' \subseteq Peers
        /\ \A p \in told' : conns'[p] > 0
        /\ source' = "observer" => subscribed' = told'
    <2>1. CASE ObserverRestart
      BY <2>1 DEF ObserverRestart
    <2>2. CASE ~ObserverRestart
      <3>1. UNCHANGED <<source, conns, told, subscribed>>
        BY <2>2 DEF Connect, Lagged, Closed, SessionLost, swarm
      <3> QED
        BY <1>1, <3>1 DEF GossipType, FleetInv
    <2> QED
      BY <2>1, <2>2
  <1>6. current' \in BOOLEAN
    BY <1>1 DEF Connect, Lagged, Closed, SessionLost, ObserverRestart, DropReader, GossipType
  <1>7. GossipType'
    BY <1>1, <1>3, <1>4, <1>5, <1>6 DEF GossipType
  <1> QED
    BY <1>2, <1>5, <1>7 DEF GossipInv, FleetInv, GaugeInv

(* The loop passes on what it reads, or skips what the relayer did not     *)
(* subscribe to, which is no status (client_loop, Filter::matches).        *)
LEMMA ForwardStep ==
  ASSUME GossipInv, Forward
  PROVE  GossipInv'
  <1> DEFINE n == Cardinality(subscribed)
             e == Head(ring)
  <1>1. /\ GossipType /\ FleetInv /\ GaugeInv
        /\ UNCHANGED <<source, conns, told, subscribed, link, lagged, gauge, current>>
    BY DEF GossipInv, Forward, swarm, pool
  <1>2. /\ ring \in Seq(Events) /\ ring # << >> /\ socket \in Seq(Events) /\ ~lagged
        /\ ring' = Tail(ring)
        /\ socket' = IF Matches(e) THEN Append(socket, e) ELSE socket
    BY <1>1 DEF Forward, GossipType
  <1>3. ~Matches(e) => ~IsStatus(e)
    BY DEF Matches, IsStatus
  <1> HIDE DEF e
  <1>4. e \in Events /\ ring' \in Seq(Events)
    BY <1>2, FirstRead DEF e
  <1>5. socket' \in Seq(Events)
    BY <1>2, <1>4, Appended
  <1>6. GossipType'
    BY <1>1, <1>4, <1>5 DEF GossipType
  <1>7. ASSUME current PROVE Tells(n)'
    <2>1. n' = n
      BY <1>1
    <2>2. Tells(n)
      BY <1>1, <1>2, <1>7 DEF GaugeInv
    <2> HIDE DEF n
    <2>3. /\ Newest(ring, n) /\ Newest(ring', n)
          /\ NoStatus(ring') /\ ~IsStatus(e) => NoStatus(ring)
          /\ NoStatus(ring') /\ IsStatus(e) => e.peers = n
      BY <1>2, <2>2, FirstRead DEF Tells, e
    <2>4. CASE IsStatus(e)
      <3>1. socket' = socket \o <<e>>
        BY <1>2, <1>3, <1>4, <2>4, Appended
      <3>2. Newest(socket', e.peers) /\ ~NoStatus(socket')
        BY <1>2, <1>4, <2>4, <3>1, StatusAppended
      <3> QED
        BY <1>1, <2>1, <2>3, <2>4, <3>2 DEF Tells
    <2>5. CASE ~IsStatus(e)
      <3>1. /\ Newest(socket, n) => Newest(socket', n)
            /\ NoStatus(socket') => NoStatus(socket)
        <4>1. socket' = socket \/ socket' = socket \o <<e>>
          BY <1>2, <1>4, Appended
        <4>2. /\ Newest(socket, n) => Newest(socket \o <<e>>, n)
              /\ NoStatus(socket \o <<e>>) => NoStatus(socket)
          BY <1>2, <1>4, <2>5, OtherAppended
        <4> QED
          BY <4>1, <4>2
      <3> QED
        BY <1>1, <2>1, <2>2, <2>3, <2>5, <3>1 DEF Tells
    <2> QED
      BY <2>4, <2>5
  <1>8. FleetInv'
    BY <1>1 DEF FleetInv
  <1>9. GaugeInv'
    BY <1>1, <1>7 DEF GaugeInv
  <1> QED
    BY <1>6, <1>8, <1>9 DEF GossipInv

(* The relayer reads a frame: a status sets the gauge (handle_event).      *)
LEMMA ReceiveStep ==
  ASSUME GossipInv, Receive
  PROVE  GossipInv'
  <1> DEFINE n == Cardinality(subscribed)
             e == Head(socket)
  <1>1. /\ GossipType /\ FleetInv /\ GaugeInv
        /\ UNCHANGED <<source, conns, told, subscribed, link, ring, lagged, current>>
    BY DEF GossipInv, Receive, swarm, hub
  <1>2. /\ socket \in Seq(Events) /\ socket # << >> /\ socket' = Tail(socket)
    BY <1>1 DEF Receive, GossipType
  <1>3. gauge' = IF IsStatus(e) THEN e.peers ELSE gauge
    <2>1. CASE e.kind = "vote"
      BY <2>1 DEF Receive, IsStatus
    <2>2. CASE e.kind = "peer_status"
      BY <2>2 DEF Receive, IsStatus
    <2>3. CASE e.kind # "vote" /\ e.kind # "peer_status"
      BY <2>3 DEF Receive, IsStatus
    <2> QED
      BY <2>1, <2>2, <2>3
  <1> HIDE DEF e
  <1>4. socket' \in Seq(Events)
    BY <1>2, FirstRead
  <1>5. GossipType' /\ FleetInv'
    BY <1>1, <1>4 DEF GossipType, FleetInv
  <1>6. ASSUME current, ~lagged PROVE Tells(n)'
    <2>1. n' = n
      BY <1>1
    <2>2. Tells(n)
      BY <1>1, <1>6 DEF GaugeInv
    <2> HIDE DEF n
    <2>3. /\ Newest(socket, n) => Newest(socket', n)
          /\ NoStatus(socket') /\ ~IsStatus(e) => NoStatus(socket)
          /\ Newest(socket, n) /\ NoStatus(socket') /\ IsStatus(e) => e.peers = n
      BY <1>2, FirstRead DEF e
    <2> QED
      BY <1>1, <1>3, <2>1, <2>2, <2>3 DEF Tells
  <1>7. GaugeInv'
    BY <1>1, <1>6 DEF GaugeInv
  <1> QED
    BY <1>5, <1>7 DEF GossipInv

(* The invariant is inductive. *)
LEMMA NextGossipInv == GossipInv /\ [GossipNext]_gossipVars => GossipInv'
  <1> SUFFICES ASSUME GossipInv, [GossipNext]_gossipVars PROVE GossipInv'
    OBVIOUS
  <1>1. CASE GossipNext
    BY <1>1, PeerStep, HearStep, OtherStep, SessionStep, ForwardStep, ReceiveStep
    DEF GossipNext
  <1>2. CASE UNCHANGED gossipVars
    <2>1. UNCHANGED GossipView
      BY <1>2 DEF gossipVars, GossipView, swarm, hub, pool
    <2> QED
      BY <2>1, ViewKeepsGossip
  <1> QED
    BY <1>1, <1>2

(* It holds in every behaviour. *)
LEMMA GossipInvariant == GossipSpec => []GossipInv
  BY InitGossipInv, NextGossipInv, PTL DEF GossipSpec

(* Once a reader that lost nothing has read all the statuses, the gauge is *)
(* the number of attestors that are connected and subscribed.              *)
LEMMA ReadMeansShown == GossipInv => GaugeIsFleet
  <1> SUFFICES ASSUME GossipInv, current, ~lagged,
                      ~\E e \in ToSet(ring) \cup ToSet(socket) : e.kind = "peer_status"
               PROVE  gauge = Cardinality({p \in told : conns[p] > 0})
    BY DEF GaugeIsFleet
  <1>1. NoStatus(ring) /\ NoStatus(socket)
    BY DEF NoStatus, IsStatus, ToSet
  <1>2. gauge = Cardinality(subscribed)
    BY <1>1 DEF GossipInv, GaugeInv, Tells
  <1>3. subscribed = {p \in told : conns[p] > 0}
    BY DEF GossipInv, GossipType, FleetInv
  <1> QED
    BY <1>2, <1>3

(* GaugeIsFleet: a relayer that was connected when the observer's peers    *)
(* last changed, and has read everything since, shows how many attestors   *)
(* are connected and subscribed at this moment, whatever the capacities,   *)
(* losses and restarts (note_subscribed, note_disconnected,                *)
(* report_peer_count, the Lagged arm of client_loop).                      *)
THEOREM GaugeShowsFleet == GossipSpec => []GaugeIsFleet
  BY GossipInvariant, ReadMeansShown, PTL
=============================================================================
