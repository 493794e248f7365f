----------------------------- MODULE WorkCursor -----------------------------
(***************************************************************************)
(* The walk of a route's journal (work.rs): RouteCursor, which offers the  *)
(* unfinished messages to the pool in the order of their ids, a window at  *)
(* a time, while the watcher records new ones and the pool completes       *)
(* others. One call of WorkStore::pending is a sequence of steps under the *)
(* lock that record and complete take too.                                 *)
(***************************************************************************)
EXTENDS Integers, FiniteSets, Sequences, FiniteSetsExt

CONSTANTS
    N,            \* bound: ids are 1..N, and 0 stands for None
    WindowSize,   \* WINDOW_SIZE
    MaxExamined,  \* MAX_EXAMINED_PER_CALL
    MaxLimit      \* bound: the largest limit the pool asks for

ASSUME CursorAssumption ==
    /\ N \in Nat \ {0} /\ WindowSize \in Nat \ {0}
    /\ MaxExamined \in Nat \ {0} /\ MaxLimit \in Nat \ {0}

Ids == 1..N

VARIABLES
    records,  \* ids with a file in the route's directory
    cursor,   \* RouteCursor; open is FALSE until the first call creates it
    call,     \* the call of pending in progress
    owed,     \* history: records present when the lap began, not yet offered
    last      \* history: the id offered last

cursorVars == <<records, cursor, call, owed, last>>

Vacant == [open |-> FALSE, live |-> 0, after |-> 0, window |-> {}, lapEnd |-> 0]
NoCall == [running |-> FALSE, start |-> 0, wrapped |-> FALSE, examined |-> 0,
           loaded |-> {}, left |-> 0]

CursorInit ==
    /\ records \in SUBSET Ids
    /\ cursor = Vacant /\ call = NoCall
    /\ owed = {} /\ last = 0

-----------------------------------------------------------------------------
\* Mutant: a rewritten record is counted again.
RecordRecounts(id) ==
    /\ ~call.running
    /\ records' = records \cup {id}
    /\ cursor' = IF cursor.open /\ cursor.live < N
                 THEN [cursor EXCEPT !.live = @ + 1] ELSE cursor
    /\ UNCHANGED <<call, owed, last>>

(* WorkStore::record: a rewritten record is not counted again. A failed    *)
(* directory sync comes after the count and leaves the file in place.      *)
Record(id) ==
    /\ ~call.running
    /\ records' = records \cup {id}
    /\ cursor' = IF cursor.open /\ id \notin records
                 THEN [cursor EXCEPT !.live = @ + 1] ELSE cursor
    /\ UNCHANGED <<call, owed, last>>

(* WorkStore::complete: of a record that is already gone, nothing. *)
Complete(id) ==
    /\ ~call.running /\ id \in records
    /\ records' = records \ {id} /\ owed' = owed \ {id}
    /\ cursor' = IF cursor.open
                 THEN [cursor EXCEPT !.live = IF @ > 0 THEN @ - 1 ELSE 0]
                 ELSE cursor
    /\ UNCHANGED <<call, last>>

(* WorkStore::pending up to its loop; the first call counts the records. *)
StartCall(loaded, limit) ==
    /\ ~call.running
    /\ cursor' = IF cursor.open THEN cursor
                 ELSE [Vacant EXCEPT !.open = TRUE,
                                     !.live = Cardinality(records)]
    /\ call' = [NoCall EXCEPT !.running = TRUE, !.start = cursor.after,
                              !.loaded = loaded, !.left = limit]
    /\ UNCHANGED <<records, owed, last>>

\* Mutant: the window leaves out the id right after the cursor.
WindowSkips(c) ==
    LET fit == {id \in records : c.after + 1 < id
                                 /\ (c.after # 0 => id <= c.lapEnd)}
    IN {id \in fit : Cardinality({x \in fit : x < id}) < WindowSize}

(* RouteCursor::refill: the smallest ids after the cursor, no further than *)
(* the end of the lap unless a lap begins here.                            *)
Window(c) ==
    LET fit == {id \in records : c.after < id
                                 /\ (c.after # 0 => id <= c.lapEnd)}
    IN {id \in fit : Cardinality({x \in fit : x < id}) < WindowSize}

Refilled(c) ==
    [c EXCEPT !.window = Window(c),
              !.lapEnd = IF c.after # 0 THEN @
                         ELSE IF records = {} THEN 0 ELSE Max(records)]

InLoop == call.running /\ call.examined < MaxExamined /\ call.left > 0

(* Nothing is left on disk. *)
StopEmpty ==
    /\ InLoop /\ cursor.window = {} /\ cursor.live = 0
    /\ cursor' = [cursor EXCEPT !.after = 0]
    /\ call' = NoCall
    /\ UNCHANGED <<records, owed, last>>

(* A new window, with more of the lap in it. *)
RefillWindow ==
    /\ InLoop /\ cursor.window = {} /\ cursor.live > 0
    /\ Refilled(cursor).window # {}
    /\ cursor' = Refilled(cursor)
    /\ owed' = IF cursor.after = 0 THEN records ELSE owed
    /\ UNCHANGED <<records, call, last>>

\* Mutant: the cursor stays at the end of the lap.
EndLapStays ==
    /\ InLoop /\ cursor.window = {} /\ cursor.live > 0
    /\ Refilled(cursor).window = {}
    /\ cursor' = Refilled(cursor)
    /\ call' = NoCall
    /\ UNCHANGED <<records, owed, last>>

(* Past the last record: the next lap, once per call. *)
EndLap ==
    /\ InLoop /\ cursor.window = {} /\ cursor.live > 0
    /\ Refilled(cursor).window = {}
    /\ cursor' = [Refilled(cursor) EXCEPT !.after = 0]
    /\ call' = IF call.wrapped \/ call.start = 0 THEN NoCall
               ELSE [call EXCEPT !.wrapped = TRUE]
    /\ UNCHANGED <<records, owed, last>>

(* The walk has come back to where this call began. *)
BackAtStart == call.wrapped /\ call.start # 0
               /\ Min(cursor.window) > call.start

(* Every record was offered once. *)
StopAtStart ==
    /\ InLoop /\ cursor.window # {} /\ BackAtStart
    /\ call' = NoCall
    /\ UNCHANGED <<records, cursor, owed, last>>

(* The next id of the window: skipped if the pool has it loaded or if its  *)
(* record went away since the window was filled, returned otherwise.       *)
Examine ==
    LET id       == Min(cursor.window)
        returned == id \notin call.loaded /\ id \in records
    IN
    /\ InLoop /\ cursor.window # {} /\ ~BackAtStart
    /\ cursor' = [cursor EXCEPT !.window = @ \ {id}, !.after = id]
    /\ call' = [call EXCEPT !.examined = @ + 1,
                            !.loaded = IF returned THEN @ \cup {id} ELSE @,
                            !.left = IF returned THEN @ - 1 ELSE @]
    /\ owed' = owed \ {id} /\ last' = id
    /\ UNCHANGED records

(* The call has all it asked for, or has examined all it may. *)
StopExamined ==
    /\ call.running /\ ~InLoop
    /\ call' = NoCall
    /\ UNCHANGED <<records, cursor, owed, last>>

(* The process ends; the next one has no cursor until its first call. *)
Restart ==
    /\ cursor' = Vacant /\ call' = NoCall /\ owed' = {} /\ last' = 0
    /\ UNCHANGED records

Walk == \/ StopEmpty \/ RefillWindow \/ EndLap \/ StopAtStart \/ Examine
        \/ StopExamined

CursorNext ==
    \/ \E id \in Ids : Record(id) \/ Complete(id)
    \/ \E loaded \in SUBSET Ids, limit \in 1..MaxLimit : StartCall(loaded, limit)
    \/ Walk
    \/ Restart

CursorSpec == CursorInit /\ [][CursorNext]_cursorVars

(***************************************************************************)
(* Fairness: the pool calls on every prune tick, a call runs to its end,   *)
(* and the process is not restarted for ever.                              *)
(***************************************************************************)
Call == \E loaded \in SUBSET Ids, limit \in 1..MaxLimit : StartCall(loaded, limit)

CursorFairSpec == CursorSpec /\ WF_cursorVars(Walk) /\ WF_cursorVars(Call) /\ <>[][~Restart]_cursorVars

-----------------------------------------------------------------------------
(* The maintained count is the number of records, through every order of   *)
(* records, rewrites, completions and calls: pending stops for good on a   *)
(* count of zero, so one that drifts down would hide a backlog (record,    *)
(* complete, RouteCursor::new).                                            *)
LiveIsExact == cursor.open => cursor.live = Cardinality(records)

(* A lap offers every record that was there when it began: at its end none *)
(* is owed, and until then each one owed lies ahead of the cursor, within  *)
(* the lap, and is in the window or beyond all of it (RouteCursor::refill, *)
(* pending).                                                               *)
LapCovers ==
    /\ cursor.after = 0 /\ cursor.window = {} => owed = {}
    /\ \A id \in owed :
          /\ cursor.after < id /\ id <= cursor.lapEnd
          /\ \/ id \in cursor.window
             \/ \A x \in cursor.window : x < id

(* Every record is offered in the end, whatever arrives and is completed   *)
(* meanwhile (pending, RouteCursor).                                       *)
EveryRecordOffered ==
    \A id \in Ids : (id \in records) ~> (last = id \/ id \notin records)

=============================================================================
