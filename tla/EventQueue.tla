----------------------------- MODULE EventQueue -----------------------------
(***************************************************************************)
(* The ordered vector of Events of a Timer (Timer.lua).  A queue is a      *)
(* sequence of event names; at[e] is what the Event e says of itself: the  *)
(* time it will happen next, its priority and its period.                  *)
(***************************************************************************)
EXTENDS Integers, Sequences

Attr == [time : Int, priority : Int, period : Nat]

(* The test of the search loop in Timer:add: x, which is there, stays in   *)
(* front of y, which is added.                                             *)
StaysStrict(x, y) ==                  \* mutant: prio > evp.priority
    \/ x.time < y.time
    \/ x.time = y.time /\ x.priority < y.priority
Stays(x, y) ==
    \/ x.time < y.time
    \/ x.time = y.time /\ x.priority <= y.priority

(* Where that loop stops: at the first event that does not stay in front   *)
(* of e, or behind the last one.                                           *)
StopsAt(q, at, e, p) ==
    /\ \A i \in 1 .. p - 1 : Stays(at[q[i]], at[e])
    /\ p = Len(q) + 1 \/ ~Stays(at[q[p]], at[e])
InsertPos(q, at, e) == CHOOSE p \in 1 .. Len(q) + 1 : StopsAt(q, at, e, p)

(* table.insert(events, pos, event) *)
InsertAtPos(q, e, p) ==
    [i \in 1 .. Len(q) + 1 |-> IF i < p THEN q[i] ELSE IF i = p THEN e ELSE q[i - 1]]

InsertAtEnd(q, at, e) == Append(q, e)      \* mutant: table.insert(events, event)
Insert(q, at, e) == InsertAtPos(q, e, InsertPos(q, at, e))

Elems(q) == {q[i] : i \in DOMAIN q}

----------------------------------------------------------------------------
(* The order in which events are to be executed, as the documentation of   *)
(* Timer:run states it; events that are equal are executed in the order in *)
(* which they were scheduled.                                              *)
GoesFirst(x, y) ==
    x.time < y.time \/ (x.time = y.time /\ x.priority <= y.priority)

Equals(x, y) == GoesFirst(x, y) /\ GoesFirst(y, x)

(* The events that e ties with, and comes after, when it is scheduled. *)
Ties(q, at, e) == {d \in Elems(q) : Equals(at[d], at[e])} \X {e}

(* d must be executed before e; earlier has <<d, e>> if d was scheduled    *)
(* before e.                                                               *)
Precedes(at, earlier, d, e) ==
    /\ GoesFirst(at[d], at[e])
    /\ GoesFirst(at[e], at[d]) => <<d, e>> \in earlier

Sorted(q, at) ==
    \A i, j \in DOMAIN q : i < j => GoesFirst(at[q[i]], at[q[j]])
============================================================================
