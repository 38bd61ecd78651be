------------------------- MODULE Environment_proofs -------------------------
(***************************************************************************)
(* What Environment:run guarantees for any number of Timers and Events and *)
(* whatever the actions add, clear and configure: the events of all Timers *)
(* are executed in one order, and what waits after the run has a reason.   *)
(***************************************************************************)
EXTENDS Environment, EventQueue_proofs, SequenceTheorems

(* An Event is in one queue of one Timer, for a time that is finite. *)
ListsInv ==
    /\ \A t \in Timer : Distinct(lists[t])
    /\ \A t, u \in Timer : t # u => Elems(lists[t]) \cap Elems(lists[u]) = {}
TimesInv == \A t \in Timer : \A e \in Elems(lists[t]) : MinusInfinity < at[e].time

QueueInv == /\ Distinct(queue) /\ current \notin Queued
            /\ Sorted(queue, at) /\ Fifo(queue, at, earlier)

(* The queue of the run has the Events that process has passed. *)
Passed(i, j) == i < ti \/ (i = ti /\ j < k)
Walked == {e \in Event : \E i \in DOMAIN Met : \E j \in DOMAIN lists[Met[i]] :
                             Passed(i, j) /\ e = lists[Met[i]][j]}
MergeInv == k > 0 /\ (mode = "merge" => Queued = Walked)

(* In the loop no Event gets lost, unless it is over, came too late or was *)
(* cleared.                                                                *)
LoopInv ==
    mode \in {"loop", "action"} =>
        \A t \in Timer : Elems(lists[t]) \subseteq
            over \cup late \cup cleared \cup Queued \cup {current}

IInv == /\ TypeOK /\ ListsInv /\ TimesInv /\ QueueInv /\ MergeInv /\ LoopInv
        /\ PendingExplained

LEMMA InitInv == Init => IInv
<1> SUFFICES ASSUME Init PROVE IInv
  OBVIOUS
<1> USE EnvironmentAssumption
<1>1. <<>> \in Seq(Event) /\ DOMAIN <<>> = {} /\ Elems(<<>>) = {}
  BY DEF Elems
<1>2. TypeOK
  <2>1. lists \in [Timer -> Seq(Event)] /\ queue \in Seq(Event)
    BY <1>1 DEF Init
  <2>2. at \in [Event -> Attr] /\ clock \in [Timer -> Int]
    BY DEF Init, Attr
  <2>3. ti \in 1 .. Len(Met) + 1 /\ k \in Nat /\ calls \in Nat
    <3>1. Met \in Seq(Timer)
      OBVIOUS
    <3>2. Len(Met) \in Nat
      BY <3>1
    <3>3. ti = 1 /\ k = 1 /\ calls = 0
      BY DEF Init
    <3> QED  BY <3>2, <3>3
  <2>4. now \in Int /\ finalTime \in Int
    BY DEF Init
  <2>5. parent \in [Event -> Timer \cup {Merged, NoTimer}]
    BY DEF Init
  <2>6. QED
    BY <2>1, <2>2, <2>3, <2>4, <2>5 DEF Init, TypeOK
<1>3. ListsInv /\ TimesInv /\ QueueInv /\ MergeInv /\ LoopInv /\ PendingExplained
  BY <1>1 DEF Init, ListsInv, TimesInv, QueueInv, MergeInv, LoopInv, PendingExplained,
              Distinct, Sorted, Fifo, Queued
<1> QED  BY <1>2, <1>3 DEF IInv

----------------------------------------------------------------------------
(* A new Event has a finite time. *)
LEMMA NewEventFacts ==
    ASSUME NEW e \in Event, NewEvent(e)
    PROVE  \E x \in Attr : at' = [at EXCEPT ![e] = x] /\ MinusInfinity < x.time
<1>1. PICK s \in Start, r \in Priority, p \in ValidPeriod :
          at' = [at EXCEPT ![e] = [time |-> s, priority |-> r, period |-> p]]
  BY DEF NewEvent
<1>2. /\ [time |-> s, priority |-> r, period |-> p] \in Attr
      /\ [time |-> s, priority |-> r, period |-> p].time = s /\ MinusInfinity < s
  BY EnvironmentAssumption DEF Attr, ValidPeriod
<1> QED  BY <1>1, <1>2

(* An Event is added to the queue of the run. *)
LEMMA ScheduledFacts ==
    ASSUME NEW e \in Event, Scheduled(e), e \notin Queued,
           queue \in Seq(Event), at' \in [Event -> Attr], Distinct(queue),
           Sorted(queue, at'), Fifo(queue, at', earlier),
           earlier \subseteq Event \X Event,
           parent \in [Event -> Timer \cup {Merged, NoTimer}]
    PROVE  /\ queue' \in Seq(Event) /\ Queued' = Queued \cup {e} /\ Distinct(queue')
           /\ Sorted(queue', at') /\ Fifo(queue', at', earlier')
           /\ earlier' \subseteq Event \X Event
           /\ parent' \in [Event -> Timer \cup {Merged, NoTimer}]
<1>1. /\ queue' = Insert(queue, at', e) /\ earlier' = earlier \cup Ties(queue, at', e)
      /\ parent' = [parent EXCEPT ![e] = Merged]
  BY DEF Scheduled
<1>2. e \notin Elems(queue) /\ Elems(queue) \subseteq Event
  BY DEF Queued, Elems
<1>3. /\ Insert(queue, at', e) \in Seq(Event)
      /\ Elems(Insert(queue, at', e)) = Elems(queue) \cup {e}
  BY InsertFacts
<1>4. Distinct(Insert(queue, at', e))
  BY <1>2, InsertDistinct
<1>5. Sorted(Insert(queue, at', e), at')
  BY InsertSorted
<1>6. Fifo(Insert(queue, at', e), at', earlier \cup Ties(queue, at', e))
  BY InsertTies
<1>7. Ties(queue, at', e) \subseteq Event \X Event
  BY <1>2 DEF Ties
<1> QED  BY <1>1, <1>3, <1>4, <1>5, <1>6, <1>7 DEF Queued

----------------------------------------------------------------------------
(* What a model calls. *)

LEMMA AddInv ==
    ASSUME IInv, NEW t \in Timer, NEW e \in Event, Add(t, e)
    PROVE  IInv'
<1> USE EnvironmentAssumption
<1>1. /\ mode \in {"idle", "action"} /\ calls' = calls + 1
      /\ e \notin Queued /\ e # current /\ \A u \in Timer : e \notin Elems(lists[u])
      /\ lists' = [lists EXCEPT ![t] = Insert(@, at', e)]
      /\ parent' = [parent EXCEPT ![e] = t]
      /\ over' = over \ {e}
      /\ late' = IF mode = "action" \/ at'[e].time <= clock[t] THEN late \cup {e} ELSE late \ {e}
      /\ UNCHANGED <<clock, mode, ti, k, queue, now, current, finalTime, earlier, cleared>>
  BY DEF Add, NewEvent, MayCall, InList, run
<1>2. PICK x \in Attr : at' = [at EXCEPT ![e] = x] /\ MinusInfinity < x.time
  BY NewEventFacts DEF Add
<1>3. /\ lists \in [Timer -> Seq(Event)] /\ at \in [Event -> Attr] /\ queue \in Seq(Event)
      /\ \A u \in Timer : lists[u] \in Seq(Event) /\ Elems(lists[u]) \subseteq Event
  BY DEF IInv, TypeOK, Elems
<1>4. /\ at' \in [Event -> Attr] /\ at'[e] = x
      /\ \A d \in Event \ {e} : at'[d] = at[d]
  BY <1>2, <1>3
<1>5. /\ lists'[t] \in Seq(Event) /\ Elems(lists'[t]) = Elems(lists[t]) \cup {e}
      /\ Distinct(lists'[t])
  <2>1. lists'[t] = Insert(lists[t], at', e)
    BY <1>1, <1>3
  <2>2. Distinct(lists[t])
    BY DEF IInv, ListsInv
  <2> QED  BY <1>1, <1>3, <2>1, <2>2, InsertFacts, InsertDistinct
<1>6. lists' \in [Timer -> Seq(Event)] /\ \A u \in Timer \ {t} : lists'[u] = lists[u]
  BY <1>1, <1>3, <1>5
<1>7. TypeOK'
  <2>1. parent' \in [Event -> Timer \cup {Merged, NoTimer}]
    BY <1>1 DEF IInv, TypeOK
  <2>2. over' \subseteq Event /\ late' \subseteq Event /\ calls' \in Nat
    BY <1>1 DEF IInv, TypeOK
  <2> QED  BY <1>1, <1>4, <1>6, <2>1, <2>2 DEF IInv, TypeOK
<1>8. ListsInv'
  BY <1>1, <1>5, <1>6 DEF IInv, ListsInv
<1>9. \A u \in Timer : \A d \in Elems(lists'[u]) : d = e \/ d \in Elems(lists[u]) \ {e}
  BY <1>1, <1>5, <1>6
<1>10. TimesInv'
  BY <1>2, <1>3, <1>4, <1>9 DEF IInv, TimesInv
<1>11. QueueInv'
  <2>1. \A d \in Elems(queue) : at[d] = at'[d]
    BY <1>1, <1>3, <1>4 DEF Queued, Elems
  <2> QED  BY <1>1, <2>1, OrderKept DEF IInv, QueueInv, Queued
<1>12. MergeInv'
  BY <1>1 DEF IInv, MergeInv
<1>13. LoopInv'
  BY <1>1, <1>9 DEF IInv, LoopInv, Queued
<1>14. PendingExplained'
  <2> SUFFICES ASSUME mode' = "idle", NEW u \in Timer, NEW d \in Elems(lists'[u]),
                      at'[d].time <= clock'[u]
               PROVE  d \in over' \cup late' \cup cleared'
    BY DEF PendingExplained
  <2>1. CASE d = e
    <3>1. u = t
      BY <1>1, <1>6, <2>1
    <3> QED  BY <1>1, <2>1, <3>1
  <2>2. CASE d # e
    <3>1. d \in Elems(lists[u]) /\ d \in Event /\ at[d].time <= clock[u]
      BY <1>1, <1>3, <1>4, <1>9, <2>2
    <3> QED  BY <1>1, <2>2, <3>1 DEF IInv, PendingExplained
  <2> QED  BY <2>1, <2>2
<1> QED  BY <1>7, <1>8, <1>10, <1>11, <1>12, <1>13, <1>14 DEF IInv

LEMMA ClearInv ==
    ASSUME IInv, NEW t \in Timer, Clear(t)
    PROVE  IInv'
<1>1. /\ mode \in {"idle", "action"} /\ calls' = calls + 1
      /\ lists' = [lists EXCEPT ![t] = <<>>]
      /\ UNCHANGED <<clock, at, parent, mode, ti, k, queue, now, current, finalTime, earlier, over, late, cleared>>
  BY DEF Clear, MayCall, run
<1>2. <<>> \in Seq(Event) /\ Elems(<<>>) = {} /\ Distinct(<<>>)
  BY DEF Elems, Distinct
<1>3. lists \in [Timer -> Seq(Event)]
  BY DEF IInv, TypeOK
<1>4. /\ lists' \in [Timer -> Seq(Event)]
      /\ \A u \in Timer : lists'[u] = IF u = t THEN <<>> ELSE lists[u]
  BY <1>1, <1>2, <1>3
<1>5. \A u \in Timer : Elems(lists'[u]) \subseteq Elems(lists[u]) /\ Distinct(lists'[u])
  BY <1>2, <1>4 DEF IInv, ListsInv
<1>6. TypeOK'
  BY <1>1, <1>4 DEF IInv, TypeOK
<1>7. ListsInv' /\ TimesInv' /\ LoopInv' /\ PendingExplained'
  BY <1>1, <1>5 DEF IInv, ListsInv, TimesInv, LoopInv, PendingExplained, Queued
<1>8. QueueInv' /\ MergeInv'
  BY <1>1 DEF IInv, QueueInv, MergeInv, Queued
<1> QED  BY <1>6, <1>7, <1>8 DEF IInv

LEMMA ResetInv ==
    ASSUME IInv, NEW t \in Timer, Reset(t)
    PROVE  IInv'
<1> USE EnvironmentAssumption
<1>1. /\ mode \in {"idle", "action"} /\ calls' = calls + 1
      /\ clock' = [clock EXCEPT ![t] = MinusInfinity]
      /\ UNCHANGED <<lists, at, parent, mode, ti, k, queue, now, current, finalTime, earlier, over, late, cleared>>
  BY DEF Reset, MayCall, run
<1>2. /\ clock \in [Timer -> Int] /\ clock' \in [Timer -> Int]
      /\ \A u \in Timer : clock'[u] = IF u = t THEN MinusInfinity ELSE clock[u]
  BY <1>1 DEF IInv, TypeOK
<1>3. TypeOK'
  BY <1>1, <1>2 DEF IInv, TypeOK
<1>4. PendingExplained'
  <2>1. \A u \in Timer : \A e \in Elems(lists[u]) : e \in Event
    BY DEF IInv, TypeOK, Elems
  <2>2. \A e \in Event : at[e].time \in Int
    BY DEF IInv, TypeOK, Attr
  <2>3. \A u \in Timer : \A e \in Elems(lists[u]) : ~(at[e].time <= MinusInfinity)
    BY <2>1, <2>2 DEF IInv, TimesInv
  <2> QED  BY <1>1, <1>2, <2>3 DEF IInv, PendingExplained
<1>5. ListsInv' /\ TimesInv' /\ QueueInv' /\ MergeInv' /\ LoopInv'
  BY <1>1 DEF IInv, ListsInv, TimesInv, QueueInv, MergeInv, LoopInv, Queued
<1> QED  BY <1>3, <1>4, <1>5 DEF IInv

LEMMA ConfigInv ==
    ASSUME IInv, Config
    PROVE  IInv'
<1> USE EnvironmentAssumption
<1>1. /\ mode = "action" /\ calls' = calls + 1 /\ current \in Event
      /\ UNCHANGED <<lists, clock, parent, mode, ti, k, queue, now, current, finalTime, earlier, over, late, cleared>>
  BY DEF Config, MayCall, run, IInv, TypeOK
<1>2. at \in [Event -> Attr] /\ at[current] \in Attr
  BY <1>1 DEF IInv, TypeOK
<1>3. PICK x \in Attr : /\ at' = [at EXCEPT ![current] = x]
                        /\ MinusInfinity < x.time \/ x.time = at[current].time
  <2>1. CASE \E s \in Start : at' = [at EXCEPT ![current].time = s]
    <3>1. PICK s \in Start : at' = [at EXCEPT ![current].time = s]
      BY <2>1
    <3>2. /\ [at[current] EXCEPT !.time = s] \in Attr
          /\ [at[current] EXCEPT !.time = s].time = s /\ MinusInfinity < s
      BY <1>2 DEF Attr
    <3> QED  BY <1>2, <3>1, <3>2
  <2>2. CASE \E r \in Priority : at' = [at EXCEPT ![current].priority = r]
    <3>1. PICK r \in Priority : at' = [at EXCEPT ![current].priority = r]
      BY <2>2
    <3>2. /\ [at[current] EXCEPT !.priority = r] \in Attr
          /\ [at[current] EXCEPT !.priority = r].time = at[current].time
      BY <1>2 DEF Attr
    <3> QED  BY <1>2, <3>1, <3>2
  <2>3. CASE \E p \in ValidPeriod : at' = [at EXCEPT ![current].period = p]
    <3>1. PICK p \in ValidPeriod : at' = [at EXCEPT ![current].period = p]
      BY <2>3
    <3>2. /\ [at[current] EXCEPT !.period = p] \in Attr
          /\ [at[current] EXCEPT !.period = p].time = at[current].time
      BY <1>2 DEF Attr, ValidPeriod
    <3> QED  BY <1>2, <3>1, <3>2
  <2> QED  BY <2>1, <2>2, <2>3 DEF Config
<1>4. at' \in [Event -> Attr] /\ at'[current] = x /\ \A d \in Event \ {current} : at'[d] = at[d]
  BY <1>1, <1>2, <1>3
<1>5. TypeOK'
  BY <1>1, <1>4 DEF IInv, TypeOK
<1>6. TimesInv'
  <2>1. \A u \in Timer : Elems(lists[u]) \subseteq Event
    BY DEF IInv, TypeOK, Elems
  <2> QED  BY <1>1, <1>3, <1>4, <2>1 DEF IInv, TimesInv
<1>7. QueueInv'
  <2>1. \A d \in Elems(queue) : at[d] = at'[d]
    BY <1>4 DEF IInv, TypeOK, QueueInv, Queued, Elems
  <2> QED  BY <1>1, <2>1, OrderKept DEF IInv, QueueInv, Queued
<1>8. ListsInv' /\ MergeInv' /\ LoopInv' /\ PendingExplained'
  BY <1>1 DEF IInv, ListsInv, MergeInv, LoopInv, PendingExplained, Queued
<1> QED  BY <1>5, <1>6, <1>7, <1>8 DEF IInv

(* The same for the Timer of the run. *)

LEMMA AddToRunInv ==
    ASSUME IInv, NEW e \in Event, AddToRun(e)
    PROVE  IInv'
<1> USE EnvironmentAssumption
<1>1. /\ mode = "action" /\ calls' = calls + 1 /\ Scheduled(e) /\ NewEvent(e)
      /\ e \notin Queued /\ e # current /\ \A u \in Timer : e \notin Elems(lists[u])
      /\ UNCHANGED <<lists, clock, mode, ti, k, now, current, finalTime, over, late, cleared>>
  BY DEF AddToRun, NewEvent, MayCall, InList
<1>2. PICK x \in Attr : at' = [at EXCEPT ![e] = x] /\ MinusInfinity < x.time
  BY <1>1, NewEventFacts
<1>3. /\ at \in [Event -> Attr] /\ queue \in Seq(Event) /\ Distinct(queue)
      /\ Sorted(queue, at) /\ Fifo(queue, at, earlier) /\ earlier \subseteq Event \X Event
      /\ parent \in [Event -> Timer \cup {Merged, NoTimer}]
  BY DEF IInv, TypeOK, QueueInv
<1>4. /\ at' \in [Event -> Attr] /\ \A d \in Event \ {e} : at'[d] = at[d]
  BY <1>2, <1>3
<1>5. Sorted(queue, at') /\ Fifo(queue, at', earlier)
  <2>1. \A d \in Elems(queue) : at[d] = at'[d]
    BY <1>1, <1>3, <1>4 DEF Queued, Elems
  <2> QED  BY <1>3, <2>1, OrderKept
<1>6. /\ queue' \in Seq(Event) /\ Queued' = Queued \cup {e} /\ Distinct(queue')
      /\ Sorted(queue', at') /\ Fifo(queue', at', earlier')
      /\ earlier' \subseteq Event \X Event
      /\ parent' \in [Event -> Timer \cup {Merged, NoTimer}]
  BY <1>1, <1>3, <1>4, <1>5, ScheduledFacts
<1>7. TypeOK'
  <2>1. calls' \in Nat
    BY <1>1 DEF IInv, TypeOK
  <2> QED  BY <1>1, <1>4, <1>6, <2>1 DEF IInv, TypeOK
<1>8. QueueInv'
  BY <1>1, <1>6 DEF IInv, QueueInv
<1>9. TimesInv'
  <2>1. \A u \in Timer : Elems(lists[u]) \subseteq Event \ {e}
    BY <1>1 DEF IInv, TypeOK, Elems
  <2> QED  BY <1>1, <1>4, <2>1 DEF IInv, TimesInv
<1>10. MergeInv' /\ ListsInv' /\ LoopInv' /\ PendingExplained'
  BY <1>1, <1>6 DEF IInv, MergeInv, ListsInv, LoopInv, PendingExplained
<1> QED  BY <1>7, <1>8, <1>9, <1>10 DEF IInv

LEMMA ClearRunInv ==
    ASSUME IInv, ClearRun
    PROVE  IInv'
<1>1. /\ mode = "action" /\ calls' = calls + 1 /\ queue' = <<>> /\ earlier' = {}
      /\ cleared' = cleared \cup Queued
      /\ UNCHANGED <<lists, clock, at, parent, mode, ti, k, now, current, finalTime, over, late>>
  BY DEF ClearRun, MayCall
<1>2. <<>> \in Seq(Event) /\ Elems(<<>>) = {} /\ DOMAIN <<>> = {}
  BY DEF Elems
<1>3. Queued' = {} /\ Queued \subseteq Event
  BY <1>1, <1>2 DEF Queued, Elems, IInv, TypeOK
<1>4. TypeOK'
  BY <1>1, <1>2, <1>3 DEF IInv, TypeOK
<1>5. QueueInv'
  BY <1>1, <1>2, <1>3 DEF QueueInv, Distinct, Sorted, Fifo
<1>6. LoopInv' /\ MergeInv' /\ ListsInv' /\ TimesInv' /\ PendingExplained'
  BY <1>1, <1>3 DEF IInv, LoopInv, MergeInv, ListsInv, TimesInv, PendingExplained
<1> QED  BY <1>4, <1>5, <1>6 DEF IInv

LEMMA ResetRunInv ==
    ASSUME IInv, ResetRun
    PROVE  IInv'
<1> USE EnvironmentAssumption
<1>1. /\ mode = "action" /\ calls' = calls + 1 /\ now' = MinusInfinity
      /\ UNCHANGED <<lists, clock, at, parent, mode, ti, k, queue, current, finalTime, earlier,
                     over, late, cleared>>
  BY DEF ResetRun, MayCall
<1>2. TypeOK'
  BY <1>1 DEF IInv, TypeOK
<1>3. QueueInv' /\ LoopInv' /\ MergeInv' /\ ListsInv' /\ TimesInv' /\ PendingExplained'
  BY <1>1 DEF IInv, QueueInv, LoopInv, MergeInv, ListsInv, TimesInv, PendingExplained, Queued
<1> QED  BY <1>2, <1>3 DEF IInv

----------------------------------------------------------------------------
(* The steps of a run. *)

LEMMA RunInv ==
    ASSUME IInv, NEW f \in Final, Run(f)
    PROVE  IInv'
<1> USE EnvironmentAssumption
<1>1. /\ mode = "idle" /\ mode' = "merge" /\ calls' = calls + 1 /\ ti' = 1 /\ k' = 1
      /\ queue' = <<>> /\ now' = MinusInfinity /\ finalTime' = f
      /\ over' = {} /\ late' = {} /\ cleared' = {} /\ earlier' = {}
      /\ UNCHANGED <<lists, clock, at, parent, current>>
  BY DEF Run, MayCall
<1>2. <<>> \in Seq(Event) /\ DOMAIN <<>> = {} /\ Elems(<<>>) = {}
  BY DEF Elems
<1>3. Len(Met) \in Nat
  BY LenProperties
<1>4. current \notin Event
  BY <1>1 DEF IInv, TypeOK
<1>5. TypeOK'
  BY <1>1, <1>2, <1>3, <1>4 DEF IInv, TypeOK
<1>6. QueueInv'
  BY <1>1, <1>2 DEF QueueInv, Queued, Distinct, Sorted, Fifo
<1>7. MergeInv'
  <2> SUFFICES ASSUME NEW i \in DOMAIN Met, NEW j \in DOMAIN lists[Met[i]]
               PROVE  ~(i < 1 \/ (i = 1 /\ j < 1))
    BY <1>1, <1>2 DEF MergeInv, Walked, Passed, Queued
  <2>1. Met[i] \in Timer /\ i \in 1..Len(Met)
    BY LenProperties
  <2>2. lists[Met[i]] \in Seq(Event)
    BY <2>1 DEF IInv, TypeOK
  <2>3. j \in 1..Len(lists[Met[i]])
    BY <2>2, LenProperties
  <2> QED  BY <1>3, <2>1, <2>3
<1>8. ListsInv' /\ TimesInv' /\ LoopInv' /\ PendingExplained'
  BY <1>1 DEF IInv, ListsInv, TimesInv, LoopInv, PendingExplained
<1> QED  BY <1>5, <1>6, <1>7, <1>8 DEF IInv

(* process meets each Event once, so none is in the queue of the run before *)
(* it is added.                                                             *)
LEMMA MergeStepInv ==
    ASSUME IInv, Merge
    PROVE  IInv'
<1> USE EnvironmentAssumption
<1> DEFINE q == lists[Met[ti]]
<1>1. /\ mode = "merge" /\ ti \in DOMAIN Met /\ Queued = Walked /\ k > 0
      /\ UNCHANGED <<lists, clock, at, mode, now, current, finalTime>>
      /\ UNCHANGED <<over, late, cleared, calls>>
  BY DEF Merge, IInv, MergeInv
<1>2. /\ Len(Met) \in Nat /\ DOMAIN Met = 1..Len(Met) /\ \A i \in DOMAIN Met : Met[i] \in Timer
      /\ ti \in 1..Len(Met) /\ ti + 1 \in 1..Len(Met) + 1 /\ k \in Nat
  <2>1. Len(Met) \in Nat /\ DOMAIN Met = 1..Len(Met) /\ \A i \in DOMAIN Met : Met[i] \in Timer
    BY LenProperties
  <2>2. ti \in 1..Len(Met) /\ k \in Nat
    BY <1>1, <2>1 DEF IInv, TypeOK
  <2> QED  BY <2>1, <2>2
<1>3. /\ \A i \in DOMAIN Met : /\ lists[Met[i]] \in Seq(Event) /\ Distinct(lists[Met[i]])
                             /\ Len(lists[Met[i]]) \in Nat
                             /\ DOMAIN lists[Met[i]] = 1..Len(lists[Met[i]])
                             /\ \A j \in DOMAIN lists[Met[i]] : lists[Met[i]][j] \in Event
      /\ queue \in Seq(Event) /\ at \in [Event -> Attr] /\ current \notin Event
      /\ Distinct(queue) /\ Sorted(queue, at) /\ Fifo(queue, at, earlier)
      /\ earlier \subseteq Event \X Event
      /\ parent \in [Event -> Timer \cup {Merged, NoTimer}]
  <2>1. lists \in [Timer -> Seq(Event)]
    BY DEF IInv, TypeOK
  <2>2. \A u \in Timer : Distinct(lists[u])
    BY DEF IInv, ListsInv
  <2>3. \A u \in Timer : /\ Len(lists[u]) \in Nat /\ DOMAIN lists[u] = 1..Len(lists[u])
                          /\ \A j \in DOMAIN lists[u] : lists[u][j] \in Event
    BY <2>1, LenProperties
  <2> QED  BY <1>1, <1>2, <2>1, <2>2, <2>3 DEF IInv, TypeOK, QueueInv
<1>4. CASE k > Len(q)
  <2>1. ti' = ti + 1 /\ k' = 1 /\ UNCHANGED <<queue, parent, earlier>>
    <3>1. ~More(Met[ti])
      BY <1>1, <1>2, <1>3, <1>4 DEF More
    <3> QED  BY <3>1 DEF Merge
  <2>2. TypeOK'
    BY <1>1, <1>2, <2>1 DEF IInv, TypeOK
  <2>3. ASSUME NEW i \in DOMAIN Met, NEW j \in DOMAIN lists[Met[i]]
        PROVE  Passed(i, j)' <=> Passed(i, j)
    BY <1>2, <1>3, <1>4, <2>1, <2>3 DEF Passed
  <2>4. Walked' = Walked
    BY <1>1, <2>3 DEF Walked
  <2>5. MergeInv' /\ QueueInv'
    BY <1>1, <2>1, <2>4 DEF IInv, MergeInv, QueueInv, Queued
  <2> QED  BY <1>1, <2>2, <2>5 DEF IInv, ListsInv, TimesInv, LoopInv, PendingExplained
<1>5. CASE k <= Len(q)
  <2> DEFINE e == q[k]
  <2>1. Scheduled(e) /\ k' = k + 1 /\ ti' = ti
    <3>1. More(Met[ti])
      BY <1>5 DEF More
    <3> QED  BY <3>1 DEF Merge
  <2>2. k \in DOMAIN q /\ e \in Event /\ e = lists[Met[ti]][k]
    BY <1>1, <1>2, <1>3, <1>5
  <2> HIDE DEF e, q
  <2>3. e \notin Queued
    <3> SUFFICES ASSUME NEW i \in DOMAIN Met, NEW j \in DOMAIN lists[Met[i]],
                        Passed(i, j), e = lists[Met[i]][j]
                 PROVE  FALSE
      BY <1>1 DEF Walked
    <3>1. CASE i = ti
      <4>1. j = k
        BY <1>2, <1>3, <2>2, <3>1 DEF Distinct, q
      <4> QED  BY <1>2, <3>1, <4>1 DEF Passed
    <3>2. CASE i # ti
      <4>1. Met[i] # Met[ti] /\ Met[i] \in Timer /\ Met[ti] \in Timer
        BY <1>1, <1>2, <3>2
      <4>2. e \in Elems(lists[Met[i]]) /\ e \in Elems(lists[Met[ti]])
        BY <2>2 DEF Elems, q
      <4> QED  BY <4>1, <4>2 DEF IInv, ListsInv
    <3> QED  BY <3>1, <3>2
  <2>4. /\ queue' \in Seq(Event) /\ Queued' = Queued \cup {e} /\ Distinct(queue')
        /\ Sorted(queue', at') /\ Fifo(queue', at', earlier')
        /\ earlier' \subseteq Event \X Event
        /\ parent' \in [Event -> Timer \cup {Merged, NoTimer}]
    BY <1>1, <1>3, <2>1, <2>2, <2>3, ScheduledFacts
  <2>5. TypeOK'
    BY <1>1, <1>2, <2>1, <2>4 DEF IInv, TypeOK
  <2>6. QueueInv'
    BY <1>1, <1>3, <2>2, <2>4 DEF IInv, QueueInv
  <2>7. MergeInv'
    <3>1. ASSUME NEW i \in DOMAIN Met, NEW j \in DOMAIN lists[Met[i]]
          PROVE  Passed(i, j)' <=> Passed(i, j) \/ (i = ti /\ j = k)
      BY <1>2, <1>3, <2>1, <3>1 DEF Passed
    <3>2. Walked' = Walked \cup {e}
      BY <1>1, <2>2, <3>1 DEF Walked, q
    <3> QED  BY <1>1, <1>2, <2>1, <2>4, <3>2 DEF MergeInv
  <2> QED  BY <1>1, <2>5, <2>6, <2>7 DEF IInv, ListsInv, TimesInv, LoopInv, PendingExplained
<1> QED  BY <1>2, <1>3, <1>4, <1>5

LEMMA MergeDoneInv ==
    ASSUME IInv, MergeDone
    PROVE  IInv'
<1> USE EnvironmentAssumption
<1>1. /\ mode = "merge" /\ mode' = "loop" /\ ti \notin DOMAIN Met /\ Queued = Walked
      /\ UNCHANGED <<lists, clock, at, parent, ti, k, queue, now, current, finalTime, earlier,
                     over, late, cleared, calls>>
  BY DEF MergeDone, IInv, MergeInv
<1>2. \A i \in DOMAIN Met : i < ti
  <2>1. Len(Met) \in Nat /\ DOMAIN Met = 1..Len(Met)
    BY LenProperties
  <2> QED  BY <1>1, <2>1 DEF IInv, TypeOK
<1>3. ASSUME NEW u \in Timer, NEW e \in Elems(lists[u])
      PROVE  e \in Queued
  <2>1. PICK i \in DOMAIN Met : Met[i] = u
    BY DEF Elems
  <2>2. PICK j \in DOMAIN lists[u] : lists[u][j] = e
    BY DEF Elems
  <2>3. e \in Event
    BY <2>2 DEF IInv, TypeOK
  <2> QED  BY <1>1, <1>2, <2>1, <2>2, <2>3 DEF Walked, Passed
<1>4. TypeOK'
  BY <1>1 DEF IInv, TypeOK
<1>5. LoopInv'
  BY <1>1, <1>3 DEF LoopInv, Queued
<1> QED  BY <1>1, <1>4, <1>5
         DEF IInv, ListsInv, TimesInv, QueueInv, MergeInv, PendingExplained, Queued

LEMMA RunNextInv ==
    ASSUME IInv, RunNext
    PROVE  IInv'
<1> USE EnvironmentAssumption
<1>1. /\ mode = "loop" /\ mode' = "action" /\ queue # <<>>
      /\ now' = at[Head(queue)].time /\ current' = Head(queue) /\ queue' = Tail(queue)
      /\ earlier' = {x \in earlier : x[1] # Head(queue)}
      /\ UNCHANGED <<lists, clock, at, parent, ti, k, finalTime, over, late, cleared, calls>>
  BY DEF RunNext, RestOf
<1>2. /\ queue \in Seq(Event) /\ Distinct(queue) /\ Sorted(queue, at)
      /\ Fifo(queue, at, earlier) /\ earlier \subseteq Event \X Event
      /\ at \in [Event -> Attr] /\ current \notin Event
  BY <1>1 DEF IInv, TypeOK, QueueInv
<1>3. /\ Head(queue) \in Event /\ Tail(queue) \in Seq(Event)
      /\ DOMAIN Tail(queue) = 1 .. Len(queue) - 1 /\ Len(queue) \in Nat
      /\ \A i \in 1 .. Len(queue) - 1 : Tail(queue)[i] = queue[i + 1]
      /\ Elems(queue) = {Head(queue)} \cup Elems(Tail(queue))
      /\ Distinct(Tail(queue)) /\ Head(queue) \notin Elems(Tail(queue))
  BY <1>1, <1>2, TailOfQueue
<1>4. TypeOK'
  <2>1. at[Head(queue)].time \in Int
    BY <1>2, <1>3 DEF Attr
  <2>2. earlier' \subseteq Event \X Event
    BY <1>1, <1>2
  <2> QED  BY <1>1, <1>3, <2>1, <2>2 DEF IInv, TypeOK
<1>5. Sorted(Tail(queue), at) /\ Fifo(Tail(queue), at, earlier')
  <2> SUFFICES ASSUME NEW i \in 1..Len(queue) - 1, NEW j \in 1..Len(queue) - 1, i < j
               PROVE  /\ GoesFirst(at[Tail(queue)[i]], at[Tail(queue)[j]])
                      /\ GoesFirst(at[Tail(queue)[j]], at[Tail(queue)[i]])
                            => <<Tail(queue)[i], Tail(queue)[j]>> \in earlier'
    BY <1>3 DEF Sorted, Fifo
  <2>1. i + 1 \in DOMAIN queue /\ j + 1 \in DOMAIN queue /\ i + 1 < j + 1
    BY <1>2, <1>3, LenProperties
  <2>2. Tail(queue)[i] = queue[i + 1] /\ Tail(queue)[j] = queue[j + 1]
    BY <1>3
  <2>3. queue[i + 1] # Head(queue)
    BY <1>3, <2>2 DEF Elems
  <2>4. GoesFirst(at[queue[i + 1]], at[queue[j + 1]])
    BY <1>2, <2>1 DEF Sorted
  <2>5. GoesFirst(at[queue[j + 1]], at[queue[i + 1]])
            => <<queue[i + 1], queue[j + 1]>> \in earlier
    BY <1>2, <2>1 DEF Fifo
  <2> QED  BY <1>1, <2>2, <2>3, <2>4, <2>5
<1>6. QueueInv'
  BY <1>1, <1>3, <1>5 DEF QueueInv, Queued
<1>7. LoopInv'
  <2>1. current \notin Event /\ \A u \in Timer : Elems(lists[u]) \subseteq Event
    BY <1>2 DEF IInv, TypeOK, Elems
  <2> QED  BY <1>1, <1>3, <2>1 DEF IInv, LoopInv, Queued
<1> QED  BY <1>1, <1>4, <1>6, <1>7 DEF IInv, ListsInv, TimesInv, MergeInv, PendingExplained

LEMMA ActionReturnInv ==
    ASSUME IInv, NEW result \in BOOLEAN, ActionReturn(result)
    PROVE  IInv'
<1> USE EnvironmentAssumption
<1>1. /\ mode = "action" /\ mode' = "loop" /\ current' = NoEvent /\ current \in Event
      /\ UNCHANGED <<lists, clock, ti, k, now, finalTime, late, cleared, calls>>
  BY DEF ActionReturn, IInv, TypeOK
<1>2. /\ queue \in Seq(Event) /\ Distinct(queue) /\ Sorted(queue, at)
      /\ Fifo(queue, at, earlier) /\ earlier \subseteq Event \X Event
      /\ parent \in [Event -> Timer \cup {Merged, NoTimer}]
      /\ at \in [Event -> Attr] /\ current \notin Queued /\ at[current] \in Attr
      /\ \A u \in Timer : Elems(lists[u]) \subseteq Event
  BY <1>1 DEF IInv, TypeOK, QueueInv, Elems
<1>3. CASE Over(result)
  <2>1. /\ parent' = [parent EXCEPT ![current] = NoTimer]
        /\ over' = over \cup {current} /\ UNCHANGED <<at, queue, earlier>>
    BY <1>3 DEF ActionReturn
  <2>2. TypeOK'
    <3>1. parent' \in [Event -> Timer \cup {Merged, NoTimer}] /\ over' \subseteq Event
      BY <1>1, <2>1 DEF IInv, TypeOK
    <3> QED  BY <1>1, <2>1, <3>1 DEF IInv, TypeOK
  <2>3. QueueInv'
    <3>1. NoEvent \notin Queued
      BY <1>2 DEF Queued, Elems
    <3> QED  BY <1>1, <1>2, <2>1, <3>1 DEF QueueInv, Queued
  <2>4. LoopInv'
    BY <1>1, <2>1 DEF IInv, LoopInv, Queued
  <2> QED  BY <1>1, <2>1, <2>2, <2>3, <2>4
           DEF IInv, ListsInv, TimesInv, MergeInv, PendingExplained
<1>4. CASE ~Over(result)
  <2> DEFINE x == [at[current] EXCEPT !.time = @ + at[current].period]
  <2>1. /\ at' = [at EXCEPT ![current] = x]
        /\ Scheduled(current) /\ over' = over
    BY <1>1, <1>2, <1>4 DEF ActionReturn
  <2>2. x \in Attr /\ x.time >= at[current].time
    <3>1. PICK t \in Int, n \in Int, p \in Nat :
              at[current] = [time |-> t, priority |-> n, period |-> p]
      BY <1>2 DEF Attr
    <3>2. x = [time |-> t + p, priority |-> n, period |-> p]
      BY <3>1
    <3>3. t + p \in Int /\ t + p >= t
      OBVIOUS
    <3> QED  BY <3>1, <3>2, <3>3 DEF Attr
  <2> HIDE DEF x
  <2>3. /\ at' \in [Event -> Attr] /\ at'[current] = x
        /\ \A d \in Event \ {current} : at'[d] = at[d]
    BY <1>1, <1>2, <2>1, <2>2
  <2>4. Sorted(queue, at') /\ Fifo(queue, at', earlier)
    <3>1. \A d \in Elems(queue) : at[d] = at'[d]
      BY <1>2, <2>3 DEF Queued, Elems
    <3> QED  BY <1>2, <3>1, OrderKept
  <2>5. /\ queue' \in Seq(Event) /\ Queued' = Queued \cup {current} /\ Distinct(queue')
        /\ Sorted(queue', at') /\ Fifo(queue', at', earlier')
        /\ earlier' \subseteq Event \X Event
        /\ parent' \in [Event -> Timer \cup {Merged, NoTimer}]
    BY <1>1, <1>2, <2>1, <2>3, <2>4, ScheduledFacts
  <2>6. TypeOK'
    BY <1>1, <2>1, <2>3, <2>5 DEF IInv, TypeOK
  <2>7. QueueInv'
    <3>1. NoEvent \notin Queued'
      BY <1>1, <1>2, <2>5 DEF Queued, Elems
    <3> QED  BY <1>1, <2>5, <3>1 DEF QueueInv
  <2>8. TimesInv'
    <3> SUFFICES ASSUME NEW u \in Timer, NEW d \in Elems(lists[u])
                 PROVE  MinusInfinity < at'[d].time
      BY <1>1 DEF TimesInv
    <3>1. MinusInfinity < at[d].time /\ d \in Event
      BY <1>2 DEF IInv, TimesInv
    <3>2. CASE d = current
      <4>1. at[current].time \in Int /\ x.time \in Int
        BY <1>2, <2>2 DEF Attr
      <4> QED  BY <2>2, <2>3, <3>1, <3>2, <4>1
    <3>3. CASE d # current
      BY <2>3, <3>1, <3>3
    <3> QED  BY <3>2, <3>3
  <2>9. LoopInv'
    BY <1>1, <2>1, <2>5 DEF IInv, LoopInv
  <2> QED  BY <1>1, <2>6, <2>7, <2>8, <2>9 DEF IInv, ListsInv, MergeInv, PendingExplained
<1> QED  BY <1>3, <1>4

(* The Event that is first goes before all that wait. *)
LEMMA HeadGoesFirst ==
    ASSUME IInv, queue # <<>>, NEW e \in Queued
    PROVE  /\ Head(queue) \in Event /\ e \in Event
           /\ GoesFirst(at[Head(queue)], at[e])
           /\ e # Head(queue) => Precedes(at, earlier, Head(queue), e)
<1>1. queue \in Seq(Event) /\ at \in [Event -> Attr] /\ Sorted(queue, at) /\ Fifo(queue, at, earlier)
  BY DEF IInv, TypeOK, QueueInv
<1>2. /\ Head(queue) = queue[1] /\ Len(queue) >= 1 /\ Len(queue) \in Nat
      /\ DOMAIN queue = 1 .. Len(queue) /\ \A i \in DOMAIN queue : queue[i] \in Event
  BY <1>1, LenProperties
<1>3. PICK i \in DOMAIN queue : e = queue[i]
  BY DEF Queued, Elems
<1>4. CASE i = 1
  BY <1>1, <1>2, <1>3, <1>4 DEF GoesFirst, Attr
<1>5. CASE i # 1
  <2>1. 1 \in DOMAIN queue /\ 1 < i
    BY <1>2, <1>3, <1>5
  <2>2. GoesFirst(at[queue[1]], at[queue[i]])
    BY <1>1, <1>3, <2>1 DEF Sorted
  <2>3. GoesFirst(at[queue[i]], at[queue[1]]) => <<queue[1], queue[i]>> \in earlier
    BY <1>1, <1>3, <2>1 DEF Fifo
  <2> QED  BY <1>2, <1>3, <2>2, <2>3 DEF Precedes
<1> QED  BY <1>4, <1>5

LEMMA RunReturnInv ==
    ASSUME IInv, RunReturn
    PROVE  IInv'
<1> USE EnvironmentAssumption
<1>1. /\ mode = "loop" /\ mode' = "idle" /\ queue' = <<>>
      /\ queue # <<>> => ~Due(Head(queue))
      /\ now' = IF queue = <<>> THEN now ELSE finalTime
      /\ clock' = [t \in Timer |-> finalTime]
      /\ earlier' = {}
      /\ UNCHANGED <<lists, at, parent, ti, k, current, finalTime, over, late, cleared, calls>>
  BY DEF RunReturn
<1>2. <<>> \in Seq(Event) /\ DOMAIN <<>> = {} /\ Elems(<<>>) = {}
  BY DEF Elems
<1>3. current \notin Event /\ finalTime \in Int /\ at \in [Event -> Attr]
  BY <1>1 DEF IInv, TypeOK
<1>4. TypeOK'
  BY <1>1, <1>2, <1>3 DEF IInv, TypeOK
<1>5. QueueInv'
  BY <1>1, <1>2 DEF QueueInv, Queued, Distinct, Sorted, Fifo
<1>6. PendingExplained'
  <2> SUFFICES ASSUME NEW u \in Timer, NEW d \in Elems(lists[u]), at[d].time <= finalTime
               PROVE  d \in over \cup late \cup cleared
    BY <1>1 DEF PendingExplained
  <2>1. d \in over \cup late \cup cleared \cup Queued /\ d \in Event
    <3>1. d \in Event
      BY DEF IInv, TypeOK, Elems
    <3>2. d \in over \cup late \cup cleared \cup Queued \cup {current}
      BY <1>1 DEF IInv, LoopInv
    <3> QED  BY <1>3, <3>1, <3>2
  <2>2. d \notin Queued
    <3> SUFFICES ASSUME d \in Queued PROVE FALSE
      OBVIOUS
    <3>1. queue # <<>>
      BY <1>2 DEF Queued
    <3>2. Head(queue) \in Event /\ GoesFirst(at[Head(queue)], at[d])
      BY <3>1, HeadGoesFirst
    <3>3. at[Head(queue)] \in Attr /\ at[d] \in Attr
      BY <1>3, <2>1, <3>2
    <3>4. ~(at[Head(queue)].time <= finalTime)
      BY <1>1, <3>1 DEF Due
    <3> QED  BY <1>3, <3>2, <3>3, <3>4 DEF GoesFirst, Attr
  <2> QED  BY <2>1, <2>2
<1> QED  BY <1>1, <1>4, <1>5, <1>6 DEF IInv, ListsInv, TimesInv, MergeInv, LoopInv

----------------------------------------------------------------------------
LEMMA NextInv == IInv /\ [Next]_vars => IInv'
<1> SUFFICES ASSUME IInv, [Next]_vars PROVE IInv'
  OBVIOUS
<1>1. ASSUME NEW t \in Timer, Clear(t) \/ Reset(t) \/ \E e \in Event : Add(t, e) PROVE IInv'
  BY <1>1, ClearInv, ResetInv, AddInv
<1>2. CASE Config
  BY <1>2, ConfigInv
<1>3. ASSUME NEW f \in Final, Run(f) PROVE IInv'
  BY <1>3, RunInv
<1>6. ASSUME (\E e \in Event : AddToRun(e)) \/ ClearRun \/ ResetRun PROVE IInv'
  BY <1>6, AddToRunInv, ClearRunInv, ResetRunInv
<1>4. CASE InRun
  BY <1>4, MergeStepInv, MergeDoneInv, RunNextInv, RunReturnInv, ActionReturnInv DEF InRun
<1>5. CASE UNCHANGED vars
  <2>1. /\ UNCHANGED <<lists, clock, at, parent, mode, ti, k, queue, now, current>>
        /\ UNCHANGED <<finalTime, earlier, over, late, cleared, calls>>
    BY <1>5 DEF vars, run
  <2>2. TypeOK' /\ ListsInv' /\ TimesInv' /\ PendingExplained'
    BY <2>1 DEF IInv, TypeOK, ListsInv, TimesInv, PendingExplained
  <2>3. QueueInv' /\ MergeInv' /\ LoopInv'
    BY <2>1 DEF IInv, QueueInv, MergeInv, LoopInv, Queued, Walked, Passed
  <2> QED  BY <2>2, <2>3 DEF IInv
<1> QED  BY <1>1, <1>2, <1>3, <1>4, <1>5, <1>6 DEF Next

LEMMA Invariance == Spec => []IInv
  BY InitInv, NextInv, PTL DEF Spec

(* The variables of a run have their types (Environment.lua:375-407). *)
THEOREM TypeCorrect == Spec => []TypeOK
  BY Invariance, PTL DEF IInv

(* After a run no Event waits for a time that the clock of its Timer has   *)
(* reached, unless it is over, came too late or was cleared by an action   *)
(* that emptied the Timer of the run (Environment.lua:402, Timer.lua:69).  *)
THEOREM PendingHasReason == Spec => []PendingExplained
  BY Invariance, PTL DEF IInv

(* The Events of all Timers are executed by time, then by priority, and    *)
(* those that are equal in the order in which the run got them.            *)
(* (Environment.lua:375-400, Timer.lua:43-58, 257-292)                     *)
THEOREM ExecutesInOrder == Spec => ExecutionOrder
<1>1. ASSUME IInv, Next, mode = "loop", mode' = "action", NEW e \in Queued \ {current'}
      PROVE  Precedes(at, earlier, current', e)
  <2>1. RunNext
    BY <1>1 DEF Next, InRun, Add, Clear, Reset, Config, AddToRun, ClearRun, ResetRun, Run, MayCall,
                Merge, MergeDone, ActionReturn, RunReturn
  <2> QED  BY <1>1, <2>1, HeadGoesFirst DEF RunNext
<1>2. IInv /\ [Next]_vars =>
          [(mode = "loop" /\ mode' = "action")
               => \A e \in Queued \ {current'} : Precedes(at, earlier, current', e)]_vars
  BY <1>1
<1> QED  BY <1>2, Invariance, PTL DEF Spec, ExecutionOrder
=============================================================================
