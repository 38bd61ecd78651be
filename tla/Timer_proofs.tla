---------------------------- MODULE Timer_proofs ----------------------------
(***************************************************************************)
(* What a Timer guarantees for every set of Events, times, priorities and  *)
(* periods, and whatever the actions call.                                 *)
(***************************************************************************)
EXTENDS Timer, EventQueue_proofs

(* No time is smaller than the clock of a Timer that was not run, and a    *)
(* run whose final time had not passed goes forward to it.                 *)
Bounds ==
    /\ \A e \in Event : MinusInfinity <= at[e].time
    /\ mode # "idle" => MinusInfinity <= finalTime
    /\ (mode # "idle" /\ "run" \notin warned) => time <= finalTime

(* The inductive invariant. *)
IInv ==
    /\ TypeOK
    /\ Bounds
    /\ ScheduledOnce
    /\ QueueOrdered
    /\ (~outside => Fifo(events, at, earlier))
    /\ NothingPending

LEMMA InitInv == Init => IInv
  <1>1. SUFFICES ASSUME Init PROVE IInv
    OBVIOUS
  <1>2. Queued = {} /\ DOMAIN events = {}
    BY <1>1 DEF Init, Queued, Elems
  <1>3. TypeOK
    <2>1. at \in [Event -> Attr]
      BY <1>1, TimerAssumption DEF Init, Attr
    <2>2. events \in Seq(Event) /\ earlier \subseteq Event \X Event
      BY <1>1 DEF Init
    <2>3. outside \in BOOLEAN /\ parented \subseteq Event /\ warned \subseteq {"add", "run"}
      BY <1>1 DEF Init
    <2>4. time \in Int /\ finalTime \in Int /\ calls \in Nat
      BY <1>1, TimerAssumption DEF Init
    <2>5. /\ mode \in {"idle", "loop", "action"} /\ current \in Event \cup {NoEvent}
          /\ mode = "action" <=> current \in Event
      BY <1>1, TimerAssumption DEF Init
    <2>6. QED
      BY <2>1, <2>2, <2>3, <2>4, <2>5 DEF TypeOK
  <1>4. Bounds
    BY <1>1, TimerAssumption DEF Init, Bounds
  <1>5. ScheduledOnce /\ QueueOrdered /\ Fifo(events, at, earlier) /\ NothingPending
    BY <1>1, <1>2, TimerAssumption
       DEF Init, ScheduledOnce, QueueOrdered, Sorted, Fifo, NothingPending
  <1>6. QED
    BY <1>3, <1>4, <1>5 DEF IInv

----------------------------------------------------------------------------
(* Scheduling an event that does not wait keeps the queue in order, and    *)
(* warns when nothing else would tell that its time has passed.            *)
LEMMA ScheduleInv ==
    ASSUME IInv, NEW e \in Event, e \notin Queued, NEW attr \in Attr,
           MinusInfinity <= attr.time, Schedule(e, attr)
    PROVE  /\ events' \in Seq(Event) /\ Queued' = Queued \cup {e}
           /\ at' \in [Event -> Attr] /\ \A d \in Event : MinusInfinity <= at'[d].time
           /\ parented' = parented \cup {e}
           /\ warned' \subseteq {"add", "run"} /\ warned \subseteq warned'
           /\ "run" \in warned' => "run" \in warned
           /\ earlier' \subseteq Event \X Event
           /\ Distinct(events')
           /\ ~outside => Sorted(events', at') /\ Fifo(events', at', earlier')
           /\ (~outside /\ "add" \notin warned') => \A d \in Queued' : at'[d].time >= time
  <1>1. /\ events \in Seq(Event) /\ at \in [Event -> Attr] /\ time \in Int
        /\ warned \subseteq {"add", "run"} /\ earlier \subseteq Event \X Event
        /\ Distinct(events)
    BY DEF IInv, TypeOK, ScheduledOnce, Distinct
  <1>2. /\ at' = [at EXCEPT ![e] = attr] /\ at' \in [Event -> Attr]
        /\ events' = Insert(events, at', e)
        /\ parented' = parented \cup {e}
        /\ warned' = IF Passed(attr.time) THEN warned \cup {"add"} ELSE warned
        /\ earlier' = earlier \cup {<<d, e>> : d \in Queued}
    BY <1>1 DEF Schedule
  <1>3. \A d \in Queued : d \in Event /\ at'[d] = at[d]
    BY <1>1, <1>2 DEF Queued, Elems
  <1>4. events' \in Seq(Event) /\ Queued' = Queued \cup {e}
    BY <1>1, <1>2, InsertFacts DEF Queued
  <1>5. \A d \in Event : MinusInfinity <= at'[d].time
    BY <1>1, <1>2 DEF IInv, Bounds
  <1>6. earlier' \subseteq Event \X Event
    BY <1>1, <1>2, <1>3
  <1>7. Distinct(events')
    BY <1>1, <1>2, InsertDistinct DEF Queued
  <1>8. ASSUME ~outside
        PROVE  Sorted(events', at') /\ Fifo(events', at', earlier')
    <2>1. Sorted(events, at) /\ Fifo(events, at, earlier)
      BY <1>8 DEF IInv, QueueOrdered
    <2>2. Sorted(events, at') /\ Fifo(events, at', earlier)
      BY <1>1, <1>3, <2>1, OrderKept DEF Queued
    <2>3. Sorted(Insert(events, at', e), at')
      BY <1>1, <1>2, <2>2, InsertSorted
    <2>4. Fifo(Insert(events, at', e), at', earlier \cup Behind(events, e))
      BY <1>1, <1>2, <2>2, InsertFifo
    <2>5. QED
      BY <1>2, <2>3, <2>4 DEF Queued, Behind
  <1>9. ASSUME ~outside, "add" \notin warned'
        PROVE  \A d \in Queued' : at'[d].time >= time
    <2>1. ~(attr.time < time) /\ "add" \notin warned
      BY <1>2, <1>9 DEF Passed
    <2>2. at'[e].time >= time
      BY <1>1, <1>2, <2>1 DEF Attr
    <2>3. QED
      BY <1>3, <1>4, <1>9, <2>1, <2>2 DEF IInv, NothingPending
  <1>10. QED
    BY <1>1, <1>2, <1>4, <1>5, <1>6, <1>7, <1>8, <1>9

----------------------------------------------------------------------------
(* The calls of a model. *)

LEMMA AddInv ==
    ASSUME IInv, NEW e \in Event, Add(e)
    PROVE  IInv'
  <1>1. PICK t \in Start, r \in Priority, p \in ValidPeriod :
             Schedule(e, [time |-> t, priority |-> r, period |-> p])
    BY DEF Add
  <1>2. /\ [time |-> t, priority |-> r, period |-> p] \in Attr
        /\ MinusInfinity <= t
    BY <1>1, TimerAssumption DEF Attr, ValidPeriod
  <1>3. /\ e \notin Queued /\ e # current /\ calls' = calls + 1
        /\ UNCHANGED <<time, mode, current, finalTime, outside>>
    BY DEF Add, Call
  <1> DEFINE attr == [time |-> t, priority |-> r, period |-> p]
  <1>4. /\ events' \in Seq(Event) /\ Queued' = Queued \cup {e}
        /\ at' \in [Event -> Attr] /\ \A d \in Event : MinusInfinity <= at'[d].time
        /\ parented' = parented \cup {e}
        /\ warned' \subseteq {"add", "run"} /\ warned \subseteq warned'
        /\ "run" \in warned' => "run" \in warned
        /\ earlier' \subseteq Event \X Event
        /\ Distinct(events')
        /\ ~outside => Sorted(events', at') /\ Fifo(events', at', earlier')
        /\ (~outside /\ "add" \notin warned') => \A d \in Queued' : at'[d].time >= time
    <2>1. attr \in Attr /\ MinusInfinity <= attr.time /\ Schedule(e, attr)
      BY <1>1, <1>2
    <2> HIDE DEF attr
    <2>2. QED
      BY <1>3, <2>1, ScheduleInv
  <1>5. TypeOK'
    BY <1>3, <1>4 DEF IInv, TypeOK
  <1>6. Bounds'
    BY <1>3, <1>4 DEF IInv, Bounds
  <1>7. ScheduledOnce'
    BY <1>3, <1>4 DEF IInv, ScheduledOnce, Distinct
  <1>8. (QueueOrdered /\ NothingPending)' /\ (~outside' => Fifo(events', at', earlier'))
    BY <1>3, <1>4 DEF QueueOrdered, NothingPending
  <1>9. QED
    BY <1>5, <1>6, <1>7, <1>8 DEF IInv

LEMMA ClearInv ==
    ASSUME IInv, Clear
    PROVE  IInv'
  <1>1. /\ events' = <<>> /\ earlier' = {} /\ calls' = calls + 1
        /\ UNCHANGED <<time, at, parented, mode, current, finalTime, warned, outside>>
    BY DEF Clear, Call
  <1>2. Queued' = {} /\ DOMAIN events' = {} /\ events' \in Seq(Event)
    BY <1>1 DEF Queued, Elems
  <1>3. TypeOK' /\ Bounds'
    BY <1>1, <1>2 DEF IInv, TypeOK, Bounds
  <1>4. (ScheduledOnce /\ QueueOrdered /\ NothingPending)' /\ Fifo(events', at', earlier')
    BY <1>1, <1>2 DEF IInv, ScheduledOnce, QueueOrdered, NothingPending, Sorted, Fifo
  <1>5. QED
    BY <1>3, <1>4 DEF IInv

LEMMA ResetInv ==
    ASSUME IInv, Reset
    PROVE  IInv'
  <1>1. /\ time' = MinusInfinity /\ calls' = calls + 1
        /\ UNCHANGED <<events, at, parented, mode, current, finalTime, warned, outside, earlier>>
    BY DEF Reset, Call
  <1>2. Queued' = Queued /\ Queued \subseteq Event
    BY <1>1 DEF IInv, TypeOK, Queued, Elems
  <1>3. TypeOK' /\ Bounds'
    BY <1>1, TimerAssumption DEF IInv, TypeOK, Bounds
  <1>4. ScheduledOnce'
    BY <1>1, <1>2 DEF IInv, ScheduledOnce
  <1>5. QueueOrdered' /\ (~outside' => Fifo(events', at', earlier'))
    BY <1>1 DEF IInv, QueueOrdered
  <1>6. NothingPending'
    BY <1>1, <1>2, TimerAssumption DEF IInv, NothingPending, Bounds, TypeOK, Attr
  <1>7. QED
    BY <1>3, <1>4, <1>5, <1>6 DEF IInv

LEMMA ConfigInv ==
    ASSUME IInv, NEW e \in Event, Config(e)
    PROVE  IInv'
  <1>1. /\ calls' = calls + 1 /\ e \in Queued \cup {current}
        /\ outside' = (outside \/ e # current)
        /\ UNCHANGED <<events, time, parented, mode, current, finalTime, warned, earlier>>
    BY DEF Config, Call
  <1>2. at \in [Event -> Attr] /\ events \in Seq(Event) /\ outside \in BOOLEAN
    BY DEF IInv, TypeOK
  <1>3. PICK x \in Attr : at' = [at EXCEPT ![e] = x] /\ MinusInfinity <= x.time
    <2>1. at[e] \in Attr /\ MinusInfinity <= at[e].time
      BY <1>2 DEF IInv, Bounds
    <2>2. CASE \E t \in Start : at' = [at EXCEPT ![e].time = t]
      <3>1. PICK t \in Start : at' = [at EXCEPT ![e].time = t]
        BY <2>2
      <3>2. /\ [at[e] EXCEPT !.time = t] \in Attr /\ MinusInfinity <= t
            /\ [at[e] EXCEPT !.time = t].time = t
        BY <2>1, TimerAssumption DEF Attr
      <3>3. QED
        BY <1>2, <3>1, <3>2
    <2>3. CASE \E r \in Priority : at' = [at EXCEPT ![e].priority = r]
      <3>1. PICK r \in Priority : at' = [at EXCEPT ![e].priority = r]
        BY <2>3
      <3>2. /\ [at[e] EXCEPT !.priority = r] \in Attr
            /\ [at[e] EXCEPT !.priority = r].time = at[e].time
        BY <2>1, TimerAssumption DEF Attr
      <3>3. QED
        BY <1>2, <2>1, <3>1, <3>2
    <2>4. CASE \E p \in ValidPeriod : at' = [at EXCEPT ![e].period = p]
      <3>1. PICK p \in ValidPeriod : at' = [at EXCEPT ![e].period = p]
        BY <2>4
      <3>2. /\ [at[e] EXCEPT !.period = p] \in Attr
            /\ [at[e] EXCEPT !.period = p].time = at[e].time
        BY <2>1, TimerAssumption DEF Attr, ValidPeriod
      <3>3. QED
        BY <1>2, <2>1, <3>1, <3>2
    <2>5. QED
      BY <2>2, <2>3, <2>4 DEF Config
  <1>4. at' \in [Event -> Attr] /\ \A d \in Event : MinusInfinity <= at'[d].time
    BY <1>2, <1>3 DEF IInv, Bounds
  <1>5. Queued' = Queued
    BY <1>1 DEF Queued
  <1>6. ~outside' => ~outside /\ \A d \in Elems(events) : at[d] = at'[d]
    <2>1. SUFFICES ASSUME ~outside' PROVE ~outside /\ \A d \in Elems(events) : at[d] = at'[d]
      OBVIOUS
    <2>2. ~outside /\ e = current /\ e \notin Queued
      BY <1>1, <2>1 DEF IInv, ScheduledOnce
    <2>3. Elems(events) \subseteq Event
      BY <1>2 DEF Elems
    <2>4. QED
      BY <1>2, <1>3, <2>2, <2>3 DEF Queued
  <1>7. TypeOK'
    <2>1. outside' \in BOOLEAN
      BY <1>1, <1>2
    <2>2. QED
      BY <1>1, <1>4, <2>1 DEF IInv, TypeOK
  <1>8. Bounds'
    BY <1>1, <1>4 DEF IInv, Bounds
  <1>9. ScheduledOnce'
    BY <1>1, <1>5 DEF IInv, ScheduledOnce
  <1>10. QueueOrdered' /\ (~outside' => Fifo(events', at', earlier'))
    BY <1>1, <1>2, <1>6, OrderKept DEF IInv, QueueOrdered
  <1>11. NothingPending'
    BY <1>1, <1>5, <1>6 DEF IInv, NothingPending, Queued
  <1>12. QED
    BY <1>7, <1>8, <1>9, <1>10, <1>11 DEF IInv

----------------------------------------------------------------------------
(* The steps of a run. *)

LEMMA RunInv ==
    ASSUME IInv, NEW f \in Final, Run(f)
    PROVE  IInv'
  <1>1. /\ mode = "idle" /\ mode' = "loop" /\ finalTime' = f /\ calls' = calls + 1
        /\ warned' = IF f < time THEN warned \cup {"run"} ELSE warned
        /\ UNCHANGED <<events, time, at, parented, current, outside, earlier>>
    BY DEF Run, Call
  <1>2. f \in Int /\ MinusInfinity < f /\ time \in Int /\ MinusInfinity \in Int
    BY TimerAssumption DEF IInv, TypeOK
  <1>3. warned' \subseteq {"add", "run"} /\ ("add" \in warned <=> "add" \in warned')
    BY <1>1 DEF IInv, TypeOK
  <1>4. TypeOK'
    BY <1>1, <1>2, <1>3 DEF IInv, TypeOK
  <1>5. Bounds'
    BY <1>1, <1>2 DEF IInv, Bounds
  <1>6. (ScheduledOnce /\ QueueOrdered)' /\ (~outside' => Fifo(events', at', earlier'))
    BY <1>1 DEF IInv, ScheduledOnce, QueueOrdered, Queued
  <1>7. NothingPending'
    BY <1>1, <1>3 DEF IInv, NothingPending, Queued
  <1>8. QED
    BY <1>4, <1>5, <1>6, <1>7 DEF IInv

(* When the first event is due after the final time, so are the others. *)
LEMMA NothingDue ==
    ASSUME IInv, ~outside, events # <<>>, ~Due(Head(events))
    PROVE  \A e \in Queued : at[e].time > finalTime
  <1>1. /\ events \in Seq(Event) /\ Sorted(events, at) /\ finalTime \in Int
        /\ at \in [Event -> Attr]
    BY DEF IInv, TypeOK, QueueOrdered
  <1>2. /\ Head(events) = events[1] /\ Len(events) >= 1 /\ Len(events) \in Nat
        /\ DOMAIN events = 1 .. Len(events) /\ \A i \in 1 .. Len(events) : events[i] \in Event
    BY <1>1
  <1>3. at[events[1]].time > finalTime
    BY <1>1, <1>2 DEF Due, Attr
  <1>4. SUFFICES ASSUME NEW i \in 1 .. Len(events)
                 PROVE  at[events[i]].time > finalTime
    BY <1>2 DEF Queued, Elems
  <1>5. i = 1 \/ GoesFirst(at[events[1]], at[events[i]])
    <2>1. 1 \in DOMAIN events /\ i \in DOMAIN events /\ (i = 1 \/ 1 < i)
      BY <1>2
    <2>2. \A j, k \in DOMAIN events : j < k => GoesFirst(at[events[j]], at[events[k]])
      BY <1>1 DEF Sorted
    <2>3. QED
      BY <2>1, <2>2
  <1>6. at[events[1]] \in Attr /\ at[events[i]] \in Attr
    BY <1>1, <1>2
  <1>7. QED
    BY <1>1, <1>3, <1>5, <1>6 DEF GoesFirst, Attr

LEMMA RunEmptyInv ==
    ASSUME IInv, RunEmpty
    PROVE  IInv'
  <1>1. /\ mode = "loop" /\ mode' = "idle"
        /\ UNCHANGED <<events, time, at, parented, current, finalTime, warned, outside, earlier, calls>>
    BY DEF RunEmpty
  <1>2. Queued' = Queued
    BY <1>1 DEF Queued
  <1>3. TypeOK' /\ Bounds'
    BY <1>1 DEF IInv, TypeOK, Bounds
  <1>4. ScheduledOnce' /\ QueueOrdered' /\ NothingPending' /\ (~outside' => Fifo(events', at', earlier'))
    BY <1>1, <1>2 DEF IInv, ScheduledOnce, QueueOrdered, NothingPending
  <1>5. QED
    BY <1>3, <1>4 DEF IInv

LEMMA RunStopInv ==
    ASSUME IInv, RunStop
    PROVE  IInv'
  <1>1. /\ mode = "loop" /\ mode' = "idle" /\ time' = finalTime
        /\ UNCHANGED <<events, at, parented, current, finalTime, warned, outside, earlier, calls>>
    BY DEF RunStop
  <1>2. Queued' = Queued /\ Queued \subseteq Event
    BY <1>1 DEF IInv, TypeOK, Queued, Elems
  <1>3. TypeOK' /\ Bounds'
    BY <1>1 DEF IInv, TypeOK, Bounds
  <1>4. ScheduledOnce' /\ QueueOrdered' /\ (~outside' => Fifo(events', at', earlier'))
    BY <1>1, <1>2 DEF IInv, ScheduledOnce, QueueOrdered
  <1>5. ~outside => \A e \in Queued : at[e].time > finalTime
    BY NothingDue DEF RunStop
  <1>6. at \in [Event -> Attr] /\ finalTime \in Int
    BY DEF IInv, TypeOK
  <1>7. NothingPending'
    BY <1>1, <1>2, <1>5, <1>6 DEF NothingPending, Attr
  <1>8. QED
    BY <1>3, <1>4, <1>7 DEF IInv

(* The first event goes before all the others. *)
LEMMA HeadPrecedes ==
    ASSUME IInv, ~outside, events # <<>>
    PROVE  \A e \in Elems(Tail(events)) : Precedes(at, earlier, Head(events), e)
  <1>1. events \in Seq(Event) /\ Sorted(events, at) /\ Fifo(events, at, earlier)
    BY DEF IInv, TypeOK, QueueOrdered
  <1>2. /\ Head(events) = events[1]
        /\ DOMAIN Tail(events) = 1 .. Len(events) - 1 /\ Len(events) \in Nat /\ Len(events) >= 1
        /\ \A i \in 1 .. Len(events) - 1 : Tail(events)[i] = events[i + 1]
    BY <1>1, TailOfQueue
  <1>3. SUFFICES ASSUME NEW i \in 1 .. Len(events) - 1
                 PROVE  Precedes(at, earlier, events[1], events[i + 1])
    BY <1>2 DEF Elems
  <1>4. 1 \in DOMAIN events /\ i + 1 \in DOMAIN events /\ 1 < i + 1
    BY <1>1, <1>2
  <1>5. GoesFirst(at[events[1]], at[events[i + 1]])
    BY <1>1, <1>4 DEF Sorted
  <1>6. GoesFirst(at[events[i + 1]], at[events[1]]) => <<events[1], events[i + 1]>> \in earlier
    BY <1>1, <1>4 DEF Fifo
  <1>7. QED
    BY <1>5, <1>6 DEF Precedes

LEMMA RunNextInv ==
    ASSUME IInv, RunNext
    PROVE  IInv'
  <1> DEFINE h == Head(events)
  <1>1. /\ mode = "loop" /\ mode' = "action" /\ events # <<>> /\ Due(h)
        /\ time' = at[h].time /\ current' = h /\ events' = Tail(events)
        /\ earlier' = {x \in earlier : x[1] # h}
        /\ UNCHANGED <<at, parented, finalTime, warned, outside, calls>>
    BY DEF RunNext, HeadRemoved
  <1>2. /\ events \in Seq(Event) /\ at \in [Event -> Attr] /\ Distinct(events)
        /\ earlier \subseteq Event \X Event
    BY DEF IInv, TypeOK, ScheduledOnce, Distinct
  <1>3. /\ h \in Event /\ h = events[1] /\ Tail(events) \in Seq(Event)
        /\ DOMAIN Tail(events) = 1 .. Len(events) - 1 /\ Len(events) \in Nat /\ Len(events) >= 1
        /\ \A i \in 1 .. Len(events) - 1 : Tail(events)[i] = events[i + 1]
        /\ Elems(events) = {h} \cup Elems(Tail(events))
        /\ Distinct(Tail(events)) /\ h \notin Elems(Tail(events))
    BY <1>1, <1>2, TailOfQueue
  <1> HIDE DEF h
  <1>4. Queued' = Elems(Tail(events)) /\ Queued = {h} \cup Queued' /\ h \notin Queued'
    BY <1>1, <1>3 DEF Queued
  <1>5. at[h] \in Attr /\ at[h].time \in Int /\ MinusInfinity <= at[h].time /\ at[h].time <= finalTime
    BY <1>1, <1>2, <1>3 DEF Attr, Due, IInv, Bounds
  <1>6. TypeOK'
    <2>1. earlier' \subseteq Event \X Event
      BY <1>1, <1>2
    <2>2. time' \in Int /\ events' \in Seq(Event) /\ current' \in Event
      BY <1>1, <1>3, <1>5
    <2>3. QED
      BY <1>1, <2>1, <2>2 DEF IInv, TypeOK
  <1>7. Bounds'
    BY <1>1, <1>5 DEF IInv, Bounds
  <1>8. ScheduledOnce'
    <2>1. Distinct(events') /\ current' \notin Queued'
      BY <1>1, <1>3, <1>4
    <2>2. Queued' \subseteq parented' /\ current' \in parented'
      BY <1>1, <1>4 DEF IInv, ScheduledOnce
    <2>3. QED
      BY <2>1, <2>2 DEF ScheduledOnce, Distinct
  <1>9. ASSUME ~outside
        PROVE  Sorted(Tail(events), at) /\ Fifo(Tail(events), at, earlier')
    <2>1. Sorted(events, at) /\ Fifo(events, at, earlier)
      BY <1>9 DEF IInv, QueueOrdered
    <2>2. \A i, j \in 1 .. Len(events) - 1 :
             i < j => i + 1 \in DOMAIN events /\ j + 1 \in DOMAIN events /\ i + 1 < j + 1
      BY <1>2, <1>3
    <2>3. Sorted(Tail(events), at)
      <3>1. SUFFICES ASSUME NEW i \in 1 .. Len(events) - 1, NEW j \in 1 .. Len(events) - 1, i < j
                     PROVE  GoesFirst(at[Tail(events)[i]], at[Tail(events)[j]])
        BY <1>3 DEF Sorted
      <3>2. GoesFirst(at[events[i + 1]], at[events[j + 1]])
        BY <2>1, <2>2, <3>1 DEF Sorted
      <3>3. QED
        BY <1>3, <3>2
    <2>4. ASSUME NEW i \in 1 .. Len(events) - 1, NEW j \in 1 .. Len(events) - 1, i < j,
                 GoesFirst(at[Tail(events)[j]], at[Tail(events)[i]])
          PROVE  <<Tail(events)[i], Tail(events)[j]>> \in earlier'
      <3>1. GoesFirst(at[events[j + 1]], at[events[i + 1]])
        BY <1>3, <2>4
      <3>2. <<Tail(events)[i], Tail(events)[j]>> \in earlier
        BY <1>3, <2>1, <2>2, <2>4, <3>1 DEF Fifo
      <3>3. Tail(events)[i] # h
        BY <1>3 DEF Elems
      <3>4. QED
        BY <1>1, <3>2, <3>3
    <2>5. QED
      BY <1>3, <2>3, <2>4 DEF Fifo
  <1>10. QueueOrdered' /\ (~outside' => Fifo(events', at', earlier'))
    BY <1>1, <1>9 DEF QueueOrdered
  <1>11. NothingPending'
    <2>1. SUFFICES ASSUME ~outside, NEW e \in Queued'
                   PROVE  at[e].time >= at[h].time
      BY <1>1 DEF NothingPending
    <2>2. Precedes(at, earlier, h, e)
      BY <1>1, <1>4, <2>1, HeadPrecedes DEF h
    <2>3. e \in Event /\ at[e] \in Attr
      BY <1>2, <1>3, <1>4, <2>1 DEF Elems
    <2>4. QED
      BY <1>5, <2>2, <2>3 DEF Precedes, GoesFirst, Attr
  <1>12. QED
    BY <1>6, <1>7, <1>8, <1>10, <1>11 DEF IInv

LEMMA ActionReturnInv ==
    ASSUME IInv, NEW result \in BOOLEAN, ActionReturn(result)
    PROVE  IInv'
  <1>1. /\ mode = "action" /\ mode' = "loop" /\ current' = NoEvent
        /\ UNCHANGED <<time, finalTime, outside, calls>>
    BY DEF ActionReturn
  <1>2. /\ current \in Event /\ current \notin Queued /\ NoEvent \notin Event
        /\ events \in Seq(Event) /\ at \in [Event -> Attr] /\ Queued \subseteq Event
    BY <1>1, TimerAssumption DEF IInv, TypeOK, ScheduledOnce, Queued, Elems
  <1>3. CASE Over(result)
    <2>1. parented' = parented \ {current} /\ UNCHANGED <<events, at, warned, earlier>>
      BY <1>3 DEF ActionReturn
    <2>2. Queued' = Queued
      BY <2>1 DEF Queued
    <2>3. TypeOK' /\ Bounds'
      BY <1>1, <1>2, <2>1 DEF IInv, TypeOK, Bounds
    <2>4. ScheduledOnce'
      BY <1>1, <1>2, <2>1, <2>2 DEF IInv, ScheduledOnce
    <2>5. QueueOrdered' /\ NothingPending' /\ (~outside' => Fifo(events', at', earlier'))
      BY <1>1, <2>1, <2>2 DEF IInv, QueueOrdered, NothingPending
    <2>6. QED
      BY <2>3, <2>4, <2>5 DEF IInv
  <1>4. CASE ~Over(result)
    <2> DEFINE attr == [at[current] EXCEPT !.time = @ + at[current].period]
    <2>1. Schedule(current, attr)
      BY <1>4 DEF ActionReturn
    <2>2. at[current] \in Attr /\ MinusInfinity <= at[current].time
      BY <1>2 DEF IInv, Bounds
    <2>3. attr \in Attr /\ MinusInfinity <= attr.time
      BY <2>2, TimerAssumption DEF Attr
    <2> HIDE DEF attr
    <2>4. /\ events' \in Seq(Event) /\ Queued' = Queued \cup {current}
          /\ at' \in [Event -> Attr] /\ \A d \in Event : MinusInfinity <= at'[d].time
          /\ parented' = parented \cup {current}
          /\ warned' \subseteq {"add", "run"} /\ warned \subseteq warned'
          /\ "run" \in warned' => "run" \in warned
          /\ earlier' \subseteq Event \X Event
          /\ Distinct(events')
          /\ ~outside => Sorted(events', at') /\ Fifo(events', at', earlier')
          /\ (~outside /\ "add" \notin warned') => \A d \in Queued' : at'[d].time >= time
      BY <1>2, <2>1, <2>3, ScheduleInv
    <2>5. TypeOK'
      BY <1>1, <1>2, <2>4 DEF IInv, TypeOK
    <2>6. Bounds'
      BY <1>1, <2>4 DEF IInv, Bounds
    <2>7. ScheduledOnce'
      BY <1>1, <1>2, <2>4 DEF IInv, ScheduledOnce, Distinct
    <2>8. (QueueOrdered /\ NothingPending)' /\ (~outside' => Fifo(events', at', earlier'))
      BY <1>1, <2>4 DEF QueueOrdered, NothingPending
    <2>9. QED
      BY <2>5, <2>6, <2>7, <2>8 DEF IInv
  <1>5. QED
    BY <1>3, <1>4

----------------------------------------------------------------------------
LEMMA NextInv == IInv /\ [Next]_vars => IInv'
  <1>1. SUFFICES ASSUME IInv, [Next]_vars PROVE IInv'
    OBVIOUS
  <1>2. CASE \E e \in Event : Add(e) \/ Config(e)
    BY <1>1, <1>2, AddInv, ConfigInv
  <1>3. CASE Clear \/ Reset
    BY <1>1, <1>3, ClearInv, ResetInv
  <1>4. CASE \E f \in Final : Run(f)
    BY <1>1, <1>4, RunInv
  <1>5. CASE Loop
    BY <1>1, <1>5, RunEmptyInv, RunStopInv, RunNextInv, ActionReturnInv DEF Loop
  <1>6. CASE UNCHANGED vars
    BY <1>1, <1>6
       DEF vars, IInv, TypeOK, Bounds, ScheduledOnce, QueueOrdered, NothingPending, Queued
  <1>7. QED
    BY <1>1, <1>2, <1>3, <1>4, <1>5, <1>6 DEF Next

LEMMA Invariance == Spec => []IInv
  BY InitInv, NextInv, PTL DEF Spec

(* The variables of the Timer always have their types. *)
THEOREM TypeCorrect == Spec => []TypeOK
  <1>1. IInv => TypeOK
    BY DEF IInv
  <1>2. QED
    BY <1>1, Invariance, PTL

(* Timer:add and Timer:run never have an event twice in the queue, nor an  *)
(* event that waits while its action is executed.                          *)
THEOREM SchedulesOnce == Spec => []ScheduledOnce
  <1>1. IInv => ScheduledOnce
    BY DEF IInv
  <1>2. QED
    BY <1>1, Invariance, PTL

(* The queue of Timer:add stays ordered unless config is misused. *)
THEOREM KeepsOrder == Spec => []QueueOrdered
  <1>1. IInv => QueueOrdered
    BY DEF IInv
  <1>2. QED
    BY <1>1, Invariance, PTL

(* When the clock shows a time, all the events before it were executed. *)
THEOREM NothingIsPending == Spec => []NothingPending
  <1>1. IInv => NothingPending
    BY DEF IInv
  <1>2. QED
    BY <1>1, Invariance, PTL

(* Timer:run executes the event that comes first by time, then priority,   *)
(* then the moment in which it was scheduled.                              *)
THEOREM ExecutesInOrder == Spec => ExecutionOrder
  <1>1. ASSUME IInv, Next, ~outside, mode = "loop", mode' = "action",
               NEW e \in Queued \ {current'}
        PROVE  Precedes(at, earlier, current', e)
    <2>1. RunNext
      BY <1>1 DEF Next, Add, Config, Clear, Reset, Run, Loop, RunEmpty, RunStop, ActionReturn,
                  MayCall
    <2>2. events # <<>> /\ current' = Head(events) /\ events \in Seq(Event)
      BY <1>1, <2>1 DEF RunNext, IInv, TypeOK
    <2>3. e \in Elems(Tail(events))
      BY <1>1, <2>2, TailOfQueue DEF Queued
    <2>4. QED
      BY <1>1, <2>2, <2>3, HeadPrecedes
  <1>2. IInv /\ [Next]_vars
        => [(~outside /\ mode = "loop" /\ mode' = "action")
              => \A e \in Queued \ {current'} : Precedes(at, earlier, current', e)]_vars
    BY <1>1
  <1>3. QED
    BY <1>2, Invariance, PTL DEF Spec, ExecutionOrder

(* Timer:run returns only when no event is due up to its final time. *)
THEOREM RunsExhaust == Spec => RunExhausts
  <1>1. ASSUME IInv, Next, ~outside, mode = "loop", mode' = "idle",
               NEW e \in Queued
        PROVE  at[e].time > finalTime
    <2>1. RunEmpty \/ RunStop
      BY <1>1 DEF Next, Add, Config, Clear, Reset, Run, Loop, RunNext, ActionReturn, MayCall
    <2>2. events # <<>>
      BY <1>1 DEF Queued, Elems
    <2>3. ~Due(Head(events))
      BY <2>1, <2>2 DEF RunEmpty, RunStop
    <2>4. QED
      BY <1>1, <2>2, <2>3, NothingDue
  <1>2. IInv /\ [Next]_vars
        => [(~outside /\ mode = "loop" /\ mode' = "idle")
              => \A e \in Queued : at[e].time > finalTime]_vars
    BY <1>1
  <1>3. QED
    BY <1>2, Invariance, PTL DEF Spec, RunExhausts

(* Without a warning only Timer:reset takes the clock back. *)
THEOREM ClockGoesForward == Spec => ClockForward
  <1>1. ASSUME IInv, Next, ~outside', warned' = {}, time' < time
        PROVE  time' = MinusInfinity
    <2>0. time \in Int /\ finalTime \in Int
      BY <1>1 DEF IInv, TypeOK
    <2>1. CASE \E e \in Event : Add(e) \/ Config(e)
      BY <1>1, <2>0, <2>1 DEF Add, Config
    <2>2. CASE Clear \/ Reset
      BY <1>1, <2>0, <2>2 DEF Clear, Reset
    <2>3. CASE \E f \in Final : Run(f)
      BY <1>1, <2>0, <2>3 DEF Run
    <2>4. CASE RunEmpty \/ \E result \in BOOLEAN : ActionReturn(result)
      BY <1>1, <2>0, <2>4 DEF RunEmpty, ActionReturn
    <2>5. CASE RunStop
      <3>1. mode # "idle" /\ warned = {} /\ time' = finalTime
        BY <1>1, <2>5 DEF RunStop
      <3>2. QED
        BY <1>1, <2>0, <3>1 DEF IInv, Bounds
    <2>6. CASE RunNext
      <3>1. /\ events # <<>> /\ warned = {} /\ ~outside /\ time' = at[Head(events)].time
            /\ events \in Seq(Event) /\ at \in [Event -> Attr]
        BY <1>1, <2>6 DEF RunNext, IInv, TypeOK
      <3>2. Head(events) \in Queued /\ Head(events) \in Event
        BY <3>1, TailOfQueue DEF Queued
      <3>3. at[Head(events)].time >= time
        BY <1>1, <3>1, <3>2 DEF IInv, NothingPending
      <3>4. at[Head(events)].time \in Int
        BY <3>1, <3>2 DEF Attr
      <3>5. QED
        BY <1>1, <2>0, <3>1, <3>3, <3>4
    <2>7. QED
      BY <1>1, <2>1, <2>2, <2>3, <2>4, <2>5, <2>6 DEF Next, Loop
  <1>2. IInv /\ [Next]_vars
        => [(~outside' /\ warned' = {} /\ time' < time) => time' = MinusInfinity]_vars
    BY <1>1
  <1>3. QED
    BY <1>2, Invariance, PTL DEF Spec, ClockForward
============================================================================
