------------------------------- MODULE Timer -------------------------------
(***************************************************************************)
(* The simulation clock of TerraME (Timer.lua, Event.lua): a Timer keeps   *)
(* its Events ordered, Timer:run executes them one after the other until a *)
(* final time, and the action of an Event may itself call the Timer and    *)
(* change the Event.                                                       *)
(*                                                                         *)
(* Times are integers; MinusInfinity is the clock of a Timer that was not  *)
(* run.  The calls that a model makes, between runs and inside actions,    *)
(* are bounded by MaxCalls.                                                *)
(***************************************************************************)
EXTENDS EventQueue, FiniteSets

CONSTANTS
    Event,          \* the Events of the model
    NoEvent,        \* no action is being executed
    Start,          \* the times that the model gives to Events
    Priority,       \* the priorities that it gives to them
    Period,         \* the periods that it asks for; false is 0
    Final,          \* the final times of its runs
    MinusInfinity,  \* -math.huge
    MaxCalls        \* bound: the calls that the model makes

ASSUME TimerAssumption ==
    /\ NoEvent \notin Event
    /\ MinusInfinity \in Int
    /\ Start \subseteq Int /\ \A t \in Start : MinusInfinity < t
    /\ Final \subseteq Int /\ \A t \in Final : MinusInfinity < t
    /\ Priority \subseteq Int
    /\ Period \subseteq Int
    /\ MaxCalls \in Nat

VARIABLES
    events,     \* self.events
    time,       \* self.time
    at,         \* time, priority and period of each Event
    parented,   \* the Events whose parent is this Timer
    mode,       \* "idle", in the "loop" of run, or in an "action"
    current,    \* ev, the Event whose action is being executed
    finalTime,  \* the argument of run
    warned,     \* history: the warnings that add and run have given
    outside,    \* history: config was called on an Event in the queue
    earlier,    \* history: <<d, e>> both queued, d scheduled before e
    calls       \* how many calls the model has made

vars == <<events, time, at, parented, mode, current, finalTime, warned,
          outside, earlier, calls>>

Queued == Elems(events)

Init ==
    /\ events = <<>>
    /\ time = MinusInfinity
    /\ at = [e \in Event |-> [time |-> MinusInfinity, priority |-> 0, period |-> 0]]
    /\ parented = {}
    /\ mode = "idle" /\ current = NoEvent /\ finalTime = MinusInfinity
    /\ warned = {} /\ outside = FALSE /\ earlier = {}
    /\ calls = 0

----------------------------------------------------------------------------
(* positiveTableArgument: Event and config refuse a negative period.       *)
AnyPeriod == Period                        \* mutant: the test is missing
ValidPeriod == {p \in Period : p >= 0}

(* The test for the warning of add. *)
NeverPassed(t) == FALSE                    \* mutant: the warning is missing
PassedByMore(t) == t + 1 < time            \* mutant: an off-by-one
Passed(t) == t < time

(* Timer:add of an event whose attributes are attr: it is inserted behind  *)
(* those that go first and gets this Timer as parent, with a warning when  *)
(* its time has passed.                                                    *)
Schedule(e, attr) ==
    /\ at' = [at EXCEPT ![e] = attr]
    /\ events' = Insert(events, at', e)
    /\ parented' = parented \cup {e}
    /\ warned' = IF Passed(attr.time) THEN warned \cup {"add"} ELSE warned
    /\ earlier' = earlier \cup {<<d, e>> : d \in Queued}

(* What a model calls: between two runs, or in the action of an event. *)
MayCall == mode \in {"idle", "action"} /\ calls < MaxCalls
Call    == calls' = calls + 1

(* timer:add(Event{...}), with a new Event *)
Add(e) ==
    /\ MayCall /\ Call
    /\ e \notin Queued /\ e # current
    /\ \E t \in Start, r \in Priority, p \in ValidPeriod :
          Schedule(e, [time |-> t, priority |-> r, period |-> p])
    /\ UNCHANGED <<time, mode, current, finalTime, outside>>

(* timer:clear().  The Events that are dropped keep their parent. *)
Clear ==
    /\ MayCall /\ Call
    /\ events' = <<>>
    /\ earlier' = {}
    /\ UNCHANGED <<time, at, parented, mode, current, finalTime, warned, outside>>

(* timer:reset() *)
Reset ==
    /\ MayCall /\ Call
    /\ time' = MinusInfinity
    /\ UNCHANGED <<events, at, parented, mode, current, finalTime, warned, outside, earlier>>

(* event:config{...}: the attributes change and the queue does not. *)
Config(e) ==
    /\ MayCall /\ Call
    /\ e \in Queued \cup {current} /\ e # NoEvent
    /\ \/ \E t \in Start       : at' = [at EXCEPT ![e].time = t]
       \/ \E r \in Priority    : at' = [at EXCEPT ![e].priority = r]
       \/ \E p \in ValidPeriod : at' = [at EXCEPT ![e].period = p]
    /\ outside' = (outside \/ e # current)
    /\ UNCHANGED <<events, time, parented, mode, current, finalTime, warned, earlier>>

----------------------------------------------------------------------------
(* Timer:run *)

Run(f) ==
    /\ mode = "idle" /\ MayCall /\ Call
    /\ mode' = "loop"
    /\ finalTime' = f
    /\ warned' = IF f < time THEN warned \cup {"run"} ELSE warned
    /\ UNCHANGED <<events, time, at, parented, current, outside, earlier>>

(* No event is left: the clock stays at the last one. *)
RunEmpty ==
    /\ mode = "loop" /\ events = <<>>
    /\ mode' = "idle"
    /\ UNCHANGED <<events, time, at, parented, current, finalTime, warned, outside, earlier, calls>>

(* The first event is due after the final time. *)
DueBefore(e) == at[e].time < finalTime     \* mutant: >= finalTime ends the run
Due(e) == at[e].time <= finalTime
RunStop ==
    /\ mode = "loop" /\ events # <<>> /\ ~Due(Head(events))
    /\ time' = finalTime
    /\ mode' = "idle"
    /\ UNCHANGED <<events, at, parented, current, finalTime, warned, outside, earlier, calls>>

HeadKept(q) == q                           \* mutant: table.remove is missing
HeadRemoved(q) == Tail(q)

(* The first event leaves the queue, the clock shows its time and its      *)
(* action begins.                                                          *)
RunNext ==
    /\ mode = "loop" /\ events # <<>> /\ Due(Head(events))
    /\ time' = at[Head(events)].time
    /\ current' = Head(events)
    /\ events' = HeadRemoved(events)
    /\ earlier' = {x \in earlier : x[1] # Head(events)}
    /\ mode' = "action"
    /\ UNCHANGED <<at, parented, finalTime, warned, outside, calls>>

(* The action returned: the event is over when it returned false or has no *)
(* period, and is scheduled again otherwise, from the time that it has now.*)
OverWhenFalse(result) == ~result      \* mutant: ev.period == 0 not tested
Over(result) == ~result \/ at[current].period = 0

ActionReturn(result) ==
    /\ mode = "action"
    /\ IF Over(result)
       THEN /\ parented' = parented \ {current}
            /\ UNCHANGED <<events, at, warned, earlier>>
       ELSE Schedule(current, [at[current] EXCEPT !.time = @ + at[current].period])
    /\ current' = NoEvent
    /\ mode' = "loop"
    /\ UNCHANGED <<time, finalTime, outside, calls>>

Loop == RunEmpty \/ RunStop \/ RunNext \/ \E result \in BOOLEAN : ActionReturn(result)

Next ==
    \/ \E e \in Event : Add(e) \/ Config(e)
    \/ Clear \/ Reset
    \/ \E f \in Final : Run(f)
    \/ Loop

Spec == Init /\ [][Next]_vars

(* A run is one sequential program: it goes on until it returns, and the   *)
(* actions that it calls return.                                           *)
FairSpec == Spec /\ WF_vars(Loop)

----------------------------------------------------------------------------
TypeOK ==
    /\ events \in Seq(Event)
    /\ time \in Int
    /\ at \in [Event -> Attr]
    /\ parented \subseteq Event
    /\ mode \in {"idle", "loop", "action"}
    /\ current \in Event \cup {NoEvent}
    /\ mode = "action" <=> current \in Event
    /\ finalTime \in Int
    /\ warned \subseteq {"add", "run"}
    /\ outside \in BOOLEAN
    /\ earlier \subseteq Event \X Event
    /\ calls \in Nat

(* An event is at most once in the queue, and not while its action is      *)
(* executed; one that waits or acts knows its Timer.                       *)
ScheduledOnce ==
    /\ \A i, j \in DOMAIN events : events[i] = events[j] => i = j
    /\ current \notin Queued
    /\ Queued \subseteq parented /\ (mode = "action" => current \in parented)

(* The queue is ordered as long as config is only used as its              *)
(* documentation asks, inside the action of the event.                     *)
QueueOrdered == ~outside => Sorted(events, at)

(* "Once a Timer has a given simulation time, it ensures that all the      *)
(* Events before that time were already executed": no event waits for a    *)
(* time that has passed, unless add gave its warning.                      *)
NothingPending ==
    (~outside /\ "add" \notin warned) => \A e \in Queued : at[e].time >= time

(* "The Event with lower time will be executed in each step [...] the one  *)
(* with lower priority [...] the one that was scheduled first": the action *)
(* that begins is that of the event which precedes all that wait.          *)
ExecutionOrder ==
    [][(~outside /\ mode = "loop" /\ mode' = "action")
        => \A e \in Queued \ {current'} : Precedes(at, earlier, current', e)]_vars

(* A run ends only when nothing is due up to its final time, whatever the  *)
(* actions added, cleared or configured meanwhile.                         *)
RunExhausts ==
    [][(~outside /\ mode = "loop" /\ mode' = "idle")
        => \A e \in Queued : at[e].time > finalTime]_vars

(* Without a warning the clock never goes back, other than by reset. *)
ClockForward ==
    [][(~outside' /\ warned' = {} /\ time' < time) => time' = MinusInfinity]_vars

(* A run returns: actions make finitely many calls, and an event that is   *)
(* scheduled again goes forward in time.                                   *)
RunReturns == (mode # "idle") ~> (mode = "idle")
============================================================================
