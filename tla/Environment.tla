---------------------------- MODULE Environment ----------------------------
(***************************************************************************)
(* Environment:run (Environment.lua): the Events of all the Timers of an   *)
(* Environment, and of the Environments inside it, are added to a Timer    *)
(* that exists only during the run; that one is run, and at the end each   *)
(* Timer of the Environment gets the final time as its clock.  The Timers  *)
(* keep their own queues, which the run does not touch.  An action gets    *)
(* the Timer of the run as its argument, and can add to it, clear and      *)
(* reset it, as well as the Timers that the model declared.                *)
(***************************************************************************)
EXTENDS EventQueue, FiniteSets

CONSTANTS
    Event,          \* the Events of the model
    Timer,          \* the Timers of the Environment
    Met,            \* the Timers in the order in which process meets them
    Merged,         \* the Timer of the run
    NoTimer,        \* an Event that has no parent
    NoEvent,        \* no action is being executed
    Start, Priority, Period, Final,   \* the values that the model uses
    MinusInfinity,  \* -math.huge
    MaxCalls        \* bound: the calls that the model makes

ASSUME EnvironmentAssumption ==
    /\ NoEvent \notin Event
    /\ Merged \notin Timer /\ NoTimer \notin Timer /\ Merged # NoTimer
    /\ Met \in Seq(Timer) /\ Elems(Met) = Timer
    /\ \A i, j \in DOMAIN Met : Met[i] = Met[j] => i = j
    /\ MinusInfinity \in Int
    /\ Start \subseteq Int /\ \A t \in Start : MinusInfinity < t
    /\ Final \subseteq Int /\ \A t \in Final : MinusInfinity < t
    /\ Priority \subseteq Int
    /\ Period \subseteq Int
    /\ MaxCalls \in Nat

VARIABLES
    lists,      \* value.events of each Timer
    clock,      \* value.time of each Timer
    at,         \* time, priority and period of each Event
    parent,     \* the parent of each Event
    mode,       \* "idle", in "merge" or "loop" of run, or in an "action"
    ti, k,      \* the Timer and the Event that process is at
    queue,      \* events of the Timer of the run
    now,        \* time of the Timer of the run
    current,    \* the Event whose action is being executed
    finalTime,  \* the argument of run
    over,       \* history: ended in this run, by false or by period 0
    late,       \* history: added in an action, or for a time that had come
    cleared,    \* history: dropped from the queue of this run by clear
    earlier,    \* history: <<d, e>> queued as equals, d scheduled before e
    calls       \* how many calls the model has made

run  == <<mode, ti, k, queue, now, current, finalTime, earlier>>
vars == <<lists, clock, at, parent, run, over, late, cleared, calls>>

Queued == Elems(queue)
InList(e) == \E t \in Timer : e \in Elems(lists[t])

Init ==
    /\ lists = [t \in Timer |-> <<>>]
    /\ clock = [t \in Timer |-> MinusInfinity]
    /\ at = [e \in Event |-> [time |-> MinusInfinity, priority |-> 0, period |-> 0]]
    /\ parent = [e \in Event |-> NoTimer]
    /\ mode = "idle" /\ ti = 1 /\ k = 1
    /\ queue = <<>> /\ now = MinusInfinity
    /\ current = NoEvent /\ finalTime = MinusInfinity
    /\ over = {} /\ late = {} /\ cleared = {} /\ earlier = {} /\ calls = 0

----------------------------------------------------------------------------
(* What a model calls: before and after a run, or in an action. *)
MayCall == mode \in {"idle", "action"} /\ calls < MaxCalls /\ calls' = calls + 1

(* positiveTableArgument: Event refuses a negative period. *)
AnyPeriod == Period                        \* mutant: the test is missing
ValidPeriod == {p \in Period : p >= 0}

(* Event{...}: an Event that no Timer has yet. *)
NewEvent(e) ==
    /\ ~InList(e) /\ e \notin Queued /\ e # current
    /\ \E s \in Start, r \in Priority, p \in ValidPeriod :
          at' = [at EXCEPT ![e] = [time |-> s, priority |-> r, period |-> p]]

(* timer:add(Event{...}) for a Timer of the Environment. *)
Add(t, e) ==
    /\ MayCall /\ NewEvent(e)
    /\ lists' = [lists EXCEPT ![t] = Insert(@, at', e)]
    /\ parent' = [parent EXCEPT ![e] = t]
    /\ over' = over \ {e}
    /\ late' = IF mode = "action" \/ at'[e].time <= clock[t] THEN late \cup {e} ELSE late \ {e}
    /\ UNCHANGED <<clock, run, cleared>>

(* timer:clear() *)
Clear(t) ==
    /\ MayCall
    /\ lists' = [lists EXCEPT ![t] = <<>>]
    /\ UNCHANGED <<clock, at, parent, run, over, late, cleared>>

(* timer:reset() *)
Reset(t) ==
    /\ MayCall
    /\ clock' = [clock EXCEPT ![t] = MinusInfinity]
    /\ UNCHANGED <<lists, at, parent, run, over, late, cleared>>

(* event:config{...} in the action of the event. *)
Config ==
    /\ mode = "action" /\ MayCall
    /\ \/ \E s \in Start       : at' = [at EXCEPT ![current].time = s]
       \/ \E r \in Priority    : at' = [at EXCEPT ![current].priority = r]
       \/ \E p \in ValidPeriod : at' = [at EXCEPT ![current].period = p]
    /\ UNCHANGED <<lists, clock, parent, run, over, late, cleared>>

(* The same three calls for the Timer of the run, which Timer:run passes   *)
(* to the action.                                                          *)
Scheduled(e) ==
    /\ queue' = Insert(queue, at', e)
    /\ parent' = [parent EXCEPT ![e] = Merged]
    /\ earlier' = earlier \cup Ties(queue, at', e)

AddToRun(e) ==
    /\ mode = "action" /\ MayCall /\ NewEvent(e)
    /\ Scheduled(e)
    /\ UNCHANGED <<lists, clock, mode, ti, k, now, current, finalTime, over, late, cleared>>

ClearRun ==
    /\ mode = "action" /\ MayCall
    /\ queue' = <<>> /\ earlier' = {}
    /\ cleared' = cleared \cup Queued
    /\ UNCHANGED <<lists, clock, at, parent, mode, ti, k, now, current, finalTime, over, late>>

ResetRun ==
    /\ mode = "action" /\ MayCall
    /\ now' = MinusInfinity
    /\ UNCHANGED <<lists, clock, at, parent, mode, ti, k, queue, current, finalTime, earlier>>
    /\ UNCHANGED <<over, late, cleared>>

----------------------------------------------------------------------------
(* Environment:run: a new Timer, and process, which adds to it the Events  *)
(* of one Timer after the other.                                           *)
Run(f) ==
    /\ mode = "idle" /\ MayCall
    /\ mode' = "merge" /\ ti' = 1 /\ k' = 1
    /\ queue' = <<>> /\ now' = MinusInfinity
    /\ finalTime' = f
    /\ over' = {} /\ late' = {} /\ cleared' = {} /\ earlier' = {}
    /\ UNCHANGED <<lists, clock, at, parent, current>>

More(t) == k <= Len(lists[t])

Merge ==
    /\ mode = "merge" /\ ti \in DOMAIN Met
    /\ IF More(Met[ti])
       THEN /\ UNCHANGED at
            /\ Scheduled(lists[Met[ti]][k])
            /\ k' = k + 1 /\ ti' = ti
       ELSE /\ ti' = ti + 1 /\ k' = 1
            /\ UNCHANGED <<at, queue, parent, earlier>>
    /\ UNCHANGED <<lists, clock, mode, now, current, finalTime, over, late, cleared, calls>>

MergeDone ==
    /\ mode = "merge" /\ ti \notin DOMAIN Met
    /\ mode' = "loop"
    /\ UNCHANGED <<lists, clock, at, parent, ti, k, queue, now, current, finalTime, earlier>>
    /\ UNCHANGED <<over, late, cleared, calls>>

(* timer:run(finalTime) on the Timer of the run, as in Timer. *)
DueBefore(e) == at[e].time < finalTime      \* mutant: >= finalTime ends the run
Due(e) == at[e].time <= finalTime
RestOf(q)   == Tail(q)

RunNext ==
    /\ mode = "loop" /\ queue # <<>> /\ Due(Head(queue))
    /\ now' = at[Head(queue)].time
    /\ current' = Head(queue)
    /\ queue' = RestOf(queue)
    /\ earlier' = {x \in earlier : x[1] # Head(queue)}
    /\ mode' = "action"
    /\ UNCHANGED <<lists, clock, at, parent, ti, k, finalTime, over, late, cleared, calls>>

Over(result) == ~result \/ at[current].period = 0

(* An Event that is over loses its parent, but not its place in the queue  *)
(* of the Timer that it was declared in.                                   *)
ActionReturn(result) ==
    /\ mode = "action"
    /\ IF Over(result)
       THEN /\ parent' = [parent EXCEPT ![current] = NoTimer]
            /\ over' = over \cup {current}
            /\ UNCHANGED <<at, queue, earlier>>
       ELSE /\ at' = [at EXCEPT ![current].time = @ + at[current].period]
            /\ Scheduled(current)
            /\ UNCHANGED over
    /\ current' = NoEvent
    /\ mode' = "loop"
    /\ UNCHANGED <<lists, clock, ti, k, now, finalTime, late, cleared, calls>>

(* Nothing is left, or nothing is due: timer:run returns, the Timers get   *)
(* the final time, and the Timer of the run is gone with what it has.      *)
RunReturn ==
    /\ mode = "loop" /\ (queue # <<>> => ~Due(Head(queue)))
    /\ now' = IF queue = <<>> THEN now ELSE finalTime
    /\ clock' = [t \in Timer |-> finalTime]
    /\ queue' = <<>> /\ earlier' = {}
    /\ mode' = "idle"
    /\ UNCHANGED <<lists, at, parent, ti, k, current, finalTime, over, late, cleared, calls>>

InRun == Merge \/ MergeDone \/ RunNext \/ RunReturn \/ \E result \in BOOLEAN : ActionReturn(result)

Next ==
    \/ \E t \in Timer : Clear(t) \/ Reset(t) \/ \E e \in Event : Add(t, e)
    \/ Config
    \/ \E e \in Event : AddToRun(e)
    \/ ClearRun \/ ResetRun
    \/ \E f \in Final : Run(f)
    \/ InRun

Spec == Init /\ [][Next]_vars

----------------------------------------------------------------------------
TypeOK ==
    /\ lists \in [Timer -> Seq(Event)]
    /\ clock \in [Timer -> Int]
    /\ at \in [Event -> Attr]
    /\ parent \in [Event -> Timer \cup {Merged, NoTimer}]
    /\ mode \in {"idle", "merge", "loop", "action"}
    /\ ti \in 1 .. Len(Met) + 1 /\ k \in Nat
    /\ queue \in Seq(Event)
    /\ now \in Int /\ finalTime \in Int
    /\ current \in Event \cup {NoEvent}
    /\ mode = "action" <=> current \in Event
    /\ over \subseteq Event /\ late \subseteq Event /\ cleared \subseteq Event
    /\ earlier \subseteq Event \X Event
    /\ calls \in Nat

(* Events of different Timers are executed by time, then by priority, and  *)
(* those that are equal in the order of the merge and of what scheduled    *)
(* them again: the action that begins is that of the Event which precedes  *)
(* all that wait (Timer.lua:43-58, 257-292; Environment.lua:375-400).      *)
ExecutionOrder ==
    [][(mode = "loop" /\ mode' = "action")
        => \A e \in Queued \ {current'} : Precedes(at, earlier, current', e)]_vars

(* After a run an event that waits in a Timer for a time that the Timer's  *)
(* clock has reached is over, was added when it was too late, or was       *)
(* dropped by an action that cleared the Timer of the run.                 *)
PendingExplained ==
    mode = "idle" => \A t \in Timer : \A e \in Elems(lists[t]) :
        at[e].time <= clock[t] => e \in over \cup late \cup cleared
============================================================================
