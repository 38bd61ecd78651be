# TerraME in TLA+

TerraME is a platform for spatial dynamic models: scripts in Lua, run on an
interpreter extended with C++ (`src/src`), use the types of the base package
(`src/packages/base/lua`): cellular spaces, agents and societies, hybrid automata,
and a discrete-event scheduler.  Model scripts may also hand work to a pool of
threads (TerraME HPA, `src/src/hpa`) and send their state to observers, windows or
another machine.

This directory models the parts of the system where the order of events decides
the result, or where a value passes through several hands: the pool and its critical
sections, the scheduler, the run of an Environment, the agents of a Society that is
walked while it changes, their messages, the state machines of agents and automata, the
observer that sends states to another machine, and the maps.  TLC checks each on a small
instance; TLAPS proves the safety properties of all of them for every value of their
constants.  Paths below are relative to the repository, as in `PROJECT.json`,
which prefixes them with `src/` (`src/src/hpa/hpa.cpp` is the C++ file,
`src/packages/...` the Lua packages).

Contents: [parts](#the-parts-of-the-system) | [modules](#the-modules) |
[runs](#the-runs) | [fairness](#fairness) | [proofs](#the-proofs) |
[findings](#where-the-code-and-its-documentation-differ) |
[abstractions](#what-the-models-leave-out) | [not modelled](#not-modelled)

## The parts of the system

### Modelled

**HPA worker pool** (`src/hpa/hpa.cpp`, `procTask.cpp`, `bagOfTasks.h`).
State: the bag of tasks (a list with `lock_bag`), a vector of `QThread`s, each with
the task and the name it last took, `numCPU`.  Operations: `parallel` inserts a task
and starts a worker that is not running; `join(f)`, `joinall()` wait; `np(n)`
waits and replaces the pool; a worker empties the bag and stops.  Hard: the tests
`Bag->empty()`, `isRunning()` and `getName()` are made without the lock, so every
decision is taken on a state that may have changed; a worker that left its loop
still counts as running; a task may fail.  Correct when: each call is executed
once, `joinall` misses none, returns, and `np` never deletes a thread that runs.

**HPA critical sections** (`hpa.cpp`, `acquire`, `release`).
State: a hash table of mutexes, created on first use; `justOne`, which guards the
creation and which `join` takes too.  Hard: the table is read after `justOne` was
released; ids that are strings are all section 0.  Correct when: sections exclude,
and whoever waits gets in.

**Timer and Event** (`base/lua/Timer.lua`, `Event.lua`).
State: the ordered vector of events, the clock, and the time, priority and period
that each event carries.  Operations: `add`, `clear`, `reset`, `run`,
`Event:config`; the action of an event may call all of them except `run`.  Hard:
the loop of `run` works on a vector that its own callbacks change; ties are decided
by the place of insertion.  Correct when: events are executed by time, priority and
scheduling order, none is lost, none is left behind the clock, and `run` returns.

**Environment** (`base/lua/Environment.lua`).
State: the Timers and Environments inside it.  `run` copies the events of all
Timers into a new Timer, runs that one and sets the clocks afterwards.  Hard: the
events are shared, the vectors that hold them are not: what happens during the run
(events that end, that are added or cleared) does not meet in one place, and the Timer
that an action receives is the new one, not its own.  Correct when: all events take
part, in one order, and what a Timer holds afterwards behind its clock has a reason.

**Society, agents and placements** (`base/lua/Society.lua`, `Agent.lua`, the
`createPlacement` of `Environment.lua`, `forEachAgent` of `Utils.lua`).
State: the vector of agents and the number of the next one, the index of `get`, the cell
that each agent knows and the agents that each cell lists.  Operations: `add`, `remove`,
`clear`, `get`; `enter`, `leave`, `move` and the walks, `die`, `reproduce`;
`createPlacement`; `forEachAgent`, whose function calls any of the others.  Hard: two
sides of one relation are changed one after the other, with errors in between; agents are
found in cells by an id that `clear` gives again; a loop with an index walks a vector that
its own function shortens and extends.  Correct when: agents and cells agree, the
dead are nowhere, and the traversal meets each agent that stays once.

**Messages** (`Agent:message`, `Agent:die`, `Society:synchronize`).
State: the vector of delayed messages, with what is left of each delay; a delay that is
over becomes `true`.  `synchronize` walks the vector with the number of messages that it
had, calls receivers and removes what was delivered.  Hard: receivers send, kill, call
`synchronize` again and raise errors while the vector is walked; the message that is
delivered is still in it; a receiver that died may have inherited the function that is
called.  Correct when: each is delivered once, when its delay is over, in the order in
which they were sent.

**Hybrid automata** (`core/agent.h`, `controlMode.h`, `process.h`, `rule.h`, `jumpCondition.h`,
`flowCondition.h`, the modes of `cell.h` and `environment.h`; `Automaton.lua`, `State.lua`).
State: the vector of modes of each machine, the target of each Jump, the current mode of an
agent and of an automaton in each cell, the status and the time of the last change.
Operations: the constructors with `build`, `Environment:add`, `setTrajectoryStatus`,
`execute`.  Hard: the Jump belongs to the State and its target to the machine that was
built last, or to none; loops over regions, cells, jumps and flows with early exits; two
modes can jump to each other for ever.  Correct when: the Flows are those of the mode where the
machine settled, it stays in its own modes, and every cell is visited.

**UDP observer** (`observer/types/observerUDPSender.cpp`, `observer/components/receiver`).
State: the datagram size, the place of the loop of `sendDatagram`; the array in which the
receiver puts pieces together.  Hard: datagrams are lost, repeated and reordered, and
the receiver throws away all pending ones but the last; a failed send leaves a state half sent.
Correct when: no piece is put in a wrong place, and an array of all pieces is the text.

**Maps** (`luaCellularSpace.cpp`, `luaCell.cpp`, `decoder.cpp`, `observerMap.cpp`,
`legendWindow.cpp`, `legendAttributes.cpp`, `painterThread.cpp`).
State: the values decoded, the list of values, the legend, the number of layers, the picture.
Hard: lists that have to be cleared for each state, the ends of intervals and their
rounding, numbers that are compared as text of six digits, a legend made from the first
values and used for the next.  Correct when:
each value is counted in one slice, colours keep their places, and a cell has the
colour of its value.

### Interactions

A script declares the objects and calls `run` of a Timer or an Environment.  The actions of the
events are Lua functions: they change cells and agents, call `synchronize`, `execute` and
`forEachAgent`, and `notify` the observers.  All that happens on the script's thread, by
calls and callbacks, so the hard steps are callbacks that change what their caller walks.
Only HPA has threads, and only the UDP observer sends something to another process.  The
models meet at these calls: the actions of `Timer` and `Environment` stand for
everything that an action may do to the scheduler, the functions of `Society` for everything
done to the agents, the receivers of `Messages` for what is done to the vector.

## The modules

| module | models | state | actions |
|---|---|---|---|
| `TaskPool` | what the pool promises | tasks submitted, executed; the script waits | `Submit`, `Execute`, `JoinAll`, `Resume` |
| `HPA` | `hpa.cpp`, `procTask.cpp`, `bagOfTasks.h` | `bag`; per worker `running`, `pc`, `task`, `name`, `just_one`; the script's place in its call | `Run*` (the worker), `Parallel*`, `JoinAll*`, `Np*`, `Join*`, `Destroy` |
| `Sections` | `acquire`, `release` | `lockSection`, `owner`, `justOne`, and a variable per id | `Acquire`, `Enter`, `Insert`, `Lookup`, `Lock`, `Read`, `Write`, `Release`, `JoinLock`, `JoinUnlock` |
| `EventQueue` | the ordered insertion of `Timer:add` | none: `Insert` and the order it has to keep | |
| `Timer` | `Timer.lua`, `Event.lua` | `events`, `time`, `at`, `parented`, the place of `run` | `Add`, `Clear`, `Reset`, `Config`, `Run`, `RunEmpty`, `RunStop`, `RunNext`, `ActionReturn` |
| `Environment` | `Environment:run` | the Timers' `lists` and `clock`; the merged `queue` and `now`; `at`, `parent` | `Add`, `Clear`, `Reset`, `Config`; `AddToRun`, `ClearRun`, `ResetRun`; `Run`, `Merge`, `MergeDone`, `RunNext`, `ActionReturn`, `RunReturn` |
| `Society` | `Society.lua`, `Agent.lua`, placements, `forEachAgent` | `agents`, `autoincrement`, `id`, `alive`, `idindex`; `where`, `inside`; `over`, `i`, `k`, `current` of the traversal | `Add`, `AddAgain`, `RemoveAgent`, `RemoveIf`, `Clear`, `Get`, `Enter`, `Leave`, `Move`, `Die`, `DieRaises`, `Reproduce`, `Create*`, `ForEach`, `Visit`, `NoAgent`, `CallReturn`, `ForEachEnds` |
| `Mailbox` | what a Society promises about messages | `clock`, `pending`, `done`, `failed` | `Post`, `Advance`, `Deliver`, `Lose`, `Fail`, `Late` |
| `Messages` | `message`, `die`, `synchronize` | `messages`, `receiver`, `delay`, `state`, `alive`; `calls`, the stack of calls | `Send`, `SendNow`, `Die`, `Synchronize`, `SkipMessage`, `CallReceiver`, `DropMessage`, `DeadRaises`, `ReceiverReturns`, `SynchronizeReturns`, `SubtractRaises`, `ReceiverRaises` |
| `StateMachine` | agents, automata and their States | `states`, `regions`, `life`; `target`, `mode`, `status`, `changed`; `pc`, `r`, `c`, `j`, `f`, the place in `execute` | `Build`, `Collect`, `AddSpace`, `AddAutomaton`, `SetStatus`, `Execute`, `NextCell`, `SkipCell`, `NextRegion`, `Return`, `JumpFalse`, `JumpTrue`, `JumpNowhere`, `AgentDies`, `ModeDies`, `NoJump`, `Flow`, `FlowRaises`, `EndCell` |
| `UdpObserver` | sender, network and receiver | `datagramSize`, `failureToSend`, `pos`, `bytesRead`; `network`; `completeData`, `processed` | `Draw`, `SendPiece`, `SendFails`, `SendMark`, `Lose`, `ProcessPendingDatagrams` |
| `CellMap` | from the cells to the picture | `numericValues`, `valueList`, `legend`, `mapAttributes`, `builtLegend`, `picture` | `DrawMap`, `AddLayer` |
| `MC*` | the instances of the runs | | |
| `*_proofs` | theorems and proofs: of the module named, `HPA_proofs` of `Sections` too, `Observers_proofs` of `UdpObserver` and `CellMap` | | |

A `_proofs` module that treats two modules extends both, so `Sections` has names that differ
from those of `HPA` (`SectionsInit`, `SectionsNext`, `SectionsTypeOK`, `place` for the place
of a thread), and `CellMap` from those of `UdpObserver` (`MapInit`, `MapNext`, `MapTypeOK`,
`DrawMap`).

`HPA` implements `TaskPool` (`TP == INSTANCE TaskPool WITH ...`: `executed` is the
history of executions, `waiting` says that the script is inside `joinall` or `np`).
`Messages` implements `Mailbox` (`Box`: `pending` are the messages of the vector whose delay
is a number, `done` those delivered).
`Timer` and `Environment` share `EventQueue`.

**HPA.** One step is what one thread does between two points where another can
interfere.  The insertion and the removal under `lock_bag` are one step each.  What
is read without the lock is a step of its own: `RunCheck` is `while (!Bag->empty())`
(procTask.cpp:125), `RunTake` the locked section with its second test,
`RunExecute` the Lua call, `RunFinish` the moment after `run()` returned, when
`isRunning()` turns false.  The loops of the script (`mi` is their index) look at one
worker per step.  `getNumCpu()` returns a variable that is static in a header,
so `procTask.cpp` sees its own copy, which nobody sets: `TaskNumCpu` is 0 in the runs
and any integer in the proofs.  An error in a task reaches `lua_yield` outside a
coroutine and ends the process (`RunFail`); `join` reads the name of a worker that may be
assigning it (`Renaming`) and scans a list that a worker may be changing (`JoinScanned`): each has
an undefined result, which the model makes found, not found, or the end of the process.
The unlocked `Bag->empty()` reads one word, the old value or the new.

**Sections.** Key `KeyOf[id]` is `lua_tonumber(id)`, so `"id"` and 0 are one section.
`Lookup` is the read of the table after `justOne.unlock()`; when another thread
inserts at that time it may end the process.  Each id protects a variable, which
is read and written in two steps inside the section, as in `hpa-basic.lua`.

**Timer.** The calls of a model (`Add`, `Clear`, `Reset`, `Config`) are made when the
Timer is idle or while an action is executed; `MaxCalls` bounds them.  `ActionReturn`
is everything `run` does after the action: it drops the event or puts it back with
its new time.  Three history variables serve the properties: `warned` (the warnings of `add`
and `run`), `outside` (`config` was called on an event that waits, which Event.lua
asks not to do), `earlier` (which of two waiting events was scheduled first).

**Environment.** `Merge` adds one event of one Timer per step, in the order in which
`process` meets them (`Met`, the flattened tree).  `RunReturn` ends `timer:run` and sets
all clocks.  An action may hold a Timer of the Environment, whose list it changes with `Add`,
`Clear` and `Reset`; but the Timer that `run` passes to it (Timer.lua:156, and 58 for
`getParent`) is the merged one, whose `queue` and clock `AddToRun`, `ClearRun` and `ResetRun`
change: no Timer of the Environment gets or loses an event by them.
Histories: `over` (events that ended), `late` (those that came to their Timer when it was too late
for the run), `cleared` (those that `ClearRun` took out of the run) and `earlier`, as in `Timer`.

**Society.** Lua is sequential, so each operation is one step; what interleaves is the
traversal, which stops in mode `call` for the function, and the function may make any
call.  Agents are numbered in the order of their creation; their `id` is another number,
as `clear` starts it again.  `where[a]` is `placement.cells[1]` and `inside[c]` the table
of the cell; `Outside` stands for a cell without the placement, which `enter` finds
out too late.  A call that raises an error keeps what it did and ends the traversal:
`DieRaises`, and the `Raises` of `Enter`, `Move`, `Reproduce` and `Get`; errors that come
before any change are `ForEachEnds`.  `clear` gives the Society a new vector, and the
traversal goes on with the one it has (`Old`).  Histories: `begun` and `left` (who was in
the traversed vector, who left it), `many` (one call took two away),
`misplaced` (`enter` gave its warning or its error).

**Messages.** A message is a number, in the order of sending.  The Lua stack is the sequence
`calls`: frames of `synchronize` (the variables of its loop: `k`, how many are left, its
argument) and of receivers.  The script and every receiver may make any call.
`state[n] = Over` is the `delay = true` that `synchronize` writes before it calls the
receiver.  An error clears the stack.  `Inherits` are the agents that got their functions from
the instance of the Society by their metatable (Agent.lua:825-827); the others have their own.  `die`
replaces only the latter by a warning (Agent.lua:102-108): for such a receiver a message is dropped
(`DropMessage`).  The metatable of the dead has nothing to inherit: reading the function
of a receiver in `Inherits` raises an error, with `delay = true` already written (`DeadRaises`).
`broken` is the history of what spoils the promise: an error that leaves `synchronize`, raised by
a receiver, by a dead one or by the subtraction, and a `synchronize` inside another.

**StateMachine.** `execute` goes through four loops (regions, cells, jumps, flows) whose places
are `r`, `c`, `j`, `f`; one step is one condition, one Flow or one turn of the outer loops.
What a condition returns is free, at most `MaxTrue` of them are true in one execution.
A mode is the machine whose vector holds it with the State whose handle it is: a vector that
was collected (`life = "gone"`) leaves Jumps and modes that point into it, and using one
may end the process (`ModeDies`).  `Configures` says which Jumps `build` reaches before it
finds no State for one; the rest have no target.  An agent that takes such a Jump executes
NULL (`AgentDies`); an automaton attaches NULL to the cell and goes on to the next one
(`JumpNowhere`), and every later execution passes over that cell (`SkipCell`).  The history
`lost` has these cells, and `VisitsEveryCell` makes no other exception in a trajectory.

**UdpObserver.** Byte `i` of state `s` is `<<s, i>>`, so no two are alike.  `draw` is `Draw` and a
`SendPiece` per piece, in which `pos` and `bytesRead` are those of `sendDatagram`; without
compression they advance by the bytes of the datagram, header included (`Written`).
Each step of the network or the receiver takes any datagram, keeps a copy or not; the
datagrams that the receiver reads over are lost ones.  `Replace` is `QByteArray::replace`.

**CellMap.** A number is a multiple of a small step, the precision of a legend is `Unit`
of them and `Rounded` is what formatting and reading a bound does.  `DrawMap` is a whole
`notify`: `Pop`, `Decode`, the legend when it is made, and `DrawAttrib`.  A legend's
colours are its places.  With unique values the legend works with texts (`Label`): `Listed` are
the Map's values as Lua's `tostring` wrote them, `Shown[v]` is `QString::number(v)`, which has six
digits, and `ReadBack` the number that painting reads from a text.  So a listed number may not be found
(`Unlisted`) and two numbers may count as one (`Times`).

## The runs

| run | instance | states | shows |
|---|---|---|---|
| `hpa_pool` | 3 tasks of 2 functions, one fails; pools of 0, 1 and 2 workers (`np(-1)` gives 0) | 93 thousand | `ExactlyOnce`, `ResizeIsSafe`, `JoinWaitsForRunning`, `ImplementsTaskPool`, `JoinAllReturns` |
| `hpa_join` | the same, no failing task | | `JoinWaitsForBag` is violated |
| `sections` | 2 threads, 3 ids of 2 sections, 2 rounds each, `join` at any time | 17 thousand | `MutualExclusion`, `NoLostUpdate`, `AcquireReturns` |
| `sections_race` | the same | | `NoTableRace` is violated |
| `timer` | 3 events, 2 start times, 2 priorities, periods 0 and 1 (and -1, refused), final times 1 and 3, 5 calls | 1.4 million | `ScheduledOnce`, `QueueOrdered`, `NothingPending`, `ExecutionOrder`, `RunExhausts`, `RunReturns` |
| `environment` | the same events in 2 Timers, 4 calls, to a Timer or to the merged one | 1.9 million | `PendingExplained`, `ExecutionOrder` |
| `society` | declared with 1, 2 or 3 agents, at most 3 in all, 2 cells and one outside, `max` 1 and 2, 5 calls | 2.4 million | `DeadAreGone`, `PlacementAgrees`, `VisitsStaying`, `PlacementFits` |
| `society_all` | the same, 3 calls | | `VisitsAll` is violated |
| `statemachine` | two of two agents and an automaton, 4 States, 3 ways to share them, 2 cells, no Trajectory or two | 2.2 million | `FlowsWhenSettled`, `OwnModes`, `LatencyIsTransition`, `VisitsEveryCell`, `ExecuteReturns` |
| `messages` | 2 agents, one with inherited functions, 3 messages, delays and arguments 1 and 2, calls 4 deep, clock up to 4 | 730 thousand | `OnTime`, `ImplementsMailbox` |
| `udp` | texts of 4, 3 and 4 bytes; datagrams of 4 (compressed) or 3, at least 2; a header of 1 | 625 thousand | `WholeWhenIntact`, bytes in place (`TypeOK`) |
| `cellmap` | 3 cells, 4 values or none, 3 slices, 3 listed values, 2 layers | 106 thousand | `CountedOnce`, `ColoursStay`, `PictureIsTrue` |

Each passing run also checks its module's `TypeOK` (`SectionsTypeOK`, `MapTypeOK`).

Why the bounds are enough:

- *HPA*: two workers show every race between a worker, another worker and the script;
  three tasks leave one in the bag while both work, with two of one name for `join`.
  Calls are not bounded otherwise: the script may call `join`, `joinall`
  and `np` for ever, and each task is one call of `parallel`.
- *Sections*: two threads race for the creation of one section, directly or through two ids;
  a third id makes a table with two entries, so that an insertion meets a lookup.
  Two rounds let a thread meet a section which the other created.  An unfair scan of `join`
  may come between any two steps.
- *Timer* and *Environment*: with two priorities and two times three events show each
  kind of tie; period 1 and final time 3 give an event several turns; the calls allow
  a run whose action adds or configures, and a second run afterwards.
- *Society*: three agents are one that was visited, one that acts and one that is still
  to come, which is what a shift of the vector can confuse; fewer leave room for those
  that are born.  Two cells tell moving from staying.  Five calls are a placement, a
  traversal and three operations in it, or a `clear` and the return of what it
  removed; the four ids let numbers be given again.
- *Messages*: three messages are one delivered, one that is walked over and one that
  is sent or removed meanwhile; a depth of four is a receiver inside a `synchronize` inside
  a receiver inside a `synchronize`; with delays and arguments 1 and 2 a message is
  due early, exactly and late.
  One agent with inherited functions and one with its own die in both ways.
- *StateMachine*: a program constructs two of the machines (`MaxBuilt`), which are enough for a shared
  State to have the targets of another machine, or of one whose `build` failed: a second agent, as
  the failure of an automaton ends the process.  They share no State, one or all; `s2` and `s3`
  have one id, so the State that a Jump names differs with the machine; two
  regions, one a part of the other, reset the place of the inner loop; two true conditions
  are a way there and back.
- *UDP*: compressed, a text is one piece at first and two of size 2 after a failure, and a
  second failure gives up; uncompressed, only the second text fits one piece.  Three
  states let the remains of an old one meet two newer ones.
- *CellMap*: the values lie on the bounds of the slices, between them and above the maximum;
  with unique values, two are written alike, one is listed in a longer form than the legend
  writes, which stands between two that are found, and it is read back as another number.  The picture and
  the legend depend on one state and, once made, the legend stays, so two
  layers give every history of interest.

Deadlock is not checked: a script may end (`Destroy`), a thread's rounds and a
model's calls run out, and a process dies; these are the ends of the program.  That
something happens is stated by the liveness properties instead.

## Fairness

- *HPA*: weak fairness for the steps of each worker and for those of the call that the script
  is in.  A thread that can run is run by the operating system; the calls of the
  library do not stop by themselves.  Nothing obliges the script to call.
  `JoinAllReturns` needs `numCPU > 0`: `np(-1)`, or a machine whose
  `hardware_concurrency()` is unknown, gives a pool with no workers, which cannot
  empty the bag.
- *Sections*: weak fairness for each thread, strong fairness for the steps that
  wait for `justOne`.  `join` may be called again and again, so `justOne` is not
  continuously free; it is held for the time of a scan or of an insertion, and a
  waiter that the mutex passed over for ever would be a failure of the mutex.
  The mutex of a section needs weak fairness only, as `Rounds` bounds the other thread.
- *Timer*: weak fairness for the loop of `run`, a sequential program
  whose actions return.  `RunReturns` holds because actions make finitely many calls
  (`MaxCalls`) and an event that is scheduled again goes forward in time.
- *StateMachine*: weak fairness for the loops of `execute`, as nothing else runs
  meanwhile.  `ExecuteReturns` holds because at most `MaxTrue` conditions are true: two modes
  whose conditions stay true jump for ever, and the code does not stop them.
- *Environment*, *Society*, *Messages*, *UDP*, *CellMap*: none; their properties are
  safety.

## The proofs

All are for arbitrary constants under the assumption named in the module
(`HPAAssumption`, `SectionsAssumption` and so on), which TLC evaluates in each run.

- `HPA_proofs`: `TypeCorrect`, `TasksExecutedOnce`, `JoinAllIsComplete`,
  `ResizeIsAlwaysSafe`, `PoolImplementsTaskPool`, `JoinWaits`.  The invariant is `TypeOK`, `ThreadInv`
  (a worker runs exactly when it is inside `run()`, and only workers of the present
  pool do), `JoinInv` and `ExactlyOnce`.  `JoinInv` is the argument for `joinall`: after the
  `while` loop the bag is empty and only the script can fill it, so a worker that
  the last loop found stopped stays stopped; the loop that waits leaves stopped workers
  behind its index, and `Quiet` holds at its end.  `ExactlyOnce` alone does not say
  who can still take a task, which is why `joinall` needs both.  The
  refinement is step by step: `RunExecute` is `Execute` (from `ExactlyOnce`),
  the return of `joinall` is `Resume` (from `JoinInv`), all others are calls or stutter.
  `JoinWaits` needs that a worker that executes has the name of its task (`NameInv`), and that
  what `join` awaits was executed or is in the hands of a worker that it has not looked
  at yet (`AwaitInv`).
  For `Sections`: `SectionsTyped`, `SectionsExclude`, `UpdatesAreKept`.  A thread inside holds
  the mutex of its key (`OwnerInv`), and the value it read is still there when it
  writes (`FreshInv`).
- `EventQueue_proofs`: what `Insert` does, for any set of events: it places the
  event (`InsertPlaces`), keeps a queue without duplicates (`InsertDistinct`), ordered
  (`InsertSorted`), and equal events in the order of their insertion (`InsertFifo`, `InsertTies`).  That the
  search loop stops is `LeastNatural`, an instance of well-foundedness of the naturals.
- `Timer_proofs`: `TypeCorrect`, `SchedulesOnce`, `KeepsOrder`, `NothingIsPending`,
  `ExecutesInOrder`, `RunsExhaust`, `ClockGoesForward`.  The invariant adds to the
  properties the bounds of the clock and that the queue is first-in first-out among
  equals (`Fifo`, relative to `earlier`).  The order of the queue makes its
  head the event that `ExecutionOrder` wants and makes "the head is not due" mean
  "nothing is due"; that the clock never passes the head is `NothingPending`.

- `Environment_proofs`: `TypeCorrect`, `PendingHasReason`, `ExecutesInOrder`.  What explains
  an event that waits behind the clock is only known at the end of the run, so the
  invariant follows it from the start: an event is in one Timer's list (`ListsInv`); during the
  merge the queue has exactly the events that were passed (`Walked`, `MergeInv`), so
  after it all of them; in the loop an event of a list is in the queue, is executed,
  is over, came late, or was cleared out of the queue (`LoopInv`).  When the loop ends, nothing
  in the queue is due.  The order is `QueueInv` with the lemmas of `EventQueue_proofs`, and among
  equals `Fifo`, which `InsertTies` keeps for the pairs that `Scheduled` adds to `earlier`.
- `Society_proofs`: `TypeCorrect`, `TheDeadAreGone`, `AgentsAndCellsAgree`,
  `EveryoneThatStaysIsVisited`, `PlacementsFit`.  `PlacementAgrees` is not inductive by
  itself: that an agent with a cell is created, that the dead have none, and that nobody has
  one before `createPlacement` is `WhereInv`, and that the vector has no agent twice is `AgentsInv`.
  The traversal is `WalkInv`.  Let q be the place where the loop goes on (in a call, the place
  that it will have when the function returns, `NextPlace`).  Of those who were in the vector
  when the loop began and have not left, the ones before q were visited (`Behind`), the ones
  from q on were not (`Ahead`), they are in front of those that were born meanwhile, and the turns
  that the loop has left are enough for them (`Enough`): together `Orderly`.  An agent that leaves
  before q shifts the others and q by one (`OrderlyShrinks`), and the loop finds its agent
  at k no longer, so it stays at k (`WalkShrinks`); a second one in the same call shifts q
  again and the loop does not see it.  For this reason `WalkInv` is about traversals in which no call
  took two away, which is also what finding 3 shows.  `createPlacement` with `spread` draws
  from a vector of cells that loses each cell when it is full; `SpreadFacts` counts the places that
  are left, so the vector is never empty when an agent needs a cell.
- `Messages_proofs`: `TypeCorrect`, `DeliversOnTime`, `VectorIsMailbox`.  The promises are
  about times when no call is in progress, but a call can be deep inside others.  The invariant
  therefore describes the stack: either no `synchronize` is in it (`Outside`), or there is an
  innermost one (`Inner`), with only receivers above it.  For this one, the rest of its
  loop is inside the vector (`RangeInv`); the message that it delivers is at its place
  (`OpenInv`); the messages ahead of its place have its argument still to pay and
  the others not (`DelayInv`).  If it is inside another one, the message of that one is
  ahead of it (`NestedInv`): its delay is `true`, the subtraction raises an error, so an inner
  `synchronize` that meets its end does not exist, and nothing has to be said about the
  frames below.  `VectorInv` is the order of the vector and that what is not in it was
  delivered in time.  All of it is said until an error leaves `synchronize` (`broken`).  For the
  refinement, a message before the place of the loop is not due and one after it was sent
  later, so the one that is delivered is the first of those due (`FirstDue`); the same
  fact makes `DeadRaises` the step `Lose` of the mailbox.  Later errors are `Fail`, and after
  one only `Late` is left of the order, not of the promise to deliver at most once.
- `StateMachine_proofs`: `TypeCorrect`, `FlowsAreSettled`, `StaysInOwnModes`, `LatencyIsRight`,
  `VisitsAllPlaces`.  `RulesInv` says which conditions were asked and which Flows executed at
  each place of the two inner loops; `PlaceInv` that a machine inside the rules is in a
  cell and has a mode.  `TargetInv` is the argument for `OwnModes`: a target was set by
  the build of a machine that has both States, so a machine that shares none
  has only its own.  For `VisitsAllPlaces`, `SeenInv` says that the places before the present one,
  in the order of the two outer loops, have been visited or are `lost`: a place is passed over
  only when its mode is NULL, which in a space that was attached comes from `JumpNowhere` alone
  (`Placed`).
- `Observers_proofs`, for `UdpObserver`: `TypeCorrect`, `WholeText`.  Pieces are in place when they
  are cut (`PieceInPlace`), and `Replace` moves no byte, whatever the array was.  `SenderInv`: what
  was sent covers the text up to `pos`, and all of it when the mark is sent.  `ReceiverInv`: as
  long as only pieces of one state were treated, the array is not longer than its text and
  holds each of them.  Together an array from all pieces is the text.
- `Observers_proofs`, for `CellMap`: `MapTyped`, `EachValueCountedOnce`, `ColoursKeepTheirPlaces`,
  `TruePicture`.  A legend with equal steps or quantiles is a chain of bounds b0 <= b1 <= ... in which
  each slice ends where the next begins: for equal steps because both ends are one rounded number,
  for quantiles because both are the same sorted value, rounded.  Rounding is monotone
  (`RoundedMonotone`), so the chain stays ordered, and it moves a number by at most half the
  precision (`RoundedClose`), so that the first and the last bound, larger by `Fix`, still enclose
  all values.  `SlicesCount` adds up such a chain: the slices up to i count the values below bi.
  The quantiles need at least one value in the first slice, which `SliceEndFacts` gets
  from the condition that there are half as many values as slices.  For unique values
  `ListCounts` adds up the texts of the list, which `ListInv` keeps distinct: each value is
  counted by the text that the legend writes for it.  `ListInv` also keeps the listed values in
  front, so colours stay.  `StepsInv` (all from the minimum to
  the maximum is in a slice) is what no cell is white by, and `DecodeFacts` says that with all
  attributes there the i-th value decoded is that of the i-th cell.

The assumptions say what the code provides.  Those that are more than types: a CellularSpace has
at least one cell (`SocietyAssumption`; `xdim` and `ydim` are positive, CellularSpace.lua:413-418);
a Map's values are distinct as Lua writes them, and numbers that the legend writes alike have no
other between them (`CellMapAssumption`; Map.lua:2018-2031), and there is at least one, as
an empty list makes the legend take the values it finds (legendWindow.cpp:1350), which is not
modelled; a map has at least two slices, and a minimum below its maximum (Map.lua:1867-1868).

Only model-checked: the liveness properties (`JoinAllReturns`, `AcquireReturns`, `RunReturns`,
`ExecuteReturns`), which need fairness and ENABLED.  What recursive functions compute (the
sum of a legend, decoding, `spread`) is proved without an induction theorem: a least place
where the claim fails (`LeastNatural`, from well-foundedness of the naturals) is refuted.

## Where the code and its documentation differ

1. `join(f)` can return while a call of `f` waits in the bag (`hpa_join`): it looks at the
   names of the workers once and at the bag once, and a task that a worker takes
   between the two is in neither place.  When it finds the name it waits for each worker
   once, and a worker may stop before another takes the task.  The comment at
   hpa.cpp:344 and `hpa-basic.lua:314-323` say otherwise.  What does hold is
   `JoinWaitsForRunning`.
2. `acquire` reads the hash table after it released the mutex that guards it
   (`sections_race`); `hpa-basic.lua:143,172` creates sections in concurrent tasks.
3. `forEachAgent` leaves out an agent when one call of its function takes two away that
   are at or before its place in the vector (`society_all`): the loop stays at its place
   once, but the vector has shifted by two.  Utils.lua:236-237 and the comment at
   289-292 say otherwise, and the tests kill other agents inside the function
   (`tests/functional/basics/Agent.lua:557-558`).  `VisitsStaying` says what does hold.

The models also contain these, which no run states as a property of its own:

- `Environment:run` leaves events that ended in the queue of their Timer (Environment.lua:379
  gives them to another one), and the next run executes them again; Event.lua:117-118 and
  130-131 say that they are removed.
- An event that an action adds to its Timer during `Environment:run` is not executed,
  yet the Timer's clock goes to the final time (Environment.lua:402);
  Timer.lua:201-202 says that all events before the clock were executed.
  `PendingExplained` says what does hold.
- An action that calls `clear` of the Timer it receives, the use that Timer.lua:60-63 describes, stops
  the other events of all Timers for the rest of an `Environment:run`; the Timers keep them, with
  clocks at the final time, and the next run begins with them.
- `Society:get` with an id trusts an index that `remove`, `die` and `clear` do not update
  (Society.lua:550-559) and returns agents that have left the Society.
- A message to an agent that died raises an error when the agent had inherited its function
  (`DeadRaises`): `die` replaces only the agent's own `on_` functions by a warning, and the agents of
  a Society have those of its instance.  The comment at Agent.lua:101 says that this removes "all
  the possible ways of getting delayed messages", and line 105 has the warning meant.
- An error in a receiver, or for a dead one, leaves its message in the vector with `delay = true`, and each
  later `synchronize` raises an error when it meets it (Society.lua:811): messages before it
  are delivered, those after it never (`SubtractRaises`; `ImplementsMailbox` allows this by `Fail`).
- A machine whose State is shared with one that is built later jumps into the vector of
  the other (agent.h:237); when that one was collected the process may die.  An agent that
  jumps by a Jump without target may die, and the process with it (agent.h:360).
- An automaton that jumps by a Jump without target has no mode in that cell any more: its rules
  are never executed there again, without a message (rule.h:121, agent.h:303).
- A legend of unique values does not find a listed number of more than six digits: it ends the
  count there, adds the short form to the list and leaves the counts of the values after it at zero
  (legendWindow.cpp:1297, 1361-1388); numbers alike in six digits count as one.
- An automaton that is added to an Environment before the CellularSpace is executed in no cell.
- Without compression, a text longer than `datagramSize` never arrives whole: `pos` advances by
  the bytes of the datagram with its header, and the bytes between are never sent.

One more surprise is visible in the conditions of the properties.  After `clear`, the
agents that were removed stay in their cells with ids that are given again, and
`leave` (Agent.lua:407) takes the first agent with its id out of the cell: when the other
one stands in the same cell, the agent that dies stays in the list (`DeadAreGone` asks for
`UniqueIds`).  An agent that is removed and added again keeps its id, too, which a member may
have meanwhile.

## What the models leave out

- *HPA*: directives called inside a task, the parsing of the call string and
  the arguments, the values that functions return, the data races inside the Lua
  universe that the coroutines share (Lua is external; the only shared data modelled
  are the variables of `Sections`).
- *Sections*: sections held inside sections, `release` without `acquire`.
- *Timer*: times are integers, so the rounding of fractional periods (Timer.lua:163) is not
  seen; an Event is added when it waits in no Timer, as in the examples and tests; an
  action does not call `run` of its own Timer; the kinds of action objects (a Society, a
  chart) are calls like any other.
- *Society*: named placements (with the strategy `spread`, `createPlacement` enters the default
  one whatever the name, Environment.lua:96, and `walkIfEmpty` and `walkToEmpty` move in
  the default one), agents without a Society, an agent added twice, one traversal inside
  another, traversals of Groups, `init`, observers; which cell a walk chooses is free.
- *Environment*: `loadNeighborhood`; the events of one Timer are not added to
  another; `Environment:add` of a Timer during a run; a reference to the merged
  Timer that is kept after the run, and an action that calls `run`; the default final time
  that Models inside an Environment give; `config` of an event outside its action (see `Timer`).

- *Messages*: all agents are in one Society; `on_message` and named functions are the same
  call; the content of a message.
- *StateMachine*: States and Trajectories that are added after the construction (the
  vector is allocated again, and what points into it dangles), a second space, and rules that
  execute machines.
- *UDP*: several hosts, changes of port, compression and hosts while it runs, the compression
  itself, the windows.  The text is not interpreted: `processDatagram(QByteArray)` does
  nothing with it, and the message that announces the end of the simulation is
  never sent.
- *CellMap*: the grouping by standard deviation (single precision sums, and a maximum that
  starts at the smallest positive number), texts, booleans, neighbourhoods, layers of agents beyond
  the making of the legend, and what a user changes in the legend window.  Painting threads:
  a picture is drawn before the next state.

## Not modelled

| part | why |
|---|---|
| Social networks, groups (`SocialNetwork.lua`, `Group.lua`) | tables and sorted vectors, changed by one call at a time |
| Cellular spaces, neighborhoods, trajectories (`CellularSpace.lua` and others) | sequential containers and geometry: what can be wrong are numbers, not their order in time |
| Observers and subjects (`observerImpl.cpp`, `registryObjects.h`) | attachment and the dispatch of `notify`; maps and UDP begin at their `draw` |
| Charts and other windows | arguments, drawing, output |
| C++ scheduler and environment (`core/scheduler.h`, `environment.h`) | superseded: `Timer.lua` and `Environment.lua` no longer call their `execute` |
| `Model` and its parameters | checks of types, and one call of `run` |
| Utilities, random numbers, files | no protocol |
| Interpreter, wrappers, command line | start-up and dispatch |
| The packages `gis`, `luadoc` and `ui`, TerraLib, Qt, the installer, the build, the IDE, the test driver | input and output, third-party code, or tools around the program |

Most of the repository's lines are in these parts: windows, wrappers that copy values between
Lua and C++, file formats.  They have no state that several steps or several actors change.
