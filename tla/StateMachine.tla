---------------------------- MODULE StateMachine ----------------------------
(***************************************************************************)
(* The state machines of agents and automata (agent.h, controlMode.h,      *)
(* process.h, rule.h, the jump and flow conditions of Lua, and cell.h and  *)
(* environment.h where they keep the modes of an automaton).               *)
(*                                                                         *)
(* A machine copies the handles of its States into a vector.  build sets   *)
(* the target of each Jump to an element of that vector; the Jump belongs  *)
(* to the State, and machines may share States.  An agent has one mode, an *)
(* automaton has a mode in each cell of the spaces that it was attached    *)
(* to.  execute visits the cells of the machine's trajectories: it follows *)
(* the Jumps of the current mode while one of them jumps, then it executes *)
(* the Flows of the mode.                                                  *)
(***************************************************************************)
EXTENDS Integers, Sequences, FiniteSets

CONSTANTS
    Agent, Automaton,  \* the machines: TeGlobalAutomaton, TeLocalAutomaton
    State,             \* the States
    Id,                \* the id of each State
    Jumps,             \* the ids of the targets of its Jumps, in their order
    Flows,             \* how many Flows it has
    Compositions,      \* the States that the machines may be declared with
    Trajectories,      \* the Trajectories that a machine may have
    Cell,              \* the cells of the CellularSpace
    Alone,             \* an agent executes without a cell
    Null,              \* a pointer that is not set
    MaxBuilt,          \* bound: the machines that a program constructs
    MaxTime,           \* bound: the times of the events
    MaxTrue            \* bound: true conditions in one execution

Machine == Agent \cup Automaton

ASSUME StateMachineAssumption ==
    /\ Agent \cap Automaton = {}
    /\ DOMAIN Id = State
    /\ DOMAIN Jumps = State /\ \A s \in State : DOMAIN Jumps[s] = 1..Len(Jumps[s])
    /\ \A s \in State : Len(Jumps[s]) \in Nat
    /\ Flows \in [State -> Nat]
    /\ Compositions \subseteq [Machine -> Seq(State) \ {<<>>}]
    /\ Trajectories \subseteq Seq(Seq(Cell))
    /\ Alone \notin Cell /\ Null \notin Machine \X State
    /\ MaxBuilt \in Nat /\ MaxTime \in Nat /\ MaxTrue \in Nat

(* An element of the vector of a machine: the machine, and the State whose *)
(* handle it is.                                                           *)
Mode == Machine \X State
Jump == UNION {{s} \X DOMAIN Jumps[s] : s \in State}

(* Where the current modes are kept. *)
Slot == (Agent \X {Alone}) \cup (Automaton \X Cell)

VARIABLES
    states, regions,  \* the States and the Trajectories of each machine
    life,             \* "new", "built", "failed", or "gone" when collected
    target,           \* the target mode of each Jump
    space, inside,    \* the space, and which automata, are in the Environment
    mode,             \* the current mode in each slot
    status,           \* setTrajectoryStatus of each machine
    changed,          \* lastChangeTime of each agent
    late,             \* history: the automata that came before the space
    pc, m, time,      \* where execute is, for which machine, at which time
    lone,             \* it executes without a cell
    r, c, j, f,       \* its region, and the places in it and in the rules
    taken,            \* how many conditions were true in this execution
    asked,            \* history: the conditions found false since the jump
    ran,              \* history: the Flows executed in this cell
    seen, steady,     \* history: the cells visited, with the status on
    since,            \* history: when each agent got another State
    lost,             \* history: where an automaton took a Jump to nowhere
    alive             \* FALSE once the process died

setup == <<states, regions, life, target, space, inside, late>>
loop  == <<pc, m, time, lone, r, c, j, f, taken>>
hist  == <<asked, ran, seen, steady, since, lost>>
vars  == <<setup, mode, status, changed, loop, hist, alive>>

Init ==
    /\ states \in Compositions /\ regions \in [Machine -> Trajectories]
    /\ life = [x \in Machine |-> "new"]
    /\ target = [q \in Jump |-> Null]
    /\ space = FALSE /\ inside = {} /\ late = {}
    /\ mode = [x \in Slot |-> Null]
    /\ status = [x \in Machine |-> FALSE]
    /\ changed = [x \in Agent |-> 0] /\ since = [x \in Agent |-> 0]
    /\ pc = "idle" /\ m \in Machine /\ time = 0 /\ lone = FALSE
    /\ r = 1 /\ c = 1 /\ j = 1 /\ f = 1 /\ taken = 0
    /\ asked = {} /\ ran = <<>> /\ seen = {} /\ steady = FALSE /\ lost = {}
    /\ alive = TRUE

----------------------------------------------------------------------------
(* The constructors: the machine x is declared with its States, and built. *)

(* The places of its Jumps, in the order in which build looks at them. *)
Places(x) == UNION {{i} \X DOMAIN Jumps[states[x][i]] : i \in DOMAIN states[x]}
UpTo(x, p) == {q \in Places(x) : q[1] < p[1] \/ (q[1] = p[1] /\ q[2] <= p[2])}

WithId(x, name) == {i \in DOMAIN states[x] : Id[states[x][i]] = name}
Named(x, name) == CHOOSE i \in WithId(x, name) : \A k \in WithId(x, name) : i <= k
NameAt(x, p)   == Jumps[states[x][p[1]]][p[2]]

(* The Jumps that build configures before it finds no State for one. *)
Configured(x) == {p \in Places(x) : \A q \in UpTo(x, p) : WithId(x, NameAt(x, q)) # {}}
Configures(x, q) == \E p \in Configured(x) : states[x][p[1]] = q[1] /\ p[2] = q[2]

Build(x) ==
    /\ alive /\ pc = "idle" /\ life[x] = "new"
    /\ Cardinality({y \in Machine : life[y] # "new"}) < MaxBuilt
    /\ target' = [q \in Jump |->
                    IF Configures(x, q)
                    THEN <<x, states[x][Named(x, Jumps[q[1]][q[2]])]>>
                    ELSE target[q]]
    /\ IF Configured(x) = Places(x)
       THEN life' = [life EXCEPT ![x] = "built"] /\ alive' = TRUE
       ELSE life' = [life EXCEPT ![x] = "failed"] /\ alive' = (x \in Agent)  \* qFatal
    /\ UNCHANGED <<states, regions, space, inside, late, mode, status, changed, loop,
                   hist>>

(* Nothing in Lua or in the Environment refers to the machine any more, and *)
(* its vector goes with it.                                                 *)
Collect(x) ==
    /\ alive /\ pc = "idle" /\ life[x] \in {"built", "failed"} /\ x \notin inside
    /\ life' = [life EXCEPT ![x] = "gone"]
    /\ UNCHANGED <<states, regions, target, space, inside, late, mode, status, changed,
                   loop, hist, alive>>

(* Environment::add: an automaton is attached to the space that is there.  *)
(* A space that comes later is attached to the copy of the automaton that  *)
(* the Environment has made, which is never executed.                      *)
AddSpace ==
    /\ alive /\ pc = "idle" /\ ~space
    /\ space' = TRUE
    /\ UNCHANGED <<states, regions, life, target, inside, late, mode, status, changed,
                   loop, hist, alive>>

InitialMode(x) == <<x, states[x][1]>>

AddAutomaton(x) ==
    /\ alive /\ pc = "idle" /\ life[x] = "built" /\ x \notin inside
    /\ inside' = inside \cup {x}
    /\ late' = IF space THEN late ELSE late \cup {x}
    /\ mode' = IF space
               THEN [k \in Slot |-> IF k[1] = x THEN InitialMode(x) ELSE mode[k]]
               ELSE mode
    /\ UNCHANGED <<states, regions, life, target, space, status, changed, loop, hist, alive>>

(* setTrajectoryStatus, by the script or by a rule of the machine. *)
SetStatus(x) ==
    /\ alive /\ life[x] = "built" /\ (pc = "idle" \/ (pc \in {"jumps", "flows"} /\ x = m))
    /\ status' = [status EXCEPT ![x] = ~@]
    /\ steady' = (steady /\ x # m)
    /\ UNCHANGED <<setup, mode, changed, loop, asked, ran, seen, since, lost, alive>>

----------------------------------------------------------------------------
(* execute *)

OnCells(x) == status[x] /\ regions[x] # <<>>
Region == regions[m][r]
Here   == IF m \in Agent THEN <<m, Alone>> ELSE <<m, Region[c]>>
Now    == mode[Here][2]

(* An agent that has no mode yet gets its first State. *)
ModeLeft(x) == mode                          \* mutant: the test for NULL is missing
FirstMode(x) ==
    IF x \in Agent /\ mode[<<x, Alone>>] = Null
    THEN [mode EXCEPT ![<<x, Alone>>] = InitialMode(x)]
    ELSE mode

(* The variables of execute when it begins, and when it is over. *)
Start ==
    /\ r' = 1 /\ c' = 1 /\ j' = 1 /\ f' = 1 /\ taken' = 0
    /\ asked' = {} /\ ran' = <<>> /\ seen' = {}

Over == pc' = "idle" /\ lone' = FALSE /\ steady' = FALSE /\ Start

(* Without trajectories an agent executes alone and an automaton does not. *)
Execute(x, t) ==
    /\ alive /\ pc = "idle" /\ life[x] = "built" /\ t \in time..MaxTime
    /\ m' = x /\ time' = t /\ lone' = (~OnCells(x) /\ x \in Agent) /\ Start
    /\ steady' = OnCells(x)
    /\ mode' = FirstMode(x)
    /\ pc' = CASE OnCells(x) -> "next"
               [] ~OnCells(x) /\ x \in Agent -> "jumps"
               [] OTHER -> "idle"
    /\ UNCHANGED <<setup, status, changed, since, lost, alive>>

(* The next cell.  An agent looks at its status at each cell, an automaton *)
(* at each region.  A cell that has no mode for the automaton is left out. *)
InRegion == r <= Len(regions[m]) /\ c <= Len(Region)
GoesOn   == status[m] \/ (m \in Automaton /\ c > 1)
Visits   == pc = "next" /\ InRegion /\ GoesOn

NextCell ==
    /\ alive /\ Visits /\ mode[Here] # Null
    /\ pc' = "jumps" /\ j' = 1 /\ f' = 1
    /\ asked' = {} /\ ran' = <<>>
    /\ UNCHANGED <<setup, mode, status, changed, m, time, lone, r, c, taken, seen, steady, since,
                   lost, alive>>

SkipCell ==
    /\ alive /\ Visits /\ mode[Here] = Null
    /\ c' = c + 1
    /\ UNCHANGED <<setup, mode, status, changed, pc, m, time, lone, r, j, f, taken, hist, alive>>

NoPlace    == 0                              \* mutant: one before the first
SamePlace  == c                              \* mutant: the iterator is not reset
FirstPlace == 1

NextRegion ==
    /\ alive /\ pc = "next" /\ r <= Len(regions[m]) /\ ~(InRegion /\ GoesOn)
    /\ r' = r + 1 /\ c' = FirstPlace
    /\ UNCHANGED <<setup, mode, status, changed, pc, m, time, lone, j, f, taken, hist,
                   alive>>

Return ==
    /\ alive /\ pc = "next" /\ r > Len(regions[m])
    /\ Over
    /\ UNCHANGED <<setup, mode, status, changed, m, time, since, lost, alive>>

(* A condition is false, or raises an error, which is printed. *)
JumpFalse ==
    /\ alive /\ pc = "jumps" /\ j <= Len(Jumps[Now])
    /\ j' = j + 1 /\ asked' = asked \cup {<<Now, j>>}
    /\ UNCHANGED <<setup, mode, status, changed, pc, m, time, lone, r, c, f, taken, ran, seen,
                   steady, since, lost, alive>>

(* A condition is true: the machine gets the target, which for an agent is *)
(* no change when it is the current mode, and begins again with its Jumps. *)
NeverSame(q) == FALSE                        \* mutant: no early return in jump
SameMode(q)  == m \in Agent /\ target[q] = mode[Here]
GoOn    == j + 1                             \* mutant: break is missing
Again   == 1

HasTarget == target[<<Now, j>>] # Null
True      == alive /\ pc = "jumps" /\ j <= Len(Jumps[Now]) /\ taken < MaxTrue

JumpTrue ==
    /\ True /\ HasTarget
    /\ LET q == <<Now, j>> IN
       /\ mode' = [mode EXCEPT ![Here] = target[q]]
       /\ changed' = IF m \in Agent /\ ~SameMode(q)
                     THEN [changed EXCEPT ![m] = time] ELSE changed
       /\ since' = IF m \in Agent /\ target[q][2] # Now
                   THEN [since EXCEPT ![m] = time] ELSE since
    /\ j' = Again /\ taken' = taken + 1 /\ asked' = {}
    /\ UNCHANGED <<setup, status, pc, m, time, lone, r, c, f, ran, seen, steady, lost, alive>>

(* A condition is true whose Jump no build has configured: an automaton    *)
(* has no mode in this cell any more, and goes on with the next one.       *)
SameCell  == c                               \* mutant: the iterator stays
NextPlace == c + 1

JumpNowhere ==
    /\ True /\ ~HasTarget /\ m \in Automaton
    /\ mode' = [mode EXCEPT ![Here] = Null] /\ lost' = lost \cup {Here}
    /\ pc' = "next" /\ c' = NextPlace
    /\ taken' = taken + 1 /\ asked' = {}
    /\ UNCHANGED <<setup, status, changed, m, time, lone, r, j, f, ran, seen, steady, since, alive>>

(* An agent executes that mode: it has none, and the process may die.      *)
AgentDies ==
    /\ True /\ ~HasTarget /\ m \in Agent
    /\ alive' = FALSE
    /\ UNCHANGED <<setup, mode, status, changed, loop, hist>>

(* It may also die when the vector of the mode was collected. *)
ModeDies ==
    /\ alive /\ pc \in {"jumps", "flows"} /\ life[mode[Here][1]] = "gone"
    /\ alive' = FALSE
    /\ UNCHANGED <<setup, mode, status, changed, loop, hist>>

NoJump ==
    /\ alive /\ pc = "jumps" /\ j > Len(Jumps[Now])
    /\ pc' = "flows" /\ f' = 1
    /\ UNCHANGED <<setup, mode, status, changed, m, time, lone, r, c, j, taken, hist, alive>>

Flow ==
    /\ alive /\ pc = "flows" /\ f <= Flows[Now]
    /\ f' = f + 1 /\ ran' = Append(ran, <<Now, f>>)
    /\ UNCHANGED <<setup, mode, status, changed, pc, m, time, lone, r, c, j, taken, asked,
                   seen, steady, since, lost, alive>>

(* An error of a Flow ends the execution. *)
FlowRaises ==
    /\ alive /\ pc = "flows" /\ f <= Flows[Now]
    /\ Over
    /\ UNCHANGED <<setup, mode, status, changed, m, time, since, lost, alive>>

(* The Flows are over. *)
EndCell ==
    /\ alive /\ pc = "flows" /\ f > Flows[Now]
    /\ IF lone
       THEN Over
       ELSE /\ pc' = "next" /\ c' = NextPlace /\ seen' = seen \cup {<<r, c>>}
            /\ UNCHANGED <<lone, r, j, f, taken, asked, ran, steady>>
    /\ UNCHANGED <<setup, mode, status, changed, m, time, since, lost, alive>>

Step == \/ NextCell \/ SkipCell \/ NextRegion \/ Return
        \/ JumpFalse \/ JumpTrue \/ JumpNowhere \/ NoJump \/ Flow \/ FlowRaises \/ EndCell

Next ==
    \/ \E x \in Machine :
          \/ Build(x) \/ Collect(x) \/ SetStatus(x)
          \/ \E t \in 0..MaxTime : Execute(x, t)
    \/ AddSpace \/ \E x \in Automaton : AddAutomaton(x)
    \/ Step \/ AgentDies \/ ModeDies

Spec == Init /\ [][Next]_vars

(* The loops of execute go on: nothing else runs meanwhile. *)
FairSpec == Spec /\ WF_vars(Step)

----------------------------------------------------------------------------
TypeOK ==
    /\ states \in [Machine -> Seq(State) \ {<<>>}] /\ regions \in [Machine -> Trajectories]
    /\ life \in [Machine -> {"new", "built", "failed", "gone"}]
    /\ target \in [Jump -> Mode \cup {Null}]
    /\ space \in BOOLEAN /\ inside \subseteq Automaton
    /\ mode \in [Slot -> Mode \cup {Null}]
    /\ status \in [Machine -> BOOLEAN]
    /\ changed \in [Agent -> 0..MaxTime] /\ since \in [Agent -> 0..MaxTime]
    /\ pc \in {"idle", "next", "jumps", "flows"} /\ m \in Machine /\ time \in 0..MaxTime
    /\ lone \in BOOLEAN /\ taken \in 0..MaxTrue
    /\ r \in Nat \ {0} /\ c \in Nat \ {0} /\ j \in Nat \ {0} /\ f \in Nat \ {0}
    /\ asked \subseteq Jump /\ ran \in Seq(State \X Nat)
    /\ seen \subseteq (Nat \X Nat) /\ steady \in BOOLEAN /\ alive \in BOOLEAN
    /\ lost \subseteq Slot

(* The Flows are those of the mode in which the machine settled, each once *)
(* and in their order, after all the conditions of that mode were false,   *)
(* and of no mode on the way ("When the machine stops jumping, it executes *)
(* all the Flows of the current State", Automaton.lua:44-46).              *)
FlowsWhenSettled ==
    /\ pc \in {"jumps", "flows"} =>
          /\ \A i \in DOMAIN ran : ran[i] = <<Now, i>>
          /\ ran # <<>> => asked = {q \in Jump : q[1] = Now}
    /\ pc = "next" /\ seen # {} =>
          \A i \in DOMAIN ran : i = ran[i][2] /\ Len(ran) = Flows[ran[i][1]]

(* No State of the machine is in another one that was declared. *)
Unshared(x) ==
    \A y \in Machine \ {x} :
        life[y] # "new" => {states[x][i] : i \in DOMAIN states[x]}
                           \cap {states[y][i] : i \in DOMAIN states[y]} = {}

(* A machine whose States are its own is always in one of them.  build of a *)
(* machine that shares a State sends the Jumps of both to its own States.   *)
OwnModes ==
    /\ pc \in {"jumps", "flows"} => mode[Here] # Null
    /\ \A k \in Slot :
          mode[k] # Null /\ Unshared(k[1]) =>
              mode[k][1] = k[1] /\ \E i \in DOMAIN states[k[1]] : mode[k][2] = states[k[1]][i]

(* getLatency is "the time when the State machine executed the transition  *)
(* to the current state" (Agent.lua:299): a Jump to the State where the    *)
(* agent is does not count.                                                *)
LatencyIsTransition == \A x \in Agent : Unshared(x) => changed[x] = since[x]

(* When execute returns, the rules were executed in every place of the     *)
(* trajectories, and for an automaton in every one whose cell it did not   *)
(* leave by a Jump that no build had configured, now or in an earlier      *)
(* execution; as long as no rule turned the status off, and the            *)
(* Environment got the space before the automaton.                         *)
AllPlaces == UNION {{i} \X DOMAIN regions[m][i] : i \in DOMAIN regions[m]}
VisitsEveryCell ==
    [][ Return /\ steady /\ (m \in Automaton => m \in inside \ late) =>
            /\ seen \subseteq AllPlaces
            /\ \A p \in AllPlaces \ seen : <<m, regions[m][p[1]][p[2]]>> \in lost ]_vars

(* execute returns when conditions become true only finitely often. *)
ExecuteReturns == pc # "idle" ~> (pc = "idle" \/ ~alive)
=============================================================================
