------------------------ MODULE StateMachine_proofs ------------------------
(***************************************************************************)
(* What holds of the state machines for all States, Jumps, Flows and       *)
(* Trajectories, and any machines that share States: the Flows are those   *)
(* of the mode that the machine settled in, a machine that shares no State *)
(* stays in its own, and its latency is that of its last transition.       *)
(***************************************************************************)
EXTENDS StateMachine, SequenceTheorems, NaturalsInduction, WellFoundedInduction, TLAPS

Own(x) == {states[x][i] : i \in DOMAIN states[x]}

(* Inside the rules the machine is in a cell, and it has a mode there. *)
PlaceInv ==
    pc \in {"jumps", "flows"} =>
        /\ mode[Here] # Null
        /\ m \in Automaton => r <= Len(regions[m]) /\ c <= Len(Region)

(* How far execute is with the Jumps and the Flows of the mode. *)
RulesInv ==
    /\ pc = "jumps" =>
          /\ j <= Len(Jumps[Now]) + 1 /\ ran = <<>>
          /\ asked = {<<Now, i>> : i \in 1..(j - 1)}
    /\ pc = "flows" =>
          /\ f <= Flows[Now] + 1 /\ Len(ran) = f - 1
          /\ asked = {q \in Jump : q[1] = Now}

(* A Jump that has a target has it from build of a machine with its State. *)
TargetInv ==
    \A q \in Jump : target[q] # Null =>
        /\ life[target[q][1]] # "new"
        /\ q[1] \in Own(target[q][1]) /\ target[q][2] \in Own(target[q][1])

IInv == /\ TypeOK /\ PlaceInv /\ RulesInv /\ TargetInv
        /\ FlowsWhenSettled /\ OwnModes /\ LatencyIsTransition

----------------------------------------------------------------------------
LEMMA ConstantFacts ==
    /\ \A s \in State : DOMAIN Jumps[s] = 1..Len(Jumps[s]) /\ Len(Jumps[s]) \in Nat
    /\ \A s \in State : Flows[s] \in Nat
    /\ \A s \in State : \A i \in 1..Len(Jumps[s]) : <<s, i>> \in Jump
    /\ \A q \in Jump : /\ q[1] \in State /\ q[2] \in 1..Len(Jumps[q[1]])
                       /\ q = <<q[1], q[2]>>
    /\ \A x \in Machine, s \in State : <<x, s>> \in Mode /\ <<x, s>> # Null
<1>1. \A s \in State : DOMAIN Jumps[s] = 1..Len(Jumps[s]) /\ Len(Jumps[s]) \in Nat
  BY StateMachineAssumption
<1>2. \A s \in State : Flows[s] \in Nat
  BY StateMachineAssumption
<1>3. \A q : q \in Jump <=> \E s \in State : \E i \in 1..Len(Jumps[s]) : q = <<s, i>>
  BY <1>1 DEF Jump
<1>4. \A x \in Machine, s \in State : <<x, s>> \in Mode /\ <<x, s>> # Null
  BY StateMachineAssumption DEF Mode
<1> QED  BY <1>1, <1>2, <1>3, <1>4

(* The States of a machine. *)
LEMMA OwnFacts ==
    ASSUME TypeOK, NEW x \in Machine
    PROVE  /\ Own(x) \subseteq State /\ DOMAIN states[x] \subseteq Nat \ {0}
           /\ \A i \in DOMAIN states[x] : states[x][i] \in Own(x)
           /\ InitialMode(x) \in Mode /\ InitialMode(x) # Null
           /\ InitialMode(x)[1] = x /\ InitialMode(x)[2] \in Own(x)
<1>1. states[x] \in Seq(State) /\ states[x] # <<>>
  BY DEF TypeOK
<1>2. /\ Len(states[x]) \in Nat /\ Len(states[x]) > 0 /\ DOMAIN states[x] = 1..Len(states[x])
      /\ \A i \in DOMAIN states[x] : states[x][i] \in State
  BY <1>1
<1>3. 1 \in DOMAIN states[x]
  BY <1>2
<1> QED  BY <1>2, <1>3, ConstantFacts DEF Own, InitialMode

(* The cell that execute is in is a place for a mode. *)
LEMMA CellIsSlot ==
    ASSUME TypeOK, m \in Automaton => r <= Len(regions[m]) /\ c <= Len(Region)
    PROVE  Here \in Slot /\ Here[1] = m /\ m \in Machine
<1>1. m \in Machine /\ r \in Nat \ {0} /\ c \in Nat \ {0} /\ regions[m] \in Seq(Seq(Cell))
  BY StateMachineAssumption DEF TypeOK
<1>2. CASE m \in Agent
  BY <1>1, <1>2 DEF Here, Slot
<1>3. CASE m \notin Agent
  <2>1. m \in Automaton
    BY <1>1, <1>3 DEF Machine
  <2>2. r \in 1..Len(regions[m])
    BY <1>1, <2>1
  <2>3. Region \in Seq(Cell)
    BY <1>1, <2>2 DEF Region
  <2>4. c \in 1..Len(Region)
    BY <1>1, <2>1, <2>3
  <2>5. Region[c] \in Cell
    BY <2>3, <2>4
  <2> QED  BY <1>1, <1>3, <2>1, <2>5 DEF Here, Slot
<1> QED  BY <1>2, <1>3

LEMMA HereFacts ==
    ASSUME IInv, pc \in {"jumps", "flows"}
    PROVE  /\ Here \in Slot /\ Here[1] = m /\ m \in Machine
           /\ mode[Here] \in Mode /\ mode[Here] = <<mode[Here][1], Now>>
           /\ mode[Here][1] \in Machine /\ Now \in State
<1>1. Here \in Slot /\ Here[1] = m /\ m \in Machine
  BY CellIsSlot DEF IInv, PlaceInv
<1>2. mode[Here] \in Mode
  BY <1>1 DEF IInv, TypeOK, PlaceInv
<1> QED  BY <1>1, <1>2 DEF Mode, Now

LEMMA InitInv == Init => IInv
<1> SUFFICES ASSUME Init PROVE IInv
  OBVIOUS
<1>1. <<>> \in Seq(State \X Nat) /\ DOMAIN <<>> = {}
  OBVIOUS
<1>2. TypeOK
  <2>1. states \in [Machine -> Seq(State) \ {<<>>}] /\ regions \in [Machine -> Trajectories]
    BY StateMachineAssumption DEF Init
  <2>2. /\ life \in [Machine -> {"new", "built", "failed", "gone"}]
        /\ target \in [Jump -> Mode \cup {Null}] /\ mode \in [Slot -> Mode \cup {Null}]
        /\ status \in [Machine -> BOOLEAN] /\ inside = {}
    BY DEF Init
  <2>3. /\ changed \in [Agent -> 0..MaxTime] /\ since \in [Agent -> 0..MaxTime]
        /\ time \in 0..MaxTime /\ taken \in 0..MaxTrue
    BY StateMachineAssumption DEF Init
  <2>4. /\ space \in BOOLEAN /\ lone \in BOOLEAN /\ steady \in BOOLEAN /\ alive \in BOOLEAN
        /\ lost = {}
    BY DEF Init
  <2> QED  BY <1>1, <2>1, <2>2, <2>3, <2>4 DEF Init, TypeOK
<1>3. \A q \in Jump : target[q] = Null
  BY DEF Init
<1>4. \A k \in Slot : mode[k] = Null
  BY DEF Init
<1>5. \A x \in Agent : changed[x] = since[x]
  BY DEF Init
<1>6. pc = "idle"
  BY DEF Init
<1> QED  BY <1>2, <1>3, <1>4, <1>5, <1>6
         DEF IInv, PlaceInv, RulesInv, TargetInv, FlowsWhenSettled, OwnModes,
             LatencyIsTransition

----------------------------------------------------------------------------
(* The smallest element of a set of naturals. *)
LEMMA LeastOf ==
    ASSUME NEW T, T \subseteq Nat, T # {}
    PROVE  \E x \in T : \A y \in T : x <= y
<1> DEFINE R == {p \in Nat \X Nat : p[1] < p[2]}
<1>1. IsWellFoundedOn(R, Nat)
  BY NatLessThanWellFounded DEF OpToRel
<1> HIDE DEF R
<1>2. PICK x \in T : \A y \in T : ~(<<y, x>> \in R)
  BY <1>1, WFMin
<1>3. x \in Nat /\ \A y \in T : y \in Nat /\ ~(y < x)
  BY <1>2 DEF R
<1> QED  BY <1>3

(* What build configures has its State, and its target, in the machine. *)
LEMMA TargetsAreOwn ==
    ASSUME TypeOK, NEW x \in Machine, NEW q \in Jump, Configures(x, q)
    PROVE  /\ q[1] \in Own(x)
           /\ states[x][Named(x, Jumps[q[1]][q[2]])] \in Own(x)
<1>1. PICK p \in Configured(x) : states[x][p[1]] = q[1] /\ p[2] = q[2]
  BY DEF Configures
<1>2. /\ p \in Places(x) /\ p[1] \in DOMAIN states[x] /\ p[2] \in DOMAIN Jumps[states[x][p[1]]]
      /\ \A z \in UpTo(x, p) : WithId(x, NameAt(x, z)) # {}
  BY <1>1 DEF Configured, Places
<1>3. p[1] \in Nat /\ p[2] \in Nat
  BY <1>1, <1>2, OwnFacts, ConstantFacts
<1>4. p \in UpTo(x, p)
  BY <1>2, <1>3 DEF UpTo
<1> DEFINE name == Jumps[q[1]][q[2]]
<1>5. WithId(x, name) # {} /\ WithId(x, name) \subseteq DOMAIN states[x]
  BY <1>1, <1>2, <1>4 DEF NameAt, WithId
<1>6. WithId(x, name) \subseteq Nat
  BY <1>5, OwnFacts
<1> HIDE DEF name
<1>7. \E i \in WithId(x, name) : \A k \in WithId(x, name) : i <= k
  BY <1>5, <1>6, LeastOf
<1>8. Named(x, name) \in WithId(x, name)
  BY <1>7 DEF Named
<1>9. q[1] \in Own(x)
  BY <1>1, <1>2 DEF Own
<1> QED  BY <1>5, <1>8, <1>9, OwnFacts DEF name

(* A machine that shares no State never did: life does not go back. *)
LEMMA UnsharedBefore ==
    ASSUME states' = states, \A y \in Machine : life'[y] = "new" => life[y] = "new",
           NEW x \in Machine, Unshared(x)'
    PROVE  Unshared(x)
BY DEF Unshared

(* Most steps change no States, no lives and no targets. *)
LEMMA SetupKept ==
    ASSUME UNCHANGED <<states, life>>
    PROVE  \A y : Unshared(y)' = Unshared(y) /\ Own(y)' = Own(y)
<1>1. \A y : Own(y)' = Own(y)
  BY DEF Own
<1>2. \A y : Unshared(y)' = Unshared(y)
  BY DEF Unshared
<1> QED  BY <1>1, <1>2

LEMMA BuildInv ==
    ASSUME IInv, NEW x \in Machine, Build(x)
    PROVE  IInv'
<1>1. /\ pc = "idle" /\ life[x] = "new" /\ alive
      /\ target' = [q \in Jump |-> IF Configures(x, q)
                                   THEN <<x, states[x][Named(x, Jumps[q[1]][q[2]])]>>
                                   ELSE target[q]]
      /\ UNCHANGED <<states, regions, space, inside, late, mode, status, changed, loop, hist>>
  BY DEF Build
<1>2. UNCHANGED <<pc, m, time, lone, r, c, j, f, taken, asked, ran, seen, steady, since, lost>>
  BY <1>1 DEF loop, hist
<1>3. /\ life' \in [Machine -> {"new", "built", "failed", "gone"}] /\ alive' \in BOOLEAN
      /\ life'[x] # "new" /\ \A y \in Machine \ {x} : life'[y] = life[y]
  <2>1. life \in [Machine -> {"new", "built", "failed", "gone"}]
    BY DEF IInv, TypeOK
  <2>2. CASE Configured(x) = Places(x)
    BY <2>1, <2>2 DEF Build
  <2>3. CASE Configured(x) # Places(x)
    <3>1. life' = [life EXCEPT ![x] = "failed"] /\ alive' = (x \in Agent)
      BY <2>3 DEF Build
    <3> QED  BY <2>1, <3>1
  <2> QED  BY <2>2, <2>3
<1>4. ASSUME NEW q \in Jump
      PROVE  IF Configures(x, q)
             THEN /\ target'[q][1] = x /\ target'[q][2] \in Own(x) /\ q[1] \in Own(x)
                  /\ target'[q] \in Mode
             ELSE target'[q] = target[q]
  <2>1. CASE Configures(x, q)
    <3>1. /\ q[1] \in Own(x) /\ states[x][Named(x, Jumps[q[1]][q[2]])] \in Own(x)
          /\ Own(x) \subseteq State
      BY <2>1, TargetsAreOwn, OwnFacts DEF IInv
    <3> QED  BY <1>1, <2>1, <3>1 DEF Mode
  <2>2. CASE ~Configures(x, q)
    BY <1>1, <2>2
  <2> QED  BY <2>1, <2>2
<1>5. target' \in [Jump -> Mode \cup {Null}]
  <2>1. \A q \in Jump : target'[q] \in Mode \cup {Null}
    BY <1>4 DEF IInv, TypeOK
  <2> QED  BY <1>1, <2>1
<1>6. TypeOK'
  BY <1>1, <1>2, <1>3, <1>5 DEF IInv, TypeOK
<1>7. TargetInv'
  <2>1. \A y : Own(y)' = Own(y)
    BY <1>1 DEF Own
  <2> SUFFICES ASSUME NEW q \in Jump, target'[q] # Null
               PROVE  /\ life'[target'[q][1]] # "new"
                      /\ q[1] \in Own(target'[q][1]) /\ target'[q][2] \in Own(target'[q][1])
    BY <2>1 DEF TargetInv
  <2>2. CASE Configures(x, q)
    BY <1>3, <1>4, <2>2
  <2>3. CASE ~Configures(x, q)
    <3>1. target'[q] = target[q] /\ target[q] \in Mode
      BY <1>4, <2>3 DEF IInv, TypeOK
    <3>2. target[q][1] \in Machine
      BY <3>1 DEF Mode
    <3> QED  BY <1>3, <3>1, <3>2 DEF IInv, TargetInv
  <2> QED  BY <2>2, <2>3
<1>8. \A y \in Machine : Unshared(y)' => Unshared(y)
  BY <1>1, <1>3, UnsharedBefore
<1>9. OwnModes' /\ LatencyIsTransition'
  <2>1. \A k \in Slot : k[1] \in Machine
    BY DEF Slot, Machine
  <2>2. \A y \in Agent : y \in Machine
    BY DEF Machine
  <2> QED  BY <1>1, <1>2, <1>8, <2>1, <2>2 DEF IInv, OwnModes, LatencyIsTransition
<1>10. PlaceInv' /\ RulesInv' /\ FlowsWhenSettled'
  BY <1>1, <1>2 DEF PlaceInv, RulesInv, FlowsWhenSettled
<1> QED  BY <1>6, <1>7, <1>9, <1>10 DEF IInv

(* The other calls of a script: none changes a target. *)
LEMMA CollectInv ==
    ASSUME IInv, NEW x \in Machine, Collect(x)
    PROVE  IInv'
<1>1. /\ pc = "idle" /\ life' = [life EXCEPT ![x] = "gone"] /\ life[x] # "new"
      /\ UNCHANGED <<states, regions, target, space, inside, late, mode, status, changed, alive>>
      /\ UNCHANGED <<pc, m, time, lone, r, c, j, f, taken, asked, ran, seen, steady, since, lost>>
  BY DEF Collect, loop, hist
<1>2. /\ life' \in [Machine -> {"new", "built", "failed", "gone"}]
      /\ \A y \in Machine : life'[y] = "new" <=> life[y] = "new"
  BY <1>1 DEF IInv, TypeOK
<1>3. TypeOK'
  BY <1>1, <1>2 DEF IInv, TypeOK
<1>4. TargetInv'
  <2>1. \A q \in Jump : target[q] # Null => target[q][1] \in Machine
    BY DEF IInv, TypeOK, Mode
  <2>2. \A y : Own(y)' = Own(y)
    BY <1>1 DEF Own
  <2> QED  BY <1>1, <1>2, <2>1, <2>2 DEF IInv, TargetInv
<1>5. \A y \in Machine : Unshared(y)' => Unshared(y)
  BY <1>1, <1>2, UnsharedBefore
<1>6. OwnModes' /\ LatencyIsTransition'
  <2>1. \A k \in Slot : k[1] \in Machine
    BY DEF Slot, Machine
  <2>2. \A y \in Agent : y \in Machine
    BY DEF Machine
  <2> QED  BY <1>1, <1>5, <2>1, <2>2 DEF IInv, OwnModes, LatencyIsTransition
<1>7. PlaceInv' /\ RulesInv' /\ FlowsWhenSettled'
  BY <1>1 DEF PlaceInv, RulesInv, FlowsWhenSettled
<1> QED  BY <1>3, <1>4, <1>6, <1>7 DEF IInv

LEMMA AddSpaceInv == IInv /\ AddSpace => IInv'
<1> SUFFICES ASSUME IInv, AddSpace PROVE IInv'
  OBVIOUS
<1>1. /\ pc = "idle" /\ space' = TRUE
      /\ UNCHANGED <<states, regions, life, target, inside, late, mode, status, changed, alive>>
      /\ UNCHANGED <<pc, m, time, lone, r, c, j, f, taken, asked, ran, seen, steady, since, lost>>
  BY DEF AddSpace, loop, hist
<1>2. TypeOK'
  BY <1>1 DEF IInv, TypeOK
<1>3. TargetInv' /\ OwnModes' /\ LatencyIsTransition'
  <2>1. \A y : Unshared(y)' = Unshared(y) /\ Own(y)' = Own(y)
    BY <1>1, SetupKept
  <2>2. TargetInv' /\ LatencyIsTransition'
    BY <1>1, <2>1 DEF IInv, TargetInv, LatencyIsTransition
  <2>3. OwnModes'
    BY <1>1, <2>1 DEF IInv, OwnModes
  <2> QED  BY <2>2, <2>3
<1>4. PlaceInv' /\ RulesInv' /\ FlowsWhenSettled'
  BY <1>1 DEF PlaceInv, RulesInv, FlowsWhenSettled
<1> QED  BY <1>2, <1>3, <1>4 DEF IInv

LEMMA AddAutomatonInv ==
    ASSUME IInv, NEW x \in Automaton, AddAutomaton(x)
    PROVE  IInv'
<1>1. /\ pc = "idle" /\ inside' = inside \cup {x}
      /\ mode' = IF space
                 THEN [k \in Slot |-> IF k[1] = x THEN InitialMode(x) ELSE mode[k]]
                 ELSE mode
      /\ UNCHANGED <<states, regions, life, target, space, status, changed, alive>>
      /\ UNCHANGED <<pc, m, time, lone, r, c, j, f, taken, asked, ran, seen, steady, since, lost>>
  BY DEF AddAutomaton, loop, hist
<1>2. /\ x \in Machine /\ InitialMode(x) \in Mode /\ InitialMode(x) # Null
      /\ InitialMode(x)[1] = x /\ InitialMode(x)[2] \in Own(x)
  BY OwnFacts DEF Machine, IInv
<1>3. /\ mode' \in [Slot -> Mode \cup {Null}]
      /\ \A k \in Slot : mode'[k] = mode[k] \/ (k[1] = x /\ mode'[k] = InitialMode(x))
  BY <1>1, <1>2 DEF IInv, TypeOK
<1>4. TypeOK'
  BY <1>1, <1>3 DEF IInv, TypeOK
<1>5. OwnModes'
  <2>0. \A y : Unshared(y)' = Unshared(y)
    BY <1>1, SetupKept
  <2> SUFFICES ASSUME NEW k \in Slot, mode'[k] # Null, Unshared(k[1])
               PROVE  /\ mode'[k][1] = k[1]
                      /\ \E i \in DOMAIN states[k[1]] : mode'[k][2] = states[k[1]][i]
    BY <1>1, <2>0 DEF OwnModes
  <2>1. CASE mode'[k] = mode[k]
    BY <2>1 DEF IInv, OwnModes
  <2>2. CASE k[1] = x /\ mode'[k] = InitialMode(x)
    BY <1>2, <2>2 DEF Own
  <2> QED  BY <1>3, <2>1, <2>2
<1>6. TargetInv' /\ LatencyIsTransition'
  BY <1>1 DEF IInv, TargetInv, Own, LatencyIsTransition, Unshared
<1>7. PlaceInv' /\ RulesInv' /\ FlowsWhenSettled'
  BY <1>1 DEF PlaceInv, RulesInv, FlowsWhenSettled
<1> QED  BY <1>4, <1>5, <1>6, <1>7 DEF IInv

LEMMA SetStatusInv ==
    ASSUME IInv, NEW x \in Machine, SetStatus(x)
    PROVE  IInv'
<1>1. /\ status' = [status EXCEPT ![x] = ~@] /\ steady' = (steady /\ x # m)
      /\ UNCHANGED <<states, regions, life, target, space, inside, late, mode, changed, alive>>
      /\ UNCHANGED <<pc, m, time, lone, r, c, j, f, taken, asked, ran, seen, since, lost>>
  BY DEF SetStatus, setup, loop
<1>2. status' \in [Machine -> BOOLEAN] /\ steady' \in BOOLEAN
  <2>1. status \in [Machine -> BOOLEAN]
    BY DEF IInv, TypeOK
  <2> QED  BY <1>1, <2>1
<1>3. TypeOK'
  BY <1>1, <1>2 DEF IInv, TypeOK
<1>4. TargetInv' /\ OwnModes' /\ LatencyIsTransition'
  <2>1. \A y : Unshared(y)' = Unshared(y) /\ Own(y)' = Own(y)
    BY <1>1, SetupKept
  <2>2. TargetInv' /\ LatencyIsTransition'
    BY <1>1, <2>1 DEF IInv, TargetInv, LatencyIsTransition
  <2>3. Here' = Here
    BY <1>1 DEF Here, Region
  <2>4. OwnModes'
    BY <1>1, <2>1, <2>3 DEF IInv, OwnModes
  <2> QED  BY <2>2, <2>4
<1>5. PlaceInv' /\ RulesInv' /\ FlowsWhenSettled'
  BY <1>1 DEF IInv, PlaceInv, RulesInv, FlowsWhenSettled, Here, Now, Region
<1> QED  BY <1>3, <1>4, <1>5 DEF IInv

----------------------------------------------------------------------------
(* execute *)

LEMMA ExecuteInv ==
    ASSUME IInv, NEW x \in Machine, NEW t \in 0..MaxTime, Execute(x, t)
    PROVE  IInv'
<1>1. /\ pc = "idle" /\ m' = x /\ time' = t /\ mode' = FirstMode(x)
      /\ r' = 1 /\ c' = 1 /\ j' = 1 /\ f' = 1 /\ taken' = 0
      /\ asked' = {} /\ ran' = <<>> /\ seen' = {}
      /\ UNCHANGED <<states, regions, life, target, space, inside, late, status, changed,
                     since, lost, alive>>
  BY DEF Execute, Start, setup
<1>2. pc' \in {"idle", "next"} \/ (pc' = "jumps" /\ x \in Agent)
  BY DEF Execute
<1>3. lone' \in BOOLEAN /\ steady' \in BOOLEAN
  <2>1. lone' = (~OnCells(x) /\ x \in Agent) /\ steady' = OnCells(x)
    BY DEF Execute
  <2>2. OnCells(x) \in BOOLEAN
    BY DEF OnCells
  <2> QED  BY <2>1, <2>2
<1>4. /\ InitialMode(x) \in Mode /\ InitialMode(x) # Null
      /\ InitialMode(x)[1] = x /\ InitialMode(x)[2] \in Own(x)
  BY OwnFacts DEF IInv
<1>5. /\ mode' \in [Slot -> Mode \cup {Null}]
      /\ \A k \in Slot : mode'[k] = mode[k] \/ (k[1] = x /\ mode'[k] = InitialMode(x))
      /\ x \in Agent => mode'[<<x, Alone>>] # Null
  <2>1. mode \in [Slot -> Mode \cup {Null}]
    BY DEF IInv, TypeOK
  <2>2. x \in Agent => <<x, Alone>> \in Slot
    BY DEF Slot
  <2>3. CASE x \in Agent /\ mode[<<x, Alone>>] = Null
    <3>1. mode' = [mode EXCEPT ![<<x, Alone>>] = InitialMode(x)]
      BY <1>1, <2>3 DEF FirstMode
    <3> QED  BY <1>4, <2>1, <2>2, <2>3, <3>1
  <2>4. CASE ~(x \in Agent /\ mode[<<x, Alone>>] = Null)
    <3>1. mode' = mode
      BY <1>1, <2>4 DEF FirstMode
    <3> QED  BY <2>1, <2>4, <3>1
  <2> QED  BY <2>3, <2>4
<1>6. TypeOK'
  <2>1. ran' \in Seq(State \X Nat) /\ taken' \in 0..MaxTrue
    BY <1>1, StateMachineAssumption
  <2> QED  BY <1>1, <1>2, <1>3, <1>5, <2>1 DEF IInv, TypeOK
<1>7. PlaceInv'
  <2> SUFFICES ASSUME pc' \in {"jumps", "flows"}
               PROVE  mode'[Here'] # Null /\ x \notin Automaton
    BY <1>1 DEF PlaceInv
  <2>1. x \in Agent
    BY <1>2
  <2>2. Here' = <<x, Alone>>
    BY <1>1, <2>1 DEF Here
  <2> QED  BY <1>5, <2>1, <2>2, StateMachineAssumption
<1>8. OwnModes'
  <2>0. \A y : Unshared(y)' = Unshared(y)
    BY <1>1, SetupKept
  <2>1. pc' \in {"jumps", "flows"} => mode'[Here'] # Null
    BY <1>7 DEF PlaceInv
  <2> SUFFICES ASSUME NEW k \in Slot, mode'[k] # Null, Unshared(k[1])
               PROVE  /\ mode'[k][1] = k[1]
                      /\ \E i \in DOMAIN states[k[1]] : mode'[k][2] = states[k[1]][i]
    BY <1>1, <2>0, <2>1 DEF OwnModes
  <2>2. CASE mode'[k] = mode[k]
    BY <2>2 DEF IInv, OwnModes
  <2>3. CASE k[1] = x /\ mode'[k] = InitialMode(x)
    BY <1>4, <2>3 DEF Own
  <2> QED  BY <1>5, <2>2, <2>3
<1>9. TargetInv' /\ LatencyIsTransition'
  BY <1>1 DEF IInv, TargetInv, Own, LatencyIsTransition, Unshared
<1>10. RulesInv' /\ FlowsWhenSettled'
  <2>1. DOMAIN ran' = {} /\ seen' = {}
    BY <1>1
  <2>2. pc' = "jumps" => j' <= Len(Jumps[Now'])  + 1
    <3> SUFFICES ASSUME pc' = "jumps" PROVE 1 <= Len(Jumps[Now']) + 1
      BY <1>1
    <3>1. Here' = <<x, Alone>> /\ <<x, Alone>> \in Slot
      BY <1>1, <1>2 DEF Here, Slot
    <3>2. mode'[Here'] \in Mode
      BY <1>2, <1>5, <3>1
    <3>3. Now' \in State
      BY <3>2 DEF Mode, Now
    <3> QED  BY <3>3, ConstantFacts
  <2>3. asked' = {<<Now', i>> : i \in 1..(j' - 1)}
    BY <1>1
  <2> QED  BY <1>1, <1>2, <2>1, <2>2, <2>3 DEF RulesInv, FlowsWhenSettled
<1> QED  BY <1>6, <1>7, <1>8, <1>9, <1>10 DEF IInv

(* execute ends. *)
LEMMA OverInv ==
    ASSUME IInv, Over,
           UNCHANGED <<states, regions, life, target, space, inside, mode, status>>,
           UNCHANGED <<changed, m, time, since, lost, alive>>,
           TargetInv', OwnModes', LatencyIsTransition'
    PROVE  IInv'
<1>1. /\ pc' = "idle" /\ lone' = FALSE /\ steady' = FALSE
      /\ r' = 1 /\ c' = 1 /\ j' = 1 /\ f' = 1 /\ taken' = 0
      /\ asked' = {} /\ ran' = <<>> /\ seen' = {}
  BY DEF Over, Start
<1>2. taken' \in 0..MaxTrue /\ ran' \in Seq(State \X Nat)
  BY <1>1, StateMachineAssumption
<1>3. r' \in Nat \ {0} /\ c' \in Nat \ {0} /\ j' \in Nat \ {0} /\ f' \in Nat \ {0}
  BY <1>1
<1>4. asked' \subseteq Jump /\ seen' \subseteq (Nat \X Nat)
  BY <1>1
<1>5. lone' \in BOOLEAN /\ steady' \in BOOLEAN
  BY <1>1
<1>6. TypeOK'
  BY <1>1, <1>2, <1>3, <1>4, <1>5 DEF IInv, TypeOK
<1>7. PlaceInv' /\ RulesInv' /\ FlowsWhenSettled'
  BY <1>1 DEF PlaceInv, RulesInv, FlowsWhenSettled
<1> QED  BY <1>6, <1>7 DEF IInv

(* The way from cell to cell. *)
LEMMA CellsInv ==
    ASSUME IInv, NextCell \/ SkipCell \/ NextRegion \/ Return
    PROVE  IInv'
<1>1. /\ pc = "next"
      /\ UNCHANGED <<states, regions, life, target, space, inside, late, mode, status, changed>>
      /\ UNCHANGED <<m, time, since, lost, alive>>
  BY DEF NextCell, SkipCell, NextRegion, Return, Visits, setup, hist
<1>2. TargetInv' /\ LatencyIsTransition'
  BY <1>1 DEF IInv, TargetInv, Own, LatencyIsTransition, Unshared
<1>3. \A k \in Slot : mode'[k] # Null /\ Unshared(k[1])' =>
         mode'[k][1] = k[1] /\ \E i \in DOMAIN states'[k[1]] : mode'[k][2] = states'[k[1]][i]
  BY <1>1 DEF IInv, OwnModes, Unshared
<1>4. CASE NextCell
  <2>1. /\ pc' = "jumps" /\ j' = 1 /\ f' = 1 /\ asked' = {} /\ ran' = <<>>
        /\ mode[Here] # Null /\ r <= Len(regions[m]) /\ c <= Len(Region)
        /\ UNCHANGED <<lone, r, c, taken, seen, steady>>
    BY <1>4 DEF NextCell, Visits, InRegion
  <2>2. Here' = Here /\ Now' = Now /\ Region' = Region
    BY <1>1, <2>1 DEF Here, Now, Region
  <2>3. TypeOK'
    BY <1>1, <2>1 DEF IInv, TypeOK
  <2>4. PlaceInv' /\ OwnModes'
    BY <1>1, <1>3, <2>1, <2>2 DEF PlaceInv, OwnModes
  <2>5. Len(Jumps[Now]) \in Nat
    <3>1. mode[Here] \in Mode
      BY <2>1, CellIsSlot DEF IInv, TypeOK
    <3>2. Now \in State
      BY <3>1 DEF Mode, Now
    <3> QED  BY <3>2, ConstantFacts
  <2>6. RulesInv' /\ FlowsWhenSettled'
    <3>1. asked' = {<<Now', i>> : i \in 1..(j' - 1)}
      BY <2>1
    <3> QED  BY <2>1, <2>2, <2>5, <3>1 DEF RulesInv, FlowsWhenSettled
  <2> QED  BY <1>2, <2>3, <2>4, <2>6 DEF IInv
<1>5. CASE SkipCell \/ NextRegion
  <2>1. /\ pc' = "next" /\ c' \in Nat \ {0} /\ r' \in Nat \ {0}
        /\ UNCHANGED <<lone, j, f, taken, asked, ran, seen, steady>>
    BY <1>1, <1>5 DEF SkipCell, NextRegion, hist, IInv, TypeOK, FirstPlace
  <2>2. TypeOK'
    BY <1>1, <2>1 DEF IInv, TypeOK
  <2>3. PlaceInv' /\ OwnModes' /\ RulesInv'
    BY <1>3, <2>1 DEF PlaceInv, OwnModes, RulesInv
  <2>4. FlowsWhenSettled'
    BY <1>1, <2>1 DEF IInv, FlowsWhenSettled
  <2> QED  BY <1>2, <2>2, <2>3, <2>4 DEF IInv
<1>6. CASE Return
  <2>1. Over
    BY <1>6 DEF Return
  <2>2. OwnModes'
    BY <1>3, <2>1 DEF Over, OwnModes
  <2> QED  BY <1>1, <1>2, <2>1, <2>2, OverInv
<1> QED  BY <1>4, <1>5, <1>6

(* The rules of a mode. *)
LEMMA JumpTrueInv ==
    ASSUME IInv, JumpTrue
    PROVE  IInv'
<1> DEFINE q == <<Now, j>>
<1>1. /\ pc = "jumps" /\ j <= Len(Jumps[Now]) /\ taken < MaxTrue /\ target[q] # Null
      /\ mode' = [mode EXCEPT ![Here] = target[q]]
      /\ changed' = IF m \in Agent /\ ~SameMode(q)
                    THEN [changed EXCEPT ![m] = time] ELSE changed
      /\ since' = IF m \in Agent /\ target[q][2] # Now
                  THEN [since EXCEPT ![m] = time] ELSE since
      /\ j' = 1 /\ taken' = taken + 1 /\ asked' = {}
      /\ UNCHANGED <<states, regions, life, target, space, inside, late, status, pc, m, time>>
      /\ UNCHANGED <<lone, r, c, f, ran, seen, steady, lost, alive>>
  BY DEF JumpTrue, True, HasTarget, setup, Again
<1>2. /\ Here \in Slot /\ Here[1] = m /\ m \in Machine
      /\ mode[Here] \in Mode /\ mode[Here] = <<mode[Here][1], Now>>
      /\ mode[Here][1] \in Machine /\ Now \in State
  BY <1>1, HereFacts
<1>3. j \in Nat /\ j > 0 /\ q \in Jump
  BY <1>1, <1>2, ConstantFacts DEF IInv, TypeOK
<1>4. target[q] \in Mode /\ target[q] = <<target[q][1], target[q][2]>>
  <2> HIDE DEF q
  <2>1. target[q] \in Mode
    BY <1>1, <1>3 DEF IInv, TypeOK
  <2> QED  BY <2>1 DEF Mode
<1>5. /\ mode' \in [Slot -> Mode \cup {Null}] /\ mode'[Here] = target[q]
      /\ \A k \in Slot \ {Here} : mode'[k] = mode[k]
  BY <1>1, <1>2, <1>4 DEF IInv, TypeOK
<1>6. Here' = Here /\ Region' = Region /\ Now' = target[q][2]
  <2>1. Here' = Here /\ Region' = Region
    BY <1>1 DEF Here, Region
  <2> QED  BY <1>5, <2>1 DEF Now
<1> HIDE DEF q
<1>7. TypeOK'
  <2>1. changed' \in [Agent -> 0..MaxTime] /\ since' \in [Agent -> 0..MaxTime]
    BY <1>1 DEF IInv, TypeOK
  <2>2. taken' \in 0..MaxTrue /\ j' \in Nat \ {0} /\ asked' \subseteq Jump
    BY <1>1, StateMachineAssumption DEF IInv, TypeOK
  <2> QED  BY <1>1, <1>5, <2>1, <2>2 DEF IInv, TypeOK
<1>8. PlaceInv'
  BY <1>1, <1>5, <1>6 DEF IInv, PlaceInv
<1>9. RulesInv'
  <2>1. Len(Jumps[Now']) \in Nat
    BY <1>4, <1>6, ConstantFacts DEF Mode
  <2>2. asked' = {<<Now', i>> : i \in 1..(j' - 1)}
    BY <1>1
  <2> QED  BY <1>1, <2>1, <2>2 DEF IInv, RulesInv
<1>10. FlowsWhenSettled'
  BY <1>1 DEF IInv, RulesInv, FlowsWhenSettled
<1>11. \A y : Unshared(y)' = Unshared(y) /\ Own(y)' = Own(y)
  BY <1>1, SetupKept
<1>12. TargetInv'
  BY <1>1, <1>11 DEF IInv, TargetInv
<1>13. Unshared(m) => /\ mode[Here][1] = m /\ target[q][1] = m
                      /\ target[q][2] \in Own(m)
  <2> SUFFICES ASSUME Unshared(m)
               PROVE  /\ mode[Here][1] = m /\ target[q][1] = m /\ target[q][2] \in Own(m)
    OBVIOUS
  <2>1. mode[Here] # Null
    BY <1>1 DEF IInv, PlaceInv
  <2>2. mode[Here][1] = m /\ Now \in Own(m)
    BY <1>2, <2>1 DEF IInv, OwnModes, Own
  <2>3. /\ life[target[q][1]] # "new" /\ q[1] \in Own(target[q][1])
        /\ target[q][2] \in Own(target[q][1]) /\ target[q][1] \in Machine
    BY <1>1, <1>3, <1>4 DEF IInv, TargetInv, Mode
  <2>4. q[1] = Now
    BY DEF q
  <2>5. target[q][1] = m
    BY <2>2, <2>3, <2>4 DEF Unshared, Own
  <2> QED  BY <2>2, <2>3, <2>5
<1>14. OwnModes'
  <2>1. pc' \in {"jumps", "flows"} => mode'[Here'] # Null
    BY <1>8 DEF PlaceInv
  <2> SUFFICES ASSUME NEW k \in Slot, mode'[k] # Null, Unshared(k[1])
               PROVE  /\ mode'[k][1] = k[1]
                      /\ \E i \in DOMAIN states[k[1]] : mode'[k][2] = states[k[1]][i]
    BY <1>1, <1>11, <2>1 DEF OwnModes
  <2>2. CASE k = Here
    BY <1>2, <1>5, <1>13, <2>2 DEF Own
  <2>3. CASE k # Here
    BY <1>5, <2>3 DEF IInv, OwnModes
  <2> QED  BY <2>2, <2>3
<1>15. LatencyIsTransition'
  <2> SUFFICES ASSUME NEW x \in Agent, Unshared(x)
               PROVE  changed'[x] = since'[x]
    BY <1>11 DEF LatencyIsTransition
  <2>1. changed[x] = since[x] /\ changed \in [Agent -> 0..MaxTime] /\ since \in [Agent -> 0..MaxTime]
    BY DEF IInv, LatencyIsTransition, TypeOK
  <2>2. CASE x = m
    <3>1. mode[Here] = <<m, Now>> /\ target[q] = <<m, target[q][2]>>
      BY <1>2, <1>4, <1>13, <2>2
    <3>2. SameMode(q) <=> target[q][2] = Now
      BY <2>2, <3>1 DEF SameMode
    <3> QED  BY <1>1, <2>1, <2>2, <3>2
  <2>3. CASE x # m
    BY <1>1, <2>1, <2>3
  <2> QED  BY <2>2, <2>3
<1> QED  BY <1>7, <1>8, <1>9, <1>10, <1>12, <1>14, <1>15 DEF IInv

(* The other steps of the rules change no mode. *)
LEMMA RulesStepInv ==
    ASSUME IInv, JumpFalse \/ NoJump \/ Flow \/ FlowRaises \/ EndCell
    PROVE  IInv'
<1>1. /\ pc \in {"jumps", "flows"}
      /\ UNCHANGED <<states, regions, life, target, space, inside, late, mode, status, changed>>
      /\ UNCHANGED <<m, time, since, lost, alive>>
  BY DEF JumpFalse, NoJump, Flow, FlowRaises, EndCell, setup, hist
<1>2. /\ Here \in Slot /\ m \in Machine /\ mode[Here] # Null /\ Now \in State
      /\ Len(Jumps[Now]) \in Nat /\ Flows[Now] \in Nat
      /\ \A i \in 1..Len(Jumps[Now]) : <<Now, i>> \in Jump
  BY <1>1, HereFacts, ConstantFacts DEF IInv, PlaceInv
<1>3. /\ j \in Nat /\ j > 0 /\ f \in Nat /\ f > 0 /\ c \in Nat /\ c > 0 /\ r \in Nat /\ r > 0
      /\ ran \in Seq(State \X Nat) /\ asked \subseteq Jump /\ seen \subseteq Nat \X Nat
  BY DEF IInv, TypeOK
<1>4. \A y : Unshared(y)' = Unshared(y) /\ Own(y)' = Own(y)
  BY <1>1, SetupKept
<1>5. TargetInv' /\ LatencyIsTransition'
  BY <1>1, <1>4 DEF IInv, TargetInv, LatencyIsTransition
<1>6. \A k \in Slot : mode'[k] # Null /\ Unshared(k[1])' =>
         mode'[k][1] = k[1] /\ \E i \in DOMAIN states'[k[1]] : mode'[k][2] = states'[k[1]][i]
  BY <1>1, <1>4 DEF IInv, OwnModes
<1>7. ASSUME UNCHANGED <<r, c>>
      PROVE  Here' = Here /\ Now' = Now /\ PlaceInv' /\ OwnModes'
  <2>1. Here' = Here /\ Region' = Region
    BY <1>1, <1>7 DEF Here, Region
  <2>2. Now' = Now
    BY <1>1, <2>1 DEF Now
  <2>3. PlaceInv'
    BY <1>1, <1>2, <1>7, <2>1 DEF IInv, PlaceInv
  <2>4. OwnModes'
    BY <1>1, <1>2, <1>6, <2>1 DEF OwnModes
  <2> QED  BY <2>1, <2>2, <2>3, <2>4
<1>8. CASE JumpFalse
  <2>1. /\ pc = "jumps" /\ pc' = "jumps" /\ j <= Len(Jumps[Now])
        /\ j' = j + 1 /\ asked' = asked \cup {<<Now, j>>}
        /\ UNCHANGED <<lone, r, c, f, taken, ran, seen, steady>>
    BY <1>8 DEF JumpFalse
  <2>2. Here' = Here /\ Now' = Now /\ PlaceInv' /\ OwnModes'
    BY <1>7, <2>1
  <2>3. TypeOK'
    <3>1. j' \in Nat \ {0} /\ asked' \subseteq Jump
      BY <1>2, <1>3, <2>1
    <3> QED  BY <1>1, <2>1, <3>1 DEF IInv, TypeOK
  <2>4. RulesInv' /\ FlowsWhenSettled'
    <3>1. asked = {<<Now, i>> : i \in 1..(j - 1)} /\ ran = <<>>
      BY <2>1 DEF IInv, RulesInv
    <3>2. 1..(j' - 1) = 1..(j - 1) \cup {j}
      BY <1>3, <2>1
    <3>3. asked' = {<<Now', i>> : i \in 1..(j' - 1)}
      BY <2>1, <2>2, <3>1, <3>2
    <3>4. j' <= Len(Jumps[Now']) + 1
      BY <1>2, <1>3, <2>1, <2>2
    <3> QED  BY <2>1, <3>1, <3>3, <3>4 DEF RulesInv, FlowsWhenSettled
  <2> QED  BY <1>5, <2>2, <2>3, <2>4 DEF IInv
<1>9. CASE NoJump
  <2>1. /\ pc = "jumps" /\ pc' = "flows" /\ j > Len(Jumps[Now]) /\ f' = 1
        /\ UNCHANGED <<lone, r, c, j, taken, asked, ran, seen, steady>>
    BY <1>9 DEF NoJump, hist
  <2>2. Here' = Here /\ Now' = Now /\ PlaceInv' /\ OwnModes'
    BY <1>7, <2>1
  <2>3. TypeOK'
    BY <1>1, <2>1 DEF IInv, TypeOK
  <2>4. RulesInv' /\ FlowsWhenSettled'
    <3>1. /\ j <= Len(Jumps[Now]) + 1 /\ ran = <<>>
          /\ asked = {<<Now, i>> : i \in 1..(j - 1)}
      BY <2>1 DEF IInv, RulesInv
    <3>2. 1..(j - 1) = 1..Len(Jumps[Now])
      BY <1>2, <1>3, <2>1, <3>1
    <3>3. asked = {q \in Jump : q[1] = Now}
      <4>1. \A q \in Jump : /\ q[2] \in 1..Len(Jumps[q[1]])
                            /\ q = <<q[1], q[2]>>
        BY ConstantFacts
      <4>2. ASSUME NEW q \in asked PROVE q \in Jump /\ q[1] = Now
        <5>1. q \in Jump
          BY <1>3
        <5>2. PICK i \in 1..(j - 1) : q = <<Now, i>>
          BY <3>1
        <5> QED  BY <5>1, <5>2
      <4>3. ASSUME NEW q \in Jump, q[1] = Now PROVE q \in asked
        BY <3>1, <3>2, <4>1, <4>3
      <4> QED  BY <4>2, <4>3
    <3>4. Len(ran) = 0 /\ DOMAIN ran = {}
      BY <3>1
    <3> QED  BY <1>2, <2>1, <2>2, <3>1, <3>3, <3>4 DEF RulesInv, FlowsWhenSettled
  <2> QED  BY <1>5, <2>2, <2>3, <2>4 DEF IInv
<1>10. CASE Flow
  <2>1. /\ pc = "flows" /\ pc' = "flows" /\ f <= Flows[Now]
        /\ f' = f + 1 /\ ran' = Append(ran, <<Now, f>>)
        /\ UNCHANGED <<lone, r, c, j, taken, asked, seen, steady>>
    BY <1>10 DEF Flow
  <2>2. Here' = Here /\ Now' = Now /\ PlaceInv' /\ OwnModes'
    BY <1>7, <2>1
  <2>3. /\ Len(ran) = f - 1 /\ asked = {q \in Jump : q[1] = Now}
        /\ \A i \in DOMAIN ran : ran[i] = <<Now, i>>
    BY <2>1 DEF IInv, RulesInv, FlowsWhenSettled
  <2>4. /\ ran' \in Seq(State \X Nat) /\ Len(ran') = f /\ DOMAIN ran' = 1..f
        /\ \A i \in 1..f : ran'[i] = <<Now, i>>
    <3>1. <<Now, f>> \in State \X Nat
      BY <1>2, <1>3
    <3>2. DOMAIN ran = 1..(f - 1)
      BY <1>3, <2>3
    <3> DEFINE e == <<Now, f>>
    <3> HIDE DEF e
    <3>3. /\ Append(ran, e) \in Seq(State \X Nat) /\ Len(Append(ran, e)) = Len(ran) + 1
          /\ \A i \in 1..Len(ran) : Append(ran, e)[i] = ran[i]
          /\ Append(ran, e)[Len(ran) + 1] = e
      BY <1>3, <3>1, AppendProperties DEF e
    <3>4. Len(ran) + 1 = f
      BY <1>3, <2>3
    <3>5. DOMAIN Append(ran, e) = 1..f
      BY <3>3, <3>4, LenProperties
    <3>6. ASSUME NEW i \in 1..f PROVE Append(ran, e)[i] = <<Now, i>>
      <4>1. CASE i = f
        BY <3>3, <3>4, <4>1 DEF e
      <4>2. CASE i # f
        <5>1. i \in 1..(f - 1)
          BY <1>3, <4>2
        <5> QED  BY <2>3, <3>2, <3>3, <5>1
      <4> QED  BY <4>1, <4>2
    <3> QED  BY <2>1, <3>3, <3>4, <3>5, <3>6 DEF e
  <2>5. TypeOK'
    <3>1. f' \in Nat \ {0}
      BY <1>3, <2>1
    <3> QED  BY <1>1, <2>1, <2>4, <3>1 DEF IInv, TypeOK
  <2>6. RulesInv' /\ FlowsWhenSettled'
    <3>1. f' <= Flows[Now'] + 1 /\ Len(ran') = f' - 1
      BY <1>2, <1>3, <2>1, <2>2, <2>4
    <3> QED  BY <2>1, <2>2, <2>3, <2>4, <3>1 DEF RulesInv, FlowsWhenSettled
  <2> QED  BY <1>5, <2>2, <2>5, <2>6 DEF IInv
<1>11. ASSUME Over PROVE IInv'
  <2>1. OwnModes'
    BY <1>6, <1>11 DEF Over, OwnModes
  <2> QED  BY <1>1, <1>5, <1>11, <2>1, OverInv
<1>12. CASE EndCell /\ ~lone
  <2>1. /\ pc = "flows" /\ f > Flows[Now] /\ pc' = "next" /\ c' = c + 1
        /\ seen' = seen \cup {<<r, c>>}
        /\ UNCHANGED <<lone, r, j, f, taken, asked, ran, steady>>
    BY <1>12 DEF EndCell, NextPlace
  <2>2. TypeOK'
    <3>1. c' \in Nat \ {0} /\ seen' \subseteq Nat \X Nat
      BY <1>3, <2>1
    <3> QED  BY <1>1, <2>1, <3>1 DEF IInv, TypeOK
  <2>3. FlowsWhenSettled'
    <3>1. /\ f <= Flows[Now] + 1 /\ Len(ran) = f - 1
          /\ \A i \in DOMAIN ran : ran[i] = <<Now, i>>
      BY <2>1 DEF IInv, RulesInv, FlowsWhenSettled
    <3>2. Len(ran) = Flows[Now]
      BY <1>2, <1>3, <2>1, <3>1
    <3> QED  BY <2>1, <3>1, <3>2 DEF FlowsWhenSettled
  <2>4. PlaceInv' /\ OwnModes' /\ RulesInv'
    BY <1>6, <2>1 DEF PlaceInv, OwnModes, RulesInv
  <2> QED  BY <1>5, <2>2, <2>3, <2>4 DEF IInv
<1>13. CASE FlowRaises \/ (EndCell /\ lone)
  <2>1. Over
    BY <1>13 DEF FlowRaises, EndCell
  <2> QED  BY <1>11, <2>1
<1> QED  BY <1>8, <1>9, <1>10, <1>12, <1>13

(* The automaton leaves the cell without a mode. *)
LEMMA JumpNowhereInv ==
    ASSUME IInv, JumpNowhere
    PROVE  IInv'
<1>1. /\ pc = "jumps" /\ taken < MaxTrue
      /\ mode' = [mode EXCEPT ![Here] = Null] /\ lost' = lost \cup {Here}
      /\ pc' = "next" /\ c' = c + 1 /\ taken' = taken + 1 /\ asked' = {}
      /\ UNCHANGED <<states, regions, life, target, space, inside, late, status, changed>>
      /\ UNCHANGED <<m, time, lone, r, j, f, ran, seen, steady, since, alive>>
  BY DEF JumpNowhere, True, NextPlace, setup
<1>2. Here \in Slot
  BY <1>1, HereFacts
<1>3. TypeOK'
  <2>1. mode' \in [Slot -> Mode \cup {Null}] /\ lost' \subseteq Slot
    BY <1>1, <1>2 DEF IInv, TypeOK
  <2>2. taken' \in 0..MaxTrue /\ c' \in Nat \ {0} /\ asked' \subseteq Jump
    BY <1>1, StateMachineAssumption DEF IInv, TypeOK
  <2> QED  BY <1>1, <2>1, <2>2 DEF IInv, TypeOK
<1>4. \A y : Unshared(y)' = Unshared(y) /\ Own(y)' = Own(y)
  BY <1>1, SetupKept
<1>5. TargetInv' /\ LatencyIsTransition'
  BY <1>1, <1>4 DEF IInv, TargetInv, LatencyIsTransition
<1>6. OwnModes'
  <2>1. \A k \in Slot : mode'[k] # Null => mode'[k] = mode[k]
    BY <1>1 DEF IInv, TypeOK
  <2> QED  BY <1>1, <1>4, <2>1 DEF IInv, OwnModes
<1>7. PlaceInv' /\ RulesInv'
  BY <1>1 DEF PlaceInv, RulesInv
<1>8. FlowsWhenSettled'
  <2>1. ran' = <<>> /\ DOMAIN ran' = {}
    BY <1>1 DEF IInv, RulesInv
  <2> QED  BY <1>1, <2>1 DEF FlowsWhenSettled
<1> QED  BY <1>3, <1>5, <1>6, <1>7, <1>8 DEF IInv

LEMMA DiesInv == IInv /\ (AgentDies \/ ModeDies) => IInv'
<1> SUFFICES ASSUME IInv, AgentDies \/ ModeDies PROVE IInv'
  OBVIOUS
<1>1. /\ alive' = FALSE
      /\ UNCHANGED <<states, regions, life, target, space, inside, late, mode, status, changed>>
      /\ UNCHANGED <<pc, m, time, lone, r, c, j, f, taken, asked, ran, seen, steady, since, lost>>
  BY DEF AgentDies, ModeDies, setup, loop, hist
<1>2. TypeOK'
  BY <1>1 DEF IInv, TypeOK
<1>3. \A y : Unshared(y)' = Unshared(y) /\ Own(y)' = Own(y)
  BY <1>1, SetupKept
<1>4. Here' = Here /\ Now' = Now /\ Region' = Region
  BY <1>1 DEF Here, Now, Region
<1>5. PlaceInv' /\ RulesInv' /\ FlowsWhenSettled'
  BY <1>1, <1>4 DEF IInv, PlaceInv, RulesInv, FlowsWhenSettled
<1>6. OwnModes'
  BY <1>1, <1>3, <1>4 DEF IInv, OwnModes
<1>7. TargetInv' /\ LatencyIsTransition'
  BY <1>1, <1>3 DEF IInv, TargetInv, LatencyIsTransition
<1> QED  BY <1>2, <1>5, <1>6, <1>7 DEF IInv

LEMMA NextInv == IInv /\ [Next]_vars => IInv'
<1> SUFFICES ASSUME IInv, [Next]_vars PROVE IInv'
  OBVIOUS
<1>1. ASSUME NEW x \in Machine,
             \/ Build(x) \/ Collect(x) \/ SetStatus(x)
             \/ \E t \in 0..MaxTime : Execute(x, t)
      PROVE  IInv'
  BY <1>1, BuildInv, CollectInv, SetStatusInv, ExecuteInv
<1>2. CASE AddSpace \/ \E x \in Automaton : AddAutomaton(x)
  BY <1>2, AddSpaceInv, AddAutomatonInv
<1>3. CASE Step
  BY <1>3, CellsInv, JumpTrueInv, JumpNowhereInv, RulesStepInv DEF Step
<1>4. CASE AgentDies \/ ModeDies
  BY <1>4, DiesInv
<1>5. CASE UNCHANGED vars
  <2>1. /\ UNCHANGED <<states, regions, life, target, space, inside, late, mode, status, changed>>
        /\ UNCHANGED <<pc, m, time, lone, r, c, j, f, taken, asked, ran, seen, steady, since, lost, alive>>
    BY <1>5 DEF vars, setup, loop, hist
  <2>2. \A y : Unshared(y)' = Unshared(y) /\ Own(y)' = Own(y)
    BY <2>1, SetupKept
  <2>3. Here' = Here /\ Now' = Now /\ Region' = Region
    BY <2>1 DEF Here, Now, Region
  <2>4. TypeOK' /\ PlaceInv' /\ RulesInv' /\ FlowsWhenSettled'
    BY <2>1, <2>3 DEF IInv, TypeOK, PlaceInv, RulesInv, FlowsWhenSettled
  <2>5. OwnModes' /\ TargetInv' /\ LatencyIsTransition'
    BY <2>1, <2>2, <2>3 DEF IInv, OwnModes, TargetInv, LatencyIsTransition
  <2> QED  BY <2>4, <2>5 DEF IInv
<1> QED  BY <1>1, <1>2, <1>3, <1>4, <1>5 DEF Next

LEMMA Invariance == Spec => []IInv
  BY InitInv, NextInv, PTL DEF Spec

----------------------------------------------------------------------------
(* The variables of the machines have their types. *)
THEOREM TypeCorrect == Spec => []TypeOK
  BY Invariance, PTL DEF IInv

(* The Flows are those of the mode in which the machine settled, each once *)
(* and in their order (controlMode.h:106-121, process.h:90-127).           *)
THEOREM FlowsAreSettled == Spec => []FlowsWhenSettled
  BY Invariance, PTL DEF IInv

(* A machine that shares no State stays in its own (agent.h:210-249).      *)
THEOREM StaysInOwnModes == Spec => []OwnModes
  BY Invariance, PTL DEF IInv

(* The latency of such an agent is that of its last transition to another  *)
(* State (environment.cpp:29-34).                                          *)
THEOREM LatencyIsRight == Spec => []LatencyIsTransition
  BY Invariance, PTL DEF IInv

----------------------------------------------------------------------------
(* The visit of the cells.  An automaton that came after the space has a   *)
(* mode in all cells that it did not leave by a Jump to nowhere.  While    *)
(* the status stays on, what was visited lies before the place where       *)
(* execute is, and a place that was not is in such a cell.                 *)
Placed    == \A x \in inside \ late : \A k \in Cell :
                 mode[<<x, k>>] # Null \/ <<x, k>> \in lost
InTime    == m \in Automaton => m \in inside \ late
CellAt(p) == regions[m][p[1]][p[2]]
Before    == {p \in AllPlaces : p[1] < r \/ (p[1] = r /\ p[2] < c)}
SeenInv ==
    steady =>
        /\ pc # "idle" /\ status[m] /\ ~lone
        /\ m \in Agent => mode[<<m, Alone>>] # Null
        /\ pc \in {"jumps", "flows"} => r <= Len(regions[m]) /\ c <= Len(Region)
        /\ InTime => /\ seen \subseteq Before
                     /\ \A p \in Before \ seen : <<m, CellAt(p)>> \in lost

VisitInv == Placed /\ SeenInv

LEMMA InitVisit == Init => VisitInv
BY DEF Init, VisitInv, Placed, SeenInv

LEMMA PlacesFacts ==
    ASSUME TypeOK
    PROVE  /\ Len(regions[m]) \in Nat /\ DOMAIN regions[m] = 1..Len(regions[m])
           /\ \A i \in 1..Len(regions[m]) :
                  /\ regions[m][i] \in Seq(Cell) /\ Len(regions[m][i]) \in Nat
                  /\ DOMAIN regions[m][i] = 1..Len(regions[m][i])
           /\ \A p : p \in AllPlaces <=> \E i \in 1..Len(regions[m]) :
                                          \E k \in 1..Len(regions[m][i]) : p = <<i, k>>
<1>1. regions[m] \in Seq(Seq(Cell))
  BY StateMachineAssumption DEF TypeOK
<1>2. Len(regions[m]) \in Nat /\ DOMAIN regions[m] = 1..Len(regions[m])
  BY <1>1
<1>3. \A i \in 1..Len(regions[m]) : regions[m][i] \in Seq(Cell)
  BY <1>1
<1>4. \A i \in 1..Len(regions[m]) : /\ Len(regions[m][i]) \in Nat
                                    /\ DOMAIN regions[m][i] = 1..Len(regions[m][i])
  BY <1>3, LenProperties
<1>5. \A p : p \in AllPlaces <=> \E i \in 1..Len(regions[m]) :
                                \E k \in 1..Len(regions[m][i]) : p = <<i, k>>
  BY <1>2, <1>4 DEF AllPlaces
<1> QED  BY <1>2, <1>3, <1>4, <1>5

(* What the scripts call between two executions. *)
LEMMA CallsVisit ==
    ASSUME IInv, VisitInv, NEW x \in Machine,
           \/ Build(x) \/ Collect(x) \/ AddSpace \/ (x \in Automaton /\ AddAutomaton(x))
    PROVE  VisitInv'
<1>1. pc = "idle" /\ UNCHANGED <<steady, lost>>
  BY DEF Build, Collect, AddSpace, AddAutomaton, hist
<1>2. SeenInv'
  BY <1>1 DEF VisitInv, SeenInv
<1>3. CASE Build(x) \/ Collect(x) \/ AddSpace
  <2>1. UNCHANGED <<inside, late, mode>>
    BY <1>3 DEF Build, Collect, AddSpace
  <2>2. Placed'
    BY <1>1, <2>1 DEF VisitInv, Placed
  <2> QED  BY <1>2, <2>2 DEF VisitInv
<1>4. CASE x \in Automaton /\ AddAutomaton(x)
  <2>1. /\ inside' = inside \cup {x}
        /\ late' = IF space THEN late ELSE late \cup {x}
        /\ mode' = IF space
                   THEN [k \in Slot |-> IF k[1] = x THEN InitialMode(x) ELSE mode[k]]
                   ELSE mode
    BY <1>4 DEF AddAutomaton
  <2>2. InitialMode(x) # Null
    BY OwnFacts DEF IInv
  <2> SUFFICES ASSUME NEW y \in inside' \ late', NEW k \in Cell
               PROVE  mode'[<<y, k>>] # Null \/ <<y, k>> \in lost
    BY <1>1, <1>2 DEF VisitInv, Placed
  <2>3. y \in Automaton /\ <<y, k>> \in Slot
    BY <1>4, <2>1 DEF IInv, TypeOK, Slot
  <2>4. CASE space
    BY <2>1, <2>2, <2>3, <2>4 DEF VisitInv, Placed
  <2>5. CASE ~space
    BY <2>1, <2>5 DEF VisitInv, Placed
  <2> QED  BY <2>4, <2>5
<1> QED  BY <1>3, <1>4

LEMMA StatusVisit ==
    ASSUME IInv, VisitInv, NEW x \in Machine, SetStatus(x)
    PROVE  VisitInv'
<1>1. /\ status' = [status EXCEPT ![x] = ~@] /\ steady' = (steady /\ x # m)
      /\ UNCHANGED <<regions, inside, late, mode, pc, m, lone, r, c, seen, lost>>
  BY DEF SetStatus, setup, loop
<1>2. /\ Placed' /\ Before' = Before /\ InTime' = InTime /\ Region' = Region
      /\ \A p : CellAt(p)' = CellAt(p)
  BY <1>1 DEF VisitInv, Placed, Before, AllPlaces, InTime, Region, CellAt
<1>3. ASSUME steady' PROVE steady /\ status'[m] = status[m]
  BY <1>1, <1>3 DEF IInv, TypeOK
<1>4. SeenInv'
  BY <1>1, <1>2, <1>3 DEF VisitInv, SeenInv
<1> QED  BY <1>2, <1>4 DEF VisitInv

LEMMA ExecuteVisit ==
    ASSUME IInv, VisitInv, NEW x \in Machine, NEW t \in 0..MaxTime, Execute(x, t)
    PROVE  VisitInv'
<1>1. /\ m' = x /\ r' = 1 /\ c' = 1 /\ seen' = {} /\ mode' = FirstMode(x)
      /\ steady' = OnCells(x) /\ lone' = (~OnCells(x) /\ x \in Agent)
      /\ UNCHANGED <<regions, inside, late, status, lost>>
  BY DEF Execute, Start, setup
<1>2. OnCells(x) => pc' = "next" /\ status[x]
  BY DEF Execute, OnCells
<1>3. /\ \A k \in Slot : mode[k] # Null => mode'[k] # Null
      /\ x \in Agent => mode'[<<x, Alone>>] # Null
  <2>1. mode \in [Slot -> Mode \cup {Null}] /\ InitialMode(x) # Null
    BY OwnFacts DEF IInv, TypeOK
  <2>2. x \in Agent => <<x, Alone>> \in Slot
    BY DEF Slot
  <2> QED  BY <1>1, <2>1, <2>2 DEF FirstMode
<1>4. Placed'
  <2>1. \A y \in inside, k \in Cell : <<y, k>> \in Slot
    BY DEF IInv, TypeOK, Slot
  <2> QED  BY <1>1, <1>3, <2>1 DEF VisitInv, Placed
<1>5. Before' = {}
  <2>1. \A p \in AllPlaces' : p[1] \in Nat \ {0} /\ p[2] \in Nat \ {0}
    <3>1. regions'[x] \in Seq(Seq(Cell)) /\ m' = x
      BY <1>1, StateMachineAssumption DEF IInv, TypeOK
    <3>2. /\ DOMAIN regions'[x] \subseteq Nat \ {0}
          /\ \A i \in DOMAIN regions'[x] : DOMAIN regions'[x][i] \subseteq Nat \ {0}
      BY <3>1
    <3> QED  BY <3>1, <3>2 DEF AllPlaces
  <2> QED  BY <1>1, <2>1 DEF Before
<1>6. SeenInv'
  BY <1>1, <1>2, <1>3, <1>5 DEF SeenInv
<1> QED  BY <1>4, <1>6 DEF VisitInv

(* The steps that stay at a place. *)
LEMMA StayVisit ==
    ASSUME IInv, VisitInv,
           UNCHANGED <<regions, inside, late, status, m, lone, r, c, seen, steady, lost>>,
           pc # "idle", pc' # "idle",
           pc' \in {"jumps", "flows"} => pc \in {"jumps", "flows"} \/ InRegion,
           \A k \in Slot : mode[k] # Null => mode'[k] # Null
    PROVE  VisitInv'
<1>1. /\ Before' = Before /\ InTime' = InTime /\ Region' = Region
      /\ \A p : CellAt(p)' = CellAt(p)
  BY DEF Before, AllPlaces, InTime, Region, CellAt
<1>2. Placed'
  <2>1. \A y \in inside, k \in Cell : <<y, k>> \in Slot
    BY DEF IInv, TypeOK, Slot
  <2> QED  BY <2>1 DEF VisitInv, Placed
<1>3. m \in Agent => <<m, Alone>> \in Slot
  BY DEF Slot
<1>4. SeenInv'
  BY <1>1, <1>3 DEF VisitInv, SeenInv, InRegion
<1> QED  BY <1>2, <1>4 DEF VisitInv

(* The next place is the only one that comes before execute with a step. *)
LEMMA NextBefore ==
    ASSUME IInv, r \in 1..Len(regions[m]), c \in 1..Len(regions[m][r]),
           UNCHANGED <<regions, m, r>>, c' = c + 1
    PROVE  Before' = Before \cup {<<r, c>>} /\ CellAt(<<r, c>>) \in Cell
<1>1. r \in Nat /\ c \in Nat /\ AllPlaces' = AllPlaces
  BY DEF IInv, TypeOK, AllPlaces
<1>2. <<r, c>> \in AllPlaces
  BY PlacesFacts DEF IInv
<1>3. ASSUME NEW p \in AllPlaces
      PROVE  (p[1] < r \/ (p[1] = r /\ p[2] < c + 1))
                 <=> ((p[1] < r \/ (p[1] = r /\ p[2] < c)) \/ p = <<r, c>>)
  <2>1. PICK i \in 1..Len(regions[m]) : \E k \in 1..Len(regions[m][i]) : p = <<i, k>>
    BY PlacesFacts DEF IInv
  <2>2. PICK k \in 1..Len(regions[m][i]) : p = <<i, k>>
    BY <2>1
  <2>3. i \in Nat /\ k \in Nat
    BY PlacesFacts DEF IInv
  <2> QED  BY <1>1, <2>2, <2>3
<1>4. Before' = Before \cup {<<r, c>>}
  BY <1>1, <1>2, <1>3 DEF Before
<1>5. regions[m][r][c] \in Cell
  BY PlacesFacts DEF IInv
<1> QED  BY <1>4, <1>5 DEF CellAt

(* An automaton in time passes over a cell, with or without its rules. *)
LEMMA PassVisit ==
    ASSUME IInv, VisitInv, pc' = "next", InRegion, c' = c + 1,
           UNCHANGED <<regions, inside, late, status, m, lone, r, steady>>,
           \A k \in Slot : mode[k] # Null => mode'[k] # Null \/ k \in lost',
           lost \subseteq lost', m \in Agent => mode' = mode,
           \/ seen' = seen \cup {<<r, c>>}
           \/ seen' = seen /\ <<m, Region[c]>> \in lost'
           \/ seen' = seen /\ ~(steady /\ InTime)
    PROVE  VisitInv'
<1>1. r \in Nat /\ c \in Nat /\ r > 0 /\ c > 0 /\ m \in Machine
  BY DEF IInv, TypeOK
<1>2. r \in 1..Len(regions[m]) /\ c \in 1..Len(regions[m][r])
  BY <1>1, PlacesFacts DEF InRegion, Region, IInv
<1>3. Before' = Before \cup {<<r, c>>} /\ CellAt(<<r, c>>) = Region[c]
  BY <1>2, NextBefore DEF CellAt, Region
<1>4. InTime' = InTime /\ \A p : CellAt(p)' = CellAt(p)
  BY DEF InTime, CellAt
<1>5. Placed'
  <2>1. \A y \in inside, k \in Cell : <<y, k>> \in Slot
    BY DEF IInv, TypeOK, Slot
  <2> QED  BY <2>1 DEF VisitInv, Placed
<1>6. ASSUME steady, m \in Agent
      PROVE  mode'[<<m, Alone>>] # Null
  BY <1>6 DEF VisitInv, SeenInv
<1>7. ASSUME steady, InTime
      PROVE  /\ seen' \subseteq Before'
             /\ \A p \in Before' \ seen' : <<m, CellAt(p)>> \in lost'
  <2>1. seen \subseteq Before /\ \A p \in Before \ seen : <<m, CellAt(p)>> \in lost
    BY <1>7 DEF VisitInv, SeenInv
  <2> QED  BY <1>3, <1>7, <2>1
<1>8. SeenInv'
  BY <1>4, <1>6, <1>7 DEF VisitInv, SeenInv
<1> QED  BY <1>5, <1>8 DEF VisitInv

(* The steps that leave a place. *)
LEMMA LeaveVisit ==
    ASSUME IInv, VisitInv,
           \/ SkipCell \/ NextRegion \/ Return
           \/ JumpNowhere \/ FlowRaises \/ EndCell
    PROVE  VisitInv'
<1>1. UNCHANGED <<regions, inside, late, status, m>> /\ pc # "idle"
  BY DEF SkipCell, NextRegion, Return, JumpNowhere, True, FlowRaises, EndCell, setup, Visits
<1>2. /\ InTime' = InTime /\ AllPlaces' = AllPlaces
      /\ \A p : CellAt(p)' = CellAt(p)
  BY <1>1 DEF InTime, AllPlaces, CellAt
<1>3. r \in Nat /\ c \in Nat /\ r > 0 /\ c > 0 /\ m \in Machine
  BY DEF IInv, TypeOK
<1>4. ASSUME UNCHANGED <<mode, lost>> PROVE Placed'
  BY <1>1, <1>4 DEF VisitInv, Placed
<1>5. CASE SkipCell
  <2>1. /\ pc = "next" /\ pc' = "next" /\ InRegion /\ mode[Here] = Null /\ c' = c + 1
        /\ UNCHANGED <<mode, lone, r, seen, lost, steady>>
    BY <1>5 DEF SkipCell, Visits, hist
  <2>2. CASE m \in Agent
    <3>1. ~steady
      BY <2>1, <2>2 DEF VisitInv, SeenInv, Here
    <3> QED  BY <1>1, <2>1, <3>1, PassVisit
  <2>3. CASE m \notin Agent
    <3>1. m \in Automaton /\ Here = <<m, Region[c]>>
      BY <1>3, <2>3 DEF Machine, Here
    <3>2. InTime => <<m, Region[c]>> \in lost
      <4>1. r \in 1..Len(regions[m]) /\ c \in 1..Len(Region)
        BY <1>3, <2>1, PlacesFacts DEF InRegion, IInv, Region
      <4>2. Region[c] \in Cell
        BY <4>1, PlacesFacts DEF IInv, Region
      <4> QED  BY <2>1, <3>1, <4>2 DEF InTime, VisitInv, Placed
    <3> QED  BY <1>1, <2>1, <3>2, PassVisit
  <2> QED  BY <2>2, <2>3
<1>6. CASE NextRegion
  <2>1. /\ pc = "next" /\ pc' = "next" /\ r <= Len(regions[m]) /\ ~(InRegion /\ GoesOn)
        /\ r' = r + 1 /\ c' = 1 /\ UNCHANGED <<mode, lone, seen, lost, steady>>
    BY <1>6 DEF NextRegion, hist, FirstPlace
  <2>2. ASSUME steady PROVE Before' = Before
    <3>1. r \in 1..Len(regions[m]) /\ ~(c <= Len(regions[m][r]))
      BY <1>3, <2>1, <2>2 DEF VisitInv, SeenInv, GoesOn, InRegion, Region, IInv, TypeOK
    <3>2. ASSUME NEW p \in AllPlaces
          PROVE  (p[1] < r + 1 \/ (p[1] = r + 1 /\ p[2] < 1))
                     <=> (p[1] < r \/ (p[1] = r /\ p[2] < c))
      <4>1. PICK i \in 1..Len(regions[m]) : \E k \in 1..Len(regions[m][i]) : p = <<i, k>>
        BY PlacesFacts DEF IInv
      <4>2. PICK k \in 1..Len(regions[m][i]) : p = <<i, k>>
        BY <4>1
      <4>3. i \in Nat /\ k \in Nat /\ k > 0 /\ Len(regions[m][i]) \in Nat /\ k <= Len(regions[m][i])
        BY PlacesFacts DEF IInv
      <4> QED  BY <1>3, <3>1, <4>2, <4>3
    <3> QED  BY <1>2, <2>1, <3>2 DEF Before
  <2>3. SeenInv'
    BY <1>1, <1>2, <2>1, <2>2 DEF VisitInv, SeenInv
  <2> QED  BY <1>4, <2>1, <2>3 DEF VisitInv
<1>7. CASE JumpNowhere
  <2>1. /\ pc = "jumps" /\ pc' = "next" /\ c' = c + 1 /\ m \in Automaton
        /\ mode' = [mode EXCEPT ![Here] = Null] /\ lost' = lost \cup {Here}
        /\ UNCHANGED <<lone, r, seen, steady>>
    BY <1>7 DEF JumpNowhere, True, NextPlace
  <2>2. InRegion /\ m \notin Agent /\ Here = <<m, Region[c]>>
    BY <2>1, StateMachineAssumption DEF IInv, PlaceInv, InRegion, Here
  <2>3. \A k \in Slot : mode[k] # Null => mode'[k] # Null \/ k \in lost'
    BY <2>1 DEF IInv, TypeOK
  <2> QED  BY <1>1, <2>1, <2>2, <2>3, PassVisit
<1>8. CASE EndCell /\ ~lone
  <2>1. /\ pc = "flows" /\ pc' = "next" /\ c' = c + 1 /\ seen' = seen \cup {<<r, c>>}
        /\ UNCHANGED <<mode, lone, r, lost, steady>>
    BY <1>8 DEF EndCell, NextPlace
  <2>2. CASE InRegion
    BY <1>1, <2>1, <2>2, PassVisit
  <2>3. CASE ~InRegion
    <3>1. ~steady
      BY <2>1, <2>3 DEF VisitInv, SeenInv, InRegion
    <3>2. SeenInv'
      BY <2>1, <3>1 DEF SeenInv
    <3> QED  BY <1>4, <2>1, <3>2 DEF VisitInv
  <2> QED  BY <2>2, <2>3
<1>9. CASE Return \/ FlowRaises \/ (EndCell /\ lone)
  <2>1. Over /\ UNCHANGED <<mode, lost>>
    BY <1>9 DEF Return, FlowRaises, EndCell
  <2>2. SeenInv'
    BY <2>1 DEF Over, SeenInv
  <2> QED  BY <1>4, <2>1, <2>2 DEF VisitInv
<1> QED  BY <1>5, <1>6, <1>7, <1>8, <1>9

LEMMA NextVisit == IInv /\ VisitInv /\ [Next]_vars => VisitInv'
<1> SUFFICES ASSUME IInv, VisitInv, [Next]_vars PROVE VisitInv'
  OBVIOUS
<1>1. ASSUME NEW x \in Machine,
             \/ Build(x) \/ Collect(x) \/ SetStatus(x)
             \/ \E t \in 0..MaxTime : Execute(x, t)
      PROVE  VisitInv'
  BY <1>1, CallsVisit, StatusVisit, ExecuteVisit
<1>2. CASE AddSpace
  <2>1. m \in Machine
    BY DEF IInv, TypeOK
  <2> QED  BY <1>2, <2>1, CallsVisit
<1>3. CASE \E x \in Automaton : AddAutomaton(x)
  BY <1>3, CallsVisit DEF Machine
<1>4. CASE NextCell
  BY <1>4, StayVisit DEF NextCell, Visits, setup
<1>5. CASE JumpFalse \/ NoJump \/ Flow \/ AgentDies \/ ModeDies
  BY <1>5, StayVisit
     DEF JumpFalse, NoJump, Flow, AgentDies, ModeDies, True, setup, loop, hist
<1>6. CASE JumpTrue
  <2>1. /\ pc = "jumps" /\ target[<<Now, j>>] # Null
        /\ mode' = [mode EXCEPT ![Here] = target[<<Now, j>>]]
        /\ UNCHANGED <<regions, inside, late, status, pc, m, lone, r, c, seen, steady, lost>>
    BY <1>6 DEF JumpTrue, True, HasTarget, setup
  <2>2. \A k \in Slot : mode[k] # Null => mode'[k] # Null
    BY <2>1 DEF IInv, TypeOK
  <2> QED  BY <2>1, <2>2, StayVisit
<1>7. CASE \/ SkipCell \/ NextRegion \/ Return
           \/ JumpNowhere \/ FlowRaises \/ EndCell
  BY <1>7, LeaveVisit
<1>8. CASE UNCHANGED vars
  <2>1. /\ UNCHANGED <<regions, inside, late, status, m, lone, r, c, seen, steady, lost>>
        /\ UNCHANGED <<pc, mode>>
    BY <1>8 DEF vars, setup, loop, hist
  <2>2. /\ Before' = Before /\ InTime' = InTime /\ Region' = Region
        /\ \A p : CellAt(p)' = CellAt(p)
    BY <2>1 DEF Before, AllPlaces, InTime, Region, CellAt
  <2> QED  BY <2>1, <2>2 DEF VisitInv, Placed, SeenInv
<1> QED  BY <1>1, <1>2, <1>3, <1>4, <1>5, <1>6, <1>7, <1>8 DEF Next, Step

(* When execute returns, the rules were executed in every place of the     *)
(* trajectories (luaGlobalAgent.h and luaLocalAgent.h, execute), if no rule *)
(* turned the status off and an automaton came after the space; but for    *)
(* the cells that the automaton left by a Jump to nowhere (rule.h:120-122). *)
THEOREM VisitsAllPlaces == Spec => VisitsEveryCell
<1>1. ASSUME IInv, VisitInv, Return, steady, m \in Automaton => m \in inside \ late
      PROVE  /\ seen \subseteq AllPlaces
             /\ \A p \in AllPlaces \ seen : <<m, regions[m][p[1]][p[2]]>> \in lost
  <2>1. r > Len(regions[m]) /\ r \in Nat
    BY <1>1 DEF Return, IInv, TypeOK
  <2>2. \A p \in AllPlaces : p[1] < r
    BY <1>1, <2>1, PlacesFacts DEF IInv
  <2>3. Before = AllPlaces
    BY <2>2 DEF Before
  <2> QED  BY <1>1, <2>3 DEF VisitInv, SeenInv, InTime, CellAt
<1>2. IInv /\ VisitInv =>
          [Return /\ steady /\ (m \in Automaton => m \in inside \ late) =>
               /\ seen \subseteq AllPlaces
               /\ \A p \in AllPlaces \ seen : <<m, regions[m][p[1]][p[2]]>> \in lost]_vars
  BY <1>1
<1> QED  BY <1>2, Invariance, InitVisit, NextVisit, PTL DEF Spec, VisitsEveryCell
=============================================================================
