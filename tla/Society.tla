------------------------------- MODULE Society -------------------------------
(***************************************************************************)
(* The agents of a Society and the placement that puts them into cells     *)
(* (Society.lua, Agent.lua, the placements of Environment.lua), under      *)
(* forEachAgent (Utils.lua), whose function may call all of them while the *)
(* Society, or a cell, is traversed.                                       *)
(*                                                                         *)
(* An agent knows its cell and the cell lists its agents; the Society      *)
(* numbers the agents with autoincrement, and some operations find them by *)
(* that id.  A call that raises an error keeps what it has changed so far, *)
(* and ends the traversal it was made from.                                *)
(***************************************************************************)
EXTENDS Integers, SequencesExt

CONSTANTS
    Space,          \* the cells of the CellularSpace, in its order
    Outside,        \* a cell that has no placement
    Nowhere,        \* the placement of the agent has no cell
    Unplaced,       \* the agent has no placement
    Whole, Old,     \* traversed: the Society, or its vector before a clear
    Nothing,        \* nothing is traversed
    Capacity,       \* the values of max for createPlacement
    Quantity,       \* how many agents the Society is declared with
    MaxAgents,      \* bound: how many agents are created
    MaxId,          \* bound: the ids that the Society gives
    MaxCalls        \* bound: the calls that the model makes

Cell  == ToSet(Space)
Agent == 1..MaxAgents
None  == 0          \* nil, where an agent is expected

ASSUME SocietyAssumption ==
    /\ Space \in Seq(Cell) /\ Space # <<>>
    /\ \A i, j \in DOMAIN Space : Space[i] = Space[j] => i = j
    /\ Outside \notin Cell
    /\ {Nowhere, Unplaced} \cap (Cell \cup {Outside}) = {} /\ Nowhere # Unplaced
    /\ {Whole, Old, Nothing} \cap Cell = {}
    /\ Whole # Old /\ Whole # Nothing /\ Old # Nothing
    /\ Capacity \subseteq Nat \ {0}
    /\ Quantity \subseteq 0..MaxAgents \cap 0..MaxId
    /\ MaxAgents \in Nat /\ MaxId \in Nat /\ MaxCalls \in Nat

VARIABLES
    agents,         \* agents of the Society
    autoincrement,  \* the number of the next agent
    created,        \* how many agents were created
    id,             \* the id of each agent
    alive,          \* FALSE once die has replaced the metatable
    where,          \* placement.cells[1] of each agent
    inside,         \* placement.agents of each cell
    placed,         \* createPlacement was called
    idindex,        \* the agents that get has found, by id
    mode,           \* "idle", "loop" of forEachAgent, or in a "call" of it
    over, old,      \* what is traversed; the vector that clear replaced
    n, i, k,        \* forEachAgent: #ags, and the counters of its loop
    current,        \* the agent that the function was called for
    visited,        \* history: the agents that the function was called for
    begun,          \* history: the agents of the vector when it began
    left,           \* history: those that left the traversed vector
    drops, many,    \* history: how many left in this call; two in some call
    misplaced,      \* history: enter gave its warning or its error
    calls           \* how many calls the model has made

soc   == <<agents, autoincrement, created, id, alive>>
space == <<where, inside, placed>>
trav  == <<over, old, n, i, k, current, visited>>
hist  == <<begun, left, drops, many>>
vars  == <<soc, space, idindex, mode, trav, hist, misplaced, calls>>

Ids     == 1..MaxId
Created == 1..created
Living  == {a \in Created : alive[a]}

(* Society{instance = ..., quantity = created}, before createPlacement. *)
Init ==
    /\ created \in Quantity /\ autoincrement = created + 1
    /\ agents = [a \in Created |-> a]
    /\ id = [a \in Agent |-> IF a \in Created THEN a ELSE None]
    /\ alive = [a \in Agent |-> a \in Created]
    /\ where = [a \in Agent |-> Unplaced]
    /\ inside = [c \in Cell |-> <<>>]
    /\ placed = FALSE
    /\ idindex = [p \in Ids |-> None]
    /\ mode = "idle" /\ over = Nothing /\ old = <<>>
    /\ n = 0 /\ i = 1 /\ k = 1 /\ current = None /\ visited = <<>>
    /\ begun = {} /\ left = {} /\ drops = 0 /\ many = FALSE
    /\ misplaced = FALSE /\ calls = 0

----------------------------------------------------------------------------
(* The model calls before and after a traversal, and in the function of    *)
(* one.  An error ends the traversal.                                      *)
MayCall == mode \in {"idle", "call"} /\ calls < MaxCalls /\ calls' = calls + 1

EndTraversal ==
    /\ mode' = "idle" /\ over' = Nothing /\ old' = <<>>
    /\ n' = 0 /\ i' = 1 /\ k' = 1 /\ current' = None /\ visited' = <<>>

Returns == UNCHANGED <<mode, trav>>
Raises  == EndTraversal

(* The vector that forEachAgent holds: the table of a cell, or the one that *)
(* the Society had when it began.                                           *)
Traversed == CASE over = Whole -> agents
               [] over = Old   -> old
               [] over \in Cell -> inside[over]
               [] OTHER -> <<>>

(* History: the agents A leave the vector that l names. *)
Dropped(l, A) ==
    IF l = over /\ A # {}
    THEN /\ left' = left \cup A
         /\ drops' = drops + Cardinality(A)
         /\ many' = (many \/ drops' > 1)
         /\ begun' = begun
    ELSE UNCHANGED hist

NothingDropped == UNCHANGED hist

----------------------------------------------------------------------------
(* The elements of s that are in S, in their order: the m-th of them is    *)
(* where the first m are.                                                  *)
UpTo(s, S, j) == Cardinality({x \in 1..j : s[x] \in S})
PlaceOf(s, S, m) == CHOOSE j \in DOMAIN s : s[j] \in S /\ UpTo(s, S, j) = m
Those(s, S) == [m \in 1..UpTo(s, S, Len(s)) |-> s[PlaceOf(s, S, m)]]

(* The two sides of a placement. *)
First(c, a) == SelectInSeq(inside[c], LAMBDA b : id[b] = id[a])

(* leave: the first agent of the cell with the id of a. *)
TakenOut(c, a) == IF First(c, a) = 0 THEN {} ELSE {inside[c][First(c, a)]}
CellKept(c, a) == inside[c]                 \* mutant: table.remove is missing
CellWithout(c, a) ==
    IF First(c, a) = 0 THEN inside[c] ELSE RemoveAt(inside[c], First(c, a))

(* agent:enter(c), also when the agent is inside a cell already: it then   *)
(* gets a new cell and stays in the list of the other one.  In a cell that *)
(* has no placement it raises an error after the agent got its new cell.   *)
Enter(a, c) ==
    /\ MayCall /\ a \in Living /\ where[a] # Unplaced
    /\ where' = [where EXCEPT ![a] = c]
    /\ misplaced' = (misplaced \/ where[a] # Nowhere \/ c = Outside)
    /\ IF c = Outside
       THEN UNCHANGED inside /\ Raises
       ELSE inside' = [inside EXCEPT ![c] = Append(@, a)] /\ Returns
    /\ NothingDropped /\ UNCHANGED <<soc, placed, idindex>>

(* agent:leave(); in a cell that has no placement it raises an error after *)
(* the agent has lost its cell.                                            *)
Leave(a) ==
    /\ MayCall /\ a \in Living /\ where[a] \in Cell \cup {Outside}
    /\ where' = [where EXCEPT ![a] = Nowhere]
    /\ IF where[a] = Outside
       THEN UNCHANGED inside /\ Raises /\ NothingDropped
       ELSE /\ inside' = [inside EXCEPT ![where[a]] = CellWithout(where[a], a)]
            /\ Dropped(where[a], TakenOut(where[a], a)) /\ Returns
    /\ UNCHANGED <<soc, placed, idindex, misplaced>>

(* agent:move(c), and walk, walkIfEmpty and walkToEmpty with the cell that *)
(* they choose: leave, then enter.  From a cell outside, it ends in the    *)
(* error of leave.                                                         *)
Move(a, c) ==
    /\ MayCall /\ a \in Living /\ where[a] \in Cell
    /\ where' = [where EXCEPT ![a] = c]
    /\ LET out == [inside EXCEPT ![where[a]] = CellWithout(where[a], a)] IN
       IF c = Outside
       THEN inside' = out /\ Raises
       ELSE inside' = [out EXCEPT ![c] = Append(@, a)] /\ Returns
    /\ misplaced' = (misplaced \/ c = Outside)
    /\ Dropped(where[a], TakenOut(where[a], a))
    /\ UNCHANGED <<soc, placed, idindex>>

----------------------------------------------------------------------------
(* The Society. *)
NewPlacement(a) == IF placed /\ where[a] = Unplaced THEN Nowhere ELSE where[a]

NewId == autoincrement

Joined(a) ==
    /\ agents' = Append(agents, a)
    /\ autoincrement' = autoincrement + 1

New(a) ==
    /\ a \in Agent /\ a = created + 1 /\ autoincrement \in Ids
    /\ created' = a
    /\ id' = [id EXCEPT ![a] = NewId]
    /\ alive' = [alive EXCEPT ![a] = TRUE]
    /\ Joined(a)

(* society:add() *)
Add ==
    /\ MayCall
    /\ LET a == created + 1 IN New(a) /\ where' = [where EXCEPT ![a] = NewPlacement(a)]
    /\ Returns /\ NothingDropped
    /\ UNCHANGED <<inside, placed, idindex, misplaced>>

(* society:add(a) for an agent that was removed: it keeps its id. *)
AddAgain(a) ==
    /\ MayCall /\ a \in Living \ ToSet(agents) /\ autoincrement \in Ids
    /\ Joined(a)
    /\ where' = [where EXCEPT ![a] = NewPlacement(a)]
    /\ Returns /\ NothingDropped
    /\ UNCHANGED <<created, id, alive, inside, placed, idindex, misplaced>>

(* society:remove(a); the agent keeps its cell. *)
RemoveAgent(a) ==
    /\ MayCall /\ a \in Living \cap ToSet(agents)
    /\ agents' = RemoveFirst(agents, a)
    /\ Dropped(Whole, {a}) /\ Returns
    /\ UNCHANGED <<autoincrement, created, id, alive, space, idindex, misplaced>>

(* society:remove(f) for a function f that is true for the agents of A. *)
RemoveIf(A) ==
    /\ MayCall
    /\ agents' = Those(agents, Agent \ A)
    /\ Dropped(Whole, A \cap ToSet(agents)) /\ Returns
    /\ UNCHANGED <<autoincrement, created, id, alive, space, idindex, misplaced>>

(* society:clear(): a new vector; a traversal goes on with the one it has. *)
Clear ==
    /\ MayCall
    /\ agents' = <<>> /\ autoincrement' = 1
    /\ IF over = Whole
       THEN over' = Old /\ old' = agents
       ELSE UNCHANGED <<over, old>>
    /\ UNCHANGED <<created, id, alive, space, idindex, mode, n, i, k, current, visited,
                   hist, misplaced>>

(* society:get(p): the index is rebuilt only when it has no agent for p.   *)
LastWithId(p) ==
    LET j == SelectLastInSeq(agents, LAMBDA a : id[a] = p) IN IF j = 0 THEN None ELSE agents[j]

Rebuilt == [p \in Ids |-> LastWithId(p)]
Index(p) == IF idindex[p] = None THEN Rebuilt ELSE idindex
Found(p) == Index(p)[p]

Get(p) ==
    /\ MayCall
    /\ idindex' = Index(p)
    /\ IF Found(p) = None THEN Raises ELSE Returns
    /\ NothingDropped /\ UNCHANGED <<soc, space, misplaced>>

----------------------------------------------------------------------------
(* What an agent does with both. *)

(* agent:die(): leave, then society:remove, then the metatable of the      *)
(* dead.  It raises an error on the way, and the agent stays alive, for an *)
(* agent without the placement, in the cell outside, or that is not in the *)
(* Society.                                                                *)
Stuck(a) == placed /\ where[a] \in {Unplaced, Outside}

StillInCell(a) == UNCHANGED <<where, inside>>   \* mutant: remove without leave
OutOfCell(a) ==
    /\ where' = [where EXCEPT ![a] = IF @ = Unplaced THEN @ ELSE Nowhere]
    /\ inside' = IF where[a] \in Cell
                 THEN [inside EXCEPT ![where[a]] = CellWithout(where[a], a)]
                 ELSE inside

Die(a) ==
    /\ MayCall /\ a \in Living \cap ToSet(agents) /\ ~Stuck(a)
    /\ OutOfCell(a)
    /\ agents' = RemoveFirst(agents, a)
    /\ alive' = [alive EXCEPT ![a] = FALSE]
    /\ Dropped(over, CASE over = Whole -> {a}
                       [] over \in Cell /\ over = where[a] -> TakenOut(over, a)
                       [] OTHER -> {})
    /\ Returns
    /\ UNCHANGED <<autoincrement, created, id, placed, idindex, misplaced>>

DieRaises(a) ==
    /\ MayCall /\ a \in Living
    /\ Stuck(a) \/ a \notin ToSet(agents)
    /\ OutOfCell(a)
    /\ Raises /\ NothingDropped
    /\ UNCHANGED <<soc, placed, idindex, misplaced>>

(* agent:reproduce(): society:add, then the newborn enters the cell of a.  *)
(* Without a cell, enter raises an error and the newborn stays.            *)
Reproduce(a) ==
    /\ MayCall /\ a \in Living
    /\ LET b == created + 1  c == where[a] IN
       /\ New(b)
       /\ where' = [where EXCEPT ![b] = IF c \in Cell \cup {Outside} THEN c ELSE NewPlacement(b)]
       /\ inside' = IF c \in Cell THEN [inside EXCEPT ![c] = Append(@, b)] ELSE inside
       /\ misplaced' = (misplaced \/ c = Outside)
       /\ IF c \in {Nowhere, Outside} THEN Raises ELSE Returns
    /\ NothingDropped /\ UNCHANGED <<placed, idindex>>

----------------------------------------------------------------------------
(* environment:createPlacement{...} with the default name, once: agent      *)
(* order[j] enters the cell at[j].  With more agents than the cells may     *)
(* have, it raises an error before it changes anything.                     *)
CreatePlacement(order, at) ==
    /\ MayCall /\ ~placed
    /\ placed' = TRUE
    /\ where' = [a \in Agent |->
                    LET j == SelectInSeq(order, LAMBDA b : b = a) IN
                    IF j = 0 THEN where[a] ELSE at[j]]
    /\ inside' = [c \in Cell |-> Those(order, {a \in Agent : where'[a] = c})]
    /\ Returns /\ NothingDropped
    /\ UNCHANGED <<soc, idindex, misplaced>>

Fits(max) == Len(agents) <= Len(Space) * max
Places    == DOMAIN agents

(* random: max agents in the first of the cells in a random order, and so on. *)
Slot(j, max) == ((j - 1) \div max) + 1

CreateRandom(max) ==
    /\ Fits(max)
    /\ \E order \in SetToSeqs(ToSet(agents)), cells \in SetToSeqs(Cell) :
          CreatePlacement(order, [j \in Places |-> cells[Slot(j, max)]])

(* spread: each agent in a random cell; a cell that has got max agents is  *)
(* replaced by the last one of those that are left.                        *)
Count(s, e) == Cardinality({j \in DOMAIN s : s[j] = e})

WithoutLast(room, r) == SubSeq(room, 1, Len(room) - 1)   \* mutant: no swap
WithoutCell(room, r) == SubSeq([room EXCEPT ![r] = room[Len(room)]], 1, Len(room) - 1)

SpreadStep(s, pick, max) ==
    LET r  == (pick % Len(s.room)) + 1
        at == Append(s.at, s.room[r])
    IN [at   |-> at,
        room |-> IF Count(at, s.room[r]) = max THEN WithoutCell(s.room, r) ELSE s.room]

Spread(picks, max) ==
    LET s[j \in 0..Len(picks)] ==
            IF j = 0 THEN [at |-> <<>>, room |-> Space] ELSE SpreadStep(s[j - 1], picks[j], max)
    IN  s[Len(picks)].at

CreateSpread(max) ==
    /\ Fits(max)
    /\ \E order \in SetToSeqs(ToSet(agents)), picks \in [Places -> DOMAIN Space] :
          CreatePlacement(order, Spread(picks, max))

(* uniform: the cells in turn. *)
CreateUniform ==
    CreatePlacement(agents, [j \in Places |-> Space[((j - 1) % Len(Space)) + 1]])

CreateVoid == CreatePlacement(agents, [j \in Places |-> Nowhere])

----------------------------------------------------------------------------
(* forEachAgent(obj, f) for the Society or a cell. *)
ForEach(l) ==
    /\ mode = "idle" /\ MayCall
    /\ l \in Cell => placed
    /\ LET ags == IF l = Whole THEN agents ELSE inside[l] IN
       n' = Len(ags) /\ begun' = ToSet(ags)
    /\ mode' = "loop" /\ over' = l /\ i' = 1 /\ k' = 1
    /\ left' = {} /\ drops' = 0 /\ many' = FALSE
    /\ UNCHANGED <<soc, space, idindex, old, current, visited, misplaced>>

MoreByOne == i <= n + 1                    \* mutant: an off-by-one
More == i <= n

Visit ==
    /\ mode = "loop" /\ More /\ k <= Len(Traversed)
    /\ mode' = "call" /\ current' = Traversed[k]
    /\ visited' = Append(visited, current') /\ drops' = 0
    /\ UNCHANGED <<soc, space, idindex, over, old, n, i, k, begun, left, many,
                   misplaced, calls>>

(* The vector has become shorter: ag is nil, and equal to ags[k]. *)
NoAgent ==
    /\ mode = "loop" /\ More /\ k > Len(Traversed)
    /\ i' = i + 1 /\ k' = k + 1
    /\ UNCHANGED <<soc, space, idindex, mode, over, old, n, current, visited, hist,
                   misplaced, calls>>

(* The next agent is at k when the one that was called for left its place. *)
NextAlways == k + 1                            \* mutant: ipairs
NextPlace == IF k <= Len(Traversed) /\ Traversed[k] = current THEN k + 1 ELSE k

CallReturn ==
    /\ mode = "call"
    /\ mode' = "loop" /\ current' = None
    /\ i' = i + 1 /\ k' = NextPlace
    /\ UNCHANGED <<soc, space, idindex, over, old, n, visited, hist, misplaced, calls>>

(* The function returns false or raises an error, or the loop is over. *)
ForEachEnds ==
    /\ mode = "call" \/ (mode = "loop" /\ ~More)
    /\ EndTraversal
    /\ UNCHANGED <<soc, space, idindex, hist, misplaced, calls>>

Next ==
    \/ Add \/ Clear
    \/ \E a \in Agent : \/ AddAgain(a) \/ RemoveAgent(a) \/ Reproduce(a)
                        \/ Leave(a) \/ Die(a) \/ DieRaises(a)
                        \/ \E c \in Cell \cup {Outside} : Enter(a, c) \/ Move(a, c)
    \/ \E A \in (SUBSET ToSet(agents)) \ {{}} : RemoveIf(A)
    \/ \E p \in Ids : Get(p)
    \/ \E max \in Capacity : CreateRandom(max) \/ CreateSpread(max)
    \/ CreateUniform \/ CreateVoid
    \/ \E l \in {Whole} \cup Cell : ForEach(l)
    \/ Visit \/ NoAgent \/ CallReturn \/ ForEachEnds

Spec == Init /\ [][Next]_vars

----------------------------------------------------------------------------
Place == Cell \cup {Outside, Nowhere, Unplaced}

(* The variables have their types, and the counters of the loop stay in    *)
(* their range (Utils.lua:293-300).                                        *)
TypeOK ==
    /\ agents \in Seq(Created) /\ autoincrement \in 1..(MaxId + 1)
    /\ created \in 0..MaxAgents
    /\ id \in [Agent -> Ids \cup {None}] /\ alive \in [Agent -> BOOLEAN]
    /\ where \in [Agent -> Place]
    /\ inside \in [Cell -> Seq(Created)]
    /\ placed \in BOOLEAN
    /\ idindex \in [Ids -> Created \cup {None}]
    /\ mode \in {"idle", "loop", "call"}
    /\ over \in {Whole, Old, Nothing} \cup Cell /\ old \in Seq(Created)
    /\ n \in Nat /\ i \in 1..(n + 1) /\ k \in 1..i
    /\ current \in Created \cup {None} /\ (mode = "call") = (current # None)
    /\ visited \in Seq(Created) /\ begun \subseteq Created /\ left \subseteq Created
    /\ drops \in Nat /\ many \in BOOLEAN
    /\ misplaced \in BOOLEAN /\ calls \in 0..MaxCalls

(* No two agents have got the same id: society:clear() starts the numbers  *)
(* again while the agents that it removed keep theirs.                     *)
UniqueIds == \A a, b \in Created : id[a] = id[b] => a = b

(* The model may count on the cells: ids are unique, and no agent entered a *)
(* cell when it was in another one, or a cell outside.                     *)
Regular == UniqueIds /\ ~misplaced

(* A dead agent is nowhere: not in the Society, and in the list of no cell *)
(* (Agent.lua:86-88).  leave finds the agent in the cell by its id, so    *)
(* this holds of the cells when the model is regular.                      *)
DeadAreGone ==
    \A a \in Created \ Living :
        /\ a \notin ToSet(agents)
        /\ Regular => \A c \in Cell : a \notin ToSet(inside[c])

(* The cell of an agent lists it, once, and lists no other agents          *)
(* (Agent.lua:170-171): the two sides that enter, leave, move, die,        *)
(* reproduce and createPlacement change one after the other agree.         *)
PlacementAgrees ==
    Regular =>
        \A c \in Cell : /\ IsInjective(inside[c])
                        /\ ToSet(inside[c]) = {a \in Created : where[a] = c}

(* No agent is twice in the vector that is traversed. *)
Distinct == over \in Cell => Regular

(* When forEachAgent ends, the function was called once for each agent of  *)
(* the vector that stayed in it, whoever died, moved, came or was removed  *)
(* meanwhile, unless one call took two agents away (Utils.lua:289-292).    *)
(* Agents that are added do not keep the loop alive: it never calls the    *)
(* function more often than there were agents (Utils.lua:296).             *)
VisitsStaying ==
    /\ Len(visited) <= n
    /\ mode = "loop" /\ ~More /\ ~many /\ Distinct =>
          \A a \in begun \ left : Count(visited, a) = 1

(* "applying a function to each of its Agents" (Utils.lua:236-237): also   *)
(* after a call that took two away.                                        *)
VisitsAll ==
    mode = "loop" /\ ~More /\ Distinct =>
        \A a \in begun \ left : Count(visited, a) = 1

(* createPlacement with max gives each agent a cell and no cell more than  *)
(* max agents, although it takes full cells out of its table as it goes;   *)
(* uniform fills the cells evenly (Environment.lua:54-63, 93-101, 111-128). *)
PlacementFits ==
    [][ ~placed /\ placed' =>
        /\ \A max \in Capacity :
              CreateRandom(max) \/ CreateSpread(max) =>
                  /\ \A a \in ToSet(agents) : where'[a] \in Cell
                  /\ \A c \in Cell : Len(inside'[c]) <= max
        /\ CreateUniform =>
              \A c, d \in Cell : Len(inside'[c]) <= Len(inside'[d]) + 1 ]_vars
=============================================================================
