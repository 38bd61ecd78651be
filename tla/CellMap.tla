------------------------------ MODULE CellMap ------------------------------
(***************************************************************************)
(* The map of one attribute of a CellularSpace: the state that the cells   *)
(* send (luaCellularSpace.cpp, luaCell.cpp), what the observer decodes     *)
(* (decoder.cpp), the legend it makes from the first values                *)
(* (legendWindow.cpp), and the picture (painterThread.cpp).                *)
(*                                                                         *)
(* Numbers are multiples of a small step; a legend shows multiples of      *)
(* Unit, its precision.  The names differ from those of UdpObserver, so    *)
(* that Observers_proofs can extend both.                                  *)
(***************************************************************************)
EXTENDS Integers, SequencesExt

CONSTANTS
    Cells,                  \* how many cells there are
    Number,                 \* the values of the attribute
    Missing,                \* a cell does not have it
    MinValue, MaxValue,     \* of the Map
    Rows,                   \* its slices
    Unit,                   \* the precision
    Listed,                 \* its values as Lua writes them, for unique values
    Label,                  \* what a legend shows: numbers as they are written
    Shown,                  \* how the legend writes a number, with six digits
    ReadBack,               \* the number that is read from what is written
    EqualSteps, Quantil, UniqueValue,    \* the groupings
    MaxLayers               \* bound: the attributes shown by one map

(* A Map with unique values lists each once (Map.lua:2018-2031), and lists  *)
(* some: with an empty list the legend takes the values as it finds them   *)
(* (legendWindow.cpp:1350), which is not modelled.  Lua may write a number *)
(* in another way than the legend does.  Numbers that the legend writes    *)
(* alike have no other between them.                                       *)
ASSUME CellMapAssumption ==
    /\ Cells \in Nat \ {0} /\ Rows \in Nat \ {0, 1} /\ Unit \in Nat \ {0}
    /\ MinValue \in Int /\ MaxValue \in Int /\ MinValue < MaxValue
    /\ Number \subseteq Int /\ Missing \in Int \ Number
    /\ EqualSteps # Quantil /\ EqualSteps # UniqueValue /\ Quantil # UniqueValue
    /\ MaxLayers \in Nat \ {0}
    /\ Listed \in Seq(Label) \ {<<>>}
    /\ \A i, j \in DOMAIN Listed : Listed[i] = Listed[j] => i = j
    /\ Shown \in [Number -> Label] /\ ReadBack \in [Label -> Int]
    /\ \A u, v, w \in Number :
          u <= v /\ v <= w /\ Shown[u] = Shown[w] => Shown[v] = Shown[u]

Cell == 1..Cells
Slice == [from : Int \cup Label, to : Int, occurrence : Nat]  \* its colour is its place
White == 0                  \* the other colours
Gray  == -1
Transparent == -2

VARIABLES
    groupMode,
    numericValues,          \* decoded, in the order of the cells
    valueList,              \* the values that have a colour, as they are written
    legend,
    mapAttributes,          \* how many attributes the map shows
    builtLegend,            \* how often the legend was made
    picture,
    drawn, counted          \* history: the cells when they were drawn last,
                            \* the values the legend was made from

mapVars == <<groupMode, numericValues, valueList, legend, mapAttributes, builtLegend, picture,
          drawn, counted>>

MapInit ==
    /\ groupMode \in {EqualSteps, Quantil, UniqueValue}
    /\ numericValues = <<>> /\ valueList = Listed /\ legend = <<>>
    /\ mapAttributes = 1 /\ builtLegend = 0
    /\ picture = [c \in Cell |-> Transparent]
    /\ drawn = [c \in Cell |-> Missing] /\ counted = <<>>

----------------------------------------------------------------------------
(* Each cell sends its attribute, if it has it, and its place. *)
CellPop(value) == IF value = Missing THEN <<>> ELSE <<value>>
Pop(cells)   == [c \in Cell |-> CellPop(cells[c])]
Decode(msg)  ==
    LET decoded[c \in 0..Len(msg)] == IF c = 0 THEN <<>> ELSE decoded[c - 1] \o msg[c]
    IN  decoded[Len(msg)]

(* QString::arg rounds n / d to the precision. *)
Rounded(n, d) == Unit * ((2 * n + Unit * d) \div (2 * Unit * d))
Fix == Unit

(* The i-th of the sorted values is the least that i of them do not exceed. *)
AtMost(values, v) == Cardinality({j \in DOMAIN values : values[j] <= v})
Sorted(values) ==
    [i \in DOMAIN values |-> Min({v \in ToSet(values) : i <= AtMost(values, v)})]

In(s, v) == s.from <= v /\ v < s.to
Occurrence(values, from, to) ==
    Cardinality({j \in DOMAIN values : from <= values[j] /\ values[j] < to})
CountedSlice(values, from, to) ==
    [from |-> from, to |-> to, occurrence |-> Occurrence(values, from, to)]

(* Equal steps; the first and the last are larger by Fix. *)
Bound(i) == MinValue * Rows + i * (MaxValue - MinValue)        \* times Rows
First(i) == Rounded(Bound(i) - (IF i = 0 THEN Fix * Rows ELSE 0), Rows)
NoFix(i) == Rounded(Bound(i + 1), Rows)           \* mutant: the maximum is out
UpTo(i)  == Rounded(Bound(i + 1) + (IF i = Rows - 1 THEN Fix * Rows ELSE 0), Rows)
GroupByEqualStep(values) ==
    [row \in 1..Rows |-> CountedSlice(values, First(row - 1), UpTo(row - 1))]

(* Slices of about as many of the sorted values; p is where slice n ends. *)
SliceEnd(values, n) == (2 * n * Len(values) + Rows) \div (2 * Rows)
QuantilFrom(s, p) == IF p = 0 THEN Rounded(s[1] - Fix, 1) ELSE Rounded(s[p + 1], 1)
QuantilTo(s, p)   == IF p < Len(s) THEN Rounded(s[p + 1], 1) ELSE Rounded(s[p] + Fix, 1)
GroupByQuantil(values) ==
    LET s == Sorted(values)
        used == {n \in 1..Rows : SliceEnd(values, n - 1) < Len(values)} IN
    [n \in 1..Cardinality(used) |->
        CountedSlice(values, QuantilFrom(s, SliceEnd(values, n - 1)),
                             QuantilTo(s, SliceEnd(values, n)))]

(* A slice per value of the list.  The sorted values are written and       *)
(* counted up to the first that is not in the list as the legend writes    *)
(* it; that one is added to the list.                                      *)
Unlisted(values) == {v \in ToSet(values) : Shown[v] \notin ToSet(valueList)}
Stop(values)     == Min(Unlisted(values))
IsCounted(values, v) == Unlisted(values) = {} \/ v < Stop(values)
Times(values, label) ==
    Cardinality({j \in DOMAIN values :
                    Shown[values[j]] = label /\ IsCounted(values, values[j])})
GroupByUniqueValue(values) ==
    IF values = <<>> THEN <<>>
    ELSE [i \in DOMAIN valueList |->
             [from |-> valueList[i], to |-> ReadBack[valueList[i]],
              occurrence |-> Times(values, valueList[i])]]
ListFound(values) ==                             \* mutant: the list is cleared
    LET s == SetToSortSeq(ToSet(values), <) IN [i \in DOMAIN s |-> Shown[s[i]]]
ListAfter(values) ==
    IF Unlisted(values) = {} THEN valueList ELSE Append(valueList, Shown[Stop(values)])

(* makeLegend, for the attribute of the cells *)
MakeLegend(values) ==
    /\ legend' = CASE groupMode = EqualSteps  -> GroupByEqualStep(values)
                   [] groupMode = Quantil     -> GroupByQuantil(values)
                   [] groupMode = UniqueValue -> GroupByUniqueValue(values)
    /\ valueList' = IF groupMode = UniqueValue THEN ListAfter(values) ELSE valueList
    /\ counted' = values
    /\ builtLegend' = builtLegend + 1

----------------------------------------------------------------------------
(* drawAttrib: the colour of a value under a legend *)
Matches(s, v) == IF groupMode = UniqueValue THEN v = s.to ELSE In(s, v)
Colour(l, v) ==
    LET matching == {j \in DOMAIN l : Matches(l[j], v)} IN
    IF l = <<>> THEN Gray
    ELSE IF matching = {} THEN White ELSE Min(matching)
DrawAttrib(values, l) ==
    [c \in Cell |-> IF c <= Len(values) THEN Colour(l, values[c]) ELSE Transparent]

(* The model changes the cells and notifies: the map draws them, and makes *)
(* its legend if it was not made as often as the map has attributes.       *)
Kept(values)    == numericValues \o values      \* mutant: clear is forgotten
Cleared(values) == values
DrawMap(cells) ==
    /\ drawn' = cells
    /\ numericValues' = Cleared(Decode(Pop(cells)))
    /\ IF builtLegend < mapAttributes THEN MakeLegend(numericValues')
       ELSE UNCHANGED <<legend, valueList, counted, builtLegend>>
    /\ picture' = DrawAttrib(numericValues', legend')
    /\ UNCHANGED <<groupMode, mapAttributes>>

(* A map of a Society is laid over this one. *)
AddLayer ==
    /\ mapAttributes < MaxLayers
    /\ mapAttributes' = mapAttributes + 1
    /\ UNCHANGED <<groupMode, numericValues, valueList, legend, builtLegend, picture,
                   drawn, counted>>

MapNext == AddLayer \/ \E cells \in [Cell -> Number \cup {Missing}] : DrawMap(cells)
MapSpec == MapInit /\ [][MapNext]_mapVars

----------------------------------------------------------------------------
(* The variables have their types. *)
MapTypeOK ==
    /\ groupMode \in {EqualSteps, Quantil, UniqueValue}
    /\ numericValues \in Seq(Number) /\ Len(numericValues) <= Cells
    /\ valueList \in Seq(Label) /\ legend \in Seq(Slice)
    /\ builtLegend \in 0..mapAttributes /\ mapAttributes \in 1..MaxLayers
    /\ picture \in [Cell -> {White, Gray, Transparent} \cup DOMAIN legend]

(* How many values the slices of a legend count together. *)
Total(l) ==
    LET total[i \in 0..Len(l)] == IF i = 0 THEN 0 ELSE total[i - 1] + l[i].occurrence
    IN  total[Len(l)]

(* A legend counts each of its values in one slice: equal steps if they    *)
(* are between the minimum and the maximum, quantiles if there are half as *)
(* many values as slices, and unique values if the Map lists them all as   *)
(* the legend writes them; those that it writes alike count together       *)
(* (legendWindow.cpp:597-750, 848-913, 1293-1420).                         *)
CountedOnce ==
    \/ groupMode = EqualSteps /\ \E v \in ToSet(counted) : v \notin MinValue..MaxValue
    \/ groupMode = Quantil /\ 2 * Len(counted) < Rows
    \/ groupMode = UniqueValue /\ \E v \in ToSet(counted) : Shown[v] \notin ToSet(Listed)
    \/ Total(legend) = Len(counted)

(* A value keeps its place among the colours, whatever other values turn up *)
(* (legendWindow.cpp:1278-1282, "Ticket 85").                               *)
ColoursStay ==
    groupMode = UniqueValue /\ legend # <<>> =>
        \A i \in DOMAIN Listed : legend[i].from = Listed[i]

(* When all cells have the attribute, a cell whose value is in the legend  *)
(* is painted with the colour of that value, and with equal steps all      *)
(* between the minimum and the maximum are (painterThread.cpp:187-208).    *)
PictureIsTrue ==
    (\A c \in Cell : drawn[c] # Missing) /\ legend # <<>> =>
        \A c \in Cell :
            LET v == drawn[c] IN
            IF \E j \in DOMAIN legend : Matches(legend[j], v)
            THEN picture[c] \in DOMAIN legend /\ Matches(legend[picture[c]], v)
            ELSE picture[c] = White /\ ~(groupMode = EqualSteps /\ v \in MinValue..MaxValue)
=============================================================================
