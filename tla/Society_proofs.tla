--------------------------- MODULE Society_proofs ---------------------------
(***************************************************************************)
(* That agents and cells agree, that the dead are gone, and that           *)
(* forEachAgent meets each agent that stays, for every number of agents,   *)
(* cells and calls.                                                        *)
(***************************************************************************)
EXTENDS Society, FiniteSetTheorems, WellFoundedInduction, TLAPS

----------------------------------------------------------------------------
(* Vectors: what table.insert and table.remove do to them. *)
LEMMA RemoveAtFacts ==
    ASSUME NEW S, NEW s \in Seq(S), NEW p \in DOMAIN s
    PROVE  /\ RemoveAt(s, p) \in Seq(S) /\ Len(RemoveAt(s, p)) = Len(s) - 1
           /\ DOMAIN RemoveAt(s, p) = 1..(Len(s) - 1)
           /\ \A x \in 1..(Len(s) - 1) :
                 RemoveAt(s, p)[x] = IF x < p THEN s[x] ELSE s[x + 1]
  <1> DEFINE u == SubSeq(s, 1, p - 1)
             v == SubSeq(s, p + 1, Len(s))
  <1>1. p \in 1..Len(s) /\ Len(s) \in Nat
    OBVIOUS
  <1>2. u \in Seq(S) /\ Len(u) = p - 1 /\ \A x \in 1..(p - 1) : u[x] = s[x]
    BY <1>1
  <1>3. /\ v \in Seq(S) /\ Len(v) = Len(s) - p
        /\ \A x \in 1..(Len(s) - p) : v[x] = s[p + x]
    BY <1>1
  <1> HIDE DEF u, v
  <1>4. u \o v \in Seq(S) /\ Len(u \o v) = Len(s) - 1
    BY <1>1, <1>2, <1>3
  <1>5. ASSUME NEW x \in 1..(Len(s) - 1)
        PROVE  (u \o v)[x] = IF x < p THEN s[x] ELSE s[x + 1]
    <2>1. CASE x < p
      BY <1>1, <1>2, <1>3, <2>1
    <2>2. CASE ~(x < p)
      <3>1. (u \o v)[x] = v[x - (p - 1)]
        BY <1>1, <1>2, <1>3, <2>2
      <3>2. x - (p - 1) \in 1..(Len(s) - p) /\ p + (x - (p - 1)) = x + 1
        BY <1>1, <2>2
      <3>3. QED
        BY <1>3, <2>2, <3>1, <3>2
    <2>3. QED
      BY <2>1, <2>2
  <1>6. RemoveAt(s, p) = u \o v
    BY DEF RemoveAt, u, v
  <1>7. QED
    BY <1>4, <1>5, <1>6

LEMMA RemoveAtInjective ==
    ASSUME NEW S, NEW s \in Seq(S), NEW p \in DOMAIN s, IsInjective(s)
    PROVE  /\ IsInjective(RemoveAt(s, p))
           /\ ToSet(RemoveAt(s, p)) = ToSet(s) \ {s[p]}
  <1> DEFINE r == RemoveAt(s, p)
  <1>1. /\ p \in 1..Len(s) /\ Len(s) \in Nat /\ DOMAIN s = 1..Len(s)
        /\ \A x, y \in 1..Len(s) : s[x] = s[y] => x = y
    BY DEF IsInjective
  <1>2. DOMAIN r = 1..(Len(s) - 1)
    BY RemoveAtFacts
  <1>3. \A x \in 1..(Len(s) - 1) : r[x] = IF x < p THEN s[x] ELSE s[x + 1]
    BY RemoveAtFacts
  <1> HIDE DEF r
  <1>4. IsInjective(r)
    BY <1>1, <1>2, <1>3 DEF IsInjective
  <1>5. ASSUME NEW x \in 1..(Len(s) - 1) PROVE r[x] \in ToSet(s) \ {s[p]}
    BY <1>1, <1>3 DEF ToSet
  <1>6. ASSUME NEW x \in 1..Len(s), x # p PROVE s[x] \in ToSet(r)
    <2>1. CASE x < p
      <3>1. x \in DOMAIN r /\ r[x] = s[x]
        BY <1>1, <1>2, <1>3, <2>1
      <3>2. QED
        BY <3>1 DEF ToSet
    <2>2. CASE x > p
      <3>1. x - 1 \in DOMAIN r /\ r[x - 1] = s[x]
        BY <1>1, <1>2, <1>3, <2>2
      <3>2. QED
        BY <3>1 DEF ToSet
    <2>3. QED
      BY <1>1, <1>6, <2>1, <2>2
  <1>7. ToSet(r) = ToSet(s) \ {s[p]}
    <2>1. ToSet(r) \subseteq ToSet(s) \ {s[p]}
      BY <1>2, <1>5 DEF ToSet
    <2>2. ToSet(s) \ {s[p]} \subseteq ToSet(r)
      BY <1>1, <1>6 DEF ToSet
    <2>3. QED
      BY <2>1, <2>2
  <1>8. QED
    BY <1>4, <1>7 DEF r

(* In a vector that has the element once, the first is the only one. *)
LEMMA RemoveFirstFacts ==
    ASSUME NEW S, NEW s \in Seq(S), IsInjective(s), NEW p \in DOMAIN s
    PROVE  RemoveFirst(s, s[p]) = RemoveAt(s, p)
  <1>1. p \in 1..Len(s) /\ DOMAIN s = 1..Len(s) /\ Len(s) \in Nat
    OBVIOUS
  <1> DEFINE I == {x \in 1..Len(s) : s[x] = s[p]}
  <1>2. I = {p}
    BY <1>1 DEF IsInjective
  <1>3. Min(I) = p
    BY <1>1, <1>2 DEF Min
  <1>4. SelectInSeq(s, LAMBDA v : v = s[p]) = p
    BY <1>2, <1>3 DEF SelectInSeq
  <1>5. QED
    BY <1>1, <1>4 DEF RemoveFirst

LEMMA AppendFacts ==
    ASSUME NEW S, NEW s \in Seq(S), NEW a \in S
    PROVE  /\ Append(s, a) \in Seq(S) /\ Len(Append(s, a)) = Len(s) + 1
           /\ DOMAIN Append(s, a) = 1..(Len(s) + 1)
           /\ \A x \in 1..Len(s) : Append(s, a)[x] = s[x]
           /\ Append(s, a)[Len(s) + 1] = a
           /\ ToSet(Append(s, a)) = ToSet(s) \cup {a}
           /\ IsInjective(s) /\ a \notin ToSet(s) => IsInjective(Append(s, a))
  <1> DEFINE r == Append(s, a)
  <1>1. /\ Len(s) \in Nat /\ DOMAIN s = 1..Len(s) /\ r \in Seq(S) /\ Len(r) = Len(s) + 1
        /\ \A x \in 1..Len(s) : r[x] = s[x]
        /\ r[Len(s) + 1] = a
    OBVIOUS
  <1>2. DOMAIN r = 1..(Len(s) + 1)
    BY <1>1
  <1> HIDE DEF r
  <1>3. ToSet(r) = ToSet(s) \cup {a}
    <2>1. ToSet(r) \subseteq ToSet(s) \cup {a}
      <3>1. ASSUME NEW x \in 1..(Len(s) + 1) PROVE x = Len(s) + 1 \/ x \in 1..Len(s)
        BY <1>1
      <3>2. QED
        BY <1>1, <1>2, <3>1 DEF ToSet
    <2>2. ToSet(s) \cup {a} \subseteq ToSet(r)
      <3>1. Len(s) + 1 \in 1..(Len(s) + 1) /\ 1..Len(s) \subseteq 1..(Len(s) + 1)
        BY <1>1
      <3>2. QED
        BY <1>1, <1>2, <3>1 DEF ToSet
    <2>3. QED
      BY <2>1, <2>2
  <1>4. ASSUME IsInjective(s), a \notin ToSet(s) PROVE IsInjective(r)
    <2>1. \A x \in 1..Len(s) : s[x] # a
      BY <1>1, <1>4 DEF ToSet
    <2>2. QED
      BY <1>1, <1>2, <1>4, <2>1 DEF IsInjective
  <1>5. QED
    BY <1>1, <1>2, <1>3, <1>4 DEF r

LEMMA SeqElements ==
    ASSUME NEW S, NEW s \in Seq(S)
    PROVE  /\ ToSet(s) \subseteq S /\ IsFiniteSet(ToSet(s))
           /\ Len(s) \in Nat /\ DOMAIN s = 1..Len(s)
           /\ \A x \in 1..Len(s) : s[x] \in S /\ s[x] \in ToSet(s)
           /\ s \in Seq(ToSet(s))
  <1>1. Len(s) \in Nat /\ DOMAIN s = 1..Len(s) /\ \A x \in 1..Len(s) : s[x] \in S
    OBVIOUS
  <1>2. IsFiniteSet(1..Len(s))
    BY <1>1, FS_Interval
  <1>3. IsFiniteSet({s[x] : x \in 1..Len(s)})
    <2> DEFINE f == [x \in 1..Len(s) |-> s[x]]
    <2>1. f \in Surjection(1..Len(s), {s[x] : x \in 1..Len(s)})
      BY DEF Surjection
    <2>2. QED
      BY <1>2, <2>1, FS_Surjection
  <1>4. \A x \in 1..Len(s) : s[x] \in ToSet(s)
    BY <1>1 DEF ToSet
  <1>5. s \in [1..Len(s) -> ToSet(s)]
    BY <1>1, <1>4
  <1>6. s \in Seq(ToSet(s))
    BY <1>1, <1>5
  <1>7. QED
    BY <1>1, <1>3, <1>4, <1>6 DEF ToSet

----------------------------------------------------------------------------
(* Those(s, S): the m-th element of s that is in S is where UpTo reaches m. *)
LEMMA LeastNatural ==
    ASSUME NEW T, T \subseteq Nat, T # {}
    PROVE  \E x \in T : \A y \in T : x <= y
  <1> DEFINE R == {ss \in Nat \X Nat : ss[1] < ss[2]}
  <1>1. IsWellFoundedOn(R, Nat)
    BY NatLessThanWellFounded DEF OpToRel
  <1> HIDE DEF R
  <1>2. \E x \in T : \A y \in T : ~(<<y, x>> \in R)
    BY <1>1, WFMin
  <1>3. \A x, y \in T : <<y, x>> \notin R => x <= y
    BY DEF R
  <1>4. QED
    BY <1>2, <1>3

LEMMA UpToFacts ==
    ASSUME NEW s, NEW S, NEW j \in Nat
    PROVE  /\ UpTo(s, S, 0) = 0 /\ UpTo(s, S, j) \in Nat
           /\ s[j + 1] \in S => UpTo(s, S, j + 1) = UpTo(s, S, j) + 1
           /\ s[j + 1] \notin S => UpTo(s, S, j + 1) = UpTo(s, S, j)
  <1> DEFINE K(l) == {x \in 1..l : s[x] \in S}
  <1>1. K(0) = {} /\ UpTo(s, S, 0) = 0
    BY FS_EmptySet DEF UpTo
  <1>2. IsFiniteSet(1..j)
    BY FS_Interval
  <1>3. IsFiniteSet(K(j)) /\ Cardinality(K(j)) \in Nat
    BY <1>2, FS_Subset, FS_CardinalityType
  <1>4. j + 1 \notin K(j) /\ K(j + 1) = IF s[j + 1] \in S THEN K(j) \cup {j + 1} ELSE K(j)
    <2>1. 1..(j + 1) = 1..j \cup {j + 1} /\ j + 1 \notin 1..j
      OBVIOUS
    <2>2. QED
      BY <2>1
  <1>5. Cardinality(K(j) \cup {j + 1}) = Cardinality(K(j)) + 1
    BY <1>3, <1>4, FS_AddElement
  <1>6. UpTo(s, S, j) = Cardinality(K(j)) /\ UpTo(s, S, j + 1) = Cardinality(K(j + 1))
    BY DEF UpTo
  <1>7. QED
    BY <1>1, <1>3, <1>4, <1>5, <1>6

LEMMA UpToGrows ==
    ASSUME NEW s, NEW S, NEW j \in Nat, NEW l \in Nat, j < l
    PROVE  /\ UpTo(s, S, j) <= UpTo(s, S, l)
           /\ s[l] \in S => UpTo(s, S, j) < UpTo(s, S, l)
  <1>1. ASSUME NEW a \in Nat, NEW b \in Nat, a <= b
        PROVE  UpTo(s, S, a) <= UpTo(s, S, b)
    <2>1. IsFiniteSet(1..b) /\ 1..a \subseteq 1..b
      BY <1>1, FS_Interval
    <2>2. /\ IsFiniteSet({x \in 1..b : s[x] \in S})
          /\ {x \in 1..a : s[x] \in S} \in SUBSET {x \in 1..b : s[x] \in S}
      BY <2>1, FS_Subset
    <2>3. QED
      BY <2>2, FS_Subset DEF UpTo
  <1>2. l - 1 \in Nat /\ j <= l - 1 /\ (l - 1) + 1 = l
    OBVIOUS
  <1>3. UpTo(s, S, j) <= UpTo(s, S, l - 1)
    BY <1>1, <1>2
  <1>4. s[l] \in S => UpTo(s, S, l) = UpTo(s, S, l - 1) + 1
    BY <1>2, UpToFacts
  <1>5. UpTo(s, S, j) \in Nat /\ UpTo(s, S, l - 1) \in Nat
    BY <1>2, UpToFacts
  <1>6. UpTo(s, S, j) <= UpTo(s, S, l)
    BY <1>1
  <1>7. QED
    BY <1>3, <1>4, <1>5, <1>6

(* The search for the m-th element succeeds: UpTo grows in steps of one.   *)
LEMMA PlaceExists ==
    ASSUME NEW X, NEW s \in Seq(X), NEW S, NEW m \in 1..UpTo(s, S, Len(s))
    PROVE  /\ PlaceOf(s, S, m) \in DOMAIN s /\ s[PlaceOf(s, S, m)] \in S
           /\ UpTo(s, S, PlaceOf(s, S, m)) = m
  <1> DEFINE T == {j \in Nat : m <= UpTo(s, S, j)}
  <1>1. Len(s) \in Nat /\ DOMAIN s = 1..Len(s)
    OBVIOUS
  <1>2. UpTo(s, S, Len(s)) \in Nat
    BY <1>1, UpToFacts
  <1>3. m \in Nat /\ 1 <= m /\ m <= UpTo(s, S, Len(s))
    BY <1>2
  <1>4. Len(s) \in T
    BY <1>1, <1>3
  <1>5. PICK j \in T : \A l \in T : j <= l
    BY <1>4, LeastNatural
  <1>6. j \in Nat /\ j <= Len(s) /\ m <= UpTo(s, S, j)
    BY <1>4, <1>5
  <1>7. j # 0
    BY <1>3, <1>6, UpToFacts
  <1>8. j - 1 \in Nat /\ (j - 1) + 1 = j /\ ~(m <= UpTo(s, S, j - 1))
    <2>1. j - 1 \in Nat /\ (j - 1) + 1 = j /\ ~(j <= j - 1)
      BY <1>6, <1>7
    <2>2. QED
      BY <1>5, <2>1
  <1>9. /\ UpTo(s, S, j - 1) \in Nat
        /\ s[j] \in S => UpTo(s, S, j) = UpTo(s, S, j - 1) + 1
        /\ s[j] \notin S => UpTo(s, S, j) = UpTo(s, S, j - 1)
    BY <1>8, UpToFacts
  <1>10. s[j] \in S /\ UpTo(s, S, j) = m
    BY <1>3, <1>6, <1>8, <1>9
  <1>11. j \in DOMAIN s
    BY <1>1, <1>6, <1>7
  <1>12. QED
    BY <1>10, <1>11 DEF PlaceOf

LEMMA ThoseFacts ==
    ASSUME NEW X, NEW s \in Seq(X), NEW S
    PROVE  /\ Those(s, S) \in Seq(X)
           /\ ToSet(Those(s, S)) = ToSet(s) \cap S
           /\ IsInjective(s) => IsInjective(Those(s, S))
           /\ Len(Those(s, S)) = UpTo(s, S, Len(s))
  <1> DEFINE r == Those(s, S)
             c == UpTo(s, S, Len(s))
             P(m) == PlaceOf(s, S, m)
  <1>1. Len(s) \in Nat /\ DOMAIN s = 1..Len(s) /\ c \in Nat /\ \A x \in 1..Len(s) : s[x] \in X
    BY UpToFacts
  <1>2. \A m \in 1..c : P(m) \in 1..Len(s) /\ s[P(m)] \in S /\ UpTo(s, S, P(m)) = m
    BY <1>1, PlaceExists
  <1>3. r = [m \in 1..c |-> s[P(m)]]
    BY DEF Those
  <1> HIDE DEF r, P, c
  <1>4. r \in [1..c -> X] /\ DOMAIN r = 1..c
    BY <1>1, <1>2, <1>3
  <1>5. r \in Seq(X) /\ Len(r) = c
    BY <1>1, <1>4
  <1>6. ToSet(r) \subseteq ToSet(s) \cap S
    BY <1>1, <1>2, <1>3 DEF ToSet
  <1>7. ToSet(s) \cap S \subseteq ToSet(r)
    <2>1. SUFFICES ASSUME NEW j \in 1..Len(s), s[j] \in S PROVE s[j] \in ToSet(r)
      BY <1>1 DEF ToSet
    <2>a. j \in Nat /\ 0 < j /\ (j = Len(s) \/ j < Len(s))
      BY <2>1
    <2> DEFINE m == UpTo(s, S, j)
    <2>2. m \in Nat /\ m # 0
      <3>1. UpTo(s, S, 0) = 0 /\ m \in Nat
        BY <2>a, UpToFacts
      <3>2. UpTo(s, S, 0) < m
        BY <2>1, <2>a, UpToGrows
      <3>3. QED
        BY <3>1, <3>2
    <2>3. m <= c
      <3>1. j < Len(s) => m <= UpTo(s, S, Len(s))
        BY <1>1, <2>a, UpToGrows
      <3>2. QED
        <4>1. CASE j = Len(s)
          BY <2>2, <4>1 DEF c
        <4>2. CASE j < Len(s)
          BY <3>1, <4>2 DEF c
        <4>3. QED
          BY <2>a, <4>1, <4>2
    <2>4. m \in 1..c
      BY <1>1, <2>2, <2>3
    <2>5. P(m) = j
      <3>1. P(m) \in 1..Len(s) /\ s[P(m)] \in S /\ UpTo(s, S, P(m)) = m
        BY <1>2, <2>4
      <3>2. P(m) \in Nat /\ j \in Nat
        BY <1>1, <3>1
      <3>3. ~(P(m) < j) /\ ~(j < P(m))
        BY <2>1, <2>2, <3>1, <3>2, UpToGrows
      <3>4. QED
        BY <3>2, <3>3
    <2>6. QED
      BY <1>3, <1>4, <2>4, <2>5 DEF ToSet
  <1>8. ASSUME IsInjective(s) PROVE IsInjective(r)
    <2>1. ASSUME NEW a \in 1..c, NEW b \in 1..c, r[a] = r[b] PROVE a = b
      <3>1. P(a) = P(b)
        BY <1>1, <1>2, <1>3, <1>8, <2>1 DEF IsInjective
      <3>2. QED
        BY <1>2, <3>1
    <2>2. QED
      BY <1>4, <2>1 DEF IsInjective
  <1>9. QED
    BY <1>5, <1>6, <1>7, <1>8 DEF r, c

(* When all elements but one are in S, the filter is a table.remove. *)
LEMMA ThoseWithoutOne ==
    ASSUME NEW X, NEW s \in Seq(X), NEW S, NEW p \in DOMAIN s,
           s[p] \notin S, \A x \in DOMAIN s : x # p => s[x] \in S
    PROVE  Those(s, S) = RemoveAt(s, p)
  <1>1. Len(s) \in Nat /\ DOMAIN s = 1..Len(s) /\ p \in 1..Len(s)
    OBVIOUS
  <1>2. ASSUME NEW j \in 0..Len(s) PROVE UpTo(s, S, j) = IF j < p THEN j ELSE j - 1
    <2>1. {x \in 1..j : s[x] \in S} = 1..j \ {p}
      BY <1>1
    <2>2. IsFiniteSet(1..j) /\ Cardinality(1..j) = j
      BY <1>1, FS_Interval
    <2>3. Cardinality(1..j \ {p}) = IF p \in 1..j THEN j - 1 ELSE j
      BY <2>2, FS_RemoveElement
    <2>4. p \in 1..j <=> ~(j < p)
      BY <1>1
    <2>5. QED
      BY <2>1, <2>3, <2>4 DEF UpTo
  <1>3. UpTo(s, S, Len(s)) = Len(s) - 1
    BY <1>1, <1>2
  <1>4. ASSUME NEW m \in 1..(Len(s) - 1)
        PROVE  PlaceOf(s, S, m) = IF m < p THEN m ELSE m + 1
    <2>1. /\ PlaceOf(s, S, m) \in 1..Len(s) /\ PlaceOf(s, S, m) # p
          /\ UpTo(s, S, PlaceOf(s, S, m)) = m
      BY <1>1, <1>3, PlaceExists
    <2>2. QED
      BY <1>1, <1>2, <2>1
  <1>5. Those(s, S) = [m \in 1..(Len(s) - 1) |-> IF m < p THEN s[m] ELSE s[m + 1]]
    BY <1>3, <1>4 DEF Those
  <1>6. RemoveAt(s, p) = [m \in 1..(Len(s) - 1) |-> IF m < p THEN s[m] ELSE s[m + 1]]
    <2>1. /\ RemoveAt(s, p) \in Seq(X) /\ DOMAIN RemoveAt(s, p) = 1..(Len(s) - 1)
          /\ \A x \in 1..(Len(s) - 1) :
                RemoveAt(s, p)[x] = IF x < p THEN s[x] ELSE s[x + 1]
      BY RemoveAtFacts
    <2>2. RemoveAt(s, p) = [x \in 1..(Len(s) - 1) |-> RemoveAt(s, p)[x]]
      BY <2>1
    <2>3. QED
      BY <2>1, <2>2
  <1>7. QED
    BY <1>5, <1>6

----------------------------------------------------------------------------
(* The loop of forEachAgent: T is the vector that it walks, S the agents   *)
(* that were in it at the beginning and are still, q the next position, r   *)
(* one more than the turns that are left, and V the agents that were        *)
(* visited.  Those of S are in front of those that came later.             *)
Once(V, a)  == \E j \in DOMAIN V : V[j] = a /\ \A l \in DOMAIN V : V[l] = a => l = j
Never(V, a) == \A l \in DOMAIN V : V[l] # a

Enough(T, S, q, r) ==
    \E m \in 0..Len(T) : (\A x \in DOMAIN T : T[x] \in S <=> x <= m) /\ m - q < r
Behind(T, S, q, V) == \A x \in DOMAIN T : T[x] \in S /\ x < q => Once(V, T[x])
Ahead(T, S, q, V)  == \A x \in DOMAIN T : T[x] \in S /\ ~(x < q) => Never(V, T[x])

Orderly(T, S, q, r, V) ==
    /\ IsInjective(T) /\ S \subseteq ToSet(T)
    /\ Enough(T, S, q, r) /\ Behind(T, S, q, V) /\ Ahead(T, S, q, V)

(* NextPlace, for any vector. *)
Follow(T, x, a) == IF x <= Len(T) /\ T[x] = a THEN x + 1 ELSE x

(* One agent leaves the vector, and those behind it move up. *)
LEMMA OrderlyShrinks ==
    ASSUME NEW X, NEW T \in Seq(X), NEW S, NEW p \in DOMAIN T, NEW q \in Nat, NEW r \in Nat,
           NEW V, Orderly(T, S, q, r, V)
    PROVE  Orderly(RemoveAt(T, p), S \ {T[p]}, IF p < q THEN q - 1 ELSE q, r, V)
  <1> DEFINE R == RemoveAt(T, p)
             U == S \ {T[p]}
             w == IF p < q THEN q - 1 ELSE q
  <1>1. /\ Len(T) \in Nat /\ DOMAIN T = 1..Len(T) /\ p \in 1..Len(T)
        /\ \A x, y \in 1..Len(T) : T[x] = T[y] => x = y
    BY DEF Orderly, IsInjective
  <1>2. /\ Len(R) = Len(T) - 1 /\ DOMAIN R = 1..(Len(T) - 1)
        /\ \A x \in 1..(Len(T) - 1) : R[x] = IF x < p THEN T[x] ELSE T[x + 1]
    BY RemoveAtFacts
  <1>3. IsInjective(R) /\ U \subseteq ToSet(R)
    BY RemoveAtInjective DEF Orderly
  <1> HIDE DEF R
  <1>4. PICK m \in 0..Len(T) : (\A x \in 1..Len(T) : T[x] \in S <=> x <= m) /\ m - q < r
    BY <1>1 DEF Orderly, Enough
  <1>5. Enough(R, U, w, r)
    <2> DEFINE g == IF p <= m THEN m - 1 ELSE m
    <2>1. g \in 0..(Len(T) - 1) /\ g - w < r
      BY <1>1, <1>4
    <2>2. ASSUME NEW x \in 1..(Len(T) - 1) PROVE R[x] \in U <=> x <= g
      <3>1. CASE x < p
        <4>1. R[x] = T[x] /\ T[x] # T[p] /\ x \in 1..Len(T)
          BY <1>1, <1>2, <3>1
        <4>2. T[x] \in S <=> x <= m
          BY <1>4, <4>1
        <4>3. x <= m <=> x <= g
          BY <1>1, <1>4, <3>1
        <4>4. QED
          BY <4>1, <4>2, <4>3
      <3>2. CASE ~(x < p)
        <4>1. R[x] = T[x + 1] /\ T[x + 1] # T[p] /\ x + 1 \in 1..Len(T)
          BY <1>1, <1>2, <3>2
        <4>2. T[x + 1] \in S <=> x + 1 <= m
          BY <1>4, <4>1
        <4>3. x + 1 <= m <=> x <= g
          BY <1>1, <1>4, <3>2
        <4>4. QED
          BY <4>1, <4>2, <4>3
      <3>3. QED
        BY <3>1, <3>2
    <2>3. QED
      BY <1>1, <1>2, <2>1, <2>2 DEF Enough
  <1>6. ASSUME NEW x \in 1..(Len(T) - 1), R[x] \in U
        PROVE  IF x < w THEN Once(V, R[x]) ELSE Never(V, R[x])
    <2>1. CASE x < p
      <3>1. R[x] = T[x] /\ x \in 1..Len(T) /\ (x < w <=> x < q)
        BY <1>1, <1>2, <2>1
      <3>2. QED
        BY <1>1, <1>6, <3>1 DEF Orderly, Behind, Ahead
    <2>2. CASE ~(x < p)
      <3>1. R[x] = T[x + 1] /\ x + 1 \in 1..Len(T) /\ (x < w <=> x + 1 < q)
        BY <1>1, <1>2, <2>2
      <3>2. QED
        BY <1>1, <1>6, <3>1 DEF Orderly, Behind, Ahead
    <2>3. QED
      BY <2>1, <2>2
  <1>7. Behind(R, U, w, V) /\ Ahead(R, U, w, V)
    BY <1>2, <1>6 DEF Behind, Ahead
  <1>8. QED
    BY <1>3, <1>5, <1>7 DEF Orderly, R

(* An agent that is not in the vector joins it, behind the others. *)
LEMMA OrderlyGrows ==
    ASSUME NEW X, NEW T \in Seq(X), NEW S, NEW a \in X, a \notin ToSet(T),
           NEW q \in Nat, NEW r \in Nat, NEW V, Orderly(T, S, q, r, V),
           NEW w \in {q, q + 1}, w = q \/ q > Len(T)
    PROVE  Orderly(Append(T, a), S, w, r, V)
  <1> DEFINE R == Append(T, a)
  <1>1. Len(T) \in Nat /\ DOMAIN T = 1..Len(T)
    OBVIOUS
  <1>2. /\ Len(R) = Len(T) + 1 /\ DOMAIN R = 1..(Len(T) + 1)
        /\ \A x \in 1..Len(T) : R[x] = T[x]
        /\ R[Len(T) + 1] = a /\ ToSet(R) = ToSet(T) \cup {a} /\ IsInjective(R)
    BY AppendFacts DEF Orderly
  <1> HIDE DEF R
  <1>3. S \subseteq ToSet(R) /\ a \notin S
    BY <1>2 DEF Orderly
  <1>4. PICK m \in 0..Len(T) : (\A x \in 1..Len(T) : T[x] \in S <=> x <= m) /\ m - q < r
    BY <1>1 DEF Orderly, Enough
  <1>5. ASSUME NEW x \in 1..(Len(T) + 1)
        PROVE  /\ x = Len(T) + 1 => R[x] \notin S
               /\ x # Len(T) + 1 => x \in 1..Len(T) /\ R[x] = T[x]
    BY <1>1, <1>2, <1>3
  <1>6. Enough(R, S, w, r)
    <2>1. m \in 0..Len(R) /\ m - w < r
      BY <1>1, <1>2, <1>4
    <2>2. \A x \in 1..(Len(T) + 1) : R[x] \in S <=> x <= m
      BY <1>1, <1>4, <1>5
    <2>3. QED
      BY <1>2, <2>1, <2>2 DEF Enough
  <1>7. Behind(R, S, w, V) /\ Ahead(R, S, w, V)
    <2>1. \A x \in 1..Len(T) : x < w <=> x < q
      BY <1>1
    <2>2. QED
      BY <1>1, <1>2, <1>5, <2>1 DEF Orderly, Behind, Ahead
  <1>8. QED
    BY <1>2, <1>3, <1>6, <1>7 DEF Orderly, R

(* The same of the place where the loop goes on after the function was     *)
(* called for c, the agent that was at k.                                  *)
LEMMA WalkShrinks ==
    ASSUME NEW X, NEW T \in Seq(X), NEW S, NEW p \in DOMAIN T, NEW u \in Nat \ {0}, NEW c,
           NEW r \in Nat, NEW V, Orderly(T, S, Follow(T, u, c), r, V),
           u <= Len(T), T[u] = c
    PROVE  Orderly(RemoveAt(T, p), S \ {T[p]}, Follow(RemoveAt(T, p), u, c), r, V)
  <1>1. /\ Len(T) \in Nat /\ DOMAIN T = 1..Len(T) /\ p \in 1..Len(T) /\ u \in 1..Len(T)
        /\ \A x, y \in 1..Len(T) : T[x] = T[y] => x = y
    BY DEF Orderly, IsInjective
  <1>2. Follow(T, u, c) = u + 1
    BY DEF Follow
  <1>3. /\ Len(RemoveAt(T, p)) = Len(T) - 1
        /\ \A x \in 1..(Len(T) - 1) : RemoveAt(T, p)[x] = IF x < p THEN T[x] ELSE T[x + 1]
    BY RemoveAtFacts
  <1>4. Follow(RemoveAt(T, p), u, c) = IF p < u + 1 THEN (u + 1) - 1 ELSE u + 1
    <2>1. CASE u < p
      <3>1. u \in 1..(Len(T) - 1)
        BY <1>1, <2>1
      <3>2. QED
        BY <1>1, <1>3, <2>1, <3>1 DEF Follow
    <2>2. CASE ~(u < p) /\ u \in 1..(Len(T) - 1)
      <3>1. RemoveAt(T, p)[u] = T[u + 1] /\ u + 1 \in 1..Len(T)
        BY <1>1, <1>3, <2>2
      <3>2. T[u + 1] # c
        BY <1>1, <3>1
      <3>3. QED
        BY <1>1, <2>2, <3>1, <3>2 DEF Follow
    <2>3. CASE ~(u < p) /\ u \notin 1..(Len(T) - 1)
      BY <1>1, <1>3, <2>3 DEF Follow
    <2>4. QED
      BY <2>1, <2>2, <2>3
  <1>5. u + 1 \in Nat /\ Orderly(T, S, u + 1, r, V)
    BY <1>1, <1>2
  <1>6. Orderly(RemoveAt(T, p), S \ {T[p]}, IF p < u + 1 THEN (u + 1) - 1 ELSE u + 1, r, V)
    BY <1>5, OrderlyShrinks
  <1>7. QED
    BY <1>4, <1>6

LEMMA WalkGrows ==
    ASSUME NEW X, NEW T \in Seq(X), NEW S, NEW a \in X, a \notin ToSet(T),
           NEW u \in Nat \ {0}, NEW c, NEW r \in Nat, NEW V,
           Orderly(T, S, Follow(T, u, c), r, V)
    PROVE  /\ Orderly(Append(T, a), S, Follow(Append(T, a), u, c), r, V)
           /\ u <= Len(T) /\ T[u] = c =>
                 u <= Len(Append(T, a)) /\ Append(T, a)[u] = c
  <1>1. Len(T) \in Nat
    OBVIOUS
  <1>2. /\ Len(Append(T, a)) = Len(T) + 1
        /\ \A x \in 1..Len(T) : Append(T, a)[x] = T[x]
    BY AppendFacts
  <1> DEFINE q == Follow(T, u, c)
             w == Follow(Append(T, a), u, c)
  <1>3. q \in Nat /\ w \in {q, q + 1} /\ (w = q \/ q > Len(T))
    <2>1. CASE u \in 1..Len(T)
      BY <1>1, <1>2, <2>1 DEF Follow
    <2>2. CASE u \notin 1..Len(T)
      BY <1>1, <1>2, <2>2 DEF Follow
    <2>3. QED
      BY <2>1, <2>2
  <1> HIDE DEF q, w
  <1>4. Orderly(T, S, q, r, V)
    BY DEF q
  <1>5. Orderly(Append(T, a), S, w, r, V)
    BY <1>3, <1>4, OrderlyGrows
  <1>6. u <= Len(T) => u \in 1..Len(T)
    BY <1>1
  <1>7. QED
    BY <1>1, <1>2, <1>5, <1>6 DEF w

----------------------------------------------------------------------------
(* The inductive invariant.                                                *)

(* Only living agents are in the Society, and none of them twice. *)
AgentsInv == IsInjective(agents) /\ ToSet(agents) \subseteq Living

(* Who was not created, and who has died, is in no cell; before            *)
(* createPlacement nobody has a placement.                                 *)
WhereInv ==
    /\ \A a \in Agent \ Created : where[a] = Unplaced
    /\ \A a \in Created \ Living : where[a] \in {Nowhere, Unplaced}
    /\ ~placed => \A a \in Agent : where[a] = Unplaced

(* The counters of the loop, and what is traversed in each mode. *)
ModeInv ==
    /\ mode = "idle" <=> over = Nothing
    /\ mode = "idle" => n = 0 /\ i = 1 /\ k = 1 /\ visited = <<>>
    /\ mode = "call" => i <= n
    /\ over \in Cell => placed
    /\ Len(visited) <= (IF mode = "call" THEN i ELSE i - 1)
    /\ mode # "idle" /\ drops > 1 => many

(* Unless two agents left in one call, those that were visited are in front *)
(* of k, and there are turns left for the others.  In a call, k is still    *)
(* where the agent of the call is until one has left.                       *)
Point == IF mode = "call" THEN NextPlace ELSE k
Turns == IF mode = "call" THEN n - i ELSE n - i + 1

WalkInv ==
    mode # "idle" /\ ~many /\ Distinct =>
        /\ Orderly(Traversed, begun \ left, Point, Turns, visited)
        /\ mode = "call" /\ drops = 0 => k <= Len(Traversed) /\ Traversed[k] = current

IInv == TypeOK /\ AgentsInv /\ WhereInv /\ ModeInv /\ PlacementAgrees /\ WalkInv

(* The type invariant by parts: the Society, the placement, the traversal. *)
SocType ==
    /\ agents \in Seq(Created) /\ autoincrement \in 1..(MaxId + 1)
    /\ created \in 0..MaxAgents
    /\ id \in [Agent -> Ids \cup {None}] /\ alive \in [Agent -> BOOLEAN]
SpaceType ==
    /\ where \in [Agent -> Place] /\ inside \in [Cell -> Seq(Created)]
    /\ placed \in BOOLEAN /\ idindex \in [Ids -> Created \cup {None}]
    /\ misplaced \in BOOLEAN
TravType ==
    /\ mode \in {"idle", "loop", "call"}
    /\ over \in {Whole, Old, Nothing} \cup Cell /\ old \in Seq(Created)
    /\ n \in Nat /\ i \in 1..(n + 1) /\ k \in 1..i
    /\ current \in Created \cup {None} /\ (mode = "call") = (current # None)
    /\ visited \in Seq(Created) /\ begun \subseteq Created /\ left \subseteq Created
    /\ drops \in Nat /\ many \in BOOLEAN /\ calls \in 0..MaxCalls

LEMMA TypeParts == TypeOK <=> SocType /\ SpaceType /\ TravType
  BY DEF TypeOK, SocType, SpaceType, TravType

LEMMA TypePartsNext == TypeOK' <=> SocType' /\ SpaceType' /\ TravType'
  BY DEF TypeOK, SocType, SpaceType, TravType

(* Agents are created, never forgotten. *)
Longer == created' \in 0..MaxAgents /\ created <= created'

LEMMA CreatedGrows ==
    ASSUME SocType, Longer
    PROVE  /\ Created \subseteq Created' /\ Seq(Created) \subseteq Seq(Created')
           /\ Created' \subseteq Agent /\ None \notin Created' /\ IsFiniteSet(Created)
  <1>1. created \in Nat /\ created' \in Nat /\ MaxAgents \in Nat /\ created' <= MaxAgents
    BY SocietyAssumption DEF SocType, Longer
  <1>2. IsFiniteSet(1..created)
    BY <1>1, FS_Interval
  <1>3. Created \subseteq Created'
    BY <1>1 DEF Created, Longer
  <1>4. Seq(Created) \subseteq Seq(Created')
    BY <1>3
  <1>5. QED
    BY <1>1, <1>2, <1>3, <1>4 DEF Created, Agent, None

LEMMA CreatedAgents ==
    ASSUME SocType
    PROVE  Created \subseteq Agent
  <1>1. created \in Nat /\ MaxAgents \in Nat /\ created <= MaxAgents
    BY SocietyAssumption DEF SocType
  <1>2. QED
    BY <1>1 DEF Created, Agent

LEMMA TraversedType ==
    ASSUME TypeOK
    PROVE  Traversed \in Seq(Created)
  <1>1. CASE over = Whole
    BY <1>1, SocietyAssumption DEF TypeOK, Traversed
  <1>2. CASE over = Old
    BY <1>2, SocietyAssumption DEF TypeOK, Traversed
  <1>3. CASE over \in Cell
    BY <1>3, SocietyAssumption DEF TypeOK, Traversed
  <1>4. CASE over = Nothing
    BY <1>4, SocietyAssumption DEF TypeOK, Traversed
  <1>5. QED
    BY <1>1, <1>2, <1>3, <1>4 DEF TypeOK

----------------------------------------------------------------------------
(* A call that returns or raises an error, and the histories. *)
History ==
    \/ UNCHANGED hist
    \/ \E A \in SUBSET Created :
          /\ IsFiniteSet(A) /\ Cardinality(A) \in Nat
          /\ left' = left \cup A /\ drops' = drops + Cardinality(A)
          /\ many' = (many \/ drops' > 1) /\ begun' = begun

LEMMA DroppedHistory ==
    ASSUME TypeOK, NEW l, NEW A \in SUBSET Created, Dropped(l, A)
    PROVE  History
  <1>1. IsFiniteSet(Created)
    BY FS_Interval DEF TypeOK, Created
  <1>2. IsFiniteSet(A) /\ Cardinality(A) \in Nat
    BY <1>1, FS_Subset, FS_CardinalityType
  <1>3. QED
    BY <1>2 DEF Dropped, History

LEMMA CallStep ==
    ASSUME IInv, MayCall, Returns \/ Raises, History, Longer, placed => placed'
    PROVE  TravType' /\ ModeInv'
  <1>1. SocType /\ TravType /\ ModeInv
    BY TypeParts DEF IInv
  <1>2. /\ Created \subseteq Created' /\ Seq(Created) \subseteq Seq(Created')
        /\ None \notin Created'
    BY <1>1, CreatedGrows
  <1>3. calls' \in 0..MaxCalls
    BY <1>1, SocietyAssumption DEF TravType, MayCall
  <1>4. /\ begun' \subseteq Created' /\ left' \subseteq Created'
        /\ drops' \in Nat /\ many' \in BOOLEAN
        /\ mode # "idle" /\ drops' > 1 => many'
    <2>1. CASE UNCHANGED hist
      BY <1>1, <1>2, <2>1 DEF TravType, ModeInv, hist
    <2>2. CASE ~ UNCHANGED hist
      <3>1. PICK A \in SUBSET Created :
               /\ Cardinality(A) \in Nat
               /\ left' = left \cup A /\ drops' = drops + Cardinality(A)
               /\ many' = (many \/ drops' > 1) /\ begun' = begun
        BY <2>2 DEF History
      <3>2. drops \in Nat /\ many \in BOOLEAN
        BY <1>1 DEF TravType
      <3>3. drops' \in Nat
        BY <3>1, <3>2
      <3>4. QED
        BY <1>1, <1>2, <3>1, <3>3 DEF TravType
    <2>3. QED
      BY <2>1, <2>2
  <1>5. CASE Returns
    <2>1. UNCHANGED <<mode, over, old, n, i, k, current, visited>>
      BY <1>5 DEF Returns, trav
    <2>2. TravType'
      BY <1>1, <1>2, <1>3, <1>4, <2>1 DEF TravType
    <2>3. ModeInv'
      BY <1>1, <1>4, <2>1 DEF ModeInv
    <2>4. QED
      BY <2>2, <2>3
  <1>6. CASE Raises
    <2>1. /\ mode' = "idle" /\ over' = Nothing /\ old' = <<>>
          /\ n' = 0 /\ i' = 1 /\ k' = 1 /\ current' = None /\ visited' = <<>>
      BY <1>6 DEF Raises, EndTraversal
    <2>2. TravType'
      BY <1>3, <1>4, <2>1 DEF TravType
    <2>3. ModeInv'
      BY <2>1, SocietyAssumption DEF ModeInv
    <2>4. QED
      BY <2>2, <2>3
  <1>7. QED
    BY <1>5, <1>6

(* After an error nothing is traversed. *)
LEMMA RaisesWalk ==
    ASSUME Raises
    PROVE  WalkInv'
  BY DEF Raises, EndTraversal, WalkInv

(* What one call may do to the vector that is traversed, unless it takes   *)
(* two agents away.                                                        *)
VectorStep ==
    \/ Traversed' = Traversed /\ UNCHANGED hist
    \/ \E a \in Agent \ ToSet(Traversed) :
          Traversed' = Append(Traversed, a) /\ UNCHANGED hist
    \/ \E p \in DOMAIN Traversed :
          /\ \/ Traversed' = RemoveAt(Traversed, p)
             \/ Traversed' = Append(RemoveAt(Traversed, p), Traversed[p])
          /\ Dropped(over, {Traversed[p]})

LEMMA ReturnsWalk ==
    ASSUME IInv, MayCall, Returns, Distinct' => Distinct,
           mode = "call" /\ Distinct /\ Distinct' /\ ~many' => VectorStep,
           many => many'
    PROVE  WalkInv'
  <1>1. UNCHANGED <<mode, over, n, i, k, current, visited>>
    BY DEF Returns, trav
  <1>2. CASE mode = "idle" \/ many' \/ ~Distinct'
    BY <1>1, <1>2 DEF WalkInv
  <1>3. CASE ~(mode = "idle" \/ many' \/ ~Distinct')
    <2> DEFINE T == Traversed
               Stay == begun \ left
               r == n - i
    <2>1. mode = "call" /\ ~many /\ ~many' /\ Distinct /\ VectorStep
      BY <1>3 DEF MayCall
    <2>2. T \in Seq(Created) /\ T \in Seq(Agent)
      <3>1. Created \subseteq Agent
        BY SocietyAssumption DEF IInv, TypeOK, Created, Agent
      <3>2. QED
        BY <3>1, TraversedType DEF IInv
    <2>3. r \in Nat /\ k \in Nat \ {0} /\ drops \in Nat
      BY <2>1 DEF IInv, TypeOK, ModeInv
    <2>4. /\ Orderly(T, Stay, Follow(T, k, current), r, visited)
          /\ drops = 0 => k <= Len(T) /\ T[k] = current
      BY <2>1 DEF IInv, WalkInv, Point, Turns, NextPlace, Follow
    <2> DEFINE Goal(U, L, d) ==
                 /\ Orderly(U, begun \ L, Follow(U, k, current), r, visited)
                 /\ d = 0 => k <= Len(U) /\ U[k] = current
    <2>5. Goal(Traversed', left', drops') /\ begun' = begun
      <3>1. CASE T' = T /\ UNCHANGED hist
        BY <2>4, <3>1 DEF hist
      <3>2. ASSUME NEW a \in Agent \ ToSet(T), T' = Append(T, a), UNCHANGED hist
            PROVE  Goal(Traversed', left', drops') /\ begun' = begun
        <4>1. a \in Agent /\ a \notin ToSet(T)
          OBVIOUS
        <4>2. /\ Orderly(Append(T, a), Stay, Follow(Append(T, a), k, current), r, visited)
              /\ k <= Len(T) /\ T[k] = current =>
                    k <= Len(Append(T, a)) /\ Append(T, a)[k] = current
          BY <2>2, <2>3, <2>4, <4>1, WalkGrows
        <4>3. QED
          BY <2>4, <3>2, <4>2 DEF hist
      <3>3. ASSUME NEW p \in DOMAIN T, Dropped(over, {T[p]}),
                   \/ T' = RemoveAt(T, p)
                   \/ T' = Append(RemoveAt(T, p), T[p])
            PROVE  Goal(Traversed', left', drops') /\ begun' = begun
        <4> DEFINE R == RemoveAt(T, p)
        <4>1. /\ left' = left \cup {T[p]} /\ drops' = drops + 1 /\ begun' = begun
              /\ many' = (many \/ drops' > 1)
          BY <3>3, FS_Singleton DEF Dropped
        <4>2. drops = 0 /\ drops' # 0 /\ begun \ left' = Stay \ {T[p]}
          <5>1. ~(drops' > 1)
            BY <2>1, <4>1
          <5>2. drops = 0 /\ drops' # 0
            BY <2>3, <4>1, <5>1
          <5>3. begun \ left' = Stay \ {T[p]}
            BY <4>1
          <5>4. QED
            BY <5>2, <5>3
        <4>3. Orderly(R, Stay \ {T[p]}, Follow(R, k, current), r, visited)
          BY <2>2, <2>3, <2>4, <4>2, WalkShrinks
        <4>4. CASE T' = R
          BY <4>1, <4>2, <4>3, <4>4
        <4>5. CASE T' = Append(R, T[p])
          <5>1. R \in Seq(Agent) /\ T[p] \in Agent /\ T[p] \notin ToSet(R)
            BY <2>2, <2>4, RemoveAtFacts, RemoveAtInjective, SeqElements DEF Orderly
          <5>2. Orderly(Append(R, T[p]), Stay \ {T[p]}, Follow(Append(R, T[p]), k, current),
                        r, visited)
            BY <2>3, <4>3, <5>1, WalkGrows
          <5>3. QED
            BY <4>1, <4>2, <4>5, <5>2
        <4>6. QED
          BY <3>3, <4>4, <4>5
      <3>4. QED
        BY <2>1, <3>1, <3>2, <3>3 DEF VectorStep
    <2>6. NextPlace' = Follow(Traversed', k, current)
      BY <1>1 DEF NextPlace, Follow
    <2>7. QED
      BY <1>1, <2>1, <2>5, <2>6 DEF WalkInv, Point, Turns
  <1>4. QED
    BY <1>2, <1>3

----------------------------------------------------------------------------
(* The two sides of a placement. *)

(* The ids of agents never change, and a warning of enter is not forgotten. *)
LEMMA RegularStep ==
    ASSUME SocType, Longer, \A a \in Created : id'[a] = id[a], misplaced => misplaced'
    PROVE  (Regular' => Regular) /\ (over' = over => (Distinct' => Distinct))
  <1>1. Created \subseteq Created'
    BY CreatedGrows
  <1>2. Regular' => Regular
    BY <1>1 DEF Regular, UniqueIds
  <1>3. QED
    BY <1>2 DEF Distinct

LEMMA FirstFacts ==
    ASSUME TypeOK, NEW c \in Cell, NEW a \in Agent
    PROVE  /\ First(c, a) = 0 \/ First(c, a) \in DOMAIN inside[c]
           /\ CellWithout(c, a) \in Seq(Created) /\ TakenOut(c, a) \in SUBSET Created
  <1> DEFINE s == inside[c]
             I == {x \in 1..Len(s) : id[s[x]] = id[a]}
  <1>1. s \in Seq(Created) /\ Len(s) \in Nat /\ DOMAIN s = 1..Len(s)
    BY DEF TypeOK
  <1>2. First(c, a) = IF I # {} THEN Min(I) ELSE 0
    BY DEF First, SelectInSeq
  <1>3. I # {} => Min(I) \in I
    <2>1. SUFFICES ASSUME I # {} PROVE Min(I) \in I
      OBVIOUS
    <2>2. I \subseteq Nat
      BY <1>1
    <2>3. \E x \in I : \A y \in I : x <= y
      BY <2>1, <2>2, LeastNatural
    <2> HIDE DEF I
    <2>4. QED
      BY <2>3 DEF Min
  <1>4. First(c, a) = 0 \/ First(c, a) \in DOMAIN s
    BY <1>1, <1>2, <1>3
  <1>5. CASE First(c, a) = 0
    BY <1>1, <1>5 DEF CellWithout, TakenOut
  <1>6. CASE First(c, a) \in DOMAIN s
    <2>1. First(c, a) # 0 /\ s[First(c, a)] \in Created
      BY <1>1, <1>6
    <2>2. RemoveAt(s, First(c, a)) \in Seq(Created)
      BY <1>1, <1>6, RemoveAtFacts
    <2>3. QED
      BY <1>6, <2>1, <2>2 DEF CellWithout, TakenOut
  <1>7. QED
    BY <1>4, <1>5, <1>6

(* The cells ins agree with the cell wh[a] of each agent a of A. *)
Agree(wh, ins, A) ==
    \A c \in Cell : IsInjective(ins[c]) /\ ToSet(ins[c]) = {a \in A : wh[a] = c}

LEMMA AgreeInv ==
    /\ PlacementAgrees <=> (Regular => Agree(where, inside, Created))
    /\ PlacementAgrees' <=> (Regular' => Agree(where', inside', Created'))
  BY DEF PlacementAgrees, Agree

(* leave takes out the agent itself. *)
LEMMA InCell ==
    ASSUME TypeOK, PlacementAgrees, Regular, NEW a \in Created, where[a] \in Cell
    PROVE  \E p \in DOMAIN inside[where[a]] :
              /\ inside[where[a]][p] = a /\ TakenOut(where[a], a) = {a}
              /\ CellWithout(where[a], a) = RemoveAt(inside[where[a]], p)
  <1> DEFINE c == where[a]
             s == inside[c]
             I == {x \in 1..Len(s) : id[s[x]] = id[a]}
  <1>1. IsInjective(s) /\ ToSet(s) = {b \in Created : where[b] = c}
    BY DEF PlacementAgrees
  <1>2. s \in Seq(Created) /\ Len(s) \in Nat /\ DOMAIN s = 1..Len(s)
    BY DEF TypeOK
  <1>3. PICK p \in 1..Len(s) : s[p] = a
    BY <1>1, <1>2 DEF ToSet
  <1>4. I = {p}
    BY <1>1, <1>2, <1>3 DEF Regular, UniqueIds, IsInjective
  <1>5. Min(I) = p
    BY <1>2, <1>4 DEF Min
  <1>6. First(c, a) = p /\ p # 0
    BY <1>2, <1>4, <1>5 DEF First, SelectInSeq
  <1>7. QED
    BY <1>2, <1>3, <1>6 DEF CellWithout, TakenOut

LEMMA AgreeLeave ==
    ASSUME NEW A, NEW wh \in [Agent -> Place], NEW ins \in [Cell -> Seq(A)],
           A \subseteq Agent, Agree(wh, ins, A), NEW a \in A, wh[a] \in Cell,
           NEW p \in DOMAIN ins[wh[a]], ins[wh[a]][p] = a, NEW nw \in Place \ Cell
    PROVE  Agree([wh EXCEPT ![a] = nw], [ins EXCEPT ![wh[a]] = RemoveAt(ins[wh[a]], p)], A)
  <1> DEFINE e == wh[a]
             w2 == [wh EXCEPT ![a] = nw]
             i2 == [ins EXCEPT ![wh[a]] = RemoveAt(ins[wh[a]], p)]
  <1>1. ins[e] \in Seq(A) /\ IsInjective(ins[e]) /\ ToSet(ins[e]) = {b \in A : wh[b] = e}
    BY DEF Agree
  <1>2. IsInjective(RemoveAt(ins[e], p)) /\ ToSet(RemoveAt(ins[e], p)) = ToSet(ins[e]) \ {a}
    BY <1>1, RemoveAtInjective
  <1>3. \A b \in A : w2[b] = IF b = a THEN nw ELSE wh[b]
    OBVIOUS
  <1>4. \A c \in Cell : i2[c] = IF c = e THEN RemoveAt(ins[e], p) ELSE ins[c]
    OBVIOUS
  <1> HIDE DEF w2, i2
  <1>5. ASSUME NEW c \in Cell
        PROVE  IsInjective(i2[c]) /\ ToSet(i2[c]) = {b \in A : w2[b] = c}
    <2>1. CASE c = e
      <3>1. {b \in A : w2[b] = c} = {b \in A : wh[b] = e} \ {a}
        BY <1>3, <2>1
      <3>2. QED
        BY <1>1, <1>2, <1>4, <2>1, <3>1
    <2>2. CASE c # e
      <3>1. {b \in A : w2[b] = c} = {b \in A : wh[b] = c}
        BY <1>3, <2>2
      <3>2. QED
        BY <1>4, <2>2, <3>1 DEF Agree
    <2>3. QED
      BY <2>1, <2>2
  <1>6. QED
    BY <1>5 DEF Agree, w2, i2

LEMMA AgreeEnter ==
    ASSUME NEW A, NEW wh \in [Agent -> Place], NEW ins \in [Cell -> Seq(A)],
           A \subseteq Agent, Agree(wh, ins, A), NEW a \in A, wh[a] \notin Cell,
           NEW e \in Cell
    PROVE  Agree([wh EXCEPT ![a] = e], [ins EXCEPT ![e] = Append(@, a)], A)
  <1> DEFINE w2 == [wh EXCEPT ![a] = e]
             i2 == [ins EXCEPT ![e] = Append(@, a)]
  <1>1. ins[e] \in Seq(A) /\ IsInjective(ins[e]) /\ ToSet(ins[e]) = {b \in A : wh[b] = e}
    BY DEF Agree
  <1>2. /\ IsInjective(Append(ins[e], a))
        /\ ToSet(Append(ins[e], a)) = ToSet(ins[e]) \cup {a}
    <2>1. a \notin ToSet(ins[e])
      BY <1>1
    <2>2. QED
      BY <1>1, <2>1, AppendFacts
  <1>3. \A b \in A : w2[b] = IF b = a THEN e ELSE wh[b]
    OBVIOUS
  <1>4. \A c \in Cell : i2[c] = IF c = e THEN Append(ins[e], a) ELSE ins[c]
    OBVIOUS
  <1> HIDE DEF w2, i2
  <1>5. ASSUME NEW c \in Cell
        PROVE  IsInjective(i2[c]) /\ ToSet(i2[c]) = {b \in A : w2[b] = c}
    <2>1. CASE c = e
      <3>1. {b \in A : w2[b] = c} = {b \in A : wh[b] = e} \cup {a}
        BY <1>3, <2>1
      <3>2. QED
        BY <1>1, <1>2, <1>4, <2>1, <3>1
    <2>2. CASE c # e
      <3>1. {b \in A : w2[b] = c} = {b \in A : wh[b] = c}
        BY <1>3, <2>2
      <3>2. QED
        BY <1>4, <2>2, <3>1 DEF Agree
    <2>3. QED
      BY <2>1, <2>2
  <1>6. QED
    BY <1>5 DEF Agree, w2, i2

(* Agents whose cell has no list do not count. *)
LEMMA AgreeOthers ==
    ASSUME NEW A, NEW B, NEW wh, NEW w2, NEW ins, Agree(wh, ins, A),
           \A b \in A \cup B :
              \/ b \in A /\ b \in B /\ w2[b] = wh[b]
              \/ (b \in A => wh[b] \notin Cell) /\ (b \in B => w2[b] \notin Cell)
    PROVE  Agree(w2, ins, B)
  <1>1. ASSUME NEW c \in Cell PROVE {b \in B : w2[b] = c} = {b \in A : wh[b] = c}
    BY <1>1
  <1>2. QED
    BY <1>1 DEF Agree

----------------------------------------------------------------------------
(* Each operation preserves the inductive invariant. *)
LEMMA InvParts ==
    IInv => /\ TypeOK /\ SocType /\ SpaceType /\ TravType
            /\ AgentsInv /\ WhereInv /\ ModeInv /\ PlacementAgrees /\ WalkInv
  BY TypeParts DEF IInv

LEMMA InvPartsNext ==
    ASSUME SocType', SpaceType', TravType', AgentsInv', WhereInv', ModeInv',
           PlacementAgrees', WalkInv'
    PROVE  IInv'
  BY TypePartsNext DEF IInv

LEMMA SocSame ==
    ASSUME IInv, UNCHANGED soc
    PROVE  /\ SocType' /\ AgentsInv' /\ Longer /\ Created' = Created /\ Living' = Living
           /\ agents' = agents /\ \A a \in Created : id'[a] = id[a]
  <1>1. UNCHANGED <<agents, autoincrement, created, id, alive>> /\ SocType /\ AgentsInv
    BY InvParts DEF soc
  <1>2. Longer
    BY <1>1 DEF SocType, Longer
  <1>3. QED
    BY <1>1, <1>2 DEF SocType, AgentsInv, Created, Living

(* A vector that is not touched. *)
LEMMA TraversedSame ==
    ASSUME IInv, over' = over, old' = old, over = Whole => agents' = agents,
           over \in Cell => inside'[over] = inside[over]
    PROVE  Traversed' = Traversed
  BY InvParts, SocietyAssumption DEF TravType, Traversed

LEMMA TraversedInside ==
    over \in Cell => Traversed = inside[over]
  BY SocietyAssumption DEF Traversed

LEMMA TraversedInsideNext ==
    over' \in Cell => Traversed' = inside'[over']
  BY SocietyAssumption DEF Traversed

LEMMA EnterStep ==
    ASSUME IInv, NEW a \in Agent, NEW c \in Cell \cup {Outside}, Enter(a, c)
    PROVE  IInv'
  <1>1. /\ MayCall /\ a \in Living /\ where[a] # Unplaced
        /\ where' = [where EXCEPT ![a] = c]
        /\ misplaced' = (misplaced \/ where[a] # Nowhere \/ c = Outside)
        /\ UNCHANGED hist /\ UNCHANGED soc /\ placed' = placed /\ idindex' = idindex
    BY DEF Enter, NothingDropped
  <1>2. \/ c = Outside /\ inside' = inside /\ Raises
        \/ c \in Cell /\ inside' = [inside EXCEPT ![c] = Append(@, a)] /\ Returns
    BY DEF Enter
  <1>3. /\ SocType' /\ AgentsInv' /\ Longer /\ Created' = Created /\ Living' = Living
        /\ agents' = agents /\ \A b \in Created : id'[b] = id[b]
    BY <1>1, SocSame
  <1>4. /\ TypeOK /\ SocType /\ SpaceType /\ WhereInv /\ PlacementAgrees
        /\ a \in Created /\ a \in Agent
    BY <1>1, InvParts DEF Living
  <1>5. SpaceType'
    <2>1. c \in Place
      BY DEF Place
    <2>2. inside' \in [Cell -> Seq(Created)]
      <3>1. c \in Cell => Append(inside[c], a) \in Seq(Created)
        BY <1>4, AppendFacts DEF SpaceType
      <3>2. QED
        BY <1>2, <1>4, <3>1 DEF SpaceType
    <2>3. where' \in [Agent -> Place]
      BY <1>1, <1>4, <2>1 DEF SpaceType
    <2>4. QED
      BY <1>1, <1>3, <1>4, <2>2, <2>3 DEF SpaceType
  <1>6. TravType' /\ ModeInv'
    <2>1. History
      BY <1>1 DEF History
    <2>2. QED
      BY <1>1, <1>2, <1>3, <2>1, CallStep
  <1>7. WhereInv'
    <2>1. placed
      BY <1>1, <1>4 DEF WhereInv
    <2>2. QED
      BY <1>1, <1>3, <1>4, <2>1 DEF WhereInv, SpaceType
  <1>8. (Regular' => Regular) /\ (over' = over => (Distinct' => Distinct))
    BY <1>1, <1>3, <1>4, RegularStep
  <1>9. ASSUME Regular'
        PROVE  c \in Cell /\ where[a] = Nowhere /\ Agree(where, inside, Created)
    BY <1>1, <1>2, <1>4, <1>8, <1>9, AgreeInv DEF Regular
  <1>10. PlacementAgrees'
    <2>1. SUFFICES ASSUME Regular' PROVE Agree(where', inside', Created')
      BY AgreeInv
    <2>2. c \in Cell /\ where[a] = Nowhere /\ Agree(where, inside, Created)
      BY <1>9, <2>1
    <2>3. inside' = [inside EXCEPT ![c] = Append(@, a)]
      BY <1>2, <2>2, SocietyAssumption
    <2>4. Created \subseteq Agent /\ Nowhere \notin Cell
      BY <1>3, <1>4, CreatedGrows, SocietyAssumption
    <2>5. Agree([where EXCEPT ![a] = c], [inside EXCEPT ![c] = Append(@, a)], Created)
      BY <1>4, <2>2, <2>4, AgreeEnter DEF SpaceType
    <2>6. QED
      BY <1>1, <1>3, <2>3, <2>5
  <1>11. WalkInv'
    <2>1. CASE Raises
      BY <2>1, RaisesWalk
    <2>2. CASE Returns /\ c \in Cell /\ inside' = [inside EXCEPT ![c] = Append(@, a)]
      <3>1. over' = over /\ old' = old
        BY <2>2 DEF Returns, trav
      <3>2. ASSUME Distinct' PROVE VectorStep
        <4>1. CASE over = c
          <5>1. Regular'
            BY <2>2, <3>1, <3>2, <4>1 DEF Distinct
          <5>2. a \notin ToSet(inside[c])
            BY <1>4, <1>9, <2>2, <5>1, SocietyAssumption DEF Agree
          <5>3. Traversed = inside[c] /\ Traversed' = Append(inside[c], a)
            BY <1>4, <2>2, <3>1, <4>1, TraversedInside, TraversedInsideNext DEF SpaceType
          <5>4. QED
            BY <1>1, <1>4, <5>2, <5>3 DEF VectorStep
        <4>2. CASE over # c
          <5>1. Traversed' = Traversed
            BY <1>3, <1>4, <2>2, <3>1, <4>2, TraversedSame DEF SpaceType
          <5>2. QED
            BY <1>1, <5>1 DEF VectorStep
        <4>3. QED
          BY <4>1, <4>2
      <3>3. many' = many
        BY <1>1 DEF hist
      <3>4. QED
        BY <1>1, <1>8, <2>2, <3>1, <3>2, <3>3, ReturnsWalk
    <2>3. QED
      BY <1>2, <2>1, <2>2
  <1>12. QED
    BY <1>3, <1>5, <1>6, <1>7, <1>10, <1>11, InvPartsNext

(* leave, as a part of an operation: out are the cells without a. *)
LeftCell(a, nw, out) ==
    /\ out \in [Cell -> Seq(Created)]
    /\ TakenOut(where[a], a) \in SUBSET Created
    /\ Regular => Agree([where EXCEPT ![a] = nw], out, Created)
    /\ Regular => \E p \in DOMAIN inside[where[a]] :
                     /\ inside[where[a]][p] = a /\ TakenOut(where[a], a) = {a}
                     /\ out[where[a]] = RemoveAt(inside[where[a]], p)
    /\ \A c \in Cell \ {where[a]} : out[c] = inside[c]

LEMMA OutStep ==
    ASSUME IInv, NEW a \in Created, where[a] \in Cell, NEW nw \in Place \ Cell
    PROVE  LeftCell(a, nw, [inside EXCEPT ![where[a]] = CellWithout(where[a], a)])
  <1> DEFINE out == [inside EXCEPT ![where[a]] = CellWithout(where[a], a)]
  <1>1. TypeOK /\ SocType /\ SpaceType /\ PlacementAgrees
    BY InvParts
  <1>2. Created \subseteq Agent
    BY <1>1, CreatedAgents
  <1>3. CellWithout(where[a], a) \in Seq(Created) /\ TakenOut(where[a], a) \in SUBSET Created
    BY <1>1, <1>2, FirstFacts
  <1>4. out \in [Cell -> Seq(Created)] /\ \A c \in Cell \ {where[a]} : out[c] = inside[c]
    BY <1>1, <1>3 DEF SpaceType
  <1>5. ASSUME Regular
        PROVE  /\ Agree([where EXCEPT ![a] = nw], out, Created)
               /\ \E p \in DOMAIN inside[where[a]] :
                    /\ inside[where[a]][p] = a /\ TakenOut(where[a], a) = {a}
                    /\ out[where[a]] = RemoveAt(inside[where[a]], p)
    <2>1. PICK p \in DOMAIN inside[where[a]] :
             /\ inside[where[a]][p] = a /\ TakenOut(where[a], a) = {a}
             /\ CellWithout(where[a], a) = RemoveAt(inside[where[a]], p)
      BY <1>1, <1>5, InCell
    <2>2. Agree(where, inside, Created)
      BY <1>1, <1>5, AgreeInv
    <2>3. Agree([where EXCEPT ![a] = nw],
                [inside EXCEPT ![where[a]] = RemoveAt(inside[where[a]], p)], Created)
      BY <1>1, <1>2, <2>1, <2>2, AgreeLeave DEF SpaceType
    <2>4. out = [inside EXCEPT ![where[a]] = RemoveAt(inside[where[a]], p)]
      BY <2>1
    <2>5. out[where[a]] = RemoveAt(inside[where[a]], p)
      BY <1>1, <2>4 DEF SpaceType
    <2>6. QED
      BY <2>1, <2>3, <2>4, <2>5
  <1>6. QED
    BY <1>3, <1>4, <1>5 DEF LeftCell

LEMMA LeaveStep ==
    ASSUME IInv, NEW a \in Agent, Leave(a)
    PROVE  IInv'
  <1>1. /\ MayCall /\ a \in Living /\ where[a] \in Cell \cup {Outside}
        /\ where' = [where EXCEPT ![a] = Nowhere]
        /\ UNCHANGED soc /\ placed' = placed /\ idindex' = idindex /\ misplaced' = misplaced
    BY DEF Leave
  <1>2. \/ where[a] = Outside /\ inside' = inside /\ Raises /\ UNCHANGED hist
        \/ /\ where[a] \in Cell
           /\ inside' = [inside EXCEPT ![where[a]] = CellWithout(where[a], a)]
           /\ Dropped(where[a], TakenOut(where[a], a)) /\ Returns
    BY DEF Leave, NothingDropped
  <1>3. /\ SocType' /\ AgentsInv' /\ Longer /\ Created' = Created /\ Living' = Living
        /\ agents' = agents /\ \A b \in Created : id'[b] = id[b]
    BY <1>1, SocSame
  <1>4. /\ TypeOK /\ SocType /\ SpaceType /\ WhereInv /\ PlacementAgrees
        /\ a \in Created /\ a \in Agent
    BY <1>1, InvParts DEF Living
  <1>5. Nowhere \in Place /\ Nowhere \notin Cell /\ Outside \notin Cell
        /\ Nowhere # Unplaced /\ Outside # Unplaced /\ Unplaced \notin Cell
    BY SocietyAssumption DEF Place
  <1>6. where[a] \in Cell => LeftCell(a, Nowhere, inside')
    <2>1. where[a] \in Cell =>
              inside' = [inside EXCEPT ![where[a]] = CellWithout(where[a], a)]
      BY <1>2, <1>5
    <2>2. Nowhere \in Place \ Cell
      BY <1>5
    <2>3. QED
      BY <1>4, <2>1, <2>2, OutStep
  <1>7. SpaceType'
    BY <1>1, <1>2, <1>3, <1>4, <1>5, <1>6 DEF SpaceType, LeftCell
  <1>8. TravType' /\ ModeInv'
    <2>1. History
      BY <1>2, <1>4, <1>6, DroppedHistory DEF History, LeftCell
    <2>2. QED
      BY <1>1, <1>2, <1>3, <2>1, CallStep
  <1>9. WhereInv'
    <2>1. placed
      BY <1>1, <1>4, <1>5 DEF WhereInv
    <2>2. QED
      BY <1>1, <1>3, <1>4, <2>1 DEF WhereInv, SpaceType
  <1>10. (Regular' => Regular) /\ (over' = over => (Distinct' => Distinct))
    BY <1>1, <1>3, <1>4, RegularStep
  <1>11. PlacementAgrees'
    <2>1. SUFFICES ASSUME Regular' PROVE Agree(where', inside', Created')
      BY AgreeInv
    <2>2. Regular /\ Agree(where, inside, Created)
      BY <1>4, <1>10, <2>1, AgreeInv
    <2>3. CASE where[a] \in Cell
      BY <1>1, <1>3, <1>6, <2>2, <2>3 DEF LeftCell
    <2>4. CASE where[a] \notin Cell
      <3>1. inside' = inside
        BY <1>2, <2>4
      <3>2. Created \subseteq Agent
        BY <1>3, <1>4, CreatedGrows
      <3>3. Agree(where', inside, Created)
        BY <1>1, <1>4, <1>5, <2>2, <2>4, <3>2, AgreeOthers DEF SpaceType
      <3>4. QED
        BY <1>3, <3>1, <3>3
    <2>5. QED
      BY <2>3, <2>4
  <1>12. WalkInv'
    <2>1. CASE Raises
      BY <2>1, RaisesWalk
    <2>2. CASE where[a] \in Cell /\ Dropped(where[a], TakenOut(where[a], a)) /\ Returns
      <3>1. over' = over /\ old' = old
        BY <2>2 DEF Returns, trav
      <3>2. ASSUME Distinct PROVE VectorStep
        <4>1. CASE over = where[a]
          <5>1. PICK p \in DOMAIN inside[where[a]] :
                    /\ inside[where[a]][p] = a /\ TakenOut(where[a], a) = {a}
                    /\ inside'[where[a]] = RemoveAt(inside[where[a]], p)
            BY <1>6, <2>2, <3>2, <4>1 DEF Distinct, LeftCell
          <5>2. Traversed = inside[where[a]] /\ Traversed' = inside'[where[a]]
            BY <2>2, <3>1, <4>1, TraversedInside, TraversedInsideNext
          <5>3. QED
            BY <2>2, <4>1, <5>1, <5>2 DEF VectorStep
        <4>2. CASE over # where[a]
          <5>1. Traversed' = Traversed
            BY <1>3, <1>6, <2>2, <3>1, <4>2, TraversedSame DEF LeftCell
          <5>2. UNCHANGED hist
            BY <2>2, <4>2 DEF Dropped
          <5>3. QED
            BY <5>1, <5>2 DEF VectorStep
        <4>3. QED
          BY <4>1, <4>2
      <3>3. many => many'
        BY <2>2 DEF Dropped, hist
      <3>4. QED
        BY <1>1, <1>10, <2>2, <3>1, <3>2, <3>3, ReturnsWalk
    <2>3. QED
      BY <1>2, <2>1, <2>2
  <1>13. QED
    BY <1>3, <1>7, <1>8, <1>9, <1>11, <1>12, InvPartsNext

LEMMA MoveStep ==
    ASSUME IInv, NEW a \in Agent, NEW c \in Cell \cup {Outside}, Move(a, c)
    PROVE  IInv'
  <1> DEFINE e == where[a]
             w1 == [where EXCEPT ![a] = Nowhere]
             out == [inside EXCEPT ![where[a]] = CellWithout(where[a], a)]
  <1>1. /\ MayCall /\ a \in Living /\ e \in Cell
        /\ where' = [where EXCEPT ![a] = c]
        /\ misplaced' = (misplaced \/ c = Outside)
        /\ Dropped(e, TakenOut(e, a))
        /\ UNCHANGED soc /\ placed' = placed /\ idindex' = idindex
    BY DEF Move
  <1>2. \/ c = Outside /\ inside' = out /\ Raises
        \/ c \in Cell /\ inside' = [out EXCEPT ![c] = Append(@, a)] /\ Returns
    BY DEF Move
  <1>3. /\ SocType' /\ AgentsInv' /\ Longer /\ Created' = Created /\ Living' = Living
        /\ agents' = agents /\ \A b \in Created : id'[b] = id[b]
    BY <1>1, SocSame
  <1>4. /\ TypeOK /\ SocType /\ SpaceType /\ WhereInv /\ PlacementAgrees
        /\ a \in Created /\ a \in Agent
    BY <1>1, InvParts DEF Living
  <1>5. Nowhere \in Place \ Cell /\ Outside \notin Cell /\ c \in Place
        /\ Nowhere # Unplaced /\ Outside # Unplaced /\ Unplaced \notin Cell
    BY SocietyAssumption DEF Place
  <1>6. LeftCell(a, Nowhere, out)
    BY <1>1, <1>4, <1>5, OutStep
  <1> HIDE DEF out
  <1>7. /\ out \in [Cell -> Seq(Created)] /\ TakenOut(e, a) \in SUBSET Created
        /\ \A d \in Cell \ {e} : out[d] = inside[d]
    BY <1>6 DEF LeftCell
  <1>8. SpaceType'
    <2>1. inside' \in [Cell -> Seq(Created)]
      <3>1. c \in Cell => Append(out[c], a) \in Seq(Created)
        BY <1>4, <1>7, AppendFacts
      <3>2. QED
        BY <1>2, <1>7, <3>1
    <2>2. where' \in [Agent -> Place]
      BY <1>1, <1>4, <1>5 DEF SpaceType
    <2>3. QED
      BY <1>1, <1>3, <1>4, <2>1, <2>2 DEF SpaceType
  <1>9. TravType' /\ ModeInv'
    <2>1. History
      BY <1>1, <1>4, <1>7, DroppedHistory
    <2>2. QED
      BY <1>1, <1>2, <1>3, <2>1, CallStep
  <1>10. WhereInv'
    <2>1. placed
      BY <1>1, <1>4, <1>5 DEF WhereInv
    <2>2. QED
      BY <1>1, <1>3, <1>4, <2>1 DEF WhereInv, SpaceType
  <1>11. (Regular' => Regular) /\ (over' = over => (Distinct' => Distinct))
    BY <1>1, <1>3, <1>4, RegularStep
  <1>12. PlacementAgrees'
    <2>1. SUFFICES ASSUME Regular' PROVE Agree(where', inside', Created')
      BY AgreeInv
    <2>2. Regular /\ c \in Cell /\ inside' = [out EXCEPT ![c] = Append(@, a)]
      BY <1>1, <1>2, <1>11, <2>1 DEF Regular
    <2>3. Agree(w1, out, Created) /\ w1 \in [Agent -> Place] /\ w1[a] \notin Cell
      BY <1>4, <1>5, <1>6, <2>2 DEF LeftCell, SpaceType
    <2>4. Created \subseteq Agent
      BY <1>4, CreatedAgents
    <2>5. where' = [w1 EXCEPT ![a] = c]
      BY <1>1, <1>4 DEF SpaceType
    <2> HIDE DEF w1
    <2>6. Agree([w1 EXCEPT ![a] = c], [out EXCEPT ![c] = Append(@, a)], Created)
      BY <1>4, <1>7, <2>2, <2>3, <2>4, AgreeEnter
    <2>7. QED
      BY <1>3, <2>2, <2>5, <2>6
  <1>13. WalkInv'
    <2>1. CASE Raises
      BY <2>1, RaisesWalk
    <2>2. CASE c \in Cell /\ inside' = [out EXCEPT ![c] = Append(@, a)] /\ Returns
      <3>1. over' = over /\ old' = old
        BY <2>2 DEF Returns, trav
      <3>2. /\ inside'[c] = Append(out[c], a)
            /\ \A d \in Cell \ {c} : inside'[d] = out[d]
        BY <1>7, <2>2
      <3>3. ASSUME Distinct PROVE VectorStep
        <4>1. CASE over = e
          <5>1. PICK p \in DOMAIN inside[e] :
                   /\ inside[e][p] = a /\ TakenOut(e, a) = {a}
                   /\ out[e] = RemoveAt(inside[e], p)
            BY <1>1, <1>6, <3>3, <4>1 DEF Distinct, LeftCell
          <5>2. Traversed = inside[e] /\ Traversed' = inside'[e]
            BY <1>1, <3>1, <4>1, TraversedInside, TraversedInsideNext
          <5>3. \/ Traversed' = RemoveAt(Traversed, p)
                \/ Traversed' = Append(RemoveAt(Traversed, p), Traversed[p])
            BY <1>1, <3>2, <5>1, <5>2
          <5>4. Dropped(over, {Traversed[p]}) /\ p \in DOMAIN Traversed
            BY <1>1, <4>1, <5>1, <5>2
          <5>5. QED
            BY <5>3, <5>4 DEF VectorStep
        <4>2. CASE over # e
          <5>1. UNCHANGED hist
            BY <1>1, <4>2 DEF Dropped
          <5>2. CASE over = c
            <6>1. a \notin ToSet(inside[c])
              <7>1. Agree(where, inside, Created)
                BY <1>4, <2>2, <3>3, <5>2, AgreeInv DEF Distinct
              <7>2. QED
                BY <2>2, <4>2, <5>2, <7>1 DEF Agree
            <6>2. Traversed = inside[c] /\ Traversed' = Append(inside[c], a)
              BY <1>7, <2>2, <3>1, <3>2, <4>2, <5>2, TraversedInside, TraversedInsideNext
            <6>3. QED
              BY <1>4, <5>1, <6>1, <6>2 DEF VectorStep
          <5>3. CASE over # c
            <6>1. over \in Cell => inside'[over] = inside[over]
              BY <1>7, <3>2, <4>2, <5>3
            <6>2. Traversed' = Traversed
              BY <1>3, <3>1, <6>1, TraversedSame
            <6>3. QED
              BY <5>1, <6>2 DEF VectorStep
          <5>4. QED
            BY <5>2, <5>3
        <4>3. QED
          BY <4>1, <4>2
      <3>4. many => many'
        BY <1>1 DEF Dropped, hist
      <3>5. QED
        BY <1>1, <1>11, <2>2, <3>1, <3>3, <3>4, ReturnsWalk
    <2>3. QED
      BY <1>2, <2>1, <2>2
  <1>14. QED
    BY <1>3, <1>8, <1>9, <1>10, <1>12, <1>13, InvPartsNext

(* The part of die that takes the agent out of its cell. *)
LEMMA OutOfCellStep ==
    ASSUME IInv, NEW a \in Created, OutOfCell(a)
    PROVE  /\ where' \in [Agent -> Place] /\ inside' \in [Cell -> Seq(Created)]
           /\ where'[a] \in {Nowhere, Unplaced}
           /\ where[a] = Unplaced => where'[a] = Unplaced
           /\ \A b \in Agent \ {a} : where'[b] = where[b]
           /\ Regular => Agree(where', inside', Created)
           /\ where[a] \in Cell => LeftCell(a, Nowhere, inside')
           /\ \A c \in Cell \ {where[a]} : inside'[c] = inside[c]
  <1>1. TypeOK /\ SocType /\ SpaceType /\ PlacementAgrees /\ a \in Agent
        /\ Created \subseteq Agent
    BY InvParts, CreatedAgents
  <1>2. {Nowhere, Unplaced} \subseteq Place \ Cell
    BY SocietyAssumption DEF Place
  <1>3. /\ where' = [where EXCEPT ![a] = IF @ = Unplaced THEN @ ELSE Nowhere]
        /\ inside' = IF where[a] \in Cell
                     THEN [inside EXCEPT ![where[a]] = CellWithout(where[a], a)] ELSE inside
    BY DEF OutOfCell
  <1>4. /\ where' \in [Agent -> Place] /\ where'[a] \in {Nowhere, Unplaced}
        /\ where[a] = Unplaced => where'[a] = Unplaced
        /\ \A b \in Agent \ {a} : where'[b] = where[b]
    BY <1>1, <1>2, <1>3 DEF SpaceType
  <1>5. CASE where[a] \in Cell
    <2>1. inside' = [inside EXCEPT ![where[a]] = CellWithout(where[a], a)]
          /\ where' = [where EXCEPT ![a] = Nowhere] /\ Nowhere \in Place \ Cell
      BY <1>2, <1>3, <1>5
    <2>2. LeftCell(a, Nowhere, inside')
      BY <1>5, <2>1, OutStep
    <2>3. QED
      BY <1>4, <2>1, <2>2 DEF LeftCell
  <1>6. CASE where[a] \notin Cell
    <2>1. inside' = inside
      BY <1>3, <1>6
    <2>2. Regular => Agree(where, inside, Created)
      BY <1>1, AgreeInv
    <2>3. \A b \in Created \cup Created :
              \/ b \in Created /\ b \in Created /\ where'[b] = where[b]
              \/ (b \in Created => where[b] \notin Cell) /\ (b \in Created => where'[b] \notin Cell)
      BY <1>1, <1>2, <1>4, <1>6
    <2>4. Regular => Agree(where', inside, Created)
      BY <2>2, <2>3, AgreeOthers
    <2>5. QED
      BY <1>1, <1>4, <1>6, <2>1, <2>4 DEF SpaceType
  <1>7. QED
    BY <1>5, <1>6

LEMMA DieRaisesStep ==
    ASSUME IInv, NEW a \in Agent, DieRaises(a)
    PROVE  IInv'
  <1>1. /\ MayCall /\ a \in Living /\ OutOfCell(a) /\ Raises /\ UNCHANGED hist
        /\ UNCHANGED soc /\ placed' = placed /\ idindex' = idindex /\ misplaced' = misplaced
    BY DEF DieRaises, NothingDropped
  <1>2. /\ TypeOK /\ SocType /\ SpaceType /\ WhereInv /\ a \in Created
    BY <1>1, InvParts DEF Living
  <1>3. /\ SocType' /\ AgentsInv' /\ Longer /\ Created' = Created /\ Living' = Living
        /\ agents' = agents /\ \A b \in Created : id'[b] = id[b]
    BY <1>1, SocSame
  <1>4. /\ where' \in [Agent -> Place] /\ inside' \in [Cell -> Seq(Created)]
        /\ where'[a] \in {Nowhere, Unplaced}
        /\ where[a] = Unplaced => where'[a] = Unplaced
        /\ \A b \in Agent \ {a} : where'[b] = where[b]
        /\ Regular => Agree(where', inside', Created)
    BY <1>1, <1>2, OutOfCellStep
  <1>5. SpaceType'
    BY <1>1, <1>2, <1>3, <1>4 DEF SpaceType
  <1>6. TravType' /\ ModeInv'
    BY <1>1, <1>3, CallStep DEF History
  <1>7. WhereInv'
    <2>1. \A b \in Agent \ Created' : where'[b] = Unplaced
      BY <1>1, <1>2, <1>3, <1>4 DEF WhereInv
    <2>2. \A b \in Created' \ Living' : where'[b] \in {Nowhere, Unplaced}
      BY <1>1, <1>2, <1>3, <1>4, CreatedAgents DEF WhereInv
    <2>3. ~placed' => \A b \in Agent : where'[b] = Unplaced
      BY <1>1, <1>2, <1>3, <1>4 DEF WhereInv
    <2>4. QED
      BY <2>1, <2>2, <2>3 DEF WhereInv
  <1>8. PlacementAgrees'
    BY <1>1, <1>2, <1>3, <1>4, RegularStep, AgreeInv
  <1>9. WalkInv'
    BY <1>1, RaisesWalk
  <1>10. QED
    BY <1>3, <1>5, <1>6, <1>7, <1>8, <1>9, InvPartsNext

LEMMA DieStep ==
    ASSUME IInv, NEW a \in Agent, Die(a)
    PROVE  IInv'
  <1> DEFINE A == CASE over = Whole -> {a}
                    [] over \in Cell /\ over = where[a] -> TakenOut(over, a)
                    [] OTHER -> {}
  <1>1. /\ MayCall /\ a \in Living /\ a \in ToSet(agents) /\ OutOfCell(a) /\ Returns
        /\ agents' = RemoveFirst(agents, a) /\ alive' = [alive EXCEPT ![a] = FALSE]
        /\ UNCHANGED <<autoincrement, created, id, placed, idindex, misplaced>>
        /\ Dropped(over, A)
    BY DEF Die
  <1>2. /\ TypeOK /\ SocType /\ SpaceType /\ WhereInv /\ AgentsInv /\ a \in Created
    BY <1>1, InvParts DEF Living
  <1>3. PICK p \in DOMAIN agents : agents[p] = a
    BY <1>1 DEF ToSet
  <1>4. /\ agents \in Seq(Created) /\ agents' = RemoveAt(agents, p)
        /\ agents' \in Seq(Created)
        /\ IsInjective(agents') /\ ToSet(agents') = ToSet(agents) \ {a}
    BY <1>1, <1>2, <1>3, RemoveFirstFacts, RemoveAtFacts, RemoveAtInjective
       DEF SocType, AgentsInv
  <1>5. Created' = Created /\ Living' = Living \ {a} /\ Longer
    <2>1. \A b \in Created : alive'[b] = IF b = a THEN FALSE ELSE alive[b]
      BY <1>1, <1>2, CreatedAgents DEF SocType
    <2>2. Created' = Created /\ Longer
      BY <1>1, <1>2 DEF Created, Longer, SocType
    <2>3. QED
      BY <2>1, <2>2 DEF Living
  <1>6. SocType'
    BY <1>1, <1>2, <1>4, <1>5 DEF SocType
  <1>7. AgentsInv'
    BY <1>2, <1>4, <1>5 DEF AgentsInv
  <1>8. /\ where' \in [Agent -> Place] /\ inside' \in [Cell -> Seq(Created)]
        /\ where'[a] \in {Nowhere, Unplaced}
        /\ where[a] = Unplaced => where'[a] = Unplaced
        /\ \A b \in Agent \ {a} : where'[b] = where[b]
        /\ Regular => Agree(where', inside', Created)
        /\ where[a] \in Cell => LeftCell(a, Nowhere, inside')
        /\ \A c \in Cell \ {where[a]} : inside'[c] = inside[c]
    BY <1>1, <1>2, OutOfCellStep
  <1>9. SpaceType'
    BY <1>1, <1>2, <1>5, <1>8 DEF SpaceType
  <1>10. TravType' /\ ModeInv'
    <2>1. A \in SUBSET Created
      <3>1. where[a] \in Cell => TakenOut(where[a], a) \in SUBSET Created
        BY <1>8 DEF LeftCell
      <3>2. CASE over = Whole
        <4>1. A = {a}
          BY <3>2, SocietyAssumption
        <4>2. QED
          BY <1>2, <4>1
      <3>3. CASE over \in Cell /\ over = where[a]
        <4>1. A = TakenOut(over, a)
          BY <3>3, SocietyAssumption
        <4>2. QED
          BY <3>1, <3>3, <4>1
      <3>4. CASE over # Whole /\ ~(over \in Cell /\ over = where[a])
        BY <3>4
      <3>5. QED
        BY <3>2, <3>3, <3>4
    <2>2. History
      BY <1>1, <1>2, <2>1, DroppedHistory
    <2>3. QED
      BY <1>1, <1>5, <2>2, CallStep
  <1>11. WhereInv'
    <2>1. \A b \in Agent \ Created' : where'[b] = Unplaced
      BY <1>1, <1>2, <1>5, <1>8 DEF WhereInv
    <2>2. \A b \in Created' \ Living' : where'[b] \in {Nowhere, Unplaced}
      BY <1>1, <1>2, <1>5, <1>8, CreatedAgents DEF WhereInv
    <2>3. ~placed' => \A b \in Agent : where'[b] = Unplaced
      BY <1>1, <1>2, <1>5, <1>8 DEF WhereInv
    <2>4. QED
      BY <2>1, <2>2, <2>3 DEF WhereInv
  <1>12. (Regular' => Regular) /\ (over' = over => (Distinct' => Distinct))
    BY <1>1, <1>2, <1>5, RegularStep
  <1>13. PlacementAgrees'
    BY <1>5, <1>8, <1>12, AgreeInv
  <1>14. WalkInv'
    <2>1. over' = over /\ old' = old
      BY <1>1 DEF Returns, trav
    <2>2. ASSUME Distinct PROVE VectorStep
      <3>1. CASE over = Whole
        <4>1. Traversed = agents /\ Traversed' = agents' /\ A = {a}
          BY <2>1, <3>1, SocietyAssumption DEF Traversed
        <4>2. QED
          BY <1>1, <1>3, <1>4, <4>1 DEF VectorStep
      <3>2. CASE over \in Cell /\ over = where[a]
        <4>1. PICK q \in DOMAIN inside[over] :
                 /\ inside[over][q] = a /\ TakenOut(over, a) = {a}
                 /\ inside'[over] = RemoveAt(inside[over], q)
          BY <1>8, <2>2, <3>2 DEF Distinct, LeftCell
        <4>2. A = {a}
          BY <3>2, <4>1, SocietyAssumption
        <4>3. Traversed = inside[over] /\ Traversed' = inside'[over]
          BY <2>1, <3>2, TraversedInside, TraversedInsideNext
        <4>4. QED
          BY <1>1, <4>1, <4>2, <4>3 DEF VectorStep
      <3>3. CASE over # Whole /\ ~(over \in Cell /\ over = where[a])
        <4>1. A = {}
          BY <3>3
        <4>2. Traversed' = Traversed
          BY <1>8, <2>1, <3>3, TraversedSame
        <4>3. UNCHANGED hist
          BY <1>1, <4>1 DEF Dropped
        <4>4. QED
          BY <4>2, <4>3 DEF VectorStep
      <3>4. QED
        BY <3>1, <3>2, <3>3
    <2>3. many => many'
      BY <1>1 DEF Dropped, hist
    <2>4. QED
      BY <1>1, <1>12, <2>1, <2>2, <2>3, ReturnsWalk
  <1>15. QED
    BY <1>6, <1>7, <1>9, <1>10, <1>11, <1>13, <1>14, InvPartsNext

(* The Society numbers a new agent and lists it. *)
LEMMA NewStep ==
    ASSUME IInv, NEW a, New(a)
    PROVE  /\ SocType' /\ AgentsInv' /\ Longer
           /\ a \in Agent \ Created /\ a \notin ToSet(agents)
           /\ Created' = Created \cup {a} /\ Living' = Living \cup {a}
           /\ agents' = Append(agents, a) /\ \A b \in Created : id'[b] = id[b]
  <1>1. /\ a \in Agent /\ a = created + 1 /\ autoincrement \in Ids /\ created' = a
        /\ id' = [id EXCEPT ![a] = autoincrement] /\ alive' = [alive EXCEPT ![a] = TRUE]
        /\ agents' = Append(agents, a) /\ autoincrement' = autoincrement + 1
    BY DEF New, Joined, NewId
  <1>2. SocType /\ AgentsInv /\ Created \subseteq Agent
    BY InvParts, CreatedAgents
  <1>3. /\ created \in Nat /\ MaxAgents \in Nat /\ MaxId \in Nat
        /\ a \in 1..MaxAgents /\ autoincrement \in 1..MaxId
    BY <1>1, <1>2, SocietyAssumption DEF SocType, Agent, Ids
  <1>4. Created' = Created \cup {a} /\ a \notin Created /\ Longer
    BY <1>1, <1>3 DEF Created, Longer
  <1>5. Living' = Living \cup {a}
    BY <1>1, <1>2, <1>4 DEF Living, SocType
  <1>6. a \notin ToSet(agents) /\ agents \in Seq(Created')
    BY <1>2, <1>4, SeqElements DEF SocType
  <1>7. /\ agents' \in Seq(Created') /\ IsInjective(agents')
        /\ ToSet(agents') = ToSet(agents) \cup {a}
    BY <1>1, <1>2, <1>4, <1>6, AppendFacts DEF AgentsInv
  <1>8. SocType'
    BY <1>1, <1>2, <1>3, <1>4, <1>7 DEF SocType, Longer, Ids
  <1>9. AgentsInv'
    BY <1>2, <1>5, <1>7 DEF AgentsInv
  <1>10. QED
    BY <1>1, <1>2, <1>4, <1>5, <1>6, <1>8, <1>9 DEF SocType

(* A vector to which only the Society can have appended. *)
LEMMA JoinedWalk ==
    ASSUME IInv, MayCall, Returns, NEW a \in Agent, a \notin ToSet(agents),
           agents' = Append(agents, a), UNCHANGED hist, Distinct' => Distinct,
           Distinct' /\ over \in Cell =>
              \/ inside'[over] = inside[over]
              \/ a \notin ToSet(inside[over]) /\ inside'[over] = Append(inside[over], a)
    PROVE  WalkInv'
  <1>1. over' = over /\ old' = old
    BY DEF Returns, trav
  <1>2. ASSUME Distinct' PROVE VectorStep
    <2>1. CASE over = Whole
      <3>1. Traversed = agents /\ Traversed' = agents'
        BY <1>1, <2>1, SocietyAssumption DEF Traversed
      <3>2. QED
        BY <3>1 DEF VectorStep
    <2>2. CASE over \in Cell /\ inside'[over] # inside[over]
      <3>1. Traversed = inside[over] /\ Traversed' = inside'[over]
        BY <1>1, <2>2, TraversedInside, TraversedInsideNext
      <3>2. QED
        BY <1>2, <2>2, <3>1 DEF VectorStep
    <2>3. CASE over # Whole /\ ~(over \in Cell /\ inside'[over] # inside[over])
      <3>1. Traversed' = Traversed
        BY <1>1, <2>3, TraversedSame
      <3>2. QED
        BY <3>1 DEF VectorStep
    <2>4. QED
      BY <2>1, <2>2, <2>3
  <1>3. many' = many
    BY DEF hist
  <1>4. QED
    BY <1>2, <1>3, ReturnsWalk

LEMMA AddStep ==
    ASSUME IInv, Add
    PROVE  IInv'
  <1> DEFINE a == created + 1
  <1>1. /\ MayCall /\ New(a) /\ where' = [where EXCEPT ![a] = NewPlacement(a)]
        /\ Returns /\ UNCHANGED hist
        /\ UNCHANGED <<inside, placed, idindex, misplaced>>
    BY DEF Add, NothingDropped
  <1> HIDE DEF a
  <1>2. /\ TypeOK /\ SocType /\ SpaceType /\ WhereInv /\ PlacementAgrees
    BY InvParts
  <1>3. /\ SocType' /\ AgentsInv' /\ Longer
        /\ a \in Agent \ Created /\ a \notin ToSet(agents)
        /\ Created' = Created \cup {a} /\ Living' = Living \cup {a}
        /\ agents' = Append(agents, a) /\ \A b \in Created : id'[b] = id[b]
    BY <1>1, NewStep
  <1>4. where[a] = Unplaced /\ NewPlacement(a) = IF placed THEN Nowhere ELSE Unplaced
    BY <1>2, <1>3 DEF WhereInv, NewPlacement
  <1>5. {Nowhere, Unplaced} \subseteq Place \ Cell
    BY SocietyAssumption DEF Place
  <1>6. /\ where' \in [Agent -> Place] /\ where'[a] = (IF placed THEN Nowhere ELSE Unplaced)
        /\ \A b \in Agent \ {a} : where'[b] = where[b]
    BY <1>1, <1>2, <1>3, <1>4, <1>5 DEF SpaceType
  <1>7. SpaceType'
    BY <1>1, <1>2, <1>3, <1>6, CreatedGrows DEF SpaceType
  <1>8. TravType' /\ ModeInv'
    BY <1>1, <1>3, CallStep DEF History
  <1>9. WhereInv'
    BY <1>1, <1>2, <1>3, <1>6 DEF WhereInv, Living
  <1>10. (Regular' => Regular) /\ (over' = over => (Distinct' => Distinct))
    BY <1>1, <1>2, <1>3, RegularStep
  <1>11. PlacementAgrees'
    <2>1. SUFFICES ASSUME Regular' PROVE Agree(where', inside, Created')
      BY <1>1, AgreeInv
    <2>2. Agree(where, inside, Created)
      BY <1>2, <1>10, <2>1, AgreeInv
    <2>3. \A b \in Created \cup Created' :
              \/ b \in Created /\ b \in Created' /\ where'[b] = where[b]
              \/ (b \in Created => where[b] \notin Cell) /\ (b \in Created' => where'[b] \notin Cell)
      BY <1>2, <1>3, <1>4, <1>5, <1>6, CreatedAgents
    <2>4. QED
      BY <2>2, <2>3, AgreeOthers
  <1>12. WalkInv'
    BY <1>1, <1>3, <1>10, JoinedWalk DEF Returns, trav
  <1>13. QED
    BY <1>3, <1>7, <1>8, <1>9, <1>11, <1>12, InvPartsNext

LEMMA ReproduceStep ==
    ASSUME IInv, NEW p \in Agent, Reproduce(p)
    PROVE  IInv'
  <1> DEFINE a == created + 1
             c == where[p]
             d == IF c \in Cell \cup {Outside} THEN c ELSE NewPlacement(a)
  <1>1. /\ MayCall /\ p \in Living /\ New(a) /\ UNCHANGED hist
        /\ where' = [where EXCEPT ![a] = d]
        /\ inside' = IF c \in Cell THEN [inside EXCEPT ![c] = Append(@, a)] ELSE inside
        /\ misplaced' = (misplaced \/ c = Outside)
        /\ Raises \/ (Returns /\ c # Outside)
        /\ UNCHANGED <<placed, idindex>>
    BY DEF Reproduce, NothingDropped
  <1> HIDE DEF a
  <1>2. /\ TypeOK /\ SocType /\ SpaceType /\ WhereInv /\ PlacementAgrees
        /\ Created \subseteq Agent /\ p \in Created
    BY <1>1, InvParts, CreatedAgents DEF Living
  <1>3. /\ SocType' /\ AgentsInv' /\ Longer
        /\ a \in Agent \ Created /\ a \notin ToSet(agents)
        /\ Created' = Created \cup {a} /\ Living' = Living \cup {a}
        /\ agents' = Append(agents, a) /\ \A b \in Created : id'[b] = id[b]
    BY <1>1, NewStep
  <1>4. where[a] = Unplaced /\ NewPlacement(a) = IF placed THEN Nowhere ELSE Unplaced
    BY <1>2, <1>3 DEF WhereInv, NewPlacement
  <1>5. /\ {Nowhere, Unplaced} \subseteq Place \ Cell /\ Cell \cup {Outside} \subseteq Place
        /\ Outside \notin Cell /\ Unplaced \notin Cell \cup {Outside}
    BY SocietyAssumption DEF Place
  <1>6. /\ d \in Place
        /\ c \in Cell \cup {Outside} => d = c
        /\ c \notin Cell \cup {Outside} => d = IF placed THEN Nowhere ELSE Unplaced
    BY <1>2, <1>4, <1>5 DEF SpaceType
  <1> HIDE DEF d
  <1>7. /\ where' \in [Agent -> Place] /\ where'[a] = d
        /\ \A b \in Agent \ {a} : where'[b] = where[b]
    <2>1. where' = [where EXCEPT ![a] = d] /\ where \in [Agent -> Place] /\ a \in Agent
      BY <1>1, <1>2, <1>3 DEF SpaceType
    <2>2. QED
      BY <1>6, <2>1
  <1>8. inside \in [Cell -> Seq(Created')]
    BY <1>2, <1>3, CreatedGrows DEF SpaceType
  <1>9. /\ inside' \in [Cell -> Seq(Created')]
        /\ \A e \in Cell : inside'[e] = IF e = c THEN Append(inside[e], a) ELSE inside[e]
    <2>1. c \in Cell => Append(inside[c], a) \in Seq(Created')
      BY <1>3, <1>8, AppendFacts
    <2>2. QED
      BY <1>1, <1>8, <2>1
  <1>10. SpaceType'
    <2>1. idindex' \in [Ids -> Created' \cup {None}]
      BY <1>1, <1>2, <1>3 DEF SpaceType
    <2>2. placed' \in BOOLEAN /\ misplaced' \in BOOLEAN
      BY <1>1, <1>2 DEF SpaceType
    <2>3. QED
      BY <1>7, <1>9, <2>1, <2>2 DEF SpaceType
  <1>11. TravType' /\ ModeInv'
    BY <1>1, <1>3, CallStep DEF History
  <1>12. WhereInv'
    <2>1. \A b \in Agent \ Created' : where'[b] = Unplaced
      BY <1>2, <1>3, <1>7 DEF WhereInv
    <2>2. \A b \in Created' \ Living' : where'[b] \in {Nowhere, Unplaced}
      BY <1>2, <1>3, <1>7 DEF WhereInv
    <2>3. ~placed' => \A b \in Agent : where'[b] = Unplaced
      BY <1>1, <1>2, <1>5, <1>6, <1>7 DEF WhereInv
    <2>4. QED
      BY <2>1, <2>2, <2>3 DEF WhereInv
  <1>13. (Regular' => Regular) /\ (over' = over => (Distinct' => Distinct))
    BY <1>1, <1>2, <1>3, RegularStep
  <1>14. ASSUME Regular PROVE a \notin UNION {ToSet(inside[e]) : e \in Cell}
    BY <1>2, <1>3, <1>14, AgreeInv DEF Agree
  <1>15. PlacementAgrees'
    <2>1. SUFFICES ASSUME Regular' PROVE Agree(where', inside', Created')
      BY AgreeInv
    <2>2. Regular /\ c # Outside /\ Agree(where, inside, Created)
      BY <1>1, <1>2, <1>13, <2>1, AgreeInv DEF Regular
    <2>3. Agree(where, inside, Created')
      <3>1. \A b \in Created \cup Created' :
              \/ b \in Created /\ b \in Created' /\ where[b] = where[b]
              \/ (b \in Created => where[b] \notin Cell) /\ (b \in Created' => where[b] \notin Cell)
        BY <1>3, <1>4, <1>5
      <3>2. QED
        BY <2>2, <3>1, AgreeOthers
    <2>4. CASE c \in Cell
      <3>1. where' = [where EXCEPT ![a] = c] /\ inside' = [inside EXCEPT ![c] = Append(@, a)]
        <4>1. d = c
          BY <1>6, <2>4
        <4>2. where' = [where EXCEPT ![a] = c]
          BY <1>1, <4>1
        <4>3. inside' = [inside EXCEPT ![c] = Append(@, a)]
          BY <1>1, <2>4
        <4>4. QED
          BY <4>2, <4>3
      <3>2. /\ where \in [Agent -> Place] /\ Created' \subseteq Agent /\ a \in Created'
            /\ where[a] \notin Cell
        BY <1>2, <1>3, <1>4, <1>5 DEF SpaceType
      <3>3. Agree([where EXCEPT ![a] = c], [inside EXCEPT ![c] = Append(@, a)], Created')
        BY <1>8, <2>3, <2>4, <3>2, AgreeEnter
      <3>4. QED
        BY <3>1, <3>3
    <2>5. CASE c \notin Cell
      <3>1. inside' = inside /\ d \notin Cell
        BY <1>1, <1>5, <1>6, <2>2, <2>5
      <3>2. \A b \in Created' \cup Created' :
              \/ b \in Created' /\ b \in Created' /\ where'[b] = where[b]
              \/ (b \in Created' => where[b] \notin Cell) /\ (b \in Created' => where'[b] \notin Cell)
        BY <1>2, <1>3, <1>4, <1>5, <1>7, <3>1
      <3>3. QED
        BY <2>3, <3>1, <3>2, AgreeOthers
    <2>6. QED
      BY <2>4, <2>5
  <1>16. WalkInv'
    <2>1. CASE Raises
      BY <2>1, RaisesWalk
    <2>2. CASE Returns
      <3>1. over' = over
        BY <2>2 DEF Returns, trav
      <3>2. Distinct' /\ over \in Cell =>
              \/ inside'[over] = inside[over]
              \/ a \notin ToSet(inside[over]) /\ inside'[over] = Append(inside[over], a)
        BY <1>9, <1>13, <1>14, <3>1 DEF Distinct
      <3>3. QED
        BY <1>1, <1>3, <1>13, <2>2, <3>1, <3>2, JoinedWalk
    <2>3. QED
      BY <1>1, <2>1, <2>2
  <1>17. QED
    BY <1>3, <1>10, <1>11, <1>12, <1>15, <1>16, InvPartsNext

LEMMA AddAgainStep ==
    ASSUME IInv, NEW a \in Agent, AddAgain(a)
    PROVE  IInv'
  <1>1. /\ MayCall /\ a \in Living \ ToSet(agents) /\ autoincrement \in Ids
        /\ agents' = Append(agents, a) /\ autoincrement' = autoincrement + 1
        /\ where' = [where EXCEPT ![a] = NewPlacement(a)]
        /\ Returns /\ UNCHANGED hist
        /\ UNCHANGED <<created, id, alive, inside, placed, idindex, misplaced>>
    BY DEF AddAgain, Joined, NothingDropped
  <1>2. /\ TypeOK /\ SocType /\ SpaceType /\ WhereInv /\ AgentsInv /\ PlacementAgrees
        /\ a \in Created
    BY <1>1, InvParts DEF Living
  <1>3. Created' = Created /\ Living' = Living /\ Longer
    BY <1>1, <1>2 DEF Created, Living, Longer, SocType
  <1>4. /\ agents' \in Seq(Created) /\ IsInjective(agents')
        /\ ToSet(agents') = ToSet(agents) \cup {a}
    BY <1>1, <1>2, AppendFacts DEF SocType, AgentsInv
  <1>5. SocType'
    <2>1. autoincrement' \in 1..(MaxId + 1)
      BY <1>1, SocietyAssumption DEF Ids
    <2>2. QED
      BY <1>1, <1>2, <1>3, <1>4, <2>1 DEF SocType
  <1>6. AgentsInv'
    BY <1>1, <1>2, <1>3, <1>4 DEF AgentsInv
  <1>7. {Nowhere, Unplaced} \subseteq Place \ Cell
    BY SocietyAssumption DEF Place
  <1>8. /\ where' \in [Agent -> Place]
        /\ \A b \in Agent : where'[b] = where[b] \/ {where'[b], where[b]} \subseteq {Nowhere, Unplaced}
        /\ ~placed => where' = where
        /\ \A b \in Agent \ {a} : where'[b] = where[b]
    BY <1>1, <1>2, <1>7 DEF SpaceType, NewPlacement
  <1>9. SpaceType'
    BY <1>1, <1>2, <1>3, <1>8 DEF SpaceType
  <1>10. TravType' /\ ModeInv'
    BY <1>1, <1>3, CallStep DEF History
  <1>11. WhereInv'
    BY <1>1, <1>2, <1>3, <1>8, CreatedAgents DEF WhereInv
  <1>12. (Regular' => Regular) /\ (over' = over => (Distinct' => Distinct))
    BY <1>1, <1>2, <1>3, RegularStep
  <1>13. PlacementAgrees'
    <2>1. SUFFICES ASSUME Regular' PROVE Agree(where', inside, Created)
      BY <1>1, <1>3, AgreeInv
    <2>2. Agree(where, inside, Created)
      BY <1>2, <1>12, <2>1, AgreeInv
    <2>3. \A b \in Created \cup Created :
              \/ b \in Created /\ b \in Created /\ where'[b] = where[b]
              \/ (b \in Created => where[b] \notin Cell) /\ (b \in Created => where'[b] \notin Cell)
      BY <1>2, <1>7, <1>8, CreatedAgents
    <2>4. QED
      BY <2>2, <2>3, AgreeOthers
  <1>14. WalkInv'
    BY <1>1, <1>12, JoinedWalk DEF Returns, trav
  <1>15. QED
    BY <1>5, <1>6, <1>9, <1>10, <1>11, <1>13, <1>14, InvPartsNext

LEMMA SpaceSame ==
    ASSUME IInv, UNCHANGED <<space, misplaced>>, Longer, Created' = Created, Living' = Living,
           \A a \in Created : id'[a] = id[a], idindex' \in [Ids -> Created \cup {None}]
    PROVE  /\ SpaceType' /\ WhereInv' /\ PlacementAgrees'
           /\ over' = over => (Distinct' => Distinct)
  <1>1. SocType /\ SpaceType /\ WhereInv /\ PlacementAgrees
        /\ UNCHANGED <<where, inside, placed, misplaced>>
    BY InvParts DEF space
  <1>2. (Regular' => Regular) /\ (over' = over => (Distinct' => Distinct))
    BY <1>1, RegularStep
  <1>3. SpaceType' /\ WhereInv'
    BY <1>1 DEF SpaceType, WhereInv
  <1>4. PlacementAgrees'
    BY <1>1, <1>2, AgreeInv
  <1>5. QED
    BY <1>2, <1>3, <1>4

(* The agents A leave the Society, and keep their cells. *)
LEMMA OutOfSocietyStep ==
    ASSUME IInv, MayCall, Returns, NEW A \in SUBSET ToSet(agents),
           agents' \in Seq(Created), IsInjective(agents'), ToSet(agents') \subseteq ToSet(agents),
           \A p \in DOMAIN agents : A = {agents[p]} => agents' = RemoveAt(agents, p),
           A # {}, Dropped(Whole, A),
           UNCHANGED <<autoincrement, created, id, alive, space, idindex, misplaced>>
    PROVE  IInv'
  <1>1. SocType /\ SpaceType /\ TravType /\ AgentsInv /\ TypeOK /\ ToSet(agents) \subseteq Created
    BY InvParts, SeqElements DEF SocType
  <1>2. Created' = Created /\ Living' = Living /\ Longer
    BY <1>1 DEF Created, Living, Longer, SocType
  <1>3. SocType' /\ AgentsInv'
    BY <1>1, <1>2 DEF SocType, AgentsInv
  <1>4. /\ SpaceType' /\ WhereInv' /\ PlacementAgrees'
        /\ over' = over => (Distinct' => Distinct)
    BY <1>1, <1>2, SpaceSame DEF SpaceType
  <1>5. TravType' /\ ModeInv'
    <2>1. History
      BY <1>1, DroppedHistory
    <2>2. QED
      BY <1>2, <2>1, CallStep DEF space
  <1>6. over' = over /\ old' = old
    BY DEF Returns, trav
  <1>7. ASSUME ~many' PROVE VectorStep
    <2>1. CASE over = Whole
      <3>1. /\ Traversed = agents /\ Traversed' = agents'
            /\ Dropped(over, A)
        BY <1>6, <2>1, SocietyAssumption DEF Traversed
      <3>2. Cardinality(A) \in Nat /\ IsFiniteSet(A) /\ Cardinality(A) # 0
        <4>1. IsFiniteSet(ToSet(agents))
          BY <1>1, SeqElements DEF SocType
        <4>2. QED
          BY <4>1, FS_Subset, FS_CardinalityType, FS_EmptySet
      <3>3. ~(drops + Cardinality(A) > 1) /\ drops \in Nat
        BY <1>1, <1>7, <3>1 DEF Dropped, TravType
      <3>4. Cardinality(A) = 1
        BY <3>2, <3>3
      <3>5. PICK a : A = {a}
        BY <3>2, <3>4, FS_Singleton
      <3>6. PICK p \in DOMAIN agents : agents[p] = a
        BY <3>5 DEF ToSet
      <3>7. agents' = RemoveAt(agents, p)
        BY <3>5, <3>6
      <3>8. QED
        BY <3>1, <3>5, <3>6, <3>7 DEF VectorStep
    <2>2. CASE over # Whole
      <3>1. Traversed' = Traversed
        BY <1>6, <2>2, TraversedSame DEF space
      <3>2. UNCHANGED hist
        BY <2>2 DEF Dropped
      <3>3. QED
        BY <3>1, <3>2 DEF VectorStep
    <2>3. QED
      BY <2>1, <2>2
  <1>8. many => many'
    BY DEF Dropped, hist
  <1>9. WalkInv'
    BY <1>4, <1>6, <1>7, <1>8, ReturnsWalk
  <1>10. QED
    BY <1>3, <1>4, <1>5, <1>9, InvPartsNext

LEMMA RemoveAgentStep ==
    ASSUME IInv, NEW a \in Agent, RemoveAgent(a)
    PROVE  IInv'
  <1>1. /\ MayCall /\ Returns /\ a \in ToSet(agents) /\ agents' = RemoveFirst(agents, a)
        /\ Dropped(Whole, {a})
        /\ UNCHANGED <<autoincrement, created, id, alive, space, idindex, misplaced>>
    BY DEF RemoveAgent
  <1>2. agents \in Seq(Created) /\ IsInjective(agents)
    BY InvParts DEF SocType, AgentsInv
  <1>3. PICK p \in DOMAIN agents : agents[p] = a
    BY <1>1 DEF ToSet
  <1>4. agents' = RemoveAt(agents, p)
    BY <1>1, <1>2, <1>3, RemoveFirstFacts
  <1>5. /\ agents' \in Seq(Created) /\ IsInjective(agents')
        /\ ToSet(agents') \subseteq ToSet(agents)
    BY <1>2, <1>3, <1>4, RemoveAtFacts, RemoveAtInjective
  <1>6. \A q \in DOMAIN agents : {a} = {agents[q]} => agents' = RemoveAt(agents, q)
    BY <1>2, <1>3, <1>4 DEF IsInjective
  <1>7. {a} \in SUBSET ToSet(agents) /\ {a} # {}
    BY <1>1
  <1>8. QED
    BY <1>1, <1>5, <1>6, <1>7, OutOfSocietyStep

LEMMA RemoveIfStep ==
    ASSUME IInv, NEW A \in (SUBSET ToSet(agents)) \ {{}}, RemoveIf(A)
    PROVE  IInv'
  <1>1. /\ MayCall /\ Returns /\ agents' = Those(agents, Agent \ A)
        /\ Dropped(Whole, A)
        /\ UNCHANGED <<autoincrement, created, id, alive, space, idindex, misplaced>>
    <2>1. A \cap ToSet(agents) = A
      OBVIOUS
    <2>2. QED
      BY <2>1 DEF RemoveIf
  <1>2. /\ agents \in Seq(Created) /\ IsInjective(agents) /\ Created \subseteq Agent
        /\ DOMAIN agents = 1..Len(agents) /\ \A x \in 1..Len(agents) : agents[x] \in Created
    BY InvParts, CreatedAgents, SeqElements DEF SocType, AgentsInv
  <1>3. /\ agents' \in Seq(Created) /\ IsInjective(agents')
        /\ ToSet(agents') \subseteq ToSet(agents)
    BY <1>1, <1>2, ThoseFacts
  <1>4. ASSUME NEW p \in DOMAIN agents, A = {agents[p]}
        PROVE  agents' = RemoveAt(agents, p)
    <2>1. \A x \in DOMAIN agents : x # p => agents[x] \in Agent \ A
      BY <1>2, <1>4 DEF IsInjective
    <2>2. agents[p] \notin Agent \ A
      BY <1>4
    <2>3. QED
      BY <1>1, <1>2, <2>1, <2>2, ThoseWithoutOne
  <1>5. A \in SUBSET ToSet(agents) /\ A # {}
    OBVIOUS
  <1>6. QED
    BY <1>1, <1>3, <1>4, <1>5, OutOfSocietyStep

(* A call that changes neither the Society nor the cells, but the index. *)
LEMMA GetStep ==
    ASSUME IInv, NEW p \in Ids, Get(p)
    PROVE  IInv'
  <1>1. /\ MayCall /\ idindex' = Index(p) /\ (Raises \/ Returns)
        /\ UNCHANGED hist /\ UNCHANGED soc /\ UNCHANGED <<space, misplaced>>
    BY DEF Get, NothingDropped
  <1>2. TypeOK /\ SocType /\ SpaceType
    BY InvParts
  <1>3. /\ SocType' /\ AgentsInv' /\ Longer /\ Created' = Created /\ Living' = Living
        /\ agents' = agents /\ \A b \in Created : id'[b] = id[b]
    BY <1>1, SocSame
  <1>4. ASSUME NEW q \in Ids PROVE LastWithId(q) \in Created \cup {None}
    <2> DEFINE I == {x \in 1..Len(agents) : id[agents[x]] = q}
    <2>1. Len(agents) \in Nat /\ \A x \in 1..Len(agents) : agents[x] \in Created
      BY <1>2 DEF SocType
    <2>2. I # {} => Max(I) \in I
      <3>1. SUFFICES ASSUME I # {} PROVE Max(I) \in I
        OBVIOUS
      <3>2. {Len(agents) - x : x \in I} \subseteq Nat /\ {Len(agents) - x : x \in I} # {}
        BY <2>1, <3>1
      <3>3. PICK m \in {Len(agents) - x : x \in I} :
               \A y \in {Len(agents) - x : x \in I} : m <= y
        BY <3>2, LeastNatural
      <3>4. PICK x \in I : m = Len(agents) - x
        OBVIOUS
      <3>5. ASSUME NEW y \in I PROVE x >= y
        <4>1. Len(agents) - y \in {Len(agents) - z : z \in I}
          OBVIOUS
        <4>2. m <= Len(agents) - y /\ x \in Nat /\ y \in Nat
          BY <2>1, <3>3, <4>1
        <4>3. QED
          BY <2>1, <3>4, <4>2
      <3> HIDE DEF I
      <3>6. QED
        BY <3>5 DEF Max
    <2>3. SelectLastInSeq(agents, LAMBDA a : id[a] = q) = IF I # {} THEN Max(I) ELSE 0
      BY DEF SelectLastInSeq
    <2> HIDE DEF I
    <2>4. CASE I = {}
      BY <2>3, <2>4 DEF LastWithId
    <2>5. CASE I # {}
      <3>1. Max(I) \in 1..Len(agents)
        BY <2>2, <2>5 DEF I
      <3>2. Max(I) # 0 /\ agents[Max(I)] \in Created
        BY <2>1, <3>1
      <3>3. LastWithId(q) = agents[Max(I)]
        BY <2>3, <2>5, <3>2 DEF LastWithId
      <3>4. QED
        BY <3>2, <3>3
    <2>6. QED
      BY <2>4, <2>5
  <1>5. idindex' \in [Ids -> Created \cup {None}]
    BY <1>1, <1>2, <1>4 DEF SpaceType, Index, Rebuilt
  <1>6. /\ SpaceType' /\ WhereInv' /\ PlacementAgrees'
        /\ over' = over => (Distinct' => Distinct)
    BY <1>1, <1>3, <1>5, SpaceSame
  <1>7. TravType' /\ ModeInv'
    BY <1>1, <1>3, CallStep DEF History, space
  <1>8. WalkInv'
    <2>1. CASE Raises
      BY <2>1, RaisesWalk
    <2>2. CASE Returns
      <3>1. over' = over /\ old' = old
        BY <2>2 DEF Returns, trav
      <3>2. Traversed' = Traversed /\ many' = many
        BY <1>1, <1>3, <3>1, TraversedSame DEF space, hist
      <3>3. QED
        BY <1>1, <1>6, <2>2, <3>1, <3>2, ReturnsWalk DEF VectorStep
    <2>3. QED
      BY <1>1, <2>1, <2>2
  <1>9. QED
    BY <1>3, <1>6, <1>7, <1>8, InvPartsNext

(* The traversal goes on with the vector that the Society had. *)
LEMMA ClearStep ==
    ASSUME IInv, Clear
    PROVE  IInv'
  <1>1. /\ MayCall /\ agents' = <<>> /\ autoincrement' = 1
        /\ \/ over = Whole /\ over' = Old /\ old' = agents
           \/ over # Whole /\ over' = over /\ old' = old
        /\ UNCHANGED <<created, id, alive, mode, n, i, k, current, visited, misplaced, idindex>>
        /\ UNCHANGED <<begun, left, drops, many>>
        /\ UNCHANGED <<space, misplaced>> /\ calls' \in 0..MaxCalls
    <2>1. calls' \in 0..MaxCalls
      BY InvParts, SocietyAssumption DEF Clear, MayCall, TravType
    <2>2. QED
      BY <2>1 DEF Clear, hist
  <1>2. /\ TypeOK /\ SocType /\ SpaceType /\ TravType /\ ModeInv /\ WalkInv
    BY InvParts
  <1>3. Created' = Created /\ Living' = Living /\ Longer
    BY <1>1, <1>2 DEF Created, Living, Longer, SocType
  <1>4. SocType' /\ AgentsInv'
    BY <1>1, <1>2, <1>3, SocietyAssumption DEF SocType, AgentsInv, IsInjective, ToSet
  <1>5. /\ SpaceType' /\ WhereInv' /\ PlacementAgrees'
        /\ over' = over => (Distinct' => Distinct)
    BY <1>1, <1>2, <1>3, SpaceSame DEF SpaceType
  <1>6. TravType'
    BY <1>1, <1>2, <1>3 DEF TravType, SocType
  <1>7. ModeInv'
    <2>1. mode = "idle" <=> over' = Nothing
      BY <1>1, <1>2, SocietyAssumption DEF ModeInv
    <2>2. over' \in Cell => placed'
      BY <1>1, <1>2, SocietyAssumption DEF ModeInv, space
    <2>3. QED
      BY <1>1, <1>2, <2>1, <2>2 DEF ModeInv
  <1>8. Traversed' = Traversed
    <2>1. CASE over = Whole
      BY <1>1, <2>1, SocietyAssumption DEF Traversed
    <2>2. CASE over # Whole
      BY <1>1, <2>2, TraversedSame DEF space
    <2>3. QED
      BY <2>1, <2>2
  <1>9. Distinct' => Distinct
    BY <1>1, <1>5, SocietyAssumption DEF Distinct
  <1>10. WalkInv'
    <2>1. NextPlace' = NextPlace
      BY <1>1, <1>8 DEF NextPlace
    <2>2. QED
      BY <1>1, <1>2, <1>8, <1>9, <2>1 DEF WalkInv, Point, Turns
  <1>11. QED
    BY <1>4, <1>5, <1>6, <1>7, <1>10, InvPartsNext

----------------------------------------------------------------------------
(* The steps of forEachAgent itself. *)
LEMMA StillStep ==
    ASSUME IInv, UNCHANGED <<soc, space, idindex, misplaced>>
    PROVE  /\ SocType' /\ AgentsInv' /\ SpaceType' /\ WhereInv' /\ PlacementAgrees'
           /\ Created' = Created /\ agents' = agents /\ inside' = inside /\ placed' = placed
           /\ over' = over => (Distinct' => Distinct)
           /\ over' = over /\ old' = old => Traversed' = Traversed
  <1>1. SpaceType
    BY InvParts
  <1>2. /\ SocType' /\ AgentsInv' /\ Longer /\ Created' = Created /\ Living' = Living
        /\ agents' = agents /\ \A b \in Created : id'[b] = id[b]
    BY SocSame
  <1>3. idindex' \in [Ids -> Created \cup {None}]
    BY <1>1 DEF SpaceType
  <1>4. /\ SpaceType' /\ WhereInv' /\ PlacementAgrees'
        /\ over' = over => (Distinct' => Distinct)
    BY <1>2, <1>3, SpaceSame
  <1>5. QED
    BY <1>2, <1>4, TraversedSame DEF space

LEMMA ForEachStep ==
    ASSUME IInv, NEW l \in {Whole} \cup Cell, ForEach(l)
    PROVE  IInv'
  <1> DEFINE ags == IF l = Whole THEN agents ELSE inside[l]
  <1>1. /\ mode = "idle" /\ MayCall /\ (l \in Cell => placed)
        /\ n' = Len(ags) /\ begun' = ToSet(ags)
        /\ mode' = "loop" /\ over' = l /\ i' = 1 /\ k' = 1
        /\ left' = {} /\ drops' = 0 /\ many' = FALSE
        /\ UNCHANGED <<soc, space, idindex, old, current, visited, misplaced>>
    BY DEF ForEach
  <1>2. /\ TypeOK /\ SocType /\ SpaceType /\ TravType /\ ModeInv /\ AgentsInv /\ PlacementAgrees
    BY InvParts
  <1>3. /\ SocType' /\ AgentsInv' /\ SpaceType' /\ WhereInv' /\ PlacementAgrees'
        /\ Created' = Created /\ agents' = agents /\ inside' = inside /\ placed' = placed
    BY <1>1, StillStep
  <1>4. ags \in Seq(Created) /\ Len(ags) \in Nat /\ ToSet(ags) \subseteq Created
        /\ DOMAIN ags = 1..Len(ags)
    <2>1. ags \in Seq(Created)
      BY <1>2, SocietyAssumption DEF SocType, SpaceType
    <2> HIDE DEF ags
    <2>2. QED
      BY <2>1, SeqElements
  <1>5. Traversed' = ags
    BY <1>1, <1>3, SocietyAssumption DEF Traversed
  <1> HIDE DEF ags
  <1>6. visited = <<>> /\ calls' \in 0..MaxCalls
    BY <1>1, <1>2, SocietyAssumption DEF ModeInv, TravType, MayCall
  <1>7. l # Nothing /\ l \in {Whole, Old, Nothing} \cup Cell
    BY SocietyAssumption
  <1>8. TravType'
    <2>1. current = None /\ current' = None /\ visited' = visited /\ old' = old
      BY <1>1, <1>2 DEF TravType
    <2>2. i' \in 1..(n' + 1) /\ k' \in 1..i'
      BY <1>1, <1>4
    <2>3. drops' \in Nat /\ many' \in BOOLEAN /\ mode' # "call"
      BY <1>1
    <2>4. over' \in {Whole, Old, Nothing} \cup Cell /\ mode' \in {"idle", "loop", "call"}
      BY <1>1, <1>7
    <2>5. n' \in Nat /\ begun' \subseteq Created' /\ left' \subseteq Created'
      BY <1>1, <1>3, <1>4
    <2>6. QED
      BY <1>2, <1>3, <1>6, <2>1, <2>2, <2>3, <2>4, <2>5 DEF TravType
  <1>9. ModeInv'
    BY <1>1, <1>3, <1>6, <1>7 DEF ModeInv
  <1>10. WalkInv'
    <2>1. SUFFICES ASSUME Distinct'
                   PROVE  Orderly(ags, ToSet(ags), 1, Len(ags), <<>>)
      BY <1>1, <1>4, <1>5, <1>6 DEF WalkInv, Point, Turns
    <2>2. IsInjective(ags)
      <3>1. CASE l = Whole
        BY <1>2, <3>1 DEF AgentsInv, ags
      <3>2. CASE l # Whole
        <4>1. l \in Cell /\ Regular'
          BY <1>1, <2>1, <3>2 DEF Distinct
        <4>2. IsInjective(inside'[l])
          BY <1>3, <4>1 DEF PlacementAgrees
        <4>3. QED
          BY <1>3, <3>2, <4>2 DEF ags
      <3>3. QED
        BY <3>1, <3>2
    <2>3. Enough(ags, ToSet(ags), 1, Len(ags))
      <3>1. \A x \in 1..Len(ags) : ags[x] \in ToSet(ags) <=> x <= Len(ags)
        BY <1>4 DEF ToSet
      <3>2. Len(ags) \in 0..Len(ags) /\ Len(ags) - 1 < Len(ags)
        BY <1>4
      <3>3. QED
        BY <1>4, <3>1, <3>2 DEF Enough
    <2>4. Behind(ags, ToSet(ags), 1, <<>>) /\ Ahead(ags, ToSet(ags), 1, <<>>)
      BY <1>4 DEF Behind, Ahead, Never
    <2>5. QED
      BY <2>2, <2>3, <2>4 DEF Orderly
  <1>11. QED
    BY <1>3, <1>8, <1>9, <1>10, InvPartsNext

(* The function is called for the agent at q. *)
LEMMA OrderlyVisit ==
    ASSUME NEW X, NEW T \in Seq(X), NEW S, NEW q \in 1..Len(T), NEW r \in Nat,
           NEW V \in Seq(X), Orderly(T, S, q, r + 1, V)
    PROVE  Orderly(T, S, q + 1, r, Append(V, T[q]))
  <1> DEFINE W == Append(V, T[q])
  <1>1. /\ Len(T) \in Nat /\ DOMAIN T = 1..Len(T) /\ T[q] \in X
        /\ \A x, y \in 1..Len(T) : T[x] = T[y] => x = y
    BY DEF Orderly, IsInjective
  <1>2. /\ Len(V) \in Nat /\ DOMAIN V = 1..Len(V) /\ DOMAIN W = 1..(Len(V) + 1)
        /\ \A x \in 1..Len(V) : W[x] = V[x]
        /\ W[Len(V) + 1] = T[q]
    BY <1>1, AppendFacts
  <1> HIDE DEF W
  <1>3. \A x \in 1..(Len(V) + 1) : x = Len(V) + 1 \/ x \in 1..Len(V)
    BY <1>2
  <1>4. 1..Len(V) \subseteq 1..(Len(V) + 1) /\ Len(V) + 1 \in 1..(Len(V) + 1)
        /\ Len(V) + 1 \notin 1..Len(V)
    BY <1>2
  <1>5. ASSUME NEW a, a # T[q]
        PROVE  (Once(V, a) => Once(W, a)) /\ (Never(V, a) => Never(W, a))
    <2>1. \A j \in 1..(Len(V) + 1) : W[j] = a => j \in 1..Len(V) /\ V[j] = a
      BY <1>2, <1>3, <1>5
    <2>2. Never(V, a) => Never(W, a)
      BY <1>2, <2>1 DEF Never
    <2>3. Once(V, a) => Once(W, a)
      BY <1>2, <1>4, <2>1 DEF Once
    <2>4. QED
      BY <2>2, <2>3
  <1>6. Never(V, T[q]) => Once(W, T[q])
    BY <1>2, <1>3, <1>4 DEF Never, Once
  <1>7. Enough(T, S, q + 1, r)
    <2>1. PICK m \in 0..Len(T) : (\A x \in DOMAIN T : T[x] \in S <=> x <= m) /\ m - q < r + 1
      BY DEF Orderly, Enough
    <2>2. m - (q + 1) < r
      BY <1>1, <2>1
    <2>3. QED
      BY <2>1, <2>2 DEF Enough
  <1>8. ASSUME NEW x \in 1..Len(T), T[x] \in S
        PROVE  IF x < q + 1 THEN Once(W, T[x]) ELSE Never(W, T[x])
    <2>1. IF x < q THEN Once(V, T[x]) ELSE Never(V, T[x])
      BY <1>1, <1>8 DEF Orderly, Behind, Ahead
    <2>2. CASE x = q
      BY <1>6, <2>1, <2>2
    <2>3. CASE x # q
      <3>1. T[x] # T[q] /\ (x < q + 1 <=> x < q)
        BY <1>1, <2>3
      <3>2. QED
        BY <1>5, <2>1, <3>1
    <2>4. QED
      BY <2>2, <2>3
  <1>9. QED
    BY <1>1, <1>7, <1>8 DEF Orderly, Behind, Ahead, W

LEMMA VisitStep ==
    ASSUME IInv, Visit
    PROVE  IInv'
  <1> DEFINE T == Traversed
             V == visited
             a == Traversed[k]
  <1>1. /\ mode = "loop" /\ i <= n /\ k <= Len(T) /\ mode' = "call" /\ current' = a
        /\ visited' = Append(V, a) /\ drops' = 0
        /\ UNCHANGED <<soc, space, idindex, misplaced>>
        /\ UNCHANGED <<over, old, n, i, k, begun, left, many, calls>>
    BY DEF Visit, More
  <1>2. TypeOK /\ SocType /\ TravType /\ ModeInv /\ WalkInv
    BY InvParts
  <1>3. /\ SocType' /\ AgentsInv' /\ SpaceType' /\ WhereInv' /\ PlacementAgrees'
        /\ Created' = Created /\ agents' = agents /\ inside' = inside /\ placed' = placed
        /\ (Distinct' => Distinct) /\ Traversed' = T
    BY <1>1, StillStep
  <1>4. T \in Seq(Created) /\ Len(T) \in Nat /\ k \in 1..Len(T) /\ T[k] \in Created
    <2>1. T \in Seq(Created)
      BY <1>2, TraversedType
    <2>2. k \in Nat \ {0}
      BY <1>2 DEF TravType
    <2>3. QED
      BY <1>1, <2>1, <2>2, SeqElements
  <1>5. None \notin Created
    BY DEF None, Created
  <1>6. Append(V, a) \in Seq(Created) /\ Len(Append(V, a)) = Len(V) + 1 /\ Len(V) \in Nat
    BY <1>2, <1>4, AppendFacts, SeqElements DEF TravType
  <1>7. TravType'
    BY <1>1, <1>2, <1>3, <1>4, <1>5, <1>6 DEF TravType
  <1>8. ModeInv'
    <2>1. Len(visited') <= i
      BY <1>1, <1>2, <1>6 DEF ModeInv, TravType
    <2>2. QED
      BY <1>1, <1>2, <1>3, <2>1 DEF ModeInv
  <1>9. WalkInv'
    <2>1. SUFFICES ASSUME ~many, Distinct
                   PROVE  Orderly(T, begun \ left, k + 1, n - i, Append(V, a))
      <3>1. NextPlace' = k + 1
        BY <1>1, <1>3 DEF NextPlace
      <3>2. QED
        BY <1>1, <1>3, <3>1 DEF WalkInv, Point, Turns
    <2>2. n - i \in Nat /\ n - i + 1 = (n - i) + 1
      BY <1>1, <1>2 DEF TravType
    <2>3. Orderly(T, begun \ left, k, (n - i) + 1, V)
      BY <1>1, <1>2, <2>1, <2>2 DEF WalkInv, Point, Turns
    <2>4. V \in Seq(Created)
      BY <1>2 DEF TravType
    <2>5. QED
      BY <1>4, <2>2, <2>3, <2>4, OrderlyVisit
  <1>10. QED
    BY <1>3, <1>7, <1>8, <1>9, InvPartsNext

LEMMA NoAgentStep ==
    ASSUME IInv, NoAgent
    PROVE  IInv'
  <1> DEFINE T == Traversed
             S == begun \ left
  <1>1. /\ mode = "loop" /\ i <= n /\ k > Len(T) /\ i' = i + 1 /\ k' = k + 1
        /\ UNCHANGED <<soc, space, idindex, misplaced>>
        /\ UNCHANGED <<mode, over, old, n, current, visited, begun, left, drops, many, calls>>
    BY DEF NoAgent, More, hist
  <1>2. TypeOK /\ SocType /\ TravType /\ ModeInv /\ WalkInv
    BY InvParts
  <1>3. /\ SocType' /\ AgentsInv' /\ SpaceType' /\ WhereInv' /\ PlacementAgrees'
        /\ Created' = Created /\ agents' = agents /\ inside' = inside /\ placed' = placed
        /\ (Distinct' => Distinct) /\ Traversed' = T
    BY <1>1, StillStep
  <1>4. T \in Seq(Created) /\ Len(T) \in Nat /\ DOMAIN T = 1..Len(T)
    BY <1>2, TraversedType, SeqElements
  <1>5. i \in Nat /\ k \in Nat /\ n \in Nat /\ 1 <= k /\ k <= i /\ Len(visited) \in Nat
    BY <1>2 DEF TravType
  <1>6. TravType'
    <2>1. i' \in 1..(n' + 1) /\ k' \in 1..i'
      BY <1>1, <1>5
    <2>2. QED
      BY <1>1, <1>2, <1>3, <2>1 DEF TravType
  <1>7. ModeInv'
    <2>1. Len(visited') <= i' - 1
      BY <1>1, <1>2, <1>5 DEF ModeInv
    <2>2. QED
      BY <1>1, <1>2, <1>3, <2>1 DEF ModeInv
  <1>8. WalkInv'
    <2>1. SUFFICES ASSUME ~many, Distinct
                   PROVE  Orderly(T, S, k + 1, n - (i + 1) + 1, visited)
      BY <1>1, <1>3 DEF WalkInv, Point, Turns
    <2>2. Orderly(T, S, k, n - i + 1, visited)
      BY <1>1, <1>2, <2>1 DEF WalkInv, Point, Turns
    <2>3. Enough(T, S, k + 1, n - (i + 1) + 1)
      <3>1. PICK m \in 0..Len(T) :
               (\A x \in DOMAIN T : T[x] \in S <=> x <= m) /\ m - k < n - i + 1
        BY <2>2 DEF Orderly, Enough
      <3>2. m - (k + 1) < n - (i + 1) + 1
        BY <1>4, <1>5, <3>1
      <3>3. QED
        BY <3>1, <3>2 DEF Enough
    <2>4. \A x \in 1..Len(T) : x < k /\ x < k + 1
      BY <1>1, <1>4, <1>5
    <2>5. QED
      BY <1>4, <2>2, <2>3, <2>4 DEF Orderly, Behind, Ahead
  <1>9. QED
    BY <1>3, <1>6, <1>7, <1>8, InvPartsNext

LEMMA CallReturnStep ==
    ASSUME IInv, CallReturn
    PROVE  IInv'
  <1>1. /\ mode = "call" /\ mode' = "loop" /\ current' = None
        /\ i' = i + 1 /\ k' = NextPlace
        /\ UNCHANGED <<soc, space, idindex, misplaced>>
        /\ UNCHANGED <<over, old, n, visited, begun, left, drops, many, calls>>
    BY DEF CallReturn, hist
  <1>2. TypeOK /\ SocType /\ TravType /\ ModeInv /\ WalkInv
    BY InvParts
  <1>3. /\ SocType' /\ AgentsInv' /\ SpaceType' /\ WhereInv' /\ PlacementAgrees'
        /\ Created' = Created /\ agents' = agents /\ inside' = inside /\ placed' = placed
        /\ (Distinct' => Distinct) /\ Traversed' = Traversed
    BY <1>1, StillStep
  <1>4. /\ i \in Nat /\ k \in Nat /\ n \in Nat /\ 1 <= k /\ k <= i /\ i <= n
        /\ Len(visited) \in Nat /\ NextPlace \in {k, k + 1}
    BY <1>1, <1>2 DEF TravType, ModeInv, NextPlace
  <1>5. TravType'
    <2>1. i' \in 1..(n' + 1) /\ k' \in 1..i'
      BY <1>1, <1>4
    <2>2. QED
      BY <1>1, <1>2, <1>3, <2>1 DEF TravType
  <1>6. ModeInv'
    <2>1. Len(visited') <= i' - 1
      BY <1>1, <1>2, <1>4 DEF ModeInv
    <2>2. QED
      BY <1>1, <1>2, <1>3, <2>1 DEF ModeInv
  <1>7. WalkInv'
    <2>1. n - (i + 1) + 1 = n - i
      BY <1>4
    <2>2. SUFFICES ASSUME ~many, Distinct
                   PROVE  Orderly(Traversed, begun \ left, NextPlace, n - i, visited)
      BY <1>1, <1>3, <2>1 DEF WalkInv, Point, Turns
    <2>3. QED
      BY <1>1, <1>2, <2>2 DEF WalkInv, Point, Turns
  <1>8. QED
    BY <1>3, <1>5, <1>6, <1>7, InvPartsNext

LEMMA ForEachEndsStep ==
    ASSUME IInv, ForEachEnds
    PROVE  IInv'
  <1>1. /\ EndTraversal /\ UNCHANGED <<soc, space, idindex, misplaced>>
        /\ UNCHANGED <<begun, left, drops, many, calls>>
    BY DEF ForEachEnds, hist
  <1>2. TravType
    BY InvParts
  <1>3. /\ SocType' /\ AgentsInv' /\ SpaceType' /\ WhereInv' /\ PlacementAgrees'
        /\ Created' = Created
    BY <1>1, StillStep
  <1>4. TravType'
    BY <1>1, <1>2, <1>3 DEF TravType, EndTraversal
  <1>5. ModeInv'
    BY <1>1, SocietyAssumption DEF ModeInv, EndTraversal
  <1>6. WalkInv'
    BY <1>1, RaisesWalk DEF Raises
  <1>7. QED
    BY <1>3, <1>4, <1>5, <1>6, InvPartsNext

LEMMA StutterStep ==
    ASSUME IInv, UNCHANGED vars
    PROVE  IInv'
  BY DEF vars, soc, space, trav, hist, IInv, TypeOK, AgentsInv, WhereInv, ModeInv,
         PlacementAgrees, WalkInv, Created, Living, Point, Turns, NextPlace, Traversed,
         Distinct, Regular, UniqueIds

----------------------------------------------------------------------------
(* createPlacement. *)
Position(s, a) == SelectInSeq(s, LAMBDA b : b = a)

LEMMA PositionFacts ==
    ASSUME NEW X, NEW s \in Seq(X), NEW a
    PROVE  /\ a \in ToSet(s) => Position(s, a) \in DOMAIN s /\ s[Position(s, a)] = a
           /\ a \notin ToSet(s) => Position(s, a) = 0
  <1> DEFINE I == {x \in 1..Len(s) : s[x] = a}
             j == Position(s, a)
  <1>1. Len(s) \in Nat /\ DOMAIN s = 1..Len(s)
    OBVIOUS
  <1>2. j = IF I # {} THEN Min(I) ELSE 0
    BY DEF Position, SelectInSeq
  <1>3. a \in ToSet(s) <=> I # {}
    BY <1>1 DEF ToSet
  <1>4. I # {} => Min(I) \in I
    <2>1. SUFFICES ASSUME I # {} PROVE Min(I) \in I
      OBVIOUS
    <2>2. I \subseteq Nat
      BY <1>1
    <2>3. \E x \in I : \A y \in I : x <= y
      BY <2>1, <2>2, LeastNatural
    <2> HIDE DEF I
    <2>4. QED
      BY <2>3 DEF Min
  <1> HIDE DEF j
  <1>5. a \in ToSet(s) => j \in DOMAIN s /\ s[j] = a
    BY <1>1, <1>2, <1>3, <1>4
  <1>6. a \notin ToSet(s) => j = 0
    BY <1>2, <1>3
  <1>7. QED
    BY <1>5, <1>6 DEF j

LEMMA InjectiveLen ==
    ASSUME NEW X, NEW s \in Seq(X), IsInjective(s)
    PROVE  Cardinality(ToSet(s)) = Len(s)
  <1>1. /\ Len(s) \in Nat /\ DOMAIN s = 1..Len(s) /\ s \in Seq(ToSet(s))
        /\ \A x, y \in 1..Len(s) : s[x] = s[y] => x = y
    BY SeqElements DEF IsInjective
  <1>2. s \in [1..Len(s) -> ToSet(s)]
    BY <1>1
  <1>3. s \in Injection(1..Len(s), ToSet(s))
    BY <1>1, <1>2 DEF Injection, IsInjective
  <1>4. s \in Surjection(1..Len(s), ToSet(s))
    BY <1>1, <1>2 DEF Surjection, ToSet
  <1>5. ExistsBijection(1..Len(s), ToSet(s))
    BY <1>3, <1>4 DEF ExistsBijection, Bijection
  <1>6. QED
    BY <1>1, <1>5, FS_CountingElements

(* A random order of the elements of a vector has its length. *)
LEMMA OrderFacts ==
    ASSUME NEW X, NEW s \in Seq(X), IsInjective(s), NEW order \in SetToSeqs(ToSet(s))
    PROVE  /\ order \in Seq(ToSet(s)) /\ Len(order) = Len(s) /\ DOMAIN order = 1..Len(s)
           /\ IsInjective(order) /\ ToSet(order) = ToSet(s)
  <1>1. Len(s) \in Nat /\ Cardinality(ToSet(s)) = Len(s) /\ IsFiniteSet(ToSet(s))
    BY InjectiveLen, SeqElements
  <1>2. /\ order \in [1..Len(s) -> ToSet(s)]
        /\ \A x, y \in 1..Len(s) : x # y => order[x] # order[y]
    BY <1>1 DEF SetToSeqs
  <1>3. order \in Seq(ToSet(s)) /\ Len(order) = Len(s) /\ DOMAIN order = 1..Len(s)
    BY <1>1, <1>2
  <1>4. IsInjective(order)
    BY <1>2, <1>3 DEF IsInjective
  <1>5. ToSet(order) \in SUBSET ToSet(s) /\ Cardinality(ToSet(order)) = Cardinality(ToSet(s))
    BY <1>1, <1>3, <1>4, InjectiveLen, SeqElements
  <1>6. ToSet(order) = ToSet(s)
    BY <1>1, <1>5, FS_Subset
  <1>7. QED
    BY <1>3, <1>4, <1>6

(* Agent order[x] is in the cell at[x]. *)
LEMMA CreateStep ==
    ASSUME IInv, NEW order \in Seq(ToSet(agents)), IsInjective(order), NEW at,
           \A x \in DOMAIN order : at[x] \in Cell \cup {Nowhere},
           CreatePlacement(order, at)
    PROVE  /\ IInv'
           /\ \A x \in DOMAIN order : where'[order[x]] = at[x]
           /\ \A c \in Cell : Len(inside'[c]) = Cardinality({x \in DOMAIN order : at[x] = c})
  <1>1. /\ MayCall /\ ~placed /\ placed' = TRUE /\ Returns /\ UNCHANGED hist
        /\ UNCHANGED soc /\ idindex' = idindex /\ misplaced' = misplaced
        /\ inside' = [c \in Cell |-> Those(order, {a \in Agent : where'[a] = c})]
    BY DEF CreatePlacement, NothingDropped
  <1>2. /\ TypeOK /\ SocType /\ SpaceType /\ AgentsInv /\ WhereInv /\ ModeInv
        /\ Created \subseteq Agent
    BY InvParts, CreatedAgents
  <1>3. /\ SocType' /\ AgentsInv' /\ Longer /\ Created' = Created /\ Living' = Living
        /\ agents' = agents /\ \A b \in Created : id'[b] = id[b]
    BY <1>1, SocSame
  <1>4. /\ ToSet(agents) \subseteq Created /\ ToSet(agents) \subseteq Living
        /\ order \in Seq(Created) /\ order \in Seq(Agent)
        /\ ToSet(order) \subseteq ToSet(agents) /\ DOMAIN order = 1..Len(order)
    <2>1. ToSet(agents) \subseteq Created
      BY <1>2, SeqElements DEF SocType
    <2>2. order \in Seq(Created) /\ order \in Seq(Agent)
      BY <1>2, <2>1
    <2>3. QED
      BY <1>2, <2>1, <2>2, SeqElements DEF AgentsInv
  <1>5. /\ \A x \in DOMAIN order : where'[order[x]] = at[x]
        /\ \A a \in Agent \ ToSet(order) : where'[a] = Unplaced
        /\ where' \in [Agent -> Place]
    <2>1. ASSUME NEW a \in Agent
          PROVE  /\ a \in ToSet(order) =>
                       \E x \in DOMAIN order : order[x] = a /\ where'[a] = at[x]
                 /\ a \notin ToSet(order) => where'[a] = Unplaced
      <3> DEFINE j == Position(order, a)
      <3>1. /\ a \in ToSet(order) => j \in DOMAIN order /\ order[j] = a
            /\ a \notin ToSet(order) => j = 0
        BY PositionFacts
      <3>2. where'[a] = IF j = 0 THEN where[a] ELSE at[j]
        BY DEF CreatePlacement, Position
      <3>3. where[a] = Unplaced
        BY <1>1, <1>2 DEF WhereInv
      <3> HIDE DEF j
      <3>4. 0 \notin DOMAIN order
        BY <1>4
      <3>5. QED
        BY <3>1, <3>2, <3>3, <3>4
    <2>2. ASSUME NEW x \in DOMAIN order PROVE where'[order[x]] = at[x]
      <3>1. order[x] \in Agent /\ order[x] \in ToSet(order)
        BY <1>4, SeqElements
      <3>2. PICK y \in DOMAIN order : order[y] = order[x] /\ where'[order[x]] = at[y]
        BY <2>1, <3>1
      <3>3. y = x
        BY <3>2 DEF IsInjective
      <3>4. QED
        BY <3>2, <3>3
    <2>3. \A a \in Agent : where'[a] \in Place
      BY <2>1 DEF Place
    <2>4. where' = [a \in Agent |-> where'[a]]
      BY DEF CreatePlacement
    <2>5. QED
      BY <2>1, <2>2, <2>3, <2>4
  <1>6. ASSUME NEW c \in Cell
        PROVE  /\ inside'[c] \in Seq(Created) /\ IsInjective(inside'[c])
               /\ ToSet(inside'[c]) = {a \in Created : where'[a] = c}
               /\ Len(inside'[c]) = Cardinality({x \in DOMAIN order : at[x] = c})
    <2> DEFINE S == {a \in Agent : where'[a] = c}
    <2>1. inside'[c] = Those(order, S)
      BY <1>1
    <2>2. /\ Those(order, S) \in Seq(Created)
          /\ ToSet(Those(order, S)) = ToSet(order) \cap S
          /\ IsInjective(Those(order, S))
          /\ Len(Those(order, S)) = UpTo(order, S, Len(order))
      BY <1>4, ThoseFacts
    <2>3. c # Unplaced
      BY SocietyAssumption
    <2>4. ToSet(order) \cap S = {a \in Created : where'[a] = c}
      BY <1>2, <1>4, <1>5, <2>3
    <2>5. UpTo(order, S, Len(order)) = Cardinality({x \in DOMAIN order : at[x] = c})
      <3>1. \A x \in 1..Len(order) : order[x] \in S <=> at[x] = c
        BY <1>4, <1>5
      <3>2. {x \in 1..Len(order) : order[x] \in S} = {x \in DOMAIN order : at[x] = c}
        BY <1>4, <3>1
      <3>3. QED
        BY <3>2 DEF UpTo
    <2>6. QED
      BY <2>1, <2>2, <2>4, <2>5
  <1>7. SpaceType'
    <2>1. inside' \in [Cell -> Seq(Created)]
      BY <1>1, <1>6
    <2>2. QED
      BY <1>1, <1>2, <1>3, <1>5, <2>1 DEF SpaceType
  <1>8. TravType' /\ ModeInv'
    BY <1>1, <1>3, CallStep DEF History
  <1>9. WhereInv'
    <2>1. ToSet(order) \subseteq Living /\ Living \subseteq Created
      BY <1>4 DEF Living
    <2>2. QED
      BY <1>1, <1>2, <1>3, <1>5, <2>1 DEF WhereInv
  <1>10. PlacementAgrees'
    BY <1>3, <1>6, AgreeInv DEF Agree
  <1>11. (Regular' => Regular) /\ (over' = over => (Distinct' => Distinct))
    BY <1>1, <1>2, <1>3, RegularStep
  <1>12. WalkInv'
    <2>1. over' = over /\ old' = old /\ over \notin Cell
      BY <1>1, <1>2 DEF Returns, trav, ModeInv
    <2>2. Traversed' = Traversed /\ many' = many
      BY <1>1, <1>3, <2>1, TraversedSame DEF hist
    <2>3. QED
      BY <1>1, <1>11, <2>1, <2>2, ReturnsWalk DEF VectorStep
  <1>13. IInv'
    BY <1>3, <1>7, <1>8, <1>9, <1>10, <1>12, InvPartsNext
  <1>14. QED
    BY <1>5, <1>6, <1>13

(* What each placement promises. *)
Fit(max) ==
    /\ \A a \in ToSet(agents) : where'[a] \in Cell
    /\ \A c \in Cell : Len(inside'[c]) <= max
Even == \A c, d \in Cell : Len(inside'[c]) <= Len(inside'[d]) + 1

LEMMA SpaceFacts ==
    /\ Space \in Seq(Cell) /\ IsInjective(Space) /\ Cell = ToSet(Space)
    /\ Len(Space) \in Nat \ {0} /\ DOMAIN Space = 1..Len(Space)
    /\ Cardinality(Cell) = Len(Space)
  <1>1. Space \in Seq(Cell) /\ IsInjective(Space) /\ Cell = ToSet(Space) /\ Space # <<>>
    BY SocietyAssumption DEF IsInjective, Cell
  <1>2. Len(Space) \in Nat \ {0}
    BY <1>1
  <1>3. QED
    BY <1>1, <1>2, InjectiveLen, SeqElements

LEMMA SlotFacts ==
    ASSUME NEW max \in Nat \ {0}, NEW L \in Nat, NEW j \in Nat \ {0}, j <= L * max
    PROVE  /\ Slot(j, max) \in 1..L
           /\ max * (Slot(j, max) - 1) < j /\ j <= max * (Slot(j, max) - 1) + max
  <1> DEFINE d == (j - 1) \div max
  <1>1. j - 1 \in Nat
    OBVIOUS
  <1>2. d \in Nat /\ j - 1 = max * d + ((j - 1) % max) /\ (j - 1) % max \in 0..(max - 1)
    BY <1>1
  <1>3. Slot(j, max) = d + 1
    BY DEF Slot
  <1> HIDE DEF d
  <1>4. max * d \in Nat /\ max * d <= j - 1 /\ j - 1 < max * d + max
    BY <1>2
  <1>5. max * d < L * max
    BY <1>4
  <1>6. d < L
    BY <1>2, <1>5
  <1>7. Slot(j, max) \in 1..L /\ Slot(j, max) - 1 = d
    BY <1>2, <1>3, <1>6
  <1>8. QED
    BY <1>4, <1>7

LEMMA AgentsFacts ==
    ASSUME IInv
    PROVE  /\ agents \in Seq(Created) /\ IsInjective(agents) /\ agents \in Seq(ToSet(agents))
           /\ Len(agents) \in Nat /\ DOMAIN agents = 1..Len(agents)
  BY InvParts, SeqElements DEF SocType, AgentsInv

(* Everybody is where the placement has put him. *)
LEMMA EverybodyIn ==
    ASSUME NEW order, ToSet(order) = ToSet(agents), NEW at,
           \A x \in DOMAIN order : where'[order[x]] = at[x],
           \A x \in DOMAIN order : at[x] \in Cell
    PROVE  \A a \in ToSet(agents) : where'[a] \in Cell
  BY DEF ToSet

LEMMA CreateRandomStep ==
    ASSUME IInv, NEW max \in Capacity, CreateRandom(max)
    PROVE  IInv' /\ Fit(max)
  <1>1. PICK order \in SetToSeqs(ToSet(agents)), cells \in SetToSeqs(Cell) :
           CreatePlacement(order, [j \in Places |-> cells[Slot(j, max)]])
    BY DEF CreateRandom
  <1> DEFINE at == [j \in Places |-> cells[Slot(j, max)]]
             N == Len(agents)
  <1>2. /\ N \in Nat /\ Places = 1..N /\ N <= Len(Space) * max
        /\ agents \in Seq(Created) /\ IsInjective(agents)
    BY AgentsFacts DEF CreateRandom, Fits, Places
  <1>3. /\ order \in Seq(ToSet(agents)) /\ DOMAIN order = 1..N
        /\ IsInjective(order) /\ ToSet(order) = ToSet(agents)
    BY <1>2, OrderFacts
  <1>4. /\ cells \in Seq(Cell) /\ DOMAIN cells = 1..Len(Space)
        /\ \A x, y \in 1..Len(Space) : cells[x] = cells[y] => x = y
        /\ \A x \in 1..Len(Space) : cells[x] \in Cell
    <2>1. /\ cells \in Seq(ToSet(Space)) /\ DOMAIN cells = 1..Len(Space)
          /\ IsInjective(cells)
      BY SpaceFacts, OrderFacts
    <2>2. QED
      BY <2>1, SpaceFacts DEF IsInjective
  <1>5. max \in Nat \ {0} /\ Len(Space) \in Nat
    BY SocietyAssumption, SpaceFacts
  <1>6. ASSUME NEW j \in 1..N
        PROVE  /\ Slot(j, max) \in 1..Len(Space) /\ at[j] = cells[Slot(j, max)]
               /\ max * (Slot(j, max) - 1) < j /\ j <= max * (Slot(j, max) - 1) + max
    <2>1. j \in Nat \ {0} /\ j <= Len(Space) * max
      BY <1>2, <1>5
    <2>2. QED
      BY <1>2, <1>5, <2>1, SlotFacts
  <1> HIDE DEF at
  <1>7. \A x \in DOMAIN order : at[x] \in Cell
    BY <1>3, <1>4, <1>6
  <1>8. CreatePlacement(order, at)
    BY <1>1 DEF at
  <1>9. /\ IInv' /\ \A x \in DOMAIN order : where'[order[x]] = at[x]
        /\ \A c \in Cell : Len(inside'[c]) = Cardinality({x \in DOMAIN order : at[x] = c})
    BY <1>3, <1>7, <1>8, CreateStep
  <1>10. ASSUME NEW c \in Cell PROVE Cardinality({x \in 1..N : at[x] = c}) <= max
    <2>1. CASE {x \in 1..N : at[x] = c} = {}
      <3>1. Cardinality({x \in 1..N : at[x] = c}) = 0
        BY <2>1, FS_EmptySet
      <3>2. QED
        BY <1>5, <3>1
    <2>2. CASE {x \in 1..N : at[x] = c} # {}
      <3>1. PICK y \in 1..N : at[y] = c
        BY <2>2
      <3> DEFINE m == max * (Slot(y, max) - 1)
      <3>2. m \in Nat
        BY <1>5, <1>6
      <3>3. ASSUME NEW x \in 1..N, at[x] = c PROVE x \in (m + 1)..(m + max)
        <4>1. Slot(x, max) = Slot(y, max)
          BY <1>4, <1>6, <3>1, <3>3
        <4>2. m < x /\ x <= m + max
          BY <1>6, <4>1
        <4> HIDE DEF m
        <4>3. QED
          BY <3>2, <4>2
      <3> HIDE DEF m
      <3>4. IsFiniteSet((m + 1)..(m + max)) /\ Cardinality((m + 1)..(m + max)) = max
        <4>1. m + 1 \in Int /\ m + max \in Int /\ ~(m + 1 > m + max)
              /\ (m + max) - (m + 1) + 1 = max
          BY <1>5, <3>2
        <4>2. QED
          BY <4>1, FS_Interval
      <3>5. {x \in 1..N : at[x] = c} \in SUBSET ((m + 1)..(m + max))
        BY <3>3
      <3>6. QED
        BY <3>4, <3>5, FS_Subset
    <2>3. QED
      BY <2>1, <2>2
  <1>11. \A c \in Cell : Len(inside'[c]) <= max
    BY <1>3, <1>9, <1>10
  <1>12. QED
    BY <1>3, <1>7, <1>9, <1>11, EverybodyIn DEF Fit

LEMMA CreateVoidStep ==
    ASSUME IInv, CreateVoid
    PROVE  IInv'
  <1>1. CreatePlacement(agents, [j \in Places |-> Nowhere])
    BY DEF CreateVoid
  <1>2. \A x \in DOMAIN agents : [j \in Places |-> Nowhere][x] \in Cell \cup {Nowhere}
    BY DEF Places
  <1>3. agents \in Seq(ToSet(agents)) /\ IsInjective(agents)
    BY AgentsFacts
  <1>4. QED
    BY <1>1, <1>2, <1>3, CreateStep

(* The positions j with (j - 1) % L = u, for u = 0, ..., L - 1. *)
Turn(N, L, u) == {j \in 1..N : (j - 1) % L = u}

LEMMA TurnsEven ==
    ASSUME NEW N \in Nat, NEW L \in Nat \ {0}, NEW u \in 0..(L - 1), NEW v \in 0..(L - 1)
    PROVE  Cardinality(Turn(N, L, u)) <= Cardinality(Turn(N, L, v)) + 1
  <1> DEFINE U == Turn(N, L, u)
             V == Turn(N, L, v)
             W == U \ {u + 1}
             h == IF v <= u THEN u - v ELSE u + L - v
             f == [j \in W |-> j - h]
  <1>1. IsFiniteSet(1..N) /\ IsFiniteSet(U) /\ IsFiniteSet(V)
    <2>1. U \in SUBSET (1..N) /\ V \in SUBSET (1..N)
      BY DEF Turn
    <2>2. IsFiniteSet(1..N)
      BY FS_Interval
    <2> HIDE DEF U, V
    <2>3. QED
      BY <2>1, <2>2, FS_Subset
  <1>2. ASSUME NEW j \in W PROVE j - h \in V
    <2>1. j \in 1..N /\ (j - 1) % L = u /\ j # u + 1
      BY DEF Turn
    <2> DEFINE d == (j - 1) \div L
    <2>2. d \in Nat /\ j - 1 = L * d + u
      BY <2>1
    <2> HIDE DEF d
    <2>3. d # 0
      <3>1. d = 0 => L * d = 0
        OBVIOUS
      <3>2. QED
        BY <2>1, <2>2, <3>1
    <2>4. \E e \in Nat : j - h - 1 = L * e + v
      <3>1. CASE v <= u
        <4>1. h = u - v
          BY <3>1
        <4> HIDE DEF h
        <4>2. ASSUME NEW q \in Int, j - 1 = q + u PROVE j - h - 1 = q + v
          BY <2>1, <4>1, <4>2
        <4>3. L * d \in Int
          BY <2>2
        <4>4. j - h - 1 = L * d + v
          BY <2>2, <4>2, <4>3
        <4>5. QED
          BY <2>2, <4>4
      <3>2. CASE ~(v <= u)
        <4>1. h = u + L - v
          BY <3>2
        <4> HIDE DEF h
        <4>2. ASSUME NEW q \in Int, j - 1 = (q + L) + u PROVE j - h - 1 = q + v
          BY <2>1, <4>1, <4>2
        <4>3. d - 1 \in Nat /\ L * (d - 1) \in Int /\ L * d = L * (d - 1) + L
          BY <2>2, <2>3
        <4>4. j - h - 1 = L * (d - 1) + v
          BY <2>2, <4>2, <4>3
        <4>5. QED
          BY <4>3, <4>4
      <3>3. QED
        BY <3>1, <3>2
    <2>5. PICK e \in Nat : j - h - 1 = L * e + v
      BY <2>4
    <2>6. L * e \in Nat
      OBVIOUS
    <2>7. j - h \in 1..N
      BY <2>1, <2>5, <2>6
    <2>8. (j - h - 1) % L = v
      <3>1. (L * e + v) % L = v
        OBVIOUS
      <3>2. QED
        BY <2>5, <3>1
    <2>9. QED
      BY <2>7, <2>8 DEF Turn
  <1>3. f \in Injection(W, V)
    <2>1. W \subseteq Int
      BY DEF Turn
    <2>2. f \in [W -> V]
      BY <1>2
    <2>3. QED
      BY <2>1, <2>2 DEF Injection, IsInjective
  <1>4. Cardinality(W) <= Cardinality(V)
    BY <1>1, <1>3, FS_Injection
  <1>5. Cardinality(U) <= Cardinality(W) + 1
    BY <1>1, FS_RemoveElement, FS_CardinalityType
  <1>6. Cardinality(U) \in Nat /\ Cardinality(V) \in Nat /\ Cardinality(W) \in Nat
    BY <1>1, FS_RemoveElement, FS_CardinalityType
  <1>7. QED
    BY <1>4, <1>5, <1>6

LEMMA CreateUniformStep ==
    ASSUME IInv, CreateUniform
    PROVE  IInv' /\ Even
  <1> DEFINE at == [j \in Places |-> Space[((j - 1) % Len(Space)) + 1]]
             N == Len(agents)
             L == Len(Space)
  <1>1. CreatePlacement(agents, at)
    BY DEF CreateUniform
  <1>2. /\ agents \in Seq(ToSet(agents)) /\ IsInjective(agents)
        /\ N \in Nat /\ DOMAIN agents = 1..N
    BY AgentsFacts
  <1>3. /\ L \in Nat \ {0} /\ DOMAIN Space = 1..L
        /\ \A x \in 1..L : Space[x] \in Cell
        /\ \A x, y \in 1..L : Space[x] = Space[y] => x = y
        /\ \A c \in Cell : \E x \in 1..L : Space[x] = c
    BY SpaceFacts DEF IsInjective, ToSet
  <1>4. ASSUME NEW j \in 1..N
        PROVE  (j - 1) % L \in 0..(L - 1) /\ at[j] = Space[((j - 1) % L) + 1]
    BY <1>2, <1>3 DEF Places
  <1> HIDE DEF at, L
  <1>5. \A x \in DOMAIN agents : at[x] \in Cell
    <2>1. \A j \in 1..N : ((j - 1) % L) + 1 \in 1..L
      BY <1>3, <1>4
    <2>2. QED
      BY <1>2, <1>3, <1>4, <2>1
  <1>6. /\ IInv'
        /\ \A c \in Cell : Len(inside'[c]) = Cardinality({x \in DOMAIN agents : at[x] = c})
    BY <1>1, <1>2, <1>5, CreateStep
  <1>7. ASSUME NEW c \in Cell
        PROVE  \E u \in 0..(L - 1) : Len(inside'[c]) = Cardinality(Turn(N, L, u))
    <2>1. PICK x \in 1..L : Space[x] = c
      BY <1>3
    <2>2. x - 1 \in 0..(L - 1)
      BY <1>3
    <2>3. ASSUME NEW j \in 1..N PROVE at[j] = c <=> (j - 1) % L = x - 1
      <3>1. ((j - 1) % L) + 1 \in 1..L
        BY <1>3, <1>4
      <3>2. at[j] = c <=> ((j - 1) % L) + 1 = x
        BY <1>3, <1>4, <2>1, <3>1
      <3>3. QED
        BY <1>3, <1>4, <3>2
    <2>4. {j \in DOMAIN agents : at[j] = c} = Turn(N, L, x - 1)
      BY <1>2, <2>3 DEF Turn
    <2>5. QED
      BY <1>6, <2>2, <2>4
  <1>8. \A u, v \in 0..(L - 1) :
           Cardinality(Turn(N, L, u)) <= Cardinality(Turn(N, L, v)) + 1
    BY <1>2, <1>3, TurnsEven
  <1>9. Even
    BY <1>7, <1>8 DEF Even
  <1>10. QED
    BY <1>6, <1>9

(* spread: at are the cells that were chosen, room those that are left. *)
Taken(s) == {x \in DOMAIN s.at : s.at[x] \notin ToSet(s.room)}

SpreadOK(s, max, j) ==
    /\ s.at \in Seq(Cell) /\ Len(s.at) = j
    /\ s.room \in Seq(Cell) /\ IsInjective(s.room)
    /\ \A c \in Cell : Count(s.at, c) \in 0..max
    /\ \A c \in ToSet(s.room) : Count(s.at, c) # max
    /\ max * (Len(Space) - Len(s.room)) <= Cardinality(Taken(s))

(* The cell at r leaves the room: the last one takes its place. *)
LEMMA WithoutCellFacts ==
    ASSUME NEW room \in Seq(Cell), IsInjective(room), NEW r \in DOMAIN room
    PROVE  /\ WithoutCell(room, r) \in Seq(Cell) /\ IsInjective(WithoutCell(room, r))
           /\ Len(WithoutCell(room, r)) = Len(room) - 1
           /\ ToSet(WithoutCell(room, r)) = ToSet(room) \ {room[r]}
  <1> DEFINE L == Len(room)
             e == [room EXCEPT ![r] = room[L]]
             w == SubSeq(e, 1, L - 1)
  <1>1. /\ L \in Nat \ {0} /\ DOMAIN room = 1..L /\ r \in 1..L
        /\ \A x \in 1..L : room[x] \in Cell
        /\ \A x, y \in 1..L : room[x] = room[y] => x = y
    BY DEF IsInjective
  <1>2. e \in Seq(Cell) /\ Len(e) = L /\ \A x \in 1..L : e[x] = IF x = r THEN room[L] ELSE room[x]
    BY <1>1
  <1> HIDE DEF e
  <1>3. /\ w \in Seq(Cell) /\ Len(w) = L - 1 /\ DOMAIN w = 1..(L - 1)
        /\ \A x \in 1..(L - 1) : w[x] = IF x = r THEN room[L] ELSE room[x]
    BY <1>1, <1>2
  <1> HIDE DEF w, L
  <1>4. IsInjective(w)
    BY <1>1, <1>3 DEF IsInjective
  <1>5. \A x \in 1..(L - 1) : w[x] \in ToSet(room) \ {room[r]}
    BY <1>1, <1>3 DEF ToSet
  <1>6. ASSUME NEW x \in 1..L, x # r PROVE room[x] \in ToSet(w)
    <2>1. CASE x = L
      <3>1. r \in 1..(L - 1) /\ w[r] = room[x]
        BY <1>1, <1>3, <1>6, <2>1
      <3>2. QED
        BY <1>3, <3>1 DEF ToSet
    <2>2. CASE x # L
      <3>1. x \in 1..(L - 1) /\ w[x] = room[x]
        BY <1>1, <1>3, <1>6, <2>2
      <3>2. QED
        BY <1>3, <3>1 DEF ToSet
    <2>3. QED
      BY <2>1, <2>2
  <1>7. ToSet(w) = ToSet(room) \ {room[r]}
    <2>1. ToSet(w) \subseteq ToSet(room) \ {room[r]}
      BY <1>3, <1>5 DEF ToSet
    <2>2. ToSet(room) \ {room[r]} \subseteq ToSet(w)
      BY <1>1, <1>6 DEF ToSet
    <2>3. QED
      BY <2>1, <2>2
  <1>8. WithoutCell(room, r) = w
    BY DEF WithoutCell, w, e, L
  <1>9. QED
    BY <1>3, <1>4, <1>7, <1>8 DEF L

LEMMA CountAppend ==
    ASSUME NEW X, NEW s \in Seq(X), NEW e \in X, NEW c
    PROVE  /\ Count(s, c) \in Nat
           /\ c = e => Count(Append(s, e), c) = Count(s, c) + 1
           /\ c # e => Count(Append(s, e), c) = Count(s, c)
  <1> DEFINE K == {x \in DOMAIN s : s[x] = c}
             K2 == {x \in DOMAIN Append(s, e) : Append(s, e)[x] = c}
             l == Len(s)
  <1>1. /\ l \in Nat /\ DOMAIN s = 1..l /\ DOMAIN Append(s, e) = 1..(l + 1)
        /\ \A x \in 1..l : Append(s, e)[x] = s[x]
        /\ Append(s, e)[l + 1] = e
    BY AppendFacts
  <1>2. 1..(l + 1) = 1..l \cup {l + 1} /\ l + 1 \notin 1..l
    BY <1>1
  <1>3. K2 = (IF c = e THEN K \cup {l + 1} ELSE K) /\ l + 1 \notin K
    BY <1>1, <1>2
  <1>4. IsFiniteSet(1..l) /\ K \in SUBSET (1..l)
    BY <1>1, FS_Interval
  <1> HIDE DEF K
  <1>5. IsFiniteSet(K) /\ Cardinality(K) \in Nat
    BY <1>4, FS_Subset, FS_CardinalityType
  <1>6. Cardinality(K \cup {l + 1}) = Cardinality(K) + 1
    BY <1>3, <1>5, FS_AddElement
  <1>7. Count(s, c) = Cardinality(K) /\ Count(Append(s, e), c) = Cardinality(K2)
    BY DEF Count, K
  <1> HIDE DEF K2
  <1>8. QED
    BY <1>3, <1>5, <1>6, <1>7

(* A full cell leaves the room with its max agents, so that there is room  *)
(* as long as not all agents that fit have a cell.                         *)
LEMMA SpreadStepOK ==
    ASSUME NEW max \in Nat \ {0}, NEW s, NEW j \in Nat, SpreadOK(s, max, j),
           j < Len(Space) * max, NEW pick \in Nat
    PROVE  SpreadOK(SpreadStep(s, pick, max), max, j + 1)
  <1> DEFINE L == Len(Space)
             M == Len(s.room)
             r == (pick % M) + 1
             c == s.room[r]
             at == Append(s.at, c)
             room == IF Count(at, c) = max THEN WithoutCell(s.room, r) ELSE s.room
             s2 == [at |-> at, room |-> room]
  <1>1. /\ s.at \in Seq(Cell) /\ Len(s.at) = j /\ DOMAIN s.at = 1..j
        /\ s.room \in Seq(Cell) /\ IsInjective(s.room)
        /\ \A e \in Cell : Count(s.at, e) \in 0..max
        /\ \A e \in ToSet(s.room) : Count(s.at, e) # max
        /\ max * (L - M) <= Cardinality(Taken(s))
    BY DEF SpreadOK
  <1>2. L \in Nat /\ M \in Nat /\ DOMAIN s.room = 1..M
    BY <1>1, SpaceFacts
  <1>3. IsFiniteSet(1..j) /\ Cardinality(1..j) = j
    BY FS_Interval
  <1>4. IsFiniteSet(Taken(s)) /\ Cardinality(Taken(s)) \in Nat /\ Cardinality(Taken(s)) <= j
    <2>1. Taken(s) \in SUBSET (1..j)
      BY <1>1 DEF Taken
    <2>2. QED
      BY <1>3, <2>1, FS_Subset, FS_CardinalityType
  <1>5. M # 0
    <2>1. SUFFICES ASSUME M = 0 PROVE FALSE
      OBVIOUS
    <2>2. max * (L - M) = L * max
      BY <1>2, <2>1
    <2>3. L * max \in Nat
      BY <1>2
    <2>4. QED
      BY <1>1, <1>4, <2>2, <2>3
  <1> HIDE DEF M, L
  <1>6. r \in 1..M /\ c \in Cell /\ c \in ToSet(s.room)
    <2>1. pick % M \in 0..(M - 1)
      BY <1>2, <1>5
    <2>2. r \in 1..M
      BY <1>2, <2>1
    <2> HIDE DEF r
    <2>3. QED
      BY <1>1, <2>2, SeqElements DEF M
  <1> HIDE DEF r, c
  <1>7. /\ at \in Seq(Cell) /\ Len(at) = j + 1 /\ DOMAIN at = 1..(j + 1)
        /\ \A x \in 1..j : at[x] = s.at[x]
        /\ at[j + 1] = c
    BY <1>1, <1>6, AppendFacts
  <1>8. /\ Count(at, c) = Count(s.at, c) + 1
        /\ \A e \in Cell \ {c} : Count(at, e) = Count(s.at, e)
    BY <1>1, <1>6, CountAppend
  <1> HIDE DEF at
  <1>9. \A e \in Cell : Count(at, e) \in 0..max
    <2>1. Count(s.at, c) \in 0..max /\ Count(s.at, c) # max
      BY <1>1, <1>6
    <2>2. Count(at, c) \in 0..max
      BY <1>8, <2>1
    <2>3. QED
      BY <1>1, <1>8, <2>2
  <1>10. IsFiniteSet(1..(j + 1)) /\ \A x \in 1..(j + 1) : x = j + 1 \/ x \in 1..j
    BY FS_Interval
  <1>11. 1..j \subseteq 1..(j + 1) /\ j + 1 \in 1..(j + 1) /\ j + 1 \notin 1..j
    OBVIOUS
  <1>12. CASE Count(at, c) = max
    <2> DEFINE w == WithoutCell(s.room, r)
               F == {x \in 1..(j + 1) : at[x] = c}
    <2>1. /\ w \in Seq(Cell) /\ IsInjective(w) /\ Len(w) = M - 1
          /\ ToSet(w) = ToSet(s.room) \ {c}
      BY <1>1, <1>2, <1>6, WithoutCellFacts DEF c, M
    <2> HIDE DEF w
    <2>2. room = w
      BY <1>12 DEF w
    <2>3. IsFiniteSet(F) /\ Cardinality(F) = max
      <3>1. F \in SUBSET (1..(j + 1))
        OBVIOUS
      <3>2. IsFiniteSet(F)
        BY <1>10, <3>1, FS_Subset
      <3>3. QED
        BY <1>7, <1>12, <3>2 DEF Count
    <2>4. Taken(s2) = Taken(s) \cup F /\ Taken(s) \cap F = {}
      <3>1. Taken(s2) = {x \in 1..(j + 1) : at[x] \notin ToSet(w)}
        BY <1>7, <2>2 DEF Taken
      <3>2. Taken(s) = {x \in 1..j : s.at[x] \notin ToSet(s.room)}
        BY <1>1 DEF Taken
      <3>3. ASSUME NEW x \in 1..(j + 1)
            PROVE  x \in Taken(s2) <=> x \in Taken(s) \/ x \in F
        <4>1. CASE x = j + 1
          BY <1>7, <1>11, <2>1, <3>1, <3>2, <4>1
        <4>2. CASE x \in 1..j
          BY <1>6, <1>7, <2>1, <3>1, <3>2, <4>2
        <4>3. QED
          BY <1>10, <4>1, <4>2
      <3>4. Taken(s2) \subseteq 1..(j + 1) /\ Taken(s) \cup F \subseteq 1..(j + 1)
        BY <1>11, <3>1, <3>2
      <3>5. Taken(s) \cap F = {}
        BY <1>6, <1>7, <3>2
      <3>6. QED
        BY <3>3, <3>4, <3>5
    <2> HIDE DEF F, s2
    <2>5. Cardinality(Taken(s2)) = Cardinality(Taken(s)) + max
      <3>1. Cardinality(Taken(s) \cap F) = 0
        BY <2>4, FS_EmptySet
      <3>2. Cardinality(Taken(s) \cup F)
               = Cardinality(Taken(s)) + Cardinality(F) - Cardinality(Taken(s) \cap F)
        BY <1>4, <2>3, FS_Union
      <3>3. QED
        BY <1>4, <2>3, <2>4, <3>1, <3>2
    <2>6. max * (L - (M - 1)) = max * (L - M) + max
      BY <1>2
    <2>7. max * (L - Len(room)) <= Cardinality(Taken(s2))
      <3>1. max * (L - M) \in Int
        BY <1>2
      <3>2. max * (L - Len(room)) = max * (L - M) + max
        BY <2>1, <2>2, <2>6
      <3>3. QED
        BY <1>1, <1>4, <2>5, <3>1, <3>2
    <2>8. \A e \in ToSet(room) : Count(at, e) # max
      <3>1. ToSet(s.room) \subseteq Cell
        BY <1>1, SeqElements
      <3>2. QED
        BY <1>1, <1>8, <2>1, <2>2, <3>1
    <2>9. SpreadOK(s2, max, j + 1)
      BY <1>7, <1>9, <2>1, <2>2, <2>7, <2>8 DEF SpreadOK, s2, L
    <2>10. QED
      BY <2>9 DEF SpreadStep, s2, at, c, r, M
  <1>13. CASE Count(at, c) # max
    <2>1. room = s.room
      BY <1>13
    <2>2. Taken(s2) = Taken(s)
      <3>1. Taken(s2) = {x \in 1..(j + 1) : at[x] \notin ToSet(s.room)}
        BY <1>7, <2>1 DEF Taken
      <3>2. Taken(s) = {x \in 1..j : s.at[x] \notin ToSet(s.room)}
        BY <1>1 DEF Taken
      <3>3. QED
        BY <1>6, <1>7, <1>10, <1>11, <3>1, <3>2
    <2>3. \A e \in ToSet(room) : Count(at, e) # max
      <3>1. ToSet(s.room) \subseteq Cell
        BY <1>1, SeqElements
      <3>2. QED
        BY <1>1, <1>8, <1>13, <2>1, <3>1
    <2>4. SpreadOK(s2, max, j + 1)
      BY <1>1, <1>7, <1>9, <2>1, <2>2, <2>3 DEF SpreadOK, M, L
    <2>5. QED
      BY <2>4 DEF SpreadStep, at, c, r, M
  <1>14. QED
    BY <1>12, <1>13

(* The recursive function of Spread exists. *)
SpreadRun(g, picks, max, m) ==
    g = [j \in 0..m |->
            IF j = 0 THEN [at |-> <<>>, room |-> Space]
            ELSE SpreadStep(g[j - 1], picks[j], max)]

LEMMA SpreadRuns ==
    ASSUME NEW picks, NEW max, NEW m \in Nat
    PROVE  \E g : SpreadRun(g, picks, max, m)
  <1> DEFINE T == {x \in Nat : ~ \E g : SpreadRun(g, picks, max, x)}
             base == [at |-> <<>>, room |-> Space]
  <1>1. SUFFICES ASSUME m \in T PROVE FALSE
    OBVIOUS
  <1>2. PICK x \in T : \A y \in T : x <= y
    BY <1>1, LeastNatural
  <1>3. x # 0
    <2>1. SUFFICES ASSUME x = 0 PROVE FALSE
      OBVIOUS
    <2> DEFINE g == [j \in 0..0 |-> base]
    <2>2. g = [j \in 0..0 |->
                 IF j = 0 THEN base ELSE SpreadStep(g[j - 1], picks[j], max)]
      <3>1. \A j \in 0..0 : j = 0
        OBVIOUS
      <3> HIDE DEF base
      <3>2. QED
        BY <3>1
    <2>3. SpreadRun(g, picks, max, 0)
      BY <2>2 DEF SpreadRun
    <2>4. QED
      BY <2>1, <2>3
  <1>4. x - 1 \in Nat /\ x - 1 \notin T
    BY <1>2, <1>3
  <1>5. PICK h : SpreadRun(h, picks, max, x - 1)
    BY <1>4
  <1> DEFINE g == [j \in 0..x |->
                     IF j = x THEN SpreadStep(h[x - 1], picks[x], max) ELSE h[j]]
  <1>6. ASSUME NEW j \in 0..x
        PROVE  g[j] = IF j = 0 THEN base ELSE SpreadStep(g[j - 1], picks[j], max)
    <2>1. \A l \in 0..(x - 1) :
             h[l] = IF l = 0 THEN base ELSE SpreadStep(h[l - 1], picks[l], max)
      BY <1>5 DEF SpreadRun
    <2> HIDE DEF base
    <2>2. CASE j = 0
      <3>1. 0 \in 0..(x - 1) /\ g[0] = h[0]
        BY <1>3, <1>4
      <3>2. QED
        BY <2>1, <2>2, <3>1
    <2>3. CASE j # 0
      <3>1. j - 1 \in 0..(x - 1) /\ j - 1 # x /\ j - 1 \in 0..x
        BY <1>4, <2>3
      <3>2. g[j - 1] = h[j - 1]
        BY <3>1
      <3>3. CASE j = x
        BY <2>3, <3>2, <3>3
      <3>4. CASE j # x
        <4>1. j \in 0..(x - 1) /\ g[j] = h[j]
          BY <1>4, <3>4
        <4>2. QED
          BY <2>1, <2>3, <3>2, <4>1
      <3>5. QED
        BY <3>3, <3>4
    <2>4. QED
      BY <2>2, <2>3
  <1>7. g = [j \in 0..x |-> g[j]]
    OBVIOUS
  <1> HIDE DEF g
  <1>8. SpreadRun(g, picks, max, x)
    BY <1>6, <1>7 DEF SpreadRun
  <1>9. QED
    BY <1>2, <1>8

LEMMA SpreadFacts ==
    ASSUME NEW max \in Nat \ {0}, NEW N \in Nat, N <= Len(Space) * max,
           NEW picks \in [1..N -> DOMAIN Space]
    PROVE  /\ Spread(picks, max) \in Seq(Cell) /\ Len(Spread(picks, max)) = N
           /\ \A c \in Cell : Count(Spread(picks, max), c) <= max
  <1> DEFINE g == CHOOSE g : SpreadRun(g, picks, max, N)
             T == {x \in Nat : x <= N /\ ~SpreadOK(g[x], max, x)}
  <1>1. Len(picks) = N
    OBVIOUS
  <1>2. Spread(picks, max) = g[N].at
    BY <1>1 DEF Spread, SpreadRun
  <1>3. SpreadRun(g, picks, max, N)
    BY SpreadRuns
  <1> HIDE DEF g
  <1>4. \A j \in 0..N : g[j] = IF j = 0 THEN [at |-> <<>>, room |-> Space]
                               ELSE SpreadStep(g[j - 1], picks[j], max)
    BY <1>3 DEF SpreadRun
  <1>5. SpreadOK(g[0], max, 0)
    <2>1. g[0].at = <<>> /\ g[0].room = Space
      BY <1>4
    <2>2. Len(Space) \in Nat /\ max * (Len(Space) - Len(Space)) = 0
      BY SpaceFacts
    <2>3. Taken(g[0]) = {} /\ Cardinality({}) = 0
      BY <2>1, FS_EmptySet DEF Taken
    <2>4. \A c \in Cell : Count(<<>>, c) = 0
      BY FS_EmptySet DEF Count
    <2>5. QED
      BY <2>1, <2>2, <2>3, <2>4, SpaceFacts DEF SpreadOK
  <1>6. T = {}
    <2>1. SUFFICES ASSUME T # {} PROVE FALSE
      OBVIOUS
    <2>2. PICK x \in T : \A y \in T : x <= y
      BY <2>1, LeastNatural
    <2>3. x \in Nat /\ x # 0 /\ x <= N /\ ~SpreadOK(g[x], max, x)
      BY <1>5, <2>2
    <2>4. x - 1 \in Nat /\ x - 1 \notin T /\ x - 1 <= N /\ (x - 1) + 1 = x
      BY <2>2, <2>3
    <2>5. SpreadOK(g[x - 1], max, x - 1)
      BY <2>4
    <2>6. x - 1 < Len(Space) * max /\ picks[x] \in Nat
      <3>1. Len(Space) \in Nat /\ Len(Space) * max \in Nat
        BY SpaceFacts
      <3>2. picks[x] \in DOMAIN Space /\ DOMAIN Space = 1..Len(Space)
        BY <2>3, SpaceFacts
      <3>3. QED
        BY <2>3, <3>1, <3>2
    <2>7. SpreadOK(SpreadStep(g[x - 1], picks[x], max), max, x)
      BY <2>4, <2>5, <2>6, SpreadStepOK
    <2>8. g[x] = SpreadStep(g[x - 1], picks[x], max)
      BY <1>4, <2>3
    <2>9. QED
      BY <2>3, <2>7, <2>8
  <1>7. SpreadOK(g[N], max, N)
    BY <1>6
  <1>8. QED
    BY <1>2, <1>7 DEF SpreadOK

LEMMA CreateSpreadStep ==
    ASSUME IInv, NEW max \in Capacity, CreateSpread(max)
    PROVE  IInv' /\ Fit(max)
  <1>1. PICK order \in SetToSeqs(ToSet(agents)), picks \in [Places -> DOMAIN Space] :
           CreatePlacement(order, Spread(picks, max))
    BY DEF CreateSpread
  <1> DEFINE at == Spread(picks, max)
             N == Len(agents)
  <1>2. /\ N \in Nat /\ Places = 1..N /\ N <= Len(Space) * max
        /\ agents \in Seq(Created) /\ IsInjective(agents)
    BY AgentsFacts DEF CreateSpread, Fits, Places
  <1>3. /\ order \in Seq(ToSet(agents)) /\ DOMAIN order = 1..N
        /\ IsInjective(order) /\ ToSet(order) = ToSet(agents)
    BY <1>2, OrderFacts
  <1>4. max \in Nat \ {0}
    BY SocietyAssumption
  <1>5. at \in Seq(Cell) /\ Len(at) = N /\ \A c \in Cell : Count(at, c) <= max
    BY <1>2, <1>4, SpreadFacts
  <1>6. CreatePlacement(order, at)
    BY <1>1
  <1> HIDE DEF at
  <1>7. DOMAIN at = 1..N /\ \A x \in 1..N : at[x] \in Cell
    BY <1>5
  <1>8. /\ IInv' /\ \A x \in DOMAIN order : where'[order[x]] = at[x]
        /\ \A c \in Cell : Len(inside'[c]) = Cardinality({x \in DOMAIN order : at[x] = c})
    BY <1>3, <1>6, <1>7, CreateStep
  <1>9. \A c \in Cell : Len(inside'[c]) <= max
    BY <1>3, <1>5, <1>7, <1>8 DEF Count
  <1>10. QED
    BY <1>3, <1>7, <1>8, <1>9, EverybodyIn DEF Fit

----------------------------------------------------------------------------
(* The invariant holds at first, and every operation preserves it. *)
LEMMA InitInv ==
    ASSUME Init
    PROVE  IInv
  <1>1. /\ created \in Quantity /\ autoincrement = created + 1
        /\ agents = [a \in Created |-> a]
        /\ id = [a \in Agent |-> IF a \in Created THEN a ELSE None]
        /\ alive = [a \in Agent |-> a \in Created]
        /\ where = [a \in Agent |-> Unplaced] /\ inside = [c \in Cell |-> <<>>]
        /\ placed = FALSE /\ idindex = [p \in Ids |-> None] /\ misplaced = FALSE
    BY DEF Init
  <1>2. /\ mode = "idle" /\ over = Nothing /\ old = <<>>
        /\ n = 0 /\ i = 1 /\ k = 1 /\ current = None /\ visited = <<>>
        /\ begun = {} /\ left = {} /\ drops = 0 /\ many = FALSE /\ calls = 0
    BY DEF Init
  <1>3. /\ created \in 0..MaxAgents /\ created \in 0..MaxId
        /\ MaxAgents \in Nat /\ MaxId \in Nat /\ MaxCalls \in Nat
    BY <1>1, SocietyAssumption
  <1>4. Created \subseteq Ids /\ Created \subseteq Agent
    BY <1>3 DEF Created, Ids, Agent
  <1>5. agents \in [1..created -> Created] /\ DOMAIN agents = Created
        /\ \A a \in Created : agents[a] = a
    BY <1>1 DEF Created
  <1>6. agents \in Seq(Created)
    BY <1>3, <1>5
  <1>7. SocType
    <2>1. autoincrement \in 1..(MaxId + 1)
      BY <1>1, <1>3
    <2>2. id \in [Agent -> Ids \cup {None}] /\ alive \in [Agent -> BOOLEAN]
      BY <1>1, <1>4
    <2>3. QED
      BY <1>3, <1>6, <2>1, <2>2 DEF SocType
  <1>8. Living = Created
    BY <1>1, <1>4 DEF Living
  <1>9. AgentsInv
    BY <1>5, <1>8 DEF AgentsInv, IsInjective, ToSet
  <1>10. Unplaced \in Place \ Cell
    BY SocietyAssumption DEF Place
  <1>11. SpaceType
    <2>1. <<>> \in Seq(Created)
      OBVIOUS
    <2>2. where \in [Agent -> Place] /\ inside \in [Cell -> Seq(Created)]
      BY <1>1, <1>10, <2>1
    <2>3. idindex \in [Ids -> Created \cup {None}] /\ placed \in BOOLEAN /\ misplaced \in BOOLEAN
      BY <1>1
    <2>4. QED
      BY <2>2, <2>3 DEF SpaceType
  <1>12. WhereInv
    BY <1>1, <1>4, <1>8 DEF WhereInv
  <1>13. TravType /\ ModeInv
    <2>1. TravType
      <3>1. old \in Seq(Created) /\ visited \in Seq(Created)
        BY <1>2
      <3>2. mode # "call" /\ current = None /\ mode \in {"idle", "loop", "call"}
        BY <1>2
      <3>3. n \in Nat /\ i \in 1..(n + 1) /\ k \in 1..i /\ drops \in Nat /\ calls \in 0..MaxCalls
        BY <1>2, <1>3
      <3>4. over \in {Whole, Old, Nothing} \cup Cell /\ many \in BOOLEAN
        BY <1>2
      <3>5. begun \subseteq Created /\ left \subseteq Created
        BY <1>2
      <3>6. QED
        BY <3>1, <3>2, <3>3, <3>4, <3>5 DEF TravType
    <2>2. Nothing \notin Cell
      BY SocietyAssumption
    <2>3. ModeInv
      BY <1>2, <2>2 DEF ModeInv
    <2>4. QED
      BY <2>1, <2>3
  <1>14. PlacementAgrees
    <2>1. ASSUME NEW c \in Cell
          PROVE  IsInjective(<<>>) /\ ToSet(<<>>) = {a \in Created : where[a] = c}
      BY <1>1, <1>4, <1>10 DEF IsInjective, ToSet
    <2>2. QED
      BY <1>1, <2>1 DEF PlacementAgrees
  <1>15. WalkInv
    BY <1>2 DEF WalkInv
  <1>16. QED
    BY <1>7, <1>9, <1>11, <1>12, <1>13, <1>14, <1>15, TypeParts DEF IInv

LEMMA NextInv ==
    ASSUME IInv, [Next]_vars
    PROVE  IInv'
  <1>1. CASE Add \/ Clear
    BY <1>1, AddStep, ClearStep
  <1>2. ASSUME NEW a \in Agent,
               \/ AddAgain(a) \/ RemoveAgent(a) \/ Reproduce(a)
               \/ Leave(a) \/ Die(a) \/ DieRaises(a)
        PROVE  IInv'
    BY <1>2, AddAgainStep, RemoveAgentStep, ReproduceStep, LeaveStep, DieStep, DieRaisesStep
  <1>3. ASSUME NEW a \in Agent, NEW c \in Cell \cup {Outside}, Enter(a, c) \/ Move(a, c)
        PROVE  IInv'
    BY <1>3, EnterStep, MoveStep
  <1>4. ASSUME NEW A \in (SUBSET ToSet(agents)) \ {{}}, RemoveIf(A) PROVE IInv'
    BY <1>4, RemoveIfStep
  <1>5. ASSUME NEW p \in Ids, Get(p) PROVE IInv'
    BY <1>5, GetStep
  <1>6. ASSUME NEW max \in Capacity, CreateRandom(max) \/ CreateSpread(max) PROVE IInv'
    BY <1>6, CreateRandomStep, CreateSpreadStep
  <1>7. CASE CreateUniform \/ CreateVoid
    BY <1>7, CreateUniformStep, CreateVoidStep
  <1>8. ASSUME NEW l \in {Whole} \cup Cell, ForEach(l) PROVE IInv'
    BY <1>8, ForEachStep
  <1>9. CASE Visit \/ NoAgent \/ CallReturn \/ ForEachEnds
    BY <1>9, VisitStep, NoAgentStep, CallReturnStep, ForEachEndsStep
  <1>10. CASE UNCHANGED vars
    BY <1>10, StutterStep
  <1>11. QED
    BY <1>1, <1>2, <1>3, <1>4, <1>5, <1>6, <1>7, <1>8, <1>9, <1>10 DEF Next

LEMMA Invariant == Spec => []IInv
  <1>1. Init => IInv
    BY InitInv
  <1>2. IInv /\ [Next]_vars => IInv'
    BY NextInv
  <1>3. QED
    BY <1>1, <1>2, PTL DEF Spec

----------------------------------------------------------------------------
(* What the invariant says of the Society. *)

(* The variables of the Society, of the placement and of forEachAgent have *)
(* their types: createPlacement finds a cell for every agent, and the      *)
(* counters of the loop stay in range (Utils.lua:293-300,                  *)
(* Environment.lua:88-102).                                                *)
THEOREM TypeCorrect == Spec => []TypeOK
  <1>1. IInv => TypeOK
    BY InvParts
  <1>2. QED
    BY <1>1, Invariant, PTL

(* An agent that has died is not in the Society, and in the list of no     *)
(* cell (Agent.lua:86-88).                                                 *)
THEOREM TheDeadAreGone == Spec => []DeadAreGone
  <1>1. ASSUME IInv PROVE DeadAreGone
    <2>1. /\ SocType /\ AgentsInv /\ WhereInv /\ PlacementAgrees
      BY <1>1, InvParts
    <2>2. ASSUME NEW a \in Created \ Living, Regular, NEW c \in Cell
          PROVE  a \notin ToSet(inside[c])
      <3>1. where[a] \notin Cell
        BY <2>1, SocietyAssumption DEF WhereInv
      <3>2. QED
        BY <2>1, <2>2, <3>1 DEF PlacementAgrees
    <2>3. QED
      BY <2>1, <2>2 DEF DeadAreGone, AgentsInv
  <1>2. QED
    BY <1>1, Invariant, PTL

(* Each agent is in the list of its cell, once, and in no other            *)
(* (Agent.lua:170-171), whatever enter, leave, move, die, reproduce and    *)
(* createPlacement do, and whichever of them ends in an error.             *)
THEOREM AgentsAndCellsAgree == Spec => []PlacementAgrees
  <1>1. IInv => PlacementAgrees
    BY InvParts
  <1>2. QED
    BY <1>1, Invariant, PTL

(* forEachAgent calls its function once for each agent that stays, unless  *)
(* one call took two away, and never more often than there were agents     *)
(* (Utils.lua:289-300).                                                    *)
THEOREM EveryoneThatStaysIsVisited == Spec => []VisitsStaying
  <1>1. ASSUME IInv PROVE VisitsStaying
    <2>1. TypeOK /\ TravType /\ ModeInv /\ WalkInv
      BY <1>1, InvParts
    <2>2. /\ n \in Nat /\ i \in 1..(n + 1) /\ k \in Nat /\ visited \in Seq(Created)
          /\ Len(visited) \in Nat /\ mode \in {"idle", "loop", "call"}
      BY <2>1 DEF TravType
    <2>3. Len(visited) <= n
      <3>1. CASE mode = "call"
        BY <2>1, <2>2, <3>1 DEF ModeInv
      <3>2. CASE mode # "call"
        BY <2>1, <2>2, <3>2 DEF ModeInv
      <3>3. QED
        BY <3>1, <3>2
    <2>4. ASSUME mode = "loop", ~More, ~many, Distinct, NEW a \in begun \ left
          PROVE  Count(visited, a) = 1
      <3> DEFINE T == Traversed
                 S == begun \ left
      <3>1. Orderly(T, S, k, n - i + 1, visited) /\ n - i + 1 = 0
        BY <2>1, <2>2, <2>4 DEF WalkInv, Point, Turns, More
      <3>2. T \in Seq(Created) /\ DOMAIN T = 1..Len(T) /\ Len(T) \in Nat
        BY <2>1, TraversedType, SeqElements
      <3> HIDE DEF T
      <3>3. PICK x \in 1..Len(T) : T[x] = a
        BY <3>1, <3>2 DEF Orderly, ToSet
      <3>4. PICK m \in 0..Len(T) :
               (\A y \in DOMAIN T : T[y] \in S <=> y <= m) /\ m - k < 0
        BY <3>1 DEF Orderly, Enough
      <3>5. x < k
        BY <2>2, <3>2, <3>3, <3>4
      <3>6. Once(visited, a)
        BY <3>1, <3>2, <3>3, <3>5 DEF Orderly, Behind
      <3>7. PICK j \in DOMAIN visited : visited[j] = a /\ \A l \in DOMAIN visited : visited[l] = a => l = j
        BY <3>6 DEF Once
      <3>8. {l \in DOMAIN visited : visited[l] = a} = {j}
        BY <3>7
      <3>9. QED
        BY <3>8, FS_Singleton DEF Count
    <2>5. QED
      BY <2>3, <2>4 DEF VisitsStaying
  <1>2. QED
    BY <1>1, Invariant, PTL

(* createPlacement with max gives each agent a cell and no cell more than  *)
(* max agents, and uniform fills the cells evenly (Environment.lua:54-63,  *)
(* 93-101, 111-128).                                                       *)
THEOREM PlacementsFit == Spec => PlacementFits
  <1> DEFINE Promise ==
        ~placed /\ placed' =>
            /\ \A max \in Capacity :
                  CreateRandom(max) \/ CreateSpread(max) =>
                      /\ \A a \in ToSet(agents) : where'[a] \in Cell
                      /\ \A c \in Cell : Len(inside'[c]) <= max
            /\ CreateUniform =>
                  \A c, d \in Cell : Len(inside'[c]) <= Len(inside'[d]) + 1
  <1>1. ASSUME IInv PROVE Promise
    <2>1. ASSUME NEW max \in Capacity, CreateRandom(max) \/ CreateSpread(max) PROVE Fit(max)
      BY <1>1, <2>1, CreateRandomStep, CreateSpreadStep
    <2>2. CreateUniform => Even
      BY <1>1, CreateUniformStep
    <2>3. QED
      BY <2>1, <2>2 DEF Fit, Even
  <1>2. IInv /\ [Next]_vars => [Promise]_vars
    BY <1>1
  <1>3. QED
    BY <1>2, Invariant, PTL DEF Spec, PlacementFits
=============================================================================
