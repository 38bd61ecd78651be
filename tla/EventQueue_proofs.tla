------------------------- MODULE EventQueue_proofs -------------------------
(***************************************************************************)
(* What the insertion of Timer:add does to an ordered vector of Events.    *)
(***************************************************************************)
EXTENDS EventQueue, WellFoundedInduction, TLAPS

----------------------------------------------------------------------------
(* The search loop of Timer:add stops somewhere: a nonempty set of natural *)
(* numbers has a least element.                                            *)
LEMMA LeastNatural ==
    ASSUME NEW T, T \subseteq Nat, T # {}
    PROVE  \E x \in T : \A y \in T : x <= y
  <1> DEFINE R == {ss \in Nat \X Nat : ss[1] < ss[2]}
  <1>1. IsWellFoundedOn(R, Nat)
    BY NatLessThanWellFounded DEF OpToRel
  <1> HIDE DEF R
  <1>2. \E x \in T : \A y \in T : ~(<<y, x>> \in R)
    BY <1>1, WFMin
  <1>3. \A x, y \in T : <<y, x>> \notin R => x <= y
    BY DEF R
  <1>4. QED
    BY <1>2, <1>3

LEMMA InsertPosExists ==
    ASSUME NEW S, NEW q \in Seq(S), NEW a, NEW e \in S
    PROVE  /\ InsertPos(q, a, e) \in 1 .. Len(q) + 1
           /\ StopsAt(q, a, e, InsertPos(q, a, e))
  <1> DEFINE T == {p \in 1 .. Len(q) + 1 :
                      p = Len(q) + 1 \/ ~Stays(a[q[p]], a[e])}
  <1>0. Len(q) \in Nat
    OBVIOUS
  <1>1. T \subseteq Nat /\ Len(q) + 1 \in T
    BY <1>0
  <1>2. PICK p \in T : \A r \in T : p <= r
    BY <1>1, LeastNatural
  <1>3. p \in 1 .. Len(q) + 1 /\ \A i \in 1 .. p - 1 : i \notin T
    BY <1>1, <1>2
  <1>4. StopsAt(q, a, e, p)
    BY <1>0, <1>2, <1>3 DEF StopsAt
  <1>5. QED
    BY <1>3, <1>4 DEF InsertPos

(* What the insertion of Timer:add does to the queue.                      *)
LEMMA InsertFacts ==
    ASSUME NEW S, NEW q \in Seq(S), NEW a, NEW e \in S
    PROVE  /\ Insert(q, a, e) \in Seq(S)
           /\ Len(Insert(q, a, e)) = Len(q) + 1
           /\ Elems(Insert(q, a, e)) = Elems(q) \cup {e}
  <1> DEFINE p == InsertPos(q, a, e)
             r == Insert(q, a, e)
  <1>0. Len(q) \in Nat /\ DOMAIN q = 1 .. Len(q) /\ \A i \in 1 .. Len(q) : q[i] \in S
    OBVIOUS
  <1>1. p \in 1 .. Len(q) + 1
    BY InsertPosExists
  <1>2. r = [i \in 1 .. Len(q) + 1 |->
                IF i < p THEN q[i] ELSE IF i = p THEN e ELSE q[i - 1]]
    BY DEF Insert, InsertAtPos
  <1> HIDE DEF p, r
  <1>3. r \in [1 .. Len(q) + 1 -> S]
    BY <1>0, <1>1, <1>2
  <1>4. r \in Seq(S) /\ Len(r) = Len(q) + 1 /\ DOMAIN r = 1 .. Len(q) + 1
    BY <1>0, <1>3
  <1>5. Elems(r) \subseteq Elems(q) \cup {e}
    <2>1. SUFFICES ASSUME NEW i \in 1 .. Len(q) + 1, r[i] # e
                   PROVE  \E k \in DOMAIN q : r[i] = q[k]
      BY <1>4 DEF Elems
    <2>2. CASE i < p
      BY <1>0, <1>1, <1>2, <2>2
    <2>3. CASE i > p
      <3>1. i - 1 \in DOMAIN q /\ r[i] = q[i - 1]
        BY <1>0, <1>1, <1>2, <2>3
      <3>2. QED
        BY <3>1
    <2>4. QED
      BY <1>0, <1>1, <1>2, <2>1, <2>2, <2>3
  <1>6. e \in Elems(r)
    <2>1. r[p] = e
      BY <1>0, <1>1, <1>2
    <2>2. QED
      BY <1>1, <1>4, <2>1 DEF Elems
  <1>7. Elems(q) \subseteq Elems(r)
    <2>1. SUFFICES ASSUME NEW k \in 1 .. Len(q)
                   PROVE  \E i \in DOMAIN r : r[i] = q[k]
      BY <1>0 DEF Elems
    <2>2. CASE k < p
      <3>1. k \in DOMAIN r /\ r[k] = q[k]
        BY <1>0, <1>1, <1>2, <2>2
      <3>2. QED
        BY <3>1
    <2>3. CASE ~(k < p)
      <3>1. k + 1 \in DOMAIN r /\ r[k + 1] = q[k]
        BY <1>0, <1>1, <1>2, <2>3
      <3>2. QED
        BY <3>1
    <2>4. QED
      BY <2>2, <2>3
  <1>8. QED
    BY <1>4, <1>5, <1>6, <1>7 DEF r

(* Where the elements of the new queue come from: two positions of it that *)
(* do not hold e hold two elements of q in the same order.                 *)
LEMMA InsertPlaces ==
    ASSUME NEW S, NEW q \in Seq(S), NEW a, NEW e \in S,
           NEW i \in DOMAIN Insert(q, a, e), NEW j \in DOMAIN Insert(q, a, e), i < j
    PROVE  LET r == Insert(q, a, e)
               p == InsertPos(q, a, e) IN
           \/ /\ i = p /\ r[i] = e
              /\ \E k \in p .. Len(q) : r[j] = q[k]
           \/ /\ j = p /\ r[j] = e
              /\ \E k \in 1 .. p - 1 : r[i] = q[k]
           \/ \E k, l \in DOMAIN q : k < l /\ r[i] = q[k] /\ r[j] = q[l]
  <1> DEFINE p == InsertPos(q, a, e)
             r == Insert(q, a, e)
  <1>0. Len(q) \in Nat /\ DOMAIN q = 1 .. Len(q)
    OBVIOUS
  <1>1. p \in 1 .. Len(q) + 1
    BY InsertPosExists
  <1>2. r = [k \in 1 .. Len(q) + 1 |->
                IF k < p THEN q[k] ELSE IF k = p THEN e ELSE q[k - 1]]
    BY DEF Insert, InsertAtPos
  <1>3. i \in 1 .. Len(q) + 1 /\ j \in 1 .. Len(q) + 1
    BY <1>2
  <1> HIDE DEF p, r
  <1>4. CASE i = p
    <2>1. j - 1 \in p .. Len(q) /\ r[j] = q[j - 1] /\ r[i] = e
      BY <1>0, <1>1, <1>2, <1>3, <1>4
    <2>2. QED
      BY <1>4, <2>1 DEF p, r
  <1>5. CASE j = p
    <2>1. i \in 1 .. p - 1 /\ r[i] = q[i] /\ r[j] = e
      BY <1>0, <1>1, <1>2, <1>3, <1>5
    <2>2. QED
      BY <1>5, <2>1 DEF p, r
  <1>6. CASE i # p /\ j # p
    <2> DEFINE k == IF i < p THEN i ELSE i - 1
               l == IF j < p THEN j ELSE j - 1
    <2>1. k \in DOMAIN q /\ l \in DOMAIN q /\ k < l
      BY <1>0, <1>1, <1>3, <1>6
    <2>2. r[i] = q[k] /\ r[j] = q[l]
      BY <1>0, <1>1, <1>2, <1>3, <1>6
    <2>3. QED
      BY <2>1, <2>2 DEF r
  <1>7. QED
    BY <1>4, <1>5, <1>6

(* An event is inserted at one place. *)
Distinct(q) == \A i, j \in DOMAIN q : q[i] = q[j] => i = j

LEMMA InsertDistinct ==
    ASSUME NEW S, NEW q \in Seq(S), NEW a, NEW e \in S,
           Distinct(q), e \notin Elems(q)
    PROVE  Distinct(Insert(q, a, e))
  <1> DEFINE r == Insert(q, a, e)
             p == InsertPos(q, a, e)
  <1>1. DOMAIN r \subseteq Int /\ DOMAIN q = 1 .. Len(q) /\ Len(q) \in Nat
    BY InsertFacts
  <1>2. p \in 1 .. Len(q) + 1
    BY InsertPosExists
  <1>3. ASSUME NEW i \in DOMAIN r, NEW j \in DOMAIN r, i < j
        PROVE  r[i] # r[j]
    <2>1. \/ r[i] = e /\ \E k \in p .. Len(q) : r[j] = q[k]
          \/ r[j] = e /\ \E k \in 1 .. p - 1 : r[i] = q[k]
          \/ \E k, l \in DOMAIN q : k < l /\ r[i] = q[k] /\ r[j] = q[l]
      BY <1>3, InsertPlaces
    <2>2. QED
      BY <1>1, <1>2, <2>1 DEF Distinct, Elems
  <1>4. QED
    BY <1>1, <1>3 DEF Distinct

(* The insertion keeps the order: it puts e behind all that stay in front  *)
(* of it, and the order is total.                                          *)
LEMMA InsertSorted ==
    ASSUME NEW S, NEW q \in Seq(S), NEW a \in [S -> Attr], NEW e \in S,
           Sorted(q, a)
    PROVE  Sorted(Insert(q, a, e), a)
  <1> DEFINE r == Insert(q, a, e)
             p == InsertPos(q, a, e)
  <1>1. /\ Len(q) \in Nat /\ DOMAIN q = 1 .. Len(q)
        /\ \A k \in 1 .. Len(q) : q[k] \in S
    OBVIOUS
  <1>2. p \in 1 .. Len(q) + 1 /\ StopsAt(q, a, e, p)
    BY InsertPosExists
  <1>3. SUFFICES ASSUME NEW i \in DOMAIN r, NEW j \in DOMAIN r, i < j
                 PROVE  GoesFirst(a[r[i]], a[r[j]])
    BY DEF Sorted
  <1>4. \/ r[i] = e /\ \E k \in p .. Len(q) : r[j] = q[k]
        \/ r[j] = e /\ \E k \in 1 .. p - 1 : r[i] = q[k]
        \/ \E k, l \in DOMAIN q : k < l /\ r[i] = q[k] /\ r[j] = q[l]
    BY <1>3, InsertPlaces
  <1>5. CASE r[i] = e /\ \E k \in p .. Len(q) : r[j] = q[k]
    <2>1. PICK k \in p .. Len(q) : r[j] = q[k]
      BY <1>5
    <2>2. p \in 1 .. Len(q) /\ ~Stays(a[q[p]], a[e])
      BY <1>1, <1>2, <2>1 DEF StopsAt
    <2>3. k = p \/ GoesFirst(a[q[p]], a[q[k]])
      BY <1>1, <2>1, <2>2 DEF Sorted
    <2>4. a[q[p]] \in Attr /\ a[q[k]] \in Attr /\ a[e] \in Attr
      BY <1>1, <2>1, <2>2
    <2>5. GoesFirst(a[e], a[q[k]])
      BY <2>2, <2>3, <2>4 DEF GoesFirst, Stays, Attr
    <2>6. QED
      BY <1>5, <2>1, <2>5
  <1>6. CASE r[j] = e /\ \E k \in 1 .. p - 1 : r[i] = q[k]
    BY <1>2, <1>6 DEF StopsAt, Stays, GoesFirst
  <1>7. CASE \E k, l \in DOMAIN q : k < l /\ r[i] = q[k] /\ r[j] = q[l]
    BY <1>7 DEF Sorted
  <1>8. QED
    BY <1>4, <1>5, <1>6, <1>7

(* Events that go neither first nor last stand in the order E. *)
Fifo(q, a, E) ==
    \A i, j \in DOMAIN q :
        i < j /\ GoesFirst(a[q[j]], a[q[i]]) => <<q[i], q[j]>> \in E

(* The attributes of an event that is not in the queue do not matter to    *)
(* its order.                                                              *)
LEMMA OrderKept ==
    ASSUME NEW q, NEW a, NEW b, NEW E,
           \A d \in Elems(q) : a[d] = b[d]
    PROVE  /\ Sorted(q, a) => Sorted(q, b)
           /\ Fifo(q, a, E) => Fifo(q, b, E)
  <1>1. \A i \in DOMAIN q : a[q[i]] = b[q[i]]
    BY DEF Elems
  <1>2. QED
    BY <1>1 DEF Sorted, Fifo

(* An event that is inserted comes after all that wait. *)
Behind(q, e) == {<<d, e>> : d \in Elems(q)}

LEMMA InsertFifo ==
    ASSUME NEW S, NEW q \in Seq(S), NEW a \in [S -> Attr], NEW e \in S, NEW E,
           Sorted(q, a), Fifo(q, a, E)
    PROVE  Fifo(Insert(q, a, e), a, E \cup Behind(q, e))
  <1> DEFINE r == Insert(q, a, e)
             p == InsertPos(q, a, e)
             F == E \cup Behind(q, e)
  <1>1. /\ Len(q) \in Nat /\ DOMAIN q = 1 .. Len(q)
        /\ \A k \in 1 .. Len(q) : q[k] \in S
    OBVIOUS
  <1>2. p \in 1 .. Len(q) + 1 /\ StopsAt(q, a, e, p)
    BY InsertPosExists
  <1>3. SUFFICES ASSUME NEW i \in DOMAIN r, NEW j \in DOMAIN r, i < j,
                        GoesFirst(a[r[j]], a[r[i]])
                 PROVE  <<r[i], r[j]>> \in F
    BY DEF Fifo
  <1>4. \/ r[i] = e /\ \E k \in p .. Len(q) : r[j] = q[k]
        \/ r[j] = e /\ \E k \in 1 .. p - 1 : r[i] = q[k]
        \/ \E k, l \in DOMAIN q : k < l /\ r[i] = q[k] /\ r[j] = q[l]
    BY <1>3, InsertPlaces
  <1>5. CASE r[i] = e /\ \E k \in p .. Len(q) : r[j] = q[k]
    <2>1. PICK k \in p .. Len(q) : r[j] = q[k]
      BY <1>5
    <2>2. p \in 1 .. Len(q) /\ ~Stays(a[q[p]], a[e])
      BY <1>1, <1>2, <2>1 DEF StopsAt
    <2>3. k = p \/ GoesFirst(a[q[p]], a[q[k]])
      BY <1>1, <2>1, <2>2 DEF Sorted
    <2>4. a[q[p]] \in Attr /\ a[q[k]] \in Attr /\ a[e] \in Attr
      BY <1>1, <2>1, <2>2
    <2>5. ~GoesFirst(a[q[k]], a[e])
      BY <2>2, <2>3, <2>4 DEF GoesFirst, Stays, Attr
    <2>6. QED
      BY <1>3, <1>5, <2>1, <2>5
  <1>6. CASE r[j] = e /\ \E k \in 1 .. p - 1 : r[i] = q[k]
    <2>1. r[i] \in Elems(q)
      BY <1>1, <1>2, <1>6 DEF Elems
    <2>2. QED
      BY <1>6, <2>1 DEF Behind
  <1>7. CASE \E k, l \in DOMAIN q : k < l /\ r[i] = q[k] /\ r[j] = q[l]
    BY <1>3, <1>7 DEF Fifo
  <1>8. QED
    BY <1>4, <1>5, <1>6, <1>7

(* Nor does it matter that it comes after events that it does not tie with.*)
LEMMA InsertTies ==
    ASSUME NEW S, NEW q \in Seq(S), NEW a \in [S -> Attr], NEW e \in S, NEW E,
           Sorted(q, a), Fifo(q, a, E)
    PROVE  Fifo(Insert(q, a, e), a, E \cup Ties(q, a, e))
  <1> DEFINE r == Insert(q, a, e)
  <1>1. Fifo(r, a, E \cup Behind(q, e)) /\ Sorted(r, a)
    BY InsertFifo, InsertSorted
  <1> HIDE DEF r
  <1>2. ASSUME NEW i \in DOMAIN r, NEW j \in DOMAIN r, i < j, GoesFirst(a[r[j]], a[r[i]])
        PROVE  <<r[i], r[j]>> \in E \cup Ties(q, a, e)
    <2>1. Equals(a[r[i]], a[r[j]])
      BY <1>1, <1>2 DEF Sorted, Equals
    <2>2. CASE <<r[i], r[j]>> \in Behind(q, e)
      <3>1. r[j] = e /\ r[i] \in Elems(q)
        BY <2>2 DEF Behind
      <3>2. QED
        BY <2>1, <3>1 DEF Ties
    <2>3. QED
      BY <1>1, <1>2, <2>2 DEF Fifo
  <1>3. QED
    BY <1>2 DEF Fifo, r

(* The first event leaves an ordered queue. *)
LEMMA TailOfQueue ==
    ASSUME NEW S, NEW q \in Seq(S), q # <<>>
    PROVE  /\ Head(q) \in S /\ Head(q) = q[1] /\ Tail(q) \in Seq(S)
           /\ DOMAIN Tail(q) = 1 .. Len(q) - 1 /\ Len(q) \in Nat /\ Len(q) >= 1
           /\ \A i \in 1 .. Len(q) - 1 : Tail(q)[i] = q[i + 1]
           /\ Elems(q) = {Head(q)} \cup Elems(Tail(q))
           /\ Distinct(q) => Distinct(Tail(q)) /\ Head(q) \notin Elems(Tail(q))
  <1>1. /\ Len(q) \in Nat /\ Len(q) >= 1 /\ DOMAIN q = 1 .. Len(q)
        /\ \A k \in 1 .. Len(q) : q[k] \in S
    OBVIOUS
  <1>2. /\ Head(q) \in S /\ Head(q) = q[1] /\ Tail(q) \in Seq(S)
        /\ Len(Tail(q)) = Len(q) - 1
        /\ \A i \in 1 .. Len(q) - 1 : Tail(q)[i] = q[i + 1]
    BY <1>1
  <1>3. DOMAIN Tail(q) = 1 .. Len(q) - 1
    BY <1>2
  <1>4. Elems(q) = {Head(q)} \cup Elems(Tail(q))
    <2>1. \A k \in 1 .. Len(q) : k = 1 \/ (k - 1 \in 1 .. Len(q) - 1 /\ q[k] = Tail(q)[k - 1])
      BY <1>1, <1>2
    <2>2. Elems(q) \subseteq {Head(q)} \cup Elems(Tail(q))
      <3>1. SUFFICES ASSUME NEW k \in 1 .. Len(q), k # 1
                     PROVE  \E i \in DOMAIN Tail(q) : q[k] = Tail(q)[i]
        BY <1>1, <1>2 DEF Elems
      <3>2. k - 1 \in DOMAIN Tail(q) /\ q[k] = Tail(q)[k - 1]
        BY <1>3, <2>1, <3>1
      <3>3. QED
        BY <3>2
    <2>3. \A i \in 1 .. Len(q) - 1 : i + 1 \in 1 .. Len(q)
      BY <1>1
    <2>4. {Head(q)} \cup Elems(Tail(q)) \subseteq Elems(q)
      BY <1>1, <1>2, <1>3, <2>3 DEF Elems
    <2>5. QED
      BY <2>2, <2>4
  <1>5. ASSUME Distinct(q)
        PROVE  Distinct(Tail(q)) /\ Head(q) \notin Elems(Tail(q))
    BY <1>1, <1>2, <1>3, <1>5 DEF Distinct, Elems
  <1>6. QED
    BY <1>1, <1>2, <1>3, <1>4, <1>5
============================================================================
