-------------------------- MODULE Observers_proofs --------------------------
(***************************************************************************)
(* What the observers promise.                                             *)
(*                                                                         *)
(* UdpObserver, for texts and datagrams of any size and any behaviour of   *)
(* the network: bytes keep their places, and an array made from all the    *)
(* pieces of one state is its text.                                        *)
(*                                                                         *)
(* CellMap, for any number of cells and slices, any precision and any      *)
(* integers: a legend counts each value once, colours keep their places,   *)
(* and the picture shows what the cells had when they were drawn.          *)
(***************************************************************************)
EXTENDS UdpObserver, CellMap, SequenceTheorems, FiniteSetTheorems,
        WellFoundedInduction, TLAPS

----------------------------------------------------------------------------
(*                               UdpObserver                               *)

(* A piece has some bytes, at the places that they have in its text. *)
PieceInPlace(d) ==
    /\ d.pos \in Nat /\ Len(d.data) > 0
    /\ \A i \in 1..Len(d.data) : /\ d.pos + i <= Size[d.state]
                                 /\ d.data[i] = <<d.state, d.pos + i>>

Covers(d, i) == d.pos < i /\ i <= d.pos + Len(d.data)

(* The sender has sent what lies before pos, with compression.  Between    *)
(* draws the size is large enough, or the sender has given up.             *)
SenderInv ==
    /\ ~failureToSend => datagramSize >= MinimumSize
    /\ sending => state \in State /\ bytesRead = Size[state] - pos
    /\ compressDatagram =>
          /\ sending => \A i \in 1..Size[state] : i <= pos =>
                            \E d \in PiecesSent(state) : Covers(d, i)
          /\ \A s \in intact : \A i \in 1..Size[s] :
                            \E d \in PiecesSent(s) : Covers(d, i)

(* As long as the pieces of one state are treated, each is in the array. *)
Holds(a, d) == \A i \in 1..Size[d.state] :
                   Covers(d, i) => i <= Len(a) /\ a[i] = <<d.state, i>>
ReceiverInv ==
    \A s \in State : (\A d \in treated : d.state = s) =>
        /\ Len(completeData) <= Size[s]
        /\ \A d \in treated : Holds(completeData, d)

NetworkInv == \A d \in network : d.pos # Mark => PieceInPlace(d)
TreatedInv == \A d \in treated : PieceInPlace(d)

IInv == TypeOK /\ SenderInv /\ NetworkInv /\ TreatedInv /\ ReceiverInv

----------------------------------------------------------------------------
(* A function on 1..n is a sequence. *)
LEMMA FunIsSeq ==
    ASSUME NEW S, NEW n \in Nat, NEW f \in [1..n -> S]
    PROVE  f \in Seq(S) /\ Len(f) = n
<1>1. f \in Seq(S)
  BY SeqDef
<1>2. Len(f) \in Nat /\ DOMAIN f = 1..Len(f)
  BY <1>1, LenProperties
<1>3. DOMAIN f = 1..n
  OBVIOUS
<1> QED  BY <1>1, <1>2, <1>3

(* The pieces that sendDatagram cuts are in place. *)
LEMMA MidInPlace ==
    ASSUME NEW s \in State, NEW p \in Nat, NEW n \in Nat
    PROVE  LET x == Mid(Text(s), p, n) IN
           /\ x \in Seq(Byte)
           /\ Len(x) = IF p <= Size[s] THEN SmallerOf(p + n, Size[s]) - p ELSE 0
           /\ \A i \in 1..Len(x) : p + i <= Size[s] /\ x[i] = <<s, p + i>>
<1> DEFINE t == Text(s)
           e == SmallerOf(p + n, Size[s])
           x == SubSeq(t, p + 1, e)
<1>1. Size[s] \in Nat \ {0}
  BY UdpAssumption DEF State
<1>2. t \in [1..Size[s] -> Byte] /\ \A i \in 1..Size[s] : t[i] = <<s, i>>
  <2>1. \A i \in 1..Size[s] : <<s, i>> \in Byte
    BY <1>1 DEF Byte
  <2>2. t = [i \in 1..Size[s] |-> <<s, i>>]
    BY DEF Text
  <2> QED  BY <2>1, <2>2
<1>3. t \in Seq(Byte) /\ Len(t) = Size[s]
  BY <1>1, <1>2, FunIsSeq
<1>4. e \in Nat /\ e <= Size[s] /\ e <= p + n /\ (e = p + n \/ e = Size[s])
  BY <1>1 DEF SmallerOf
<1>5. x = Mid(t, p, n)
  BY <1>3 DEF Mid
<1> HIDE DEF t
<1>6. /\ x \in Seq(Byte)
      /\ Len(x) = IF p + 1 <= e THEN e - p ELSE 0
      /\ \A i \in 1..Len(x) : x[i] = t[p + i]
  <2>1. p + 1 \in 1..(Len(t) + 1) \/ p + 1 > Len(t)
    BY <1>3
  <2> HIDE DEF e
  <2> QED  BY <1>3, <1>4, <2>1, SMTT(30)
<1> HIDE DEF x
<1>7. Len(x) = IF p <= Size[s] THEN e - p ELSE 0
  BY <1>1, <1>4, <1>6
<1> HIDE DEF e
<1>8. ASSUME NEW i \in 1..Len(x) PROVE p + i <= Size[s] /\ x[i] = <<s, p + i>>
  <2>1. p + i \in 1..Size[s]
    BY <1>1, <1>4, <1>6
  <2> QED  BY <1>2, <1>6, <2>1
<1> QED  BY <1>5, <1>6, <1>7, <1>8 DEF t, e

(* What QByteArray::replace does, place by place. *)
LEMMA ReplaceByPlace ==
    ASSUME NEW a \in Seq(Byte), NEW p \in Nat, NEW x \in Seq(Byte)
    PROVE  LET r == Replace(a, p, x) IN
           /\ r \in Seq(Byte)
           /\ Len(r) = IF p + Len(x) > Len(a) THEN p + Len(x) ELSE Len(a)
           /\ \A i \in 1..Len(r) :
                 r[i] = IF i <= p THEN (IF i <= Len(a) THEN a[i] ELSE Blank)
                        ELSE IF i <= p + Len(x) THEN x[i - p] ELSE a[i]
<1> DEFINE c == Cut(a, p)
           g == [i \in 1..(p - Len(c)) |-> Blank]
           f == c \o g
           t == Rest(a, p, x)
           h == f \o x
           r == h \o t
<1>0. Len(a) \in Nat /\ Len(x) \in Nat
  BY LenProperties
<1>1. /\ c \in Seq(Byte) /\ Len(c) = (IF p < Len(a) THEN p ELSE Len(a))
      /\ \A i \in 1..Len(c) : c[i] = a[i]
  BY DEF Cut, SmallerOf
<1>2. /\ g \in Seq(Byte) /\ Len(g) = p - Len(c)
      /\ \A i \in 1..Len(g) : g[i] = Blank
  <2>1. p - Len(c) \in Nat
    BY <1>0, <1>1
  <2>2. Blank \in Byte
    BY DEF Byte
  <2>3. g \in [1..(p - Len(c)) -> Byte] /\ \A i \in 1..(p - Len(c)) : g[i] = Blank
    BY <2>2
  <2> HIDE DEF c, g
  <2> QED  BY <2>1, <2>3, FunIsSeq
<1>3. r = Replace(a, p, x)
  BY DEF Replace, Filled
<1> HIDE DEF c, g
<1>4. /\ f \in Seq(Byte) /\ Len(f) = p
      /\ \A i \in 1..p : f[i] = IF i <= Len(a) THEN a[i] ELSE Blank
  <2>1. /\ f \in Seq(Byte) /\ Len(f) = Len(c) + Len(g)
        /\ \A i \in 1..Len(c) + Len(g) : f[i] = IF i <= Len(c) THEN c[i] ELSE g[i - Len(c)]
    BY <1>1, <1>2, ConcatProperties
  <2> HIDE DEF f
  <2>2. Len(f) = p
    BY <1>0, <1>1, <1>2, <2>1
  <2>3. ASSUME NEW i \in 1..p PROVE f[i] = IF i <= Len(a) THEN a[i] ELSE Blank
    <3>1. CASE i <= Len(c)
      BY <3>1, <1>0, <1>1, <1>2, <2>1
    <3>2. CASE i > Len(c)
      <4>1. i - Len(c) \in 1..Len(g) /\ i > Len(a)
        BY <3>2, <1>0, <1>1, <1>2
      <4> QED  BY <3>2, <4>1, <1>0, <1>1, <1>2, <2>1
    <3> QED  BY <3>1, <3>2, <1>0, <1>1
  <2> QED  BY <2>1, <2>2, <2>3
<1>5. /\ t \in Seq(Byte)
      /\ Len(t) = (IF p + Len(x) < Len(a) THEN Len(a) - (p + Len(x)) ELSE 0)
      /\ \A i \in 1..Len(t) : t[i] = a[p + Len(x) + i]
  BY <1>0 DEF Rest
<1> HIDE DEF f, t
<1>6. /\ h \in Seq(Byte) /\ Len(h) = p + Len(x)
      /\ \A i \in 1..p + Len(x) : h[i] = IF i <= p THEN f[i] ELSE x[i - p]
  BY <1>4, ConcatProperties
<1> HIDE DEF h
<1>7. /\ r \in Seq(Byte) /\ Len(r) = Len(h) + Len(t)
      /\ \A i \in 1..Len(h) + Len(t) : r[i] = IF i <= Len(h) THEN h[i] ELSE t[i - Len(h)]
  BY <1>5, <1>6, ConcatProperties
<1> HIDE DEF r
<1>8. PICK m \in Nat, k \in Nat, q \in Nat : m = Len(a) /\ k = p + Len(x) /\ q = Len(t)
  <2>1. Len(a) \in Nat /\ p + Len(x) \in Nat /\ Len(t) \in Nat
    BY <1>0, <1>5, LenProperties
  <2> QED  BY <2>1
<1>9. q = (IF k < m THEN m - k ELSE 0) /\ Len(r) = k + q
  BY <1>0, <1>5, <1>6, <1>7, <1>8
<1>10. Len(r) = IF p + Len(x) > Len(a) THEN p + Len(x) ELSE Len(a)
  <2>1. Len(r) = IF k > m THEN k ELSE m
    BY <1>9
  <2> QED  BY <2>1, <1>8
<1>11. ASSUME NEW i \in 1..Len(r)
       PROVE  r[i] = IF i <= p THEN (IF i <= Len(a) THEN a[i] ELSE Blank)
                     ELSE IF i <= p + Len(x) THEN x[i - p] ELSE a[i]
  <2>1. i \in 1..(k + q) /\ i \in 1..(Len(h) + Len(t))
    BY <1>7, <1>9
  <2>2. CASE i <= k
    <3>1. r[i] = h[i]
      BY <2>1, <2>2, <1>6, <1>7, <1>8
    <3>2. i \in 1..(p + Len(x))
      BY <2>1, <2>2, <1>8
    <3>3. h[i] = IF i <= p THEN f[i] ELSE x[i - p]
      BY <3>2, <1>6
    <3>4. i <= p => f[i] = IF i <= Len(a) THEN a[i] ELSE Blank
      BY <2>1, <1>4
    <3> QED  BY <2>2, <3>1, <3>3, <3>4, <1>8
  <2>3. CASE i > k
    <3>1. i - k \in 1..q /\ k + (i - k) = i
      BY <2>1, <2>3
    <3>2. r[i] = t[i - k]
      BY <2>1, <2>3, <1>6, <1>7, <1>8
    <3>3. t[i - k] = a[k + (i - k)]
      BY <3>1, <1>5, <1>8
    <3>4. ~(i <= p) /\ ~(i <= p + Len(x))
      BY <2>1, <2>3, <1>0, <1>8
    <3> QED  BY <3>1, <3>2, <3>3, <3>4
  <2> QED  BY <2>1, <2>2, <2>3
<1> QED  BY <1>3, <1>7, <1>10, <1>11

----------------------------------------------------------------------------
LEMMA InitIInv == Init => IInv
<1> SUFFICES ASSUME Init PROVE IInv
  OBVIOUS
<1>1. <<>> \in Seq(Byte) /\ Len(<<>>) = 0 /\ DOMAIN <<>> = {}
  BY EmptySeq, LenProperties
<1>2. TypeOK
  <2>1. /\ datagramSize \in Nat /\ datagramSize >= MinimumSize
        /\ Len(Size) \in Nat
    BY UdpAssumption, LenProperties DEF Init
  <2>2. InPlace(<<>>)
    BY <1>1 DEF InPlace
  <2>3. state \in 0..Len(Size) /\ pos \in Nat /\ bytesRead \in Int
    BY <2>1 DEF Init
  <2>4. compressDatagram \in BOOLEAN /\ failureToSend \in BOOLEAN /\ sending \in BOOLEAN
    BY DEF Init
  <2> QED  BY <1>1, <2>1, <2>2, <2>3, <2>4 DEF Init, TypeOK
<1>3. SenderInv
  BY UdpAssumption DEF Init, SenderInv
<1>4. ReceiverInv
  <2>1. \A s \in State : Size[s] \in Nat
    BY UdpAssumption DEF State
  <2> QED  BY <1>1, <2>1 DEF Init, ReceiverInv
<1> QED  BY <1>2, <1>3, <1>4 DEF Init, IInv, NetworkInv, TreatedInv

(* What the loop of sendDatagram sends is a piece in place, and as long as *)
(* the datagram has room and the text has bytes.                           *)
LEMMA ThisPieceFits ==
    ASSUME TypeOK, SenderInv, sending, bytesRead > 0
    PROVE  /\ state \in State /\ ThisPiece \in Datagram /\ ThisPiece.state = state
           /\ ThisPiece.pos = pos /\ pos # Mark /\ PieceInPlace(ThisPiece)
           /\ Len(ThisPiece.data) = SmallerOf(pos + datagramSize, Size[state]) - pos
           /\ Written \in Nat
<1>1. /\ state \in State /\ pos \in Nat /\ datagramSize \in Nat /\ datagramSize > 0
      /\ Size[state] \in Nat /\ pos < Size[state] /\ Header \in Nat
  BY UdpAssumption DEF TypeOK, SenderInv, State
<1> DEFINE x == Mid(Text(state), pos, datagramSize)
<1>2. /\ x \in Seq(Byte)
      /\ Len(x) = SmallerOf(pos + datagramSize, Size[state]) - pos
      /\ \A i \in 1..Len(x) : pos + i <= Size[state] /\ x[i] = <<state, pos + i>>
  <2>1. /\ x \in Seq(Byte)
        /\ Len(x) = IF pos <= Size[state] THEN SmallerOf(pos + datagramSize, Size[state]) - pos ELSE 0
        /\ \A i \in 1..Len(x) : pos + i <= Size[state] /\ x[i] = <<state, pos + i>>
    BY <1>1, MidInPlace
  <2> HIDE DEF x
  <2> QED  BY <1>1, <2>1
<1>3. ThisPiece = [state |-> state, pos |-> pos, data |-> x]
  BY DEF ThisPiece, Piece
<1>4. Len(x) \in Nat /\ Len(x) > 0
  BY <1>1, <1>2 DEF SmallerOf
<1>5. Written \in Nat
  BY <1>1, <1>4 DEF Written
<1> HIDE DEF x
<1> QED  BY <1>1, <1>2, <1>3, <1>4, <1>5 DEF Datagram, PieceInPlace, Mark

LEMMA SendsIInv == IInv /\ Sends => IInv'
<1> SUFFICES ASSUME IInv, Sends PROVE IInv'
  OBVIOUS
<1> USE DEF IInv
<1>1. /\ Size \in Seq(Nat \ {0}) /\ State = 1..Len(Size) /\ Len(Size) \in Nat
      /\ \A s \in State : Size[s] \in Nat /\ Size[s] > 0
      /\ MinimumSize \in Nat /\ MinimumSize > 0
  BY UdpAssumption, LenProperties DEF State
<1>2. CASE Draw
  <2>1. TypeOK'
    BY <1>1, <1>2 DEF Draw, receiver, TypeOK, SenderInv
  <2>2. SenderInv'
    <3>1. state' \in State /\ bytesRead' = Size[state'] - pos' /\ pos' = 0
      BY <1>1, <1>2 DEF Draw, TypeOK
    <3> QED  BY <1>1, <1>2, <3>1 DEF Draw, SenderInv, PiecesSent
  <2>3. ReceiverInv' /\ NetworkInv' /\ TreatedInv'
    BY <1>2 DEF Draw, receiver, ReceiverInv, Holds, NetworkInv, TreatedInv
  <2> QED  BY <2>1, <2>2, <2>3
<1>3. CASE SendPiece
  <2>0. sending /\ bytesRead > 0 /\ sent' = sent \cup {ThisPiece}
    BY <1>3 DEF SendPiece
  <2>1. /\ state \in State /\ ThisPiece \in Datagram /\ ThisPiece.state = state
        /\ ThisPiece.pos = pos /\ pos # Mark /\ PieceInPlace(ThisPiece)
        /\ Len(ThisPiece.data) = SmallerOf(pos + datagramSize, Size[state]) - pos
        /\ Written \in Nat
    BY <2>0, ThisPieceFits
  <2>2. TypeOK'
    BY <1>3, <2>1 DEF SendPiece, receiver, TypeOK
  <2>3. SenderInv'
    <3>1. \A s : PiecesSent(s) \subseteq PiecesSent(s)'
      BY <2>0 DEF PiecesSent
    <3>2. bytesRead' = Size[state'] - pos'
      <4>1. bytesRead = Size[state] - pos /\ Size[state] \in Nat /\ pos \in Nat
        BY <1>1, <2>0, <2>1 DEF SenderInv, TypeOK
      <4>2. pos' = pos + Written /\ bytesRead' = bytesRead - Written /\ state' = state
        BY <1>3 DEF SendPiece
      <4> QED  BY <2>1, <4>1, <4>2
    <3>3. ASSUME compressDatagram, NEW i \in 1..Size[state], i <= pos'
          PROVE  \E d \in PiecesSent(state)' : Covers(d, i)
      <4>1. CASE i <= pos
        BY <3>1, <3>3, <4>1, <1>3 DEF SendPiece, SenderInv
      <4>2. CASE i > pos
        <5>1. Covers(ThisPiece, i)
          BY <1>1, <1>3, <2>1, <3>3, <4>2 DEF SendPiece, Covers, Written, SmallerOf, TypeOK
        <5>2. ThisPiece \in PiecesSent(state)'
          BY <2>0, <2>1, <1>3 DEF PiecesSent, SendPiece
        <5> QED  BY <5>1, <5>2
      <4> QED  BY <1>1, <2>1, <4>1, <4>2 DEF TypeOK
    <3>4. /\ UNCHANGED <<compressDatagram, datagramSize, failureToSend, sending, state, intact>>
          /\ sending
      BY <1>3 DEF SendPiece
    <3>5. ASSUME compressDatagram, NEW s \in intact, NEW i \in 1..Size[s]
          PROVE  \E d \in PiecesSent(s)' : Covers(d, i)
      BY <3>1, <3>5 DEF SenderInv
    <3> QED  BY <2>1, <3>2, <3>3, <3>4, <3>5 DEF SenderInv
  <2>4. ReceiverInv' /\ NetworkInv' /\ TreatedInv'
    BY <1>3, <2>1 DEF SendPiece, receiver, ReceiverInv, Holds, NetworkInv, TreatedInv
  <2> QED  BY <2>2, <2>3, <2>4
<1>4. CASE SendFails
  <2>0. sending /\ bytesRead > 0
    BY <1>4 DEF SendFails
  <2>1. /\ ThisPiece \in Datagram /\ ThisPiece.pos = pos /\ pos # Mark
        /\ PieceInPlace(ThisPiece)
    BY <2>0, ThisPieceFits
  <2>2. Halved \in Nat
    BY DEF Halved, TypeOK
  <2>3. TypeOK'
    <3>1. failureToSend' \in BOOLEAN /\ datagramSize' \in Nat /\ sending' = FALSE
      <4> HIDE DEF IInv
      <4> QED  BY <1>4, <2>2 DEF SendFails
    <3>2. network' \subseteq Datagram
      BY <1>4, <2>1 DEF SendFails, TypeOK
    <3> QED  BY <1>4, <3>1, <3>2 DEF SendFails, receiver, TypeOK
  <2>4. SenderInv'
    <3>1. /\ UNCHANGED <<compressDatagram, sent, intact>> /\ sending' = FALSE
          /\ datagramSize' = Halved /\ failureToSend' = (Halved < MinimumSize)
      BY <1>4 DEF SendFails
    <3>2. ~failureToSend' => datagramSize' >= MinimumSize
      <4>1. ~failureToSend' => ~(Halved < MinimumSize)
        BY <3>1, Zenon
      <4>2. ~(Halved < MinimumSize) => Halved >= MinimumSize
        BY <1>1, <2>2
      <4> QED  BY <3>1, <4>1, <4>2
    <3> QED  BY <3>1, <3>2 DEF SenderInv, PiecesSent
  <2>5. ReceiverInv' /\ NetworkInv' /\ TreatedInv'
    BY <1>4, <2>1 DEF SendFails, receiver, ReceiverInv, Holds, NetworkInv, TreatedInv
  <2> QED  BY <2>3, <2>4, <2>5
<1>5. CASE SendMark
  <2>0. sending /\ bytesRead <= 0 /\ state \in State /\ intact' = intact \cup {state}
    BY <1>5 DEF SendMark, SenderInv
  <2>1. EndOf(state) \in Datagram /\ EndOf(state).pos = Mark
    <3>1. <<>> \in Seq(Byte)
      BY EmptySeq
    <3> QED  BY <2>0, <3>1 DEF EndOf, Datagram
  <2>2. TypeOK'
    BY <1>5, <2>0, <2>1 DEF SendMark, receiver, TypeOK
  <2>3. SenderInv'
    <3>1. \A s : PiecesSent(s)' = PiecesSent(s)
      BY <1>5 DEF SendMark, PiecesSent
    <3>2. \A i \in 1..Size[state] : i <= pos
      BY <1>1, <2>0 DEF SenderInv, TypeOK
    <3> QED  BY <1>5, <2>0, <3>1, <3>2 DEF SendMark, SenderInv
  <2>4. ReceiverInv' /\ NetworkInv' /\ TreatedInv'
    BY <1>5, <2>1 DEF SendMark, receiver, ReceiverInv, Holds, NetworkInv, TreatedInv
  <2> QED  BY <2>2, <2>3, <2>4
<1> QED  BY <1>2, <1>3, <1>4, <1>5 DEF Sends

(* A piece that is treated holds its place, and the pieces of the same     *)
(* state that were treated before it hold theirs.                          *)
LEMMA TreatPieceIInv ==
    ASSUME IInv, NEW d \in network, TreatPiece(d)
    PROVE  /\ completeData' \in Seq(Byte) /\ InPlace(completeData)'
           /\ TreatedInv' /\ ReceiverInv' /\ treated' # {}
<1> DEFINE a == completeData
           p == d.pos
           x == d.data
           n == p + Len(x)
<1>1. /\ d \in Datagram /\ PieceInPlace(d) /\ d.state \in State /\ p \in Nat
      /\ x \in Seq(Byte) /\ a \in Seq(Byte)
  BY DEF IInv, NetworkInv, TypeOK, TreatPiece, Datagram, PieceInPlace
<1>2. /\ Len(x) \in Nat /\ Len(x) > 0 /\ Len(a) \in Nat /\ n \in Nat
      /\ \A s \in State : Size[s] \in Nat /\ Size[s] > 0
  BY <1>1, UdpAssumption, LenProperties DEF PieceInPlace, State
<1>3. n <= Size[d.state]
  BY <1>1, <1>2 DEF PieceInPlace
<1> DEFINE r == completeData'
<1>4. /\ r \in Seq(Byte)
      /\ Len(r) = IF n > Len(a) THEN n ELSE Len(a)
      /\ \A i \in 1..Len(r) :
            r[i] = IF i <= p THEN (IF i <= Len(a) THEN a[i] ELSE Blank)
                   ELSE IF i <= n THEN x[i - p] ELSE a[i]
  <2>1. r = Replace(a, p, x)
    BY DEF TreatPiece
  <2> QED  BY <1>1, <2>1, ReplaceByPlace
<1>5. treated' = treated \cup {d}
  BY DEF TreatPiece
<1>6. Len(r) \in Nat /\ DOMAIN r = 1..Len(r) /\ DOMAIN a = 1..Len(a)
  BY <1>1, <1>4, LenProperties
<1> HIDE DEF a, r, p, x, n
<1>7. ASSUME NEW i \in 1..Len(r), p < i, i <= n
      PROVE  i <= Size[d.state] /\ r[i] = <<d.state, i>>
  <2>1. i - p \in 1..Len(x) /\ p + (i - p) = i
    BY <1>1, <1>2, <1>6, <1>7 DEF n
  <2>2. r[i] = x[i - p]
    BY <1>1, <1>2, <1>4, <1>6, <1>7
  <2> QED  BY <1>1, <2>1, <2>2 DEF PieceInPlace, p, x
<1>8. ASSUME NEW i \in 1..Len(r), ~(p < i /\ i <= n)
      PROVE  IF i <= Len(a) THEN r[i] = a[i] ELSE r[i] = Blank
  BY <1>1, <1>2, <1>4, <1>6, <1>8
<1>9. InPlace(r)
  <2> SUFFICES ASSUME NEW i \in 1..Len(r)
               PROVE  r[i] = Blank \/ \E s \in State : i <= Size[s] /\ r[i] = <<s, i>>
    BY <1>6 DEF InPlace
  <2>1. InPlace(a)
    BY DEF IInv, TypeOK, a
  <2>2. CASE p < i /\ i <= n
    BY <1>1, <1>7, <2>2
  <2>3. CASE ~(p < i /\ i <= n) /\ i <= Len(a)
    <3>1. r[i] = a[i] /\ i \in DOMAIN a
      BY <1>6, <1>8, <2>3
    <3> QED  BY <2>1, <3>1 DEF InPlace
  <2>4. CASE ~(p < i /\ i <= n) /\ ~(i <= Len(a))
    BY <1>8, <2>4
  <2> QED  BY <2>2, <2>3, <2>4
<1>10. TreatedInv'
  BY <1>1, <1>5 DEF IInv, TreatedInv, PieceInPlace
<1>11. ReceiverInv'
  <2> SUFFICES ASSUME NEW s \in State, \A e \in treated \cup {d} : e.state = s
               PROVE  Len(r) <= Size[s] /\ \A e \in treated \cup {d} : Holds(r, e)
    BY <1>5 DEF ReceiverInv, Holds, r
  <2>1. d.state = s /\ Len(a) <= Size[s] /\ \A e \in treated : Holds(a, e)
    BY DEF IInv, ReceiverInv, a
  <2>2. Len(r) <= Size[s] /\ n <= Len(r) /\ Len(a) <= Len(r)
    BY <1>2, <1>3, <1>4, <2>1
  <2>3. ASSUME NEW e \in treated \cup {d}, NEW i \in 1..Size[e.state], Covers(e, i)
        PROVE  i <= Len(r) /\ r[i] = <<e.state, i>>
    <3>1. e.state = s /\ i \in Nat /\ i > 0
      BY <1>2
    <3>2. CASE p < i /\ i <= n
      BY <1>2, <1>6, <1>7, <2>1, <2>2, <3>1, <3>2
    <3>3. CASE ~(p < i /\ i <= n)
      <4>1. e \in treated
        BY <2>3, <3>3 DEF Covers, p, x, n
      <4>2. i <= Len(a) /\ a[i] = <<s, i>>
        BY <2>1, <2>3, <3>1, <4>1 DEF Holds
      <4>3. i \in 1..Len(r)
        BY <1>2, <1>6, <2>2, <3>1, <4>2
      <4> QED  BY <1>8, <2>2, <3>1, <3>3, <4>2, <4>3
    <3> QED  BY <3>2, <3>3
  <2> QED  BY <2>2, <2>3 DEF Holds
<1> QED  BY <1>4, <1>5, <1>9, <1>10, <1>11 DEF r, InPlace

LEMMA TreatMarkIInv ==
    ASSUME IInv, NEW d \in network, TreatMark(d)
    PROVE  /\ completeData' \in Seq(Byte) /\ InPlace(completeData)'
           /\ TreatedInv' /\ ReceiverInv' /\ processed' = completeData
<1>1. completeData' = <<>> /\ treated' = {} /\ processed' = completeData
  BY DEF TreatMark
<1>2. <<>> \in Seq(Byte) /\ Len(<<>>) = 0 /\ DOMAIN <<>> = {}
  BY EmptySeq, LenProperties
<1>3. \A s \in State : Size[s] \in Nat
  BY UdpAssumption DEF State
<1> QED  BY <1>1, <1>2, <1>3 DEF InPlace, TreatedInv, ReceiverInv

LEMMA StepIInv == IInv /\ [Next]_vars => IInv'
<1> SUFFICES ASSUME IInv, [Next]_vars PROVE IInv'
  OBVIOUS
<1>1. CASE Sends
  BY <1>1, SendsIInv
<1>2. ASSUME NEW d \in network, Lose(d) PROVE IInv'
  <2>1. network' = network \ {d} /\ UNCHANGED <<sender, receiver>>
    BY <1>2 DEF Lose
  <2> QED  BY <2>1 DEF sender, receiver, IInv, TypeOK, SenderInv, PiecesSent, NetworkInv, TreatedInv,
                       ReceiverInv, Holds
<1>3. ASSUME NEW d \in network, ProcessPendingDatagrams(d) PROVE IInv'
  <2>1. network' \subseteq network /\ UNCHANGED sender
    BY <1>3 DEF ProcessPendingDatagrams
  <2>2. /\ completeData' \in Seq(Byte) /\ InPlace(completeData)'
        /\ TreatedInv' /\ ReceiverInv'
        /\ processed' \in {processed, completeData} /\ treated' \subseteq treated \cup {d}
    <3>1. CASE TreatPiece(d)
      BY <3>1, TreatPieceIInv DEF TreatPiece
    <3>2. CASE TreatMark(d)
      BY <3>2, TreatMarkIInv DEF TreatMark
    <3> QED  BY <1>3, <3>1, <3>2 DEF ProcessPendingDatagrams
  <2>3. TypeOK'
    <3>1. processed' \in Seq(Byte) /\ InPlace(processed)'
      BY <2>2 DEF IInv, TypeOK, InPlace
    <3> QED  BY <2>1, <2>2, <3>1 DEF sender, IInv, TypeOK
  <2>4. SenderInv'
    BY <2>1 DEF sender, IInv, SenderInv, PiecesSent
  <2> QED  BY <2>1, <2>2, <2>3, <2>4 DEF IInv, NetworkInv
<1>4. CASE UNCHANGED vars
  BY <1>4 DEF vars, sender, receiver, IInv, TypeOK, SenderInv, PiecesSent, NetworkInv, TreatedInv,
                       ReceiverInv, Holds
<1> QED  BY <1>1, <1>2, <1>3, <1>4 DEF Next

LEMMA AlwaysIInv == Spec => []IInv
<1> QED  BY InitIInv, StepIInv, PTL DEF Spec

(* Types, and every byte of an array at the place that it has in the text  *)
(* it is from, for texts and datagrams of any size and whatever the        *)
(* network does (receiver.cpp:177).                                        *)
THEOREM TypeCorrect == Spec => []TypeOK
<1>1. IInv => TypeOK
  BY DEF IInv
<1> QED  BY <1>1, AlwaysIInv, PTL

----------------------------------------------------------------------------
(* If the pieces that were treated are all those of a state that was sent  *)
(* without an error, the array has its bytes, each at its place.           *)
LEMMA ArrayIsText ==
    ASSUME IInv, NEW s \in intact, treated = PiecesSent(s),
           compressDatagram \/ Whole(s) \in treated
    PROVE  treated # {} /\ completeData = Text(s)
<1>1. s \in State /\ Size[s] \in Nat /\ Size[s] > 0
  BY UdpAssumption DEF IInv, TypeOK, State
<1>2. \A i \in 1..Size[s] : \E d \in treated : Covers(d, i)
  <2>1. CASE compressDatagram
    BY <2>1 DEF IInv, SenderInv
  <2>2. CASE Whole(s) \in treated
    <3> DEFINE x == Mid(Text(s), 0, Size[s])
    <3>1. Len(x) = IF 0 <= Size[s] THEN SmallerOf(0 + Size[s], Size[s]) - 0 ELSE 0
      BY <1>1, MidInPlace
    <3>2. Whole(s).pos = 0 /\ Whole(s).data = x
      BY DEF Whole, Piece
    <3> HIDE DEF x
    <3>3. Len(x) = Size[s]
      BY <1>1, <3>1 DEF SmallerOf
    <3>4. \A i \in 1..Size[s] : Covers(Whole(s), i)
      BY <1>1, <3>2, <3>3 DEF Covers
    <3> QED  BY <2>2, <3>4
  <2> QED  BY <2>1, <2>2
<1>3. Len(completeData) <= Size[s] /\ \A d \in treated : d.state = s /\ Holds(completeData, d)
  <2>1. \A d \in treated : d.state = s
    BY DEF PiecesSent
  <2> QED  BY <1>1, <2>1 DEF IInv, ReceiverInv
<1>4. \A i \in 1..Size[s] : i <= Len(completeData) /\ completeData[i] = <<s, i>>
  BY <1>2, <1>3 DEF Holds
<1>5. completeData \in Seq(Byte) /\ Len(completeData) \in Nat
  BY LenProperties DEF IInv, TypeOK
<1>6. Len(completeData) = Size[s]
  BY <1>1, <1>3, <1>4, <1>5
<1>7. completeData = [i \in 1..Size[s] |-> completeData[i]]
  BY <1>5, <1>6, LenProperties
<1>8. completeData = Text(s)
  BY <1>4, <1>7 DEF Text
<1>9. 1 \in 1..Size[s]
  BY <1>1
<1> QED  BY <1>2, <1>8, <1>9

(* An array made from all the pieces of one state is its text.             *)
(* (receiver.cpp:187-190)                                                  *)
THEOREM WholeText == Spec => WholeWhenIntact
<1> DEFINE Asked(s) == /\ treated = PiecesSent(s) /\ treated' = {}
                       /\ compressDatagram \/ Whole(s) \in treated
<1>1. ASSUME IInv, Next, NEW s \in intact, Asked(s) PROVE processed' = Text(s)
  <2>1. treated # {} /\ completeData = Text(s)
    BY <1>1, ArrayIsText
  <2>2. ~Sends /\ \A d \in network : ~Lose(d)
    BY <1>1, <2>1 DEF Sends, Draw, SendPiece, SendFails, SendMark, Lose, receiver
  <2>3. PICK d \in network : TreatPiece(d) \/ TreatMark(d)
    BY <1>1, <2>2 DEF Next, ProcessPendingDatagrams
  <2>4. ~TreatPiece(d)
    BY <1>1 DEF TreatPiece
  <2>5. processed' = completeData
    BY <2>3, <2>4 DEF TreatMark
  <2> QED  BY <2>1, <2>5
<1>2. IInv /\ [Next]_vars => [\A s \in intact : Asked(s) => processed' = Text(s)]_vars
  BY <1>1
<1> QED  BY <1>2, AlwaysIInv, PTL DEF Spec, WholeWhenIntact

----------------------------------------------------------------------------
(*                                 CellMap                                 *)

(* A list of values names each once. *)
OnceEach(list) == \A i, j \in DOMAIN list : list[i] = list[j] => i = j

(* The list keeps its first values, and names each once. *)
ListInv ==
    /\ OnceEach(valueList)
    /\ Len(valueList) >= Len(Listed)
    /\ \A i \in DOMAIN Listed : valueList[i] = Listed[i]

(* With equal steps, the slices cover all from the minimum to the maximum. *)
StepsInv ==
    groupMode = EqualSteps /\ legend # <<>> =>
        \A v \in MinValue..MaxValue : \E j \in DOMAIN legend : In(legend[j], v)

MapInv == MapTypeOK /\ ListInv /\ StepsInv /\ CountedOnce /\ ColoursStay /\ PictureIsTrue

----------------------------------------------------------------------------
(* Least elements. *)
LEMMA LeastNatural ==
    ASSUME NEW T, T \subseteq Nat, T # {}
    PROVE  \E x \in T : \A y \in T : x <= y
  <1> DEFINE R == {ss \in Nat \X Nat : ss[1] < ss[2]}
  <1>1. IsWellFoundedOn(R, Nat)
    BY NatLessThanWellFounded DEF OpToRel
  <1> HIDE DEF R
  <1>2. \E x \in T : \A y \in T : ~(<<y, x>> \in R)
    BY <1>1, WFMin
  <1>3. \A x, y \in T : <<y, x>> \notin R => x <= y
    BY DEF R
  <1>4. QED
    BY <1>2, <1>3

LEMMA LeastPlace ==
    ASSUME NEW q \in Seq(Int), NEW J \in SUBSET DOMAIN q, J # {}
    PROVE  \E j \in J : \A l \in J : q[j] <= q[l]
  <1> DEFINE Has(m) == \E j \in J : j <= m /\ \A l \in J : l <= m => q[j] <= q[l]
             T == {m \in Nat : (\E j \in J : j <= m) /\ ~Has(m)}
  <1>1. Len(q) \in Nat /\ DOMAIN q = 1..Len(q) /\ J \subseteq 1..Len(q)
    OBVIOUS
  <1>2. \A j \in J : j \in Nat /\ 1 <= j /\ j <= Len(q) /\ q[j] \in Int
    BY <1>1
  <1>3. Has(Len(q)) => \E j \in J : \A l \in J : q[j] <= q[l]
    BY <1>2
  <1> HIDE DEF Has
  <1>4. SUFFICES ASSUME ~Has(Len(q)) PROVE FALSE
    BY <1>3
  <1>5. Len(q) \in T
    BY <1>1, <1>2, <1>4
  <1> HIDE DEF T
  <1>6. T \subseteq Nat
    BY DEF T
  <1>7. PICK m \in T : \A y \in T : m <= y
    BY <1>5, <1>6, LeastNatural
  <1>8. m \in Nat /\ (\E j \in J : j <= m) /\ ~Has(m)
    BY <1>7 DEF T
  <1>9. m # 0 /\ m - 1 \in Nat /\ m - 1 \notin T
    <2>1. m # 0
      BY <1>2, <1>8
    <2>2. m - 1 \in Nat /\ ~(m <= m - 1)
      BY <1>8, <2>1
    <2>3. QED
      BY <1>7, <2>1, <2>2
  <1>10. (\A j \in J : ~(j <= m - 1)) \/ Has(m - 1)
    BY <1>9 DEF T
  <1>11. CASE \A j \in J : ~(j <= m - 1)
    <2>1. \A j \in J : j <= m => j = m
      BY <1>2, <1>8, <1>11
    <2>2. Has(m)
      BY <1>2, <1>8, <2>1 DEF Has
    <2>3. QED
      BY <1>8, <2>2
  <1>12. CASE Has(m - 1)
    <2>1. PICK j \in J : j <= m - 1 /\ \A l \in J : l <= m - 1 => q[j] <= q[l]
      BY <1>12 DEF Has
    <2>2. \A l \in J : l <= m => l <= m - 1 \/ l = m
      BY <1>2, <1>8
    <2>3. j <= m
      BY <1>2, <1>8, <2>1
    <2>4. CASE m \in J /\ q[m] < q[j]
      <3>1. \A l \in J : l <= m => q[m] <= q[l]
        BY <1>2, <2>1, <2>2, <2>4
      <3>2. m <= m
        BY <1>8
      <3>3. Has(m)
        BY <2>4, <3>1, <3>2 DEF Has
      <3>4. QED
        BY <1>8, <3>3
    <2>5. CASE ~(m \in J /\ q[m] < q[j])
      <3>1. \A l \in J : l <= m => q[j] <= q[l]
        BY <1>2, <2>1, <2>2, <2>5
      <3>2. QED
        BY <1>8, <2>1, <2>3, <3>1 DEF Has
    <2>6. QED
      BY <2>4, <2>5
  <1>13. QED
    BY <1>10, <1>11, <1>12

(* Min of some of the values of a sequence is one of them. *)
LEMMA MinOfValues ==
    ASSUME NEW q \in Seq(Int), NEW S \in SUBSET ToSet(q), S # {}
    PROVE  Min(S) \in S /\ \A x \in S : Min(S) <= x
  <1> DEFINE J == {j \in DOMAIN q : q[j] \in S}
  <1>1. J # {} /\ J \in SUBSET DOMAIN q
    BY DEF ToSet
  <1> HIDE DEF J
  <1>2. PICK j \in J : \A l \in J : q[j] <= q[l]
    BY <1>1, LeastPlace
  <1>3. q[j] \in S /\ \A x \in S : q[j] <= x
    BY <1>2 DEF J, ToSet
  <1>4. QED
    BY <1>3 DEF Min

LEMMA MinOfNaturals ==
    ASSUME NEW S \in SUBSET Nat, S # {}
    PROVE  Min(S) \in S /\ \A x \in S : Min(S) <= x
  BY LeastNatural DEF Min

----------------------------------------------------------------------------
(* Counting the places of values. *)
LEMMA PlacesCounted ==
    ASSUME NEW n \in Nat, NEW K \in SUBSET (1..n)
    PROVE  /\ IsFiniteSet(K) /\ Cardinality(K) \in Nat /\ Cardinality(K) <= n
           /\ Cardinality(K) = n <=> K = 1..n
  <1>1. IsFiniteSet(1..n) /\ Cardinality(1..n) = n
    BY FS_Interval
  <1>2. IsFiniteSet(K) /\ Cardinality(K) <= n /\ (Cardinality(K) = n => K = 1..n)
    BY <1>1, FS_Subset
  <1>3. QED
    BY <1>1, <1>2, FS_CardinalityType

LEMMA PlacesApart ==
    ASSUME NEW n \in Nat, NEW A \in SUBSET (1..n), NEW B \in SUBSET (1..n), A \cap B = {}
    PROVE  Cardinality(A \cup B) = Cardinality(A) + Cardinality(B)
  <1>1. IsFiniteSet(A) /\ IsFiniteSet(B) /\ Cardinality(A) \in Nat /\ Cardinality(B) \in Nat
    BY PlacesCounted
  <1>2. Cardinality(A \cap B) = 0
    BY FS_EmptySet
  <1>3. QED
    BY <1>1, <1>2, FS_Union

----------------------------------------------------------------------------
(* Arithmetic of the rounding. *)
LEMMA TimesMonotone ==
    ASSUME NEW d \in Nat, NEW x \in Int, NEW y \in Int, x <= y
    PROVE  d * x <= d * y
  OBVIOUS

LEMMA DivFacts ==
    ASSUME NEW x \in Int, NEW d \in Nat \ {0}
    PROVE  /\ x \div d \in Int
           /\ d * (x \div d) <= x /\ x < d * (x \div d) + d
  OBVIOUS

LEMMA DivIs ==
    ASSUME NEW x \in Int, NEW d \in Nat \ {0}, NEW q \in Int, d * q <= x, x < d * q + d
    PROVE  x \div d = q
  <1> DEFINE r == x \div d
  <1>1. r \in Int /\ d * r <= x /\ x < d * r + d
    BY DivFacts
  <1> HIDE DEF r
  <1>2. ~(r < q)
    <2>1. SUFFICES ASSUME r + 1 <= q PROVE FALSE
      BY <1>1
    <2>2. d * (r + 1) <= d * q /\ d * (r + 1) = d * r + d
      BY <1>1, <2>1, TimesMonotone
    <2>3. d * r \in Int /\ d * q \in Int
      BY <1>1
    <2>4. QED
      BY <1>1, <2>2, <2>3
  <1>3. ~(q < r)
    <2>1. SUFFICES ASSUME q + 1 <= r PROVE FALSE
      BY <1>1
    <2>2. d * (q + 1) <= d * r /\ d * (q + 1) = d * q + d
      BY <1>1, <2>1, TimesMonotone
    <2>3. d * r \in Int /\ d * q \in Int
      BY <1>1
    <2>4. QED
      BY <1>1, <2>2, <2>3
  <1>4. r = q
    BY <1>1, <1>2, <1>3
  <1>5. QED
    BY <1>4 DEF r

LEMMA DivMonotone ==
    ASSUME NEW x \in Int, NEW y \in Int, x <= y, NEW d \in Nat \ {0}
    PROVE  x \div d <= y \div d
  <1> DEFINE r == x \div d
             q == y \div d
  <1>1. /\ r \in Int /\ d * r <= x
        /\ q \in Int /\ y < d * q + d
    BY DivFacts
  <1> HIDE DEF r, q
  <1>2. SUFFICES ASSUME q + 1 <= r PROVE FALSE
    <2>1. r <= q
      BY <1>1
    <2>2. QED
      BY <2>1 DEF r, q
  <1>3. d * (q + 1) <= d * r /\ d * (q + 1) = d * q + d
    BY <1>1, <1>2, TimesMonotone
  <1>4. d * r \in Int /\ d * q \in Int
    BY <1>1
  <1>5. QED
    BY <1>1, <1>3, <1>4

LEMMA RoundedMonotone ==
    ASSUME NEW x \in Int, NEW y \in Int, x <= y, NEW d \in Nat \ {0}
    PROVE  /\ Rounded(x, d) \in Int /\ Rounded(y, d) \in Int
           /\ Rounded(x, d) <= Rounded(y, d)
  <1> DEFINE e == 2 * Unit * d
             k == Unit * d
             r == (2 * x + k) \div e
             q == (2 * y + k) \div e
  <1>1. Unit \in Nat \ {0}
    BY CellMapAssumption
  <1>2. e \in Nat \ {0} /\ k \in Nat
    BY <1>1
  <1>3. Rounded(x, d) = Unit * r /\ Rounded(y, d) = Unit * q
    BY DEF Rounded
  <1> HIDE DEF e, k
  <1>4. 2 * x + k \in Int /\ 2 * y + k \in Int /\ 2 * x + k <= 2 * y + k
    BY <1>2
  <1>5. r \in Int /\ q \in Int /\ r <= q
    BY <1>2, <1>4, DivFacts, DivMonotone
  <1> HIDE DEF r, q
  <1>6. Unit * r <= Unit * q /\ Unit * r \in Int /\ Unit * q \in Int
    BY <1>1, <1>5, TimesMonotone
  <1>7. QED
    BY <1>3, <1>6

(* A rounded number is at most half the precision away. *)
LEMMA RoundedClose ==
    ASSUME NEW x \in Int, NEW d \in Nat \ {0}
    PROVE  /\ Rounded(x * d, d) \in Int
           /\ 2 * Rounded(x * d, d) <= 2 * x + Unit
           /\ 2 * x < 2 * Rounded(x * d, d) + Unit
  <1> DEFINE w == 2 * Unit
             z == 2 * x + Unit
             r == (2 * (x * d) + Unit * d) \div (2 * Unit * d)
  <1>1. Unit \in Nat \ {0}
    BY CellMapAssumption
  <1>2. w \in Nat \ {0} /\ z \in Int
    BY <1>1
  <1>3. 2 * (x * d) + Unit * d = d * z /\ 2 * Unit * d = d * w
    BY <1>1
  <1>4. d * z \in Int /\ d * w \in Nat \ {0}
    <2> HIDE DEF w, z
    <2>1. QED
      BY <1>2
  <1>5. r \in Int /\ (d * w) * r <= d * z /\ d * z < (d * w) * r + d * w
    <2>1. r = (d * z) \div (d * w)
      BY <1>3
    <2> HIDE DEF r, w, z
    <2>2. QED
      BY <1>4, <2>1, DivFacts
  <1>6. Rounded(x * d, d) = Unit * r
    BY DEF Rounded
  <1> HIDE DEF r
  <1>7. w * r \in Int /\ w * r = 2 * (Unit * r) /\ Unit * r \in Int
    BY <1>1, <1>5
  <1> HIDE DEF w, z
  <1>8. (d * w) * r = d * (w * r) /\ d * (w * r) + d * w = d * (w * r + w)
    BY <1>2, <1>5
  <1>9. w * r <= z
    <2>1. SUFFICES ASSUME z + 1 <= w * r PROVE FALSE
      BY <1>2, <1>7
    <2>2. d * (z + 1) <= d * (w * r) /\ d * (z + 1) = d * z + d
      BY <1>2, <1>7, <2>1, TimesMonotone
    <2>3. QED
      BY <1>4, <1>5, <1>8, <2>2
  <1>10. z < w * r + w
    <2>1. SUFFICES ASSUME w * r + w <= z PROVE FALSE
      BY <1>2, <1>7
    <2>2. d * (w * r + w) <= d * z
      BY <1>2, <1>7, <2>1, TimesMonotone
    <2>3. d * (w * r + w) \in Int
      BY <1>2, <1>7
    <2>4. QED
      BY <1>4, <1>5, <1>8, <2>2, <2>3
  <1>11. QED
    BY <1>1, <1>2, <1>6, <1>7, <1>9, <1>10 DEF w, z

----------------------------------------------------------------------------
(* The sum of a legend, when it is known what the slices up to each one    *)
(* count together.                                                         *)
LEMMA TotalIs ==
    ASSUME NEW l \in Seq(Slice), NEW C \in [0..Len(l) -> Int], C[0] = 0,
           \A i \in 1..Len(l) : C[i] = C[i - 1] + l[i].occurrence
    PROVE  Total(l) = C[Len(l)]
  <1> DEFINE n == Len(l)
             Sums(g) == g = [i \in 0..n |-> IF i = 0 THEN 0 ELSE g[i - 1] + l[i].occurrence]
             g == CHOOSE h : Sums(h)
             T == {i \in Nat : i <= n /\ g[i] # C[i]}
  <1>1. n \in Nat
    OBVIOUS
  <1>2. Sums(C)
    <2>1. \A i \in 0..n : C[i] = IF i = 0 THEN 0 ELSE C[i - 1] + l[i].occurrence
      BY <1>1
    <2>2. C = [i \in 0..n |-> C[i]]
      OBVIOUS
    <2>3. QED
      BY <2>1, <2>2
  <1>3. Sums(g)
    <2> HIDE DEF Sums
    <2>1. QED
      BY <1>2
  <1>4. Total(l) = g[n]
    BY DEF Total
  <1> HIDE DEF g, n
  <1>5. \A i \in 0..n : g[i] = IF i = 0 THEN 0 ELSE g[i - 1] + l[i].occurrence
    BY <1>3
  <1> HIDE DEF T
  <1>6. T = {}
    <2>1. SUFFICES ASSUME T # {} PROVE FALSE
      OBVIOUS
    <2>2. PICK i \in T : \A j \in T : i <= j
      BY <2>1, LeastNatural DEF T
    <2>3. i \in Nat /\ i <= n /\ g[i] # C[i]
      BY <2>2 DEF T
    <2>4. i # 0
      BY <1>1, <1>5, <2>3
    <2>5. i - 1 \in Nat /\ i - 1 <= n /\ i - 1 \notin T
      <3>1. i - 1 \in Nat /\ i - 1 <= n /\ ~(i <= i - 1)
        BY <1>1, <2>3, <2>4
      <3>2. QED
        BY <2>2, <3>1
    <2>6. g[i - 1] = C[i - 1]
      BY <2>5 DEF T
    <2>7. i \in 0..n /\ i \in 1..n
      BY <1>1, <2>3, <2>4
    <2>8. g[i] = C[i]
      BY <1>5, <2>4, <2>6, <2>7 DEF n
    <2>9. QED
      BY <2>3, <2>8
  <1>7. g[n] = C[n]
    BY <1>1, <1>6 DEF T
  <1>8. QED
    BY <1>4, <1>7 DEF n

(* Every value between the ends of adjacent slices is in one of them.      *)
LEMMA SlicesCover ==
    ASSUME NEW m \in Nat, NEW b \in [0..m -> Int], NEW v \in Int, b[0] <= v, v < b[m]
    PROVE  \E i \in 1..m : b[i - 1] <= v /\ v < b[i]
  <1> DEFINE T == {i \in Nat : i <= m /\ v < b[i]}
  <1>1. PICK i \in T : \A j \in T : i <= j
    <2>1. m \in T
      OBVIOUS
    <2>2. QED
      BY <2>1, LeastNatural
  <1>2. i # 0
    OBVIOUS
  <1>3. i \in 1..m /\ i - 1 \in 0..m
    BY <1>2
  <1>4. i - 1 \notin T
    BY <1>1, <1>3
  <1>5. QED
    BY <1>3, <1>4

(* Adjacent slices count all values between their ends once.               *)
LEMMA SlicesCount ==
    ASSUME NEW values \in Seq(Int), NEW m \in Nat, NEW b \in [0..m -> Int],
           \A i \in 1..m : b[i - 1] <= b[i],
           NEW l, l = [i \in 1..m |-> CountedSlice(values, b[i - 1], b[i])]
    PROVE  /\ l \in Seq(Slice)
           /\ (\A j \in DOMAIN values : b[0] <= values[j] /\ values[j] < b[m])
                  => Total(l) = Len(values)
  <1> DEFINE n == Len(values)
             Below(x) == {j \in DOMAIN values : values[j] < x}
             From(x, y) == {j \in DOMAIN values : x <= values[j] /\ values[j] < y}
             C == [i \in 0..m |-> Cardinality(Below(b[i]))]
  <1>1. n \in Nat /\ DOMAIN values = 1..n /\ \A j \in 1..n : values[j] \in Int
    OBVIOUS
  <1>2. \A x, y : Below(x) \in SUBSET (1..n) /\ From(x, y) \in SUBSET (1..n)
    BY <1>1
  <1>3. \A i \in 1..m : l[i].occurrence = Cardinality(From(b[i - 1], b[i]))
    BY DEF CountedSlice, Occurrence
  <1>4. \A i \in 1..m : i - 1 \in 0..m /\ i \in 0..m
    OBVIOUS
  <1>5. ASSUME NEW i \in 1..m
        PROVE  /\ l[i] \in Slice
               /\ C[i] = C[i - 1] + l[i].occurrence
    <2>1. b[i - 1] \in Int /\ b[i] \in Int /\ b[i - 1] <= b[i]
      BY <1>4
    <2>2. Below(b[i]) = Below(b[i - 1]) \cup From(b[i - 1], b[i])
      BY <1>1, <2>1
    <2>3. Below(b[i - 1]) \cap From(b[i - 1], b[i]) = {}
      BY <1>1, <2>1
    <2>4. C[i] = Cardinality(Below(b[i])) /\ C[i - 1] = Cardinality(Below(b[i - 1]))
      BY <1>4
    <2>5. l[i] = [from |-> b[i - 1], to |-> b[i],
                  occurrence |-> Cardinality(From(b[i - 1], b[i]))]
      BY DEF CountedSlice, Occurrence
    <2> HIDE DEF Below, From, C, n
    <2>6. Cardinality(From(b[i - 1], b[i])) \in Nat
      BY <1>1, <1>2, PlacesCounted
    <2>7. Cardinality(Below(b[i]))
              = Cardinality(Below(b[i - 1])) + Cardinality(From(b[i - 1], b[i]))
      <3>1. Below(b[i - 1]) \in SUBSET (1..n) /\ From(b[i - 1], b[i]) \in SUBSET (1..n)
        BY <1>2
      <3> DEFINE A == Below(b[i - 1])
                 B == From(b[i - 1], b[i])
      <3>2. A \in SUBSET (1..n) /\ B \in SUBSET (1..n) /\ A \cap B = {}
        BY <2>3, <3>1
      <3>3. Below(b[i]) = A \cup B
        BY <2>2
      <3> HIDE DEF A, B
      <3>4. Cardinality(A \cup B) = Cardinality(A) + Cardinality(B)
        BY <1>1, <3>2, PlacesApart
      <3>5. QED
        BY <3>3, <3>4 DEF A, B
    <2>8. QED
      BY <2>1, <2>4, <2>5, <2>6, <2>7 DEF Slice
  <1>6. l \in Seq(Slice) /\ Len(l) = m
    <2>1. l \in [1..m -> Slice]
      BY <1>5
    <2>2. QED
      BY <2>1
  <1>7. ASSUME \A j \in DOMAIN values : b[0] <= values[j] /\ values[j] < b[m]
        PROVE  Total(l) = Len(values)
    <2>1. b[0] \in Int /\ b[m] \in Int /\ 0 \in 0..m /\ m \in 0..m
      OBVIOUS
    <2>2. Below(b[0]) = {}
      BY <1>1, <1>7, <2>1
    <2>3. Below(b[m]) = 1..n
      BY <1>1, <1>7
    <2>4. C[0] = Cardinality(Below(b[0])) /\ C[m] = Cardinality(Below(b[m]))
      BY <2>1
    <2>5. \A i \in 0..m : C[i] = Cardinality(Below(b[i]))
      OBVIOUS
    <2>6. DOMAIN C = 0..m /\ C = [i \in 0..m |-> C[i]]
      OBVIOUS
    <2> HIDE DEF Below, C, n
    <2>7. ASSUME NEW i \in 0..m PROVE C[i] \in Int
      <3>1. Below(b[i]) \in SUBSET (1..n)
        BY <1>2
      <3>2. Cardinality(Below(b[i])) \in Nat
        BY <1>1, <3>1, PlacesCounted
      <3>3. QED
        BY <2>5, <3>2
    <2>8. C \in [0..m -> Int]
      BY <2>6, <2>7
    <2>9. C[0] = 0 /\ C[m] = n
      BY <1>1, <1>2, <2>2, <2>3, <2>4, PlacesCounted, FS_EmptySet
    <2>10. Total(l) = C[m]
      BY <1>5, <1>6, <2>8, <2>9, TotalIs
    <2>11. QED
      BY <2>9, <2>10 DEF n
  <1>8. QED
    BY <1>6, <1>7

----------------------------------------------------------------------------
(* Sorting. *)
LEMMA GreatestPlace ==
    ASSUME NEW q \in Seq(Int), q # <<>>
    PROVE  \E j \in DOMAIN q : \A l \in DOMAIN q : q[l] <= q[j]
  <1> DEFINE r == [j \in DOMAIN q |-> 0 - q[j]]
  <1>1. Len(q) \in Nat /\ DOMAIN q = 1..Len(q) /\ \A j \in DOMAIN q : q[j] \in Int
    OBVIOUS
  <1>2. DOMAIN q # {}
    <2>1. Len(q) # 0
      OBVIOUS
    <2>2. 1 \in DOMAIN q
      BY <1>1, <2>1
    <2>3. QED
      BY <2>2
  <1>3. r \in [1..Len(q) -> Int] /\ DOMAIN r = DOMAIN q
    BY <1>1
  <1>4. r \in Seq(Int)
    BY <1>1, <1>3
  <1>5. \A j \in DOMAIN q : r[j] = 0 - q[j]
    OBVIOUS
  <1> HIDE DEF r
  <1>6. PICK j \in DOMAIN q : \A l \in DOMAIN q : r[j] <= r[l]
    BY <1>2, <1>3, <1>4, LeastPlace
  <1>7. QED
    BY <1>1, <1>5, <1>6

LEMMA SortedFacts ==
    ASSUME NEW values \in Seq(Int), NEW s, s = Sorted(values)
    PROVE  /\ s \in Seq(Int) /\ Len(s) = Len(values)
           /\ \A i \in DOMAIN s : s[i] \in ToSet(values)
           /\ \A i, j \in DOMAIN s : i <= j => s[i] <= s[j]
           /\ \A i \in DOMAIN values : s[1] <= values[i] /\ values[i] <= s[Len(s)]
  <1> DEFINE n == Len(values)
             K(v) == {j \in DOMAIN values : values[j] <= v}
             S(i) == {v \in ToSet(values) : i <= AtMost(values, v)}
  <1>1. n \in Nat /\ DOMAIN values = 1..n /\ \A j \in 1..n : values[j] \in Int
    OBVIOUS
  <1>2. /\ s = [i \in 1..n |-> Min(S(i))]
        /\ \A v : AtMost(values, v) = Cardinality(K(v))
    BY <1>1 DEF Sorted, AtMost
  <1>3. \A v : K(v) \in SUBSET (1..n)
    BY <1>1
  <1>4. \A i : S(i) \in SUBSET ToSet(values)
    OBVIOUS
  <1>5. ToSet(values) \subseteq Int /\ \A j \in 1..n : values[j] \in ToSet(values)
    BY <1>1 DEF ToSet
  <1>6. \A i : \A v : v \in S(i) <=> v \in ToSet(values) /\ i <= Cardinality(K(v))
    BY <1>2
  <1>7. \A v : \A j : j \in K(v) <=> j \in 1..n /\ values[j] <= v
    BY <1>1
  <1> HIDE DEF n, K, S
  <1>8. ASSUME NEW i \in 1..n PROVE S(i) # {}
    <2>1. values # <<>>
      BY <1>1 DEF n
    <2>2. PICK j \in 1..n : \A l \in 1..n : values[l] <= values[j]
      BY <1>1, <2>1, GreatestPlace
    <2>3. K(values[j]) = 1..n
      BY <1>3, <1>7, <2>2
    <2>4. Cardinality(K(values[j])) = n
      BY <1>1, <1>3, <2>3, PlacesCounted
    <2>5. values[j] \in S(i)
      BY <1>1, <1>5, <1>6, <2>4
    <2>6. QED
      BY <2>5
  <1>9. \A i \in 1..n : s[i] \in S(i) /\ \A x \in S(i) : s[i] <= x
    BY <1>2, <1>4, <1>8, MinOfValues
  <1>10. \A i \in 1..n : s[i] \in ToSet(values) /\ s[i] \in Int
    BY <1>4, <1>5, <1>9
  <1>11. s \in [1..n -> Int] /\ DOMAIN s = 1..n
    BY <1>2, <1>10
  <1>12. s \in Seq(Int) /\ Len(s) = n
    BY <1>1, <1>11
  <1>13. \A v : Cardinality(K(v)) \in Nat /\ Cardinality(K(v)) <= n
    BY <1>1, <1>3, PlacesCounted
  <1>14. ASSUME NEW i \in 1..n, NEW j \in 1..n, i <= j PROVE s[i] <= s[j]
    <2>1. s[j] \in S(j)
      BY <1>9
    <2>2. s[j] \in S(i)
      BY <1>1, <1>6, <1>13, <1>14, <2>1
    <2>3. QED
      BY <1>9, <2>2
  <1>15. ASSUME NEW i \in 1..n PROVE s[1] <= values[i] /\ values[i] <= s[n]
    <2>1. 1 \in 1..n /\ n \in 1..n
      BY <1>1
    <2>2. i \in K(values[i]) /\ values[i] \in Int
      BY <1>1, <1>7
    <2>3. Cardinality(K(values[i])) # 0
      <3>1. IsFiniteSet(K(values[i]))
        BY <1>1, <1>3, PlacesCounted
      <3>2. QED
        BY <2>2, <3>1, FS_EmptySet
    <2>4. values[i] \in S(1)
      BY <1>5, <1>6, <1>13, <2>3
    <2>5. n <= Cardinality(K(s[n]))
      BY <1>6, <1>9, <2>1
    <2>6. Cardinality(K(s[n])) = n
      BY <1>1, <1>13, <2>5
    <2>7. K(s[n]) = 1..n
      BY <1>1, <1>3, <2>6, PlacesCounted
    <2>8. QED
      BY <1>7, <1>9, <2>1, <2>4, <2>7
  <1>16. QED
    BY <1>1, <1>10, <1>11, <1>12, <1>14, <1>15 DEF n

----------------------------------------------------------------------------
(* Equal steps. *)
LEMMA StepsFacts ==
    ASSUME NEW values \in Seq(Int), NEW l, l = GroupByEqualStep(values)
    PROVE  /\ l \in Seq(Slice)
           /\ (\A j \in DOMAIN values : values[j] \in MinValue..MaxValue)
                  => Total(l) = Len(values)
           /\ \A v \in MinValue..MaxValue : \E i \in DOMAIN l : In(l[i], v)
  <1> DEFINE raw(i) == CASE i = 0 -> Bound(0) - Fix * Rows
                         [] i = Rows -> Bound(i) + Fix * Rows
                         [] OTHER -> Bound(i)
             b == [i \in 0..Rows |-> Rounded(raw(i), Rows)]
  <1>1. /\ Rows \in Nat \ {0} /\ Rows # 1 /\ Unit \in Nat \ {0}
        /\ MinValue \in Int /\ MaxValue \in Int /\ MinValue < MaxValue
    BY CellMapAssumption
  <1>2. \A i \in 0..Rows : Bound(i) \in Int
    BY <1>1 DEF Bound
  <1>3. ASSUME NEW i \in 1..Rows PROVE Bound(i - 1) <= Bound(i)
    <2> DEFINE d == MaxValue - MinValue
               k == MinValue * Rows
    <2>1. d \in Nat /\ k \in Int /\ i \in Int /\ i - 1 \in Int
      BY <1>1
    <2>2. Bound(i - 1) = k + (i - 1) * d /\ Bound(i) = k + i * d
      BY DEF Bound
    <2> HIDE DEF d, k
    <2>3. d * (i - 1) <= d * i /\ d * (i - 1) = (i - 1) * d /\ d * i = i * d
      BY <2>1, TimesMonotone
    <2>4. d * i \in Int /\ d * (i - 1) \in Int
      BY <2>1
    <2>5. QED
      BY <2>1, <2>2, <2>3, <2>4
  <1>4. Fix * Rows \in Nat
    BY <1>1 DEF Fix
  <1>5. \A i \in 0..Rows : raw(i) \in Int
    BY <1>1, <1>2, <1>4
  <1>6. \A i \in 1..Rows : raw(i - 1) <= raw(i)
    <2> TAKE i \in 1..Rows
    <2>1. Bound(i - 1) <= Bound(i) /\ Bound(i - 1) \in Int /\ Bound(i) \in Int
      BY <1>1, <1>2, <1>3
    <2>2. i # 0 /\ i - 1 # Rows /\ i \in Int /\ (i - 1 = 0 => i # Rows)
      BY <1>1
    <2>3. raw(i) = IF i = Rows THEN Bound(i) + Fix * Rows ELSE Bound(i)
      BY <2>2
    <2>4. raw(i - 1) = IF i - 1 = 0 THEN Bound(i - 1) - Fix * Rows ELSE Bound(i - 1)
      BY <2>2
    <2> HIDE DEF raw
    <2>5. QED
      BY <1>4, <2>1, <2>3, <2>4
  <1>7. raw(0) = (MinValue - Unit) * Rows
    BY <1>1 DEF Bound, Fix
  <1>8. raw(Rows) = (MaxValue + Unit) * Rows
    BY <1>1 DEF Bound, Fix
  <1>9. ASSUME NEW i \in 1..Rows
        PROVE  b[i - 1] = First(i - 1) /\ b[i] = UpTo(i - 1)
    <2>1. i - 1 \in 0..Rows /\ i - 1 # Rows /\ i # 0 /\ i - 1 + 1 = i /\ (i = Rows <=> i - 1 = Rows - 1)
      BY <1>1
    <2>2. raw(i - 1) = Bound(i - 1) - (IF i - 1 = 0 THEN Fix * Rows ELSE 0)
      <3>1. CASE i - 1 = 0
        BY <3>1
      <3>2. CASE i - 1 # 0
        <4>1. Bound(i - 1) - 0 = Bound(i - 1)
          BY <1>2, <2>1
        <4>2. QED
          BY <2>1, <3>2, <4>1
      <3>3. QED
        BY <3>1, <3>2
    <2>3. raw(i) = Bound(i) + (IF i - 1 = Rows - 1 THEN Fix * Rows ELSE 0)
      <3>1. CASE i = Rows
        BY <1>1, <2>1, <3>1
      <3>2. CASE i # Rows
        <4>1. Bound(i) + 0 = Bound(i)
          BY <1>2
        <4>2. QED
          BY <2>1, <3>2, <4>1
      <3>3. QED
        BY <3>1, <3>2
    <2> HIDE DEF raw
    <2>4. QED
      BY <2>1, <2>2, <2>3 DEF First, UpTo
  <1> HIDE DEF raw
  <1>10. b \in [0..Rows -> Int]
    BY <1>1, <1>5, RoundedMonotone
  <1>11. ASSUME NEW i \in 1..Rows PROVE b[i - 1] <= b[i]
    <2>1. i - 1 \in 0..Rows /\ i \in 0..Rows
      BY <1>1
    <2>2. raw(i - 1) \in Int /\ raw(i) \in Int /\ raw(i - 1) <= raw(i)
      BY <1>5, <1>6, <2>1
    <2>3. Rounded(raw(i - 1), Rows) <= Rounded(raw(i), Rows)
      BY <1>1, <2>2, RoundedMonotone
    <2>4. QED
      BY <2>1, <2>3
  <1>12. b[0] = Rounded((MinValue - Unit) * Rows, Rows)
    BY <1>1, <1>7
  <1>13. b[Rows] = Rounded((MaxValue + Unit) * Rows, Rows)
    BY <1>1, <1>8
  <1> HIDE DEF b
  <1>14. \A v \in MinValue..MaxValue : b[0] <= v /\ v < b[Rows]
    <2> DEFINE x == MinValue - Unit
               y == MaxValue + Unit
    <2>1. x \in Int /\ y \in Int
      BY <1>1
    <2> HIDE DEF x, y
    <2>2. /\ Rounded(x * Rows, Rows) \in Int /\ Rounded(y * Rows, Rows) \in Int
          /\ 2 * Rounded(x * Rows, Rows) <= 2 * x + Unit
          /\ 2 * y < 2 * Rounded(y * Rows, Rows) + Unit
      BY <1>1, <2>1, RoundedClose
    <2>3. b[0] = Rounded(x * Rows, Rows) /\ b[Rows] = Rounded(y * Rows, Rows)
      BY <1>12, <1>13 DEF x, y
    <2>4. QED
      BY <1>1, <2>2, <2>3 DEF x, y
  <1>15. l = [i \in 1..Rows |-> CountedSlice(values, b[i - 1], b[i])]
    BY <1>9 DEF GroupByEqualStep
  <1>16. l \in Seq(Slice) /\ ((\A j \in DOMAIN values : b[0] <= values[j] /\ values[j] < b[Rows])
                                => Total(l) = Len(values))
    BY <1>1, <1>10, <1>11, <1>15, SlicesCount
  <1>17. ASSUME NEW v \in MinValue..MaxValue PROVE \E i \in DOMAIN l : In(l[i], v)
    <2>1. v \in Int /\ b[0] <= v /\ v < b[Rows]
      BY <1>1, <1>14
    <2>2. PICK i \in 1..Rows : b[i - 1] <= v /\ v < b[i]
      BY <1>1, <1>10, <2>1, SlicesCover
    <2>3. i \in DOMAIN l /\ l[i].from = b[i - 1] /\ l[i].to = b[i]
      BY <1>15 DEF CountedSlice
    <2>4. QED
      BY <2>2, <2>3 DEF In
  <1>18. QED
    BY <1>14, <1>16, <1>17

----------------------------------------------------------------------------
(* Quantiles. *)
LEMMA SliceEndFacts ==
    ASSUME NEW values \in Seq(Int), NEW n \in 0..Rows
    PROVE  /\ SliceEnd(values, n) \in 0..Len(values)
           /\ n = 0 => SliceEnd(values, n) = 0
           /\ n = Rows => SliceEnd(values, n) = Len(values)
           /\ n # 0 /\ 2 * Len(values) >= Rows => SliceEnd(values, n) >= 1
           /\ \A m \in 0..n : SliceEnd(values, m) <= SliceEnd(values, n)
  <1> DEFINE L == Len(values)
             d == 2 * Rows
             x(m) == 2 * m * L + Rows
  <1>1. Rows \in Nat \ {0} /\ L \in Nat /\ d \in Nat \ {0} /\ n \in Nat
    BY CellMapAssumption
  <1>2. \A m : SliceEnd(values, m) = x(m) \div d
    BY DEF SliceEnd
  <1> HIDE DEF L
  <1>3. ASSUME NEW m \in Nat, NEW k \in Nat, m <= k PROVE x(m) \in Int /\ x(k) \in Int /\ x(m) <= x(k)
    <2>1. L * m <= L * k
      BY <1>1, <1>3, TimesMonotone
    <2>2. L * m \in Nat /\ L * k \in Nat /\ 2 * m * L = 2 * (L * m) /\ 2 * k * L = 2 * (L * k)
      BY <1>1
    <2>3. QED
      BY <1>1, <2>1, <2>2
  <1>4. x(0) \div d = 0
    <2>1. x(0) = Rows /\ d * 0 = 0 /\ Rows < d
      BY <1>1
    <2>2. x(0) \in Int /\ d * 0 <= x(0) /\ x(0) < d * 0 + d
      BY <1>1, <2>1
    <2> HIDE DEF x, d
    <2>3. QED
      BY <1>1, <2>2, DivIs
  <1>5. x(Rows) \div d = L
    <2>1. x(Rows) = d * L + Rows /\ d * L \in Int
      BY <1>1
    <2>2. x(Rows) \in Int /\ d * L <= x(Rows) /\ x(Rows) < d * L + d
      BY <1>1, <2>1
    <2> HIDE DEF x, d
    <2>3. QED
      BY <1>1, <2>2, DivIs
  <1>6. ASSUME 2 * L >= Rows PROVE x(1) \div d >= 1
    <2>1. x(1) \in Int /\ x(1) >= d /\ d \div d = 1
      <3>1. d \div d = 1
        <4>1. d * 1 <= d /\ d < d * 1 + d /\ d \in Int
          BY <1>1
        <4> HIDE DEF d
        <4>2. QED
          BY <1>1, <4>1, DivIs
      <3>2. QED
        BY <1>1, <1>6, <3>1
    <2> HIDE DEF x, d
    <2>2. x(1) \div d \in Int
      BY <1>1, <2>1, DivFacts
    <2>3. QED
      BY <1>1, <2>1, <2>2, DivMonotone
  <1> HIDE DEF x, d
  <1>7. \A m \in Nat : x(m) \in Int /\ x(m) \div d \in Int
    BY <1>1, <1>3, DivFacts
  <1>8. ASSUME NEW m \in Nat, NEW k \in Nat, m <= k PROVE x(m) \div d <= x(k) \div d
    BY <1>1, <1>3, <1>8, DivMonotone
  <1>9. n <= Rows /\ 0 <= n
    BY <1>1
  <1>10. x(n) \div d \in 0..L
    <2>1. 0 \in Nat /\ Rows \in Nat /\ x(n) \div d \in Int
      BY <1>1, <1>7
    <2>2. x(0) \div d <= x(n) \div d
      BY <1>1, <1>8, <1>9, <2>1
    <2>3. x(n) \div d <= x(Rows) \div d
      BY <1>1, <1>8, <1>9, <2>1
    <2>4. QED
      BY <1>1, <1>4, <1>5, <2>1, <2>2, <2>3
  <1>11. n # 0 /\ 2 * L >= Rows => x(n) \div d >= 1
    <2>1. SUFFICES ASSUME n # 0, 2 * L >= Rows PROVE x(n) \div d >= 1
      OBVIOUS
    <2>2. 1 <= n /\ 1 \in Nat
      BY <1>1, <2>1
    <2>3. x(1) \div d <= x(n) \div d
      BY <1>1, <1>8, <2>2
    <2>4. QED
      BY <1>1, <1>6, <1>7, <2>1, <2>3
  <1>12. \A m \in 0..n : x(m) \div d <= x(n) \div d
    BY <1>1, <1>8
  <1>13. QED
    BY <1>2, <1>4, <1>5, <1>10, <1>11, <1>12 DEF L

(* The slices that are made are the first ones, and the last of them ends  *)
(* behind the last value.                                                  *)
LEMMA UsedFacts ==
    ASSUME NEW values \in Seq(Int), values # <<>>
    PROVE  \E k \in 1..Rows :
              /\ Cardinality({n \in 1..Rows : SliceEnd(values, n - 1) < Len(values)}) = k
              /\ SliceEnd(values, k) = Len(values)
              /\ \A n \in 0..(k - 1) : SliceEnd(values, n) < Len(values)
  <1> DEFINE L == Len(values)
             used == {n \in 1..Rows : SliceEnd(values, n - 1) < L}
             T == {n \in Nat : n <= Rows /\ SliceEnd(values, n) = L}
  <1>1. Rows \in Nat \ {0} /\ L \in Nat \ {0}
    BY CellMapAssumption
  <1> HIDE DEF L
  <1>2. Rows \in T
    BY <1>1, SliceEndFacts DEF L
  <1>3. PICK k \in T : \A j \in T : k <= j
    BY <1>2, LeastNatural
  <1>4. k \in Nat /\ k <= Rows /\ SliceEnd(values, k) = L
    OBVIOUS
  <1>5. k # 0
    BY <1>1, <1>4, SliceEndFacts
  <1>6. \A n \in 0..Rows : SliceEnd(values, n) \in 0..L
    BY SliceEndFacts DEF L
  <1>7. \A n \in 0..(k - 1) : SliceEnd(values, n) < L
    <2> TAKE n \in 0..(k - 1)
    <2>1. n \in Nat /\ n <= Rows /\ ~(k <= n)
      BY <1>1, <1>4
    <2>2. SliceEnd(values, n) # L
      BY <1>3, <2>1
    <2>3. QED
      BY <1>1, <1>6, <2>1, <2>2
  <1>8. \A n \in k..Rows : SliceEnd(values, n) = L
    <2> TAKE n \in k..Rows
    <2>1. n \in 0..Rows /\ k \in 0..n
      BY <1>4
    <2>2. SliceEnd(values, k) <= SliceEnd(values, n)
      BY <2>1, SliceEndFacts
    <2>3. QED
      BY <1>1, <1>4, <1>6, <2>1, <2>2
  <1> HIDE DEF T
  <1>9. used = 1..k
    <2>1. ASSUME NEW n \in 1..Rows PROVE n \in used <=> n \in 1..k
      <3>1. CASE n <= k
        <4>1. n - 1 \in 0..(k - 1) /\ n \in 1..k
          BY <1>4, <3>1
        <4>2. QED
          BY <1>7, <4>1
      <3>2. CASE ~(n <= k)
        <4>1. n - 1 \in k..Rows /\ n \notin 1..k
          BY <1>1, <1>4, <3>2
        <4>2. QED
          BY <1>1, <1>8, <4>1
      <3>3. QED
        BY <3>1, <3>2
    <2>2. used \subseteq 1..Rows /\ 1..k \subseteq 1..Rows
      BY <1>1, <1>4
    <2> HIDE DEF used
    <2>3. QED
      BY <2>1, <2>2
  <1>10. Cardinality(used) = k
    <2>1. 1 \in Int /\ k \in Int /\ ~(1 > k) /\ k - 1 + 1 = k
      BY <1>4, <1>5
    <2>2. Cardinality(1..k) = k
      BY <2>1, FS_Interval
    <2> HIDE DEF used
    <2>3. QED
      BY <1>9, <2>2
  <1>11. k \in 1..Rows
    BY <1>1, <1>4, <1>5
  <1>12. QED
    BY <1>4, <1>7, <1>10, <1>11 DEF L

LEMMA OccurrenceTyped ==
    ASSUME NEW values \in Seq(Int), NEW x, NEW y
    PROVE  Occurrence(values, x, y) \in Nat
  <1>1. Len(values) \in Nat /\ DOMAIN values = 1..Len(values)
    OBVIOUS
  <1> DEFINE K == {j \in DOMAIN values : x <= values[j] /\ values[j] < y}
  <1>2. K \in SUBSET (1..Len(values))
    BY <1>1
  <1> HIDE DEF K
  <1>3. Cardinality(K) \in Nat
    BY <1>1, <1>2, PlacesCounted
  <1>4. QED
    BY <1>3 DEF K, Occurrence

(* A bound that is larger by the precision stays outside when it is rounded. *)
LEMMA FixIsEnough ==
    ASSUME NEW u \in Nat \ {0}, NEW a \in Int, NEW v \in Int, NEW z \in Int
    PROVE  /\ 2 * a <= 2 * (z - u) + u /\ z <= v => a <= v
           /\ 2 * (z + u) < 2 * a + u /\ v <= z => v < a
  OBVIOUS

LEMMA QuantilFacts ==
    ASSUME NEW values \in Seq(Int), NEW l, l = GroupByQuantil(values)
    PROVE  /\ l \in Seq(Slice)
           /\ 2 * Len(values) >= Rows => Total(l) = Len(values)
  <1> DEFINE L == Len(values)
             s == Sorted(values)
             p(n) == SliceEnd(values, n)
             used == {n \in 1..Rows : p(n - 1) < L}
  <1>1. Rows \in Nat \ {0} /\ L \in Nat /\ Unit \in Nat \ {0}
    BY CellMapAssumption
  <1>2. l = [n \in 1..Cardinality(used) |->
                CountedSlice(values, QuantilFrom(s, p(n - 1)), QuantilTo(s, p(n)))]
    BY DEF GroupByQuantil
  <1>3. CASE values = <<>>
    <2>1. L = 0
      BY <1>3
    <2>2. ASSUME NEW n \in 1..Rows PROVE ~(p(n - 1) < L)
      <3>1. n - 1 \in 0..Rows
        BY <1>1
      <3>2. p(n - 1) \in 0..L
        BY <3>1, SliceEndFacts
      <3> HIDE DEF p
      <3>3. QED
        BY <2>1, <3>2
    <2>3. used = {}
      BY <2>2
    <2> HIDE DEF used
    <2>4. Cardinality(used) = 0
      BY <2>3, FS_EmptySet
    <2>5. l = <<>>
      BY <1>2, <2>4
    <2>6. ~(2 * L >= Rows)
      BY <1>1, <2>1
    <2>7. QED
      BY <2>5, <2>6
  <1>4. CASE values # <<>>
    <2>1. PICK k \in 1..Rows : /\ Cardinality(used) = k /\ p(k) = L
                               /\ \A n \in 0..(k - 1) : p(n) < L
      BY <1>4, UsedFacts
    <2>2. k \in Nat /\ k # 0 /\ k <= Rows
      BY <1>1
    <2> HIDE DEF used
    <2>3. l = [n \in 1..k |-> CountedSlice(values, QuantilFrom(s, p(n - 1)), QuantilTo(s, p(n)))]
      BY <1>2, <2>1
    <2>4. \A n \in 0..k : p(n) \in 0..L /\ (n = 0 => p(n) = 0)
      <3> TAKE n \in 0..k
      <3>1. n \in 0..Rows
        BY <1>1, <2>2
      <3>2. QED
        BY <3>1, SliceEndFacts
    <2>5. \A n \in 0..k : p(n) = L \/ p(n) < L
      BY <1>1, <2>4
    <2>6. /\ s \in Seq(Int) /\ Len(s) = L
          /\ \A i, j \in DOMAIN s : i <= j => s[i] <= s[j]
          /\ \A i \in DOMAIN values : s[1] <= values[i] /\ values[i] <= s[Len(s)]
      BY SortedFacts
    <2>7. L # 0
      BY <1>4
    <2> HIDE DEF s, L
    <2>8. /\ \A i \in 1..L : s[i] \in Int
          /\ \A i, j \in 1..L : i <= j => s[i] <= s[j]
          /\ 1 \in 1..L /\ L \in 1..L
      <3>1. DOMAIN s = 1..L
        BY <2>6
      <3>2. \A i \in 1..L : s[i] \in Int
        BY <2>6, <3>1
      <3>3. 1 \in 1..L /\ L \in 1..L
        BY <1>1, <2>7
      <3>4. QED
        BY <2>6, <3>1, <3>2, <3>3
    <2>9. \A x, y \in Int : Rounded(x, 1) \in Int /\ (x <= y => Rounded(x, 1) <= Rounded(y, 1))
      BY RoundedMonotone
    <2>10. \A n \in 0..(k - 1) : QuantilFrom(s, p(n)) \in Int
      <3> TAKE n \in 0..(k - 1)
      <3>1. n \in 0..k /\ p(n) < L
        BY <2>1, <2>2
      <3>2. p(n) \in 0..L
        BY <2>4, <3>1
      <3> HIDE DEF p
      <3>3. p(n) + 1 \in 1..L /\ s[1] - Fix \in Int
        BY <1>1, <2>8, <3>1, <3>2 DEF Fix
      <3>4. s[p(n) + 1] \in Int
        BY <2>8, <3>3
      <3>5. Rounded(s[1] - Fix, 1) \in Int /\ Rounded(s[p(n) + 1], 1) \in Int
        BY <2>9, <3>3, <3>4
      <3>6. QED
        BY <3>5 DEF QuantilFrom
    <2>11. \A n \in 1..k : /\ QuantilTo(s, p(n)) \in Int
                           /\ \/ /\ p(n) < L /\ p(n) + 1 \in 1..L
                                 /\ QuantilTo(s, p(n)) = Rounded(s[p(n) + 1], 1)
                              \/ /\ p(n) = L
                                 /\ QuantilTo(s, p(n)) = Rounded(s[L] + Fix, 1)
      <3> TAKE n \in 1..k
      <3>1. n \in 0..k
        BY <2>2
      <3>2. p(n) \in 0..L /\ (p(n) = L \/ p(n) < L)
        BY <2>4, <2>5, <3>1
      <3> HIDE DEF p
      <3>3. s[L] + Fix \in Int
        BY <1>1, <2>8 DEF Fix
      <3>4. CASE p(n) < L
        <4>1. p(n) + 1 \in 1..L
          BY <1>1, <3>2, <3>4
        <4>2. s[p(n) + 1] \in Int
          BY <2>8, <4>1
        <4>3. QuantilTo(s, p(n)) = Rounded(s[p(n) + 1], 1)
          BY <2>6, <3>4 DEF QuantilTo
        <4>4. QED
          BY <2>9, <3>4, <4>1, <4>2, <4>3
      <3>5. CASE p(n) = L
        <4>1. QuantilTo(s, p(n)) = Rounded(s[L] + Fix, 1)
          BY <1>1, <2>6, <3>5 DEF QuantilTo
        <4>2. QED
          BY <2>9, <3>3, <3>5, <4>1
      <3>6. QED
        BY <3>2, <3>4, <3>5
    <2>12. ASSUME NEW n \in 1..k PROVE l[n] \in Slice
      <3>1. n - 1 \in 0..(k - 1)
        BY <2>2
      <3>2. QuantilFrom(s, p(n - 1)) \in Int /\ QuantilTo(s, p(n)) \in Int
        BY <2>10, <2>11, <3>1
      <3>3. l[n] = CountedSlice(values, QuantilFrom(s, p(n - 1)), QuantilTo(s, p(n)))
        BY <2>3
      <3> HIDE DEF p
      <3>4. QED
        BY <3>2, <3>3, OccurrenceTyped DEF CountedSlice, Slice
    <2>13. l \in Seq(Slice)
      <3>1. l \in [1..k -> Slice]
        BY <2>3, <2>12
      <3>2. QED
        BY <2>2, <3>1
    <2>14. ASSUME 2 * L >= Rows PROVE Total(l) = L
      <3> DEFINE b == [n \in 0..k |-> IF n = 0 THEN QuantilFrom(s, 0) ELSE QuantilTo(s, p(n))]
      <3>1. \A n \in 1..k : p(n) >= 1
        <4> TAKE n \in 1..k
        <4>1. n \in 0..Rows /\ n # 0
          BY <1>1, <2>2
        <4>2. QED
          BY <2>14, <4>1, SliceEndFacts DEF L
      <3>2. ASSUME NEW n \in 1..k
            PROVE  /\ b[n] = QuantilTo(s, p(n)) /\ b[n - 1] = QuantilFrom(s, p(n - 1))
                   /\ b[n - 1] \in Int /\ b[n] \in Int
        <4>1. n # 0 /\ n \in 0..k /\ n - 1 \in 0..(k - 1) /\ n - 1 \in 0..k
          BY <2>2
        <4>2. b[n] = QuantilTo(s, p(n))
          BY <4>1
        <4>3. b[n - 1] = QuantilFrom(s, p(n - 1))
          <5>1. CASE n - 1 = 0
            <6>1. p(n - 1) = 0 /\ b[n - 1] = QuantilFrom(s, 0)
              BY <2>4, <4>1, <5>1
            <6> HIDE DEF p, b
            <6>2. QED
              BY <6>1
          <5>2. CASE n - 1 # 0
            <6>1. n - 1 \in 1..k
              BY <4>1, <5>2
            <6>2. p(n - 1) >= 1 /\ p(n - 1) < L /\ p(n - 1) \in 0..L
              BY <2>1, <2>4, <3>1, <4>1, <6>1
            <6>3. b[n - 1] = QuantilTo(s, p(n - 1))
              BY <4>1, <5>2
            <6> HIDE DEF p, b
            <6>4. p(n - 1) # 0 /\ p(n - 1) < Len(s)
              BY <1>1, <2>6, <6>2
            <6>5. QED
              BY <6>3, <6>4 DEF QuantilTo, QuantilFrom
          <5>3. QED
            BY <5>1, <5>2
        <4> HIDE DEF b, p
        <4>4. QED
          BY <2>10, <2>11, <4>1, <4>2, <4>3 DEF p
      <3>3. b \in [0..k -> Int]
        <4>1. \A n \in 0..k : b[n] \in Int
          <5> TAKE n \in 0..k
          <5>1. CASE n = 0
            <6>1. 1 \in 1..k /\ 1 - 1 = 0
              BY <2>2
            <6>2. b[1 - 1] \in Int
              BY <3>2, <6>1
            <6> HIDE DEF b
            <6>3. QED
              BY <5>1, <6>1, <6>2
          <5>2. CASE n # 0
            <6>1. n \in 1..k
              BY <5>2
            <6> HIDE DEF b
            <6>2. QED
              BY <3>2, <6>1
          <5>3. QED
            BY <5>1, <5>2
        <4>2. b = [n \in 0..k |-> b[n]]
          OBVIOUS
        <4> HIDE DEF b
        <4>3. QED
          BY <4>1, <4>2
      <3>4. b[0] = Rounded(s[1] - Fix, 1)
        <4>1. b[0] = QuantilFrom(s, 0)
          BY <2>2
        <4>2. QED
          BY <4>1 DEF QuantilFrom
      <3>5. b[k] = Rounded(s[L] + Fix, 1)
        <4>1. k \in 1..k
          BY <2>2
        <4>2. b[k] = QuantilTo(s, p(k)) /\ p(k) = L
          BY <2>1, <3>2, <4>1
        <4> HIDE DEF b, p
        <4>3. QED
          BY <1>1, <2>6, <4>2 DEF QuantilTo
      <3>6. s[1] - Fix \in Int /\ s[L] + Fix \in Int /\ Fix \in Nat
        BY <1>1, <2>8 DEF Fix
      <3>7. ASSUME NEW n \in 1..k PROVE b[n - 1] <= b[n]
        <4>1. n \in 0..k /\ n - 1 \in 0..k /\ n - 1 \in 0..(k - 1) /\ n - 1 \in 0..n
          BY <2>2
        <4>2. /\ p(n) \in 0..L /\ p(n - 1) \in 0..L /\ p(n - 1) < L
              /\ b[n - 1] = QuantilFrom(s, p(n - 1)) /\ b[n] = QuantilTo(s, p(n))
          BY <2>1, <2>4, <3>2, <4>1
        <4>3. p(n - 1) <= p(n)
          <5>1. n \in 0..Rows
            BY <1>1, <2>2
          <5>2. QED
            BY <4>1, <5>1, SliceEndFacts
        <4>4. \/ p(n) < L /\ b[n] = Rounded(s[p(n) + 1], 1)
              \/ p(n) = L /\ b[n] = Rounded(s[L] + Fix, 1)
          BY <2>11, <4>2
        <4> HIDE DEF b, p
        <4>5. PICK x \in Int : x <= s[p(n - 1) + 1] /\ b[n - 1] = Rounded(x, 1)
          <5>1. p(n - 1) + 1 \in 1..L /\ 1 <= p(n - 1) + 1
            BY <1>1, <4>2
          <5>2. s[1] - Fix <= s[p(n - 1) + 1] /\ s[p(n - 1) + 1] \in Int
            <6>1. s[1] <= s[p(n - 1) + 1] /\ s[1] \in Int /\ s[p(n - 1) + 1] \in Int
              BY <2>8, <5>1
            <6>2. QED
              BY <3>6, <6>1
          <5>3. CASE p(n - 1) = 0
            BY <3>6, <4>2, <5>2, <5>3 DEF QuantilFrom
          <5>4. CASE p(n - 1) # 0
            BY <4>2, <5>2, <5>4 DEF QuantilFrom
          <5>5. QED
            BY <5>3, <5>4
        <4>6. PICK y \in Int : s[p(n - 1) + 1] <= y /\ b[n] = Rounded(y, 1)
          <5>1. p(n - 1) + 1 \in 1..L
            BY <1>1, <4>2
          <5>2. CASE p(n) < L /\ b[n] = Rounded(s[p(n) + 1], 1)
            <6>1. p(n) + 1 \in 1..L /\ p(n - 1) + 1 <= p(n) + 1
              BY <1>1, <4>2, <4>3, <5>2
            <6>2. s[p(n - 1) + 1] <= s[p(n) + 1] /\ s[p(n) + 1] \in Int
              BY <2>8, <5>1, <6>1
            <6>3. QED
              BY <5>2, <6>2
          <5>3. CASE p(n) = L /\ b[n] = Rounded(s[L] + Fix, 1)
            <6>1. p(n - 1) + 1 <= L
              BY <5>1
            <6>2. s[p(n - 1) + 1] <= s[L] /\ s[p(n - 1) + 1] \in Int /\ s[L] \in Int
              BY <2>8, <5>1, <6>1
            <6>3. s[p(n - 1) + 1] <= s[L] + Fix
              BY <3>6, <6>2
            <6>4. QED
              BY <3>6, <5>3, <6>3
          <5>4. QED
            BY <4>4, <5>2, <5>3
        <4>7. s[p(n - 1) + 1] \in Int
          <5>1. p(n - 1) + 1 \in 1..L
            BY <1>1, <4>2
          <5>2. QED
            BY <2>8, <5>1
        <4>8. x <= y
          BY <4>5, <4>6, <4>7
        <4>9. QED
          BY <2>9, <4>5, <4>6, <4>8
      <3>8. ASSUME NEW j \in DOMAIN values PROVE b[0] <= values[j] /\ values[j] < b[k]
        <4>1. values[j] \in Int /\ s[1] <= values[j] /\ values[j] <= s[L] /\ s[1] \in Int /\ s[L] \in Int
          BY <2>6, <2>8
        <4> DEFINE x == s[1] - Fix
                   y == s[L] + Fix
        <4>2. /\ 2 * Rounded(x * 1, 1) <= 2 * x + Unit /\ Rounded(x * 1, 1) \in Int
              /\ 2 * y < 2 * Rounded(y * 1, 1) + Unit /\ Rounded(y * 1, 1) \in Int
          <5>1. x \in Int /\ y \in Int /\ 1 \in Nat \ {0}
            BY <3>6
          <5> HIDE DEF x, y
          <5>2. QED
            BY <5>1, RoundedClose
        <4>3. x * 1 = x /\ y * 1 = y
          BY <3>6
        <4>4. b[0] = Rounded(x, 1) /\ b[k] = Rounded(y, 1)
          BY <3>4, <3>5
        <4> HIDE DEF b
        <4>5. 2 * b[0] <= 2 * x + Unit /\ 2 * y < 2 * b[k] + Unit /\ b[0] \in Int /\ b[k] \in Int
          BY <4>2, <4>3, <4>4
        <4>6. Fix = Unit /\ x = s[1] - Unit /\ y = s[L] + Unit
          BY DEF Fix
        <4>7. 2 * b[0] <= 2 * (s[1] - Unit) + Unit /\ 2 * (s[L] + Unit) < 2 * b[k] + Unit
          BY <4>5, <4>6
        <4> HIDE DEF x, y
        <4>8. b[0] <= values[j] /\ values[j] < b[k]
          BY <1>1, <4>1, <4>5, <4>7, FixIsEnough
        <4>9. QED
          BY <4>8
      <3>9. l = [n \in 1..k |-> CountedSlice(values, b[n - 1], b[n])]
        BY <2>3, <3>2
      <3> HIDE DEF b
      <3>10. QED
        BY <2>2, <3>3, <3>7, <3>8, <3>9, SlicesCount DEF L
    <2>15. QED
      BY <2>13, <2>14 DEF L
  <1>5. QED
    BY <1>3, <1>4

----------------------------------------------------------------------------
(* Unique values. *)
LEMMA TimesTyped ==
    ASSUME NEW values \in Seq(Int), NEW label
    PROVE  Times(values, label) \in Nat
  <1>1. Len(values) \in Nat /\ DOMAIN values = 1..Len(values)
    OBVIOUS
  <1> DEFINE K == {j \in DOMAIN values :
                      Shown[values[j]] = label /\ IsCounted(values, values[j])}
  <1>2. K \in SUBSET (1..Len(values))
    BY <1>1
  <1> HIDE DEF K
  <1>3. Cardinality(K) \in Nat
    BY <1>1, <1>2, PlacesCounted
  <1>4. QED
    BY <1>3 DEF K, Times

(* A list that names all values as they are written, and each name once,   *)
(* counts each place once.                                                 *)
LEMMA ListCounts ==
    ASSUME NEW values \in Seq(Int), NEW list \in Seq(Label), OnceEach(list),
           \A v \in ToSet(values) : Shown[v] \in ToSet(list),
           \A v : IsCounted(values, v),
           NEW l \in Seq(Slice), Len(l) = Len(list),
           \A i \in 1..Len(list) : l[i].occurrence = Times(values, list[i])
    PROVE  Total(l) = Len(values)
  <1> DEFINE n == Len(values)
             m == Len(list)
             P(i) == {j \in 1..n : \E h \in 1..i : list[h] = Shown[values[j]]}
             Q(i) == {j \in 1..n : Shown[values[j]] = list[i]}
             C == [i \in 0..m |-> Cardinality(P(i))]
  <1>1. /\ n \in Nat /\ DOMAIN values = 1..n
        /\ m \in Nat /\ DOMAIN list = 1..m
    OBVIOUS
  <1>2. \A i : P(i) \in SUBSET (1..n) /\ Q(i) \in SUBSET (1..n)
    OBVIOUS
  <1>3. \A i : Times(values, list[i]) = Cardinality(Q(i))
    BY <1>1 DEF Times
  <1>4. P(0) = {}
    OBVIOUS
  <1>5. P(m) = 1..n
    BY <1>1 DEF ToSet
  <1>6. ASSUME NEW i \in 1..m
        PROVE  P(i) = P(i - 1) \cup Q(i) /\ P(i - 1) \cap Q(i) = {}
    <2>1. 1..i = (1..(i - 1)) \cup {i} /\ \A h \in 1..(i - 1) : h \in 1..m /\ h # i
      BY <1>1
    <2>2. \A h \in 1..(i - 1) : list[h] # list[i]
      BY <1>1, <2>1 DEF OnceEach
    <2>3. P(i) = P(i - 1) \cup Q(i)
      BY <2>1
    <2>4. P(i - 1) \cap Q(i) = {}
      BY <2>2
    <2>5. QED
      BY <2>3, <2>4
  <1>7. /\ DOMAIN C = 0..m /\ C = [i \in 0..m |-> C[i]]
        /\ \A i \in 0..m : C[i] = Cardinality(P(i))
    OBVIOUS
  <1> HIDE DEF P, Q, C, n, m
  <1>8. ASSUME NEW i PROVE Cardinality(P(i)) \in Nat
    <2> DEFINE A == P(i)
    <2>1. A \in SUBSET (1..n)
      BY <1>2
    <2> HIDE DEF A
    <2>2. Cardinality(A) \in Nat
      BY <1>1, <2>1, PlacesCounted
    <2>3. QED
      BY <2>2 DEF A
  <1>9. C \in [0..m -> Int]
    <2>1. \A i \in 0..m : C[i] \in Int
      BY <1>7, <1>8
    <2>2. QED
      BY <1>7, <2>1
  <1>10. ASSUME NEW i \in 1..m PROVE C[i] = C[i - 1] + l[i].occurrence
    <2> DEFINE A == P(i - 1)
               B == Q(i)
    <2>1. A \in SUBSET (1..n) /\ B \in SUBSET (1..n) /\ A \cap B = {} /\ P(i) = A \cup B
      BY <1>2, <1>6
    <2>2. i \in 0..m /\ i - 1 \in 0..m
      BY <1>1
    <2>3. C[i - 1] = Cardinality(A) /\ l[i].occurrence = Cardinality(B)
      BY <1>3, <1>7, <2>2 DEF m
    <2> HIDE DEF A, B
    <2>4. Cardinality(A \cup B) = Cardinality(A) + Cardinality(B)
      BY <1>1, <2>1, PlacesApart
    <2>5. QED
      BY <1>7, <2>1, <2>2, <2>3, <2>4
  <1>11. C[0] = 0 /\ C[m] = n
    <2>1. 0 \in 0..m /\ m \in 0..m
      BY <1>1
    <2>2. Cardinality(1..n) = n
      BY <1>1, PlacesCounted
    <2>3. QED
      BY <1>4, <1>5, <1>7, <2>1, <2>2, FS_EmptySet
  <1>12. Len(l) = m
    BY DEF m
  <1>13. Total(l) = C[m]
    BY <1>9, <1>10, <1>11, <1>12, TotalIs
  <1>14. QED
    BY <1>11, <1>13 DEF n

LEMMA UniqueFacts ==
    ASSUME NEW values \in Seq(Int), valueList \in Seq(Label), ListInv,
           NEW l, l = GroupByUniqueValue(values)
    PROVE  /\ l \in Seq(Slice)
           /\ (\A v \in ToSet(values) : Shown[v] \in ToSet(Listed)) => Total(l) = Len(values)
           /\ l # <<>> => \A i \in DOMAIN Listed : l[i].from = Listed[i]
  <1>1. /\ Len(valueList) \in Nat /\ DOMAIN valueList = 1..Len(valueList)
        /\ \A i \in 1..Len(valueList) : valueList[i] \in Label /\ ReadBack[valueList[i]] \in Int
    BY CellMapAssumption
  <1>2. Listed \in Seq(Label) /\ Len(Listed) \in Nat /\ DOMAIN Listed = 1..Len(Listed)
    BY CellMapAssumption
  <1>3. \A i \in DOMAIN Listed : i \in DOMAIN valueList /\ valueList[i] = Listed[i]
    BY <1>1, <1>2 DEF ListInv
  <1>4. CASE values = <<>>
    <2>1. l = <<>> /\ l \in Seq(Slice) /\ Len(l) = 0
      BY <1>4 DEF GroupByUniqueValue
    <2> DEFINE C == [i \in 0..0 |-> 0]
    <2>2. C \in [0..Len(l) -> Int] /\ C[0] = 0 /\ C[Len(l)] = 0 /\ 1..Len(l) = {}
      BY <2>1
    <2> HIDE DEF C
    <2>3. Total(l) = 0
      BY <2>1, <2>2, TotalIs
    <2>4. QED
      BY <1>4, <2>1, <2>3
  <1>5. CASE values # <<>>
    <2>1. l = [i \in 1..Len(valueList) |->
                  [from |-> valueList[i], to |-> ReadBack[valueList[i]],
                   occurrence |-> Times(values, valueList[i])]]
      BY <1>1, <1>5 DEF GroupByUniqueValue
    <2>2. \A i \in 1..Len(valueList) : l[i] \in Slice
      BY <1>1, <2>1, TimesTyped DEF Slice
    <2>3. l \in Seq(Slice) /\ Len(l) = Len(valueList)
      <3>1. l \in [1..Len(valueList) -> Slice]
        BY <2>1, <2>2
      <3>2. QED
        BY <1>1, <3>1
    <2>4. \A i \in DOMAIN Listed : l[i].from = Listed[i]
      BY <1>1, <1>3, <2>1
    <2>5. ASSUME \A v \in ToSet(values) : Shown[v] \in ToSet(Listed)
          PROVE  Total(l) = Len(values)
      <3>1. \A v \in ToSet(values) : Shown[v] \in ToSet(valueList)
        BY <1>3, <2>5 DEF ToSet
      <3>2. \A v : IsCounted(values, v)
        BY <3>1 DEF IsCounted, Unlisted
      <3>3. \A i \in 1..Len(valueList) : l[i].occurrence = Times(values, valueList[i])
        BY <2>1
      <3>4. QED
        BY <2>3, <3>1, <3>2, <3>3, ListCounts DEF ListInv
    <2>6. QED
      BY <2>3, <2>4, <2>5
  <1>6. QED
    BY <1>4, <1>5

(* The list grows by a value that it does not have. *)
LEMMA ListStays ==
    ASSUME NEW values \in Seq(Int), valueList \in Seq(Label), ListInv,
           ToSet(values) \subseteq Number,
           NEW list, list = ListAfter(values)
    PROVE  /\ list \in Seq(Label) /\ OnceEach(list) /\ Len(list) >= Len(Listed)
           /\ \A i \in DOMAIN Listed : list[i] = Listed[i]
  <1>1. CASE Unlisted(values) = {}
    BY <1>1 DEF ListAfter, ListInv
  <1>2. CASE Unlisted(values) # {}
    <2> DEFINE stop == Stop(values)
               v == Shown[stop]
               m == Len(valueList)
    <2>1. Unlisted(values) \in SUBSET ToSet(values) /\ stop = Min(Unlisted(values))
      BY DEF Unlisted, Stop
    <2>2. stop \in Unlisted(values)
      <3> HIDE DEF stop
      <3>1. QED
        BY <1>2, <2>1, MinOfValues
    <2>3. v \in Label /\ \A i \in DOMAIN valueList : valueList[i] # v
      <3> HIDE DEF stop
      <3>1. stop \in Number /\ v \notin ToSet(valueList)
        BY <2>2 DEF Unlisted
      <3>2. QED
        BY <3>1, CellMapAssumption DEF ToSet
    <2>4. list = Append(valueList, v)
      BY <1>2 DEF ListAfter
    <2> HIDE DEF v, stop
    <2>5. m \in Nat /\ DOMAIN valueList = 1..m
      OBVIOUS
    <2>6. /\ list \in Seq(Label) /\ Len(list) = m + 1 /\ DOMAIN list = 1..(m + 1)
          /\ list[m + 1] = v /\ \A i \in 1..m : list[i] = valueList[i]
      BY <2>3, <2>4
    <2> HIDE DEF m
    <2>7. \A i \in 1..(m + 1) : i \in 1..m \/ i = m + 1
      BY <2>5
    <2>8. OnceEach(list)
      <3> SUFFICES ASSUME NEW i \in 1..(m + 1), NEW j \in 1..(m + 1), list[i] = list[j] PROVE i = j
        BY <2>6 DEF OnceEach
      <3>1. \A a, b \in 1..m : valueList[a] = valueList[b] => a = b
        BY <2>5 DEF ListInv, OnceEach
      <3>2. QED
        BY <2>3, <2>5, <2>6, <2>7, <3>1
    <2>9. Listed \in Seq(Label) /\ Len(Listed) \in Nat /\ DOMAIN Listed = 1..Len(Listed)
      BY CellMapAssumption
    <2>10. m >= Len(Listed) /\ \A i \in DOMAIN Listed : valueList[i] = Listed[i]
      BY DEF ListInv, m
    <2>11. \A i \in DOMAIN Listed : i \in 1..m
      BY <2>5, <2>9, <2>10
    <2>12. Len(list) >= Len(Listed)
      BY <2>5, <2>6, <2>9, <2>10
    <2>13. QED
      BY <2>6, <2>8, <2>10, <2>11, <2>12
  <1>3. QED
    BY <1>1, <1>2

----------------------------------------------------------------------------
(* Decoding.  The values decoded from the first m cells of a message: *)
DecodeRun(g, msg, m) ==
    g = [c \in 0..m |-> IF c = 0 THEN <<>> ELSE g[c - 1] \o msg[c]]

LEMMA DecodeRuns ==
    ASSUME NEW msg, NEW m \in Nat
    PROVE  \E g : DecodeRun(g, msg, m)
  <1> DEFINE T == {x \in Nat : ~ \E g : DecodeRun(g, msg, x)}
  <1>1. SUFFICES ASSUME m \in T PROVE FALSE
    OBVIOUS
  <1>2. PICK x \in T : \A y \in T : x <= y
    BY <1>1, LeastNatural
  <1>3. x # 0
    <2>1. SUFFICES ASSUME x = 0 PROVE FALSE
      OBVIOUS
    <2> DEFINE g == [c \in 0..0 |-> <<>>]
    <2>2. g = [c \in 0..0 |-> IF c = 0 THEN <<>> ELSE g[c - 1] \o msg[c]]
      <3>1. \A c \in 0..0 : c = 0
        OBVIOUS
      <3>2. QED
        BY <3>1
    <2>3. DecodeRun(g, msg, 0)
      BY <2>2 DEF DecodeRun
    <2>4. QED
      BY <2>1, <2>3
  <1>4. x - 1 \in Nat /\ x - 1 \notin T
    BY <1>2, <1>3
  <1>5. PICK h : DecodeRun(h, msg, x - 1)
    BY <1>4
  <1> DEFINE g == [c \in 0..x |-> IF c = x THEN h[x - 1] \o msg[x] ELSE h[c]]
  <1>6. ASSUME NEW c \in 0..x
        PROVE  g[c] = IF c = 0 THEN <<>> ELSE g[c - 1] \o msg[c]
    <2>1. \A l \in 0..(x - 1) : h[l] = IF l = 0 THEN <<>> ELSE h[l - 1] \o msg[l]
      BY <1>5 DEF DecodeRun
    <2>2. CASE c = 0
      <3>1. 0 \in 0..(x - 1) /\ g[0] = h[0]
        BY <1>3, <1>4
      <3>2. QED
        BY <2>1, <2>2, <3>1
    <2>3. CASE c # 0
      <3>1. c - 1 \in 0..(x - 1) /\ c - 1 # x /\ c - 1 \in 0..x
        BY <1>4, <2>3
      <3>2. g[c - 1] = h[c - 1]
        BY <3>1
      <3>3. CASE c = x
        BY <2>3, <3>2, <3>3
      <3>4. CASE c # x
        <4>1. c \in 0..(x - 1) /\ g[c] = h[c]
          BY <1>4, <3>4
        <4>2. QED
          BY <2>1, <2>3, <3>2, <4>1
      <3>5. QED
        BY <3>3, <3>4
    <2>4. QED
      BY <2>2, <2>3
  <1>7. g = [c \in 0..x |-> g[c]]
    OBVIOUS
  <1> HIDE DEF g
  <1>8. DecodeRun(g, msg, x)
    BY <1>6, <1>7 DEF DecodeRun
  <1>9. QED
    BY <1>2, <1>8

(* What is decoded after i cells: their values, in order, if they have one. *)
Decoded(d, cells, i) ==
    /\ d \in Seq(Number) /\ Len(d) <= i
    /\ (\A c \in Cell : cells[c] # Missing) =>
           Len(d) = i /\ \A c \in 1..i : d[c] = cells[c]

LEMMA DecodeFacts ==
    ASSUME NEW cells \in [Cell -> Number \cup {Missing}]
    PROVE  Decoded(Decode(Pop(cells)), cells, Cells)
  <1> DEFINE msg == Pop(cells)
             g == CHOOSE g : DecodeRun(g, msg, Cells)
             T == {i \in Nat : i <= Cells /\ ~Decoded(g[i], cells, i)}
  <1>1. Cells \in Nat /\ Cell = 1..Cells
    BY CellMapAssumption DEF Cell
  <1>2. ASSUME NEW c \in Cell
        PROVE  \/ cells[c] = Missing /\ msg[c] = <<>>
               \/ cells[c] # Missing /\ cells[c] \in Number /\ msg[c] = <<cells[c]>>
    BY DEF Pop, CellPop
  <1>3. Len(msg) = Cells
    <2>1. msg = [c \in 1..Cells |-> msg[c]]
      BY <1>1 DEF Pop
    <2> HIDE DEF msg
    <2>2. \A c \in 1..Cells : msg[c] \in {msg[b] : b \in 1..Cells}
      OBVIOUS
    <2>3. msg \in [1..Cells -> {msg[b] : b \in 1..Cells}]
      BY <2>1, <2>2
    <2>4. QED
      BY <1>1, <2>3
  <1> HIDE DEF msg
  <1>4. Decode(msg) = g[Cells]
    BY <1>3 DEF Decode, DecodeRun
  <1>5. DecodeRun(g, msg, Cells)
    BY <1>1, DecodeRuns
  <1> HIDE DEF g
  <1>6. \A i \in 0..Cells : g[i] = IF i = 0 THEN <<>> ELSE g[i - 1] \o msg[i]
    BY <1>5 DEF DecodeRun
  <1>7. Decoded(g[0], cells, 0)
    <2>1. g[0] = <<>>
      BY <1>1, <1>6
    <2>2. QED
      BY <2>1 DEF Decoded
  <1>8. T = {}
    <2>1. SUFFICES ASSUME T # {} PROVE FALSE
      OBVIOUS
    <2>2. PICK i \in T : \A j \in T : i <= j
      BY <2>1, LeastNatural
    <2>3. i \in Nat /\ i # 0 /\ i <= Cells /\ ~Decoded(g[i], cells, i)
      BY <1>7, <2>2
    <2>4. i - 1 \in Nat /\ i - 1 \notin T /\ i - 1 <= Cells /\ i \in 0..Cells /\ i \in Cell
      BY <1>1, <2>2, <2>3
    <2> DEFINE d == g[i - 1]
    <2>5. Decoded(d, cells, i - 1)
      BY <2>4
    <2>6. g[i] = d \o msg[i]
      BY <1>6, <2>3, <2>4
    <2> HIDE DEF T, d
    <2>7. d \in Seq(Number) /\ Len(d) \in Nat /\ Len(d) <= i - 1
      BY <2>5 DEF Decoded
    <2>8. CASE cells[i] = Missing /\ msg[i] = <<>>
      <3>1. d \o <<>> = d
        BY <2>7
      <3>2. ~ \A c \in Cell : cells[c] # Missing
        BY <2>4, <2>8
      <3>3. QED
        BY <2>3, <2>6, <2>7, <2>8, <3>1, <3>2 DEF Decoded
    <2>9. CASE cells[i] # Missing /\ cells[i] \in Number /\ msg[i] = <<cells[i]>>
      <3> DEFINE e == d \o <<cells[i]>>
      <3>1. /\ e \in Seq(Number) /\ Len(e) = Len(d) + 1
            /\ e[Len(d) + 1] = cells[i] /\ \A c \in 1..Len(d) : e[c] = d[c]
        BY <2>7, <2>9
      <3> HIDE DEF e
      <3>2. Len(e) <= i
        BY <2>3, <2>7, <3>1
      <3>3. ASSUME \A c \in Cell : cells[c] # Missing
            PROVE  Len(e) = i /\ \A c \in 1..i : e[c] = cells[c]
        <4>1. Len(d) = i - 1 /\ \A c \in 1..(i - 1) : d[c] = cells[c]
          BY <2>5, <3>3 DEF Decoded
        <4>2. Len(e) = i /\ e[i] = cells[i] /\ \A c \in 1..(i - 1) : e[c] = cells[c]
          BY <2>3, <3>1, <4>1
        <4>3. \A c \in 1..i : c = i \/ c \in 1..(i - 1)
          BY <2>3
        <4>4. QED
          BY <4>2, <4>3
      <3>4. Decoded(e, cells, i)
        BY <3>1, <3>2, <3>3 DEF Decoded
      <3>5. QED
        BY <2>3, <2>6, <2>9, <3>4 DEF e
    <2>10. QED
      BY <1>2, <2>4, <2>8, <2>9
  <1>9. Decoded(g[Cells], cells, Cells)
    BY <1>1, <1>8
  <1>10. QED
    BY <1>4, <1>9 DEF msg

----------------------------------------------------------------------------
(* Making the legend. *)
LEMMA TotalOfNone == Total(<<>>) = 0
  <1> DEFINE C == [i \in 0..0 |-> 0]
             l == <<>>
  <1>1. l \in Seq(Slice) /\ Len(l) = 0
    OBVIOUS
  <1>2. C \in [0..Len(l) -> Int] /\ C[0] = 0 /\ C[Len(l)] = 0 /\ 1..Len(l) = {}
    BY <1>1
  <1> HIDE DEF C, l
  <1>3. Total(l) = 0
    BY <1>1, <1>2, TotalIs
  <1>4. QED
    BY <1>3 DEF l

(* The legend and the list are as they should be. *)
LegendInv ==
    /\ legend \in Seq(Slice) /\ valueList \in Seq(Label)
    /\ ListInv /\ StepsInv /\ CountedOnce /\ ColoursStay

LEMMA MakeLegendStep ==
    ASSUME groupMode \in {EqualSteps, Quantil, UniqueValue}, groupMode' = groupMode,
           valueList \in Seq(Label), ListInv,
           NEW values \in Seq(Int), ToSet(values) \subseteq Number, MakeLegend(values)
    PROVE  LegendInv'
  <1>1. /\ counted' = values
        /\ valueList' = IF groupMode = UniqueValue THEN ListAfter(values) ELSE valueList
    BY DEF MakeLegend
  <1>2. EqualSteps # Quantil /\ EqualSteps # UniqueValue /\ Quantil # UniqueValue
    BY CellMapAssumption
  <1>3. valueList' \in Seq(Label) /\ ListInv'
    <2>1. CASE groupMode = UniqueValue
      <3>1. valueList' = ListAfter(values)
        BY <1>1, <2>1
      <3>2. /\ valueList' \in Seq(Label) /\ OnceEach(valueList') /\ Len(valueList') >= Len(Listed)
            /\ \A i \in DOMAIN Listed : valueList'[i] = Listed[i]
        BY <3>1, ListStays
      <3>3. QED
        BY <3>2 DEF ListInv, OnceEach
    <2>2. CASE groupMode # UniqueValue
      BY <1>1, <2>2 DEF ListInv, OnceEach
    <2>3. QED
      BY <2>1, <2>2
  <1>4. CASE groupMode = EqualSteps
    <2>1. legend' = GroupByEqualStep(values)
      BY <1>2, <1>4 DEF MakeLegend
    <2> DEFINE l == legend'
    <2>2. /\ l \in Seq(Slice)
          /\ (\A j \in DOMAIN values : values[j] \in MinValue..MaxValue) => Total(l) = Len(values)
          /\ \A v \in MinValue..MaxValue : \E i \in DOMAIN l : In(l[i], v)
      <3> l = GroupByEqualStep(values)
        BY <2>1
      <3> HIDE DEF l
      <3>1. QED
        BY StepsFacts
    <2>3. StepsInv'
      BY <2>2 DEF StepsInv, In
    <2>4. CountedOnce'
      <3>1. CASE \E v \in ToSet(values) : v \notin MinValue..MaxValue
        BY <1>1, <1>4, <3>1 DEF CountedOnce
      <3>2. CASE \A v \in ToSet(values) : v \in MinValue..MaxValue
        <4>1. \A j \in DOMAIN values : values[j] \in MinValue..MaxValue
          BY <3>2 DEF ToSet
        <4>2. QED
          BY <1>1, <2>2, <4>1 DEF CountedOnce
      <3>3. QED
        BY <3>1, <3>2
    <2>5. ColoursStay'
      BY <1>2, <1>4 DEF ColoursStay
    <2>6. QED
      BY <1>3, <2>2, <2>3, <2>4, <2>5 DEF LegendInv
  <1>5. CASE groupMode = Quantil
    <2>1. legend' = GroupByQuantil(values)
      BY <1>2, <1>5 DEF MakeLegend
    <2> DEFINE l == legend'
    <2>2. l \in Seq(Slice) /\ (2 * Len(values) >= Rows => Total(l) = Len(values))
      <3> l = GroupByQuantil(values)
        BY <2>1
      <3> HIDE DEF l
      <3>1. QED
        BY QuantilFacts
    <2>3. StepsInv' /\ ColoursStay'
      BY <1>2, <1>5 DEF StepsInv, ColoursStay
    <2>4. 2 * Len(values) >= Rows \/ 2 * Len(values) < Rows
      BY CellMapAssumption
    <2>5. CountedOnce'
      BY <1>1, <1>5, <2>2, <2>4 DEF CountedOnce
    <2>6. QED
      BY <1>3, <2>2, <2>3, <2>5 DEF LegendInv
  <1>6. CASE groupMode = UniqueValue
    <2>1. legend' = GroupByUniqueValue(values)
      BY <1>2, <1>6 DEF MakeLegend
    <2> DEFINE l == legend'
    <2>2. /\ l \in Seq(Slice)
          /\ (\A v \in ToSet(values) : Shown[v] \in ToSet(Listed)) => Total(l) = Len(values)
          /\ l # <<>> => \A i \in DOMAIN Listed : l[i].from = Listed[i]
      <3> l = GroupByUniqueValue(values)
        BY <2>1
      <3> HIDE DEF l
      <3>1. QED
        BY UniqueFacts
    <2>3. StepsInv'
      BY <1>2, <1>6 DEF StepsInv
    <2>4. CountedOnce'
      BY <1>1, <1>6, <2>2 DEF CountedOnce
    <2>5. ColoursStay'
      BY <2>2 DEF ColoursStay
    <2>6. QED
      BY <1>3, <2>2, <2>3, <2>4, <2>5 DEF LegendInv
  <1>7. QED
    BY <1>4, <1>5, <1>6

----------------------------------------------------------------------------
(* Painting. *)
LEMMA ColourFacts ==
    ASSUME NEW l \in Seq(Slice), NEW v
    PROVE  /\ Colour(l, v) \in {White, Gray} \cup DOMAIN l
           /\ l # <<>> /\ (\E j \in DOMAIN l : Matches(l[j], v)) =>
                  Colour(l, v) \in DOMAIN l /\ Matches(l[Colour(l, v)], v)
           /\ l # <<>> /\ ~(\E j \in DOMAIN l : Matches(l[j], v)) => Colour(l, v) = White
  <1> DEFINE matching == {j \in DOMAIN l : Matches(l[j], v)}
  <1>1. matching \in SUBSET Nat /\ (matching = {} <=> ~ \E j \in DOMAIN l : Matches(l[j], v))
    OBVIOUS
  <1>2. Colour(l, v) = IF l = <<>> THEN Gray ELSE IF matching = {} THEN White ELSE Min(matching)
    BY DEF Colour
  <1>3. \A j \in matching : j \in DOMAIN l /\ Matches(l[j], v)
    OBVIOUS
  <1> HIDE DEF matching
  <1>4. matching # {} => Min(matching) \in matching
    BY <1>1, MinOfNaturals
  <1>5. QED
    BY <1>1, <1>2, <1>3, <1>4

LEMMA NumbersAreInt ==
    ASSUME NEW q \in Seq(Number)
    PROVE  q \in Seq(Int)
  <1>1. Number \subseteq Int
    BY CellMapAssumption
  <1>2. Len(q) \in Nat /\ DOMAIN q = 1..Len(q) /\ q = [i \in 1..Len(q) |-> q[i]]
    OBVIOUS
  <1>3. \A i \in 1..Len(q) : q[i] \in Number
    OBVIOUS
  <1>4. q \in [1..Len(q) -> Int]
    BY <1>1, <1>2, <1>3
  <1>5. QED
    BY <1>2, <1>4

LEMMA DrawMapStep ==
    ASSUME MapInv, NEW cells \in [Cell -> Number \cup {Missing}], DrawMap(cells)
    PROVE  MapInv'
  <1> DEFINE values == numericValues'
             l == legend'
  <1>1. /\ drawn' = cells /\ numericValues' = Decode(Pop(cells))
        /\ picture' = DrawAttrib(values, l)
        /\ groupMode' = groupMode /\ mapAttributes' = mapAttributes
    BY DEF DrawMap, Cleared
  <1>2. /\ groupMode \in {EqualSteps, Quantil, UniqueValue}
        /\ valueList \in Seq(Label) /\ legend \in Seq(Slice)
        /\ builtLegend \in 0..mapAttributes /\ mapAttributes \in 1..MaxLayers
    BY DEF MapInv, MapTypeOK
  <1>3. /\ values \in Seq(Number) /\ Len(values) <= Cells
        /\ (\A c \in Cell : cells[c] # Missing) =>
              Len(values) = Cells /\ \A c \in 1..Cells : values[c] = cells[c]
    BY <1>1, DecodeFacts DEF Decoded
  <1>4. values \in Seq(Int) /\ ToSet(values) \subseteq Number
    <2> HIDE DEF values
    <2>1. QED
      BY <1>3, NumbersAreInt DEF ToSet
  <1>5. LegendInv' /\ builtLegend' \in 0..mapAttributes
    <2>1. CASE builtLegend < mapAttributes
      <3>1. MakeLegend(values) /\ builtLegend' = builtLegend + 1
        BY <2>1 DEF DrawMap, MakeLegend
      <3>2. LegendInv'
        <4> HIDE DEF values
        <4>1. QED
          BY <1>1, <1>2, <1>4, <3>1, MakeLegendStep DEF MapInv
      <3>3. QED
        BY <1>2, <2>1, <3>1, <3>2
    <2>2. CASE ~(builtLegend < mapAttributes)
      <3>1. UNCHANGED <<groupMode, legend, valueList, counted, builtLegend>>
        BY <1>1, <2>2 DEF DrawMap
      <3>2. LegendInv
        BY <1>2 DEF LegendInv, MapInv
      <3>3. QED
        BY <1>2, <3>1, <3>2 DEF LegendInv, ListInv, OnceEach, StepsInv, In, CountedOnce, Total, ColoursStay
    <2>3. QED
      BY <2>1, <2>2
  <1>6. l \in Seq(Slice)
    BY <1>5 DEF LegendInv
  <1>7. \A c \in Cell : picture'[c] = IF c <= Len(values) THEN Colour(l, values[c]) ELSE Transparent
    BY <1>1 DEF DrawAttrib
  <1>8. picture' \in [Cell -> {White, Gray, Transparent} \cup DOMAIN l]
    <2>1. picture' = [c \in Cell |-> picture'[c]]
      BY <1>1 DEF DrawAttrib
    <2> HIDE DEF l, values
    <2>2. \A c \in Cell : picture'[c] \in {White, Gray, Transparent} \cup DOMAIN l
      BY <1>6, <1>7, ColourFacts
    <2>3. QED
      BY <2>1, <2>2
  <1>9. MapTypeOK'
    BY <1>1, <1>2, <1>3, <1>5, <1>8 DEF MapTypeOK, LegendInv
  <1>10. PictureIsTrue'
    <2>1. SUFFICES ASSUME \A c \in Cell : cells[c] # Missing, l # <<>>, NEW c \in Cell
          PROVE  IF \E j \in DOMAIN l : Matches(l[j], cells[c])
                 THEN picture'[c] \in DOMAIN l /\ Matches(l[picture'[c]], cells[c])
                 ELSE picture'[c] = White
                      /\ ~(groupMode = EqualSteps /\ cells[c] \in MinValue..MaxValue)
      BY <1>1 DEF PictureIsTrue, Matches, In
    <2>2. Len(values) = Cells /\ \A b \in 1..Cells : values[b] = cells[b]
      BY <1>3, <2>1
    <2>3. c \in 1..Cells /\ c <= Cells
      BY CellMapAssumption DEF Cell
    <2>4. picture'[c] = Colour(l, cells[c])
      BY <1>7, <2>2, <2>3
    <2>5. groupMode = EqualSteps /\ cells[c] \in MinValue..MaxValue =>
             \E j \in DOMAIN l : Matches(l[j], cells[c])
      <3>1. EqualSteps # UniqueValue
        BY CellMapAssumption
      <3>2. StepsInv'
        BY <1>5 DEF LegendInv
      <3>3. QED
        BY <1>1, <2>1, <3>1, <3>2 DEF StepsInv, Matches, In
    <2> HIDE DEF l, values
    <2>6. QED
      BY <1>6, <2>1, <2>4, <2>5, ColourFacts
  <1>11. QED
    BY <1>5, <1>9, <1>10 DEF MapInv, LegendInv

----------------------------------------------------------------------------
LEMMA InitMapInv == MapInit => MapInv
  <1> SUFFICES ASSUME MapInit PROVE MapInv
    OBVIOUS
  <1>1. legend = <<>> /\ counted = <<>> /\ valueList = Listed
    BY DEF MapInit
  <1>2. MapTypeOK
    BY CellMapAssumption DEF MapInit, MapTypeOK
  <1>3. ListInv
    BY <1>1, CellMapAssumption DEF ListInv, OnceEach
  <1>4. StepsInv /\ ColoursStay /\ PictureIsTrue
    BY <1>1 DEF StepsInv, ColoursStay, PictureIsTrue
  <1>5. CountedOnce
    BY <1>1, TotalOfNone DEF CountedOnce
  <1>6. QED
    BY <1>2, <1>3, <1>4, <1>5 DEF MapInv

LEMMA StepMapInv == MapInv /\ [MapNext]_mapVars => MapInv'
  <1> SUFFICES ASSUME MapInv, [MapNext]_mapVars PROVE MapInv'
    OBVIOUS
  <1>1. ASSUME NEW cells \in [Cell -> Number \cup {Missing}], DrawMap(cells) PROVE MapInv'
    BY <1>1, DrawMapStep
  <1>2. ASSUME UNCHANGED <<groupMode, numericValues, valueList, legend, builtLegend, picture,
                           drawn, counted>>,
               builtLegend \in 0..mapAttributes', mapAttributes' \in 1..MaxLayers
        PROVE  MapInv'
    <2>1. MapTypeOK'
      BY <1>2 DEF MapInv, MapTypeOK
    <2>2. ListInv' /\ StepsInv' /\ ColoursStay'
      BY <1>2 DEF MapInv, ListInv, OnceEach, StepsInv, In, ColoursStay
    <2>3. CountedOnce'
      BY <1>2 DEF MapInv, CountedOnce, Total
    <2>4. PictureIsTrue'
      BY <1>2 DEF MapInv, PictureIsTrue, Matches, In
    <2>5. QED
      BY <2>1, <2>2, <2>3, <2>4 DEF MapInv
  <1>3. builtLegend \in 0..mapAttributes /\ mapAttributes \in 1..MaxLayers /\ MaxLayers \in Nat
    BY CellMapAssumption DEF MapInv, MapTypeOK
  <1>4. CASE AddLayer
    <2>1. builtLegend \in 0..mapAttributes' /\ mapAttributes' \in 1..MaxLayers
      BY <1>3, <1>4 DEF AddLayer
    <2>2. QED
      BY <1>2, <1>4, <2>1 DEF AddLayer
  <1>5. CASE UNCHANGED mapVars
    BY <1>2, <1>3, <1>5 DEF mapVars
  <1>6. QED
    BY <1>1, <1>4, <1>5 DEF MapNext

LEMMA AlwaysMapInv == MapSpec => []MapInv
  BY InitMapInv, StepMapInv, PTL DEF MapSpec

(* What the map decodes, its legend and the colours of its picture are as  *)
(* their types say, whatever the cells send (decoder.cpp:25-330,           *)
(* legendWindow.cpp:597-913, painterThread.cpp:71-330).                    *)
THEOREM MapTyped == MapSpec => []MapTypeOK
  BY AlwaysMapInv, PTL DEF MapInv

(* Rounding the ends of the slices to the precision neither loses a value  *)
(* nor counts one twice, for any number of slices, any precision and any   *)
(* values; unique values that the legend writes alike are counted together *)
(* (legendWindow.cpp:597-750, 848-913, 1293-1420).                         *)
THEOREM EachValueCountedOnce == MapSpec => []CountedOnce
  BY AlwaysMapInv, PTL DEF MapInv

(* A value listed for a map keeps its place among the colours, even after  *)
(* values that are not listed (legendWindow.cpp:1278-1282).                *)
THEOREM ColoursKeepTheirPlaces == MapSpec => []ColoursStay
  BY AlwaysMapInv, PTL DEF MapInv

(* The picture shows, at each cell, the colour that the legend gives the   *)
(* value the cell had when it was drawn (painterThread.cpp:187-208).       *)
THEOREM TruePicture == MapSpec => []PictureIsTrue
  BY AlwaysMapInv, PTL DEF MapInv
=============================================================================
