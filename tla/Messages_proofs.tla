-------------------------- MODULE Messages_proofs --------------------------
(***************************************************************************)
(* What synchronize promises for any agents, delays and nesting of calls:  *)
(* its loop stays inside the vector, messages are delivered in time, and   *)
(* the vector of a Society is a Mailbox.                                   *)
(***************************************************************************)
EXTENDS Messages, SequenceTheorems, TLAPS

(* The vector is in the order in which the messages were sent.  Those that *)
(* were sent and are not in it were delivered, in time, until an error     *)
(* left synchronize.                                                       *)
Counted(n) ==
    /\ state[n] = Waits => delivered[n] = 0
    /\ state[n] = Over /\ ~broken => delivered[n] = 1
VectorInv ==
    /\ \A i, j \in DOMAIN messages : i < j => messages[i] < messages[j]
    /\ \A i \in DOMAIN messages : messages[i] <= sent
    /\ \A n \in Message : Counted(n)
    /\ \A n \in Message : n > sent => state[n] = Waits
    /\ \A n \in 1..sent : state[n] = Waits => \E i \in DOMAIN messages : messages[i] = n
    /\ ~broken => \A n \in 1..sent : state[n] = Over => due[n] <= clock

(* A message waits, and x is the time that will have been taken from its   *)
(* delay when the clock is reached.                                        *)
Waiting(i, x) == LET n == messages[i] IN
                 /\ state[n] = Waits /\ delay[n] > 0
                 /\ delay[n] = due[n] - clock + x

(* No synchronize is in progress. *)
Plain(i) == calls[i] \in Receiver /\ calls[i].message = Now
Outside ==
    /\ \A i \in DOMAIN calls : Plain(i)
    /\ ~broken => \A i \in DOMAIN messages : Waiting(i, 0)

(* The innermost synchronize is the call h.  It is in its loop, or in a    *)
(* receiver that it has called.  When it is inside another one it will     *)
(* meet the message of that one, whose delay is true, and not return.      *)
Open(h)   == h < Len(calls)
Nested(h) == \E g \in 1..(h - 1) : ~Plain(g)
Ahead(h, i) == /\ calls[h].k < i \/ (calls[h].k = i /\ ~Open(h))
               /\ i <= calls[h].k + calls[h].left - 1

ShapeInv(h) ==
    /\ calls[h] \in Sync
    /\ \A i \in DOMAIN calls : i > h =>
          calls[i] \in Receiver /\ (calls[i].message = Now <=> i # h + 1)
RangeInv(h) == calls[h].k > 0 /\ calls[h].k + calls[h].left - 1 <= Len(messages)
OpenInv(h) ==
    Open(h) => /\ calls[h].left > 0 /\ messages[calls[h].k] = calls[h + 1].message
               /\ state[messages[calls[h].k]] = Over
NestedInv(h) ==
    Nested(h) =>
        broken /\ \E i \in DOMAIN messages : Ahead(h, i) /\ state[messages[i]] = Over
DelayInv(h) ==
    ~broken => \A i \in DOMAIN messages :
        /\ Ahead(h, i) => Waiting(i, calls[h].amount)
        /\ i < calls[h].k \/ i > calls[h].k + calls[h].left - 1 => Waiting(i, 0)
Inner(h) == ShapeInv(h) /\ RangeInv(h) /\ OpenInv(h) /\ NestedInv(h) /\ DelayInv(h)

CallsInv == Outside \/ \E h \in DOMAIN calls : Inner(h)

Types ==
    /\ messages \in Seq(Message) /\ sent \in 0..MaxMessages
    /\ receiver \in [Message -> Agent] /\ delay \in [Message -> Int]
    /\ state \in [Message -> {Waits, Over}] /\ alive \subseteq Agent
    /\ calls \in Seq(Sync \cup Receiver)
    /\ clock \in Nat /\ due \in [Message -> Nat] /\ delivered \in [Message -> 0..1]
    /\ broken \in BOOLEAN

IInv == Types /\ VectorInv /\ CallsInv

----------------------------------------------------------------------------
LEMMA FrontFacts ==
    ASSUME NEW S, NEW s \in Seq(S), NEW n \in 0..Len(s)
    PROVE  /\ SubSeq(s, 1, n) \in Seq(S) /\ Len(SubSeq(s, 1, n)) = n
           /\ \A i \in 1..n : SubSeq(s, 1, n)[i] = s[i]
<1>1. Len(s) \in Nat /\ n \in Nat /\ n <= Len(s) /\ \A i \in 1..n : s[i] \in S
  OBVIOUS
<1>2. 1 \in 1..(Len(s) + 1)
  BY <1>1
<1> QED  BY <1>1, <1>2, SMTT(30)

(* The stack of calls. *)
LEMMA CallKinds ==
    \A x \in Sync \cup Receiver : /\ x.of = "synchronize" <=> x \in Sync
                                  /\ x.of = "receiver" <=> x \in Receiver
BY DEF Sync, Receiver

LEMMA PushFacts ==
    ASSUME Types, NEW x \in Sync \cup Receiver
    PROVE  /\ Push(x) \in Seq(Sync \cup Receiver)
           /\ Len(calls) \in Nat /\ Len(Push(x)) = Len(calls) + 1
           /\ DOMAIN calls = 1..Len(calls) /\ DOMAIN Push(x) = 1..(Len(calls) + 1)
           /\ Push(x)[Len(calls) + 1] = x
           /\ \A i \in 1..Len(calls) : Push(x)[i] = calls[i]
BY DEF Types, Push

LEMMA PopFacts ==
    ASSUME Types, calls # <<>>
    PROVE  /\ Pop \in Seq(Sync \cup Receiver)
           /\ Len(calls) \in Nat \ {0} /\ Len(Pop) = Len(calls) - 1
           /\ DOMAIN calls = 1..Len(calls) /\ DOMAIN Pop = 1..(Len(calls) - 1)
           /\ Frame = calls[Len(calls)] /\ Frame \in Sync \cup Receiver
           /\ \A i \in 1..(Len(calls) - 1) : Pop[i] = calls[i]
<1>1. calls \in Seq(Sync \cup Receiver) /\ Len(calls) \in Nat \ {0}
  BY DEF Types
<1>2. \A i \in 1..(Len(calls) - 1) : calls[i] \in Sync \cup Receiver
  BY <1>1
<1>3. /\ SubSeq(calls, 1, Len(calls) - 1) \in Seq(Sync \cup Receiver)
      /\ Len(SubSeq(calls, 1, Len(calls) - 1)) = Len(calls) - 1
      /\ \A i \in 1..(Len(calls) - 1) : SubSeq(calls, 1, Len(calls) - 1)[i] = calls[i]
  <2>1. Len(calls) - 1 \in 0..Len(calls)
    BY <1>1
  <2> QED  BY <1>1, <2>1, FrontFacts
<1> QED  BY <1>1, <1>2, <1>3 DEF Pop, Frame, Last

(* What is left of the vector when the message at k is removed. *)
LEMMA RemoveFacts ==
    ASSUME Types, NEW k \in DOMAIN messages
    PROVE  /\ RemoveFrom(k) \in Seq(Message)
           /\ Len(messages) \in Nat \ {0} /\ Len(RemoveFrom(k)) = Len(messages) - 1
           /\ DOMAIN messages = 1..Len(messages)
           /\ DOMAIN RemoveFrom(k) = 1..(Len(messages) - 1)
           /\ \A i \in DOMAIN RemoveFrom(k) :
                 RemoveFrom(k)[i] = messages[IF i < k THEN i ELSE i + 1]
           /\ \A j \in DOMAIN messages \ {k} : \E i \in DOMAIN RemoveFrom(k) :
                 j = IF i < k THEN i ELSE i + 1
<1>1. messages \in Seq(Message) /\ Len(messages) \in Nat \ {0} /\ k \in 1..Len(messages)
      /\ DOMAIN messages = 1..Len(messages)
  BY DEF Types
<1> DEFINE x == SubSeq(messages, 1, k - 1)
           y == SubSeq(messages, k + 1, Len(messages))
<1>2. x \in Seq(Message) /\ Len(x) = k - 1 /\ \A i \in 1..(k - 1) : x[i] = messages[i]
  <2>1. k - 1 \in 0..Len(messages)
    BY <1>1
  <2> QED  BY <1>1, <2>1, FrontFacts DEF x
<1>3. /\ y \in Seq(Message) /\ Len(y) = Len(messages) - k
      /\ \A i \in 1..(Len(messages) - k) : y[i] = messages[k + i]
  <2>1. \A i \in (k + 1)..Len(messages) : messages[i] \in Message
    BY <1>1
  <2> QED  BY <1>1, <2>1, SubSeqProperties
<1> HIDE DEF x, y
<1>4. /\ x \o y \in Seq(Message) /\ Len(x \o y) = Len(messages) - 1
      /\ \A i \in 1..(Len(messages) - 1) :
            (x \o y)[i] = IF i <= k - 1 THEN x[i] ELSE y[i - (k - 1)]
  <2>1. Len(x) + Len(y) = Len(messages) - 1
    BY <1>1, <1>2, <1>3
  <2>2. /\ x \o y \in Seq(Message) /\ Len(x \o y) = Len(x) + Len(y)
        /\ \A i \in 1..(Len(x) + Len(y)) :
              (x \o y)[i] = IF i <= Len(x) THEN x[i] ELSE y[i - Len(x)]
    BY <1>2, <1>3, ConcatProperties
  <2> QED  BY <1>2, <2>1, <2>2
<1>5. RemoveFrom(k) = x \o y
  BY DEF RemoveFrom, x, y
<1>6. \A i \in 1..(Len(messages) - 1) :
         RemoveFrom(k)[i] = messages[IF i < k THEN i ELSE i + 1]
  <2> SUFFICES ASSUME NEW i \in 1..(Len(messages) - 1)
               PROVE  (x \o y)[i] = messages[IF i < k THEN i ELSE i + 1]
    BY <1>5
  <2>1. CASE i < k
    <3>1. i \in 1..(k - 1)
      BY <1>1, <2>1
    <3> QED  BY <1>1, <1>2, <1>4, <2>1, <3>1
  <2>2. CASE i >= k
    <3>1. i - (k - 1) \in 1..(Len(messages) - k) /\ k + (i - (k - 1)) = i + 1
      BY <1>1, <2>2
    <3> QED  BY <1>1, <1>3, <1>4, <2>2, <3>1
  <2>3. i < k \/ i >= k
    BY <1>1
  <2> QED  BY <2>1, <2>2, <2>3
<1>7. DOMAIN RemoveFrom(k) = 1..(Len(messages) - 1)
  BY <1>4, <1>5, LenProperties
<1>8. \A j \in DOMAIN messages \ {k} : \E i \in 1..(Len(messages) - 1) :
         j = IF i < k THEN i ELSE i + 1
  <2> SUFFICES ASSUME NEW j \in 1..Len(messages), j # k
               PROVE  \E i \in 1..(Len(messages) - 1) : j = IF i < k THEN i ELSE i + 1
    BY <1>1
  <2>1. CASE j < k
    BY <1>1, <2>1
  <2>2. CASE j > k
    <3>1. j - 1 \in 1..(Len(messages) - 1) /\ ~(j - 1 < k) /\ (j - 1) + 1 = j
      BY <1>1, <2>2
    <3> QED  BY <3>1
  <2> QED  BY <1>1, <2>1, <2>2
<1> QED  BY <1>1, <1>4, <1>5, <1>6, <1>7, <1>8

(* The call on top of the stack, when it is synchronize, or the receiver   *)
(* of a message with delay.                                                *)
LEMMA InnerIsTop ==
    ASSUME Types, CallsInv, In("synchronize")
    PROVE  Inner(Len(calls))
<1>1. calls # <<>> /\ calls[Len(calls)].of = "synchronize"
  BY PopFacts DEF In, Frame
<1>2. Len(calls) \in Nat \ {0} /\ Len(calls) \in DOMAIN calls
      /\ calls[Len(calls)] \in Sync \cup Receiver /\ DOMAIN calls = 1..Len(calls)
  BY <1>1, PopFacts
<1>3. calls[Len(calls)] \notin Receiver
  BY <1>1, <1>2, CallKinds
<1>4. ~Outside
  BY <1>2, <1>3 DEF Outside, Plain
<1>5. PICK h \in DOMAIN calls : Inner(h)
  BY <1>4 DEF CallsInv
<1>6. ~(Len(calls) > h)
  BY <1>2, <1>3, <1>5 DEF Inner, ShapeInv
<1>7. h = Len(calls)
  BY <1>2, <1>6
<1> QED  BY <1>5, <1>7

LEMMA InnerIsBelow ==
    ASSUME Types, CallsInv, In("receiver"), Frame.message # Now
    PROVE  Len(calls) - 1 \in DOMAIN calls /\ Inner(Len(calls) - 1)
<1>1. calls # <<>> /\ calls[Len(calls)].of = "receiver" /\ calls[Len(calls)].message # Now
  BY PopFacts DEF In, Frame
<1>2. Len(calls) \in Nat \ {0} /\ Len(calls) \in DOMAIN calls
      /\ calls[Len(calls)] \in Sync \cup Receiver /\ DOMAIN calls = 1..Len(calls)
  BY <1>1, PopFacts
<1>3. calls[Len(calls)] \notin Sync
  BY <1>1, <1>2, CallKinds DEF Sync
<1>4. ~Outside
  BY <1>1, <1>2 DEF Outside, Plain
<1>5. PICK h \in DOMAIN calls : Inner(h)
  BY <1>4 DEF CallsInv
<1>6. h # Len(calls)
  BY <1>3, <1>5 DEF Inner, ShapeInv
<1>7. Len(calls) = h + 1
  BY <1>1, <1>2, <1>5, <1>6 DEF Inner, ShapeInv
<1> QED  BY <1>2, <1>5, <1>7

(* Between the calls of synchronize. *)
LEMMA OutsideOf ==
    ASSUME Types, CallsInv, ~InSync
    PROVE  Outside
<1>1. ASSUME NEW h \in DOMAIN calls, Inner(h) PROVE FALSE
  BY <1>1 DEF Inner, ShapeInv, Sync, InSync
<1> QED  BY <1>1 DEF CallsInv

(* The loop of synchronize stays inside the vector. *)
LEMMA LoopFits == IInv => TypeOK
<1> SUFFICES ASSUME IInv PROVE Looping => Frame.k + Frame.left - 1 <= Len(messages)
  BY DEF IInv, Types, TypeOK
<1>1. Types /\ CallsInv
  BY DEF IInv
<1> SUFFICES ASSUME Looping PROVE Frame.k + Frame.left - 1 <= Len(messages)
  OBVIOUS
<1>2. In("synchronize") /\ calls # <<>>
  BY DEF Looping, In
<1>3. Inner(Len(calls))
  BY <1>1, <1>2, InnerIsTop
<1> QED  BY <1>1, <1>2, <1>3, PopFacts DEF Inner, RangeInv

LEMMA InitInv == Init => IInv
<1> SUFFICES ASSUME Init PROVE IInv
  OBVIOUS
<1>1. messages = <<>> /\ calls = <<>> /\ DOMAIN messages = {} /\ DOMAIN calls = {}
  BY DEF Init
<1>2. Types
  <2>1. /\ messages \in Seq(Message) /\ calls \in Seq(Sync \cup Receiver)
        /\ sent \in 0..MaxMessages
    BY <1>1, MessagesAssumption DEF Init
  <2>2. /\ delay \in [Message -> Int] /\ due \in [Message -> Nat]
        /\ delivered \in [Message -> 0..1] /\ state \in [Message -> {Waits, Over}]
    BY DEF Init
  <2> QED  BY <2>1, <2>2 DEF Init, Types
<1>3. VectorInv
  <2>1. sent = 0 /\ \A n \in Message : delivered[n] = 0 /\ state[n] = Waits
    BY DEF Init
  <2>2. \A n \in Message : Counted(n)
    BY <2>1, MessagesAssumption DEF Counted
  <2> QED  BY <1>1, <2>1, <2>2, MessagesAssumption DEF VectorInv
<1>4. CallsInv
  BY <1>1 DEF CallsInv, Outside
<1> QED  BY <1>2, <1>3, <1>4 DEF IInv

----------------------------------------------------------------------------
(* The script and the receivers. *)
LEMMA SendInv ==
    ASSUME IInv, NEW a \in Agent, NEW d \in Delay, Send(a, d)
    PROVE  IInv'
<1> DEFINE n == sent + 1
<1>1. /\ Types /\ VectorInv /\ CallsInv /\ d \in Nat \ {0} /\ n \in Message
      /\ n \in Nat /\ sent \in Nat /\ n > sent /\ clock \in Nat
  BY MessagesAssumption DEF IInv, Types, Send, Message
<1>2. /\ Len(messages) \in Nat /\ DOMAIN messages = 1..Len(messages)
      /\ messages' \in Seq(Message) /\ Len(messages') = Len(messages) + 1
      /\ DOMAIN messages' = 1..(Len(messages) + 1)
      /\ messages'[Len(messages) + 1] = n
      /\ \A i \in DOMAIN messages : messages'[i] = messages[i]
      /\ \A i \in DOMAIN messages : messages[i] \in Message
  <2>1. messages \in Seq(Message) /\ messages' = Append(messages, n)
    BY <1>1 DEF Types, Send
  <2> HIDE DEF n
  <2> QED  BY <1>1, <2>1
<1>3. \A i \in DOMAIN messages : messages[i] <= sent /\ messages[i] # n
  <2>1. \A i \in DOMAIN messages : messages[i] \in Nat /\ messages[i] <= sent
    BY <1>1, <1>2 DEF VectorInv, Message
  <2> QED  BY <1>1, <2>1
<1>4. /\ n \in Message /\ state[n] = Waits /\ state' = state /\ sent' = n
      /\ delay'[n] = d /\ due'[n] = clock + d
      /\ \A m \in Message \ {n} : delay'[m] = delay[m] /\ due'[m] = due[m]
      /\ UNCHANGED <<calls, clock, delivered, broken>>
  BY <1>1 DEF Send, Types, VectorInv
<1> HIDE DEF n
<1>n. n = sent + 1 /\ clock + d \in Nat /\ d \in Int
  BY <1>1 DEF n
<1>5. Types'
  <2>1. n \in 0..MaxMessages
    BY <1>1, MessagesAssumption DEF Message
  <2>2. delay' \in [Message -> Int] /\ due' \in [Message -> Nat]
    BY <1>1, <1>n DEF Send, Types
  <2>3. receiver' \in [Message -> Agent]
    BY <1>1 DEF Send, Types
  <2> QED  BY <1>1, <1>2, <1>4, <2>1, <2>2, <2>3 DEF Types, Send
<1>6. VectorInv'
  <2>1. \A i, j \in DOMAIN messages' : i < j => messages'[i] < messages'[j]
    <3> SUFFICES ASSUME NEW i \in DOMAIN messages', NEW j \in DOMAIN messages', i < j
                 PROVE  messages'[i] < messages'[j]
      OBVIOUS
    <3>1. i \in DOMAIN messages /\ messages'[i] = messages[i] /\ messages[i] \in Nat
      BY <1>2 DEF Message
    <3>2. CASE j \in DOMAIN messages
      BY <1>1, <1>2, <3>1, <3>2 DEF VectorInv
    <3>3. CASE j = Len(messages) + 1
      BY <1>1, <1>2, <1>3, <3>1, <3>3
    <3> QED  BY <1>2, <3>2, <3>3
  <2>2. \A i \in DOMAIN messages' : messages'[i] <= sent'
    <3> SUFFICES ASSUME NEW i \in DOMAIN messages' PROVE messages'[i] <= n
      BY <1>4
    <3>1. CASE i \in DOMAIN messages
      <4>1. messages[i] \in Nat /\ messages[i] <= sent
        BY <1>2, <1>3, <3>1 DEF Message
      <4> QED  BY <1>1, <1>2, <3>1, <4>1
    <3> QED  BY <1>1, <1>2, <3>1
  <2>3. \A m \in Message : m > n => m > sent
    BY <1>1, <1>n DEF Message
  <2>4. \A m \in 1..n : state[m] = Waits => \E i \in DOMAIN messages' : messages'[i] = m
    <3>1. \A m \in 1..n : m = n \/ m \in 1..sent
      BY <1>1, <1>n
    <3> QED  BY <1>1, <1>2, <3>1 DEF VectorInv
  <2>5. ~broken => \A m \in 1..n : state[m] = Over => due'[m] <= clock
    <3>1. \A m \in 1..n : m = n \/ (m \in 1..sent /\ m # n /\ m \in Message)
      BY <1>1, <1>n, MessagesAssumption DEF Message
    <3>2. Waits # Over
      BY MessagesAssumption
    <3> QED  BY <1>1, <1>4, <3>1, <3>2 DEF VectorInv
  <2> QED  BY <1>1, <1>4, <2>1, <2>2, <2>3, <2>4, <2>5 DEF VectorInv, Counted
<1>7. \A i \in DOMAIN messages, x \in Nat : Waiting(i, x) => Waiting(i, x)'
  BY <1>2, <1>3, <1>4 DEF Waiting
<1>8. \A i \in DOMAIN messages' : i \notin DOMAIN messages => Waiting(i, 0)'
  BY <1>1, <1>2, <1>4 DEF Waiting
<1>9. CallsInv'
  <2>1. CASE Outside
    BY <1>2, <1>4, <1>7, <1>8, <2>1 DEF Outside, Plain, CallsInv
  <2>2. ASSUME NEW h \in DOMAIN calls, Inner(h) PROVE Inner(h)'
    <3>1. calls[h] \in Sync /\ calls[h].k \in Nat /\ calls[h].left \in Nat
          /\ calls[h].amount \in Nat
      BY <2>2, MessagesAssumption DEF Inner, ShapeInv, Sync
    <3>2. ShapeInv(h)'
      BY <1>4, <2>2 DEF Inner, ShapeInv
    <3>3. RangeInv(h)'
      BY <1>2, <1>4, <2>2, <3>1 DEF Inner, RangeInv
    <3>4. OpenInv(h)'
      <4>1. Open(h) => calls[h].k \in DOMAIN messages
        BY <1>2, <2>2, <3>1 DEF Inner, OpenInv, RangeInv
      <4> QED  BY <1>2, <1>4, <2>2, <4>1 DEF Inner, OpenInv, Open
    <3>5. NestedInv(h)'
      BY <1>2, <1>4, <2>2 DEF Inner, NestedInv, Nested, Plain, Ahead, Open
    <3>6. DelayInv(h)'
      <4>1. calls' = calls /\ broken' = broken
        BY <1>4
      <4> SUFFICES ASSUME ~broken, NEW i \in DOMAIN messages',
                          NEW x \in Nat, x = calls[h].amount
                   PROVE  /\ Ahead(h, i) => Waiting(i, x)'
                          /\ i < calls[h].k \/ i > calls[h].k + calls[h].left - 1
                                => Waiting(i, 0)'
        BY <3>1, <4>1 DEF DelayInv, Ahead, Open, Waiting
      <4>2. CASE i \in DOMAIN messages
        BY <1>7, <2>2, <3>1, <4>2 DEF Inner, DelayInv
      <4>3. CASE i \notin DOMAIN messages
        <5>1. i = Len(messages) + 1
          BY <1>2, <4>3
        <5>2. ~Ahead(h, i)
          BY <1>2, <2>2, <3>1, <5>1 DEF Inner, RangeInv, Ahead
        <5> QED  BY <1>8, <4>3, <5>1, <5>2, <1>2, <3>1
      <4> QED  BY <4>2, <4>3
    <3> QED  BY <3>2, <3>3, <3>4, <3>5, <3>6 DEF Inner
  <2> QED  BY <1>1, <1>4, <2>1, <2>2 DEF CallsInv
<1> QED  BY <1>5, <1>6, <1>9 DEF IInv

(* What does not change when a receiver is called or returns. *)
LEMMA VectorKept ==
    ASSUME VectorInv, UNCHANGED <<mail, due, delivered, clock>>, broken => broken'
    PROVE  VectorInv'
BY DEF VectorInv, Counted, mail

LEMMA SendNowInv ==
    ASSUME IInv, NEW a \in Agent, SendNow(a)
    PROVE  IInv'
<1> DEFINE x == [of |-> "receiver", message |-> Now]
<1>1. /\ Types /\ VectorInv /\ CallsInv /\ x \in Receiver /\ x.message = Now
      /\ UNCHANGED <<mail, alive, hist>> /\ calls' = Push(x)
  BY DEF IInv, SendNow, Receiver
<1> HIDE DEF x
<1>2. /\ Push(x) \in Seq(Sync \cup Receiver)
      /\ Len(calls) \in Nat /\ Len(Push(x)) = Len(calls) + 1
      /\ DOMAIN calls = 1..Len(calls) /\ DOMAIN Push(x) = 1..(Len(calls) + 1)
      /\ Push(x)[Len(calls) + 1] = x
      /\ \A i \in 1..Len(calls) : Push(x)[i] = calls[i]
  BY <1>1, PushFacts
<1>3. Types'
  BY <1>1, <1>2 DEF Types, mail, hist
<1>4. VectorInv'
  <2>1. UNCHANGED <<mail, due, delivered, clock>> /\ (broken => broken')
    BY <1>1 DEF hist
  <2> QED  BY <1>1, <2>1, VectorKept
<1>5. CASE Outside
  <2>1. Outside'
    <3>1. \A i \in DOMAIN calls' : i \in DOMAIN calls \/ i = Len(calls) + 1
      BY <1>1, <1>2
    <3> QED  BY <1>1, <1>2, <1>5, <3>1 DEF Outside, Plain, Waiting, mail, hist
  <2> QED  BY <1>3, <1>4, <2>1 DEF IInv, CallsInv
<1>6. ASSUME NEW h \in DOMAIN calls, Inner(h) PROVE IInv'
  <2>1. Open(h) /\ h + 1 <= Len(calls)
    <3>1. calls # <<>> /\ In("receiver")
      BY <1>6 DEF SendNow, MayCall
    <3>2. calls[Len(calls)].of = "receiver"
      BY <1>1, <3>1, PopFacts DEF In, Frame
    <3>3. h # Len(calls)
      BY <1>6, <3>2 DEF Inner, ShapeInv, Sync
    <3> QED  BY <1>2, <3>3 DEF Open
  <2>2. h \in DOMAIN calls' /\ calls'[h] = calls[h] /\ calls'[h + 1] = calls[h + 1]
        /\ Open(h)' /\ \A g \in 1..h : calls'[g] = calls[g]
    BY <1>1, <1>2, <2>1 DEF Open
  <2>3. ShapeInv(h)'
    <3>1. \A i \in DOMAIN calls' : i \in DOMAIN calls \/ (i = Len(calls) + 1 /\ i # h + 1)
      BY <1>1, <1>2, <2>1
    <3> QED  BY <1>1, <1>2, <1>6, <2>2, <3>1 DEF Inner, ShapeInv
  <2>4. RangeInv(h)' /\ OpenInv(h)'
    BY <1>1, <1>6, <2>1, <2>2 DEF Inner, RangeInv, OpenInv, mail
  <2>5. NestedInv(h)'
    <3>1. Nested(h)' => Nested(h)
      BY <1>2, <2>2 DEF Nested, Plain
    <3>2. \A i : Ahead(h, i) => Ahead(h, i)'
      BY <2>1, <2>2 DEF Ahead
    <3> QED  BY <1>1, <1>6, <3>1, <3>2 DEF Inner, NestedInv, mail, hist
  <2>6. DelayInv(h)'
    BY <1>1, <1>6, <2>1, <2>2 DEF Inner, DelayInv, Waiting, Ahead, mail, hist
  <2> QED  BY <1>3, <1>4, <2>2, <2>3, <2>4, <2>5, <2>6 DEF IInv, CallsInv, Inner
<1> QED  BY <1>1, <1>5, <1>6 DEF CallsInv

LEMMA DieInv ==
    ASSUME IInv, UNCHANGED <<mail, calls, hist>>, alive' \subseteq Agent
    PROVE  IInv'
<1>1. UNCHANGED <<mail, calls, hist>> /\ alive' \subseteq Agent
  OBVIOUS
<1>2. Types'
  BY <1>1 DEF IInv, Types, mail, hist
<1>3. VectorInv'
  BY <1>1 DEF IInv, VectorInv, Counted, mail, hist
<1>4. ASSUME Outside PROVE Outside'
  BY <1>1, <1>4 DEF Outside, Plain, Waiting, mail, hist
<1>5. ASSUME NEW h \in DOMAIN calls, Inner(h) PROVE Inner(h)'
  BY <1>1, <1>5 DEF Inner, ShapeInv, RangeInv, OpenInv, NestedInv, DelayInv, Nested, Plain,
                    Open, Ahead, Waiting, mail, hist
<1>6. CallsInv'
  BY <1>1, <1>4, <1>5 DEF IInv, CallsInv
<1> QED  BY <1>2, <1>3, <1>6 DEF IInv

(* An error ends all calls. *)
LEMMA RaisesInv ==
    ASSUME IInv, SubtractRaises \/ ReceiverRaises
    PROVE  IInv'
<1>1. /\ Types /\ VectorInv /\ CallsInv /\ calls' = <<>> /\ DOMAIN calls' = {}
      /\ UNCHANGED <<mail, alive, clock, due, delivered>>
      /\ (broken => broken') /\ broken' \in BOOLEAN
  <2>1. broken \in BOOLEAN /\ InSync \in BOOLEAN
    BY DEF IInv, Types, InSync
  <2>2. CASE SubtractRaises
    BY <2>1, <2>2 DEF IInv, SubtractRaises
  <2>3. CASE ReceiverRaises
    <3> HIDE DEF InSync
    <3> QED  BY <2>1, <2>3 DEF IInv, ReceiverRaises
  <2> QED  BY <2>2, <2>3
<1>2. Types'
  <2>1. <<>> \in Seq(Sync \cup Receiver)
    OBVIOUS
  <2> QED  BY <1>1, <2>1 DEF Types, mail
<1>3. VectorInv'
  BY <1>1, VectorKept
<1>4. Outside'
  <2>1. CASE broken'
    BY <1>1, <2>1 DEF Outside
  <2>2. CASE ~broken'
    <3>1. ~broken /\ ~InSync
      BY <1>1, <2>2 DEF SubtractRaises, ReceiverRaises
    <3>2. Outside
      BY <1>1, <3>1, OutsideOf
    <3> QED  BY <1>1, <3>1, <3>2 DEF Outside, Waiting, mail
  <2> QED  BY <2>1, <2>2
<1> QED  BY <1>2, <1>3, <1>4 DEF IInv, CallsInv

----------------------------------------------------------------------------
(* synchronize. *)
LEMMA SynchronizeInv ==
    ASSUME IInv, NEW d \in Amount, Synchronize(d)
    PROVE  IInv'
<1> DEFINE x == [of |-> "synchronize", k |-> 1, left |-> Len(messages), amount |-> d]
<1>h. PICK h : h = Len(calls) + 1
  OBVIOUS
<1>1. /\ Types /\ VectorInv /\ CallsInv /\ d \in Nat \ {0}
      /\ UNCHANGED <<mail, alive, due, delivered>> /\ calls' = Push(x)
      /\ clock' = clock + d /\ clock \in Nat /\ broken' = (broken \/ InSync)
  BY MessagesAssumption DEF IInv, Types, Synchronize
<1>2. /\ Len(messages) \in Nat /\ DOMAIN messages = 1..Len(messages)
      /\ \A i \in DOMAIN messages : messages[i] \in Message
  <2>1. messages \in Seq(Message)
    BY <1>1 DEF Types
  <2> QED  BY <2>1
<1>3. /\ x \in Sync /\ x.k = 1 /\ x.left = Len(messages) /\ x.amount = d
  BY <1>2 DEF Sync
<1> HIDE DEF x
<1>4. /\ Push(x) \in Seq(Sync \cup Receiver)
      /\ Len(calls) \in Nat /\ Len(Push(x)) = Len(calls) + 1
      /\ DOMAIN calls = 1..Len(calls) /\ DOMAIN Push(x) = 1..(Len(calls) + 1)
      /\ Push(x)[Len(calls) + 1] = x
      /\ \A i \in 1..Len(calls) : Push(x)[i] = calls[i]
  BY <1>1, <1>3, PushFacts
<1>5. Types'
  <2>1. broken' \in BOOLEAN
    <3>1. broken \in BOOLEAN /\ InSync \in BOOLEAN
      BY <1>1 DEF Types, InSync
    <3> HIDE DEF InSync
    <3> QED  BY <1>1, <3>1
  <2>2. clock' \in Nat
    BY <1>1
  <2> QED  BY <1>1, <1>4, <2>1, <2>2 DEF Types, mail
<1>6. VectorInv'
  <2>1. \A n \in 1..sent : due[n] <= clock => due[n] <= clock'
    <3>1. \A n \in 1..sent : due[n] \in Nat
      BY <1>1, MessagesAssumption DEF Types, Message
    <3> QED  BY <1>1, <3>1
  <2>2. broken => broken'
    BY <1>1
  <2> QED  BY <1>1, <2>1, <2>2 DEF VectorInv, Counted, mail
<1>7. h \in DOMAIN calls' /\ calls'[h] = x /\ Len(calls') = h /\ ~Open(h)'
  BY <1>h, <1>1, <1>4 DEF Open
<1>8. ShapeInv(h)' /\ RangeInv(h)' /\ OpenInv(h)'
  <2>1. \A i \in DOMAIN calls' : ~(i > h)
    BY <1>h, <1>1, <1>4
  <2>2. ShapeInv(h)'
    BY <1>3, <1>7, <2>1 DEF ShapeInv
  <2>3. RangeInv(h)'
    BY <1>1, <1>2, <1>3, <1>7 DEF RangeInv, mail
  <2> QED  BY <1>7, <2>2, <2>3 DEF OpenInv
<1>9. NestedInv(h)'
  <2> SUFFICES ASSUME Nested(h)'
               PROVE  broken' /\ \E i \in DOMAIN messages' :
                          Ahead(h, i)' /\ state'[messages'[i]] = Over
    BY DEF NestedInv
  <2>1. ~Outside
    <3>1. PICK g \in 1..Len(calls) : ~(calls'[g] \in Receiver /\ calls'[g].message = Now)
      BY <1>h, <1>4 DEF Nested, Plain
    <3> QED  BY <1>1, <1>4, <3>1 DEF Outside, Plain
  <2>2. PICK g \in DOMAIN calls : Inner(g)
    BY <1>1, <2>1 DEF CallsInv
  <2>3. calls # <<>> /\ In("receiver")
    BY <2>2, <1>4 DEF Synchronize, MayCall
  <2>4. calls[Len(calls)].of = "receiver"
    BY <1>1, <2>3, PopFacts DEF In, Frame
  <2>5. calls[g].of = "synchronize" /\ calls[g].k \in Nat /\ calls[g].left \in Nat
    BY <2>2 DEF Inner, ShapeInv, Sync
  <2>6. Open(g)
    BY <1>4, <2>4, <2>5 DEF Open
  <2>7. broken'
    BY <1>1, <2>5 DEF InSync
  <2>8. calls[g].k \in DOMAIN messages /\ state[messages[calls[g].k]] = Over
    BY <1>2, <2>2, <2>5, <2>6 DEF Inner, RangeInv, OpenInv
  <2>9. \A i \in DOMAIN messages : Ahead(h, i)'
    BY <1>2, <1>3, <1>7 DEF Ahead
  <2> QED  BY <1>1, <2>7, <2>8, <2>9 DEF mail
<1>10. DelayInv(h)'
  <2> SUFFICES ASSUME ~broken', NEW i \in DOMAIN messages'
               PROVE  Waiting(i, d)' /\ ~(i < x.k \/ i > x.k + x.left - 1)
    BY <1>3, <1>7 DEF DelayInv, Waiting
  <2>1. Outside /\ ~broken
    BY <1>1, OutsideOf
  <2>2. Waiting(i, 0)
    BY <1>1, <2>1 DEF Outside, mail
  <2>3. messages[i] \in Message /\ due[messages[i]] \in Nat /\ delay[messages[i]] \in Int
    BY <1>1, <1>2 DEF Types, mail
  <2> QED  BY <1>1, <1>2, <1>3, <2>2, <2>3 DEF Waiting, mail
<1>11. CallsInv'
  BY <1>7, <1>8, <1>9, <1>10 DEF Inner, CallsInv
<1> QED  BY <1>5, <1>6, <1>11 DEF IInv

(* The loop of synchronize on top of the stack. *)
LEMMA LoopFacts ==
    ASSUME Types, CallsInv, In("synchronize")
    PROVE  /\ Len(calls) \in Nat \ {0} /\ DOMAIN calls = 1..Len(calls)
           /\ Inner(Len(calls)) /\ Frame = calls[Len(calls)] /\ Frame \in Sync
           /\ Frame.k \in Nat \ {0} /\ Frame.left \in Nat /\ Frame.amount \in Nat
           /\ Len(messages) \in Nat /\ DOMAIN messages = 1..Len(messages)
           /\ \A i \in DOMAIN messages : messages[i] \in Message
           /\ Looping => Frame.k \in DOMAIN messages
<1>1. calls # <<>> /\ Inner(Len(calls))
  BY InnerIsTop DEF In
<1>2. Len(calls) \in Nat \ {0} /\ DOMAIN calls = 1..Len(calls) /\ Frame = calls[Len(calls)]
  BY <1>1, PopFacts
<1>3. messages \in Seq(Message)
  BY DEF Types
<1>4. /\ Frame \in Sync /\ Frame.k \in Nat \ {0} /\ Frame.left \in Nat /\ Frame.amount \in Nat
      /\ Frame.k + Frame.left - 1 <= Len(messages)
  <2>1. Frame \in Sync /\ Frame.k > 0 /\ Frame.k + Frame.left - 1 <= Len(messages)
    BY <1>1, <1>2 DEF Inner, ShapeInv, RangeInv
  <2>2. Frame.k \in Nat /\ Frame.left \in Nat /\ Frame.amount \in Amount
    BY <2>1 DEF Sync
  <2>3. Amount \subseteq Nat
    BY MessagesAssumption
  <2>4. Frame.k \in Nat \ {0}
    BY <2>1, <2>2
  <2> QED  BY <2>1, <2>2, <2>3, <2>4
<1>5. Looping => Frame.k \in DOMAIN messages
  BY <1>3, <1>4 DEF Looping
<1> QED  BY <1>1, <1>2, <1>3, <1>4, <1>5

(* It goes on to the message at k. *)
LEMMA WalkFacts ==
    ASSUME Types, CallsInv, Looping, NEW k \in Nat
    PROVE  LET y == [Frame EXCEPT !.k = k, !.left = @ - 1] IN
           /\ y \in Sync /\ y.k = k /\ y.left = Frame.left - 1 /\ y.amount = Frame.amount
           /\ Walk(k) \in Seq(Sync \cup Receiver) /\ Len(Walk(k)) = Len(calls)
           /\ DOMAIN Walk(k) = DOMAIN calls /\ Walk(k)[Len(calls)] = y
           /\ \A g \in 1..(Len(calls) - 1) : Walk(k)[g] = calls[g]
<1> DEFINE y == [Frame EXCEPT !.k = k, !.left = @ - 1]
<1>1. In("synchronize") /\ Frame.left > 0 /\ calls # <<>>
  BY DEF Looping, In
<1>2. Frame \in Sync /\ Frame.left - 1 \in Nat
  BY <1>1, LoopFacts
<1>3. y \in Sync /\ y.k = k /\ y.left = Frame.left - 1 /\ y.amount = Frame.amount
  BY <1>2 DEF Sync
<1> HIDE DEF y
<1>4. /\ Pop \in Seq(Sync \cup Receiver) /\ Len(Pop) = Len(calls) - 1
      /\ Len(calls) \in Nat \ {0} /\ DOMAIN calls = 1..Len(calls)
      /\ \A i \in 1..(Len(calls) - 1) : Pop[i] = calls[i]
  BY <1>1, PopFacts
<1>5. /\ Append(Pop, y) \in Seq(Sync \cup Receiver) /\ Len(Append(Pop, y)) = Len(calls)
      /\ DOMAIN Append(Pop, y) = 1..Len(calls) /\ Append(Pop, y)[Len(calls)] = y
      /\ \A g \in 1..(Len(calls) - 1) : Append(Pop, y)[g] = Pop[g]
  BY <1>3, <1>4
<1>6. Walk(k) = Append(Pop, y)
  BY DEF Walk, y
<1> QED  BY <1>3, <1>4, <1>5, <1>6 DEF y

(* The calls below the innermost synchronize do not change. *)
LEMMA NestedBefore ==
    ASSUME NEW h \in Nat, \A g \in 1..(h - 1) : calls'[g] = calls[g]
    PROVE  Nested(h)' <=> Nested(h)
BY DEF Nested, Plain

LEMMA SkipMessageInv ==
    ASSUME IInv, SkipMessage
    PROVE  IInv'
<1>1. Types /\ VectorInv /\ CallsInv /\ Looping /\ In("synchronize")
  BY DEF IInv, SkipMessage, Looping
<1>h. PICK h : h = Len(calls)
  OBVIOUS
<1>k. PICK k : k = Frame.k
  OBVIOUS
<1>2. /\ h \in Nat \ {0} /\ h \in DOMAIN calls /\ DOMAIN calls = 1..h /\ Inner(h)
      /\ calls[h] = Frame /\ Frame \in Sync
      /\ k \in Nat \ {0} /\ Frame.left \in Nat \ {0} /\ Frame.amount \in Nat
      /\ Len(messages) \in Nat /\ DOMAIN messages = 1..Len(messages)
      /\ \A i \in DOMAIN messages : messages[i] \in Message
      /\ k \in DOMAIN messages
  BY <1>1, <1>h, <1>k, LoopFacts DEF Looping
<1>3. /\ calls' \in Seq(Sync \cup Receiver) /\ Len(calls') = h /\ DOMAIN calls' = DOMAIN calls
      /\ calls'[h] \in Sync /\ calls'[h].k = k + 1 /\ calls'[h].left = Frame.left - 1
      /\ calls'[h].amount = Frame.amount /\ \A g \in 1..(h - 1) : calls'[g] = calls[g]
  <2>1. calls' = Walk(k + 1) /\ k + 1 \in Nat
    BY <1>2, <1>k DEF SkipMessage
  <2>2. /\ Walk(k + 1) \in Seq(Sync \cup Receiver) /\ Len(Walk(k + 1)) = Len(calls)
        /\ DOMAIN Walk(k + 1) = DOMAIN calls
        /\ Walk(k + 1)[Len(calls)] \in Sync /\ Walk(k + 1)[Len(calls)].k = k + 1
        /\ Walk(k + 1)[Len(calls)].left = Frame.left - 1
        /\ Walk(k + 1)[Len(calls)].amount = Frame.amount
        /\ \A g \in 1..(Len(calls) - 1) : Walk(k + 1)[g] = calls[g]
    BY <1>1, <2>1, WalkFacts
  <2> QED  BY <1>h, <2>1, <2>2
<1>4. /\ UNCHANGED <<messages, sent, receiver, state, alive, clock, due, delivered, broken>>
      /\ Current = messages[k] /\ state[messages[k]] = Waits
      /\ delay[messages[k]] - Frame.amount > 0
      /\ delay' = [delay EXCEPT ![messages[k]] = delay[messages[k]] - Frame.amount]
  BY <1>k DEF SkipMessage, NotYet, DelayLeft, Current, hist
<1>5. /\ delay \in [Message -> Int] /\ messages[k] \in Message
      /\ delay'[messages[k]] = delay[messages[k]] - Frame.amount
      /\ \A n \in Message : n # messages[k] => delay'[n] = delay[n]
  BY <1>1, <1>2, <1>4 DEF Types
<1>6. Types'
  <2>1. delay' \in [Message -> Int]
    BY <1>2, <1>4, <1>5
  <2> QED  BY <1>1, <1>3, <1>4, <2>1 DEF Types
<1>7. VectorInv'
  BY <1>1, <1>4 DEF VectorInv, Counted
<1>8. ~Open(h) /\ ~Open(h)'
  BY <1>2, <1>3, <1>h DEF Open
<1>9. ShapeInv(h)' /\ RangeInv(h)' /\ OpenInv(h)'
  <2>1. \A i \in DOMAIN calls' : ~(i > h)
    BY <1>2, <1>3
  <2>2. ShapeInv(h)'
    BY <1>3, <2>1 DEF ShapeInv
  <2>3. RangeInv(h)'
    BY <1>2, <1>3, <1>4, <1>k DEF Inner, RangeInv
  <2> QED  BY <1>8, <2>2, <2>3 DEF OpenInv
<1>10. \A i \in DOMAIN messages : i # k => (Ahead(h, i)' <=> Ahead(h, i))
  BY <1>2, <1>3, <1>8, <1>k DEF Ahead
<1>11. NestedInv(h)'
  <2>1. Nested(h)' <=> Nested(h)
    BY <1>2, <1>3, NestedBefore
  <2>2. Waits # Over
    BY MessagesAssumption
  <2>3. ASSUME Nested(h) PROVE broken /\ \E i \in DOMAIN messages : Ahead(h, i)' /\ state[messages[i]] = Over
    <3>1. PICK i \in DOMAIN messages : Ahead(h, i) /\ state[messages[i]] = Over
      BY <1>2, <2>3 DEF Inner, NestedInv
    <3>2. i # k
      BY <1>4, <2>2, <3>1
    <3> QED  BY <1>2, <1>10, <2>3, <3>1, <3>2 DEF Inner, NestedInv
  <2> QED  BY <1>4, <2>1, <2>3 DEF NestedInv
<1>12. DelayInv(h)'
  <2> SUFFICES ASSUME ~broken, NEW i \in DOMAIN messages, NEW x \in Nat, x = Frame.amount
               PROVE  /\ Ahead(h, i)' => Waiting(i, x)'
                      /\ i < k + 1 \/ i > k + 1 + (Frame.left - 1) - 1 => Waiting(i, 0)'
    BY <1>2, <1>3, <1>4 DEF DelayInv, Waiting
  <2>1. /\ Ahead(h, i) => Waiting(i, x)
        /\ i < k \/ i > k + Frame.left - 1 => Waiting(i, 0)
    BY <1>2, <1>k DEF Inner, DelayInv
  <2>2. CASE i = k
    <3>1. Waiting(k, x)
      BY <1>2, <1>8, <1>k, <2>1, <2>2 DEF Ahead
    <3>2. clock \in Nat /\ due[messages[k]] \in Nat
      BY <1>1, <1>5 DEF Types
    <3>3. Waiting(k, 0)'
      BY <1>4, <1>5, <3>1, <3>2 DEF Waiting
    <3>4. ~Ahead(h, k)'
      BY <1>2, <1>3 DEF Ahead
    <3> QED  BY <2>2, <3>3, <3>4
  <2>3. CASE i # k
    <3>1. messages[i] # messages[k] /\ messages[i] \in Message
      <4>1. i \in Nat /\ k \in Nat /\ messages[i] \in Nat /\ messages[k] \in Nat
        BY <1>2, MessagesAssumption DEF Message
      <4>2. i < k \/ k < i
        BY <2>3, <4>1
      <4> QED  BY <1>1, <1>2, <4>1, <4>2 DEF VectorInv
    <3>2. \A y \in Nat : Waiting(i, y) => Waiting(i, y)'
      BY <1>4, <1>5, <3>1 DEF Waiting
    <3>3. i < k + 1 \/ i > k + 1 + (Frame.left - 1) - 1 => i < k \/ i > k + Frame.left - 1
      BY <1>2, <2>3
    <3> QED  BY <1>10, <2>1, <2>3, <3>2, <3>3
  <2> QED  BY <2>2, <2>3
<1>13. CallsInv'
  BY <1>2, <1>3, <1>9, <1>11, <1>12 DEF CallsInv, Inner
<1> QED  BY <1>6, <1>7, <1>13 DEF IInv

(* No message is twice in the vector. *)
LEMMA InjectiveVector ==
    ASSUME Types, VectorInv, NEW i \in DOMAIN messages, NEW j \in DOMAIN messages, i # j
    PROVE  messages[i] # messages[j] /\ messages[i] \in Message
<1>1. messages \in Seq(Message) /\ i \in Nat /\ j \in Nat
  BY DEF Types
<1>2. messages[i] \in Message /\ messages[i] \in Nat /\ messages[j] \in Nat
  BY <1>1, MessagesAssumption DEF Message
<1>3. i < j \/ j < i
  BY <1>1
<1> QED  BY <1>2, <1>3 DEF VectorInv

(* The message whose delay is over is delivered for the first time, in     *)
(* time when no error has left a receiver.                                 *)
LEMMA DeliveredFacts ==
    ASSUME IInv, Looping, state[Current] = Waits, ~NotYet,
           delay' = [delay EXCEPT ![Current] = DelayLeft],
           state' = [state EXCEPT ![Current] = Over],
           delivered' = [delivered EXCEPT ![Current] = @ + 1],
           UNCHANGED <<sent, clock, due, broken>>
    PROVE  /\ Current \in Message /\ Current \in 1..sent
           /\ delay' \in [Message -> Int] /\ state' \in [Message -> {Waits, Over}]
           /\ delivered' \in [Message -> 0..1]
           /\ state'[Current] = Over
           /\ \A n \in Message : n # Current => state'[n] = state[n] /\ delay'[n] = delay[n]
           /\ \A n \in Message : Counted(n)'
           /\ \A n \in Message : n > sent => state'[n] = Waits
           /\ ~broken => due[Current] <= clock
<1>1. Types /\ VectorInv /\ CallsInv /\ In("synchronize")
  BY DEF IInv, Looping
<1>2. /\ Frame.k \in DOMAIN messages /\ Current = messages[Frame.k] /\ Current \in Message
      /\ Frame.amount \in Nat /\ Frame.k \in Nat \ {0} /\ Frame.left \in Nat \ {0}
      /\ Inner(Len(calls)) /\ Frame = calls[Len(calls)] /\ Len(calls) \in Nat
  BY <1>1, LoopFacts DEF Current, Looping
<1>3. Current \in 1..sent
  <2>1. messages[Frame.k] <= sent
    BY <1>1, <1>2 DEF VectorInv
  <2> QED  BY <1>1, <1>2, <2>1, MessagesAssumption DEF Types, Message
<1>4. delay[Current] \in Int /\ DelayLeft = delay[Current] - Frame.amount /\ DelayLeft \in Int
  BY <1>1, <1>2 DEF Types, DelayLeft
<1>5. delay' \in [Message -> Int] /\ state' \in [Message -> {Waits, Over}]
  BY <1>1, <1>2, <1>4 DEF Types
<1>6. /\ state'[Current] = Over
      /\ \A n \in Message : n # Current => state'[n] = state[n] /\ delay'[n] = delay[n]
                                           /\ delivered'[n] = delivered[n]
  BY <1>1, <1>2 DEF Types
<1>7. delivered[Current] = 0 /\ delivered'[Current] = 1
  BY <1>1, <1>2 DEF VectorInv, Counted, Types
<1>8. delivered' \in [Message -> 0..1]
  BY <1>1, <1>2, <1>7 DEF Types
<1>9. \A n \in Message : Counted(n)'
  BY <1>1, <1>6, <1>7, MessagesAssumption DEF VectorInv, Counted
<1>10. \A n \in Message : n > sent => state'[n] = Waits
  <2>1. ~(Current > sent)
    BY <1>1, <1>3 DEF Types
  <2> QED  BY <1>1, <1>6, <2>1 DEF VectorInv
<1>11. ASSUME ~broken PROVE due[Current] <= clock
  <2>1. ~Open(Len(calls)) /\ Ahead(Len(calls), Frame.k)
    BY <1>2 DEF Open, Ahead
  <2>2. Waiting(Frame.k, Frame.amount)
    BY <1>2, <1>11, <2>1 DEF Inner, DelayInv
  <2>3. ~(DelayLeft > 0) /\ clock \in Nat /\ due[Current] \in Nat
    BY <1>1, <1>2 DEF NotYet, Types
  <2> QED  BY <1>2, <1>4, <2>2, <2>3 DEF Waiting
<1> QED  BY <1>2, <1>3, <1>5, <1>6, <1>8, <1>9, <1>10, <1>11

LEMMA CallReceiverInv ==
    ASSUME IInv, CallReceiver
    PROVE  IInv'
<1> DEFINE x == [of |-> "receiver", message |-> Current]
<1>1. Types /\ VectorInv /\ CallsInv /\ Looping /\ In("synchronize")
  BY DEF IInv, CallReceiver, Looping
<1>h. PICK h : h = Len(calls)
  OBVIOUS
<1>k. PICK k : k = Frame.k
  OBVIOUS
<1>2. /\ h \in Nat \ {0} /\ h \in DOMAIN calls /\ DOMAIN calls = 1..h /\ Inner(h)
      /\ calls[h] = Frame /\ Frame \in Sync
      /\ k \in Nat \ {0} /\ Frame.left \in Nat \ {0} /\ Frame.amount \in Nat
      /\ Len(messages) \in Nat /\ DOMAIN messages = 1..Len(messages)
      /\ k \in DOMAIN messages
  BY <1>1, <1>h, <1>k, LoopFacts DEF Looping
<1>3. /\ UNCHANGED <<messages, sent, receiver, alive, clock, due, broken>>
      /\ Current = messages[k] /\ state[Current] = Waits /\ calls' = Push(x)
  BY <1>k DEF CallReceiver, Current
<1>4. /\ Current \in Message /\ Current \in 1..sent
      /\ delay' \in [Message -> Int] /\ state' \in [Message -> {Waits, Over}]
      /\ delivered' \in [Message -> 0..1]
      /\ state'[Current] = Over
      /\ \A n \in Message : n # Current => state'[n] = state[n] /\ delay'[n] = delay[n]
      /\ \A n \in Message : Counted(n)'
      /\ \A n \in Message : n > sent => state'[n] = Waits
      /\ ~broken => due[Current] <= clock
  BY <1>1, DeliveredFacts DEF CallReceiver
<1>5. x \in Receiver /\ x.message = Current /\ x.message # Now
  <2>1. Current # Now
    BY <1>4, MessagesAssumption DEF Message, Now
  <2> QED  BY <1>4, <2>1 DEF Receiver
<1> HIDE DEF x
<1>6. /\ calls' \in Seq(Sync \cup Receiver) /\ Len(calls') = h + 1
      /\ DOMAIN calls' = 1..(h + 1) /\ calls'[h + 1] = x
      /\ \A g \in 1..h : calls'[g] = calls[g]
  BY <1>1, <1>3, <1>5, <1>h, PushFacts
<1>7. Types'
  BY <1>1, <1>3, <1>4, <1>6 DEF Types
<1>8. VectorInv'
  <2>1. \A n \in 1..sent : n \in Message
    BY <1>1, MessagesAssumption DEF Types, Message
  <2>2. \A n \in 1..sent : state'[n] = Waits => state[n] = Waits
    BY <1>3, <1>4, <2>1
  <2>3. ~broken => \A n \in 1..sent : state'[n] = Over => due[n] <= clock
    BY <1>1, <1>4, <2>1 DEF VectorInv
  <2> QED  BY <1>1, <1>3, <1>4, <2>2, <2>3 DEF VectorInv
<1>9. ~Open(h) /\ Open(h)' /\ calls'[h] = Frame
  BY <1>2, <1>6, <1>h DEF Open
<1>10. \A i \in DOMAIN messages : Ahead(h, i)' <=> Ahead(h, i) /\ i # k
  BY <1>2, <1>9, <1>k DEF Ahead
<1>11. \A i \in DOMAIN messages : i # k => messages[i] # Current /\ messages[i] \in Message
  BY <1>1, <1>2, <1>3, InjectiveVector
<1>12. ShapeInv(h)' /\ RangeInv(h)' /\ OpenInv(h)'
  <2>1. \A i \in DOMAIN calls' : i > h => i = h + 1
    BY <1>2, <1>6
  <2>2. ShapeInv(h)'
    BY <1>2, <1>5, <1>6, <1>9, <2>1 DEF ShapeInv
  <2>3. RangeInv(h)'
    BY <1>2, <1>3, <1>9 DEF Inner, RangeInv
  <2>4. OpenInv(h)'
    BY <1>2, <1>3, <1>4, <1>5, <1>6, <1>9, <1>k DEF OpenInv
  <2> QED  BY <2>2, <2>3, <2>4
<1>13. NestedInv(h)'
  <2>1. Nested(h)' <=> Nested(h)
    BY <1>2, <1>6, NestedBefore
  <2>2. ASSUME Nested(h)
        PROVE  broken /\ \E i \in DOMAIN messages : Ahead(h, i)' /\ state'[messages[i]] = Over
    <3>1. PICK i \in DOMAIN messages : Ahead(h, i) /\ state[messages[i]] = Over
      BY <1>2, <2>2 DEF Inner, NestedInv
    <3>2. i # k
      BY <1>3, <3>1, MessagesAssumption
    <3> QED  BY <1>2, <1>4, <1>10, <1>11, <2>2, <3>1, <3>2 DEF Inner, NestedInv
  <2> QED  BY <1>3, <2>1, <2>2 DEF NestedInv
<1>14. DelayInv(h)'
  <2> SUFFICES ASSUME ~broken, NEW i \in DOMAIN messages, NEW y \in Nat, y = Frame.amount
               PROVE  /\ Ahead(h, i)' => Waiting(i, y)'
                      /\ i < k \/ i > k + Frame.left - 1 => Waiting(i, 0)'
    BY <1>2, <1>3, <1>9, <1>k DEF DelayInv, Waiting
  <2>1. /\ Ahead(h, i) => Waiting(i, y)
        /\ i < k \/ i > k + Frame.left - 1 => Waiting(i, 0)
    BY <1>2, <1>k DEF Inner, DelayInv
  <2>2. i # k => \A z \in Nat : Waiting(i, z) => Waiting(i, z)'
    BY <1>3, <1>4, <1>11 DEF Waiting
  <2>3. i < k \/ i > k + Frame.left - 1 => i # k
    BY <1>2
  <2> QED  BY <1>10, <2>1, <2>2, <2>3
<1>15. CallsInv'
  BY <1>2, <1>6, <1>12, <1>13, <1>14 DEF CallsInv, Inner
<1> QED  BY <1>7, <1>8, <1>15 DEF IInv

(* The message at k was delivered, and is removed from the vector. *)
LEMMA RemoveVector ==
    ASSUME Types, VectorInv, NEW k \in DOMAIN messages, messages' = RemoveFrom(k),
           UNCHANGED <<sent, clock, due, broken>>, state'[messages[k]] = Over,
           \A n \in Message : n # messages[k] => state'[n] = state[n],
           \A n \in Message : Counted(n)',
           \A n \in Message : n > sent => state'[n] = Waits,
           ~broken => due[messages[k]] <= clock
    PROVE  VectorInv'
<1> DEFINE at(i) == IF i < k THEN i ELSE i + 1
<1>1. /\ Len(messages) \in Nat \ {0} /\ DOMAIN messages = 1..Len(messages)
      /\ DOMAIN messages' = 1..(Len(messages) - 1)
      /\ \A i \in DOMAIN messages' : messages'[i] = messages[at(i)]
      /\ \A j \in DOMAIN messages \ {k} : \E i \in DOMAIN messages' : j = at(i)
  BY RemoveFacts
<1>2. \A i \in DOMAIN messages' : at(i) \in DOMAIN messages
  BY <1>1
<1>3. \A i, j \in DOMAIN messages' : i < j => at(i) < at(j)
  BY <1>1
<1> HIDE DEF at
<1>4. \A i, j \in DOMAIN messages' : i < j => messages'[i] < messages'[j]
  BY <1>1, <1>2, <1>3 DEF VectorInv
<1>5. \A i \in DOMAIN messages' : messages'[i] <= sent'
  BY <1>1, <1>2 DEF VectorInv
<1>6. \A n \in 1..sent : n \in Message
  BY MessagesAssumption DEF Types, Message
<1>7. ASSUME NEW n \in 1..sent, state'[n] = Waits
      PROVE  \E i \in DOMAIN messages' : messages'[i] = n
  <2>1. n # messages[k] /\ state[n] = Waits
    BY <1>6, <1>7, MessagesAssumption
  <2>2. PICK j \in DOMAIN messages : messages[j] = n
    BY <2>1 DEF VectorInv
  <2>3. j \in DOMAIN messages \ {k}
    BY <2>1, <2>2
  <2> QED  BY <1>1, <2>2, <2>3
<1>8. ~broken => \A n \in 1..sent : state'[n] = Over => due[n] <= clock
  BY <1>6 DEF VectorInv
<1> QED  BY <1>4, <1>5, <1>7, <1>8 DEF VectorInv

LEMMA RemoveCalls ==
    ASSUME Types, VectorInv, NEW h \in DOMAIN calls, Inner(h),
           NEW k, k = calls[h].k, calls[h].left > 0, messages' = RemoveFrom(k),
           Open(h) \/ state[messages[k]] = Waits,
           Len(calls') = h, DOMAIN calls' = 1..h, calls'[h] \in Sync, calls'[h].k = k,
           calls'[h].left = calls[h].left - 1, calls'[h].amount = calls[h].amount,
           \A g \in 1..(h - 1) : calls'[g] = calls[g],
           \A n \in Message : n # messages[k] => state'[n] = state[n] /\ delay'[n] = delay[n],
           UNCHANGED <<clock, due, broken>>
    PROVE  CallsInv'
<1> DEFINE at(i) == IF i < k THEN i ELSE i + 1
           left == calls[h].left
<1>1. /\ Len(messages) \in Nat /\ DOMAIN messages = 1..Len(messages)
      /\ h \in Nat \ {0} /\ k \in Nat \ {0} /\ left \in Nat \ {0}
      /\ k + left - 1 <= Len(messages)
      /\ calls[h].amount \in Nat
  <2>1. messages \in Seq(Message) /\ calls \in Seq(Sync \cup Receiver)
    BY DEF Types
  <2>2. calls[h] \in Sync /\ k > 0 /\ k + left - 1 <= Len(messages)
    BY DEF Inner, ShapeInv, RangeInv
  <2>3. calls[h].k \in Nat /\ calls[h].left \in Nat /\ calls[h].amount \in Amount
    BY <2>2 DEF Sync
  <2>4. Amount \subseteq Nat
    BY MessagesAssumption
  <2>5. h \in Nat \ {0} /\ Len(messages) \in Nat /\ DOMAIN messages = 1..Len(messages)
    BY <2>1
  <2>6. k \in Nat \ {0} /\ left \in Nat \ {0}
    BY <2>2, <2>3
  <2> QED  BY <2>2, <2>3, <2>4, <2>5, <2>6
<1>2. k \in DOMAIN messages
  BY <1>1
<1>3. /\ Len(messages') = Len(messages) - 1 /\ DOMAIN messages' = 1..(Len(messages) - 1)
      /\ \A i \in DOMAIN messages' : messages'[i] = messages[at(i)]
      /\ \A j \in DOMAIN messages \ {k} : \E i \in DOMAIN messages' : j = at(i)
  BY <1>2, RemoveFacts
<1>4. \A i \in DOMAIN messages' : at(i) \in DOMAIN messages /\ at(i) # k
  BY <1>1, <1>3
<1>5. ~Open(h)'
  BY <1>1 DEF Open
<1>6. \A i \in DOMAIN messages' :
         /\ Ahead(h, i)' <=> Ahead(h, at(i))
         /\ i < k => at(i) < k
         /\ i > k + (left - 1) - 1 => at(i) < k \/ at(i) > k + left - 1
  BY <1>1, <1>3, <1>5 DEF Ahead
<1> HIDE DEF at, left
<1>7. \A i \in DOMAIN messages' :
         messages[at(i)] # messages[k] /\ messages[at(i)] \in Message
  BY <1>2, <1>4, InjectiveVector
<1>8. ShapeInv(h)' /\ RangeInv(h)' /\ OpenInv(h)'
  <2>1. \A i \in DOMAIN calls' : ~(i > h)
    BY <1>1
  <2>2. ShapeInv(h)'
    BY <2>1 DEF ShapeInv
  <2>3. RangeInv(h)'
    BY <1>1, <1>3 DEF RangeInv, left
  <2> QED  BY <1>5, <2>2, <2>3 DEF OpenInv
<1>9. NestedInv(h)'
  <2>1. Nested(h)' <=> Nested(h)
    BY <1>1, NestedBefore
  <2>2. ASSUME Nested(h)
        PROVE  broken /\ \E i \in DOMAIN messages' : Ahead(h, i)' /\ state'[messages'[i]] = Over
    <3>1. PICK j \in DOMAIN messages : Ahead(h, j) /\ state[messages[j]] = Over
      BY <2>2 DEF Inner, NestedInv
    <3>2. j # k
      <4>1. CASE Open(h)
        BY <1>1, <3>1, <4>1 DEF Ahead
      <4>2. CASE state[messages[k]] = Waits
        BY <3>1, <4>2, MessagesAssumption
      <4> QED  BY <4>1, <4>2
    <3>3. PICK i \in DOMAIN messages' : j = at(i)
      BY <1>3, <3>2
    <3>4. Ahead(h, i)' /\ state'[messages'[i]] = Over
      BY <1>3, <1>6, <1>7, <3>1, <3>3
    <3> QED  BY <2>2, <3>4 DEF Inner, NestedInv
  <2> QED  BY <2>1, <2>2 DEF NestedInv
<1>10. DelayInv(h)'
  <2> SUFFICES ASSUME ~broken, NEW i \in DOMAIN messages', NEW y \in Nat, y = calls[h].amount
               PROVE  /\ Ahead(h, i)' => Waiting(i, y)'
                      /\ i < k \/ i > k + (left - 1) - 1 => Waiting(i, 0)'
    BY <1>1 DEF DelayInv, Waiting, left
  <2>1. /\ Ahead(h, at(i)) => Waiting(at(i), y)
        /\ at(i) < k \/ at(i) > k + left - 1 => Waiting(at(i), 0)
    BY <1>4 DEF Inner, DelayInv, left
  <2>2. \A z \in Nat : Waiting(at(i), z) => Waiting(i, z)'
    BY <1>3, <1>7 DEF Waiting
  <2> QED  BY <1>6, <2>1, <2>2
<1>11. h \in DOMAIN calls'
  BY <1>1
<1> QED  BY <1>8, <1>9, <1>10, <1>11 DEF CallsInv, Inner

LEMMA DropMessageInv ==
    ASSUME IInv, DropMessage
    PROVE  IInv'
<1>1. Types /\ VectorInv /\ CallsInv /\ Looping /\ In("synchronize")
  BY DEF IInv, DropMessage, Looping
<1>h. PICK h : h = Len(calls)
  OBVIOUS
<1>k. PICK k : k = Frame.k
  OBVIOUS
<1>2. /\ h \in DOMAIN calls /\ DOMAIN calls = 1..h /\ Inner(h) /\ calls[h] = Frame
      /\ k \in Nat /\ k \in DOMAIN messages /\ Frame.left > 0
  BY <1>1, <1>h, <1>k, LoopFacts DEF Looping
<1>3. /\ UNCHANGED <<sent, receiver, alive, clock, due, broken>>
      /\ Current = messages[k] /\ state[Current] = Waits
      /\ messages' = RemoveFrom(k) /\ calls' = Walk(k)
  BY <1>k DEF DropMessage, Current
<1>4. /\ delay' \in [Message -> Int] /\ state' \in [Message -> {Waits, Over}]
      /\ delivered' \in [Message -> 0..1]
      /\ state'[Current] = Over
      /\ \A n \in Message : n # Current => state'[n] = state[n] /\ delay'[n] = delay[n]
      /\ \A n \in Message : Counted(n)'
      /\ \A n \in Message : n > sent => state'[n] = Waits
      /\ ~broken => due[Current] <= clock
  BY <1>1, DeliveredFacts DEF DropMessage
<1>5. /\ calls' \in Seq(Sync \cup Receiver) /\ Len(calls') = h /\ DOMAIN calls' = 1..h
      /\ calls'[h] \in Sync /\ calls'[h].k = k /\ calls'[h].left = Frame.left - 1
      /\ calls'[h].amount = Frame.amount /\ \A g \in 1..(h - 1) : calls'[g] = calls[g]
  BY <1>1, <1>2, <1>3, <1>h, WalkFacts
<1>6. messages' \in Seq(Message)
  BY <1>1, <1>2, <1>3, RemoveFacts
<1>7. Types'
  BY <1>1, <1>3, <1>4, <1>5, <1>6 DEF Types
<1>8. VectorInv'
  BY <1>1, <1>2, <1>3, <1>4, RemoveVector
<1>9. CallsInv'
  BY <1>1, <1>2, <1>3, <1>4, <1>5, <1>k, RemoveCalls
<1> QED  BY <1>7, <1>8, <1>9 DEF IInv

(* The message of a dead receiver that raises an error stays in the vector. *)
LEMMA DeadRaisesInv ==
    ASSUME IInv, DeadRaises
    PROVE  IInv'
<1>1. /\ Types /\ VectorInv /\ CallsInv /\ Looping /\ In("synchronize")
      /\ state[Current] = Waits /\ calls' = <<>> /\ DOMAIN calls' = {} /\ broken' = TRUE
      /\ state' = [state EXCEPT ![Current] = Over]
      /\ delay' = [delay EXCEPT ![Current] = DelayLeft]
      /\ UNCHANGED <<messages, sent, receiver, alive, clock, due, delivered>>
  BY DEF IInv, DeadRaises, Looping
<1>2. Current \in Message /\ Frame.amount \in Nat
  BY <1>1, LoopFacts DEF Current
<1>3. Current \in 1..sent
  <2>1. Frame.k \in DOMAIN messages
    BY <1>1, LoopFacts
  <2>2. Current <= sent
    BY <1>1, <2>1 DEF VectorInv, Current
  <2> QED  BY <1>1, <1>2, <2>2, MessagesAssumption DEF Types, Message
<1>4. /\ state'[Current] = Over
      /\ \A n \in Message : n # Current => state'[n] = state[n]
  BY <1>1, <1>2 DEF Types
<1>5. Types'
  <2>1. DelayLeft \in Int
    BY <1>1, <1>2 DEF Types, DelayLeft
  <2>2. delay' \in [Message -> Int] /\ state' \in [Message -> {Waits, Over}]
    BY <1>1, <1>2, <2>1 DEF Types
  <2>3. <<>> \in Seq(Sync \cup Receiver)
    OBVIOUS
  <2> QED  BY <1>1, <2>2, <2>3 DEF Types
<1>6. VectorInv'
  <2>1. \A n \in Message : Counted(n)'
    BY <1>1, <1>4, MessagesAssumption DEF VectorInv, Counted
  <2>2. \A n \in Message : n > sent => state'[n] = Waits
    <3>1. ~(Current > sent)
      BY <1>1, <1>3 DEF Types
    <3> QED  BY <1>1, <1>4, <3>1 DEF VectorInv
  <2>3. \A n \in 1..sent : n \in Message
    BY <1>1, MessagesAssumption DEF Types, Message
  <2>4. \A n \in 1..sent : state'[n] = Waits => state[n] = Waits
    BY <1>4, <2>3, MessagesAssumption
  <2> QED  BY <1>1, <2>1, <2>2, <2>4 DEF VectorInv
<1> QED  BY <1>1, <1>5, <1>6 DEF IInv, CallsInv, Outside

(* The receiver returns: the call of a message without delay goes, or the   *)
(* message that synchronize delivered is removed.                          *)
LEMMA ReturnsNowInv ==
    ASSUME IInv, ReceiverReturns, Frame.message = Now
    PROVE  IInv'
<1>1. Types /\ VectorInv /\ CallsInv /\ calls # <<>> /\ In("receiver")
  BY DEF IInv, ReceiverReturns, In
<1>2. calls' = Pop /\ UNCHANGED <<mail, alive, hist>>
  BY DEF ReceiverReturns, mail
<1>3. /\ Pop \in Seq(Sync \cup Receiver)
      /\ Len(calls) \in Nat \ {0} /\ Len(Pop) = Len(calls) - 1
      /\ DOMAIN calls = 1..Len(calls) /\ DOMAIN Pop = 1..(Len(calls) - 1)
      /\ Frame = calls[Len(calls)]
      /\ \A i \in 1..(Len(calls) - 1) : Pop[i] = calls[i]
  BY <1>1, PopFacts
<1>4. Types'
  BY <1>1, <1>2, <1>3 DEF Types, mail, hist
<1>5. VectorInv'
  <2>1. UNCHANGED <<mail, due, delivered, clock>> /\ (broken => broken')
    BY <1>2 DEF hist
  <2> QED  BY <1>1, <2>1, VectorKept
<1>6. CASE Outside
  <2>1. Outside'
    <3>1. \A i \in DOMAIN calls' : i \in DOMAIN calls /\ calls'[i] = calls[i]
      BY <1>2, <1>3
    <3> QED  BY <1>2, <1>6, <3>1 DEF Outside, Plain, Waiting, mail, hist
  <2> QED  BY <1>4, <1>5, <2>1 DEF IInv, CallsInv
<1>7. ASSUME NEW h \in DOMAIN calls, Inner(h) PROVE IInv'
  <2>1. h + 1 < Len(calls) /\ h \in Nat \ {0}
    <3>1. calls[Len(calls)].of = "receiver" /\ calls[Len(calls)].message = Now
      BY <1>1, <1>3 DEF In, Frame
    <3>2. h # Len(calls)
      BY <1>7, <3>1 DEF Inner, ShapeInv, Sync
    <3>3. h + 1 # Len(calls)
      <4>1. ASSUME h + 1 = Len(calls) PROVE FALSE
        <5>1. h + 1 \in DOMAIN calls /\ h + 1 > h
          BY <1>3, <4>1
        <5>2. calls[h + 1].message # Now
          BY <1>7, <5>1 DEF Inner, ShapeInv
        <5> QED  BY <3>1, <4>1, <5>2
      <4> QED  BY <4>1
    <3> QED  BY <1>3, <3>2, <3>3
  <2>2. /\ h \in DOMAIN calls' /\ calls'[h] = calls[h] /\ calls'[h + 1] = calls[h + 1]
        /\ Open(h) /\ Open(h)' /\ \A g \in 1..(h - 1) : calls'[g] = calls[g]
    BY <1>2, <1>3, <2>1 DEF Open
  <2>3. ShapeInv(h)'
    <3>1. \A i \in DOMAIN calls' : i \in DOMAIN calls /\ calls'[i] = calls[i]
      BY <1>2, <1>3
    <3> QED  BY <1>7, <2>2, <3>1 DEF Inner, ShapeInv
  <2>4. RangeInv(h)' /\ OpenInv(h)'
    BY <1>2, <1>7, <2>2 DEF Inner, RangeInv, OpenInv, mail
  <2>5. NestedInv(h)'
    <3>1. Nested(h)' <=> Nested(h)
      BY <2>1, <2>2, NestedBefore
    <3>2. \A i : Ahead(h, i) => Ahead(h, i)'
      BY <2>2 DEF Ahead
    <3> QED  BY <1>2, <1>7, <3>1, <3>2 DEF Inner, NestedInv, mail, hist
  <2>6. DelayInv(h)'
    BY <1>2, <1>7, <2>2 DEF Inner, DelayInv, Waiting, Ahead, mail, hist
  <2> QED  BY <1>4, <1>5, <2>2, <2>3, <2>4, <2>5, <2>6 DEF IInv, CallsInv, Inner
<1> QED  BY <1>1, <1>6, <1>7 DEF CallsInv

LEMMA ReturnsLaterInv ==
    ASSUME IInv, ReceiverReturns, Frame.message # Now
    PROVE  IInv'
<1>1. Types /\ VectorInv /\ CallsInv /\ calls # <<>> /\ In("receiver")
  BY DEF IInv, ReceiverReturns, In
<1>h. PICK h : h = Len(calls) - 1
  OBVIOUS
<1>2. /\ Pop \in Seq(Sync \cup Receiver) /\ Len(calls) \in Nat \ {0} /\ Len(Pop) = h
      /\ DOMAIN calls = 1..Len(calls) /\ \A i \in 1..h : Pop[i] = calls[i]
  BY <1>1, <1>h, PopFacts
<1>3. h \in DOMAIN calls /\ Inner(h) /\ h \in Nat \ {0} /\ Open(h)
  <2>1. h \in DOMAIN calls /\ Inner(h)
    BY <1>1, <1>h, InnerIsBelow
  <2> QED  BY <1>2, <1>h, <2>1 DEF Open
<1>k. PICK k : k = calls[h].k
  OBVIOUS
<1>4. /\ calls[h] \in Sync /\ k \in Nat \ {0} /\ calls[h].left \in Nat \ {0}
      /\ k + calls[h].left - 1 <= Len(messages)
      /\ state[messages[k]] = Over
  <2>1. /\ calls[h] \in Sync /\ k > 0 /\ calls[h].left > 0
        /\ k + calls[h].left - 1 <= Len(messages) /\ state[messages[k]] = Over
    BY <1>3, <1>k DEF Inner, ShapeInv, RangeInv, OpenInv
  <2>2. k \in Nat /\ calls[h].left \in Nat
    BY <1>k, <2>1 DEF Sync
  <2> QED  BY <2>1, <2>2
<1>5. k \in DOMAIN messages /\ messages[k] \in Message
  <2>1. messages \in Seq(Message)
    BY <1>1 DEF Types
  <2> QED  BY <1>4, <2>1
<1>6. PICK s : s = calls[h]
  OBVIOUS
<1>7. PICK y : y = [s EXCEPT !.k = k, !.left = @ - 1]
  OBVIOUS
<1>8. y \in Sync /\ y.k = k /\ y.left = calls[h].left - 1 /\ y.amount = calls[h].amount
  <2>1. s \in Sync /\ s.left - 1 \in Nat /\ k \in Nat
    BY <1>4, <1>6
  <2> QED  BY <1>6, <1>7, <2>1 DEF Sync
<1>9. /\ messages' = RemoveFrom(k) /\ calls' = Append(SubSeq(Pop, 1, h - 1), y)
      /\ UNCHANGED <<sent, receiver, delay, state, alive, clock, due, delivered, broken>>
  <2>1. Last(Pop) = s
    BY <1>2, <1>3, <1>6 DEF Last
  <2>2. s.k = k
    BY <1>6, <1>k
  <2> QED  BY <1>2, <1>7, <2>1, <2>2 DEF ReceiverReturns, NextSame, hist
<1>10. /\ calls' \in Seq(Sync \cup Receiver) /\ Len(calls') = h /\ DOMAIN calls' = 1..h
       /\ calls'[h] = y /\ \A g \in 1..(h - 1) : calls'[g] = calls[g]
  <2>1. PICK z : z = SubSeq(Pop, 1, h - 1)
    OBVIOUS
  <2>2. h - 1 \in 0..Len(Pop)
    BY <1>2, <1>3
  <2>3. /\ z \in Seq(Sync \cup Receiver) /\ Len(z) = h - 1
        /\ \A i \in 1..(h - 1) : z[i] = Pop[i]
    BY <1>2, <2>1, <2>2, FrontFacts
  <2>4. /\ Append(z, y) \in Seq(Sync \cup Receiver) /\ Len(Append(z, y)) = h
        /\ DOMAIN Append(z, y) = 1..h /\ Append(z, y)[h] = y
        /\ \A g \in 1..(h - 1) : Append(z, y)[g] = z[g]
    BY <1>3, <1>8, <2>3
  <2> QED  BY <1>2, <1>3, <1>9, <2>1, <2>3, <2>4
<1>11. Types'
  <2>1. messages' \in Seq(Message)
    BY <1>1, <1>5, <1>9, RemoveFacts
  <2> QED  BY <1>1, <1>9, <1>10, <2>1 DEF Types
<1>12. VectorInv'
  <2>1. ~broken => due[messages[k]] <= clock
    <3>1. messages[k] <= sent
      BY <1>1, <1>5 DEF VectorInv
    <3>2. messages[k] \in 1..sent
      BY <1>1, <1>5, <3>1, MessagesAssumption DEF Types, Message
    <3> QED  BY <1>1, <1>4, <3>2 DEF VectorInv
  <2>2. /\ \A n \in Message : Counted(n)'
        /\ \A n \in Message : n > sent => state'[n] = Waits
    BY <1>1, <1>9 DEF VectorInv, Counted
  <2> QED  BY <1>1, <1>4, <1>5, <1>9, <2>1, <2>2, RemoveVector
<1>13. CallsInv'
  BY <1>1, <1>3, <1>4, <1>8, <1>9, <1>10, <1>k, RemoveCalls
<1> QED  BY <1>11, <1>12, <1>13 DEF IInv

(* synchronize returns: it was not inside another one, and met all messages. *)
LEMMA SynchronizeReturnsInv ==
    ASSUME IInv, SynchronizeReturns
    PROVE  IInv'
<1>1. Types /\ VectorInv /\ CallsInv /\ In("synchronize") /\ calls # <<>>
  BY DEF IInv, SynchronizeReturns, In
<1>h. PICK h : h = Len(calls)
  OBVIOUS
<1>2. /\ h \in Nat \ {0} /\ h \in DOMAIN calls /\ DOMAIN calls = 1..h /\ Inner(h)
      /\ calls[h] = Frame /\ calls[h].k \in Nat \ {0} /\ calls[h].left = 0
      /\ DOMAIN messages = 1..Len(messages)
  BY <1>1, <1>h, LoopFacts DEF SynchronizeReturns
<1>3. calls' = Pop /\ UNCHANGED <<mail, alive, hist>>
  BY DEF SynchronizeReturns
<1>4. /\ Pop \in Seq(Sync \cup Receiver) /\ DOMAIN Pop = 1..(h - 1)
      /\ \A i \in 1..(h - 1) : Pop[i] = calls[i]
  BY <1>1, <1>h, PopFacts
<1>5. \A i \in DOMAIN messages : ~Ahead(h, i)
  BY <1>2 DEF Ahead
<1>6. ~Nested(h)
  BY <1>2, <1>5 DEF Inner, NestedInv
<1>7. Types'
  BY <1>1, <1>3, <1>4 DEF Types, mail, hist
<1>8. VectorInv'
  <2>1. UNCHANGED <<mail, due, delivered, clock>> /\ (broken => broken')
    BY <1>3 DEF hist
  <2> QED  BY <1>1, <2>1, VectorKept
<1>9. Outside'
  <2>1. \A i \in DOMAIN calls' : Plain(i)'
    BY <1>3, <1>4, <1>6 DEF Nested, Plain
  <2>2. ~broken => \A i \in DOMAIN messages : Waiting(i, 0)
    <3>1. \A i \in DOMAIN messages : i < calls[h].k \/ i > calls[h].k + calls[h].left - 1
      BY <1>2
    <3> QED  BY <1>2, <3>1 DEF Inner, DelayInv
  <2> QED  BY <1>3, <2>1, <2>2 DEF Outside, Waiting, mail, hist
<1> QED  BY <1>7, <1>8, <1>9 DEF IInv, CallsInv

----------------------------------------------------------------------------
LEMMA NextInv == IInv /\ [Next]_vars => IInv'
<1> SUFFICES ASSUME IInv, [Next]_vars PROVE IInv'
  OBVIOUS
<1>1. ASSUME NEW a \in Agent, SendNow(a) PROVE IInv'
  BY <1>1, SendNowInv
<1>2. ASSUME NEW a \in Agent, Die(a) PROVE IInv'
  <2>1. UNCHANGED <<mail, calls, hist>> /\ alive' \subseteq Agent
    BY <1>2 DEF Die, IInv, Types
  <2> QED  BY <2>1, DieInv
<1>3. ASSUME NEW a \in Agent, NEW d \in Delay, Send(a, d) PROVE IInv'
  BY <1>3, SendInv
<1>4. ASSUME NEW d \in Amount, Synchronize(d) PROVE IInv'
  BY <1>4, SynchronizeInv
<1>5. CASE SkipMessage
  BY <1>5, SkipMessageInv
<1>6. CASE CallReceiver
  BY <1>6, CallReceiverInv
<1>7. CASE DropMessage
  BY <1>7, DropMessageInv
<1>8. CASE ReceiverReturns
  BY <1>8, ReturnsNowInv, ReturnsLaterInv
<1>9. CASE SynchronizeReturns
  BY <1>9, SynchronizeReturnsInv
<1>10. CASE SubtractRaises \/ ReceiverRaises
  BY <1>10, RaisesInv
<1>12. CASE DeadRaises
  BY <1>12, DeadRaisesInv
<1>11. CASE UNCHANGED vars
  <2>1. UNCHANGED <<mail, calls, hist>> /\ alive' \subseteq Agent
    BY <1>11 DEF vars, IInv, Types
  <2> QED  BY <2>1, DieInv
<1> QED
  BY <1>1, <1>2, <1>3, <1>4, <1>5, <1>6, <1>7, <1>8, <1>9, <1>10, <1>11, <1>12 DEF Next

LEMMA Invariance == Spec => []IInv
<1>1. Init => IInv
  BY InitInv
<1>2. IInv /\ [Next]_vars => IInv'
  BY NextInv
<1> QED  BY <1>1, <1>2, PTL DEF Spec

(* The loop of synchronize never leaves the vector, however many receivers *)
(* append to it and remove from it (Society.lua:807-830).                  *)
THEOREM TypeCorrect == Spec => []TypeOK
<1>1. IInv => TypeOK
  BY LoopFits
<1> QED  BY <1>1, Invariance, PTL

(* Between calls, and as long as no error left synchronize, the messages   *)
(* that are due have been delivered once, and the others are in the vector *)
(* (Society.lua:766-769).                                                  *)
THEOREM DeliversOnTime == Spec => []OnTime
<1>1. IInv => OnTime
  <2> SUFFICES ASSUME IInv, calls = <<>>, ~broken, NEW n \in 1..sent
               PROVE  /\ delivered[n] = (IF due[n] <= clock THEN 1 ELSE 0)
                      /\ (\E i \in DOMAIN messages : messages[i] = n) <=> clock < due[n]
    BY DEF OnTime
  <2>1. Types /\ VectorInv /\ Outside
    <3>1. \A h \in DOMAIN calls : FALSE
      OBVIOUS
    <3> QED  BY <3>1 DEF IInv, CallsInv
  <2>2. n \in Message /\ due[n] \in Nat /\ clock \in Nat /\ state[n] \in {Waits, Over}
    BY <2>1, MessagesAssumption DEF Types, Message
  <2>3. ASSUME NEW i \in DOMAIN messages, messages[i] = n
        PROVE  state[n] = Waits /\ clock < due[n]
    BY <2>1, <2>2, <2>3 DEF Outside, Waiting
  <2>4. state[n] = Waits => \E i \in DOMAIN messages : messages[i] = n
    BY <2>1 DEF VectorInv
  <2>5. state[n] = Over => due[n] <= clock
    BY <2>1 DEF VectorInv
  <2>6. delivered[n] = IF state[n] = Over THEN 1 ELSE 0
    BY <2>1, <2>2, MessagesAssumption DEF VectorInv, Counted
  <2> QED  BY <2>2, <2>3, <2>4, <2>5, <2>6, MessagesAssumption
<1> QED  BY <1>1, Invariance, PTL

----------------------------------------------------------------------------
(* The vector as a mailbox.  What is pending are the messages sent whose   *)
(* delay is a number, in whatever place of the vector.                     *)
Entry(n) == [n |-> n, at |-> due[n]]
Pending  == {[n |-> messages[i], at |-> due[messages[i]]] :
                i \in {x \in DOMAIN messages : state[messages[x]] = Waits}}
Done     == {n \in Message : delivered[n] > 0}
Unread   == {n \in 1..sent : state[n] = Waits}
BoxInv   == Pending = {Entry(n) : n \in Unread} /\ \A n \in Done : state[n] = Over

LEMMA BoxOf == IInv => BoxInv
<1> SUFFICES ASSUME Types, VectorInv PROVE BoxInv
  BY DEF IInv
<1>1. messages \in Seq(Message) /\ sent \in Nat
  BY DEF Types
<1>2. \A i \in DOMAIN messages : messages[i] \in 1..sent
  <2>1. \A i \in DOMAIN messages : messages[i] \in Message
    BY <1>1
  <2> QED  BY <1>1, <2>1, MessagesAssumption DEF VectorInv, Message
<1>3. \A n \in Unread : \E i \in DOMAIN messages : messages[i] = n /\ state[messages[i]] = Waits
  BY DEF VectorInv, Unread
<1>4. Pending = {Entry(n) : n \in Unread}
  BY <1>2, <1>3 DEF Pending, Entry, Unread
<1>5. \A n \in Done : state[n] = Over
  BY MessagesAssumption DEF VectorInv, Counted, Done, Types
<1> QED  BY <1>4, <1>5 DEF BoxInv

LEMMA BoxNext == IInv' => BoxInv'
BY BoxOf, PTL

(* A step that only changes the vector or the calls. *)
LEMMA SameBox ==
    ASSUME IInv, IInv', UNCHANGED <<sent, state, due, delivered>>
    PROVE  Pending' = Pending /\ Done' = Done
<1>1. BoxInv /\ BoxInv'
  BY BoxOf, BoxNext
<1>2. Pending' = Pending
  BY <1>1 DEF BoxInv, Entry, Unread
<1> QED  BY <1>2 DEF Done

LEMMA SendPosts ==
    ASSUME IInv, IInv', NEW a \in Agent, NEW d \in Delay, Send(a, d)
    PROVE  Box!Post(sent + 1, d) /\ sent + 1 \in Message
<1>n. PICK n : n = sent + 1
  OBVIOUS
<1>1. BoxInv /\ BoxInv'
  BY BoxOf, BoxNext
<1>2. /\ n \in Message /\ sent \in Nat /\ state[n] = Waits /\ state' = state /\ sent' = n
      /\ due'[n] = clock + d /\ \A m \in 1..sent : due'[m] = due[m] /\ m # n
      /\ UNCHANGED <<clock, delivered, broken>>
  <2>1. n \in Message /\ sent \in Nat /\ n > sent
    BY <1>n, MessagesAssumption DEF Send, IInv, Types, Message
  <2>2. state[n] = Waits /\ due'[n] = clock + d
    BY <1>n, <2>1 DEF Send, IInv, Types, VectorInv
  <2>3. \A m \in 1..sent : due'[m] = due[m] /\ m # n
    BY <1>n, <2>1, MessagesAssumption DEF Send, IInv, Types, Message
  <2> QED  BY <1>n, <2>1, <2>2, <2>3 DEF Send
<1>3. Unread' = Unread \cup {n} /\ \A m \in Unread : Entry(m)' = Entry(m) /\ m \in 1..sent
  <2>1. 1..n = 1..sent \cup {n}
    BY <1>2, <1>n
  <2> QED  BY <1>2, <2>1 DEF Unread, Entry
<1>4. n \notin Done
  BY <1>1, <1>2, MessagesAssumption DEF BoxInv
<1>5. \A p \in Pending : p.n < n
  <2>1. \A m \in Unread : Entry(m).n = m /\ m < n
    <3>1. \A m \in 1..sent : m < n
      BY <1>2, <1>n
    <3> QED  BY <3>1 DEF Entry, Unread
  <2> QED  BY <1>1, <2>1 DEF BoxInv
<1>6. Pending' = Pending \cup {[n |-> n, at |-> clock + d]}
  <2>1. Entry(n)' = [n |-> n, at |-> clock + d]
    BY <1>2 DEF Entry
  <2>2. Pending = {Entry(m) : m \in Unread} /\ Pending' = {Entry(m)' : m \in Unread'}
    BY <1>1 DEF BoxInv
  <2>3. {Entry(m)' : m \in Unread'} = {Entry(m) : m \in Unread} \cup {Entry(n)'}
    BY <1>3
  <2> QED  BY <2>1, <2>2, <2>3
<1>7. Done' = Done
  BY <1>2 DEF Done
<1> QED  BY <1>n, <1>2, <1>4, <1>5, <1>6, <1>7 DEF Box!Post, Pending, Done

(* Outside of synchronize nothing is due that was not delivered. *)
LEMMA SynchronizeAdvances ==
    ASSUME IInv, IInv', NEW d \in Amount, Synchronize(d)
    PROVE  Box!Advance(d) \/ Box!Fail
<1>1. /\ UNCHANGED <<sent, state, due, delivered>> /\ clock' = clock + d
      /\ broken' = (broken \/ InSync)
  BY DEF Synchronize, mail
<1>2. Pending' = Pending /\ Done' = Done
  BY <1>1, SameBox
<1>3. CASE broken \/ InSync
  <2>1. broken' = TRUE
    BY <1>1, <1>3
  <2> QED  BY <1>1, <1>2, <2>1 DEF Box!Fail, Box!Elapses, Pending, Done
<1>4. CASE ~broken /\ ~InSync
  <2>1. broken' = broken
    BY <1>1, <1>4 DEF IInv, Types
  <2>2. Types /\ Outside
    BY <1>4, OutsideOf DEF IInv
  <2>3. ASSUME NEW p \in Pending PROVE ~(p.at <= clock)
    <3>1. PICK i \in DOMAIN messages : p = Entry(messages[i])
      BY DEF Pending, Entry
    <3>2. messages[i] \in Message
      BY <2>2 DEF Types
    <3>3. p.at = due[messages[i]] /\ p.at \in Nat /\ clock \in Nat
      BY <2>2, <3>1, <3>2 DEF Entry, Types
    <3>4. Waiting(i, 0)
      BY <1>4, <2>2 DEF Outside
    <3> QED  BY <3>3, <3>4 DEF Waiting
  <2> QED  BY <1>1, <1>2, <1>4, <2>1, <2>3 DEF Box!Advance, Box!Due, Pending, Done
<1> QED  BY <1>3, <1>4

(* The message of synchronize is the first of those that are due. *)
LEMMA FirstDue ==
    ASSUME IInv, Looping, state[Current] = Waits, ~NotYet, ~broken
    PROVE  /\ due[Current] <= clock
           /\ \A i \in DOMAIN messages :
                 due[messages[i]] <= clock => Current <= messages[i]
<1>1. Types /\ VectorInv /\ CallsInv /\ In("synchronize")
  BY DEF IInv, Looping
<1>h. PICK h : h = Len(calls)
  OBVIOUS
<1>k. PICK k : k = Frame.k
  OBVIOUS
<1>2. /\ Inner(h) /\ calls[h] = Frame /\ k \in DOMAIN messages /\ k \in Nat
      /\ Current = messages[k] /\ Frame.left \in Nat \ {0} /\ Frame.amount \in Nat
      /\ DOMAIN messages = 1..Len(messages) /\ h \in Nat
      /\ \A i \in DOMAIN messages : messages[i] \in Message
  BY <1>1, <1>h, <1>k, LoopFacts DEF Current, Looping
<1>3. clock \in Nat /\ \A n \in Message : due[n] \in Nat /\ delay[n] \in Int
  BY <1>1 DEF Types
<1>4. due[messages[k]] <= clock
  <2>1. Ahead(h, k)
    BY <1>2, <1>h, <1>k DEF Open, Ahead
  <2>2. Waiting(k, Frame.amount)
    BY <1>2, <2>1 DEF Inner, DelayInv
  <2>3. ~(delay[messages[k]] - Frame.amount > 0)
    BY <1>2 DEF NotYet, DelayLeft
  <2> QED  BY <1>2, <1>3, <2>2, <2>3 DEF Waiting
<1>5. ASSUME NEW i \in DOMAIN messages, due[messages[i]] <= clock
      PROVE  messages[k] <= messages[i]
  <2>1. CASE i < k
    <3>1. Waiting(i, 0)
      BY <1>2, <1>k, <2>1 DEF Inner, DelayInv
    <3> QED  BY <1>2, <1>3, <1>5, <3>1 DEF Waiting
  <2>2. CASE i = k
    BY <1>2, <2>2 DEF Message
  <2>3. CASE k < i
    <3>1. messages[k] < messages[i]
      BY <1>1, <1>2, <2>3 DEF VectorInv
    <3> QED  BY <1>2, <3>1 DEF Message
  <2> QED  BY <1>2, <2>1, <2>2, <2>3
<1> QED  BY <1>2, <1>4, <1>5

LEMMA SynchronizeDelivers ==
    ASSUME IInv, IInv', CallReceiver \/ DropMessage
    PROVE  (\E p \in Pending : Box!Deliver(p)) \/ Box!Late
<1>n. PICK n : n = Current
  OBVIOUS
<1>1. /\ Looping /\ state[n] = Waits /\ ~NotYet
      /\ delay' = [delay EXCEPT ![Current] = DelayLeft]
      /\ state' = [state EXCEPT ![n] = Over]
      /\ delivered' = [delivered EXCEPT ![n] = @ + 1]
      /\ UNCHANGED <<sent, clock, due, broken>>
  BY <1>n DEF CallReceiver, DropMessage
<1>2. BoxInv /\ BoxInv' /\ Types
  BY BoxOf, BoxNext DEF IInv
<1>3. /\ n \in Message /\ n \in 1..sent /\ state'[n] = Over
      /\ \A m \in Message : m # n => state'[m] = state[m]
      /\ \A m \in Message : Counted(m)'
  BY <1>1, <1>n, DeliveredFacts
<1>4. \A m \in 1..sent : m \in Message
  BY <1>2, MessagesAssumption DEF Types, Message
<1>p. PICK p : p = Entry(n)
  OBVIOUS
<1>5. n \in Unread /\ Unread' = Unread \ {n}
  BY <1>1, <1>3, <1>4, MessagesAssumption DEF Unread
<1>6. \A m : Entry(m)' = Entry(m) /\ (Entry(m) = p => m = n)
  BY <1>1, <1>p DEF Entry
<1>7. p \in Pending /\ Pending' = Pending \ {p} /\ p.n = n /\ p.at = due[n]
  <2>1. p \in Pending /\ Pending' = Pending \ {p}
    BY <1>2, <1>5, <1>6, <1>p DEF BoxInv
  <2> QED  BY <1>p, <2>1 DEF Entry
<1>8. Done' = Done \cup {n}
  <2>1. delivered \in [Message -> 0..1] /\ delivered[n] = 0
    BY <1>1, <1>2, <1>3 DEF IInv, VectorInv, Counted, Types
  <2>2. delivered'[n] = 1 /\ \A m \in Message : m # n => delivered'[m] = delivered[m]
    BY <1>1, <1>3, <2>1
  <2>3. \A m \in Message : delivered'[m] > 0 <=> delivered[m] > 0 \/ m = n
    BY <2>1, <2>2
  <2> QED  BY <1>3, <2>3 DEF Done
<1>9. CASE ~broken
  <2>1. due[n] <= clock
    BY <1>1, <1>9, <1>n, FirstDue
  <2>2. ASSUME NEW q \in Pending, q.at <= clock PROVE n <= q.n
    <3>1. PICK i \in DOMAIN messages : q = Entry(messages[i])
      BY DEF Pending, Entry
    <3>2. q.n = messages[i] /\ q.at = due[messages[i]]
      BY <3>1 DEF Entry
    <3> QED  BY <1>1, <1>9, <1>n, <2>2, <3>2, FirstDue
  <2>3. Box!Deliver(p)
    BY <1>1, <1>7, <1>8, <2>1, <2>2 DEF Box!Deliver, Box!First, Box!Due, Pending, Done
  <2> QED  BY <1>7, <2>3
<1>10. CASE broken
  <2>1. Pending' \ Pending = {} /\ p \in Pending \ Pending' /\ Done' \ Done \subseteq {p.n}
    BY <1>7, <1>8
  <2>2. Box!Elapses
    <3>1. clock' = clock + 0
      BY <1>1 DEF IInv, Types
    <3> QED  BY <3>1 DEF Box!Elapses
  <2>3. Box!Late
    BY <1>1, <1>8, <1>10, <2>1, <2>2 DEF Box!Late, Pending, Done
  <2> QED  BY <2>3
<1> QED  BY <1>9, <1>10

(* A message whose receiver is dead, and raises, is pending no more. *)
LEMMA SynchronizeLoses ==
    ASSUME IInv, IInv', DeadRaises
    PROVE  (\E p \in Pending : Box!Lose(p)) \/ Box!Late
<1>n. PICK n : n = Current
  OBVIOUS
<1>1. /\ Looping /\ state[n] = Waits /\ ~NotYet /\ In("synchronize") /\ broken' = TRUE
      /\ state' = [state EXCEPT ![n] = Over]
      /\ UNCHANGED <<sent, clock, due, delivered>>
  BY <1>n DEF DeadRaises, Looping
<1>2. BoxInv /\ BoxInv' /\ Types /\ CallsInv /\ VectorInv
  BY BoxOf, BoxNext DEF IInv
<1>3. n \in Message /\ n \in 1..sent
  <2>1. n \in Message /\ Frame.k \in DOMAIN messages
    BY <1>1, <1>2, <1>n, LoopFacts DEF Current
  <2>2. n <= sent
    BY <1>2, <1>n, <2>1 DEF VectorInv, Current
  <2> QED  BY <1>2, <2>1, <2>2, MessagesAssumption DEF Types, Message
<1>4. /\ state'[n] = Over /\ \A m \in Message : m # n => state'[m] = state[m]
      /\ \A m \in 1..sent : m \in Message
  BY <1>1, <1>2, <1>3, MessagesAssumption DEF Types, Message
<1>p. PICK p : p = Entry(n)
  OBVIOUS
<1>5. n \in Unread /\ Unread' = Unread \ {n}
  BY <1>1, <1>3, <1>4, MessagesAssumption DEF Unread
<1>6. \A m : Entry(m)' = Entry(m) /\ (Entry(m) = p => m = n)
  BY <1>1, <1>p DEF Entry
<1>7. p \in Pending /\ Pending' = Pending \ {p} /\ p.n = n /\ p.at = due[n]
  <2>1. p \in Pending /\ Pending' = Pending \ {p}
    BY <1>2, <1>5, <1>6, <1>p DEF BoxInv
  <2> QED  BY <1>p, <2>1 DEF Entry
<1>8. Done' = Done
  BY <1>1 DEF Done
<1>9. CASE ~broken
  <2>1. due[n] <= clock
    BY <1>1, <1>9, <1>n, FirstDue
  <2>2. ASSUME NEW q \in Pending, q.at <= clock PROVE n <= q.n
    <3>1. PICK i \in DOMAIN messages : q = Entry(messages[i])
      BY DEF Pending, Entry
    <3>2. q.n = messages[i] /\ q.at = due[messages[i]]
      BY <3>1 DEF Entry
    <3> QED  BY <1>1, <1>9, <1>n, <2>2, <3>2, FirstDue
  <2>3. Box!Lose(p)
    BY <1>1, <1>7, <1>8, <2>1, <2>2 DEF Box!Lose, Box!First, Box!Due, Pending, Done
  <2> QED  BY <1>7, <2>3
<1>10. CASE broken
  <2>1. Pending' \ Pending = {} /\ Done' \ Done = {}
    BY <1>7, <1>8
  <2>2. Box!Elapses
    <3>1. clock' = clock + 0
      BY <1>1, <1>2 DEF Types
    <3> QED  BY <3>1 DEF Box!Elapses
  <2>3. Box!Late
    BY <1>1, <1>8, <1>10, <2>1, <2>2 DEF Box!Late, Pending, Done
  <2> QED  BY <2>3
<1> QED  BY <1>9, <1>10

LEMMA ErrorFails ==
    ASSUME IInv, IInv', SubtractRaises \/ ReceiverRaises
    PROVE  Box!Fail \/ UNCHANGED Box!vars
<1>1. UNCHANGED <<sent, state, clock, due, delivered>>
  BY DEF SubtractRaises, ReceiverRaises, mail
<1>2. Pending' = Pending /\ Done' = Done
  BY <1>1, SameBox
<1>3. CASE broken' = TRUE
  <2>1. Box!Elapses
    <3>1. clock' = clock + 0
      BY <1>1 DEF IInv, Types
    <3> QED  BY <3>1 DEF Box!Elapses
  <2> QED  BY <1>2, <1>3, <2>1 DEF Box!Fail, Pending, Done
<1>4. CASE broken' # TRUE
  <2>1. ReceiverRaises /\ broken' = (broken \/ InSync)
    BY <1>4 DEF SubtractRaises, ReceiverRaises
  <2>2. broken' = broken
    BY <1>4, <2>1 DEF IInv, Types
  <2> QED  BY <1>1, <1>2, <2>2 DEF Box!vars, Pending, Done
<1> QED  BY <1>3, <1>4

LEMMA BoxStep == IInv /\ IInv' /\ [Next]_vars => [Box!Next]_Box!vars
<1> SUFFICES ASSUME IInv, IInv', [Next]_vars PROVE Box!Next \/ UNCHANGED Box!vars
  OBVIOUS
<1>1. ASSUME UNCHANGED <<sent, state, clock, due, delivered, broken>>
      PROVE  UNCHANGED Box!vars
  <2>1. Pending' = Pending /\ Done' = Done
    BY <1>1, SameBox
  <2> QED  BY <1>1, <2>1 DEF Box!vars, Pending, Done
<1>2. ASSUME NEW a \in Agent, NEW d \in Delay, Send(a, d) PROVE Box!Next
  BY <1>2, SendPosts DEF Box!Next
<1>3. ASSUME NEW d \in Amount, Synchronize(d) PROVE Box!Next
  BY <1>3, SynchronizeAdvances DEF Box!Next
<1>4. CASE CallReceiver \/ DropMessage
  BY <1>4, SynchronizeDelivers DEF Box!Next, Pending
<1>5. CASE SubtractRaises \/ ReceiverRaises
  BY <1>5, ErrorFails DEF Box!Next
<1>8. CASE DeadRaises
  BY <1>8, SynchronizeLoses DEF Box!Next, Pending
<1>6. ASSUME NEW a \in Agent, SendNow(a) \/ Die(a) PROVE UNCHANGED Box!vars
  BY <1>1, <1>6 DEF SendNow, Die, mail, hist
<1>7. CASE SkipMessage \/ ReceiverReturns \/ SynchronizeReturns \/ UNCHANGED vars
  BY <1>1, <1>7 DEF SkipMessage, ReceiverReturns, SynchronizeReturns, vars, mail, hist
<1> QED  BY <1>2, <1>3, <1>4, <1>5, <1>6, <1>7, <1>8 DEF Next

LEMMA BoxInit == Init => Box!Init
<1> SUFFICES ASSUME Init PROVE Box!Init
  OBVIOUS
<1>1. clock = 0 /\ broken = FALSE /\ messages = <<>> /\ \A n \in Message : delivered[n] = 0
  BY DEF Init
<1>2. Done = {}
  BY <1>1 DEF Done
<1>3. Pending = {}
  BY <1>1 DEF Pending
<1> QED  BY <1>1, <1>2, <1>3 DEF Box!Init, Pending, Done

(* Whatever receivers send, whoever dies, and however the calls of         *)
(* synchronize are nested, the vector of the Society is a mailbox: messages *)
(* are delivered once, when due, in the order in which they were sent; an  *)
(* error makes them late, and loses the one whose dead receiver raised it, *)
(* but none is delivered twice (Society.lua:801-823, Agent.lua:25-29).     *)
THEOREM VectorIsMailbox == Spec => ImplementsMailbox
<1>1. Init => Box!Init
  BY BoxInit
<1>2. IInv /\ IInv' /\ [Next]_vars => [Box!Next]_Box!vars
  BY BoxStep
<1> QED  BY <1>1, <1>2, Invariance, PTL DEF Spec, ImplementsMailbox, Box!Spec
=============================================================================
