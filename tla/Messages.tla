------------------------------ MODULE Messages ------------------------------
(***************************************************************************)
(* Messages between the agents of a Society (Agent.lua, Society.lua).      *)
(*                                                                         *)
(* message without delay calls the function of the receiver.  With a delay *)
(* the message goes to the end of a vector of the Society; synchronize     *)
(* walks the vector, takes its argument from each delay, and calls the     *)
(* receiver for the messages whose delay is over.  A receiver may send,    *)
(* kill agents, call synchronize again, and raise an error, which ends all *)
(* calls that it was made from.                                            *)
(***************************************************************************)
EXTENDS Integers, Sequences

CONSTANTS
    Agent,        \* the agents
    Inherits,     \* those that have their on_ functions from the instance of
                  \* the Society, by their metatable
    Delay,        \* the delays of messages
    Amount,       \* the arguments of synchronize
    Waits, Over,  \* delay is a number, or true
    MaxMessages,  \* bound: the delayed messages
    MaxClock,     \* bound: the sum of the arguments of synchronize
    MaxDepth      \* bound: the calls inside each other

ASSUME MessagesAssumption ==
    /\ Inherits \subseteq Agent
    /\ Delay \subseteq Nat \ {0} /\ Amount \subseteq Nat \ {0} /\ Waits # Over
    /\ MaxMessages \in Nat /\ MaxClock \in Nat /\ MaxDepth \in Nat

Message == 1..MaxMessages
Now == 0                  \* a message without delay, which is in no vector

VARIABLES
    messages,     \* the vector of the Society
    sent,         \* how many messages with delay were sent
    receiver,     \* of each of them
    delay,        \* of each of them: what is left of it
    state,        \* and whether it still is a number
    alive,        \* the agents that have not died
    calls,        \* the calls in progress: synchronize, and receivers
    clock,        \* history: the sum of the arguments of synchronize
    due,          \* history: the clock at which each message is due
    delivered,    \* history: how often each was
    broken        \* history: an error left synchronize, or a receiver called
                  \* it

mail == <<messages, sent, receiver, delay, state>>
hist == <<clock, due, delivered, broken>>
vars == <<mail, alive, calls, hist>>

Sync     == [of : {"synchronize"}, k : Nat, left : Nat, amount : Amount]
Receiver == [of : {"receiver"}, message : Message \cup {Now}]

Init ==
    /\ messages = <<>> /\ sent = 0
    /\ receiver \in [Message -> Agent] /\ delay = [n \in Message |-> 0]
    /\ state = [n \in Message |-> Waits]
    /\ alive = Agent /\ calls = <<>>
    /\ clock = 0 /\ due = [n \in Message |-> 0] /\ delivered = [n \in Message |-> 0]
    /\ broken = FALSE

Last(s) == s[Len(s)]
Pop     == SubSeq(calls, 1, Len(calls) - 1)
Push(x) == Append(calls, x)

In(what) == calls # <<>> /\ Last(calls).of = what
InSync   == \E i \in DOMAIN calls : calls[i].of = "synchronize"

(* The script acts: outside of all calls, or in a receiver. *)
MayCall == (calls = <<>> \/ In("receiver")) /\ Len(calls) < MaxDepth

----------------------------------------------------------------------------
(* agent:message{receiver = a, delay = d} *)
Send(a, d) ==
    /\ MayCall /\ alive # {} /\ a \in alive /\ sent < MaxMessages
    /\ LET n == sent + 1 IN
       /\ sent' = n /\ messages' = Append(messages, n)
       /\ receiver' = [receiver EXCEPT ![n] = a]
       /\ delay' = [delay EXCEPT ![n] = d]
       /\ due' = [due EXCEPT ![n] = clock + d]
    /\ UNCHANGED <<state, alive, calls, clock, delivered, broken>>

(* agent:message{receiver = a} *)
SendNow(a) ==
    /\ MayCall /\ a \in alive
    /\ calls' = Push([of |-> "receiver", message |-> Now])
    /\ UNCHANGED <<mail, alive, hist>>

(* die replaces the on_ functions that are the agent's own by functions    *)
(* that warn; its new metatable raises an error for all that it inherited. *)
Die(a) ==
    /\ MayCall /\ a \in alive
    /\ alive' = alive \ {a}
    /\ UNCHANGED <<mail, calls, hist>>

----------------------------------------------------------------------------
(* society:synchronize(d) *)
Synchronize(d) ==
    /\ MayCall /\ clock + d <= MaxClock
    /\ calls' = Push([of |-> "synchronize", k |-> 1, left |-> Len(messages), amount |-> d])
    /\ clock' = clock + d
    /\ broken' = (broken \/ InSync)
    /\ UNCHANGED <<mail, alive, due, delivered>>

Frame == Last(calls)
Current == messages[Frame.k]
Looping == In("synchronize") /\ Frame.left > 0
Walk(k) == Append(Pop, [Frame EXCEPT !.k = k, !.left = @ - 1])

RemoveLast(k) == SubSeq(messages, 1, Len(messages) - 1)    \* mutant: no position
RemoveFrom(k) == SubSeq(messages, 1, k - 1) \o SubSeq(messages, k + 1, Len(messages))

DelayLeft == delay[Current] - Frame.amount
NotQuite  == DelayLeft >= 0             \* mutant: < instead of <=
NotYet    == DelayLeft > 0

(* The message has a delay left. *)
SkipMessage ==
    /\ Looping /\ state[Current] = Waits /\ NotYet
    /\ delay' = [delay EXCEPT ![Current] = DelayLeft]
    /\ calls' = Walk(Frame.k + 1)
    /\ UNCHANGED <<messages, sent, receiver, state, alive, hist>>

(* Its delay is over: the receiver is called; the message is still there. *)
CallReceiver ==
    /\ Looping /\ state[Current] = Waits /\ ~NotYet /\ receiver[Current] \in alive
    /\ delay' = [delay EXCEPT ![Current] = DelayLeft]
    /\ state' = [state EXCEPT ![Current] = Over]
    /\ delivered' = [delivered EXCEPT ![Current] = @ + 1]
    /\ calls' = Push([of |-> "receiver", message |-> Current])
    /\ UNCHANGED <<messages, sent, receiver, alive, clock, due, broken>>

(* A dead receiver with a function of its own warns, and the message is    *)
(* removed.                                                                *)
DropMessage ==
    /\ Looping /\ state[Current] = Waits /\ ~NotYet
    /\ receiver[Current] \notin alive \cup Inherits
    /\ delay' = [delay EXCEPT ![Current] = DelayLeft]
    /\ state' = [state EXCEPT ![Current] = Over]
    /\ delivered' = [delivered EXCEPT ![Current] = @ + 1]
    /\ messages' = RemoveFrom(Frame.k)
    /\ calls' = Walk(Frame.k)
    /\ UNCHANGED <<sent, receiver, alive, clock, due, broken>>

(* One that inherited it raises an error, and the message is left in the   *)
(* vector with delay = true.                                               *)
DeadRaises ==
    /\ Looping /\ state[Current] = Waits /\ ~NotYet
    /\ receiver[Current] \in Inherits \ alive
    /\ delay' = [delay EXCEPT ![Current] = DelayLeft]
    /\ state' = [state EXCEPT ![Current] = Over]
    /\ calls' = <<>> /\ broken' = TRUE
    /\ UNCHANGED <<messages, sent, receiver, alive, clock, due, delivered>>

(* The receiver returns; synchronize removes the message that it was for,  *)
(* at the place that it had.                                               *)
NextOne(k)  == k + 1                    \* mutant: k goes on after the removal
NextSame(k) == k

ReceiverReturns ==
    /\ In("receiver")
    /\ IF Frame.message = Now
       THEN calls' = Pop /\ UNCHANGED messages
       ELSE LET s == Last(Pop) IN
            /\ messages' = RemoveFrom(s.k)
            /\ calls' = Append(SubSeq(Pop, 1, Len(Pop) - 1),
                               [s EXCEPT !.k = NextSame(@), !.left = @ - 1])
    /\ UNCHANGED <<sent, receiver, delay, state, alive, hist>>

SynchronizeReturns ==
    /\ In("synchronize") /\ Frame.left = 0
    /\ calls' = Pop
    /\ UNCHANGED <<mail, alive, hist>>

(* A message whose delay is true: the subtraction raises an error. *)
SubtractRaises ==
    /\ Looping /\ state[Current] = Over
    /\ calls' = <<>> /\ broken' = TRUE
    /\ UNCHANGED <<mail, alive, clock, due, delivered>>

ReceiverRaises ==
    /\ In("receiver")
    /\ calls' = <<>> /\ broken' = (broken \/ InSync)
    /\ UNCHANGED <<mail, alive, clock, due, delivered>>

Next ==
    \/ \E a \in Agent : SendNow(a) \/ Die(a) \/ \E d \in Delay : Send(a, d)
    \/ \E d \in Amount : Synchronize(d)
    \/ SkipMessage \/ CallReceiver \/ DropMessage \/ DeadRaises
    \/ ReceiverReturns \/ SynchronizeReturns \/ SubtractRaises \/ ReceiverRaises

Spec == Init /\ [][Next]_vars

----------------------------------------------------------------------------
(* The variables have their types; a loop of synchronize stays inside the  *)
(* vector, however its receivers change it.                                *)
TypeOK ==
    /\ messages \in Seq(Message) /\ sent \in 0..MaxMessages
    /\ receiver \in [Message -> Agent] /\ delay \in [Message -> Int]
    /\ state \in [Message -> {Waits, Over}] /\ alive \subseteq Agent
    /\ calls \in Seq(Sync \cup Receiver)
    /\ clock \in Nat /\ due \in [Message -> Nat] /\ delivered \in [Message -> 0..1]
    /\ broken \in BOOLEAN
    /\ Looping => Frame.k + Frame.left - 1 <= Len(messages)

(* When no call is in progress, and no error left synchronize, the         *)
(* messages delivered are those whose delay is over, whatever was sent,    *)
(* and whoever died, meanwhile; the rest waits (Society.lua:766-769).      *)
OnTime ==
    calls = <<>> /\ ~broken =>
        \A n \in 1..sent :
            /\ delivered[n] = (IF due[n] <= clock THEN 1 ELSE 0)
            /\ (\E i \in DOMAIN messages : messages[i] = n) <=> clock < due[n]

(* The vector is a mailbox.  The message that is delivered is in the vector *)
(* until its receiver returns, but it is pending no more.                   *)
Box == INSTANCE Mailbox WITH
    pending <- {[n |-> messages[i], at |-> due[messages[i]]] :
                   i \in {x \in DOMAIN messages : state[messages[x]] = Waits}},
    done    <- {n \in Message : delivered[n] > 0},
    failed  <- broken

(* Messages are delivered once, in time and in the order in which they were *)
(* sent, until an error leaves synchronize, raised by a receiver or by the  *)
(* metatable of a dead one; and none is ever delivered twice, after that    *)
(* either (Society.lua:801-823, Agent.lua:25-29).                           *)
ImplementsMailbox == Box!Spec
=============================================================================
