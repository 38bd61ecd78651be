------------------------------ MODULE Mailbox ------------------------------
(***************************************************************************)
(* What a Society promises about delayed messages: a message posted with a *)
(* delay is delivered once, at the first synchronize that reaches the sum  *)
(* of the delays, after the messages posted before it that are due too.    *)
(* Once an error was raised, by a handler or because the receiver is dead, *)
(* it only promises to deliver none twice.                                 *)
(***************************************************************************)
EXTENDS Integers

CONSTANTS
    Message,  \* the messages, numbered as they are posted
    Delay,    \* their delays
    Amount    \* the values that synchronize is called with

VARIABLES
    clock,    \* how far synchronize went
    pending,  \* the messages that wait, with the clock that they are due at
    done,     \* the messages delivered
    failed    \* an error left synchronize

vars == <<clock, pending, done, failed>>

Init == clock = 0 /\ pending = {} /\ done = {} /\ failed = FALSE

Due(p) == p.at <= clock

Post(n, d) ==
    /\ n \notin done /\ \A p \in pending : p.n < n
    /\ pending' = pending \cup {[n |-> n, at |-> clock + d]}
    /\ UNCHANGED <<clock, done, failed>>

Advance(d) ==
    /\ ~failed /\ \A p \in pending : ~Due(p)
    /\ clock' = clock + d
    /\ UNCHANGED <<pending, done, failed>>

First(p) == Due(p) /\ \A q \in pending : Due(q) => p.n <= q.n

Deliver(p) ==
    /\ First(p)
    /\ pending' = pending \ {p} /\ done' = done \cup {p.n}
    /\ UNCHANGED <<clock, failed>>

Elapses == clock' \in {clock + d : d \in Amount \cup {0}}

(* The receiver is gone: the message is lost, and synchronize fails. *)
Lose(p) ==
    /\ First(p)
    /\ pending' = pending \ {p} /\ failed' = TRUE
    /\ UNCHANGED <<clock, done>>

Fail == failed' = TRUE /\ Elapses /\ UNCHANGED <<pending, done>>

(* After a failure a message may be delivered late, but not again. *)
Late ==
    /\ failed /\ failed' /\ Elapses
    /\ \A p \in pending' \ pending : p.n \notin done
    /\ done \subseteq done' /\ done' \ done \subseteq {p.n : p \in pending \ pending'}

Next ==
    \/ \E n \in Message, d \in Delay : Post(n, d)
    \/ \E d \in Amount : Advance(d)
    \/ \E p \in pending : Deliver(p) \/ Lose(p)
    \/ Fail \/ Late

Spec == Init /\ [][Next]_vars
=============================================================================
