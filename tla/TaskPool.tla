------------------------------ MODULE TaskPool ------------------------------
(***************************************************************************)
(* What the worker pool promises to the script that uses it, with neither  *)
(* a bag nor workers: a call handed over is executed once, at some moment, *)
(* and a script that waits with joinall goes on only when every call it    *)
(* handed over was executed.                                               *)
(***************************************************************************)
EXTENDS Naturals

CONSTANT Task    \* the calls the script may hand over

VARIABLES
    submitted,   \* the calls handed over
    executed,    \* how often each was executed
    waiting      \* the script is in joinall

vars == <<submitted, executed, waiting>>

Init ==
    /\ submitted = {}
    /\ executed = [t \in Task |-> 0]
    /\ waiting = FALSE

Submit(t) ==
    /\ ~waiting /\ t \notin submitted
    /\ submitted' = submitted \cup {t}
    /\ UNCHANGED <<executed, waiting>>

Execute(t) ==
    /\ t \in submitted /\ executed[t] = 0
    /\ executed' = [executed EXCEPT ![t] = 1]
    /\ UNCHANGED <<submitted, waiting>>

JoinAll ==
    /\ ~waiting
    /\ waiting' = TRUE
    /\ UNCHANGED <<submitted, executed>>

Resume ==
    /\ waiting /\ \A t \in submitted : executed[t] = 1
    /\ waiting' = FALSE
    /\ UNCHANGED <<submitted, executed>>

Next == JoinAll \/ Resume \/ \E t \in Task : Submit(t) \/ Execute(t)

Spec == Init /\ [][Next]_vars
============================================================================
