--------------------------- MODULE MCStateMachine ---------------------------
(* The instance of StateMachine that TLC checks: two agents and an          *)
(* automaton, of which a program constructs two.                           *)
(* s2 and s3 have the same id, so that sharing s1 matters; s1 also jumps to *)
(* itself; no State has the id that s4 jumps to.                            *)
EXTENDS StateMachine

CONSTANTS g, h, a, s1, s2, s3, s4, c1, c2

MCId    == [s \in State |-> IF s \in {s1, s4} THEN "first" ELSE "second"]
MCJumps == [s \in State |-> CASE s = s1 -> <<"second", "first">>
                              [] s = s4 -> <<"third">>
                              [] OTHER  -> <<"first">>]
MCFlows == [s \in State |-> IF s \in {s2, s4} THEN 1 ELSE 2]

(* g shares all States with the automaton, or s1 only, or the automaton's  *)
(* second State is missing.  h shares s2 with g, to which it gives a Jump  *)
(* to its s4, whose own Jump has no target; an automaton with s2, too, gets *)
(* there.                                                                  *)
MCCompositions ==
    {[x \in Machine |-> IF x = g THEN <<s1, s2>> ELSE IF x = h THEN <<s2, s4>> ELSE p] :
        p \in {<<s1, s2>>, <<s1, s3>>, <<s1>>}}

MCTrajectories == {<<>>, <<<<c1, c2>>, <<c2>>>>}
=============================================================================
