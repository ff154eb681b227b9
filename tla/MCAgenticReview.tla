-------------------------- MODULE MCAgenticReview --------------------------
(* Two findings, the first one of unknown severity and therefore the last  *)
(* in the order of the cards; three evidence requests, two of them alike.  *)
EXTENDS AgenticReview

Severity == [f \in Findings |-> IF f = 1 THEN Unknown ELSE 0]

Requests == {[key |-> "q", fits |-> TRUE], [key |-> "q", fits |-> FALSE],
             [key |-> "v", fits |-> TRUE]}

SomePlans == UNION {[1..n -> Requests] : n \in 0..3}

SomeCards == {[finding |-> TRUE,  source |-> 2, label |-> 0],
              [finding |-> TRUE,  source |-> 2, label |-> 1],
              [finding |-> TRUE,  source |-> NoFinding, label |-> 0],
              [finding |-> FALSE, source |-> 1, label |-> Unknown],
              [finding |-> FALSE, source |-> OtherFinding, label |-> 0]}

SomeCardLists == UNION {[1..n -> SomeCards] : n \in 0..2}

Default == [planner |-> 1, requests |-> 1, rounds |-> 2, calls |-> 6, cards |-> 2, time |-> TRUE]

SomeBudgets ==
    {Default, [Default EXCEPT !.cards = 1], [Default EXCEPT !.requests = 2],
     [Default EXCEPT !.rounds = 1, !.cards = 1]}
        \cup {[Default EXCEPT !.calls = n] : n \in 0..5}
        \cup {[Default EXCEPT !.planner = 0], [Default EXCEPT !.rounds = 0],
              [Default EXCEPT !.cards = 0], [Default EXCEPT !.requests = 0],
              [Default EXCEPT !.time = FALSE]}
=============================================================================
