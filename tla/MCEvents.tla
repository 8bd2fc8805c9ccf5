------------------------------ MODULE MCEvents ------------------------------
(* Small instance of Events: windows on a clock of a few ticks. *)
EXTENDS Events

CONSTANTS s1, e1

\* All four columns, in order: nominations [0,1), voting [1,2).
AllWindows == [nominations_open_at |-> 0, nominations_close_at |-> 1,
               voting_opens_at |-> 1, voting_closes_at |-> 2]

NameOnly == [f \in {} |-> NoTime]

MCAttrs == { AllWindows, NameOnly,
             [voting_opens_at |-> 0],            \* refused once nominations close at 1
             [voting_closes_at |-> NoTime] }

\* POST /events/ with windows, or with a name only.
MCNewEvents == {WithAttrs(NewEvent, AllWindows), NewEvent}
=============================================================================
