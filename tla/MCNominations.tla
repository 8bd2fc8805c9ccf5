---------------------------- MODULE MCNominations ----------------------------
(* Small instances of Nominations: one award, so that equal names collide. *)
EXTENDS Nominations, TLC

CONSTANTS s1, s2, e1, p1, p2, m1, m2, f1, a1, bob, eve, staff

\* Nominations [0,1); no voting window yet.
Open == WithAttrs([NewEvent EXCEPT !.status = "nominations_open"],
                  [nominations_open_at |-> 0, nominations_close_at |-> 1])
Draft == [Open EXCEPT !.status = "draft"]
MCOpen == {Open}
\* Voting began early, then a PATCH cleared its window: nominations are over by status only.
Voting == [Open EXCEPT !.status = "voting_open"]
MCInitial == {Draft, Voting}
NoAttrs == {}
\* A PATCH of a column of no interest here, and one that puts a voting window in the place of
\* the nomination window.
NameOnly == [f \in {} |-> NoTime]
VotingInstead == [nominations_open_at |-> NoTime, nominations_close_at |-> NoTime,
                  voting_opens_at |-> 0, voting_closes_at |-> 1]
MCAttrs == {NameOnly, VotingInstead}

\* Bound: nobody submits while a PATCH is under way, or where one has moved the windows or
\* brought an old status back.
PatchesKeepApart ==
    \/ edit = [e \in Editors |-> NoJob] /\ StatusIsAudited /\ event.voting_opens_at = NoTime
    \/ \A s \in Submissions : submission[s].phase = "idle"

Symmetry == Permutations(Setters) \cup Permutations(Submissions)
               \cup Permutations(Reviews) \cup Permutations(Names)
=============================================================================
