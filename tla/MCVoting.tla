------------------------------ MODULE MCVoting ------------------------------
(* Small instances of Voting. *)
EXTENDS Voting, TLC, FiniteSets

CONSTANTS s1, e1, v1, a1, a2, n1, n2, n3, c1, c2, c3, w1, w2

\* An event about to open for voting, its window at [1,2), and one that is open at [0,1).
AboutToOpen == WithAttrs([NewEvent EXCEPT !.status = "nominations_open"],
                         [voting_opens_at |-> 1, voting_closes_at |-> 2])
OpenNow == WithAttrs([NewEvent EXCEPT !.status = "voting_open"],
                     [voting_opens_at |-> 0, voting_closes_at |-> 1])

MCAboutToOpen == {AboutToOpen}
MCOpenNow == {OpenNow}
NoAttrs == {}

AllApproved == {Nominations}
NoneApproved == {{}}

KeepsActive == {<<a1, TRUE>>}
NoPatches == {}

OneAward == [n \in Nominations |-> a1]
TwoAwards == (n1 :> a1) @@ (n2 :> a1) @@ (n3 :> a2)

Symmetry == Permutations(Casts) \cup Permutations(Voids)
=============================================================================
