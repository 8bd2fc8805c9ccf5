------------------------------ MODULE MCResults ------------------------------
(* Small instances of Results and of a reader: two events, one with a category for two awards. *)
EXTENDS ResultsReader, TLC

CONSTANTS e1, e2, k1, k3, a1, a2, n1, n2, n3, n4, x1, x2, x3

\* k1 belongs to e1, k3 to e2; both awards start in k1; n4, where there is one, is of a2.
MCHome == [c \in Categories |-> IF c = k3 THEN e2 ELSE e1]
MCShelf == [a \in Awards |-> k1]
MCAwardOf == [n \in Nominations |-> IF n = n4 THEN a2 ELSE a1]

\* Bound: while a payload is being read, there is one vote at most.
OneVoteWhileRead ==
    reader # Idle => Cardinality({v \in VoteIds : path[v] # NoVote \/ vote[v] # NoVote}) <= 1

\* Votes are alike, and so are the nominations of a1.
Symmetry == Permutations(VoteIds) \cup Permutations(Nominations \ {n4})
=============================================================================
