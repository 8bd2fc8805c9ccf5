------------------------------- MODULE Ballot -------------------------------
(***************************************************************************)
(* What the voting service promises, without requests, transactions or     *)
(* audit: each voter has at most one choice per award at any moment.  A     *)
(* choice is only ever made where there is none, so it is never silently    *)
(* replaced by another; it goes away only when an event admin voids it.     *)
(***************************************************************************)
CONSTANTS Voters, Awards, Nominations, AwardOf, NoChoice

VARIABLE ballot

BallotTypeOK == ballot \in [Voters -> [Awards -> Nominations \cup {NoChoice}]]

BallotInit == ballot = [v \in Voters |-> [a \in Awards |-> NoChoice]]

Choose(v, n) ==
    /\ ballot[v][AwardOf[n]] = NoChoice
    /\ ballot' = [ballot EXCEPT ![v][AwardOf[n]] = n]

Withdraw(v, a) ==
    /\ ballot[v][a] # NoChoice
    /\ ballot' = [ballot EXCEPT ![v][a] = NoChoice]

BallotNext ==
    \E v \in Voters :
        \/ \E n \in Nominations : Choose(v, n)
        \/ \E a \in Awards : Withdraw(v, a)

BallotSpec == BallotInit /\ [][BallotNext]_ballot
=============================================================================
