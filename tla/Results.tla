------------------------------- MODULE Results -------------------------------
(***************************************************************************)
(* voting.results: results are computed from the vote table, never stored.  *)
(* A vote carries the event it was cast in (copied from its nomination's    *)
(* award and category), while the catalogue it is reported through can be   *)
(* edited at any time: PATCH may move an award to another category and a    *)
(* category to another event, and the change form may put an approved       *)
(* nomination back to pending.  Sums are what the queries return on one     *)
(* state of the tables.                                                     *)
(***************************************************************************)
EXTENDS Integers, FiniteSets, Functions

CONSTANTS
    Events, Categories, Awards, Nominations,
    AwardOf,       \* the award of each nomination (no code changes it)
    VoteIds,       \* bound: the casts of a behaviour
    InitialHome, InitialShelf,
    NoVote

ASSUME ResultsAssumption ==
    /\ IsFiniteSet(VoteIds) /\ IsFiniteSet(Nominations) /\ IsFiniteSet(Awards)
    /\ AwardOf \in [Nominations -> Awards]
    /\ InitialHome \in [Categories -> Events] /\ InitialShelf \in [Awards -> Categories]

VARIABLES
    home,       \* Category.event
    shelf,      \* Award.category
    active,     \* awards with is_active
    approved,   \* nominations with status APPROVED
    path,       \* per cast: the nomination and event it read, until the vote is recorded
    vote        \* the committed votes

vars == <<home, shelf, active, approved, path, vote>>

VoteRow == [event : Events, award : Awards, nomination : Nominations, quantity : Nat,
            voided : BOOLEAN]

TypeOK ==
    /\ home \in [Categories -> Events]
    /\ shelf \in [Awards -> Categories]
    /\ active \subseteq Awards
    /\ approved \subseteq Nominations
    /\ path \in [VoteIds -> [nomination : Nominations, event : Events] \cup {NoVote}]
    /\ vote \in [VoteIds -> VoteRow \cup {NoVote}]

Init ==
    /\ home = InitialHome
    /\ shelf = InitialShelf
    /\ active = Awards
    /\ approved = {}
    /\ path = [v \in VoteIds |-> NoVote]
    /\ vote = [v \in VoteIds |-> NoVote]

EventOf(a) == home[shelf[a]]

----------------------------------------------------------------------------
(* Votes come and go (the module Voting has the detail). *)

ReadPath(v, n) ==
    /\ path[v] = NoVote /\ vote[v] = NoVote
    /\ n \in approved /\ AwardOf[n] \in active
    /\ path' = [path EXCEPT ![v] = [nomination |-> n, event |-> EventOf(AwardOf[n])]]
    /\ UNCHANGED <<home, shelf, active, approved, vote>>

\* Mutant: the award is not the nomination's, as if the client had sent it.
NewVoteElsewhere(v) ==
    [event |-> EventOf(CHOOSE a \in Awards : a # AwardOf[path[v].nomination]),
     award |-> CHOOSE a \in Awards : a # AwardOf[path[v].nomination],
     nomination |-> path[v].nomination, quantity |-> 1, voided |-> FALSE]

\* Mutant: the event column filled with the category.
NewVoteWrongEvent(v) ==
    [event |-> shelf[AwardOf[path[v].nomination]], award |-> AwardOf[path[v].nomination],
     nomination |-> path[v].nomination, quantity |-> 1, voided |-> FALSE]

\* event and award are denormalised from the nomination that was read.
NewVote(v) ==
    [event |-> path[v].event, award |-> AwardOf[path[v].nomination],
     nomination |-> path[v].nomination, quantity |-> 1, voided |-> FALSE]

Record(v) ==
    /\ path[v] # NoVote
    /\ vote' = [vote EXCEPT ![v] = NewVote(v)]
    /\ path' = [path EXCEPT ![v] = NoVote]
    /\ UNCHANGED <<home, shelf, active, approved>>

Void(v) ==
    /\ vote[v] # NoVote /\ ~vote[v].voided
    /\ vote' = [vote EXCEPT ![v].voided = TRUE]
    /\ UNCHANGED <<home, shelf, active, approved, path>>

----------------------------------------------------------------------------
(* The catalogue: event admins may set every field of an award or a category, and the  *)
(* change form of a nomination saves the status it loaded (Nominations has the detail). *)

Approve(n) ==
    /\ n \notin approved
    /\ approved' = approved \cup {n}
    /\ UNCHANGED <<home, shelf, active, path, vote>>

Revert(n) ==
    /\ n \in approved
    /\ approved' = approved \ {n}
    /\ UNCHANGED <<home, shelf, active, path, vote>>

EditAward(a, c, on) ==
    /\ shelf' = [shelf EXCEPT ![a] = c]
    /\ active' = IF on THEN active \cup {a} ELSE active \ {a}
    /\ UNCHANGED <<home, approved, path, vote>>

EditCategory(c, e) ==
    /\ home' = [home EXCEPT ![c] = e]
    /\ UNCHANGED <<shelf, active, approved, path, vote>>

Next ==
    \/ \E v \in VoteIds : (\E n \in Nominations : ReadPath(v, n)) \/ Record(v) \/ Void(v)
    \/ \E n \in Nominations : Approve(n) \/ Revert(n)
    \/ \E a \in Awards, c \in Categories, on \in BOOLEAN : EditAward(a, c, on)
    \/ \E c \in Categories, e \in Events : EditCategory(c, e)

Spec == Init /\ [][Next]_vars

----------------------------------------------------------------------------
(* The queries. *)

\* VoteQuerySet.active
ActiveVotes == {v \in VoteIds : vote[v] # NoVote /\ ~vote[v].voided}

Sum(S) == SumFunction([v \in S |-> vote[v].quantity])

\* Mutant: voided votes still count.
TotalInEventAll(n, e) ==
    Sum({v \in VoteIds : vote[v] # NoVote /\ vote[v].nomination = n /\ vote[v].event = e})

\* _totals_by_nomination(event=e) and (award=a)
TotalInEvent(n, e) == Sum({v \in ActiveVotes : vote[v].nomination = n /\ vote[v].event = e})
TotalInAward(n, a) == Sum({v \in ActiveVotes : vote[v].nomination = n /\ vote[v].award = a})

\* Mutant: ties are pushed down.
RankAmongTied(votes, n) == Cardinality({m \in DOMAIN votes : votes[m] >= votes[n]})

\* _rank: one more than the number of entries with more votes.
Rank(votes, n) == 1 + Cardinality({m \in DOMAIN votes : votes[m] > votes[n]})

Ranked(votes) == [n \in DOMAIN votes |-> [votes |-> votes[n], rank |-> Rank(votes, n)]]

ApprovedIn(a) == {n \in approved : AwardOf[n] = a}

AwardTally(a) == Ranked([n \in ApprovedIn(a) |-> TotalInAward(n, a)])

\* The active awards of the event's categories, each with its ranked nominations.
EventResults(e) ==
    [a \in {b \in active : EventOf(b) = e} |->
        Ranked([n \in ApprovedIn(a) |-> TotalInEvent(n, e)])]

\* totals.votes of event_stats
StatsVotes(e) == Sum({v \in ActiveVotes : vote[v].event = e})

----------------------------------------------------------------------------
(* Properties. *)

NonVoided(n) ==
    Cardinality({v \in VoteIds : vote[v] # NoVote /\ vote[v].nomination = n /\ ~vote[v].voided})

\* However the catalogue is edited, the tally of an award is complete: a nomination never
\* leaves its award, so all its votes carry that award.
AwardTallyComplete ==
    \A a \in Awards : \A n \in ApprovedIn(a) : AwardTally(a)[n].votes = NonVoided(n)

\* "A tally is SUM(quantity) over non-voided votes grouped by nomination": wherever an award
\* is listed, its nominations show all the votes they have.  (Refuted by the run
\* results_moved_award: the listing follows the award, the sum the votes' event.)
TallyIsSumOfVotes ==
    \A e \in Events : \A a \in DOMAIN EventResults(e) : \A n \in ApprovedIn(a) :
        EventResults(e)[a][n].votes = NonVoided(n)

\* The active votes of an event that its results do not show: those for an award that is now
\* inactive or elsewhere, and those for a nomination that is no longer approved.
Unshown(e) == {v \in ActiveVotes : /\ vote[v].event = e
                                  /\ \/ vote[v].award \notin DOMAIN EventResults(e)
                                     \/ vote[v].nomination \notin approved}

\* The public results and the admin dashboard add up, however the catalogue was edited and
\* whatever was taken back: what event_stats counts is what the listed awards show plus what
\* they leave out, so no vote is shown twice, in a wrong event, or invented.
ResultsMatchStats ==
    \A e \in Events :
        LET Shown(a) == SumFunction([n \in ApprovedIn(a) |-> EventResults(e)[a][n].votes])
        IN  StatsVotes(e) = SumFunction([a \in DOMAIN EventResults(e) |-> Shown(a)])
                              + Sum(Unshown(e))

\* Competition ranking (1, 1, 3): equal votes share a rank, and as many nominations are
\* strictly ahead of one as its rank less one, each with a smaller rank.
RanksAreCompetition ==
    \A a \in Awards :
        LET t == AwardTally(a)
        IN  \A m, n \in DOMAIN t :
               /\ t[m].votes = t[n].votes <=> t[m].rank = t[n].rank
               /\ t[m].votes > t[n].votes => t[m].rank < t[n].rank
               /\ Cardinality({k \in DOMAIN t : t[k].rank < t[n].rank}) = t[n].rank - 1
=============================================================================
