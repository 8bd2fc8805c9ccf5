---------------------------- MODULE Results_proofs ----------------------------
(***************************************************************************)
(* Theorems about Results and ResultsReader, for any catalogue, any number  *)
(* of votes and any order of edits, votes and reads.                        *)
(***************************************************************************)
EXTENDS ResultsReader, Counting

\* A vote names the award of its nomination, and counts one.
VotesAgree ==
    /\ \A v \in VoteIds : path[v] # NoVote => vote[v] = NoVote
    /\ \A v \in VoteIds : vote[v] # NoVote =>
          /\ vote[v].nomination \in Nominations
          /\ vote[v].award = AwardOf[vote[v].nomination]
          /\ vote[v].quantity = 1

ResultsInv == TypeOK /\ VotesAgree

LEMMA ResultsInitInv == Init => ResultsInv
<1> SUFFICES ASSUME Init PROVE ResultsInv
  OBVIOUS
<1>1. TypeOK
  BY ResultsAssumption DEF Init, TypeOK
<1>2. VotesAgree
  BY DEF Init, VotesAgree
<1> QED
  BY <1>1, <1>2 DEF ResultsInv

LEMMA ResultsNextInv == ResultsInv /\ [Next]_vars => ResultsInv'
<1> SUFFICES ASSUME ResultsInv, [Next]_vars PROVE ResultsInv'
  OBVIOUS
<1> USE DEF ResultsInv
<1>1. ASSUME NEW v \in VoteIds, NEW n \in Nominations, ReadPath(v, n) PROVE ResultsInv'
  <2>1. PICK row : row = [nomination |-> n, event |-> EventOf(AwardOf[n])]
    OBVIOUS
  <2>2. row \in [nomination : Nominations, event : Events] 
    BY <2>1, ResultsAssumption DEF TypeOK, EventOf
  <2>3. /\ path' = [path EXCEPT ![v] = row] /\ n \in approved /\ vote[v] = NoVote
        /\ UNCHANGED <<home, shelf, active, approved, vote>>
    BY <1>1, <2>1 DEF ReadPath
  <2>4. TypeOK'
    BY <2>2, <2>3 DEF TypeOK
  <2>5. VotesAgree'
    BY <2>2, <2>3 DEF VotesAgree, TypeOK
  <2> QED
    BY <2>4, <2>5
<1>2. ASSUME NEW v \in VoteIds, Record(v) PROVE ResultsInv'
  <2>1. PICK row : row = NewVote(v)
    OBVIOUS
  <2>2. path[v] \in [nomination : Nominations, event : Events]
    BY <1>2 DEF Record, TypeOK, VotesAgree
  <2>3. /\ row \in VoteRow /\ row.nomination \in Nominations
        /\ row.award = AwardOf[row.nomination] /\ row.quantity = 1
    BY <2>1, <2>2, ResultsAssumption DEF NewVote, VoteRow
  <2>4. /\ vote' = [vote EXCEPT ![v] = row] /\ path' = [path EXCEPT ![v] = NoVote]
        /\ UNCHANGED <<home, shelf, active, approved>>
    BY <1>2, <2>1 DEF Record
  <2>5. TypeOK'
    BY <2>3, <2>4 DEF TypeOK
  <2>6. VotesAgree'
    BY <2>3, <2>4 DEF VotesAgree, TypeOK
  <2> QED
    BY <2>5, <2>6
<1>3. ASSUME NEW v \in VoteIds, Void(v) PROVE ResultsInv'
  <2>1. PICK row : row = [vote[v] EXCEPT !.voided = TRUE]
    OBVIOUS
  <2>2. vote[v] \in VoteRow /\ vote[v] # NoVote
    BY <1>3 DEF Void, TypeOK
  <2>3. /\ row \in VoteRow /\ row.nomination = vote[v].nomination
        /\ row.award = vote[v].award /\ row.quantity = vote[v].quantity
    BY <2>1, <2>2 DEF VoteRow
  <2>4. vote' = [vote EXCEPT ![v] = row] /\ UNCHANGED <<home, shelf, active, approved, path>>
    BY <1>3, <2>1 DEF Void, TypeOK
  <2>5. TypeOK'
    BY <2>3, <2>4 DEF TypeOK
  <2>6. VotesAgree'
    BY <2>2, <2>3, <2>4 DEF VotesAgree, TypeOK
  <2> QED
    BY <2>5, <2>6
<1>4. ASSUME NEW n \in Nominations, Approve(n) \/ Revert(n) PROVE ResultsInv'
  BY <1>4 DEF Approve, Revert, TypeOK, VotesAgree
<1>5. ASSUME NEW a \in Awards, NEW c \in Categories, NEW on \in BOOLEAN, EditAward(a, c, on)
      PROVE  ResultsInv'
  BY <1>5 DEF EditAward, TypeOK, VotesAgree
<1>6. ASSUME NEW c \in Categories, NEW e \in Events, EditCategory(c, e) PROVE ResultsInv'
  BY <1>6 DEF EditCategory, TypeOK, VotesAgree
<1>7. ASSUME UNCHANGED vars PROVE ResultsInv'
  BY <1>7 DEF vars, TypeOK, VotesAgree
<1> QED
  BY <1>1, <1>2, <1>3, <1>4, <1>5, <1>6, <1>7 DEF Next

----------------------------------------------------------------------------
(* Sums of votes. *)

\* SUM(quantity) over rows that count one each is how many they are.
LEMMA SumOfRows ==
    ASSUME NEW rows, NEW S \in SUBSET VoteIds, \A v \in S : rows[v].quantity = 1
    PROVE  LET sum == SumFunction([v \in S |-> rows[v].quantity])
           IN  IsFiniteSet(S) /\ sum = Cardinality(S) /\ sum \in Nat
<1> DEFINE f == [v \in S |-> rows[v].quantity]
<1>1. IsFiniteSet(S)
  BY FS_Subset, ResultsAssumption
<1>2. \A v \in S : f[v] = 1
  OBVIOUS
<1>3. SumFunctionOnSet(f, S) = Cardinality(S)
  BY <1>1, <1>2, SumOfOnes
<1>4. SumFunction(f) = SumFunctionOnSet(f, S)
  BY DEF SumFunction
<1> QED
  BY <1>1, <1>3, <1>4, FS_CardinalityType

LEMMA SumCounts ==
    ASSUME VotesAgree, NEW S \in SUBSET ActiveVotes
    PROVE  IsFiniteSet(S) /\ Sum(S) = Cardinality(S) /\ Sum(S) \in Nat
<1>1. S \in SUBSET VoteIds /\ \A v \in S : vote[v].quantity = 1
  BY DEF ActiveVotes, VotesAgree
<1> QED
  BY <1>1, SumOfRows DEF Sum

\* The votes of an award and of its nomination are the same.
LEMMA AwardTotal ==
    ASSUME VotesAgree, NEW a \in Awards, NEW n \in ApprovedIn(a)
    PROVE  TotalInAward(n, a) = NonVoided(n) /\ TotalInAward(n, a) \in Nat
<1> DEFINE S == {v \in ActiveVotes : vote[v].nomination = n /\ vote[v].award = a}
<1>1. S = {v \in VoteIds : vote[v] # NoVote /\ vote[v].nomination = n /\ ~vote[v].voided}
  BY DEF ActiveVotes, VotesAgree, ApprovedIn
<1>2. Sum(S) = Cardinality(S) /\ Sum(S) \in Nat
  BY SumCounts
<1> QED
  BY <1>1, <1>2 DEF TotalInAward, NonVoided

\* _rank: who has more votes has a smaller rank, and as many are ahead of one as its rank
\* less one.
LEMMA Ranking ==
    ASSUME NEW votes, IsFiniteSet(DOMAIN votes), \A n \in DOMAIN votes : votes[n] \in Nat,
           NEW m \in DOMAIN votes, NEW n \in DOMAIN votes
    PROVE  LET t == Ranked(votes)
           IN  /\ t[m].votes = t[n].votes <=> t[m].rank = t[n].rank
               /\ t[m].votes > t[n].votes => t[m].rank < t[n].rank
               /\ Cardinality({k \in DOMAIN t : t[k].rank < t[n].rank}) = t[n].rank - 1
<1> DEFINE Ahead(k) == {j \in DOMAIN votes : votes[j] > votes[k]}
           t == Ranked(votes)
<1>1. /\ DOMAIN t = DOMAIN votes
      /\ \A k \in DOMAIN votes : t[k].votes = votes[k] /\ t[k].rank = 1 + Cardinality(Ahead(k))
  BY DEF Ranked, Rank
<1>2. \A k \in DOMAIN votes : IsFiniteSet(Ahead(k)) /\ Cardinality(Ahead(k)) \in Nat
  BY FS_Subset, FS_CardinalityType
<1>3. ASSUME NEW i \in DOMAIN votes, NEW k \in DOMAIN votes, votes[i] > votes[k]
      PROVE  Cardinality(Ahead(i)) < Cardinality(Ahead(k))
  <2>1. Ahead(i) \subseteq Ahead(k)
    BY <1>3
  <2>2. i \in Ahead(k) /\ i \notin Ahead(i)
    BY <1>3
  <2> HIDE DEF Ahead
  <2>3. /\ Cardinality(Ahead(i)) <= Cardinality(Ahead(k))
        /\ Cardinality(Ahead(k)) # Cardinality(Ahead(i))
    BY <1>2, <2>1, <2>2, FS_Subset
  <2> QED
    BY <1>2, <2>3
<1>4. ASSUME NEW i \in DOMAIN votes, NEW k \in DOMAIN votes
      PROVE  t[i].rank < t[k].rank <=> votes[i] > votes[k]
  <2>1. CASE votes[i] = votes[k]
    <3>1. Ahead(i) = Ahead(k)
      BY <2>1
    <3> HIDE DEF Ahead, t
    <3> QED
      BY <1>1, <1>2, <2>1, <3>1
  <2>2. CASE votes[i] # votes[k]
    <3> HIDE DEF Ahead, t
    <3> QED
      BY <1>1, <1>2, <1>3, <2>2
  <2> QED
    BY <2>1, <2>2
<1>5. {k \in DOMAIN t : t[k].rank < t[n].rank} = Ahead(n)
  <2> HIDE DEF t
  <2> QED
    BY <1>1, <1>4
<1>6. \A k \in DOMAIN votes : t[k].rank \in Nat
  <2> HIDE DEF Ahead, t
  <2> QED
    BY <1>1, <1>2
<1> HIDE DEF Ahead, t
<1>7. t[m].votes > t[n].votes => t[m].rank < t[n].rank
  BY <1>1, <1>4
<1>8. t[m].votes = t[n].votes <=> t[m].rank = t[n].rank
  BY <1>1, <1>4, <1>6
<1>9. Cardinality({k \in DOMAIN t : t[k].rank < t[n].rank}) = t[n].rank - 1
  <2>1. PICK size : size = Cardinality(Ahead(n))
    OBVIOUS
  <2>2. t[n].rank = 1 + size /\ size \in Nat
    BY <1>1, <1>2, <2>1
  <2>3. Cardinality({k \in DOMAIN t : t[k].rank < t[n].rank}) = size
    BY <1>5, <2>1
  <2> QED
    BY <2>2, <2>3
<1> QED
  BY <1>7, <1>8, <1>9 DEF t

----------------------------------------------------------------------------
(* The tables. *)

LEMMA ResultsInvariant == Spec => []ResultsInv
<1>1. Init => ResultsInv
  BY ResultsInitInv
<1>2. ResultsInv /\ [Next]_vars => ResultsInv'
  BY ResultsNextInv
<1> QED
  BY <1>1, <1>2, PTL DEF Spec

LEMMA TallyComplete == ResultsInv => AwardTallyComplete
<1> SUFFICES ASSUME ResultsInv, NEW a \in Awards, NEW n \in ApprovedIn(a)
             PROVE  AwardTally(a)[n].votes = NonVoided(n)
  BY DEF AwardTallyComplete
<1>1. AwardTally(a)[n].votes = TotalInAward(n, a)
  BY DEF AwardTally, Ranked
<1> QED
  BY <1>1, AwardTotal DEF ResultsInv

LEMMA CompetitionRanks == ResultsInv => RanksAreCompetition
<1> SUFFICES ASSUME ResultsInv, NEW a \in Awards,
                    NEW m \in DOMAIN AwardTally(a), NEW n \in DOMAIN AwardTally(a)
             PROVE  LET t == AwardTally(a)
                    IN  /\ t[m].votes = t[n].votes <=> t[m].rank = t[n].rank
                        /\ t[m].votes > t[n].votes => t[m].rank < t[n].rank
                        /\ Cardinality({k \in DOMAIN t : t[k].rank < t[n].rank}) = t[n].rank - 1
  BY DEF RanksAreCompetition
<1>1. PICK votes : votes = [k \in ApprovedIn(a) |-> TotalInAward(k, a)]
  OBVIOUS
<1>2. AwardTally(a) = Ranked(votes)
  BY <1>1 DEF AwardTally
<1>3. DOMAIN votes = ApprovedIn(a) /\ \A k \in ApprovedIn(a) : votes[k] \in Nat
  BY <1>1, AwardTotal DEF ResultsInv
<1>4. IsFiniteSet(ApprovedIn(a))
  <2>1. ApprovedIn(a) \in SUBSET Nominations
    BY DEF ApprovedIn, ResultsInv, TypeOK
  <2> QED
    BY <2>1, FS_Subset, ResultsAssumption
<1>5. m \in DOMAIN votes /\ n \in DOMAIN votes
  BY <1>2 DEF Ranked
<1> QED
  BY <1>2, <1>3, <1>4, <1>5, Ranking

\* Every vote of an event is shown with one listed award and one of its nominations, or left
\* out.
LEMMA StatsMatch == ResultsInv => ResultsMatchStats
<1> SUFFICES ASSUME ResultsInv, NEW e \in Events
             PROVE  LET Shown(a) == SumFunction([n \in ApprovedIn(a) |-> EventResults(e)[a][n].votes])
                    IN  StatsVotes(e) = SumFunction([a \in DOMAIN EventResults(e) |-> Shown(a)])
                          + Sum(Unshown(e))
  BY DEF ResultsMatchStats
<1> USE DEF ResultsInv
<1> DEFINE Cast == {v \in ActiveVotes : vote[v].event = e}
           Listed == {a \in active : EventOf(a) = e}
           OfNomination == [n \in Nominations |-> {v \in Cast : vote[v].nomination = n}]
           OfAward == [a \in Awards |-> {v \in Cast : /\ vote[v].award = a
                                                     /\ vote[v].nomination \in approved}]
           Rest == {v \in Cast : vote[v].award \notin Listed \/ vote[v].nomination \notin approved}
           shown == [a \in Listed |-> SumFunction([n \in ApprovedIn(a) |-> EventResults(e)[a][n].votes])]
<1>1. DOMAIN EventResults(e) = Listed /\ Listed \subseteq Awards /\ IsFiniteSet(Listed)
  BY FS_Subset, ResultsAssumption DEF EventResults, TypeOK
<1>2. \A n \in Nominations : /\ IsFiniteSet(OfNomination[n])
                             /\ TotalInEvent(n, e) = Cardinality(OfNomination[n])
  <2> SUFFICES ASSUME NEW n \in Nominations
               PROVE  /\ IsFiniteSet(OfNomination[n])
                      /\ TotalInEvent(n, e) = Cardinality(OfNomination[n])
    OBVIOUS
  <2>1. OfNomination[n] = {v \in ActiveVotes : vote[v].nomination = n /\ vote[v].event = e}
    OBVIOUS
  <2> QED
    BY <2>1, SumCounts DEF TotalInEvent
<1>3. ASSUME NEW a \in Listed
      PROVE  shown[a] = Cardinality(OfAward[a]) /\ IsFiniteSet(OfAward[a])
  <2> DEFINE f == [n \in ApprovedIn(a) |-> EventResults(e)[a][n].votes]
  <2>1. ApprovedIn(a) \in SUBSET Nominations /\ IsFiniteSet(ApprovedIn(a))
    BY FS_Subset, ResultsAssumption DEF ApprovedIn, TypeOK
  <2>2. \A n \in ApprovedIn(a) : f[n] = TotalInEvent(n, e)
    BY <1>1 DEF EventResults, Ranked
  <2>3. \A v : v \in OfAward[a] <=> \E n \in ApprovedIn(a) : v \in OfNomination[n]
    <3>1. ASSUME NEW v \in OfAward[a] PROVE \E n \in ApprovedIn(a) : v \in OfNomination[n]
      <4>1. /\ v \in Cast /\ vote[v].award = a /\ vote[v].nomination \in approved
            /\ AwardOf[vote[v].nomination] = a
        BY <1>1 DEF ActiveVotes, VotesAgree
      <4>2. vote[v].nomination \in ApprovedIn(a) /\ vote[v].nomination \in Nominations
        BY <4>1 DEF ApprovedIn, TypeOK
      <4> QED
        BY <4>1, <4>2
    <3>2. ASSUME NEW n \in ApprovedIn(a), NEW v \in OfNomination[n] PROVE v \in OfAward[a]
      <4>1. v \in Cast /\ vote[v].nomination = n /\ AwardOf[n] = a
        BY <2>1 DEF ApprovedIn
      <4>2. vote[v].award = a /\ vote[v].nomination \in approved
        BY <4>1 DEF ActiveVotes, VotesAgree, ApprovedIn
      <4> QED
        BY <1>1, <4>1, <4>2
    <3> HIDE DEF OfNomination, OfAward
    <3> QED
      BY <3>1, <3>2
  <2>4. \A m, n \in ApprovedIn(a) : m # n => OfNomination[m] \cap OfNomination[n] = {}
    BY <2>1
  <2>5. shown[a] = SumFunctionOnSet(f, ApprovedIn(a))
    BY <1>3 DEF SumFunction
  <2> HIDE DEF f, OfNomination, OfAward, shown
  <2>6. IsPartition(OfNomination, ApprovedIn(a), OfAward[a])
    BY <1>2, <2>1, <2>3, <2>4 DEF IsPartition
  <2>7. HasSizes(f, OfNomination, ApprovedIn(a))
    BY <1>2, <2>1, <2>2 DEF HasSizes
  <2> QED
    BY <2>1, <2>5, <2>6, <2>7, SumOfSizes
<1>4. \A v : v \in Cast \ Rest <=> \E a \in Listed : v \in OfAward[a]
  <2>1. ASSUME NEW v \in Cast \ Rest PROVE \E a \in Listed : v \in OfAward[a]
    <3>1. v \in Cast /\ vote[v].award \in Listed /\ vote[v].nomination \in approved
      OBVIOUS
    <3> QED
      BY <1>1, <3>1
  <2>2. ASSUME NEW a \in Listed, NEW v \in OfAward[a] PROVE v \in Cast \ Rest
    BY <1>1
  <2> HIDE DEF OfAward, Cast, Rest
  <2> QED
    BY <2>1, <2>2
<1>5. \A a, b \in Listed : a # b => OfAward[a] \cap OfAward[b] = {}
  BY <1>1
<1>6. SumFunction(shown) = SumFunctionOnSet(shown, Listed)
  BY DEF SumFunction
<1>7. StatsVotes(e) = Cardinality(Cast) /\ IsFiniteSet(Cast)
  BY SumCounts DEF StatsVotes
<1>8. /\ Sum(Unshown(e)) = Cardinality(Rest)
      /\ IsFiniteSet(Rest) /\ Cardinality(Rest) \in Nat
  <2>1. Unshown(e) = Rest
    BY <1>1 DEF Unshown
  <2>2. Rest \in SUBSET ActiveVotes
    OBVIOUS
  <2> QED
    BY <2>1, <2>2, SumCounts, FS_CardinalityType
<1>9. Cardinality(Cast \ Rest) = Cardinality(Cast) - Cardinality(Rest) /\ Cardinality(Cast) \in Nat
  <2>1. Cast \cap Rest = Rest
    OBVIOUS
  <2> HIDE DEF Cast, Rest
  <2>2. Cardinality(Cast \ Rest) = Cardinality(Cast) - Cardinality(Cast \cap Rest)
    BY <1>7, FS_Difference
  <2>3. Cardinality(Cast) \in Nat
    BY <1>7, FS_CardinalityType
  <2> QED
    BY <2>1, <2>2, <2>3
<1>10. SumFunction(shown) = Cardinality(Cast \ Rest)
  <2> HIDE DEF Cast, Rest, Listed, OfAward, shown
  <2>1. IsPartition(OfAward, Listed, Cast \ Rest)
    BY <1>3, <1>4, <1>5 DEF IsPartition
  <2>2. HasSizes(shown, OfAward, Listed)
    BY <1>3 DEF HasSizes
  <2> QED
    BY <1>1, <1>6, <2>1, <2>2, SumOfSizes
<1>11. StatsVotes(e) = SumFunction(shown) + Sum(Unshown(e))
  <2> HIDE DEF Cast, Rest, shown
  <2> QED
    BY <1>7, <1>8, <1>9, <1>10
<1> QED
  BY <1>1, <1>11

----------------------------------------------------------------------------
(* The reader.  What it has read of an award that nothing happened to is still so. *)

TotalsHold(a) ==
    \A n \in Nominations : AwardOf[n] = a => reader.totals[n] = TotalInEvent(n, reader.event)

FoundHold(a) ==
    reader.next \in {"categories", "awards"} =>
        \A n \in Nominations : AwardOf[n] = a =>
            (n \in reader.found <=> n \in approved /\ EventOf(a) = reader.event)

\* The award's category is still to be read, or has been: then the award is listed there.
ListedHold(a) ==
    reader.next = "awards" =>
        LET where == {c \in Categories : a \in reader.listed[c]}
        IN  /\ shelf[a] \in reader.categories => EventOf(a) = reader.event /\ where = {}
            /\ shelf[a] \notin reader.categories =>
                   where = {c \in Categories : c = shelf[a] /\ EventOf(a) = reader.event /\ a \in active}

ReaderInv ==
    /\ ReaderTypeOK /\ VotesAgree
    /\ reader # Idle => reader.event \in Requested /\ reader.next # "totals"
    /\ reader.next # "awards" => \A c \in Categories : reader.listed[c] = {}
    /\ reader # Idle => \A a \in Awards \ touched : TotalsHold(a) /\ FoundHold(a) /\ ListedHold(a)

\* A vote stays what it is, but for the voided flag.
LEMMA RowsStay ==
    ASSUME ResultsInv, Next, NEW v \in VoteIds, vote[v] # NoVote
    PROVE  vote'[v].award = vote[v].award
<1> USE DEF ResultsInv
<1>1. vote \in [VoteIds -> VoteRow \cup {NoVote}] /\ vote[v] \in VoteRow
  BY DEF TypeOK
<1>2. CASE \E w \in VoteIds : Record(w)
  <2>1. PICK w \in VoteIds : Record(w)
    BY <1>2
  <2>2. w # v
    BY <2>1 DEF Record, VotesAgree
  <2> QED
    BY <1>1, <2>1, <2>2 DEF Record
<1>3. CASE \E w \in VoteIds : Void(w)
  BY <1>1, <1>3 DEF Void, VoteRow
<1>4. CASE UNCHANGED vote
  BY <1>4
<1> QED
  BY <1>2, <1>3, <1>4 DEF Next, ReadPath, Approve, Revert, EditAward, EditCategory

\* The total of a nomination moves only if a vote of its award does.
LEMMA TotalStays ==
    ASSUME ResultsInv, Next, NEW n \in Nominations, ~Changed(AwardOf[n]), NEW e
    PROVE  TotalInEvent(n, e)' = TotalInEvent(n, e)
<1>1. ResultsInv'
  BY ResultsNextInv
<1> USE DEF ResultsInv
<1> DEFINE S == {v \in ActiveVotes : vote[v].nomination = n /\ vote[v].event = e}
<1>2. AwardOf[n] \in Awards
  BY ResultsAssumption
<1>3. ASSUME NEW v \in VoteIds, vote'[v] # vote[v]
      PROVE  v \notin S /\ v \notin S'
  <2>1. vote'[v].award # AwardOf[n]
    BY <1>3 DEF Changed
  <2>2. ASSUME v \in S PROVE FALSE
    <3>1. vote[v] # NoVote /\ vote[v].award = AwardOf[n]
      BY <2>2 DEF ActiveVotes, VotesAgree
    <3> QED
      BY <2>1, <3>1, RowsStay
  <2>3. ASSUME v \in S' PROVE FALSE
    <3>1. vote'[v] # NoVote /\ vote'[v].award = AwardOf[n]
      BY <1>1, <2>3 DEF ActiveVotes, VotesAgree
    <3> QED
      BY <2>1, <3>1
  <2> QED
    BY <2>2, <2>3
<1>4. S' = S
  BY <1>3 DEF ActiveVotes
<1>5. \A v \in S : vote[v].quantity = 1 /\ vote'[v] = vote[v] /\ v \in VoteIds
  BY <1>3 DEF ActiveVotes, VotesAgree
<1>6. PICK T \in SUBSET VoteIds : T = S
  BY DEF ActiveVotes
<1>7. TotalInEvent(n, e) = SumFunction([v \in T |-> vote[v].quantity])
  BY <1>6 DEF TotalInEvent, Sum
<1>8. TotalInEvent(n, e)' = SumFunction([v \in T |-> vote'[v].quantity])
  BY <1>4, <1>6 DEF TotalInEvent, Sum
<1>9. [v \in T |-> vote'[v].quantity] = [v \in T |-> vote[v].quantity]
  BY <1>5, <1>6
<1> QED
  BY <1>7, <1>8, <1>9

LEMMA IdleTyped ==
    Idle \in [event : Requested \cup {Nobody}, next : Steps,
              totals : [Nominations -> Nat], found : SUBSET Nominations,
              categories : SUBSET Categories, listed : [Categories -> SUBSET Awards]]
  BY DEF Idle, Steps

LEMMA ReaderInitInv == ReaderInit => ReaderInv
<1> SUFFICES ASSUME ReaderInit PROVE ReaderInv
  OBVIOUS
<1>1. ResultsInv
  BY ResultsInitInv DEF ReaderInit
<1>2. reader = Idle /\ touched = {}
  BY DEF ReaderInit
<1>3. ReaderTypeOK
  BY <1>1, <1>2, IdleTyped DEF ReaderTypeOK, ResultsInv
<1>4. \A c \in Categories : reader.listed[c] = {}
  BY <1>2 DEF Idle
<1> QED
  BY <1>1, <1>2, <1>3, <1>4 DEF ReaderInv, ResultsInv

\* What goes on meanwhile.
LEMMA ElsewhereInv ==
    ASSUME ReaderInv, Elsewhere
    PROVE  ReaderInv'
<1> USE DEF ReaderInv
<1>1. ResultsInv /\ ResultsInv' /\ Next /\ reader' = reader
  BY ResultsNextInv DEF ResultsInv, ReaderTypeOK, Elsewhere
<1>2. touched' \subseteq Awards
  BY DEF Elsewhere, ReaderTypeOK
<1>3. ReaderTypeOK' /\ VotesAgree'
  BY <1>1, <1>2 DEF ReaderTypeOK, ResultsInv
<1>4. ASSUME reader # Idle, NEW a \in Awards \ touched'
      PROVE  TotalsHold(a)' /\ FoundHold(a)' /\ ListedHold(a)'
  <2>1. a \in Awards \ touched /\ ~Changed(a)
    BY <1>4 DEF Elsewhere
  <2>2. TotalsHold(a) /\ FoundHold(a) /\ ListedHold(a)
    BY <1>4, <2>1
  <2>3. /\ shelf'[a] = shelf[a] /\ (a \in active' <=> a \in active) /\ EventOf(a)' = EventOf(a)
        /\ \A n \in Nominations : AwardOf[n] = a => (n \in approved' <=> n \in approved)
    BY <2>1 DEF Changed
  <2>4. TotalsHold(a)'
    <3>1. ASSUME NEW n \in Nominations, AwardOf[n] = a
          PROVE  TotalInEvent(n, reader.event)' = TotalInEvent(n, reader.event)
      <4>1. ASSUME NEW e PROVE TotalInEvent(n, e)' = TotalInEvent(n, e)
        BY <1>1, <2>1, <3>1, TotalStays
      <4> QED
        BY <1>1, <4>1
    <3> QED
      BY <1>1, <2>2, <3>1 DEF TotalsHold
  <2>5. FoundHold(a)'
    BY <1>1, <2>2, <2>3 DEF FoundHold
  <2>6. ListedHold(a)'
    BY <1>1, <2>2, <2>3 DEF ListedHold
  <2> QED
    BY <2>4, <2>5, <2>6
<1> QED
  BY <1>1, <1>3, <1>4

\* Each statement reads the state it finds, and nothing has been touched since the first one
\* but what is in touched.
LEMMA ReadInv ==
    ASSUME ReaderInv, Read
    PROVE  ReaderInv'
<1> USE DEF ReaderInv
<1> DEFINE Reader == [event : Requested \cup {Nobody}, next : Steps,
                      totals : [Nominations -> Nat], found : SUBSET Nominations,
                      categories : SUBSET Categories, listed : [Categories -> SUBSET Awards]]
<1>1. /\ reader \in Reader /\ TypeOK /\ VotesAgree
      /\ UNCHANGED <<home, shelf, active, approved, path, vote>>
  BY DEF ReaderTypeOK, Read, vars
<1>2. TypeOK' /\ VotesAgree'
  BY <1>1 DEF TypeOK, VotesAgree
<1>3. \A n, e : TotalInEvent(n, e)' = TotalInEvent(n, e)
  BY <1>1 DEF TotalInEvent, Sum, ActiveVotes
<1>4. \A a : EventOf(a)' = EventOf(a)
  BY <1>1 DEF EventOf
<1>5. reader # Idle /\ reader.event # Nobody =>
        /\ reader.event \in Requested
        /\ \A a \in Awards \ touched : TotalsHold(a) /\ FoundHold(a) /\ ListedHold(a)
  OBVIOUS
<1>6. ASSUME NEW e \in Requested, ReadTotals(e) PROVE ReaderInv'
  <2>1. PICK job : job = [Idle EXCEPT !.event = e, !.next = "nominations", !.totals = Totals(e)]
    OBVIOUS
  <2>2. Totals(e) \in [Nominations -> Nat]
    <3>1. \A n \in Nominations : TotalInEvent(n, e) \in Nat
      BY <1>1, SumCounts DEF TotalInEvent
    <3> QED
      BY <3>1 DEF Totals
  <2>3. /\ job \in Reader /\ job.event = e /\ job.next = "nominations" /\ job.totals = Totals(e)
        /\ \A c \in Categories : job.listed[c] = {}
    BY <2>1, <2>2, IdleTyped DEF Idle, Steps
  <2>4. reader' = job /\ touched' = {}
    BY <1>6, <2>1 DEF ReadTotals
  <2>5. ReaderTypeOK'
    BY <1>2, <2>3, <2>4 DEF ReaderTypeOK
  <2>6. ASSUME NEW a \in Awards PROVE TotalsHold(a)' /\ FoundHold(a)' /\ ListedHold(a)'
    <3>1. TotalsHold(a)'
      BY <1>3, <2>3, <2>4 DEF TotalsHold, Totals
    <3> QED
      BY <2>3, <2>4, <3>1 DEF FoundHold, ListedHold
  <2> QED
    BY <1>2, <2>3, <2>4, <2>5, <2>6
<1>7. ASSUME ReadNominations PROVE ReaderInv'
  <2>1. PICK found : found = {n \in approved : EventOf(AwardOf[n]) = reader.event}
    OBVIOUS
  <2>2. PICK job : job = [reader EXCEPT !.next = "categories", !.found = found]
    OBVIOUS
  <2>3. found \in SUBSET Nominations
    BY <1>1, <2>1 DEF TypeOK
  <2>4. /\ job \in Reader /\ job.next = "categories" /\ job.found = found
        /\ job.event = reader.event /\ job.totals = reader.totals /\ job.listed = reader.listed
    BY <1>1, <2>2, <2>3 DEF Steps
  <2>5. /\ reader' = job /\ touched' = touched /\ reader.next = "nominations"
        /\ reader.event # Nobody
    BY <1>7, <2>1, <2>2 DEF ReadNominations, Reading
  <2>6. ReaderTypeOK' /\ reader # Idle
    BY <1>2, <2>4, <2>5 DEF ReaderTypeOK, Idle
  <2>7. ASSUME NEW a \in Awards \ touched PROVE TotalsHold(a)' /\ FoundHold(a)' /\ ListedHold(a)'
    <3>1. TotalsHold(a)'
      BY <1>3, <1>5, <2>4, <2>5, <2>6 DEF TotalsHold
    <3>2. FoundHold(a)'
      BY <1>1, <1>4, <2>1, <2>4, <2>5 DEF FoundHold
    <3> QED
      BY <2>4, <2>5, <3>1, <3>2 DEF ListedHold
  <2> QED
    BY <1>2, <1>5, <2>4, <2>5, <2>6, <2>7
<1>8. ASSUME ReadCategories PROVE ReaderInv'
  <2>1. PICK cats : cats = {c \in Categories : home[c] = reader.event}
    OBVIOUS
  <2>2. PICK job : job = [reader EXCEPT !.next = "awards", !.categories = cats]
    OBVIOUS
  <2>3. /\ job \in Reader /\ job.next = "awards" /\ job.categories = cats /\ job.found = reader.found
        /\ job.event = reader.event /\ job.totals = reader.totals /\ job.listed = reader.listed
    BY <1>1, <2>1, <2>2 DEF Steps
  <2>4. /\ reader' = job /\ touched' = touched /\ reader.next = "categories"
        /\ reader.event # Nobody
    BY <1>8, <2>1, <2>2 DEF ReadCategories, Reading
  <2>5. ReaderTypeOK' /\ reader # Idle
    BY <1>2, <2>3, <2>4 DEF ReaderTypeOK, Idle
  <2>6. \A c \in Categories : reader.listed[c] = {}
    BY <2>4
  <2>7. ASSUME NEW a \in Awards \ touched PROVE TotalsHold(a)' /\ FoundHold(a)' /\ ListedHold(a)'
    <3>1. TotalsHold(a)'
      BY <1>3, <1>5, <2>3, <2>4, <2>5 DEF TotalsHold
    <3>2. FoundHold(a)'
      BY <1>1, <1>4, <1>5, <2>3, <2>4, <2>5 DEF FoundHold
    <3>3. shelf[a] \in Categories /\ (shelf[a] \in cats <=> EventOf(a) = reader.event)
      BY <1>1, <2>1 DEF TypeOK, EventOf
    <3>4. ListedHold(a)'
      BY <1>1, <1>4, <2>3, <2>4, <2>6, <3>3 DEF ListedHold
    <3> QED
      BY <3>1, <3>2, <3>4
  <2> QED
    BY <1>2, <1>5, <2>3, <2>4, <2>5, <2>7
<1>9. ASSUME NEW c \in Categories, ReadAwards(c) PROVE ReaderInv'
  <2>1. PICK listed : listed = [reader.listed EXCEPT ![c] = {a \in active : shelf[a] = c}]
    OBVIOUS
  <2>2. PICK job : job = [reader EXCEPT !.categories = reader.categories \ {c}, !.listed = listed]
    OBVIOUS
  <2>3. /\ listed \in [Categories -> SUBSET Awards]
        /\ \A b \in Categories, a \in Awards :
             a \in listed[b] <=> IF b = c THEN a \in active /\ shelf[a] = c ELSE a \in reader.listed[b]
    BY <1>1, <2>1 DEF TypeOK
  <2>4. /\ job \in Reader /\ job.next = reader.next /\ job.categories = reader.categories \ {c}
        /\ job.found = reader.found /\ job.event = reader.event /\ job.totals = reader.totals
        /\ job.listed = listed
    BY <1>1, <2>2, <2>3 DEF Steps
  <2>5. /\ reader' = job /\ touched' = touched /\ reader.next = "awards"
        /\ reader.event # Nobody /\ c \in reader.categories
    BY <1>1, <1>9, <2>1, <2>2 DEF ReadAwards, Reading
  <2>6. ReaderTypeOK' /\ reader # Idle
    BY <1>2, <2>4, <2>5 DEF ReaderTypeOK, Idle
  <2>7. ASSUME NEW a \in Awards \ touched PROVE TotalsHold(a)' /\ FoundHold(a)' /\ ListedHold(a)'
    <3>1. TotalsHold(a)'
      BY <1>3, <1>5, <2>4, <2>5, <2>6 DEF TotalsHold
    <3>2. FoundHold(a)'
      BY <1>1, <1>4, <1>5, <2>4, <2>5, <2>6 DEF FoundHold
    <3>3. PICK was, now : /\ was = {b \in Categories : a \in reader.listed[b]}
                          /\ now = {b \in Categories : a \in listed[b]}
      OBVIOUS
    <3>4. /\ shelf[a] \in Categories
          /\ shelf[a] \in reader.categories => EventOf(a) = reader.event /\ was = {}
          /\ shelf[a] \notin reader.categories =>
               was = {b \in Categories : b = shelf[a] /\ EventOf(a) = reader.event /\ a \in active}
      BY <1>1, <1>5, <2>5, <2>6, <3>3 DEF ListedHold, TypeOK
    <3>5. CASE shelf[a] = c
      <4>1. now = {b \in Categories : b = shelf[a] /\ EventOf(a) = reader.event /\ a \in active}
        BY <2>3, <2>5, <3>3, <3>4, <3>5
      <4> QED
        BY <1>1, <1>4, <2>4, <2>5, <3>1, <3>2, <3>3, <3>5, <4>1 DEF ListedHold
    <3>6. CASE shelf[a] # c
      <4>1. now = was
        BY <2>3, <3>3, <3>4, <3>6
      <4> QED
        BY <1>1, <1>4, <2>4, <2>5, <3>1, <3>2, <3>3, <3>4, <3>6, <4>1 DEF ListedHold
    <3> QED
      BY <3>5, <3>6
  <2> QED
    BY <1>2, <1>5, <2>4, <2>5, <2>6, <2>7
<1>10. ASSUME Respond PROVE ReaderInv'
  <2>1. reader' = Idle /\ touched' = {}
    BY <1>10 DEF Respond
  <2>2. ReaderTypeOK'
    BY <1>2, <2>1, IdleTyped DEF ReaderTypeOK
  <2> QED
    BY <1>2, <2>1, <2>2 DEF Idle
<1> QED
  BY <1>6, <1>7, <1>8, <1>9, <1>10 DEF Read

LEMMA ReaderNextInv == ReaderInv /\ [ReaderNext]_rvars => ReaderInv'
<1> SUFFICES ASSUME ReaderInv, [ReaderNext]_rvars PROVE ReaderInv'
  OBVIOUS
<1>1. CASE ReaderNext
  BY <1>1, ReadInv, ElsewhereInv DEF ReaderNext
<1>2. CASE UNCHANGED rvars
  <2>1. /\ UNCHANGED <<home, shelf, active, approved, path, vote, reader, touched>>
        /\ \A n, e : TotalInEvent(n, e)' = TotalInEvent(n, e)
        /\ \A a : EventOf(a)' = EventOf(a)
    BY <1>2 DEF rvars, vars, TotalInEvent, Sum, ActiveVotes, EventOf
  <2>2. ReaderTypeOK' /\ VotesAgree'
    BY <2>1 DEF ReaderInv, ReaderTypeOK, TypeOK, VotesAgree
  <2>3. \A a : /\ TotalsHold(a) => TotalsHold(a)'
               /\ FoundHold(a) => FoundHold(a)'
               /\ ListedHold(a) => ListedHold(a)'
    BY <2>1 DEF TotalsHold, FoundHold, ListedHold
  <2> QED
    BY <2>1, <2>2, <2>3 DEF ReaderInv
<1> QED
  BY <1>1, <1>2

LEMMA AnsweredExactly == ReaderInv => UntouchedIsExact
<1> SUFFICES ASSUME ReaderInv, Answered, NEW a \in Awards \ touched
             PROVE  LET where == {c \in Categories : a \in reader.listed[c]}
                    IN  IF a \in DOMAIN EventResults(reader.event)
                        THEN where = {shelf[a]} /\ Entries(a) = EventResults(reader.event)[a]
                        ELSE where = {}
  BY DEF UntouchedIsExact
<1> USE DEF ReaderInv
<1>1. /\ reader.event # Nobody /\ reader.next = "awards" /\ reader.categories = {}
      /\ TypeOK /\ reader # Idle /\ reader.found \subseteq Nominations
  BY DEF Answered, Reading, ReaderTypeOK, Idle
<1>2. TotalsHold(a) /\ FoundHold(a) /\ ListedHold(a)
  BY <1>1
<1>3. PICK where : where = {c \in Categories : a \in reader.listed[c]}
  OBVIOUS
<1>4. where = {c \in Categories : c = shelf[a] /\ EventOf(a) = reader.event /\ a \in active}
  BY <1>1, <1>2, <1>3 DEF ListedHold
<1>5. shelf[a] \in Categories
  BY <1>1 DEF TypeOK
<1>6. a \in DOMAIN EventResults(reader.event) <=> a \in active /\ EventOf(a) = reader.event
  BY DEF EventResults
<1>7. CASE a \in DOMAIN EventResults(reader.event)
  <2>1. EventResults(reader.event)[a] = Ranked([n \in ApprovedIn(a) |-> TotalInEvent(n, reader.event)])
    BY <1>7 DEF EventResults
  <2>2. PICK mine : mine = {n \in reader.found : AwardOf[n] = a}
    OBVIOUS
  <2>3. mine = ApprovedIn(a) /\ mine \subseteq Nominations
    BY <1>1, <1>2, <1>6, <1>7, <2>2 DEF FoundHold, ApprovedIn, TypeOK
  <2>4. [n \in mine |-> reader.totals[n]] = [n \in ApprovedIn(a) |-> TotalInEvent(n, reader.event)]
    BY <1>2, <2>2, <2>3 DEF TotalsHold, ApprovedIn
  <2>5. Entries(a) = Ranked([n \in mine |-> reader.totals[n]])
    BY <2>2 DEF Entries
  <2>6. Entries(a) = EventResults(reader.event)[a]
    BY <2>1, <2>4, <2>5, Zenon
  <2> QED
    BY <1>3, <1>4, <1>5, <1>6, <1>7, <2>6
<1>8. CASE a \notin DOMAIN EventResults(reader.event)
  BY <1>3, <1>4, <1>6, <1>8
<1> QED
  BY <1>7, <1>8

----------------------------------------------------------------------------
(* The theorems. *)

LEMMA ReaderInvariant == ReaderSpec => []ReaderInv
<1>1. ReaderInit => ReaderInv
  BY ReaderInitInv
<1>2. ReaderInv /\ [ReaderNext]_rvars => ReaderInv'
  BY ReaderNextInv
<1> QED
  BY <1>1, <1>2, PTL DEF ReaderSpec

\* The tables and what a request has read of them are what the modules say they are.
THEOREM ReaderTypeCorrect == ReaderSpec => []ReaderTypeOK
<1>1. ReaderInv => ReaderTypeOK
  BY DEF ReaderInv
<1> QED
  BY <1>1, ReaderInvariant, PTL

\* Reading is only reading: what is proved of the tables holds with readers too.
THEOREM ReadersChangeNothing == ReaderSpec => Spec
<1>1. ReaderInit => Init
  BY DEF ReaderInit
<1>2. [ReaderNext]_rvars => [Next]_vars
  BY DEF ReaderNext, Read, Elsewhere, rvars, vars
<1> QED
  BY <1>1, <1>2, PTL DEF ReaderSpec, Spec

\* event_results puts its payload together from several SELECTs: whatever is edited, voted and
\* voided between them, an award that nothing happened to is reported as it is.
THEOREM UntouchedAwardsAreExact == ReaderSpec => []UntouchedIsExact
  BY AnsweredExactly, ReaderInvariant, PTL

\* A vote copies its award from the nomination, which never leaves it: however the catalogue
\* is edited, award_tally counts every vote of every nomination.
THEOREM AwardTalliesAreComplete == Spec => []AwardTallyComplete
  BY TallyComplete, ResultsInvariant, PTL

\* Each vote of an event is counted once by event_stats, and either once by event_results or
\* not there: its award is not listed in that event, or its nomination no longer approved.
THEOREM ResultsAndStatsAgree == Spec => []ResultsMatchStats
  BY StatsMatch, ResultsInvariant, PTL

\* _rank is competition ranking, whatever the totals.
THEOREM RanksAreRight == Spec => []RanksAreCompetition
  BY CompetitionRanks, ResultsInvariant, PTL
=============================================================================
