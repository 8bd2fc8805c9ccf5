---------------------------- MODULE Voting_proofs ----------------------------
(***************************************************************************)
(* Theorems about Voting, for any number of voters, nominations, requests,  *)
(* admins and editors.  The inductive invariant VotingInv adds to the       *)
(* properties who holds which slot and which row:                           *)
(*   - an uncommitted insert reserves its slot against active votes and     *)
(*     against the other uncommitted inserts (the partial unique index);    *)
(*   - a row exists only for the cast that was answered "created";          *)
(*   - a void transaction holds an active row, and holds it alone.          *)
(***************************************************************************)
EXTENDS Voting, Events_proofs

USE DEF Log, Voided

SlotsReserved ==
    \A c \in Casts : InPhase(c, "inserted") =>
        /\ \A d \in ActiveVotes : ~SameSlot(vote[d], NewVote(c))
        /\ \A d \in Casts \ {c} : InPhase(d, "inserted") => ~SameSlot(NewVote(d), NewVote(c))

RowsAreCreated == \A c \in Casts : vote[c] # NoVote => InPhase(c, "created")

VoidsHoldRows ==
    /\ \A w \in Voids : void[w].phase \in VoidUnderway => void[w].target \in ActiveVotes
    /\ \A w, x \in Voids : /\ void[w].phase \in VoidUnderway
                           /\ void[x].phase \in VoidUnderway
                           /\ void[w].target = void[x].target
                           => w = x

VotingInv ==
    /\ EventsInv
    /\ TypeOK
    /\ OneActiveVote
    /\ SlotsReserved
    /\ RowsAreCreated
    /\ VoidsHoldRows
    /\ AuditMatchesVotes

LEMMA VotingInitInv == Init => VotingInv
<1> SUFFICES ASSUME Init PROVE VotingInv
  OBVIOUS
<1>1. EventsInv
  BY EventsInitInv DEF Init
<1>2. NewEvent \in EventRow
  BY DEF NewEvent, EventRow, EventStatus, OptTime
<1>3. TypeOK
  BY <1>1, <1>2, VotingAssumption DEF EventsInv, Init, TypeOK, RemovalPhases
<1>4. OneActiveVote /\ SlotsReserved /\ RowsAreCreated /\ VoidsHoldRows
  BY DEF Init, OneActiveVote, ActiveVotes, SlotsReserved, InPhase, RowsAreCreated,
         VoidsHoldRows, VoidUnderway, NoJob
<1>5. AuditMatchesVotes
  BY DEF Init, AuditMatchesVotes
<1> QED
  BY <1>1, <1>3, <1>4, <1>5 DEF VotingInv

----------------------------------------------------------------------------
(* Facts about requests in flight. *)

LEMMA CastTyped ==
    ASSUME TypeOK, NEW c \in Casts, cast[c] # NoJob
    PROVE  /\ cast[c] \in CastJob
           /\ cast[c].voter \in Voters /\ cast[c].nomination \in Nominations
           /\ NewVote(c) \in VoteRow
<1>1. cast[c] \in CastJob
  BY DEF TypeOK
<1>2. cast[c].voter \in Voters /\ cast[c].nomination \in Nominations
  BY <1>1 DEF CastJob
<1>3. AwardOf[cast[c].nomination] \in Awards
  BY <1>2, VotingAssumption
<1> QED
  BY <1>1, <1>2, <1>3 DEF NewVote, VoteRow

\* A step that only moves one cast to a phase other than "inserted" or out of "created",
\* and touches neither the votes, the voids nor the audit log, preserves the invariant.
LEMMA PhaseStep ==
    ASSUME VotingInv, NEW c \in Casts, NEW job \in CastJob, ~InPhase(c, "created"),
           job.phase # "inserted",
           cast' = [cast EXCEPT ![c] = job],
           copy' \in [Casts -> EventRow],
           UNCHANGED <<eventVars, catalogueVars, vote, void, audit>>
    PROVE  VotingInv'
<1> USE DEF VotingInv
<1>1. EventsInv'
  BY EventsNextInv DEF eventVars
<1>2. TypeOK'
  BY <1>1 DEF TypeOK, EventsInv, catalogueVars
<1>3. /\ OneActiveVote' /\ VoidsHoldRows' /\ AuditMatchesVotes'
      /\ ActiveVotes' = ActiveVotes
  BY DEF OneActiveVote, ActiveVotes, SameSlot, VoidsHoldRows, AuditMatchesVotes
<1>4. \A d \in Casts \ {c} : /\ cast'[d] = cast[d]
                             /\ NewVote(d)' = NewVote(d)
                             /\ \A p : InPhase(d, p)' <=> InPhase(d, p)
  BY DEF TypeOK, NewVote, InPhase
<1>5. cast'[c] = job
  BY DEF TypeOK
<1>6. RowsAreCreated'
  BY <1>4 DEF RowsAreCreated
<1>7. SlotsReserved'
  BY <1>3, <1>4, <1>5 DEF SlotsReserved, InPhase, ActiveVotes, SameSlot
<1> QED
  BY <1>1, <1>2, <1>3, <1>6, <1>7

\* The same for the steps of a void transaction that commit nothing.
LEMMA VoidPhaseStep ==
    ASSUME VotingInv, NEW w \in Voids, NEW job \in VoidJob,
           job.phase \in VoidUnderway => /\ job.target \in ActiveVotes
                                         /\ \A x \in Voids \ {w} :
                                              void[x].phase \in VoidUnderway
                                                => void[x].target # job.target,
           void' = [void EXCEPT ![w] = job],
           UNCHANGED <<eventVars, catalogueVars, vote, cast, copy, audit>>
    PROVE  VotingInv'
<1> USE DEF VotingInv
<1>1. EventsInv'
  BY EventsNextInv DEF eventVars
<1>2. TypeOK'
  BY <1>1 DEF TypeOK, EventsInv, catalogueVars
<1>3. OneActiveVote' /\ AuditMatchesVotes' /\ RowsAreCreated' /\ SlotsReserved'
  BY DEF OneActiveVote, ActiveVotes, SameSlot, AuditMatchesVotes, RowsAreCreated,
         SlotsReserved, InPhase, NewVote
<1>4. ActiveVotes' = ActiveVotes
  BY DEF ActiveVotes
<1>5. void'[w] = job /\ \A x \in Voids \ {w} : void'[x] = void[x]
  BY DEF TypeOK
<1>6. VoidsHoldRows'
  BY <1>4, <1>5 DEF VoidsHoldRows
<1> QED
  BY <1>1, <1>2, <1>3, <1>6

----------------------------------------------------------------------------
(* One lemma per action of a cast. *)

LEMMA AuthenticateInv ==
    ASSUME VotingInv, NEW c \in Casts, NEW v \in Voters, NEW n \in Nominations,
           Authenticate(c, v, n)
    PROVE  VotingInv'
<1> DEFINE job == [phase |-> IF v \in blocked THEN "refused" ELSE "authed",
                   voter |-> v, nomination |-> n]
<1>1. job \in CastJob /\ job.phase # "inserted"
  BY DEF CastJob, InFlight, Answered
<1>2. ~InPhase(c, "created")
  BY DEF Authenticate, InPhase, NoJob
<1>3. copy' \in [Casts -> EventRow]
  BY DEF VotingInv, TypeOK, Authenticate
<1> QED
  BY <1>1, <1>2, <1>3, PhaseStep DEF Authenticate

LEMMA ReadNominationInv ==
    ASSUME VotingInv, NEW c \in Casts, ReadNomination(c)
    PROVE  VotingInv'
<1>1. cast[c] \in CastJob /\ cast[c].phase = "authed"
  BY CastTyped DEF VotingInv, ReadNomination, InPhase, NoJob
<1>2. PICK p \in {"read", "not_found"} : cast' = [cast EXCEPT ![c].phase = p]
  BY DEF ReadNomination
<1> DEFINE job == [cast[c] EXCEPT !.phase = p]
<1>3. job \in CastJob /\ job.phase # "inserted"
  BY <1>1, <1>2 DEF CastJob, InFlight, Answered
<1>4. cast' = [cast EXCEPT ![c] = job] /\ ~InPhase(c, "created")
  BY <1>1, <1>2 DEF InPhase
<1>5. copy' \in [Casts -> EventRow]
  BY DEF VotingInv, EventsInv, TypeOK, EventsTypeOK, ReadNomination
<1> QED
  BY <1>3, <1>4, <1>5, PhaseStep DEF ReadNomination

LEMMA NewEventTyped == NewEvent \in EventRow
  BY DEF NewEvent, EventRow, EventStatus, OptTime

LEMMA CheckOpenInv ==
    ASSUME VotingInv, NEW c \in Casts, CheckOpen(c)
    PROVE  VotingInv'
<1>1. cast[c] \in CastJob /\ cast[c].phase = "read"
  BY CastTyped DEF VotingInv, CheckOpen, InPhase, NoJob
<1>2. PICK p \in {"open", "closed"} : cast' = [cast EXCEPT ![c].phase = p]
  BY DEF CheckOpen
<1> DEFINE job == [cast[c] EXCEPT !.phase = p]
<1>3. job \in CastJob /\ job.phase # "inserted"
  BY <1>1, <1>2 DEF CastJob, InFlight, Answered
<1>4. cast' = [cast EXCEPT ![c] = job] /\ ~InPhase(c, "created")
  BY <1>1, <1>2 DEF InPhase
<1>5. copy' \in [Casts -> EventRow]
  BY NewEventTyped DEF VotingInv, TypeOK, CheckOpen
<1> QED
  BY <1>3, <1>4, <1>5, PhaseStep DEF CheckOpen

\* The slot is neither taken nor in doubt when an insert succeeds: it becomes reserved.
LEMMA InsertVoteInv ==
    ASSUME VotingInv, NEW c \in Casts, InsertVote(c)
    PROVE  VotingInv'
<1>1. cast[c] \in CastJob /\ cast[c].phase = "open" /\ ~InPhase(c, "created")
  BY CastTyped DEF VotingInv, InsertVote, InPhase, NoJob
<1>2. CASE SlotTaken(c)
  <2> DEFINE job == [cast[c] EXCEPT !.phase = "duplicate"]
  <2>1. job \in CastJob /\ job.phase # "inserted"
    BY <1>1 DEF CastJob, InFlight
  <2>2. cast' = [cast EXCEPT ![c] = job]
    BY <1>2 DEF InsertVote
  <2>3. copy' \in [Casts -> EventRow]
    BY DEF VotingInv, TypeOK, InsertVote
  <2> QED
    BY <1>1, <2>1, <2>2, <2>3, PhaseStep DEF InsertVote
<1>3. CASE ~SlotTaken(c)
  <2> DEFINE job == [cast[c] EXCEPT !.phase = "inserted"]
  <2>1. job \in CastJob /\ cast' = [cast EXCEPT ![c] = job]
    BY <1>1, <1>3 DEF CastJob, InFlight, InsertVote
  <2>2. cast' \in [Casts -> CastJob \cup {NoJob}] /\ cast'[c] = job
    BY <2>1 DEF VotingInv, TypeOK
  <2>3. \A d \in Casts \ {c} : /\ cast'[d] = cast[d]
                               /\ \A p : InPhase(d, p)' <=> InPhase(d, p)
    BY <2>1 DEF VotingInv, TypeOK, InPhase
  <2>4. \A d \in Casts : NewVote(d)' = NewVote(d)
    BY <1>1, <2>2, <2>3 DEF NewVote, CastJob
  <2>5. ActiveVotes' = ActiveVotes /\ vote' = vote
    BY DEF ActiveVotes, InsertVote
  <2>6. EventsInv'
    BY EventsNextInv DEF VotingInv, InsertVote, eventVars
  <2>7. TypeOK'
    BY <2>2, <2>6 DEF VotingInv, TypeOK, EventsInv, InsertVote, catalogueVars
  <2>8. OneActiveVote' /\ VoidsHoldRows' /\ AuditMatchesVotes'
    BY <2>5 DEF VotingInv, InsertVote, OneActiveVote, SameSlot, VoidsHoldRows,
                AuditMatchesVotes
  <2>9. RowsAreCreated'
    BY <1>1, <2>3, <2>5 DEF VotingInv, RowsAreCreated
  <2>10. SlotsReserved'
    <3>1. \A d \in ActiveVotes : ~SameSlot(vote[d], NewVote(c))
      BY <1>3 DEF SlotTaken
    <3>2. \A d \in Casts \ {c} : InPhase(d, "inserted") => ~SameSlot(NewVote(d), NewVote(c))
      BY DEF InsertVote, SlotInDoubt
    <3>3. \A d \in Casts \ {c} : InPhase(d, "inserted") => ~SameSlot(NewVote(c), NewVote(d))
      BY <3>2 DEF SameSlot
    <3>4. \A d \in Casts \ {c} : InPhase(d, "inserted") =>
             /\ \A e \in ActiveVotes : ~SameSlot(vote[e], NewVote(d))
             /\ \A e \in Casts \ {d} : InPhase(e, "inserted")
                                         => ~SameSlot(NewVote(e), NewVote(d))
      BY DEF VotingInv, SlotsReserved
    <3> SUFFICES ASSUME NEW d \in Casts, InPhase(d, "inserted")'
                 PROVE  /\ \A e \in ActiveVotes : ~SameSlot(vote[e], NewVote(d))
                        /\ \A e \in Casts \ {d} : InPhase(e, "inserted")'
                                                    => ~SameSlot(NewVote(e), NewVote(d))
      BY <2>4, <2>5 DEF SlotsReserved, SameSlot
    <3> QED
      BY <2>3, <3>1, <3>2, <3>3, <3>4
  <2> QED
    BY <2>6, <2>7, <2>8, <2>9, <2>10 DEF VotingInv
<1> QED
  BY <1>2, <1>3

\* The commit turns a reserved slot into a taken one, and writes both tables at once.
LEMMA CommitCastInv ==
    ASSUME VotingInv, NEW c \in Casts, CommitCast(c)
    PROVE  /\ VotingInv'
           /\ vote[c] = NoVote /\ vote'[c] = NewVote(c)
           /\ \A d \in Casts \ {c} : vote'[d] = vote[d]
           /\ ActiveVotes' = ActiveVotes \cup {c}
<1> USE DEF VotingInv
<1>1. cast[c] \in CastJob /\ cast[c].phase = "inserted" /\ NewVote(c) \in VoteRow
  BY CastTyped DEF CommitCast, MayCommit, InPhase, NoJob
<1>2. vote[c] = NoVote
  BY <1>1 DEF RowsAreCreated, InPhase
<1>3. vote'[c] = NewVote(c) /\ \A d \in Casts \ {c} : vote'[d] = vote[d]
  BY DEF CommitCast, TypeOK
<1>4. NewVote(c) # NoVote /\ ~NewVote(c).voided
  BY <1>1, NoVoteAssumption DEF NewVote
<1>5. ActiveVotes' = ActiveVotes \cup {c}
  BY <1>3, <1>4 DEF ActiveVotes
<1> DEFINE job == [cast[c] EXCEPT !.phase = "created"]
<1>6. job \in CastJob /\ cast'[c] = job
  BY <1>1 DEF CastJob, Answered, CommitCast, TypeOK
<1>7. \A d \in Casts \ {c} : /\ cast'[d] = cast[d]
                             /\ \A p : InPhase(d, p)' <=> InPhase(d, p)
  BY DEF CommitCast, TypeOK, InPhase
<1>8. \A d \in Casts : NewVote(d)' = NewVote(d)
  BY <1>1, <1>6, <1>7 DEF NewVote, CastJob
<1>9. EventsInv'
  BY EventsNextInv DEF CommitCast, eventVars
<1>10. TypeOK'
  <2>1. cast' \in [Casts -> CastJob \cup {NoJob}]
    BY <1>6 DEF CommitCast, TypeOK
  <2>2. vote' \in [Casts -> VoteRow \cup {NoVote}]
    BY <1>1 DEF CommitCast, TypeOK
  <2>3. [action |-> "VOTE_CAST", by |-> c, target |-> c] \in AuditEntry
    BY DEF AuditEntry
  <2> QED
    BY <1>9, <2>1, <2>2, <2>3 DEF EventsInv, TypeOK, CommitCast, catalogueVars
<1>11. OneActiveVote'
  <2>1. \A d \in ActiveVotes : ~SameSlot(vote[d], NewVote(c))
    BY <1>1 DEF SlotsReserved, InPhase
  <2>2. \A d \in ActiveVotes : d # c
    BY <1>2 DEF ActiveVotes
  <2> QED
    BY <1>3, <1>5, <2>1, <2>2 DEF OneActiveVote, SameSlot, ActiveVotes
<1>12. SlotsReserved'
  <2> SUFFICES ASSUME NEW d \in Casts, InPhase(d, "inserted")'
               PROVE  /\ \A e \in ActiveVotes' : ~SameSlot(vote'[e], NewVote(d))
                      /\ \A e \in Casts \ {d} : InPhase(e, "inserted")'
                                                  => ~SameSlot(NewVote(e), NewVote(d))
    BY <1>8 DEF SlotsReserved, SameSlot
  <2>1. d # c /\ InPhase(d, "inserted")
    BY <1>6, <1>7 DEF InPhase, CastJob
  <2>2. ~SameSlot(NewVote(c), NewVote(d))
    BY <1>1, <2>1 DEF SlotsReserved, InPhase
  <2>3. \A e \in Casts \ {c} : InPhase(e, "inserted")' => InPhase(e, "inserted")
    BY <1>7
  <2>4. ~InPhase(c, "inserted")'
    BY <1>1, <1>6 DEF InPhase, CastJob
  <2> QED
    BY <1>3, <1>5, <2>1, <2>2, <2>3, <2>4 DEF SlotsReserved, ActiveVotes
<1>13. RowsAreCreated'
  BY <1>1, <1>3, <1>6, <1>7 DEF RowsAreCreated, InPhase, CastJob
<1>14. VoidsHoldRows'
  BY <1>5 DEF VoidsHoldRows, CommitCast
<1>15. AuditMatchesVotes'
  BY <1>2, <1>3, <1>4 DEF AuditMatchesVotes, CommitCast, TypeOK, AuditEntry
<1> QED
  BY <1>2, <1>3, <1>5, <1>9, <1>10, <1>11, <1>12, <1>13, <1>14, <1>15

\* A vote whose nomination is gone is rolled back.
LEMMA CommitFailsInv ==
    ASSUME VotingInv, NEW c \in Casts, CommitFails(c)
    PROVE  VotingInv'
<1>1. cast[c] \in CastJob /\ cast[c].phase = "inserted"
  BY CastTyped DEF VotingInv, CommitFails, MayCommit, InPhase, NoJob
<1> DEFINE job == [cast[c] EXCEPT !.phase = "failed"]
<1>2. job \in CastJob /\ job.phase # "inserted"
  BY <1>1 DEF CastJob, Answered
<1>3. cast' = [cast EXCEPT ![c] = job] /\ ~InPhase(c, "created")
  BY <1>1 DEF InPhase, CommitFails
<1>4. copy' \in [Casts -> EventRow]
  BY DEF VotingInv, TypeOK, CommitFails
<1> QED
  BY <1>2, <1>3, <1>4, PhaseStep DEF CommitFails

LEMMA AuditDuplicateInv ==
    ASSUME VotingInv, NEW c \in Casts, AuditDuplicate(c)
    PROVE  VotingInv'
<1> USE DEF VotingInv
<1>1. cast[c] \in CastJob /\ cast[c].phase = "duplicate"
  BY CastTyped DEF AuditDuplicate, InPhase, NoJob
<1> DEFINE job == [cast[c] EXCEPT !.phase = "already_voted"]
<1>2. job \in CastJob /\ cast'[c] = job
  BY <1>1 DEF CastJob, Answered, AuditDuplicate, TypeOK
<1>3. \A d \in Casts \ {c} : /\ cast'[d] = cast[d]
                             /\ \A p : InPhase(d, p)' <=> InPhase(d, p)
  BY DEF AuditDuplicate, TypeOK, InPhase
<1>4. \A d \in Casts : NewVote(d)' = NewVote(d)
  BY <1>1, <1>2, <1>3 DEF NewVote, CastJob
<1>5. ActiveVotes' = ActiveVotes
  BY DEF ActiveVotes, AuditDuplicate
<1>6. EventsInv'
  BY EventsNextInv DEF AuditDuplicate, eventVars
<1>7. TypeOK'
  <2>1. cast' \in [Casts -> CastJob \cup {NoJob}]
    BY <1>2 DEF AuditDuplicate, TypeOK
  <2>2. [action |-> "VOTE_DUPLICATE", by |-> c, target |-> c] \in AuditEntry
    BY DEF AuditEntry
  <2> QED
    BY <1>6, <2>1, <2>2 DEF EventsInv, TypeOK, AuditDuplicate, catalogueVars
<1>8. OneActiveVote' /\ VoidsHoldRows'
  BY <1>5 DEF OneActiveVote, SameSlot, VoidsHoldRows, AuditDuplicate
<1>9. AuditMatchesVotes'
  BY DEF AuditMatchesVotes, AuditDuplicate
<1>10. SlotsReserved'
  BY <1>2, <1>3, <1>4, <1>5 DEF SlotsReserved, InPhase, SameSlot, AuditDuplicate
<1>11. RowsAreCreated'
  BY <1>1, <1>3 DEF RowsAreCreated, InPhase, AuditDuplicate
<1> QED
  BY <1>6, <1>7, <1>8, <1>9, <1>10, <1>11

LEMMA CastCrashInv ==
    ASSUME VotingInv, NEW c \in Casts, CastCrash(c)
    PROVE  VotingInv'
<1>1. cast[c] \in CastJob /\ cast[c].phase \in InFlight
  BY CastTyped DEF VotingInv, CastCrash, InFlight, NoJob
<1> DEFINE job == [cast[c] EXCEPT !.phase = "crashed"]
<1>2. job \in CastJob /\ job.phase # "inserted"
  BY <1>1 DEF CastJob, Answered
<1>3. cast' = [cast EXCEPT ![c] = job] /\ ~InPhase(c, "created")
  BY <1>1 DEF InPhase, CastCrash, InFlight
<1>4. copy' \in [Casts -> EventRow]
  BY NewEventTyped DEF VotingInv, TypeOK, CastCrash
<1> QED
  BY <1>2, <1>3, <1>4, PhaseStep DEF CastCrash

----------------------------------------------------------------------------
(* One lemma per action of a void. *)

LEMMA VoidLockInv ==
    ASSUME VotingInv, NEW w \in Voids, NEW c \in Casts, VoidLock(w, c)
    PROVE  VotingInv'
<1> DEFINE job == [phase |-> IF vote[c] = NoVote THEN "not_found"
                             ELSE IF vote[c].voided THEN "already_voided" ELSE "locked",
                   target |-> c]
<1>1. job \in VoidJob
  BY DEF VoidJob, VoidUnderway, VoidAnswered
<1>2. ASSUME job.phase \in VoidUnderway
      PROVE  /\ c \in ActiveVotes
             /\ \A x \in Voids \ {w} : void[x].phase \in VoidUnderway => void[x].target # c
  <2>1. vote[c] # NoVote /\ ~vote[c].voided
    BY <1>2 DEF VoidUnderway
  <2> QED
    BY <2>1 DEF ActiveVotes, VoidLock, RowLocked
<1> QED
  BY <1>1, <1>2, VoidPhaseStep DEF VoidLock

LEMMA VoidUpdateInv ==
    ASSUME VotingInv, NEW w \in Voids, VoidUpdate(w)
    PROVE  VotingInv'
<1>1. void[w] \in VoidJob /\ void[w].phase = "locked"
  BY DEF VotingInv, TypeOK, VoidUpdate, VoidInPhase, NoJob
<1>2. PICK p \in {"updated", "failed"} : void' = [void EXCEPT ![w].phase = p]
  BY DEF VoidUpdate
<1> DEFINE job == [void[w] EXCEPT !.phase = p]
<1>3. job \in VoidJob /\ job.target = void[w].target
  BY <1>1 DEF VoidJob, VoidUnderway, VoidAnswered
<1>4. void' = [void EXCEPT ![w] = job]
  BY <1>2
<1>5. /\ job.target \in ActiveVotes
      /\ \A x \in Voids \ {w} : void[x].phase \in VoidUnderway => void[x].target # job.target
  BY <1>1, <1>3 DEF VotingInv, VoidsHoldRows, VoidUnderway
<1> QED
  BY <1>3, <1>4, <1>5, VoidPhaseStep DEF VoidUpdate

LEMMA VoidCrashInv ==
    ASSUME VotingInv, NEW w \in Voids, VoidCrash(w)
    PROVE  VotingInv'
<1>1. void[w] \in VoidJob
  BY DEF VotingInv, TypeOK, VoidCrash, VoidUnderway, NoJob
<1> DEFINE job == [void[w] EXCEPT !.phase = "crashed"]
<1>2. job \in VoidJob /\ job.phase \notin VoidUnderway
  BY <1>1 DEF VoidJob, VoidUnderway, VoidAnswered
<1>3. void' = [void EXCEPT ![w] = job]
  BY DEF VoidCrash
<1> QED
  BY <1>2, <1>3, VoidPhaseStep DEF VoidCrash

\* The commit of a void frees the slot of the row the transaction holds, and only that.
LEMMA VoidCommitInv ==
    ASSUME VotingInv, NEW w \in Voids, VoidCommit(w)
    PROVE  /\ VotingInv'
           /\ void[w].target \in ActiveVotes
           /\ vote' = [vote EXCEPT ![void[w].target].voided = TRUE]
           /\ ActiveVotes' = ActiveVotes \ {void[w].target}
<1> USE DEF VotingInv
<1> DEFINE c == void[w].target
<1>1. void[w] \in VoidJob /\ void[w].phase = "updated"
  BY DEF TypeOK, VoidCommit, VoidInPhase, NoJob
<1>2. c \in ActiveVotes
  BY <1>1 DEF VoidsHoldRows, VoidUnderway
<1>3. vote[c] \in VoteRow /\ c \in Casts /\ vote[c] # NoVote /\ ~vote[c].voided
  BY <1>2 DEF ActiveVotes, TypeOK
<1> DEFINE row == [vote[c] EXCEPT !.voided = TRUE]
<1>4. row \in VoteRow /\ row.voided
  BY <1>3 DEF VoteRow
<1>5. row # NoVote
  BY <1>4, NoVoteAssumption
<1>6. vote' = [vote EXCEPT ![c] = row]
  BY DEF VoidCommit
<1>7. vote' \in [Casts -> VoteRow \cup {NoVote}] /\ vote'[c] = row
      /\ \A d \in Casts \ {c} : vote'[d] = vote[d]
  BY <1>3, <1>4, <1>6 DEF TypeOK
<1>8. ActiveVotes' = ActiveVotes \ {c}
  BY <1>4, <1>7 DEF ActiveVotes
<1> DEFINE job == [void[w] EXCEPT !.phase = "voided"]
<1>9. job \in VoidJob /\ job.phase \notin VoidUnderway
  BY <1>1 DEF VoidJob, VoidUnderway, VoidAnswered
<1>10. void'[w] = job /\ \A x \in Voids \ {w} : void'[x] = void[x]
  BY DEF VoidCommit, TypeOK
<1>11. EventsInv'
  BY EventsNextInv DEF VoidCommit, eventVars
<1>12. TypeOK'
  <2>1. void' \in [Voids -> VoidJob \cup {NoJob}]
    BY <1>9 DEF VoidCommit, TypeOK
  <2>2. [action |-> "VOTE_VOIDED", by |-> w, target |-> c] \in AuditEntry
    BY <1>3 DEF AuditEntry
  <2> QED
    BY <1>7, <1>11, <2>1, <2>2 DEF EventsInv, TypeOK, VoidCommit, catalogueVars
<1>13. OneActiveVote'
  BY <1>7, <1>8 DEF OneActiveVote, ActiveVotes
<1>14. SlotsReserved'
  <2>1. \A d \in Casts : NewVote(d)' = NewVote(d) /\ \A p : InPhase(d, p)' <=> InPhase(d, p)
    BY DEF VoidCommit, NewVote, InPhase
  <2> QED
    BY <1>7, <1>8, <2>1 DEF SlotsReserved, SameSlot, ActiveVotes
<1>15. RowsAreCreated'
  BY <1>3, <1>7 DEF RowsAreCreated, VoidCommit, InPhase
<1>16. VoidsHoldRows'
  <2>1. \A x \in Voids \ {w} : void[x].phase \in VoidUnderway => void[x].target # c
    BY <1>1 DEF VoidsHoldRows, VoidUnderway
  <2> QED
    BY <1>8, <1>9, <1>10, <2>1 DEF VoidsHoldRows
<1>17. AuditMatchesVotes'
  <2>1. audit' = audit \cup {[action |-> "VOTE_VOIDED", by |-> w, target |-> c]}
    BY DEF VoidCommit
  <2>2. \A x \in Voids : [action |-> "VOTE_VOIDED", by |-> x, target |-> c] \notin audit
    BY <1>3 DEF AuditMatchesVotes
  <2>3. \A d \in Casts, x \in Voids :
           [action |-> "VOTE_VOIDED", by |-> x, target |-> d] \in audit'
             <=> \/ [action |-> "VOTE_VOIDED", by |-> x, target |-> d] \in audit
                 \/ x = w /\ d = c
    BY <2>1
  <2>4. \A d \in Casts : [action |-> "VOTE_CAST", by |-> d, target |-> d] \in audit'
                           <=> [action |-> "VOTE_CAST", by |-> d, target |-> d] \in audit
    BY <2>1
  <2>5. \A d \in Casts : /\ vote'[d] # NoVote <=> vote[d] # NoVote
                         /\ d # c => vote'[d] = vote[d]
    BY <1>3, <1>5, <1>7
  <2> DEFINE Was(x, d) == [action |-> "VOTE_VOIDED", by |-> x, target |-> d] \in audit
             Is(x, d) == [action |-> "VOTE_VOIDED", by |-> x, target |-> d] \in audit'
  <2>6. \A d \in Casts : (vote[d] # NoVote /\ vote[d].voided) <=> \E x \in Voids : Was(x, d)
    BY DEF AuditMatchesVotes
  <2>7. \A d \in Casts : (vote'[d] # NoVote /\ vote'[d].voided) <=> \E x \in Voids : Is(x, d)
    <3> SUFFICES ASSUME NEW d \in Casts
                 PROVE  (vote'[d] # NoVote /\ vote'[d].voided) <=> \E x \in Voids : Is(x, d)
      OBVIOUS
    <3>1. CASE d = c
      BY <1>4, <1>5, <1>7, <2>3, <3>1
    <3>2. CASE d # c
      BY <2>3, <2>5, <2>6, <3>2
    <3> QED
      BY <3>1, <3>2
  <2>8. \A d \in Casts : \A x, y \in Voids : Is(x, d) /\ Is(y, d) => x = y
    <3>1. \A d \in Casts : \A x, y \in Voids : Was(x, d) /\ Was(y, d) => x = y
      BY DEF AuditMatchesVotes
    <3> QED
      BY <2>2, <2>3, <3>1
  <2>9. \A d \in Casts : vote'[d] # NoVote
           <=> [action |-> "VOTE_CAST", by |-> d, target |-> d] \in audit'
    BY <2>4, <2>5 DEF AuditMatchesVotes
  <2> QED
    BY <2>7, <2>8, <2>9 DEF AuditMatchesVotes
<1> QED
  BY <1>2, <1>6, <1>8, <1>11, <1>12, <1>13, <1>14, <1>15, <1>16, <1>17 DEF VoidCommit

----------------------------------------------------------------------------
(* The whole next-state relation. *)

CatalogueTyped ==
    /\ approved \subseteq Nominations /\ nominationRows \subseteq Nominations
    /\ activeAwards \subseteq Awards /\ awardRows \subseteq Awards /\ loaded \subseteq Awards
    /\ blocked \subseteq Voters
    /\ removal \in [Removals -> RemovalPhases]

\* Steps of the event and of the catalogue leave the requests and the votes alone.
LEMMA BystanderInv ==
    ASSUME VotingInv, [EventsNext]_eventVars, CatalogueTyped',
           UNCHANGED <<vote, requestVars, audit>>
    PROVE  VotingInv'
<1>1. EventsInv'
  BY EventsNextInv DEF VotingInv
<1>2. TypeOK'
  BY <1>1 DEF VotingInv, TypeOK, EventsInv, CatalogueTyped, requestVars
<1>3. OneActiveVote' /\ SlotsReserved' /\ RowsAreCreated' /\ VoidsHoldRows'
  BY DEF VotingInv, OneActiveVote, SlotsReserved, RowsAreCreated, VoidsHoldRows, ActiveVotes,
         SameSlot, NewVote, InPhase, requestVars
<1>4. AuditMatchesVotes'
  BY DEF VotingInv, AuditMatchesVotes
<1> QED
  BY <1>1, <1>2, <1>3, <1>4 DEF VotingInv

LEMMA CatalogueInv == ASSUME VotingInv, ReviewStep \/ VoterAdminStep PROVE VotingInv'
<1>1. UNCHANGED <<eventVars, vote, requestVars, audit>>
  BY DEF ReviewStep, Approve, Revert, VoterAdminStep, ToggleBlocked
<1>2. CatalogueTyped'
  BY DEF VotingInv, TypeOK, CatalogueTyped, ReviewStep, Approve, Revert, VoterAdminStep,
    ToggleBlocked
<1> QED
  BY <1>1, <1>2, BystanderInv

LEMMA PatchInv ==
    ASSUME VotingInv, NEW p \in Patches, LoadAward(p[1]) \/ SaveAward(p[1], p[2])
    PROVE  VotingInv'
<1>1. UNCHANGED <<eventVars, vote, requestVars, audit>>
  BY DEF LoadAward, SaveAward
<1>2. p[1] \in Awards
  BY VotingAssumption
<1>3. CatalogueTyped'
  BY <1>2 DEF VotingInv, TypeOK, CatalogueTyped, LoadAward, SaveAward
<1> QED
  BY <1>1, <1>3, BystanderInv

LEMMA RemovalInv ==
    ASSUME VotingInv, NEW a \in Removals, RemovalStep(a)
    PROVE  VotingInv'
<1>1. UNCHANGED <<eventVars, vote, requestVars, audit>>
  BY DEF RemovalStep, Collect, Delete, Remove, RemoveFails
<1>2. PICK p \in RemovalPhases : removal' = [removal EXCEPT ![a] = p]
  BY DEF RemovalStep, Collect, Delete, Remove, RemoveFails, RemovalPhases
<1>3. /\ approved' \subseteq approved /\ nominationRows' \subseteq nominationRows
      /\ activeAwards' \subseteq activeAwards /\ awardRows' \subseteq awardRows
      /\ loaded' = loaded /\ blocked' = blocked
  BY DEF RemovalStep, Collect, Delete, Remove, RemoveFails
<1>4. CatalogueTyped'
  BY <1>2, <1>3 DEF VotingInv, TypeOK, CatalogueTyped
<1> QED
  BY <1>1, <1>4, BystanderInv

LEMMA EventStepInv ==
    ASSUME VotingInv, [EventsNext]_eventVars, UNCHANGED votingVars
    PROVE  VotingInv'
<1>1. CatalogueTyped'
  BY DEF VotingInv, TypeOK, CatalogueTyped, votingVars, catalogueVars
<1> QED
  BY <1>1, BystanderInv DEF votingVars

LEMMA VotingNextInv == VotingInv /\ [Next]_vars => VotingInv'
<1> SUFFICES ASSUME VotingInv, [Next]_vars PROVE VotingInv'
  OBVIOUS
<1>1. ASSUME NEW c \in Casts, CastStep(c) PROVE VotingInv'
  BY <1>1, AuthenticateInv, ReadNominationInv, CheckOpenInv, InsertVoteInv, CommitCastInv,
     CommitFailsInv, AuditDuplicateInv, CastCrashInv DEF CastStep
<1>2. ASSUME NEW w \in Voids, VoidStep(w) PROVE VotingInv'
  BY <1>2, VoidLockInv, VoidUpdateInv, VoidCommitInv, VoidCrashInv DEF VoidStep
<1>3. CASE EventsNext /\ UNCHANGED votingVars
  BY <1>3, EventStepInv
<1>4. CASE ReviewStep \/ VoterAdminStep
  BY <1>4, CatalogueInv
<1>5. ASSUME NEW a \in Removals, RemovalStep(a) PROVE VotingInv'
  BY <1>5, RemovalInv
<1>6. ASSUME NEW p \in Patches, LoadAward(p[1]) \/ SaveAward(p[1], p[2]) PROVE VotingInv'
  BY <1>6, PatchInv
<1>7. CASE UNCHANGED vars
  BY <1>7, EventStepInv DEF vars
<1> QED
  BY <1>1, <1>2, <1>3, <1>4, <1>5, <1>6, <1>7 DEF Next

\* Every value stays in its type, whatever requests and admins interleave.
THEOREM TypeCorrect == Spec => []TypeOK
<1>1. VotingInv => TypeOK
  BY DEF VotingInv
<1> QED
  BY <1>1, VotingInitInv, VotingNextInv, PTL DEF Spec

\* A voter never has two active free votes for one award, for any number of concurrent
\* casts and voids, crashes included.
THEOREM OneVotePerVoterPerAward == Spec => []OneActiveVote
<1>1. VotingInv => OneActiveVote
  BY DEF VotingInv
<1> QED
  BY <1>1, VotingInitInv, VotingNextInv, PTL DEF Spec

\* A vote never exists without its audit entry, nor the entry without the vote; the same
\* of voids.
THEOREM VotesAreAudited == Spec => []AuditMatchesVotes
<1>1. VotingInv => AuditMatchesVotes
  BY DEF VotingInv
<1> QED
  BY <1>1, VotingInitInv, VotingNextInv, PTL DEF Spec

----------------------------------------------------------------------------
(* What a step may do to the vote table: nothing, one commit of a cast, or one of a void. *)

LEMMA VoteStep ==
    ASSUME VotingInv, [Next]_vars
    PROVE  \/ vote' = vote
           \/ \E c \in Casts : CommitCast(c)
           \/ \E w \in Voids : VoidCommit(w)
<1>1. ASSUME NEW c \in Casts, CastStep(c), ~CommitCast(c) PROVE vote' = vote
  BY <1>1 DEF CastStep, Authenticate, ReadNomination, CheckOpen, InsertVote, CommitFails,
              AuditDuplicate, CastCrash
<1>2. ASSUME NEW w \in Voids, VoidStep(w), ~VoidCommit(w) PROVE vote' = vote
  BY <1>2 DEF VoidStep, VoidLock, VoidUpdate, VoidCrash
<1>3. CASE ReviewStep \/ VoterAdminStep
  BY <1>3 DEF ReviewStep, Approve, Revert, VoterAdminStep, ToggleBlocked
<1>4. ASSUME NEW a \in Removals, RemovalStep(a) PROVE vote' = vote
  BY <1>4 DEF RemovalStep, Collect, Delete, Remove, RemoveFails
<1>5. ASSUME NEW p \in Patches, LoadAward(p[1]) \/ SaveAward(p[1], p[2]) PROVE vote' = vote
  BY <1>5 DEF LoadAward, SaveAward
<1>6. CASE UNCHANGED votingVars
  BY <1>6 DEF votingVars
<1> QED
  BY <1>1, <1>2, <1>3, <1>4, <1>5, <1>6 DEF Next, vars

----------------------------------------------------------------------------
(* The rows a vote names. *)

\* Only a delete takes rows away, and none that a committed vote names.
LEMMA RowsStep ==
    ASSUME VotingInv, [Next]_vars
    PROVE  \/ nominationRows \subseteq nominationRows' /\ awardRows \subseteq awardRows'
           \/ \E a \in Removals : Remove(a)
<1>1. ASSUME NEW c \in Casts, CastStep(c) PROVE UNCHANGED <<nominationRows, awardRows>>
  BY <1>1 DEF CastStep, Authenticate, ReadNomination, CheckOpen, InsertVote, CommitCast,
              CommitFails, AuditDuplicate, CastCrash, catalogueVars
<1>2. ASSUME NEW w \in Voids, VoidStep(w) PROVE UNCHANGED <<nominationRows, awardRows>>
  BY <1>2 DEF VoidStep, VoidLock, VoidUpdate, VoidCommit, VoidCrash, catalogueVars
<1>3. CASE ReviewStep \/ VoterAdminStep
  BY <1>3 DEF ReviewStep, Approve, Revert, VoterAdminStep, ToggleBlocked
<1>4. ASSUME NEW a \in Removals, RemovalStep(a), ~Remove(a)
      PROVE  UNCHANGED <<nominationRows, awardRows>>
  BY <1>4 DEF RemovalStep, Collect, Delete, RemoveFails
<1>5. ASSUME NEW p \in Patches, LoadAward(p[1]) \/ SaveAward(p[1], p[2])
      PROVE  nominationRows \subseteq nominationRows' /\ awardRows \subseteq awardRows'
  BY <1>5 DEF LoadAward, SaveAward
<1>6. CASE UNCHANGED votingVars
  BY <1>6 DEF votingVars, catalogueVars
<1> QED
  BY <1>1, <1>2, <1>3, <1>4, <1>5, <1>6 DEF Next, vars

LEMMA VotesKeepNext ==
    VotingInv /\ VotesKeepTheirNomination /\ [Next]_vars => VotesKeepTheirNomination'
<1> SUFFICES ASSUME VotingInv, VotesKeepTheirNomination, [Next]_vars, NEW c \in Casts,
                    vote'[c] # NoVote
             PROVE  vote'[c].nomination \in nominationRows' /\ vote'[c].award \in awardRows'
  BY DEF VotesKeepTheirNomination
<1>1. ASSUME NEW d \in Casts, CommitCast(d)
      PROVE  vote'[c].nomination \in nominationRows' /\ vote'[c].award \in awardRows'
  <2>1. NewVote(d).nomination \in nominationRows /\ NewVote(d).award \in awardRows
    BY <1>1 DEF CommitCast, ForeignKeysHold, NewVote
  <2>2. nominationRows' = nominationRows /\ awardRows' = awardRows
    BY <1>1 DEF CommitCast, catalogueVars
  <2>3. vote'[c] = vote[c] \/ vote'[c] = NewVote(d)
    BY <1>1, CommitCastInv
  <2> QED
    BY <2>1, <2>2, <2>3 DEF VotesKeepTheirNomination
<1>2. ASSUME NEW w \in Voids, VoidCommit(w)
      PROVE  vote'[c].nomination \in nominationRows' /\ vote'[c].award \in awardRows'
  <2>1. vote[c] # NoVote /\ vote[c] \in VoteRow
    BY <1>2, VoidCommitInv DEF VotingInv, TypeOK, ActiveVotes
  <2>2. vote'[c].nomination = vote[c].nomination /\ vote'[c].award = vote[c].award
    <3>1. vote \in [Casts -> VoteRow \cup {NoVote}]
      BY DEF VotingInv, TypeOK
    <3>2. vote'[c] = vote[c] \/ vote'[c] = [vote[c] EXCEPT !.voided = TRUE]
      BY <1>2, <3>1, VoidCommitInv
    <3> QED
      BY <2>1, <3>2 DEF VoteRow
  <2>3. nominationRows' = nominationRows /\ awardRows' = awardRows
    BY <1>2 DEF VoidCommit, catalogueVars
  <2> QED
    BY <2>1, <2>2, <2>3 DEF VotesKeepTheirNomination
<1>3. ASSUME NEW a \in Removals, Remove(a)
      PROVE  vote'[c].nomination \in nominationRows' /\ vote'[c].award \in awardRows'
  BY <1>3 DEF Remove, Referenced, VotesKeepTheirNomination
<1>4. ASSUME vote' = vote, nominationRows \subseteq nominationRows', awardRows \subseteq awardRows'
      PROVE  vote'[c].nomination \in nominationRows' /\ vote'[c].award \in awardRows'
  BY <1>4 DEF VotesKeepTheirNomination
<1> QED
  BY <1>1, <1>2, <1>3, <1>4, VoteStep, RowsStep

\* No committed vote ever names a nomination or an award that has been deleted, for any
\* deletes, casts and edits.
THEOREM VotesKeepTheirRows == Spec => []VotesKeepTheirNomination
<1>1. Init => VotesKeepTheirNomination
  BY DEF Init, VotesKeepTheirNomination
<1> QED
  BY <1>1, VotesKeepNext, VotingInitInv, VotingNextInv, PTL DEF Spec

----------------------------------------------------------------------------
\* Committed votes are never removed or altered, and never un-voided.
THEOREM VotesAreAppendOnly == Spec => AppendOnly
<1>1. VotingInv /\ [Next]_vars =>
        \A c \in Casts : vote[c] # NoVote =>
          /\ vote'[c] # NoVote
          /\ [vote'[c] EXCEPT !.voided = FALSE] = [vote[c] EXCEPT !.voided = FALSE]
          /\ vote[c].voided => vote'[c].voided
  <2> SUFFICES ASSUME VotingInv, [Next]_vars, NEW c \in Casts, vote[c] # NoVote
               PROVE  /\ vote'[c] # NoVote
                      /\ [vote'[c] EXCEPT !.voided = FALSE] = [vote[c] EXCEPT !.voided = FALSE]
                      /\ vote[c].voided => vote'[c].voided
    OBVIOUS
  <2>1. vote \in [Casts -> VoteRow \cup {NoVote}] /\ vote[c] \in VoteRow
    BY DEF VotingInv, TypeOK
  <2>2. ASSUME NEW d \in Casts, CommitCast(d) PROVE vote'[c] = vote[c]
    BY <2>2, CommitCastInv
  <2>3. ASSUME NEW w \in Voids, VoidCommit(w)
        PROVE  vote'[c] = vote[c] \/ vote'[c] = [vote[c] EXCEPT !.voided = TRUE]
    BY <2>1, <2>3, VoidCommitInv
  <2>4. vote'[c] = vote[c] \/ vote'[c] = [vote[c] EXCEPT !.voided = TRUE]
    BY <2>2, <2>3, VoteStep
  <2>5. CASE vote'[c] = vote[c]
    BY <2>5
  <2>6. CASE vote'[c] = [vote[c] EXCEPT !.voided = TRUE]
    <3>1. vote'[c] \in VoteRow /\ vote'[c].voided
      BY <2>1, <2>6 DEF VoteRow
    <3>2. [vote'[c] EXCEPT !.voided = FALSE] = [vote[c] EXCEPT !.voided = FALSE]
      BY <2>1, <2>6 DEF VoteRow
    <3> QED
      BY <3>1, <3>2, NoVoteAssumption
  <2> QED
    BY <2>4, <2>5, <2>6
<1> QED
  BY <1>1, VotingInitInv, VotingNextInv, PTL DEF Spec, AppendOnly

----------------------------------------------------------------------------
(* What one step does to the cast requests. *)

\* The columns of a cast are fixed when it is authenticated, and its phase only moves on.
LEMMA CastJobStep ==
    ASSUME VotingInv, NEW c \in Casts, CastStep(c), cast[c] # NoJob
    PROVE  \E p \in InFlight \cup Answered : cast' = [cast EXCEPT ![c].phase = p]
<1>1. ~\E v \in Voters, n \in Nominations : Authenticate(c, v, n)
  BY DEF Authenticate
<1>2. ReadNomination(c) => \E p \in {"read", "not_found"} : cast' = [cast EXCEPT ![c].phase = p]
  BY DEF ReadNomination
<1>3. CheckOpen(c) => \E p \in {"open", "closed"} : cast' = [cast EXCEPT ![c].phase = p]
  BY DEF CheckOpen
<1>4. InsertVote(c) =>
        \E p \in {"duplicate", "inserted"} : cast' = [cast EXCEPT ![c].phase = p]
  BY DEF InsertVote
<1>5. CommitCast(c) => cast' = [cast EXCEPT ![c].phase = "created"]
  BY DEF CommitCast
<1>6. CommitFails(c) => cast' = [cast EXCEPT ![c].phase = "failed"]
  BY DEF CommitFails
<1>7. AuditDuplicate(c) => cast' = [cast EXCEPT ![c].phase = "already_voted"]
  BY DEF AuditDuplicate
<1>8. CastCrash(c) => cast' = [cast EXCEPT ![c].phase = "crashed"]
  BY DEF CastCrash
<1> QED
  BY <1>1, <1>2, <1>3, <1>4, <1>5, <1>6, <1>7, <1>8 DEF CastStep, InFlight, Answered

\* A step of one cast leaves every other cast as it was.
LEMMA OtherCasts ==
    ASSUME VotingInv, NEW c \in Casts, CastStep(c), NEW d \in Casts \ {c}
    PROVE  cast'[d] = cast[d] /\ copy'[d] = copy[d]
<1>1. cast \in [Casts -> CastJob \cup {NoJob}] /\ copy \in [Casts -> EventRow]
  BY DEF VotingInv, TypeOK
<1> QED
  BY <1>1 DEF CastStep, Authenticate, ReadNomination, CheckOpen, InsertVote, CommitCast,
              CommitFails, AuditDuplicate, CastCrash

\* Only a cast's own steps touch the request table.
LEMMA CastTableStep ==
    ASSUME VotingInv, [Next]_vars, ~UNCHANGED <<cast, copy>>
    PROVE  \E c \in Casts : CastStep(c)
<1>1. ASSUME NEW w \in Voids, VoidStep(w) PROVE UNCHANGED <<cast, copy>>
  BY <1>1 DEF VoidStep, VoidLock, VoidUpdate, VoidCommit, VoidCrash
<1>2. CASE ReviewStep \/ VoterAdminStep
  BY <1>2 DEF ReviewStep, Approve, Revert, VoterAdminStep, ToggleBlocked, requestVars
<1>3. ASSUME NEW a \in Removals, RemovalStep(a) PROVE UNCHANGED <<cast, copy>>
  BY <1>3 DEF RemovalStep, Collect, Delete, Remove, RemoveFails, requestVars
<1>4. ASSUME NEW p \in Patches, LoadAward(p[1]) \/ SaveAward(p[1], p[2])
      PROVE  UNCHANGED <<cast, copy>>
  BY <1>4 DEF LoadAward, SaveAward, requestVars
<1>5. CASE UNCHANGED votingVars
  BY <1>5 DEF votingVars, requestVars
<1> QED
  BY <1>1, <1>2, <1>3, <1>4, <1>5 DEF Next, vars

LEMMA CastColumnsFixed ==
    ASSUME VotingInv, [Next]_vars, NEW c \in Casts, cast[c] # NoJob
    PROVE  /\ cast'[c].voter = cast[c].voter
           /\ cast'[c].nomination = cast[c].nomination
           /\ NewVote(c)' = NewVote(c)
<1>1. cast \in [Casts -> CastJob \cup {NoJob}] /\ cast[c] \in CastJob
  BY DEF VotingInv, TypeOK
<1>2. ASSUME CastStep(c)
      PROVE cast'[c].voter = cast[c].voter /\ cast'[c].nomination = cast[c].nomination
  <2>1. PICK p \in InFlight \cup Answered : cast' = [cast EXCEPT ![c].phase = p]
    BY <1>2, CastJobStep
  <2> QED
    BY <1>1, <2>1 DEF CastJob
<1>3. cast'[c].voter = cast[c].voter /\ cast'[c].nomination = cast[c].nomination
  BY <1>2, CastTableStep, OtherCasts
<1> QED
  BY <1>3 DEF NewVote

----------------------------------------------------------------------------
(* A 409 is never spurious. *)

\* A committed row keeps its slot.
LEMMA SlotsAreKept ==
    ASSUME VotingInv, [Next]_vars, NEW c \in Casts, vote[c] # NoVote
    PROVE  vote'[c] # NoVote /\ vote'[c].voter = vote[c].voter /\ vote'[c].award = vote[c].award
<1>1. vote \in [Casts -> VoteRow \cup {NoVote}] /\ vote[c] \in VoteRow
  BY DEF VotingInv, TypeOK
<1>2. ASSUME NEW d \in Casts, CommitCast(d) PROVE vote'[c] = vote[c]
  BY <1>2, CommitCastInv
<1>3. ASSUME NEW w \in Voids, VoidCommit(w)
      PROVE  vote'[c] = vote[c] \/ vote'[c] = [vote[c] EXCEPT !.voided = TRUE]
  BY <1>1, <1>3, VoidCommitInv
<1>4. vote'[c] = vote[c] \/ vote'[c] = [vote[c] EXCEPT !.voided = TRUE]
  BY <1>2, <1>3, VoteStep
<1>5. [vote[c] EXCEPT !.voided = TRUE] \in VoteRow
  BY <1>1 DEF VoteRow
<1> QED
  BY <1>1, <1>4, <1>5, NoVoteAssumption DEF VoteRow

LEMMA DuplicateNext ==
    VotingInv /\ DuplicateWasReal /\ [Next]_vars => DuplicateWasReal'
<1> SUFFICES ASSUME VotingInv, DuplicateWasReal, [Next]_vars, NEW c \in Casts,
                    cast'[c].phase \in {"duplicate", "already_voted"}
             PROVE  \E d \in Casts \ {c} : vote'[d] # NoVote /\ SameSlot(vote'[d], NewVote(c)')
  BY DEF DuplicateWasReal
<1>1. cast \in [Casts -> CastJob \cup {NoJob}]
  BY DEF VotingInv, TypeOK
<1>2. cast[c] # NoJob
  <2> SUFFICES ASSUME cast[c] = NoJob PROVE FALSE
    OBVIOUS
  <2>1. cast'[c] # cast[c]
    BY DEF NoJob
  <2>2. CastStep(c)
    BY <2>1, CastTableStep, OtherCasts
  <2>3. PICK v \in Voters, n \in Nominations : Authenticate(c, v, n)
    BY <2>2 DEF CastStep, ReadNomination, CheckOpen, InsertVote, CommitCast, CommitFails, MayCommit,
                AuditDuplicate, CastCrash, InPhase, NoJob, InFlight
  <2> QED
    BY <1>1, <2>3 DEF Authenticate
<1>3. NewVote(c)' = NewVote(c)
  BY <1>2, CastColumnsFixed
<1>4. \E d \in Casts \ {c} : vote[d] # NoVote /\ SameSlot(vote[d], NewVote(c))
  <2>1. CASE cast[c].phase \in {"duplicate", "already_voted"}
    BY <2>1 DEF DuplicateWasReal
  <2>2. CASE cast[c].phase \notin {"duplicate", "already_voted"}
    <3>1. CastStep(c)
      BY <2>2, CastTableStep, OtherCasts
    <3>2. cast[c] \in CastJob
      BY <1>1, <1>2
    <3>3. InsertVote(c) /\ SlotTaken(c)
      BY <1>1, <1>2, <2>2, <3>1, <3>2
         DEF CastStep, Authenticate, ReadNomination, CheckOpen, InsertVote, CommitCast,
             CommitFails, AuditDuplicate, CastCrash, CastJob, InPhase, MayCommit
    <3>4. PICK d \in ActiveVotes : SameSlot(vote[d], NewVote(c))
      BY <3>3 DEF SlotTaken
    <3>5. d # c
      BY <3>3, <3>4 DEF VotingInv, RowsAreCreated, ActiveVotes, InsertVote, InPhase
    <3> QED
      BY <3>4, <3>5 DEF ActiveVotes
  <2> QED
    BY <2>1, <2>2
<1>5. PICK d \in Casts \ {c} : vote[d] # NoVote /\ SameSlot(vote[d], NewVote(c))
  BY <1>4
<1> QED
  BY <1>3, <1>5, SlotsAreKept DEF SameSlot

\* A voter is told "already voted" only when another of their requests really recorded a
\* vote in the same award, whatever was in flight, rolled back or voided around it.
THEOREM DuplicatesAreReal == Spec => []DuplicateWasReal
<1>1. Init => DuplicateWasReal
  BY DEF Init, DuplicateWasReal, NoJob
<1> QED
  BY <1>1, DuplicateNext, VotingInitInv, VotingNextInv, PTL DEF Spec

----------------------------------------------------------------------------
(* Closing and blocking take effect on the next request. *)

\* Only a cast whose insert is done can become a row, and it becomes its own row.
LEMMA NewRows ==
    ASSUME VotingInv, [Next]_vars, NEW c \in Casts, vote[c] = NoVote, vote'[c] # NoVote
    PROVE  CommitCast(c) /\ InPhase(c, "inserted") /\ vote'[c] = NewVote(c)
<1>1. vote \in [Casts -> VoteRow \cup {NoVote}]
  BY DEF VotingInv, TypeOK
<1>2. ASSUME NEW d \in Casts \ {c}, CommitCast(d) PROVE FALSE
  BY <1>2, CommitCastInv
<1>3. ASSUME NEW w \in Voids, VoidCommit(w) PROVE FALSE
  BY <1>1, <1>3, VoidCommitInv DEF ActiveVotes
<1> QED
  BY <1>2, <1>3, VoteStep, CommitCastInv DEF CommitCast, MayCommit

\* The clock never goes back.
LEMMA ClockStep ==
    ASSUME VotingInv, [Next]_vars
    PROVE  clock \in Nat /\ clock' \in Nat /\ clock <= clock'
<1>1. clock \in Nat /\ clock' \in Nat
  BY VotingNextInv, TimeAssumption DEF VotingInv, EventsInv, EventsTypeOK, Time
<1>2. [EventsNext]_eventVars => clock <= clock'
  <2>1. Tick => clock <= clock'
    BY <1>1 DEF Tick
  <2>2. \A s \in Setters, new \in EventStatus : SetStatusLock(s, new) => clock' = clock
    BY DEF SetStatusLock
  <2>3. \A s \in Setters : SetStatusCommit(s) \/ SetStatusRollback(s) => clock' = clock
    BY DEF SetStatusCommit, SetStatusRollback
  <2>4. \A e \in Editors, a \in Attrs : EditSave(e, a) => clock' = clock
    BY DEF EditSave
  <2>5. \A e \in Editors : EditLoad(e) \/ EditAbandon(e) => clock' = clock
    BY DEF EditLoad, EditAbandon
  <2> QED
    BY <1>1, <2>1, <2>2, <2>3, <2>4, <2>5 DEF EventsNext, eventVars
<1>3. ASSUME NEW c \in Casts, CastStep(c) PROVE UNCHANGED eventVars
  BY <1>3 DEF CastStep, Authenticate, ReadNomination, CheckOpen, InsertVote, CommitCast,
              CommitFails, AuditDuplicate, CastCrash
<1>4. ASSUME NEW w \in Voids, VoidStep(w) PROVE UNCHANGED eventVars
  BY <1>4 DEF VoidStep, VoidLock, VoidUpdate, VoidCommit, VoidCrash
<1>5. ASSUME NEW a \in Removals, RemovalStep(a) PROVE UNCHANGED eventVars
  BY <1>5 DEF RemovalStep, Collect, Delete, Remove, RemoveFails
<1>6. ASSUME NEW p \in Patches, LoadAward(p[1]) \/ SaveAward(p[1], p[2])
      PROVE  UNCHANGED eventVars
  BY <1>6 DEF LoadAward, SaveAward
<1>7. ReviewStep \/ VoterAdminStep => UNCHANGED eventVars
  BY DEF ReviewStep, Approve, Revert, VoterAdminStep, ToggleBlocked
<1> QED
  BY <1>1, <1>2, <1>3, <1>4, <1>5, <1>6, <1>7 DEF Next, vars, eventVars

\* A row that accepts votes now did so a moment ago: only time is lost by waiting.
LEMMA AcceptingEarlier ==
    ASSUME VotingInv, [Next]_vars, NEW row \in EventRow,
           row.status = "voting_open", BothSet(row.voting_opens_at, row.voting_closes_at),
           clock' < row.voting_closes_at
    PROVE  Accepting(row)
<1>1. row.voting_closes_at \in Nat
  BY TimeAssumption DEF EventRow, OptTime, Time, BothSet
<1> QED
  BY <1>1, ClockStep DEF Accepting

LEMMA ClosingStep ==
    ASSUME VotingInv, [Next]_vars, ~Accepting(event)
    PROVE  MayRecord' \subseteq MayRecord /\ Recorded' \ Recorded \subseteq MayRecord
<1>1. Recorded' \ Recorded \subseteq MayRecord
  BY NewRows DEF Recorded, MayRecord, InPhase
<1>2. ASSUME NEW c \in Casts, c \in MayRecord' PROVE c \in MayRecord
  <2>1. /\ cast \in [Casts -> CastJob \cup {NoJob}]
        /\ copy \in [Casts -> EventRow] /\ copy' \in [Casts -> EventRow]
    BY VotingNextInv DEF VotingInv, TypeOK
  <2>2. CASE cast'[c] = cast[c] /\ copy'[c] = copy[c]
    BY <1>2, <2>1, <2>2, AcceptingEarlier DEF MayRecord, InPhase, Accepting
  <2>3. CASE ~(cast'[c] = cast[c] /\ copy'[c] = copy[c])
    <3>1. CastStep(c)
      BY <2>3, CastTableStep, OtherCasts
    <3>2. ~\E v \in Voters, n \in Nominations : Authenticate(c, v, n)
      BY <1>2, <2>1 DEF Authenticate, MayRecord, InPhase
    <3>3. ~CommitCast(c) /\ ~CommitFails(c) /\ ~AuditDuplicate(c) /\ ~CastCrash(c)
      <4>1. cast'[c].phase \in {"read", "open", "inserted"}
        BY <1>2 DEF MayRecord, InPhase
      <4>2. cast[c] # NoJob => cast[c] \in CastJob
        BY <2>1
      <4> QED
        BY <2>1, <4>1, <4>2 DEF CommitCast, CommitFails, AuditDuplicate, CastCrash, MayCommit,
                                InPhase, CastJob, NoJob, InFlight
    <3>4. CASE ReadNomination(c)
      <4>1. cast[c] \in CastJob
        BY <2>1, <3>4 DEF ReadNomination, InPhase, NoJob
      <4>2. copy'[c] = event /\ cast'[c].phase = "read"
        BY <1>2, <2>1, <3>4, <4>1 DEF ReadNomination, MayRecord, InPhase, CastJob
      <4>3. clock' = clock
        BY <3>4 DEF ReadNomination, eventVars
      <4>4. Accepting(copy[c])'
        BY <1>2, <4>2 DEF MayRecord, InPhase
      <4> QED
        BY <4>2, <4>3, <4>4 DEF Accepting
    <3>5. CASE CheckOpen(c)
      <4>1. cast[c] \in CastJob
        BY <2>1, <3>5 DEF CheckOpen, InPhase, NoJob
      <4>2. VotingIsOpen(copy[c], clock)
        BY <1>2, <2>1, <3>5, <4>1 DEF CheckOpen, MayRecord, InPhase, CastJob
      <4> QED
        BY <3>5, <4>2 DEF CheckOpen, MayRecord, Accepting, VotingIsOpen, Within
    <3>6. CASE InsertVote(c)
      BY <3>6 DEF InsertVote, MayRecord, InPhase
    <3> QED
      BY <3>1, <3>2, <3>3, <3>4, <3>5, <3>6 DEF CastStep
  <2> QED
    BY <2>2, <2>3
<1>3. MayRecord' \subseteq Casts
  BY DEF MayRecord
<1> QED
  BY <1>1, <1>2, <1>3

\* Once voting no longer accepts, only casts that had already read the open event can
\* still be recorded, and no request joins them: for any number of requests and admins.
THEOREM VotingDrainsAfterClosing == Spec => ClosingDrains
<1>1. VotingInv /\ [Next]_vars =>
        [~Accepting(event) => /\ MayRecord' \subseteq MayRecord
                              /\ Recorded' \ Recorded \subseteq MayRecord]_vars
  BY ClosingStep
<1> QED
  BY <1>1, VotingInitInv, VotingNextInv, PTL DEF Spec, ClosingDrains

LEMMA BlockingStep ==
    ASSUME VotingInv, [Next]_vars, NEW v \in blocked
    PROVE  /\ (PastAuthentication(v))' \subseteq PastAuthentication(v)
           /\ \A c \in Recorded' \ Recorded :
                vote'[c].voter = v => c \in PastAuthentication(v)
<1>1. cast \in [Casts -> CastJob \cup {NoJob}]
  BY DEF VotingInv, TypeOK
<1>2. ASSUME NEW c \in Recorded' \ Recorded, vote'[c].voter = v
      PROVE  c \in PastAuthentication(v)
  <2>1. c \in Casts /\ InPhase(c, "inserted") /\ vote'[c] = NewVote(c)
    BY <1>2, NewRows DEF Recorded
  <2> QED
    BY <1>2, <2>1 DEF PastAuthentication, InPhase, NewVote, NoJob
<1>3. ASSUME NEW c \in Casts, c \in (PastAuthentication(v))'
      PROVE  c \in PastAuthentication(v)
  <2>1. /\ cast'[c] # NoJob /\ cast'[c].voter = v
        /\ cast'[c].phase \in {"authed", "read", "open", "inserted"}
    BY <1>3 DEF PastAuthentication
  <2>2. CASE cast'[c] = cast[c]
    BY <2>1, <2>2 DEF PastAuthentication
  <2>3. CASE cast'[c] # cast[c]
    <3>1. CastStep(c)
      BY <2>3, CastTableStep, OtherCasts
    <3>2. ~\E u \in Voters, n \in Nominations : Authenticate(c, u, n)
      BY <1>1, <2>1 DEF Authenticate
    <3>3. cast[c] # NoJob /\ cast[c].phase \in {"authed", "read", "open", "inserted"}
      <4>1. ~CommitCast(c) /\ ~CommitFails(c) /\ ~AuditDuplicate(c) /\ ~CastCrash(c)
        <5>1. cast[c] # NoJob => cast[c] \in CastJob
          BY <1>1
        <5> QED
          BY <1>1, <2>1, <5>1 DEF CommitCast, CommitFails, AuditDuplicate, CastCrash, MayCommit,
                                  InPhase, CastJob, NoJob, InFlight
      <4> QED
        BY <3>1, <3>2, <4>1 DEF CastStep, ReadNomination, CheckOpen, InsertVote, InPhase, NoJob
    <3>4. cast[c].voter = v
      BY <2>1, <3>3, CastColumnsFixed
    <3> QED
      BY <3>3, <3>4 DEF PastAuthentication
  <2> QED
    BY <2>2, <2>3
<1>4. (PastAuthentication(v))' \subseteq Casts
  BY DEF PastAuthentication
<1> QED
  BY <1>2, <1>3, <1>4

\* While a voter is blocked only requests that were already authenticated can still be
\* recorded for them, and none joins those.
THEOREM BlockingTakesEffect == Spec => BlockingDrains
<1>1. VotingInv /\ [Next]_vars =>
        [\A v \in blocked :
            /\ (PastAuthentication(v))' \subseteq PastAuthentication(v)
            /\ \A c \in Recorded' \ Recorded :
                  vote'[c].voter = v => c \in PastAuthentication(v)]_vars
  BY BlockingStep
<1> QED
  BY <1>1, VotingInitInv, VotingNextInv, PTL DEF Spec, BlockingDrains

----------------------------------------------------------------------------
(* Refinement. *)

LEMMA TheOnlyElement ==
    ASSUME NEW S, NEW c \in S, \A d \in S : d = c
    PROVE  (CHOOSE d \in S : TRUE) = c
  OBVIOUS

LEMMA ChosenElement ==
    ASSUME NEW S, S # {}
    PROVE  (CHOOSE d \in S : TRUE) \in S
  OBVIOUS

Bar == [v \in Voters |-> [a \in Awards |-> BallotOf(v, a)]]

LEMMA InitRefines == Init => B!BallotInit
<1> SUFFICES ASSUME Init PROVE B!BallotInit
  OBVIOUS
<1>1. \A v \in Voters, a \in Awards : ActiveIn(v, a) = {}
  BY DEF Init, ActiveIn, ActiveVotes
<1>2. \A v \in Voters, a \in Awards : BallotOf(v, a) = NoChoice
  BY <1>1 DEF BallotOf
<1> QED
  BY <1>2 DEF B!BallotInit

\* The commit of a cast makes a choice in an empty slot.
LEMMA CommitRefines ==
    ASSUME VotingInv, NEW c \in Casts, CommitCast(c)
    PROVE  B!BallotNext
<1>1. PICK v \in Voters, n \in Nominations, a \in Awards :
        NewVote(c) = [voter |-> v, award |-> a, nomination |-> n, voided |-> FALSE]
        /\ a = AwardOf[n]
  <2>1. cast[c] # NoJob
    BY DEF CommitCast, MayCommit, InPhase, NoJob
  <2>2. cast[c].voter \in Voters /\ cast[c].nomination \in Nominations
    BY <2>1, CastTyped DEF VotingInv
  <2>3. AwardOf[cast[c].nomination] \in Awards
    BY <2>2, VotingAssumption
  <2> QED
    BY <2>2, <2>3 DEF NewVote
<1>2. /\ vote[c] = NoVote /\ vote'[c] = NewVote(c)
      /\ \A d \in Casts \ {c} : vote'[d] = vote[d]
      /\ ActiveVotes' = ActiveVotes \cup {c}
  BY CommitCastInv
<1>3. c \notin ActiveVotes /\ ActiveVotes \subseteq Casts
  BY <1>2 DEF ActiveVotes
<1>4. ActiveIn(v, a) = {}
  BY <1>1 DEF VotingInv, SlotsReserved, CommitCast, MayCommit, ActiveIn, SameSlot
<1>5. ActiveIn(v, a)' = {c}
  BY <1>1, <1>2, <1>3, <1>4 DEF ActiveIn
<1>6. BallotOf(v, a) = NoChoice /\ BallotOf(v, a)' = n
  BY <1>1, <1>2, <1>4, <1>5 DEF BallotOf
<1>7. ASSUME NEW u \in Voters, NEW b \in Awards, u # v \/ b # a
      PROVE  BallotOf(u, b)' = BallotOf(u, b)
  <2>1. ActiveIn(u, b)' = ActiveIn(u, b)
    BY <1>1, <1>2, <1>3, <1>7 DEF ActiveIn
  <2>2. CASE ActiveIn(u, b) = {}
    BY <2>1, <2>2 DEF BallotOf
  <2>3. CASE ActiveIn(u, b) # {}
    <3> DEFINE d == CHOOSE x \in ActiveIn(u, b) : TRUE
    <3>1. d \in ActiveIn(u, b)
      BY <2>3, ChosenElement
    <3>2. vote'[d] = vote[d]
      BY <1>2, <1>3, <3>1 DEF ActiveIn
    <3> QED
      BY <2>1, <2>3, <3>2 DEF BallotOf
  <2> QED
    BY <2>2, <2>3
<1>8. Bar' = [Bar EXCEPT ![v][a] = n]
  BY <1>1, <1>6, <1>7 DEF Bar
<1>9. Bar[v][a] = NoChoice
  BY <1>1, <1>6 DEF Bar
<1>10. B!Choose(v, n)
  BY <1>1, <1>8, <1>9 DEF B!Choose, Bar
<1> QED
  BY <1>1, <1>10 DEF B!BallotNext

\* The commit of a void withdraws the choice of its slot.
LEMMA VoidRefines ==
    ASSUME VotingInv, NEW w \in Voids, VoidCommit(w)
    PROVE  B!BallotNext
<1>1. PICK c \in ActiveVotes :
        /\ vote' = [vote EXCEPT ![c].voided = TRUE]
        /\ ActiveVotes' = ActiveVotes \ {c}
  BY VoidCommitInv
<1>2. PICK v \in Voters, a \in Awards :
        /\ c \in Casts /\ vote[c] \in VoteRow /\ vote[c].nomination \in Nominations
        /\ v = vote[c].voter /\ a = vote[c].award
  BY <1>1 DEF VotingInv, TypeOK, ActiveVotes, VoteRow
<1>3. \A d \in ActiveVotes' : vote'[d] = vote[d]
  BY <1>1 DEF VotingInv, TypeOK, ActiveVotes
<1>4. ActiveIn(v, a) = {c}
  BY <1>1, <1>2 DEF VotingInv, OneActiveVote, ActiveIn, SameSlot
<1>5. ActiveIn(v, a)' = {}
  BY <1>1, <1>3, <1>4 DEF ActiveIn
<1>6. BallotOf(v, a) = vote[c].nomination /\ BallotOf(v, a)' = NoChoice
  BY <1>4, <1>5 DEF BallotOf
<1>7. ASSUME NEW u \in Voters, NEW b \in Awards, u # v \/ b # a
      PROVE  BallotOf(u, b)' = BallotOf(u, b)
  <2>1. ActiveIn(u, b)' = ActiveIn(u, b)
    BY <1>1, <1>2, <1>3, <1>7 DEF ActiveIn
  <2>2. CASE ActiveIn(u, b) = {}
    BY <2>1, <2>2 DEF BallotOf
  <2>3. CASE ActiveIn(u, b) # {}
    <3> DEFINE d == CHOOSE x \in ActiveIn(u, b) : TRUE
    <3>1. d \in ActiveIn(u, b)
      BY <2>3, ChosenElement
    <3>2. vote'[d] = vote[d]
      BY <1>3, <2>1, <3>1 DEF ActiveIn
    <3> QED
      BY <2>1, <2>3, <3>2 DEF BallotOf
  <2> QED
    BY <2>2, <2>3
<1>8. Bar' = [Bar EXCEPT ![v][a] = NoChoice]
  BY <1>2, <1>6, <1>7 DEF Bar
<1>9. Bar[v][a] # NoChoice
  BY <1>2, <1>6, VotingAssumption DEF Bar
<1>10. B!Withdraw(v, a)
  BY <1>8, <1>9 DEF B!Withdraw, Bar
<1> QED
  BY <1>2, <1>10 DEF B!BallotNext

\* The detailed voting service implements the abstract ballot.
THEOREM VotingImplementsBallot == Spec => ImplementsBallot
<1>1. VotingInv /\ [Next]_vars => [B!BallotNext]_Bar
  <2> SUFFICES ASSUME VotingInv, [Next]_vars PROVE [B!BallotNext]_Bar
    OBVIOUS
  <2>1. CASE vote' = vote
    BY <2>1 DEF Bar, BallotOf, ActiveIn, ActiveVotes
  <2> QED
    BY <2>1, VoteStep, CommitRefines, VoidRefines
<1>2. B!BallotSpec <=> B!BallotInit /\ [][B!BallotNext]_Bar
  BY DEF B!BallotSpec, Bar
<1> QED
  BY <1>1, <1>2, InitRefines, VotingInitInv, VotingNextInv, PTL DEF Spec, ImplementsBallot
=============================================================================
