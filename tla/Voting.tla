------------------------------- MODULE Voting -------------------------------
(***************************************************************************)
(* Casting and voiding free votes: VoteViewSet.create / void, the voter     *)
(* token check in front of them, and the services cast_free_vote and        *)
(* void_vote, at the granularity at which Postgres interleaves them.        *)
(*                                                                         *)
(* A cast is: authenticate (one SELECT), read the nomination with its award *)
(* and event (one SELECT), compare the COPY of the event with the clock,    *)
(* then one transaction that inserts the vote and its audit entry.  The     *)
(* partial unique index makes an INSERT wait for an uncommitted change to   *)
(* the same (voter, award) slot.  A void is one transaction that locks the  *)
(* vote, updates it and audits.  A DELETE of an award looks for votes first *)
(* and deletes afterwards, in a transaction of its own; the foreign keys    *)
(* are checked at the COMMIT of whoever comes last.  A worker may die       *)
(* between any two steps, and Postgres then rolls its transaction back.     *)
(***************************************************************************)
EXTENDS Events

CONSTANTS
    Voters, Awards, Nominations,
    AwardOf,    \* the award of each nomination
    Casts,      \* requests POST /votes/; each is served once
    Voids,      \* requests POST /votes/{id}/void/; each is served once
    Removals,   \* the awards that a DELETE /awards/{id}/ asks to delete; each is served once
    Staff,      \* moderators and admins editing the catalogue meanwhile
    InitiallyApproved, \* bound: the sets of approved nominations a behaviour may start with
    Patches,    \* bound: an award and the is_active that somebody may PATCH it to
    NoVote,     \* no row with that id in voting_vote
    NoChoice    \* an empty slot of the abstract ballot

ASSUME VotingAssumption ==
    /\ AwardOf \in [Nominations -> Awards]
    /\ NoChoice \notin Nominations
    /\ Removals \subseteq Awards
    /\ Patches \subseteq Awards \X BOOLEAN
    /\ InitiallyApproved \subseteq SUBSET Nominations

\* A row of voting_vote; its id is the request that inserted it.
VoteRow == [voter : Voters, award : Awards, nomination : Nominations, voided : BOOLEAN]

ASSUME NoVoteAssumption == NoVote \notin VoteRow

VARIABLES
    approved,      \* nominations with status APPROVED
    activeAwards,  \* awards with is_active
    blocked,       \* voters with is_blocked (every voter here is verified)
    awardRows,     \* the committed rows of events_award
    nominationRows,\* the committed rows of nominations_nomination
    loaded,        \* awards of which a PATCH holds a copy
    removal,       \* per delete request: its phase
    vote,          \* the committed rows of voting_vote
    cast,          \* per cast request: phase, voter and nomination
    copy,          \* per cast request: the event row it read (NewEvent: none)
    void,          \* per void request: phase and target
    audit          \* the committed vote entries of the audit log

catalogueVars == <<approved, activeAwards, blocked, awardRows, nominationRows, loaded, removal>>
requestVars == <<cast, copy, void>>
votingVars == <<catalogueVars, vote, requestVars, audit>>
vars == <<eventVars, votingVars>>

InFlight == {"authed", "read", "open", "inserted", "duplicate"}
Answered == {"refused", "not_found", "closed", "created", "already_voted", "failed", "crashed"}
VoidUnderway == {"locked", "updated"}
VoidAnswered == {"not_found", "already_voided", "voided", "failed", "crashed"}
RemovalPhases == {"new", "collected", "deleted", "protected", "removed", "failed"}

CastJob == [phase : InFlight \cup Answered, voter : Voters, nomination : Nominations]
VoidJob == [phase : VoidUnderway \cup VoidAnswered, target : Casts]

\* audit.log: the request that wrote the entry stands for its actor, address and time.
Log(action, by, target) == [action |-> action, by |-> by, target |-> target]

AuditEntry == [action : {"VOTE_CAST", "VOTE_DUPLICATE"}, by : Casts, target : Casts]
                 \cup [action : {"VOTE_VOIDED"}, by : Voids, target : Casts]

TypeOK ==
    /\ EventsTypeOK
    /\ approved \subseteq Nominations
    /\ activeAwards \subseteq Awards
    /\ blocked \subseteq Voters
    /\ awardRows \subseteq Awards
    /\ nominationRows \subseteq Nominations
    /\ loaded \subseteq Awards
    /\ removal \in [Removals -> RemovalPhases]
    /\ vote \in [Casts -> VoteRow \cup {NoVote}]
    /\ cast \in [Casts -> CastJob \cup {NoJob}]
    /\ copy \in [Casts -> EventRow]
    /\ void \in [Voids -> VoidJob \cup {NoJob}]
    /\ audit \subseteq AuditEntry

Init ==
    /\ EventsInit
    /\ approved \in InitiallyApproved
    /\ activeAwards = Awards
    /\ blocked = {}
    /\ awardRows = Awards
    /\ nominationRows = Nominations
    /\ loaded = {}
    /\ removal = [a \in Removals |-> "new"]
    /\ vote = [c \in Casts |-> NoVote]
    /\ cast = [c \in Casts |-> NoJob]
    /\ copy = [c \in Casts |-> NewEvent]
    /\ void = [w \in Voids |-> NoJob]
    /\ audit = {}

----------------------------------------------------------------------------
(* Who holds what in the vote table. *)

InPhase(c, p) == cast[c].phase = p
VoidInPhase(w, p) == void[w].phase = p

\* Mutant: the award column filled from the wrong object.
NewVoteWrongAward(c) == [voter |-> cast[c].voter, award |-> cast[c].nomination,
                         nomination |-> cast[c].nomination, voided |-> FALSE]

\* The row a cast in flight inserts: event and award come from the nomination.
NewVote(c) == [voter |-> cast[c].voter, award |-> AwardOf[cast[c].nomination],
               nomination |-> cast[c].nomination, voided |-> FALSE]

ActiveVotes == {c \in Casts : vote[c] # NoVote /\ ~vote[c].voided}

SameSlot(r1, r2) == r1.voter = r2.voter /\ r1.award = r2.award

\* Mutant: an insert does not wait for other inserts.
SlotInDoubtVoidsOnly(c) ==
    \E w \in Voids : /\ VoidInPhase(w, "updated")
                     /\ SameSlot(vote[void[w].target], NewVote(c))

\* Index entries of the slot that another transaction has yet to commit or undo.
SlotInDoubt(c) ==
    \/ \E d \in Casts \ {c} : InPhase(d, "inserted") /\ SameSlot(NewVote(d), NewVote(c))
    \/ \E w \in Voids : /\ VoidInPhase(w, "updated")
                        /\ SameSlot(vote[void[w].target], NewVote(c))

\* Mutant: the index is on voter and nomination.
SlotTakenForNomination(c) ==
    \E d \in ActiveVotes : /\ vote[d].voter = cast[c].voter
                           /\ vote[d].nomination = cast[c].nomination

SlotTaken(c) == \E d \in ActiveVotes : SameSlot(vote[d], NewVote(c))

----------------------------------------------------------------------------
(* cast_free_vote and the view in front of it. *)

\* Mutant: the token alone is enough.
AuthenticateUnchecked(c, v, n) ==
    /\ cast[c] = NoJob
    /\ cast' = [cast EXCEPT ![c] = [phase |-> "authed", voter |-> v, nomination |-> n]]
    /\ UNCHANGED <<eventVars, catalogueVars, vote, copy, void, audit>>

\* VoterTokenAuthentication: the only time the voter's row is looked at.
Authenticate(c, v, n) ==
    /\ cast[c] = NoJob
    /\ cast' = [cast EXCEPT ![c] = [phase |-> IF v \in blocked THEN "refused" ELSE "authed",
                                    voter |-> v, nomination |-> n]]
    /\ UNCHANGED <<eventVars, catalogueVars, vote, copy, void, audit>>

\* The single SELECT: an approved nomination of an active award of a non-draft event.
Votable(n) ==
    /\ n \in approved
    /\ AwardOf[n] \in activeAwards
    /\ event.status # "draft"

ReadNomination(c) ==
    /\ InPhase(c, "authed")
    /\ \/ /\ Votable(cast[c].nomination)
          /\ cast' = [cast EXCEPT ![c].phase = "read"]
          /\ copy' = [copy EXCEPT ![c] = event]
       \/ /\ ~Votable(cast[c].nomination)
          /\ cast' = [cast EXCEPT ![c].phase = "not_found"]
          /\ UNCHANGED copy
    /\ UNCHANGED <<eventVars, catalogueVars, vote, void, audit>>

\* event.voting_is_open() on the copy, at the present time.
CheckOpen(c) ==
    /\ InPhase(c, "read")
    /\ cast' = [cast EXCEPT ![c].phase = IF VotingIsOpen(copy[c], clock) THEN "open" ELSE "closed"]
    /\ copy' = [copy EXCEPT ![c] = NewEvent]
    /\ UNCHANGED <<eventVars, catalogueVars, vote, void, audit>>

\* Mutant: an uncommitted insert counts as a duplicate.
InsertVoteNoWait(c) ==
    /\ InPhase(c, "open")
    /\ cast' = [cast EXCEPT ![c].phase =
                   IF SlotTaken(c) \/ SlotInDoubt(c) THEN "duplicate" ELSE "inserted"]
    /\ UNCHANGED <<eventVars, catalogueVars, vote, copy, void, audit>>

\* BEGIN; INSERT INTO voting_vote: waits while the slot is in doubt, then either
\* violates the partial unique index (and the transaction is over) or holds it.
InsertVote(c) ==
    /\ InPhase(c, "open")
    /\ ~SlotInDoubt(c)
    /\ cast' = [cast EXCEPT ![c].phase = IF SlotTaken(c) THEN "duplicate" ELSE "inserted"]
    /\ UNCHANGED <<eventVars, catalogueVars, vote, copy, void, audit>>

\* Mutant: a constraint on the award alone.
ForeignKeysHoldAward(c) == AwardOf[cast[c].nomination] \in awardRows

\* The nomination and the award of the new row exist, in what is committed by now.
ForeignKeysHold(c) ==
    /\ cast[c].nomination \in nominationRows
    /\ AwardOf[cast[c].nomination] \in awardRows

\* An award that a transaction has deleted and may yet keep.
RowGoing(a) == a \in Removals /\ removal[a] = "deleted"

\* The deferred foreign key checks share-lock the rows the vote names: the commit waits
\* for a change_status transaction that holds the event, and for a delete.
MayCommit(c) ==
    /\ InPhase(c, "inserted")
    /\ lock = Free
    /\ ~RowGoing(AwardOf[cast[c].nomination])

\* The audit entry and COMMIT.
CommitCast(c) ==
    /\ MayCommit(c) /\ ForeignKeysHold(c)
    /\ vote' = [vote EXCEPT ![c] = NewVote(c)]
    /\ audit' = audit \cup {Log("VOTE_CAST", c, c)}
    /\ cast' = [cast EXCEPT ![c].phase = "created"]
    /\ UNCHANGED <<eventVars, catalogueVars, copy, void>>

\* The nomination is gone: not a unique violation, so the error is raised again (500).
CommitFails(c) ==
    /\ MayCommit(c) /\ ~ForeignKeysHold(c)
    /\ cast' = [cast EXCEPT ![c].phase = "failed"]
    /\ UNCHANGED <<eventVars, catalogueVars, vote, copy, void, audit>>

\* After the rollback, outside any transaction: the audit entry, then 409.
AuditDuplicate(c) ==
    /\ InPhase(c, "duplicate")
    /\ audit' = audit \cup {Log("VOTE_DUPLICATE", c, c)}
    /\ cast' = [cast EXCEPT ![c].phase = "already_voted"]
    /\ UNCHANGED <<eventVars, catalogueVars, vote, copy, void>>

\* The worker dies; an uncommitted insert disappears with its transaction.
CastCrash(c) ==
    /\ cast[c].phase \in InFlight
    /\ cast' = [cast EXCEPT ![c].phase = "crashed"]
    /\ copy' = [copy EXCEPT ![c] = NewEvent]
    /\ UNCHANGED <<eventVars, catalogueVars, vote, void, audit>>

----------------------------------------------------------------------------
(* void_vote. *)

\* Mutant: SELECT without FOR UPDATE.
RowNeverLocked(c) == FALSE

RowLocked(c) == \E w \in Voids : void[w].phase \in VoidUnderway /\ void[w].target = c

\* SELECT ... FOR UPDATE: waits for the holder, then sees the newest committed row.
VoidLock(w, c) ==
    /\ void[w] = NoJob
    /\ ~RowLocked(c)
    /\ void' = [void EXCEPT ![w] =
                   [phase |-> IF vote[c] = NoVote THEN "not_found"
                              ELSE IF vote[c].voided THEN "already_voided" ELSE "locked",
                    target |-> c]]
    /\ UNCHANGED <<eventVars, catalogueVars, vote, cast, copy, audit>>

Voided(row) == [row EXCEPT !.voided = TRUE]

\* voting_vote_append_only: no DELETE, no column but the voiding ones, and those once.
AppendOnlyTrigger(old, new) ==
    /\ new # NoVote
    /\ Voided(new) = Voided(old)
    /\ ~old.voided

\* Vote.void: the UPDATE of the void columns, not committed yet; the trigger looks at it.
VoidUpdate(w) ==
    /\ VoidInPhase(w, "locked")
    /\ LET row == vote[void[w].target]
       IN  void' = [void EXCEPT ![w].phase =
                       IF AppendOnlyTrigger(row, Voided(row)) THEN "updated" ELSE "failed"]
    /\ UNCHANGED <<eventVars, catalogueVars, vote, cast, copy, audit>>

\* Mutant: the row is deleted.
VoidCommitDeletes(w) ==
    /\ VoidInPhase(w, "updated")
    /\ vote' = [vote EXCEPT ![void[w].target] = NoVote]
    /\ audit' = audit \cup {Log("VOTE_VOIDED", w, void[w].target)}
    /\ void' = [void EXCEPT ![w].phase = "voided"]
    /\ UNCHANGED <<eventVars, catalogueVars, cast, copy>>

\* The audit entry and COMMIT.
VoidCommit(w) ==
    /\ VoidInPhase(w, "updated")
    /\ vote' = [vote EXCEPT ![void[w].target] = Voided(@)]
    /\ audit' = audit \cup {Log("VOTE_VOIDED", w, void[w].target)}
    /\ void' = [void EXCEPT ![w].phase = "voided"]
    /\ UNCHANGED <<eventVars, catalogueVars, cast, copy>>

VoidCrash(w) ==
    /\ void[w].phase \in VoidUnderway
    /\ void' = [void EXCEPT ![w].phase = "crashed"]
    /\ UNCHANGED <<eventVars, catalogueVars, vote, cast, copy, audit>>

----------------------------------------------------------------------------
(* DELETE /awards/{id}/ (perform_destroy). *)

NominationsOf(a) == {n \in Nominations : AwardOf[n] = a}

Referenced(a) == \E c \in Casts : /\ vote[c] # NoVote
                                  /\ vote[c].award = a \/ vote[c].nomination \in NominationsOf(a)

\* get_object and Django's collector: the nominations cascade, a vote protects (409).  All of
\* it is read outside any transaction.
Collect(a) ==
    /\ removal[a] = "new"
    /\ removal' = [removal EXCEPT ![a] = IF Referenced(a) THEN "protected" ELSE "collected"]
    /\ UNCHANGED <<eventVars, approved, activeAwards, blocked, awardRows, nominationRows, loaded,
                   vote, requestVars, audit>>

\* BEGIN; DELETE the nominations, then the award: not committed yet.
Delete(a) ==
    /\ removal[a] = "collected"
    /\ removal' = [removal EXCEPT ![a] = "deleted"]
    /\ UNCHANGED <<eventVars, approved, activeAwards, blocked, awardRows, nominationRows, loaded,
                   vote, requestVars, audit>>

\* COMMIT, with the foreign keys of the votes that are committed by now.
Remove(a) ==
    /\ removal[a] = "deleted" /\ ~Referenced(a)
    /\ removal' = [removal EXCEPT ![a] = "removed"]
    /\ awardRows' = awardRows \ {a} /\ activeAwards' = activeAwards \ {a}
    /\ nominationRows' = nominationRows \ NominationsOf(a)
    /\ approved' = approved \ NominationsOf(a)
    /\ UNCHANGED <<eventVars, blocked, loaded, vote, requestVars, audit>>

\* Rolled back (500): a vote came in since the look, which is an IntegrityError at COMMIT and
\* no ProtectedError, or the worker died.
RemoveFails(a) ==
    /\ removal[a] = "deleted"
    /\ removal' = [removal EXCEPT ![a] = "failed"]
    /\ UNCHANGED <<eventVars, approved, activeAwards, blocked, awardRows, nominationRows, loaded,
                   vote, requestVars, audit>>

----------------------------------------------------------------------------
(* What moderators and admins change meanwhile. *)

\* review_nomination approves a pending nomination (the Nominations module has the detail).
Approve(n) ==
    /\ n \in nominationRows \ approved
    /\ ~RowGoing(AwardOf[n])
    /\ approved' = approved \cup {n}
    /\ UNCHANGED <<eventVars, activeAwards, blocked, awardRows, nominationRows, loaded, removal,
                   vote, requestVars, audit>>

\* The change form of a nomination saves every column of the row it loaded: one that was
\* still pending then goes back to pending, however many votes it has by now.
Revert(n) ==
    /\ n \in approved
    /\ ~RowGoing(AwardOf[n])
    /\ approved' = approved \ {n}
    /\ UNCHANGED <<eventVars, activeAwards, blocked, awardRows, nominationRows, loaded, removal,
                   vote, requestVars, audit>>

\* PATCH /awards/{id}/: get_object.
LoadAward(a) ==
    /\ a \in awardRows
    /\ loaded' = loaded \cup {a}
    /\ UNCHANGED <<eventVars, approved, activeAwards, blocked, awardRows, nominationRows, removal,
                   vote, requestVars, audit>>

\* save(): an UPDATE of every column, and an INSERT where it finds no row, so an award that
\* was deleted since comes back, without its nominations.
SaveAward(a, is_active) ==
    /\ a \in loaded /\ ~RowGoing(a)
    /\ loaded' = loaded \ {a}
    /\ awardRows' = awardRows \cup {a}
    /\ activeAwards' = IF is_active THEN activeAwards \cup {a} ELSE activeAwards \ {a}
    /\ UNCHANGED <<eventVars, approved, blocked, nominationRows, removal, vote, requestVars, audit>>

ToggleBlocked(v) ==
    /\ blocked' = IF v \in blocked THEN blocked \ {v} ELSE blocked \cup {v}
    /\ UNCHANGED <<eventVars, approved, activeAwards, awardRows, nominationRows, loaded, removal,
                   vote, requestVars, audit>>

----------------------------------------------------------------------------
CastStep(c) ==
    \/ \E v \in Voters, n \in Nominations : Authenticate(c, v, n)
    \/ ReadNomination(c) \/ CheckOpen(c) \/ InsertVote(c)
    \/ CommitCast(c) \/ CommitFails(c) \/ AuditDuplicate(c) \/ CastCrash(c)

VoidStep(w) ==
    \/ \E c \in Casts : VoidLock(w, c)
    \/ VoidUpdate(w) \/ VoidCommit(w) \/ VoidCrash(w)

RemovalStep(a) == Collect(a) \/ Delete(a) \/ Remove(a) \/ RemoveFails(a)

ReviewStep == \E n \in Nominations : Approve(n) \/ Revert(n)

VoterAdminStep == \E v \in Voters : ToggleBlocked(v)

Next ==
    \/ EventsNext /\ UNCHANGED votingVars
    \/ \E c \in Casts : CastStep(c)
    \/ \E w \in Voids : VoidStep(w)
    \/ \E a \in Removals : RemovalStep(a)
    \/ \E p \in Patches : LoadAward(p[1]) \/ SaveAward(p[1], p[2])
    \/ Staff # {} /\ (ReviewStep \/ VoterAdminStep)

\* A worker that is alive takes its next step.  A commit may have to queue for the
\* event row again and again, but Postgres serves that queue in order (hence SF).
Fairness ==
    /\ EventsFairness
    /\ \A c \in Casts :
          /\ WF_vars(ReadNomination(c) \/ CheckOpen(c) \/ InsertVote(c) \/ AuditDuplicate(c))
          /\ SF_vars(CommitCast(c) \/ CommitFails(c))
    /\ \A w \in Voids : WF_vars(VoidUpdate(w) \/ VoidCommit(w))
    /\ \A a \in Removals : WF_vars(Delete(a) \/ Remove(a) \/ RemoveFails(a))

Spec == Init /\ [][Next]_vars /\ Fairness

----------------------------------------------------------------------------
(* Properties. *)

\* One active free vote per voter and award, though nothing checks before inserting:
\* concurrent casts, voids in progress and re-casts after a void all meet in the index.
OneActiveVote ==
    \A c, d \in ActiveVotes : SameSlot(vote[c], vote[d]) => c = d

\* The vote table and the audit log tell the same story: a row exists exactly when a
\* VOTE_CAST entry names it, and it is void exactly when one single VOTE_VOIDED does,
\* whatever crashed on the way.
AuditMatchesVotes ==
    \A c \in Casts :
        /\ vote[c] # NoVote
             <=> Log("VOTE_CAST", c, c) \in audit
        /\ (vote[c] # NoVote /\ vote[c].voided)
             <=> \E w \in Voids : Log("VOTE_VOIDED", w, c) \in audit
        /\ \A w, x \in Voids :
             /\ Log("VOTE_VOIDED", w, c) \in audit
             /\ Log("VOTE_VOIDED", x, c) \in audit
             => w = x

\* A vote that counts keeps the nomination and the award it was cast for: whatever a delete
\* saw when it looked, and whatever comes back after it, no row is left to point at nothing.
VotesKeepTheirNomination ==
    \A c \in Casts : vote[c] # NoVote => /\ vote[c].nomination \in nominationRows
                                        /\ vote[c].award \in awardRows

\* A 409 is never spurious: somebody else's insert, or an earlier one of the voter's
\* own, really is in the table (it may have been voided since).
DuplicateWasReal ==
    \A c \in Casts : cast[c].phase \in {"duplicate", "already_voted"} =>
        \E d \in Casts \ {c} : vote[d] # NoVote /\ SameSlot(vote[d], NewVote(c))

\* Votes are append-only: a committed row is never removed, its columns never change,
\* and a void is never undone.
AppendOnly ==
    [][\A c \in Casts : vote[c] # NoVote =>
          /\ vote'[c] # NoVote
          /\ [vote'[c] EXCEPT !.voided = FALSE] = [vote[c] EXCEPT !.voided = FALSE]
          /\ vote[c].voided => vote'[c].voided]_vars

Accepting(row) ==
    /\ row.status = "voting_open"
    /\ BothSet(row.voting_opens_at, row.voting_closes_at)
    /\ clock < row.voting_closes_at

\* Casts that may still record a vote because they looked while voting was open.
MayRecord == {c \in Casts : \/ InPhase(c, "read") /\ Accepting(copy[c])
                            \/ cast[c].phase \in {"open", "inserted"}}

Recorded == {c \in Casts : vote[c] # NoVote}

\* Closing takes effect on the next request: once voting no longer accepts, only casts
\* that had already read the open event can still be recorded, and no others join them.
ClosingDrains ==
    [][~Accepting(event) => /\ MayRecord' \subseteq MayRecord
                            /\ Recorded' \ Recorded \subseteq MayRecord]_vars

PastAuthentication(v) ==
    {c \in Casts : cast[c] # NoJob /\ cast[c].voter = v
                     /\ cast[c].phase \in {"authed", "read", "open", "inserted"}}

\* Blocking takes effect on the next request: while a voter is blocked only casts that
\* were already authenticated can still be recorded for them.
BlockingDrains ==
    [][\A v \in blocked :
          /\ (PastAuthentication(v))' \subseteq PastAuthentication(v)
          /\ \A c \in Recorded' \ Recorded :
                vote'[c].voter = v => c \in PastAuthentication(v)]_vars

\* Every cast that was started is answered, though inserts wait for other inserts and voids,
\* and commits wait for the admins that have the event row, again and again, and for deletes.
CastsAreAnswered ==
    \A c \in Casts : cast[c].phase \in InFlight ~> cast[c].phase \in Answered

\* Refinement of Ballot: the choice of a slot is the nomination of its active vote.
ActiveIn(v, a) == {c \in ActiveVotes : vote[c].voter = v /\ vote[c].award = a}

BallotOf(v, a) ==
    IF ActiveIn(v, a) = {} THEN NoChoice
    ELSE vote[CHOOSE c \in ActiveIn(v, a) : TRUE].nomination

B == INSTANCE Ballot WITH ballot <- [v \in Voters |-> [a \in Awards |-> BallotOf(v, a)]]

\* The vote table implements the ballot: no step of any interleaving replaces a choice.
ImplementsBallot == B!BallotSpec
=============================================================================
