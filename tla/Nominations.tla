----------------------------- MODULE Nominations -----------------------------
(***************************************************************************)
(* Public submissions and their review: NominationViewSet.create with the   *)
(* validation of NominationSubmitSerializer (each read its own statement),  *)
(* review_nomination (a transaction that locks the row), the change form    *)
(* of NominationAdmin, whose fields are all read-only but which still saves *)
(* the whole row it loaded, and the form of NomineeAdmin, which may rename  *)
(* the nominee.                                                             *)
(***************************************************************************)
EXTENDS Events

CONSTANTS
    Submissions,    \* POST /nominations/; a nomination's id is its submission
    Reviews,        \* POST .../approve/ and .../reject/ (or the admin actions)
    Forms,          \* POSTs of the change form; each is served once
    Awards, Names,
    Staff,          \* admins that switch awards on and off and rename nominees meanwhile
    NoNomination    \* no row with that id

VARIABLES
    activeAwards,   \* awards with is_active
    nomination,     \* the committed rows, each with the name of its nominee
    renamed,        \* the nominations whose nominee was given another name since
    submission,     \* per submission: phase, what was sent, what its check has seen
    heard,          \* per submission: the event row it read (NewEvent: none)
    review,         \* per review: phase and the nomination it is about
    form,           \* per form: the stale row it will save
    decisions       \* the NOMINATION_APPROVED / NOMINATION_REJECTED audit entries

nominationVars == <<activeAwards, nomination, renamed, submission, heard, review, form, decisions>>
vars == <<eventVars, nominationVars>>

\* WITHDRAWN exists as a status, but no code sets it.
NominationStatus == {"pending", "approved", "rejected"}
NominationRow == [award : Awards, name : Names, status : NominationStatus]

ASSUME NominationAssumption == NoNomination \notin NominationRow

SubmissionPhase == {"idle", "read", "valid", "submitted", "closed", "duplicate",
                    "unknown_award", "crashed"}
ReviewPhase == {"arrived", "locked", "done", "already_reviewed", "crashed"}

SubmissionJob == [phase : SubmissionPhase, award : Awards, name : Names,
                  known : SUBSET Submissions]
ReviewJob == [phase : ReviewPhase, about : Submissions]
FormJob == [phase : {"loaded", "saved"}, about : Submissions, row : NominationRow]
Decision == [by : Reviews, about : Submissions, status : {"approved", "rejected"}]

TypeOK ==
    /\ EventsTypeOK
    /\ activeAwards \subseteq Awards
    /\ nomination \in [Submissions -> NominationRow \cup {NoNomination}]
    /\ renamed \subseteq Submissions
    /\ submission \in [Submissions -> SubmissionJob]
    /\ heard \in [Submissions -> EventRow]
    /\ review \in [Reviews -> ReviewJob]
    /\ form \in [Forms -> FormJob \cup {NoJob}]
    /\ decisions \subseteq Decision

Init ==
    /\ EventsInit
    /\ activeAwards = Awards
    /\ nomination = [s \in Submissions |-> NoNomination]
    /\ renamed = {}
    /\ submission \in [Submissions -> [phase : {"idle"}, award : Awards, name : Names,
                                       known : {{}}]]
    /\ heard = [s \in Submissions |-> NewEvent]
    /\ review \in [Reviews -> [phase : {"arrived"}, about : Submissions]]
    /\ form = [f \in Forms |-> NoJob]
    /\ decisions = {}

----------------------------------------------------------------------------
(* Submitting. *)

Rows == {s \in Submissions : nomination[s] # NoNomination}

\* Nominations that block another of the same name in the same award.
Standing(award, name) ==
    {s \in Rows : /\ nomination[s].award = award /\ nomination[s].name = name
                  /\ nomination[s].status \in {"pending", "approved"}}

\* validate_award: one SELECT of the award with its category and event.
ReadAward(s) ==
    /\ submission[s].phase = "idle"
    /\ IF event.status # "draft" /\ submission[s].award \in activeAwards
       THEN /\ submission' = [submission EXCEPT ![s].phase = "read"]
            /\ heard' = [heard EXCEPT ![s] = event]
       ELSE /\ submission' = [submission EXCEPT ![s].phase = "unknown_award"]
            /\ UNCHANGED heard
    /\ UNCHANGED <<eventVars, activeAwards, nomination, renamed, review, form, decisions>>

\* Mutant: only approved nominations are looked at.
IsDuplicateOfApproved(s) ==
    \E t \in Standing(submission[s].award, submission[s].name) : nomination[t].status = "approved"

IsDuplicate(s) == Standing(submission[s].award, submission[s].name) # {}

\* validate, after the photo was processed: the window of the event as read, then the
\* SELECT for a standing nomination of that name.
Validate(s) ==
    /\ submission[s].phase = "read"
    /\ submission' = [submission EXCEPT
          ![s].phase = IF ~NominationsAreOpen(heard[s], clock) THEN "closed"
                       ELSE IF IsDuplicate(s) THEN "duplicate" ELSE "valid",
          ![s].known = Rows]
    /\ heard' = [heard EXCEPT ![s] = NewEvent]
    /\ UNCHANGED <<eventVars, activeAwards, nomination, renamed, review, form, decisions>>

\* Mutant: two columns swapped.
NewNominationSwapped(s) ==
    [award |-> submission[s].name, name |-> submission[s].award, status |-> "pending"]

NewNomination(s) ==
    [award |-> submission[s].award, name |-> submission[s].name, status |-> "pending"]

\* create: nominee, nomination and audit entry in one transaction.
CommitNomination(s) ==
    /\ submission[s].phase = "valid"
    /\ nomination' = [nomination EXCEPT ![s] = NewNomination(s)]
    /\ submission' = [submission EXCEPT ![s].phase = "submitted"]
    /\ UNCHANGED <<eventVars, activeAwards, renamed, heard, review, form, decisions>>

\* A field that does not validate, or the worker dying: nothing was written.
SubmissionCrash(s) ==
    /\ submission[s].phase \in {"read", "valid"}
    /\ submission' = [submission EXCEPT ![s].phase = "crashed"]
    /\ heard' = [heard EXCEPT ![s] = NewEvent]
    /\ UNCHANGED <<eventVars, activeAwards, nomination, renamed, review, form, decisions>>

----------------------------------------------------------------------------
(* review_nomination: one transaction. *)

\* Mutant: SELECT without FOR UPDATE.
RowNeverLocked(s) == FALSE

RowLocked(s) == \E m \in Reviews : review[m].phase = "locked" /\ review[m].about = s

ReviewLock(m) ==
    /\ review[m].phase = "arrived"
    /\ review[m].about \in Rows
    /\ ~RowLocked(review[m].about)
    /\ review' = [review EXCEPT ![m].phase =
                     IF nomination[review[m].about].status = "pending"
                     THEN "locked" ELSE "already_reviewed"]
    /\ UNCHANGED <<eventVars, activeAwards, nomination, renamed, submission, heard, form, decisions>>

ReviewCommit(m, status) ==
    /\ review[m].phase = "locked"
    /\ nomination' = [nomination EXCEPT ![review[m].about].status = status]
    /\ decisions' = decisions \cup {[by |-> m, about |-> review[m].about, status |-> status]}
    /\ review' = [review EXCEPT ![m].phase = "done"]
    /\ UNCHANGED <<eventVars, activeAwards, renamed, submission, heard, form>>

ReviewCrash(m) ==
    /\ review[m].phase = "locked"
    /\ review' = [review EXCEPT ![m].phase = "crashed"]
    /\ UNCHANGED <<eventVars, activeAwards, nomination, renamed, submission, heard, form, decisions>>

----------------------------------------------------------------------------
(* The change form: loads the row, then saves every column of it. *)

FormLoad(f, s) ==
    /\ form[f] = NoJob
    /\ s \in Rows
    /\ form' = [form EXCEPT ![f] = [phase |-> "loaded", about |-> s, row |-> nomination[s]]]
    /\ UNCHANGED <<eventVars, activeAwards, nomination, renamed, submission, heard, review, decisions>>

\* Mutant: the status is a field of the form.
FormSaveEditable(f) ==
    /\ form[f].phase = "loaded"
    /\ ~RowLocked(form[f].about)
    /\ \E status \in NominationStatus :
          nomination' = [nomination EXCEPT ![form[f].about].status = status]
    /\ form' = [form EXCEPT ![f].phase = "saved"]
    /\ UNCHANGED <<eventVars, activeAwards, renamed, submission, heard, review, decisions>>

\* Award, nominee and status are written; the name is a column of the nominee.
FormSave(f) ==
    /\ form[f].phase = "loaded"
    /\ ~RowLocked(form[f].about)
    /\ nomination' = [nomination EXCEPT ![form[f].about].award = form[f].row.award,
                                        ![form[f].about].status = form[f].row.status]
    /\ form' = [form EXCEPT ![f].phase = "saved"]
    /\ UNCHANGED <<eventVars, activeAwards, renamed, submission, heard, review, decisions>>

\* The form of NomineeAdmin: nothing looks for a nomination that has the name already.
Rename(s, name) ==
    /\ s \in Rows /\ nomination[s].name # name
    /\ nomination' = [nomination EXCEPT ![s].name = name]
    /\ renamed' = renamed \cup {s}
    /\ UNCHANGED <<eventVars, activeAwards, submission, heard, review, form, decisions>>

ToggleAward(a) ==
    /\ activeAwards' = IF a \in activeAwards THEN activeAwards \ {a} ELSE activeAwards \cup {a}
    /\ UNCHANGED <<eventVars, nomination, renamed, submission, heard, review, form, decisions>>

SubmissionStep(s) ==
    ReadAward(s) \/ Validate(s) \/ CommitNomination(s) \/ SubmissionCrash(s)

ReviewStep(m) ==
    \/ ReviewLock(m)
    \/ \E status \in {"approved", "rejected"} : ReviewCommit(m, status)
    \/ ReviewCrash(m)

FormStep(f) == (\E s \in Submissions : FormLoad(f, s)) \/ FormSave(f)

Next ==
    \/ EventsNext /\ UNCHANGED nominationVars
    \/ \E s \in Submissions : SubmissionStep(s)
    \/ \E m \in Reviews : ReviewStep(m)
    \/ \E f \in Forms : FormStep(f)
    \/ Staff # {} /\ \E a \in Awards : ToggleAward(a)
    \/ Staff # {} /\ \E s \in Submissions, name \in Names : Rename(s, name)

\* A review that holds the row lock ends; the others wait for it in Postgres' queue.
Fairness ==
    \A m \in Reviews :
        /\ WF_vars(ReviewLock(m))
        /\ WF_vars(\E status \in {"approved", "rejected"} : ReviewCommit(m, status))

Spec == Init /\ [][Next]_vars /\ Fairness

----------------------------------------------------------------------------
(* Properties. *)

DecisionsOn(s) == {d \in decisions : d.about = s}

FormSaved(s) == \E f \in Forms : form[f].phase = "saved" /\ form[f].about = s

\* Exactly one review decides a nomination, however many moderators race, and the row
\* shows what the audit log says was decided, unless the change form has written it.
ReviewedExactlyOnce ==
    \A s \in Rows : ~FormSaved(s) =>
        /\ \A d, e \in DecisionsOn(s) : d = e
        /\ nomination[s].status = "pending" <=> DecisionsOn(s) = {}
        /\ \A d \in DecisionsOn(s) : nomination[s].status = d.status

\* What the change form brings back is never a decision nobody took: a nomination is public
\* (approved), or rejected, only where the log has that very decision on it, however many
\* forms and reviews were saved over each other.
StatusWasReviewed ==
    \A s \in Rows : nomination[s].status # "pending" =>
        \E d \in DecisionsOn(s) : d.status = nomination[s].status

\* Two standing nominations of one name in one award are always the outcome of a race,
\* neither row being there when the other's submission looked, or an admin made them: a
\* change form revived one of them, or a nominee's form gave one the other's name.
DuplicatesOnlyFromRaces ==
    \A s, t \in Rows :
        /\ s # t /\ ~FormSaved(s) /\ ~FormSaved(t) /\ {s, t} \cap renamed = {}
        /\ {s, t} \subseteq Standing(nomination[s].award, nomination[s].name)
        => s \notin submission[t].known /\ t \notin submission[s].known

MayEnter == {s \in Submissions :
               \/ submission[s].phase = "valid"
               \/ /\ submission[s].phase = "read"
                  /\ heard[s].status = "nominations_open"}

\* Closing nominations takes effect on the next submission: outside nominations_open only
\* those that had read the open event can still enter, and none joins them.
SubmissionsDrain ==
    [][event.status # "nominations_open" =>
          MayEnter' \subseteq MayEnter /\ Rows' \ Rows \subseteq MayEnter]_vars

\* The status of a nomination only ever changes by a review, which audits.  (Refuted, see
\* the run nomination_form_race: the form saves the status it loaded.)
StatusOnlyByReview ==
    [][\A s \in Rows : nomination'[s].status # nomination[s].status
                         => decisions' # decisions]_vars
=============================================================================
