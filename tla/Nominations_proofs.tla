------------------------- MODULE Nominations_proofs -------------------------
(***************************************************************************)
(* Theorems about Nominations, for any number of submissions, reviews and   *)
(* change forms, any awards and names, and any clock bound.                 *)
(***************************************************************************)
EXTENDS Nominations, Events_proofs

\* A row exists from its commit on; it keeps the award that was sent, and the name until a
\* nominee's form changes it.
RowsAsSubmitted ==
    \A s \in Submissions :
        /\ s \in Rows <=> submission[s].phase = "submitted"
        /\ s \in Rows => nomination[s].award = submission[s].award
        /\ s \in Rows \ renamed => nomination[s].name = submission[s].name

\* A review that holds a row lock holds it alone, on a row that is still pending.
LocksExclusive ==
    /\ \A m \in Reviews : review[m].phase = "locked" =>
          /\ review[m].about \in Rows
          /\ nomination[review[m].about].status = "pending"
    /\ \A m, k \in Reviews : /\ review[m].phase = "locked" /\ review[k].phase = "locked"
                             /\ review[m].about = review[k].about
                             => m = k

\* What a form will write back has the award of the row.
FormsHoldRows ==
    \A f \in Forms : form[f] # NoJob =>
        /\ form[f].about \in Rows
        /\ form[f].row.award = nomination[form[f].about].award

DecidedRowsExist == \A d \in decisions : d.about \in Rows

\* Where a submission got past its check, the nominations it saw of its own name and award
\* were rejected, and stay so unless a form writes or renames them.
KnownStayRejected ==
    \A s \in Submissions :
        /\ submission[s].known \subseteq Rows
        /\ submission[s].phase \in {"valid", "submitted"} =>
              \A t \in submission[s].known :
                  /\ nomination[t].award = submission[s].award
                  /\ nomination[t].name = submission[s].name
                  /\ ~FormSaved(t) /\ t \notin renamed
                  => nomination[t].status = "rejected"

NominationsInv ==
    /\ EventsInv
    /\ TypeOK
    /\ RowsAsSubmitted
    /\ LocksExclusive
    /\ FormsHoldRows
    /\ DecidedRowsExist
    /\ KnownStayRejected
    /\ ReviewedExactlyOnce

----------------------------------------------------------------------------
(* The invariant holds initially and after every step. *)

LEMMA NewEventIsRow == NewEvent \in EventRow
  BY DEF NewEvent, EventRow, EventStatus, OptTime

LEMMA NominationsInitInv == Init => NominationsInv
<1> SUFFICES ASSUME Init PROVE NominationsInv
  OBVIOUS
<1>1. EventsInv
  BY EventsInitInv DEF Init
<1>2. Rows = {}
  BY DEF Init, Rows
<1>3. /\ submission \in [Submissions -> SubmissionJob]
      /\ \A s \in Submissions : submission[s].phase = "idle" /\ submission[s].known = {}
  BY DEF Init, SubmissionJob, SubmissionPhase
<1>4. /\ review \in [Reviews -> ReviewJob]
      /\ \A m \in Reviews : review[m].phase = "arrived"
  BY DEF Init, ReviewJob, ReviewPhase
<1>5. TypeOK
  BY <1>1, <1>3, <1>4, NewEventIsRow DEF Init, TypeOK, EventsInv
<1>6. RowsAsSubmitted
  BY <1>2, <1>3 DEF RowsAsSubmitted
<1>7. LocksExclusive
  BY <1>4 DEF LocksExclusive
<1>8. FormsHoldRows /\ DecidedRowsExist
  BY DEF Init, FormsHoldRows, DecidedRowsExist
<1>9. KnownStayRejected
  BY <1>3 DEF KnownStayRejected
<1>10. ReviewedExactlyOnce
  BY <1>2 DEF ReviewedExactlyOnce
<1> QED
  BY <1>1, <1>5, <1>6, <1>7, <1>8, <1>9, <1>10 DEF NominationsInv

\* A submission that does not write a row changes nothing but itself.
LEMMA SubmissionJobStep ==
    ASSUME NominationsInv, NEW s \in Submissions, NEW job \in SubmissionJob,
           job.award = submission[s].award, job.name = submission[s].name,
           job.phase # "submitted", submission[s].phase # "submitted",
           job.known \subseteq Rows,
           job.phase = "valid" =>
              \A t \in job.known : /\ nomination[t].award = job.award
                                   /\ nomination[t].name = job.name
                                   /\ ~FormSaved(t) /\ t \notin renamed
                                   => nomination[t].status = "rejected",
           submission' = [submission EXCEPT ![s] = job],
           heard' \in [Submissions -> EventRow],
           UNCHANGED <<eventVars, activeAwards, nomination, renamed, review, form, decisions>>
    PROVE  NominationsInv'
<1> USE DEF NominationsInv
<1>1. EventsInv'
  BY EventsNextInv
<1>2. submission \in [Submissions -> SubmissionJob]
  BY DEF TypeOK
<1>3. submission'[s] = job /\ \A t \in Submissions \ {s} : submission'[t] = submission[t]
  BY <1>2
<1>4. Rows' = Rows /\ \A t : FormSaved(t)' = FormSaved(t)
  BY DEF Rows, FormSaved
<1>5. TypeOK'
  BY <1>1, <1>2 DEF TypeOK, EventsInv
<1>6. RowsAsSubmitted'
  BY <1>3, <1>4 DEF RowsAsSubmitted
<1>7. LocksExclusive' /\ FormsHoldRows' /\ DecidedRowsExist'
  BY <1>4 DEF LocksExclusive, FormsHoldRows, DecidedRowsExist
<1>8. KnownStayRejected'
  <2> SUFFICES ASSUME NEW t \in Submissions
               PROVE  /\ submission'[t].known \subseteq Rows
                      /\ submission'[t].phase \in {"valid", "submitted"} =>
                            \A u \in submission'[t].known :
                                /\ nomination[u].award = submission'[t].award
                                /\ nomination[u].name = submission'[t].name
                                /\ ~FormSaved(u) /\ u \notin renamed
                                => nomination[u].status = "rejected"
    BY <1>4 DEF KnownStayRejected
  <2>1. CASE t = s
    BY <1>3, <2>1
  <2>2. CASE t # s
    BY <1>3, <2>2 DEF KnownStayRejected
  <2> QED
    BY <2>1, <2>2
<1>9. ReviewedExactlyOnce'
  BY <1>4 DEF ReviewedExactlyOnce, DecisionsOn
<1> QED
  BY <1>1, <1>5, <1>6, <1>7, <1>8, <1>9

LEMMA ReadAwardInv ==
    ASSUME NominationsInv, NEW s \in Submissions, ReadAward(s)
    PROVE  NominationsInv'
<1>1. PICK p \in {"read", "unknown_award"} : submission' = [submission EXCEPT ![s].phase = p]
  BY DEF ReadAward
<1> DEFINE job == [submission[s] EXCEPT !.phase = p]
<1>2. submission[s] \in SubmissionJob /\ submission[s].phase = "idle"
  BY DEF NominationsInv, TypeOK, ReadAward
<1>3. /\ job \in SubmissionJob /\ job.phase = p
      /\ job.award = submission[s].award /\ job.name = submission[s].name
      /\ job.known = submission[s].known
  BY <1>2 DEF SubmissionJob, SubmissionPhase
<1>4. submission' = [submission EXCEPT ![s] = job]
  BY <1>1
<1>5. heard' \in [Submissions -> EventRow]
  BY DEF NominationsInv, TypeOK, EventsTypeOK, ReadAward
<1>6. job.known \subseteq Rows
  BY <1>3 DEF NominationsInv, KnownStayRejected
<1>7. UNCHANGED <<eventVars, activeAwards, nomination, renamed, review, form, decisions>>
  BY DEF ReadAward
<1> HIDE DEF job
<1> QED
  BY <1>2, <1>3, <1>4, <1>5, <1>6, <1>7, SubmissionJobStep

LEMMA SubmissionCrashInv ==
    ASSUME NominationsInv, NEW s \in Submissions, SubmissionCrash(s)
    PROVE  NominationsInv'
<1> DEFINE job == [submission[s] EXCEPT !.phase = "crashed"]
<1>2. submission[s] \in SubmissionJob /\ submission[s].phase # "submitted"
  BY DEF NominationsInv, TypeOK, SubmissionCrash
<1>3. /\ job \in SubmissionJob /\ job.phase = "crashed"
      /\ job.award = submission[s].award /\ job.name = submission[s].name
      /\ job.known = submission[s].known
  BY <1>2 DEF SubmissionJob, SubmissionPhase
<1>4. submission' = [submission EXCEPT ![s] = job]
  BY DEF SubmissionCrash
<1>5. heard' \in [Submissions -> EventRow]
  BY NewEventIsRow DEF NominationsInv, TypeOK, SubmissionCrash
<1>6. job.known \subseteq Rows
  BY <1>3 DEF NominationsInv, KnownStayRejected
<1>7. UNCHANGED <<eventVars, activeAwards, nomination, renamed, review, form, decisions>>
  BY DEF SubmissionCrash
<1> HIDE DEF job
<1> QED
  BY <1>2, <1>3, <1>4, <1>5, <1>6, <1>7, SubmissionJobStep

\* A submission that finds no standing nomination has seen only rejected ones.
LEMMA ValidateInv ==
    ASSUME NominationsInv, NEW s \in Submissions, Validate(s)
    PROVE  NominationsInv'
<1>1. PICK p \in {"closed", "duplicate", "valid"} :
        /\ submission' = [submission EXCEPT ![s].phase = p, ![s].known = Rows]
        /\ p = "valid" => ~IsDuplicate(s)
  BY DEF Validate
<1> DEFINE job == [submission[s] EXCEPT !.phase = p, !.known = Rows]
<1>2. /\ submission \in [Submissions -> SubmissionJob]
      /\ submission[s] \in SubmissionJob /\ submission[s].phase = "read"
  BY DEF NominationsInv, TypeOK, Validate
<1>3. /\ job \in SubmissionJob /\ job.phase = p /\ job.known = Rows
      /\ job.award = submission[s].award /\ job.name = submission[s].name
  BY <1>2 DEF SubmissionJob, SubmissionPhase, Rows
<1>4. submission' = [submission EXCEPT ![s] = job]
  BY <1>1, <1>2
<1>5. heard' \in [Submissions -> EventRow]
  BY NewEventIsRow DEF NominationsInv, TypeOK, Validate
<1>6. ASSUME job.phase = "valid", NEW t \in Rows,
             nomination[t].award = job.award, nomination[t].name = job.name
      PROVE  nomination[t].status = "rejected"
  <2>1. nomination[t].status \in NominationStatus
    BY DEF NominationsInv, TypeOK, Rows, NominationRow
  <2>2. t \notin Standing(submission[s].award, submission[s].name)
    BY <1>1, <1>3, <1>6 DEF IsDuplicate
  <2> QED
    BY <1>3, <1>6, <2>1, <2>2 DEF Standing, NominationStatus
<1>7. UNCHANGED <<eventVars, activeAwards, nomination, renamed, review, form, decisions>>
  BY DEF Validate
<1> HIDE DEF job
<1> QED
  BY <1>2, <1>3, <1>4, <1>5, <1>6, <1>7, SubmissionJobStep

\* A new row is pending, nobody has decided it, no review holds it and no form has it.
LEMMA CommitNominationInv ==
    ASSUME NominationsInv, NEW s \in Submissions, CommitNomination(s)
    PROVE  NominationsInv' /\ Rows' = Rows \cup {s}
<1> USE DEF NominationsInv
<1>1. EventsInv'
  BY EventsNextInv DEF CommitNomination
<1>2. /\ submission \in [Submissions -> SubmissionJob]
      /\ submission[s] \in SubmissionJob /\ submission[s].phase = "valid"
      /\ nomination \in [Submissions -> NominationRow \cup {NoNomination}]
  BY DEF TypeOK, CommitNomination
<1>3. s \notin Rows
  BY <1>2 DEF RowsAsSubmitted
<1>4. /\ NewNomination(s) \in NominationRow
      /\ NewNomination(s).award = submission[s].award
      /\ NewNomination(s).name = submission[s].name
      /\ NewNomination(s).status = "pending"
  BY <1>2 DEF NewNomination, NominationRow, NominationStatus, SubmissionJob
<1>5. /\ nomination'[s] = NewNomination(s)
      /\ \A t \in Submissions \ {s} : nomination'[t] = nomination[t]
  BY <1>2 DEF CommitNomination
<1>6. Rows' = Rows \cup {s}
  BY <1>4, <1>5, NominationAssumption DEF Rows
<1>7. /\ submission'[s] \in SubmissionJob /\ submission'[s].phase = "submitted"
      /\ submission'[s].award = submission[s].award /\ submission'[s].name = submission[s].name
      /\ submission'[s].known = submission[s].known
      /\ \A t \in Submissions \ {s} : submission'[t] = submission[t]
  BY <1>2 DEF CommitNomination, SubmissionJob, SubmissionPhase
<1>8. UNCHANGED <<heard, review, form, decisions, activeAwards, renamed>>
  BY DEF CommitNomination
<1>9. TypeOK'
  <2>1. nomination' \in [Submissions -> NominationRow \cup {NoNomination}]
    BY <1>2, <1>4 DEF CommitNomination
  <2>2. submission' \in [Submissions -> SubmissionJob]
    BY <1>2, <1>7 DEF CommitNomination
  <2> QED
    BY <1>1, <1>8, <2>1, <2>2 DEF TypeOK, EventsInv
<1>10. RowsAsSubmitted'
  <2> SUFFICES ASSUME NEW t \in Submissions
               PROVE  /\ t \in Rows' <=> submission'[t].phase = "submitted"
                      /\ t \in Rows' => nomination'[t].award = submission'[t].award
                      /\ t \in Rows' \ renamed => nomination'[t].name = submission'[t].name
    BY <1>8 DEF RowsAsSubmitted
  <2>1. CASE t = s
    BY <1>4, <1>5, <1>6, <1>7, <2>1
  <2>2. CASE t # s
    BY <1>5, <1>6, <1>7, <2>2 DEF RowsAsSubmitted
  <2> QED
    BY <2>1, <2>2
<1>11. \A t \in Rows : nomination'[t] = nomination[t]
  BY <1>3, <1>5 DEF Rows
<1>12. LocksExclusive'
  BY <1>6, <1>8, <1>11 DEF LocksExclusive
<1>13. FormsHoldRows'
  BY <1>6, <1>8, <1>11 DEF FormsHoldRows
<1>14. DecidedRowsExist'
  BY <1>6, <1>8 DEF DecidedRowsExist
<1>15. \A t : FormSaved(t)' = FormSaved(t)
  BY <1>8 DEF FormSaved
<1>16. KnownStayRejected'
  <2> SUFFICES ASSUME NEW t \in Submissions
               PROVE  /\ submission'[t].known \subseteq Rows'
                      /\ submission'[t].phase \in {"valid", "submitted"} =>
                            \A u \in submission'[t].known :
                                /\ nomination'[u].award = submission'[t].award
                                /\ nomination'[u].name = submission'[t].name
                                /\ ~FormSaved(u) /\ u \notin renamed
                                => nomination'[u].status = "rejected"
    BY <1>8, <1>15 DEF KnownStayRejected
  <2>1. /\ submission'[t].known = submission[t].known
        /\ submission'[t].award = submission[t].award /\ submission'[t].name = submission[t].name
        /\ submission'[t].phase \in {"valid", "submitted"}
             => submission[t].phase \in {"valid", "submitted"}
    BY <1>2, <1>7
  <2>2. submission[t].known \subseteq Rows
    BY DEF KnownStayRejected
  <2> QED
    BY <1>6, <1>11, <2>1, <2>2 DEF KnownStayRejected
<1>17. ReviewedExactlyOnce'
  <2>1. DecisionsOn(s)' = {}
    BY <1>3, <1>8 DEF DecisionsOn, DecidedRowsExist
  <2>2. \A t \in Rows : DecisionsOn(t)' = DecisionsOn(t)
    BY <1>8 DEF DecisionsOn
  <2> QED
    BY <1>4, <1>5, <1>6, <1>11, <1>15, <2>1, <2>2 DEF ReviewedExactlyOnce
<1> QED
  BY <1>1, <1>6, <1>9, <1>10, <1>12, <1>13, <1>14, <1>16, <1>17

----------------------------------------------------------------------------
(* Reviews. *)

\* A review that decides nothing: it takes the free lock of a pending row, or lets go.
LEMMA ReviewPhaseStep ==
    ASSUME NominationsInv, NEW m \in Reviews, NEW p \in ReviewPhase,
           p = "locked" => /\ review[m].about \in Rows
                           /\ nomination[review[m].about].status = "pending"
                           /\ ~RowLocked(review[m].about),
           review' = [review EXCEPT ![m].phase = p],
           UNCHANGED <<eventVars, activeAwards, nomination, renamed, submission, heard, form, decisions>>
    PROVE  NominationsInv'
<1> USE DEF NominationsInv
<1>1. EventsInv'
  BY EventsNextInv
<1>2. review \in [Reviews -> ReviewJob]
  BY DEF TypeOK
<1>3. /\ review'[m] \in ReviewJob /\ review'[m].phase = p /\ review'[m].about = review[m].about
      /\ \A k \in Reviews \ {m} : review'[k] = review[k]
  BY <1>2 DEF ReviewJob
<1>4. review' \in [Reviews -> ReviewJob]
  BY <1>2, <1>3
<1>5. Rows' = Rows /\ \A t : FormSaved(t)' = FormSaved(t) /\ DecisionsOn(t)' = DecisionsOn(t)
  BY DEF Rows, FormSaved, DecisionsOn
<1>6. TypeOK'
  BY <1>1, <1>4 DEF TypeOK, EventsInv
<1>7. RowsAsSubmitted' /\ FormsHoldRows' /\ DecidedRowsExist'
  BY <1>5 DEF RowsAsSubmitted, FormsHoldRows, DecidedRowsExist
<1>8. LocksExclusive'
  <2>1. \A k \in Reviews : review'[k].phase = "locked" =>
          /\ review'[k].about \in Rows
          /\ nomination[review'[k].about].status = "pending"
    BY <1>3 DEF LocksExclusive
  <2>2. ASSUME NEW k \in Reviews, NEW l \in Reviews,
               review'[k].phase = "locked", review'[l].phase = "locked",
               review'[k].about = review'[l].about
        PROVE  k = l
    <3>1. CASE k # m /\ l # m
      BY <1>3, <2>2, <3>1 DEF LocksExclusive
    <3>2. CASE k = m /\ l # m
      BY <1>3, <2>2, <3>2 DEF RowLocked
    <3>3. CASE k # m /\ l = m
      BY <1>3, <2>2, <3>3 DEF RowLocked
    <3> QED
      BY <3>1, <3>2, <3>3
  <2> QED
    BY <1>5, <2>1, <2>2 DEF LocksExclusive
<1>9. KnownStayRejected' /\ ReviewedExactlyOnce'
  BY <1>5 DEF KnownStayRejected, ReviewedExactlyOnce
<1> QED
  BY <1>1, <1>6, <1>7, <1>8, <1>9

LEMMA ReviewLockInv ==
    ASSUME NominationsInv, NEW m \in Reviews, ReviewLock(m)
    PROVE  NominationsInv'
<1>1. PICK p \in {"locked", "already_reviewed"} :
        /\ review' = [review EXCEPT ![m].phase = p]
        /\ p = "locked" => nomination[review[m].about].status = "pending"
  BY DEF ReviewLock
<1>2. review[m].about \in Rows /\ ~RowLocked(review[m].about)
  BY DEF ReviewLock
<1>3. UNCHANGED <<eventVars, activeAwards, nomination, renamed, submission, heard, form, decisions>>
  BY DEF ReviewLock
<1>4. p \in ReviewPhase
  BY DEF ReviewPhase
<1> QED
  BY <1>1, <1>2, <1>3, <1>4, ReviewPhaseStep

LEMMA ReviewCrashInv ==
    ASSUME NominationsInv, NEW m \in Reviews, ReviewCrash(m)
    PROVE  NominationsInv'
<1>1. "crashed" \in ReviewPhase /\ review' = [review EXCEPT ![m].phase = "crashed"]
  BY DEF ReviewCrash, ReviewPhase
<1>2. UNCHANGED <<eventVars, activeAwards, nomination, renamed, submission, heard, form, decisions>>
  BY DEF ReviewCrash
<1> QED
  BY <1>1, <1>2, ReviewPhaseStep

\* The one review that holds the pending row decides it; nobody had, and nobody will.
LEMMA ReviewCommitInv ==
    ASSUME NominationsInv, NEW m \in Reviews, NEW status \in {"approved", "rejected"},
           ReviewCommit(m, status)
    PROVE  NominationsInv' /\ Rows' = Rows
<1> USE DEF NominationsInv
<1>0. PICK s \in Submissions : s = review[m].about
  BY DEF TypeOK, ReviewJob
<1> DEFINE d0 == [by |-> m, about |-> s, status |-> status]
<1>1. EventsInv'
  BY EventsNextInv DEF ReviewCommit
<1>2. /\ review \in [Reviews -> ReviewJob]
      /\ nomination \in [Submissions -> NominationRow \cup {NoNomination}]
      /\ review[m].phase = "locked"
  BY DEF TypeOK, ReviewCommit
<1>3. s \in Rows /\ nomination[s].status = "pending" /\ nomination[s] \in NominationRow
  BY <1>0, <1>2 DEF LocksExclusive, Rows
<1>4. /\ nomination'[s] \in NominationRow /\ nomination'[s].status = status
      /\ nomination'[s].award = nomination[s].award /\ nomination'[s].name = nomination[s].name
      /\ \A t \in Submissions \ {s} : nomination'[t] = nomination[t]
  BY <1>0, <1>2, <1>3 DEF ReviewCommit, NominationRow, NominationStatus
<1>5. nomination' \in [Submissions -> NominationRow \cup {NoNomination}]
  BY <1>0, <1>2, <1>4 DEF ReviewCommit
<1>6. Rows' = Rows
  BY <1>3, <1>4, NominationAssumption DEF Rows
<1>7. /\ review'[m] \in ReviewJob /\ review'[m].phase = "done"
      /\ \A k \in Reviews \ {m} : review'[k] = review[k]
      /\ review' \in [Reviews -> ReviewJob]
  BY <1>2 DEF ReviewCommit, ReviewJob, ReviewPhase
<1>8. decisions' = decisions \cup {d0} /\ UNCHANGED <<activeAwards, renamed, submission, heard, form>>
  BY <1>0 DEF ReviewCommit
<1>9. d0 \in Decision /\ d0.about = s /\ d0.status = status
  BY <1>2 DEF Decision
<1>10. \A t : FormSaved(t)' = FormSaved(t)
  BY <1>8 DEF FormSaved
<1>11. /\ DecisionsOn(s)' = DecisionsOn(s) \cup {d0}
       /\ \A t \in Submissions \ {s} : DecisionsOn(t)' = DecisionsOn(t)
  <2>1. \A t : DecisionsOn(t)' = {d \in decisions \cup {d0} : d.about = t}
    BY <1>8 DEF DecisionsOn
  <2> QED
    BY <1>9, <2>1 DEF DecisionsOn
<1> HIDE DEF d0
<1>12. TypeOK'
  BY <1>1, <1>5, <1>7, <1>8, <1>9 DEF TypeOK, EventsInv
<1>13. RowsAsSubmitted'
  BY <1>4, <1>6, <1>8 DEF RowsAsSubmitted
<1>14. \A k \in Reviews \ {m} : review[k].phase = "locked" => review[k].about # s
  BY <1>0, <1>2 DEF LocksExclusive
<1>15. LocksExclusive'
  <2>1. ASSUME NEW k \in Reviews, review'[k].phase = "locked"
        PROVE  /\ k # m /\ review'[k] = review[k] /\ review[k].about \in Rows
               /\ nomination'[review[k].about] = nomination[review[k].about]
    BY <1>4, <1>7, <1>14, <2>1 DEF LocksExclusive, Rows
  <2> QED
    BY <1>6, <2>1 DEF LocksExclusive
<1>16. FormsHoldRows'
  BY <1>4, <1>6, <1>8 DEF FormsHoldRows, Rows
<1>17. DecidedRowsExist'
  BY <1>3, <1>6, <1>8, <1>9 DEF DecidedRowsExist
<1>18. KnownStayRejected'
  <2> SUFFICES ASSUME NEW t \in Submissions
               PROVE  /\ submission[t].known \subseteq Rows
                      /\ submission[t].phase \in {"valid", "submitted"} =>
                            \A u \in submission[t].known :
                                /\ nomination'[u].award = submission[t].award
                                /\ nomination'[u].name = submission[t].name
                                /\ ~FormSaved(u) /\ u \notin renamed
                                => nomination'[u].status = "rejected"
    BY <1>6, <1>8, <1>10 DEF KnownStayRejected
  <2>1. submission[t].known \subseteq Rows /\ Rows \subseteq Submissions
    BY DEF KnownStayRejected, Rows
  <2> QED
    BY <1>3, <1>4, <2>1 DEF KnownStayRejected
<1>19. ReviewedExactlyOnce'
  <2> SUFFICES ASSUME NEW t \in Rows, ~FormSaved(t)
               PROVE  /\ \A d, e \in DecisionsOn(t)' : d = e
                      /\ nomination'[t].status = "pending" <=> DecisionsOn(t)' = {}
                      /\ \A d \in DecisionsOn(t)' : nomination'[t].status = d.status
    BY <1>6, <1>10 DEF ReviewedExactlyOnce
  <2>1. CASE t = s
    <3>1. DecisionsOn(s)' = {d0}
      BY <1>3, <1>11, <2>1 DEF ReviewedExactlyOnce
    <3>2. nomination'[t].status = status /\ status # "pending"
      BY <1>4, <2>1
    <3> QED
      BY <1>9, <2>1, <3>1, <3>2
  <2>2. CASE t # s
    BY <1>4, <1>11, <2>2 DEF ReviewedExactlyOnce, Rows
  <2> QED
    BY <2>1, <2>2
<1> QED
  BY <1>1, <1>6, <1>12, <1>13, <1>15, <1>16, <1>17, <1>18, <1>19

----------------------------------------------------------------------------
(* The change form. *)

LEMMA FormLoadInv ==
    ASSUME NominationsInv, NEW f \in Forms, NEW s \in Submissions, FormLoad(f, s)
    PROVE  NominationsInv'
<1> USE DEF NominationsInv
<1> DEFINE job == [phase |-> "loaded", about |-> s, row |-> nomination[s]]
<1>1. EventsInv'
  BY EventsNextInv DEF FormLoad
<1>2. form \in [Forms -> FormJob \cup {NoJob}] /\ form[f] = NoJob /\ s \in Rows
  BY DEF TypeOK, FormLoad
<1>3. job \in FormJob
  BY <1>2 DEF TypeOK, FormJob, Rows
<1>4. form' = [form EXCEPT ![f] = job]
  BY DEF FormLoad
<1>5. Rows' = Rows /\ UNCHANGED <<activeAwards, nomination, renamed, submission, heard, review, decisions>>
  BY DEF FormLoad, Rows
<1>6. \A t : FormSaved(t)' = FormSaved(t) /\ DecisionsOn(t)' = DecisionsOn(t)
  <2>1. \A g \in Forms : (form'[g].phase = "saved") = (form[g].phase = "saved")
    BY <1>2, <1>4 DEF NoJob
  <2>2. \A g \in Forms : form'[g].phase = "saved" => form'[g] = form[g]
    BY <1>2, <1>4
  <2> QED
    BY <1>5, <2>1, <2>2 DEF FormSaved, DecisionsOn
<1>7. TypeOK'
  BY <1>1, <1>2, <1>3, <1>4, <1>5 DEF TypeOK, EventsInv
<1>8. FormsHoldRows'
  BY <1>2, <1>4, <1>5 DEF FormsHoldRows
<1>9. RowsAsSubmitted' /\ LocksExclusive' /\ DecidedRowsExist'
  BY <1>5 DEF RowsAsSubmitted, LocksExclusive, DecidedRowsExist
<1>10. KnownStayRejected' /\ ReviewedExactlyOnce'
  BY <1>5, <1>6 DEF KnownStayRejected, ReviewedExactlyOnce
<1> QED
  BY <1>1, <1>7, <1>8, <1>9, <1>10

\* A form writes an old status over one row, which counts as saved from then on.
LEMMA FormSaveInv ==
    ASSUME NominationsInv, NEW f \in Forms, FormSave(f)
    PROVE  NominationsInv' /\ Rows' = Rows
<1> USE DEF NominationsInv
<1>1. EventsInv'
  BY EventsNextInv DEF FormSave
<1>2. /\ form \in [Forms -> FormJob \cup {NoJob}]
      /\ nomination \in [Submissions -> NominationRow \cup {NoNomination}]
      /\ form[f] \in FormJob /\ form[f] # NoJob
  BY DEF TypeOK, FormSave, NoJob
<1>3. PICK s \in Submissions : s = form[f].about
  BY <1>2 DEF FormJob
<1>4. /\ s \in Rows /\ ~RowLocked(s)
      /\ form[f].row \in NominationRow
      /\ nomination[s] \in NominationRow /\ form[f].row.award = nomination[s].award
  BY <1>2, <1>3 DEF FormsHoldRows, FormSave, FormJob, Rows
<1>5. /\ nomination'[s] \in NominationRow
      /\ nomination'[s].award = nomination[s].award /\ nomination'[s].name = nomination[s].name
      /\ nomination'[s].status = form[f].row.status
      /\ \A t \in Submissions \ {s} : nomination'[t] = nomination[t]
  BY <1>2, <1>3, <1>4 DEF FormSave, NominationRow
<1>6. Rows' = Rows
  BY <1>4, <1>5, NominationAssumption DEF Rows
<1>7. \A t \in Submissions : /\ nomination'[t].award = nomination[t].award
                             /\ nomination'[t].name = nomination[t].name
  BY <1>4, <1>5
<1>8. /\ form'[f] \in FormJob /\ form'[f].phase = "saved"
      /\ form'[f].about = s /\ form'[f].row = form[f].row
      /\ \A g \in Forms \ {f} : form'[g] = form[g]
  BY <1>2, <1>3 DEF FormSave, FormJob
<1>9. UNCHANGED <<activeAwards, renamed, submission, heard, review, decisions>>
  BY DEF FormSave
<1>10. FormSaved(s)' /\ \A t : FormSaved(t) => FormSaved(t)'
  BY <1>3, <1>8 DEF FormSaved
<1>11. TypeOK'
  <2>1. nomination' \in [Submissions -> NominationRow \cup {NoNomination}]
    BY <1>2, <1>4, <1>5 DEF FormSave
  <2>2. form' \in [Forms -> FormJob \cup {NoJob}]
    BY <1>2, <1>8 DEF FormSave
  <2> QED
    BY <1>1, <1>9, <2>1, <2>2 DEF TypeOK, EventsInv
<1>12. RowsAsSubmitted'
  BY <1>6, <1>7, <1>9 DEF RowsAsSubmitted
<1>13. LocksExclusive'
  <2>1. \A m \in Reviews : review[m].phase = "locked" => review[m].about # s
    BY <1>4 DEF RowLocked
  <2> QED
    BY <1>5, <1>6, <1>9, <2>1 DEF LocksExclusive, Rows
<1>14. FormsHoldRows'
  <2> SUFFICES ASSUME NEW g \in Forms, form'[g] # NoJob
               PROVE  /\ form'[g].about \in Rows
                      /\ form'[g].row.award = nomination[form'[g].about].award
    BY <1>6, <1>7 DEF FormsHoldRows, Rows
  <2>1. CASE g = f
    BY <1>4, <1>8, <2>1
  <2>2. CASE g # f
    BY <1>8, <2>2 DEF FormsHoldRows
  <2> QED
    BY <2>1, <2>2
<1>15. DecidedRowsExist'
  BY <1>6, <1>9 DEF DecidedRowsExist
<1>16. \A t \in Submissions : ~FormSaved(t)' => t # s /\ ~FormSaved(t)
  BY <1>10
<1>17. KnownStayRejected'
  <2> SUFFICES ASSUME NEW t \in Submissions
               PROVE  /\ submission[t].known \subseteq Rows
                      /\ submission[t].phase \in {"valid", "submitted"} =>
                            \A u \in submission[t].known :
                                /\ nomination'[u].award = submission[t].award
                                /\ nomination'[u].name = submission[t].name
                                /\ ~FormSaved(u)' /\ u \notin renamed
                                => nomination'[u].status = "rejected"
    BY <1>6, <1>9 DEF KnownStayRejected
  <2>1. submission[t].known \subseteq Rows /\ Rows \subseteq Submissions
    BY DEF KnownStayRejected, Rows
  <2> QED
    BY <1>5, <1>16, <2>1 DEF KnownStayRejected
<1>18. ReviewedExactlyOnce'
  <2> SUFFICES ASSUME NEW t \in Rows, ~FormSaved(t)'
               PROVE  /\ \A d, e \in DecisionsOn(t) : d = e
                      /\ nomination'[t].status = "pending" <=> DecisionsOn(t) = {}
                      /\ \A d \in DecisionsOn(t) : nomination'[t].status = d.status
    BY <1>6, <1>9 DEF ReviewedExactlyOnce, DecisionsOn
  <2>1. t # s /\ ~FormSaved(t) /\ nomination'[t] = nomination[t]
    BY <1>5, <1>16 DEF Rows
  <2> QED
    BY <2>1 DEF ReviewedExactlyOnce
<1> QED
  BY <1>1, <1>6, <1>11, <1>12, <1>13, <1>14, <1>15, <1>17, <1>18

----------------------------------------------------------------------------

\* Steps of the event, and of the awards' switches, leave the nominations alone.
LEMMA BystanderInv ==
    ASSUME NominationsInv, [EventsNext]_eventVars, activeAwards' \subseteq Awards,
           UNCHANGED <<nomination, renamed, submission, heard, review, form, decisions>>
    PROVE  NominationsInv'
<1> USE DEF NominationsInv
<1>1. EventsInv'
  BY EventsNextInv
<1>2. /\ Rows' = Rows
      /\ \A t : FormSaved(t)' = FormSaved(t) /\ DecisionsOn(t)' = DecisionsOn(t)
  BY DEF Rows, FormSaved, DecisionsOn
<1>3. TypeOK'
  BY <1>1 DEF TypeOK, EventsInv
<1>4. RowsAsSubmitted' /\ LocksExclusive' /\ FormsHoldRows' /\ DecidedRowsExist'
  BY <1>2 DEF RowsAsSubmitted, LocksExclusive, FormsHoldRows, DecidedRowsExist
<1>5. KnownStayRejected' /\ ReviewedExactlyOnce'
  BY <1>2 DEF KnownStayRejected, ReviewedExactlyOnce
<1> QED
  BY <1>1, <1>3, <1>4, <1>5

\* A new name counts as changed from then on; award, status and everything else stay.
LEMMA RenameInv ==
    ASSUME NominationsInv, NEW s \in Submissions, NEW name \in Names, Rename(s, name)
    PROVE  /\ NominationsInv' /\ Rows' = Rows
           /\ \A t \in Rows : nomination'[t].status = nomination[t].status
<1> USE DEF NominationsInv
<1>1. EventsInv'
  BY EventsNextInv DEF Rename
<1>2. /\ nomination \in [Submissions -> NominationRow \cup {NoNomination}]
      /\ s \in Rows /\ nomination[s] \in NominationRow
  BY DEF TypeOK, Rename, Rows
<1>3. /\ nomination'[s] \in NominationRow
      /\ nomination'[s].award = nomination[s].award
      /\ nomination'[s].status = nomination[s].status
      /\ \A t \in Submissions \ {s} : nomination'[t] = nomination[t]
      /\ nomination' \in [Submissions -> NominationRow \cup {NoNomination}]
  BY <1>2 DEF Rename, NominationRow
<1>4. Rows' = Rows
  BY <1>2, <1>3, NominationAssumption DEF Rows
<1>5. /\ renamed' = renamed \cup {s}
      /\ UNCHANGED <<activeAwards, submission, heard, review, form, decisions>>
      /\ \A t : FormSaved(t)' = FormSaved(t) /\ DecisionsOn(t)' = DecisionsOn(t)
  BY DEF Rename, FormSaved, DecisionsOn
<1>6. \A t \in Rows : /\ nomination'[t].award = nomination[t].award
                      /\ nomination'[t].status = nomination[t].status
                      /\ t # s => nomination'[t] = nomination[t]
  BY <1>3 DEF Rows
<1>7. TypeOK'
  BY <1>1, <1>3, <1>5 DEF TypeOK, EventsInv
<1>8. RowsAsSubmitted'
  <2> SUFFICES ASSUME NEW t \in Submissions
               PROVE  /\ t \in Rows <=> submission[t].phase = "submitted"
                      /\ t \in Rows => nomination'[t].award = submission[t].award
                      /\ t \in Rows \ renamed' => nomination'[t].name = submission[t].name
    BY <1>4, <1>5 DEF RowsAsSubmitted
  <2>1. t \notin renamed' => t # s /\ t \notin renamed
    BY <1>5
  <2> QED
    BY <1>6, <2>1 DEF RowsAsSubmitted
<1>9. LocksExclusive' /\ FormsHoldRows' /\ DecidedRowsExist'
  BY <1>4, <1>5, <1>6 DEF LocksExclusive, FormsHoldRows, DecidedRowsExist
<1>10. KnownStayRejected'
  <2> SUFFICES ASSUME NEW t \in Submissions
               PROVE  /\ submission[t].known \subseteq Rows
                      /\ submission[t].phase \in {"valid", "submitted"} =>
                            \A u \in submission[t].known :
                                /\ nomination'[u].award = submission[t].award
                                /\ nomination'[u].name = submission[t].name
                                /\ ~FormSaved(u) /\ u \notin renamed'
                                => nomination'[u].status = "rejected"
    BY <1>4, <1>5 DEF KnownStayRejected
  <2>1. submission[t].known \subseteq Rows
    BY DEF KnownStayRejected
  <2>2. \A u : u \notin renamed' => u # s /\ u \notin renamed
    BY <1>5
  <2> QED
    BY <1>6, <2>1, <2>2 DEF KnownStayRejected
<1>11. ReviewedExactlyOnce'
  BY <1>4, <1>5, <1>6 DEF ReviewedExactlyOnce
<1> QED
  BY <1>1, <1>4, <1>6, <1>7, <1>8, <1>9, <1>10, <1>11

LEMMA NominationsNextInv == NominationsInv /\ [Next]_vars => NominationsInv'
<1> SUFFICES ASSUME NominationsInv, [Next]_vars PROVE NominationsInv'
  OBVIOUS
<1>1. ASSUME NEW s \in Submissions, SubmissionStep(s) PROVE NominationsInv'
  BY <1>1, ReadAwardInv, ValidateInv, CommitNominationInv, SubmissionCrashInv
     DEF SubmissionStep
<1>2. ASSUME NEW m \in Reviews, ReviewStep(m) PROVE NominationsInv'
  BY <1>2, ReviewLockInv, ReviewCommitInv, ReviewCrashInv DEF ReviewStep
<1>3. ASSUME NEW f \in Forms, FormStep(f) PROVE NominationsInv'
  BY <1>3, FormLoadInv, FormSaveInv DEF FormStep
<1>4. ASSUME NEW a \in Awards, ToggleAward(a) PROVE NominationsInv'
  <2>1. activeAwards' \subseteq Awards
    BY <1>4 DEF NominationsInv, TypeOK, ToggleAward
  <2> QED
    BY <1>4, <2>1, BystanderInv DEF ToggleAward
<1>7. ASSUME NEW s \in Submissions, NEW name \in Names, Rename(s, name)
      PROVE  NominationsInv'
  BY <1>7, RenameInv
<1>5. CASE EventsNext /\ UNCHANGED nominationVars
  BY <1>5, BystanderInv DEF nominationVars, NominationsInv, TypeOK
<1>6. CASE UNCHANGED vars
  BY <1>6, BystanderInv DEF vars, nominationVars, NominationsInv, TypeOK
<1> QED
  BY <1>1, <1>2, <1>3, <1>4, <1>5, <1>6, <1>7 DEF Next

----------------------------------------------------------------------------
(* Theorems. *)

\* Rows, requests, forms and audit entries stay what they should be.
THEOREM NominationsTypeCorrect == Spec => []TypeOK
<1>1. NominationsInv => TypeOK
  BY DEF NominationsInv
<1> QED
  BY <1>1, NominationsInitInv, NominationsNextInv, PTL DEF Spec

\* However many moderators race for a nomination, one decides it, and the row says what
\* the audit log says until the change form is saved over it.
THEOREM OneDecision == Spec => []ReviewedExactlyOnce
<1>1. NominationsInv => ReviewedExactlyOnce
  BY DEF NominationsInv
<1> QED
  BY <1>1, NominationsInitInv, NominationsNextInv, PTL DEF Spec

\* Two standing nominations of one name: neither submission could have seen the other.
THEOREM DuplicatesAreRaces == Spec => []DuplicatesOnlyFromRaces
<1>1. NominationsInv => DuplicatesOnlyFromRaces
  <2> SUFFICES ASSUME NominationsInv, NEW s \in Rows, NEW t \in Rows, s # t,
                      ~FormSaved(s), ~FormSaved(t), {s, t} \cap renamed = {},
                      {s, t} \subseteq Standing(nomination[s].award, nomination[s].name)
               PROVE  s \notin submission[t].known /\ t \notin submission[s].known
    BY DEF DuplicatesOnlyFromRaces
  <2>1. /\ nomination[t].award = nomination[s].award /\ nomination[t].name = nomination[s].name
        /\ nomination[s].status # "rejected" /\ nomination[t].status # "rejected"
    BY DEF Standing
  <2>2. \A u \in Rows : /\ u \in Submissions /\ submission[u].phase = "submitted"
                        /\ nomination[u].award = submission[u].award
                        /\ u \notin renamed => nomination[u].name = submission[u].name
    BY DEF NominationsInv, RowsAsSubmitted, Rows
  <2> QED
    BY <2>1, <2>2 DEF NominationsInv, KnownStayRejected
<1> QED
  BY <1>1, NominationsInitInv, NominationsNextInv, PTL DEF Spec

LEMMA EntryStep ==
    ASSUME NominationsInv, [Next]_vars, event.status # "nominations_open"
    PROVE  MayEnter' \subseteq MayEnter /\ Rows' \ Rows \subseteq MayEnter
<1> DEFINE Drains == MayEnter' \subseteq MayEnter /\ Rows' \ Rows \subseteq MayEnter
<1>1. submission \in [Submissions -> SubmissionJob] /\ heard \in [Submissions -> EventRow]
  BY DEF NominationsInv, TypeOK
<1>2. ASSUME NEW s \in Submissions, ReadAward(s) PROVE Drains
  BY <1>1, <1>2 DEF ReadAward, MayEnter, Rows, SubmissionJob
<1>3. ASSUME NEW s \in Submissions, Validate(s) PROVE Drains
  BY <1>1, <1>3 DEF Validate, MayEnter, Rows, SubmissionJob, NominationsAreOpen
<1>4. ASSUME NEW s \in Submissions, CommitNomination(s) PROVE Drains
  <2>1. Rows' = Rows \cup {s} /\ s \in MayEnter
    BY <1>4, CommitNominationInv DEF CommitNomination, MayEnter
  <2> QED
    BY <1>1, <1>4, <2>1 DEF CommitNomination, MayEnter, SubmissionJob
<1>5. ASSUME NEW s \in Submissions, SubmissionCrash(s) PROVE Drains
  BY <1>1, <1>5 DEF SubmissionCrash, MayEnter, Rows, SubmissionJob
<1>6. ASSUME UNCHANGED <<submission, heard>>, Rows' = Rows PROVE Drains
  BY <1>6 DEF MayEnter
<1>7. ASSUME NEW m \in Reviews, ReviewStep(m) PROVE Drains
  <2>1. UNCHANGED <<submission, heard>>
    BY <1>7 DEF ReviewStep, ReviewLock, ReviewCommit, ReviewCrash
  <2>2. Rows' = Rows
    BY <1>7, ReviewCommitInv DEF ReviewStep, ReviewLock, ReviewCrash, Rows
  <2> QED
    BY <1>6, <2>1, <2>2
<1>8. ASSUME NEW f \in Forms, FormStep(f) PROVE Drains
  <2>1. UNCHANGED <<submission, heard>>
    BY <1>8 DEF FormStep, FormLoad, FormSave
  <2>2. Rows' = Rows
    BY <1>8, FormSaveInv DEF FormStep, FormLoad, Rows
  <2> QED
    BY <1>6, <2>1, <2>2
<1>9. ASSUME NEW a \in Awards, ToggleAward(a) PROVE Drains
  BY <1>6, <1>9 DEF ToggleAward, Rows
<1>10. CASE UNCHANGED nominationVars
  BY <1>6, <1>10 DEF nominationVars, Rows
<1>11. ASSUME NEW s \in Submissions, NEW name \in Names, Rename(s, name) PROVE Drains
  BY <1>6, <1>11, RenameInv DEF Rename
<1> QED
  BY <1>2, <1>3, <1>4, <1>5, <1>7, <1>8, <1>9, <1>10, <1>11 DEF Next, vars, SubmissionStep

\* Outside nominations_open nothing enters but what had read the open event before.
THEOREM NominationsDrain == Spec => SubmissionsDrain
<1>1. NominationsInv /\ [Next]_vars =>
        [event.status # "nominations_open" =>
            MayEnter' \subseteq MayEnter /\ Rows' \ Rows \subseteq MayEnter]_vars
  BY EntryStep
<1> QED
  BY <1>1, NominationsInitInv, NominationsNextInv, PTL DEF Spec, SubmissionsDrain

----------------------------------------------------------------------------
(* The change form takes decisions back, and invents none. *)

\* The status in a form's copy is one that the log has a decision for, too.
CopiesWereReviewed ==
    \A f \in Forms : form[f] # NoJob /\ form[f].row.status # "pending" =>
        \E d \in DecisionsOn(form[f].about) : d.status = form[f].row.status

\* A step that takes no decision away and moves neither a status nor a copy of one.
LEMMA QuietStep ==
    ASSUME StatusWasReviewed, CopiesWereReviewed, decisions \subseteq decisions',
           \A s \in Rows' : nomination'[s].status # "pending" =>
              s \in Rows /\ nomination'[s].status = nomination[s].status,
           UNCHANGED form
    PROVE  StatusWasReviewed' /\ CopiesWereReviewed'
<1>1. \A s : DecisionsOn(s) \subseteq DecisionsOn(s)'
  BY DEF DecisionsOn
<1>2. StatusWasReviewed'
  BY <1>1 DEF StatusWasReviewed
<1>3. CopiesWereReviewed'
  BY <1>1 DEF CopiesWereReviewed
<1> QED
  BY <1>2, <1>3

LEMMA DecisionStep ==
    ASSUME NominationsInv, StatusWasReviewed, CopiesWereReviewed, [Next]_vars
    PROVE  StatusWasReviewed' /\ CopiesWereReviewed'
<1> DEFINE Kept == StatusWasReviewed' /\ CopiesWereReviewed'
<1>0. /\ nomination \in [Submissions -> NominationRow \cup {NoNomination}]
      /\ form \in [Forms -> FormJob \cup {NoJob}]
      /\ review \in [Reviews -> ReviewJob]
  BY DEF NominationsInv, TypeOK
<1>1. ASSUME UNCHANGED <<nomination, form, decisions>> PROVE Kept
  BY <1>1, QuietStep DEF Rows
<1>2. ASSUME NEW s \in Submissions, SubmissionStep(s) PROVE Kept
  <2>1. CASE CommitNomination(s)
    <3>1. \A t \in Rows' : nomination'[t].status # "pending" =>
             t \in Rows /\ nomination'[t].status = nomination[t].status
      BY <1>0, <2>1 DEF CommitNomination, NewNomination, Rows
    <3> QED
      BY <2>1, <3>1, QuietStep DEF CommitNomination
  <2>2. CASE ReadAward(s) \/ Validate(s) \/ SubmissionCrash(s)
    BY <1>1, <2>2 DEF ReadAward, Validate, SubmissionCrash
  <2> QED
    BY <1>2, <2>1, <2>2 DEF SubmissionStep
<1>3. ASSUME NEW m \in Reviews, ReviewStep(m) PROVE Kept
  <2>1. CASE ReviewLock(m) \/ ReviewCrash(m)
    BY <1>1, <2>1 DEF ReviewLock, ReviewCrash
  <2>2. ASSUME NEW status \in {"approved", "rejected"}, ReviewCommit(m, status) PROVE Kept
    <3>7. PICK s \in Submissions : s = review[m].about
      BY <1>0 DEF ReviewJob
    <3> DEFINE d0 == [by |-> m, about |-> s, status |-> status]
    <3>1. /\ Rows' = Rows /\ decisions \subseteq decisions' /\ d0 \in decisions'
          /\ nomination[s] \in NominationRow /\ UNCHANGED form
      BY <1>0, <2>2, <3>7, ReviewCommitInv
         DEF ReviewCommit, NominationsInv, LocksExclusive, Rows
    <3>2. /\ nomination'[s].status = status
          /\ \A t \in Submissions \ {s} : nomination'[t] = nomination[t]
      BY <1>0, <2>2, <3>1, <3>7 DEF ReviewCommit, NominationRow
    <3>3. \A t : DecisionsOn(t) \subseteq DecisionsOn(t)'
      BY <3>1 DEF DecisionsOn
    <3>0. d0.about = s /\ d0.status = status
      OBVIOUS
    <3> HIDE DEF d0
    <3>4. d0 \in DecisionsOn(s)'
      <4>1. DecisionsOn(s)' = {d \in decisions' : d.about = s}
        BY <2>2 DEF DecisionsOn, ReviewCommit
      <4> QED
        BY <3>0, <3>1, <4>1
    <3>5. StatusWasReviewed'
      <4> SUFFICES ASSUME NEW t \in Rows, nomination'[t].status # "pending"
                   PROVE  \E d \in DecisionsOn(t)' : d.status = nomination'[t].status
        BY <3>1 DEF StatusWasReviewed
      <4>1. CASE t = s
        BY <3>0, <3>2, <3>4, <4>1
      <4>2. CASE t # s
        <5>1. nomination'[t] = nomination[t]
          BY <3>2, <4>2 DEF Rows
        <5> QED
          BY <3>3, <5>1 DEF StatusWasReviewed
      <4> QED
        BY <4>1, <4>2
    <3>6. CopiesWereReviewed'
      BY <3>1, <3>3 DEF CopiesWereReviewed
    <3> QED
      BY <3>5, <3>6
  <2> QED
    BY <1>3, <2>1, <2>2 DEF ReviewStep
<1>4. ASSUME NEW f \in Forms, NEW s \in Submissions, FormLoad(f, s) PROVE Kept
  <2>1. /\ form'[f].about = s /\ form'[f].row = nomination[s] /\ s \in Rows
        /\ \A g \in Forms \ {f} : form'[g] = form[g]
        /\ Rows' = Rows /\ UNCHANGED <<nomination, decisions>>
    BY <1>0, <1>4 DEF FormLoad, Rows
  <2>2. \A t : DecisionsOn(t)' = DecisionsOn(t)
    BY <2>1 DEF DecisionsOn
  <2> QED
    BY <2>1, <2>2 DEF StatusWasReviewed, CopiesWereReviewed
<1>5. ASSUME NEW f \in Forms, FormSave(f) PROVE Kept
  <2> DEFINE s == form[f].about
  <2>1. /\ form[f] # NoJob /\ s \in Submissions /\ Rows' = Rows /\ s \in Rows
        /\ form[f] \in FormJob /\ nomination[s] \in NominationRow
    <3>1. form[f] # NoJob /\ form[f] \in FormJob
      BY <1>0, <1>5 DEF FormSave, NoJob
    <3>2. Rows' = Rows
      BY <1>5, FormSaveInv
    <3>3. s \in Rows
      BY <3>1 DEF NominationsInv, FormsHoldRows
    <3> QED
      BY <1>0, <3>1, <3>2, <3>3 DEF Rows
  <2>2. /\ nomination'[s].status = form[f].row.status
        /\ \A t \in Submissions \ {s} : nomination'[t] = nomination[t]
        /\ UNCHANGED decisions
    BY <1>0, <1>5, <2>1 DEF FormSave, NominationRow
  <2>3. /\ form'[f].about = s /\ form'[f].row = form[f].row
        /\ \A g \in Forms \ {f} : form'[g] = form[g]
    BY <1>0, <1>5, <2>1 DEF FormSave, FormJob
  <2>4. \A t : DecisionsOn(t)' = DecisionsOn(t)
    BY <2>2 DEF DecisionsOn
  <2>5. StatusWasReviewed'
    BY <2>1, <2>2, <2>4 DEF StatusWasReviewed, CopiesWereReviewed, Rows
  <2>6. CopiesWereReviewed'
    <3> SUFFICES ASSUME NEW g \in Forms, form'[g] # NoJob, form'[g].row.status # "pending"
                 PROVE  \E d \in DecisionsOn(form'[g].about) : d.status = form'[g].row.status
      BY <2>4 DEF CopiesWereReviewed
    <3> QED
      BY <2>1, <2>3 DEF CopiesWereReviewed
  <2> QED
    BY <2>5, <2>6
<1>6. ASSUME NEW s \in Submissions, NEW name \in Names, Rename(s, name) PROVE Kept
  <2>1. /\ Rows' = Rows /\ UNCHANGED <<form, decisions>>
        /\ \A t \in Rows : nomination'[t].status = nomination[t].status
    BY <1>6, RenameInv DEF Rename
  <2> QED
    BY <2>1, QuietStep
<1>7. ASSUME NEW a \in Awards, ToggleAward(a) PROVE Kept
  BY <1>1, <1>7 DEF ToggleAward
<1>8. CASE UNCHANGED nominationVars
  BY <1>1, <1>8 DEF nominationVars
<1> QED
  BY <1>2, <1>3, <1>4, <1>5, <1>6, <1>7, <1>8 DEF Next, vars, FormStep

\* Whatever the forms save over whatever the moderators decide, a nomination is approved, or
\* rejected, only where an audit entry has that very decision on it.
THEOREM StatusesWereReviewed == Spec => []StatusWasReviewed
<1>1. Init => StatusWasReviewed /\ CopiesWereReviewed
  BY DEF Init, StatusWasReviewed, CopiesWereReviewed, Rows
<1>2. NominationsInv /\ (StatusWasReviewed /\ CopiesWereReviewed) /\ [Next]_vars
        => (StatusWasReviewed /\ CopiesWereReviewed)'
  BY DecisionStep
<1> QED
  BY <1>1, <1>2, NominationsInitInv, NominationsNextInv, PTL DEF Spec
=============================================================================
