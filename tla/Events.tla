------------------------------- MODULE Events -------------------------------
(***************************************************************************)
(* The life cycle of one awards event: the row events.Event, the service   *)
(* change_status (a transaction that locks the row), the PATCH endpoint     *)
(* EventViewSet.partial_update (an unlocked read followed, later, by a save *)
(* of EVERY column of the copy it read) and the clock the windows are       *)
(* compared with.  Voting and Nominations extend this module: what they may *)
(* do depends on the row it owns.                                           *)
(*                                                                         *)
(* Postgres runs READ COMMITTED and each statement outside an atomic block  *)
(* commits on its own, so a copy in a worker's memory can be stale by the   *)
(* time it is used; the copies are part of the state.                       *)
(***************************************************************************)
EXTENDS Integers

CONSTANTS
    Setters,    \* workers serving POST /events/{slug}/set-status/ (or the admin action)
    Editors,    \* workers serving PATCH /events/{slug}/ (or the admin form)
    InitialEvents, \* the rows a behaviour may start from: new drafts, or later stages
    Attrs,      \* the window columns a PATCH may carry: partial functions on WindowFields
    MaxTime,    \* bound: the clock stops here
    NoTime,     \* SQL NULL in a timestamp column
    Free        \* nobody holds the row lock

ASSUME TimeAssumption == MaxTime \in Nat /\ NoTime \notin Int
ASSUME LockAssumption == Free \notin Setters

Time == 0 .. MaxTime
OptTime == Time \cup {NoTime}

EventStatus ==
    {"draft", "nominations_open", "voting_open", "closed", "results_published"}

WindowFields == {"nominations_open_at", "nominations_close_at",
                 "voting_opens_at", "voting_closes_at"}

ASSUME AttrsAssumption ==
    \A a \in Attrs : DOMAIN a \subseteq WindowFields /\ \A f \in DOMAIN a : a[f] \in OptTime

EventRow == [status : EventStatus,
             nominations_open_at : OptTime, nominations_close_at : OptTime,
             voting_opens_at : OptTime, voting_closes_at : OptTime,
             results_published_at : OptTime]

\* The transitions change_status accepts.
STATUS_TRANSITIONS ==
    [draft             |-> {"nominations_open"},
     nominations_open  |-> {"voting_open", "draft"},
     voting_open       |-> {"closed"},
     closed            |-> {"results_published", "voting_open"},
     results_published |-> {"closed"}]

----------------------------------------------------------------------------
(* Predicates on a row (or on a worker's copy of it). *)

BothSet(a, b) == a # NoTime /\ b # NoTime

\* Opens inclusive, closes exclusive; an unset bound means "not open".
Within(opens, closes, at) == BothSet(opens, closes) /\ opens <= at /\ at < closes

\* Mutant: the window alone.
NominationsAreOpenByWindow(row, at) ==
    Within(row.nominations_open_at, row.nominations_close_at, at)

NominationsAreOpen(row, at) ==
    /\ row.status = "nominations_open"
    /\ Within(row.nominations_open_at, row.nominations_close_at, at)

\* Mutant: the window alone.
VotingIsOpenByWindow(row, at) == Within(row.voting_opens_at, row.voting_closes_at, at)

VotingIsOpen(row, at) ==
    /\ row.status = "voting_open"
    /\ Within(row.voting_opens_at, row.voting_closes_at, at)

\* EventSerializer.validate, and the same three CHECK constraints of the table.
WindowsOrdered(row) ==
    /\ BothSet(row.nominations_open_at, row.nominations_close_at)
          => row.nominations_open_at < row.nominations_close_at
    /\ BothSet(row.voting_opens_at, row.voting_closes_at)
          => row.voting_opens_at < row.voting_closes_at
    /\ BothSet(row.nominations_close_at, row.voting_opens_at)
          => row.nominations_close_at <= row.voting_opens_at

\* The CHECK constraint event_published_has_timestamp.
PublishedHasTimestamp(row) ==
    row.status = "results_published" => row.results_published_at # NoTime

\* The row a copy becomes when the validated attributes of a PATCH are set on it.
WithAttrs(row, a) == [f \in DOMAIN row |-> IF f \in DOMAIN a THEN a[f] ELSE row[f]]

\* The status and timestamps POST /events/ starts from; WithAttrs adds what was sent.
NewEvent == [status |-> "draft",
             nominations_open_at |-> NoTime, nominations_close_at |-> NoTime,
             voting_opens_at |-> NoTime, voting_closes_at |-> NoTime,
             results_published_at |-> NoTime]

\* What change_status and the table's constraints make of a row between requests.
Consistent(row) ==
    /\ WindowsOrdered(row)
    /\ (row.status = "results_published") <=> (row.results_published_at # NoTime)

ASSUME InitialEventsAssumption ==
    InitialEvents \subseteq EventRow /\ \A row \in InitialEvents : Consistent(row)

----------------------------------------------------------------------------
VARIABLES
    event,    \* the committed row
    clock,    \* timezone.now()
    lock,     \* the Setter whose transaction holds the row lock, or Free
    setter,   \* per Setter: the requested status and the row read under the lock
    edit,     \* per Editor: the copy read by get_object, until it is saved
    audited,  \* the status named by the newest EVENT_STATUS_CHANGED entry
    trail     \* the statuses named by any of them, and the one the row started with

logVars == <<audited, trail>>
eventVars == <<event, clock, lock, setter, edit, logVars>>

NoJob == [phase |-> "idle"]
SetterJob == [phase : {"locked"}, new : EventStatus, row : EventRow]
EditorJob == [phase : {"loaded"}, row : EventRow]

EventsTypeOK ==
    /\ event \in EventRow
    /\ clock \in Time
    /\ lock \in Setters \cup {Free}
    /\ setter \in [Setters -> SetterJob \cup {NoJob}]
    /\ edit \in [Editors -> EditorJob \cup {NoJob}]
    /\ audited \in EventStatus
    /\ trail \subseteq EventStatus

EventsInit ==
    /\ event \in InitialEvents
    /\ clock = 0
    /\ lock = Free
    /\ setter = [s \in Setters |-> NoJob]
    /\ edit = [e \in Editors |-> NoJob]
    /\ audited = event.status
    /\ trail = {event.status}

----------------------------------------------------------------------------
(* change_status: one transaction, from SELECT ... FOR UPDATE to COMMIT. *)

\* Mutant: a plain SELECT.
SetStatusLockUnlocked(s, new) ==
    /\ setter[s] = NoJob
    /\ lock' = s
    /\ setter' = [setter EXCEPT ![s] = [phase |-> "locked", new |-> new, row |-> event]]
    /\ UNCHANGED <<event, clock, edit, logVars>>

SetStatusLock(s, new) ==
    /\ setter[s] = NoJob
    /\ lock = Free
    /\ lock' = s
    /\ setter' = [setter EXCEPT ![s] = [phase |-> "locked", new |-> new, row |-> event]]
    /\ UNCHANGED <<event, clock, edit, logVars>>

TransitionAllowed(row, new) == new \in STATUS_TRANSITIONS[row.status]

\* WindowRequired is raised when the phase about to open has no window.
WindowPresent(row, new) ==
    /\ new = "nominations_open" => BothSet(row.nominations_open_at, row.nominations_close_at)
    /\ new = "voting_open" => BothSet(row.voting_opens_at, row.voting_closes_at)

\* Mutant: the time is not cleared on the way out.
PublishedAtKept(row, new) ==
    IF new = "results_published" THEN clock ELSE row.results_published_at

PublishedAt(row, new) ==
    IF new = "results_published" THEN clock
    ELSE IF row.status = "results_published" THEN NoTime
    ELSE row.results_published_at

\* Mutant: the transaction is left open.
ReleaseForgotten(s) ==
    /\ setter' = [setter EXCEPT ![s] = NoJob]
    /\ UNCHANGED lock

Release(s) ==
    /\ setter' = [setter EXCEPT ![s] = NoJob]
    /\ lock' = Free

\* The save writes two columns and the audit entry is in the same transaction.
SetStatusCommit(s) ==
    /\ setter[s].phase = "locked"
    /\ LET row == setter[s].row
           new == setter[s].new
       IN  /\ TransitionAllowed(row, new)
           /\ WindowPresent(row, new)
           /\ event' = [event EXCEPT !.status = new,
                                     !.results_published_at = PublishedAt(row, new)]
           /\ audited' = new
           /\ trail' = trail \cup {new}
    /\ Release(s)
    /\ UNCHANGED <<clock, edit>>

\* Mutant: without the transaction, a worker that dies has saved but not audited.
SetStatusRollbackNothing(s) ==
    /\ setter[s].phase = "locked"
    /\ TransitionAllowed(setter[s].row, setter[s].new)
    /\ event' = [event EXCEPT !.status = setter[s].new]
    /\ Release(s)
    /\ UNCHANGED <<clock, edit, logVars>>

\* InvalidTransition, WindowRequired, or the worker dying: the transaction rolls back.
SetStatusRollback(s) ==
    /\ setter[s].phase = "locked"
    /\ Release(s)
    /\ UNCHANGED <<event, clock, edit, logVars>>

----------------------------------------------------------------------------
(* PATCH: get_object reads without a lock; perform_update saves all columns. *)

EditLoad(e) ==
    /\ edit[e] = NoJob
    /\ edit' = [edit EXCEPT ![e] = [phase |-> "loaded", row |-> event]]
    /\ UNCHANGED <<event, clock, lock, setter, logVars>>

\* The UPDATE waits for a change_status transaction that holds the row.
EditSave(e, a) ==
    /\ edit[e].phase = "loaded"
    /\ lock = Free
    /\ WindowsOrdered(WithAttrs(edit[e].row, a))
    /\ PublishedHasTimestamp(WithAttrs(edit[e].row, a))
    /\ event' = WithAttrs(edit[e].row, a)
    /\ edit' = [edit EXCEPT ![e] = NoJob]
    /\ UNCHANGED <<clock, lock, setter, logVars>>

\* A validation error, or the worker dying before the save.
EditAbandon(e) ==
    /\ edit[e].phase = "loaded"
    /\ edit' = [edit EXCEPT ![e] = NoJob]
    /\ UNCHANGED <<event, clock, lock, setter, logVars>>

Tick ==
    /\ clock < MaxTime
    /\ clock' = clock + 1
    /\ UNCHANGED <<event, lock, setter, edit, logVars>>

EventsNext ==
    \/ \E s \in Setters :
          \/ \E new \in EventStatus : SetStatusLock(s, new)
          \/ SetStatusCommit(s)
          \/ SetStatusRollback(s)
    \/ \E e \in Editors :
          \/ EditLoad(e)
          \/ \E a \in Attrs : EditSave(e, a)
          \/ EditAbandon(e)
    \/ Tick

\* A transaction that was begun ends: it commits, rolls back, or its worker dies
\* and Postgres rolls it back.
EventsFairness ==
    \A s \in Setters : WF_eventVars(SetStatusCommit(s) \/ SetStatusRollback(s))

EventsSpec == EventsInit /\ [][EventsNext]_eventVars /\ EventsFairness

----------------------------------------------------------------------------
(* Properties. *)

\* The row always satisfies the table's constraints, and it carries a publication
\* time exactly while its results are published: change_status sets it on the way
\* in and clears it on the way out, and a stale full-row save can restore neither
\* half alone.
PublicationConsistent == Consistent(event)

\* The row a change_status transaction validated is still the row when it commits:
\* nothing, a full-row PATCH included, writes underneath a held row lock.
LockedRowIsCurrent ==
    \A s \in Setters : setter[s] # NoJob => lock = s /\ setter[s].row = event

\* The newest audit entry names the status the event is in.  (Refuted by the run
\* events_lost_update: a full-row PATCH saves the status it loaded.)
StatusIsAudited == event.status = audited

\* What a stale PATCH brings back is never a status nobody decided: through every crash,
\* rollback and save of an old copy, the event is in a status it started with or that an
\* audit entry names.
StatusWasDecided == event.status \in trail

\* However many admins race, the status never moves except along STATUS_TRANSITIONS
\* (they re-validate under the row lock), unless the save of a PATCH moves it: a save
\* under way can only restore a status, never make one admin's transition illegal.
StatusFollowsTransitions ==
    [][event'.status # event.status /\ UNCHANGED edit
         => event'.status \in STATUS_TRANSITIONS[event.status]]_eventVars
=============================================================================
