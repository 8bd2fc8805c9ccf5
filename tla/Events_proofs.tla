---------------------------- MODULE Events_proofs ----------------------------
(***************************************************************************)
(* Theorems about Events, for every clock bound, every number of admins and *)
(* editors, and every set of attributes a PATCH may carry.                  *)
(***************************************************************************)
EXTENDS Events, TLAPS

\* Every copy in a worker's memory was a consistent row whose status the log knows, and the
\* locked one is current.
EventsInv ==
    /\ EventsTypeOK
    /\ PublicationConsistent
    /\ LockedRowIsCurrent
    /\ \A e \in Editors : edit[e] # NoJob => Consistent(edit[e].row)
    /\ StatusWasDecided
    /\ \A e \in Editors : edit[e] # NoJob => edit[e].row.status \in trail

\* Setting the attributes of a PATCH on a row gives a row again, with the same status
\* and publication time.
LEMMA WithAttrsType ==
    ASSUME NEW row \in EventRow, NEW a \in Attrs
    PROVE  /\ WithAttrs(row, a) \in EventRow
           /\ WithAttrs(row, a).status = row.status
           /\ WithAttrs(row, a).results_published_at = row.results_published_at
<1> DEFINE new == WithAttrs(row, a)
<1>1. DOMAIN row = {"status", "nominations_open_at", "nominations_close_at",
                    "voting_opens_at", "voting_closes_at", "results_published_at"}
  BY DEF EventRow
<1>2. DOMAIN a \subseteq WindowFields /\ \A f \in DOMAIN a : a[f] \in OptTime
  BY AttrsAssumption
<1>3. new = [f \in DOMAIN row |-> IF f \in DOMAIN a THEN a[f] ELSE row[f]]
  BY DEF WithAttrs
<1>4. /\ new.status = row.status
      /\ new.results_published_at = row.results_published_at
  BY <1>1, <1>2, <1>3 DEF WindowFields
<1>5. \A f \in WindowFields : new[f] \in OptTime
  <2> SUFFICES ASSUME NEW f \in WindowFields PROVE new[f] \in OptTime
    OBVIOUS
  <2>1. row[f] \in OptTime
    BY DEF WindowFields, EventRow
  <2> QED
    BY <1>1, <1>2, <1>3, <2>1 DEF WindowFields
<1>6. row.status \in EventStatus /\ row.results_published_at \in OptTime
  BY DEF EventRow
<1>7. new = [status |-> new.status,
             nominations_open_at |-> new.nominations_open_at,
             nominations_close_at |-> new.nominations_close_at,
             voting_opens_at |-> new.voting_opens_at,
             voting_closes_at |-> new.voting_closes_at,
             results_published_at |-> new.results_published_at]
  BY <1>1, <1>3
<1>8. new \in EventRow
  BY <1>4, <1>5, <1>6, <1>7 DEF EventRow, WindowFields
<1> QED
  BY <1>4, <1>8

LEMMA EventsInitInv == EventsInit => EventsInv
<1> SUFFICES ASSUME EventsInit PROVE EventsInv
  OBVIOUS
<1>1. event \in EventRow /\ Consistent(event)
  BY InitialEventsAssumption DEF EventsInit
<1>2. event.status \in EventStatus
  BY <1>1 DEF EventRow
<1>3. EventsTypeOK
  BY <1>1, <1>2, TimeAssumption DEF EventsInit, EventsTypeOK, Time
<1>4. LockedRowIsCurrent
  BY DEF EventsInit, LockedRowIsCurrent
<1>5. \A e \in Editors : edit[e] # NoJob => Consistent(edit[e].row)
  BY DEF EventsInit
<1> QED
  BY <1>1, <1>3, <1>4, <1>5 DEF EventsInv, PublicationConsistent, EventsInit, StatusWasDecided

LEMMA LockPreservesInv ==
    ASSUME EventsInv, NEW s \in Setters, NEW new \in EventStatus, SetStatusLock(s, new)
    PROVE  EventsInv'
<1>1. EventsTypeOK'
  BY DEF EventsInv, EventsTypeOK, SetStatusLock, SetterJob, logVars
<1>2. LockedRowIsCurrent'
  BY LockAssumption DEF EventsInv, EventsTypeOK, LockedRowIsCurrent, SetStatusLock, NoJob
<1> QED
  BY <1>1, <1>2 DEF EventsInv, PublicationConsistent, SetStatusLock, StatusWasDecided, logVars

LEMMA CommitPreservesInv ==
    ASSUME EventsInv, NEW s \in Setters, SetStatusCommit(s)
    PROVE  EventsInv' /\ event'.status \in STATUS_TRANSITIONS[event.status]
<1> USE DEF EventsInv
<1>1. setter[s] \in SetterJob /\ setter[s].row = event /\ lock = s
  BY DEF EventsTypeOK, SetStatusCommit, NoJob, LockedRowIsCurrent
<1> DEFINE new == setter[s].new
           at == PublishedAt(event, new)
<1>2. new \in EventStatus
  BY <1>1 DEF SetterJob
<1>3. event' = [event EXCEPT !.status = new, !.results_published_at = at]
      /\ audited' = new /\ trail' = trail \cup {new}
  BY <1>1 DEF SetStatusCommit
<1>4. at \in OptTime
  BY DEF PublishedAt, OptTime, EventsTypeOK, EventRow
<1>5. event \in EventRow
  BY DEF EventsTypeOK
<1>6. event' \in EventRow /\ event'.status = new /\ event'.results_published_at = at
  BY <1>2, <1>3, <1>4, <1>5 DEF EventRow
<1>7. /\ event'.nominations_open_at = event.nominations_open_at
      /\ event'.nominations_close_at = event.nominations_close_at
      /\ event'.voting_opens_at = event.voting_opens_at
      /\ event'.voting_closes_at = event.voting_closes_at
  BY <1>3, <1>5 DEF EventRow
<1>8. EventsTypeOK'
  BY <1>2, <1>3, <1>6 DEF EventsTypeOK, SetStatusCommit, Release
<1>9. PublicationConsistent'
  <2>1. WindowsOrdered(event')
    BY <1>7 DEF PublicationConsistent, Consistent, WindowsOrdered, BothSet
  <2>2. clock # NoTime
    BY TimeAssumption DEF EventsTypeOK, Time
  <2>3. (new = "results_published") <=> (at # NoTime)
    BY <2>2 DEF PublishedAt, PublicationConsistent, Consistent
  <2> QED
    BY <1>6, <2>1, <2>3 DEF PublicationConsistent, Consistent
<1>10. LockedRowIsCurrent'
  BY <1>1 DEF SetStatusCommit, Release, LockedRowIsCurrent, EventsTypeOK
<1>11. \A e \in Editors :
          edit'[e] # NoJob => Consistent(edit'[e].row) /\ edit'[e].row.status \in trail'
  BY <1>3 DEF SetStatusCommit
<1>12. new \in STATUS_TRANSITIONS[event.status]
  BY <1>1 DEF SetStatusCommit, TransitionAllowed
<1>13. StatusWasDecided'
  BY <1>3, <1>6 DEF StatusWasDecided
<1> QED
  BY <1>6, <1>8, <1>9, <1>10, <1>11, <1>12, <1>13

LEMMA RollbackPreservesInv ==
    ASSUME EventsInv, NEW s \in Setters, SetStatusRollback(s)
    PROVE  EventsInv'
<1>1. lock = s
  BY DEF EventsInv, EventsTypeOK, SetStatusRollback, NoJob, LockedRowIsCurrent
<1>2. EventsTypeOK'
  BY DEF EventsInv, EventsTypeOK, SetStatusRollback, Release, logVars
<1>3. LockedRowIsCurrent'
  BY <1>1 DEF EventsInv, EventsTypeOK, LockedRowIsCurrent, SetStatusRollback, Release
<1> QED
  BY <1>2, <1>3 DEF EventsInv, PublicationConsistent, SetStatusRollback, StatusWasDecided, logVars

LEMMA EditPreservesInv ==
    ASSUME EventsInv, NEW e \in Editors,
           EditLoad(e) \/ (\E a \in Attrs : EditSave(e, a)) \/ EditAbandon(e)
    PROVE  EventsInv'
<1>1. CASE EditLoad(e)
  <2>1. EventsTypeOK'
    BY <1>1 DEF EventsInv, EventsTypeOK, EditLoad, EditorJob, logVars
  <2>2. \A x \in Editors :
           edit'[x] # NoJob => Consistent(edit'[x].row) /\ edit'[x].row.status \in trail'
    BY <1>1 DEF EventsInv, EventsTypeOK, EditLoad, PublicationConsistent, StatusWasDecided, logVars
  <2> QED
    BY <1>1, <2>1, <2>2 DEF EventsInv, PublicationConsistent, LockedRowIsCurrent, EditLoad,
      StatusWasDecided, logVars
<1>2. ASSUME NEW a \in Attrs, EditSave(e, a) PROVE EventsInv'
  <2>1. edit[e] \in EditorJob /\ Consistent(edit[e].row) /\ edit[e].row.status \in trail
    BY <1>2 DEF EventsInv, EventsTypeOK, EditSave, NoJob
  <2>2. edit[e].row \in EventRow
    BY <2>1 DEF EditorJob
  <2>3. /\ event' = WithAttrs(edit[e].row, a)
        /\ event' \in EventRow
        /\ event'.status = edit[e].row.status
        /\ event'.results_published_at = edit[e].row.results_published_at
    BY <1>2, <2>2, WithAttrsType DEF EditSave
  <2>4. EventsTypeOK'
    BY <1>2, <2>3 DEF EventsInv, EventsTypeOK, EditSave, logVars
  <2>5. PublicationConsistent'
    BY <1>2, <2>1, <2>3 DEF EditSave, PublicationConsistent, Consistent
  <2>6. LockedRowIsCurrent'
    BY <1>2, LockAssumption DEF EventsInv, LockedRowIsCurrent, EditSave
  <2>7. \A x \in Editors :
           edit'[x] # NoJob => Consistent(edit'[x].row) /\ edit'[x].row.status \in trail'
    BY <1>2 DEF EventsInv, EventsTypeOK, EditSave, logVars
  <2>8. StatusWasDecided'
    BY <1>2, <2>1, <2>3 DEF StatusWasDecided, EditSave, logVars
  <2> QED
    BY <2>4, <2>5, <2>6, <2>7, <2>8 DEF EventsInv
<1>3. CASE EditAbandon(e)
  <2>1. EventsTypeOK'
    BY <1>3 DEF EventsInv, EventsTypeOK, EditAbandon, logVars
  <2>2. \A x \in Editors :
           edit'[x] # NoJob => Consistent(edit'[x].row) /\ edit'[x].row.status \in trail'
    BY <1>3 DEF EventsInv, EventsTypeOK, EditAbandon, logVars
  <2> QED
    BY <1>3, <2>1, <2>2 DEF EventsInv, PublicationConsistent, LockedRowIsCurrent, EditAbandon,
      StatusWasDecided, logVars
<1> QED
  BY <1>1, <1>2, <1>3

LEMMA TickPreservesInv == ASSUME EventsInv, Tick PROVE EventsInv'
<1>1. EventsTypeOK'
  BY TimeAssumption DEF EventsInv, EventsTypeOK, Tick, Time, logVars
<1> QED
  BY <1>1 DEF EventsInv, PublicationConsistent, LockedRowIsCurrent, Tick, StatusWasDecided, logVars

\* One step of the event, whoever takes it.
LEMMA EventsNextInv == EventsInv /\ [EventsNext]_eventVars => EventsInv'
<1> SUFFICES ASSUME EventsInv, [EventsNext]_eventVars PROVE EventsInv'
  OBVIOUS
<1>1. ASSUME NEW s \in Setters, NEW new \in EventStatus, SetStatusLock(s, new) PROVE EventsInv'
  BY <1>1, LockPreservesInv
<1>2. ASSUME NEW s \in Setters, SetStatusCommit(s) PROVE EventsInv'
  BY <1>2, CommitPreservesInv
<1>3. ASSUME NEW s \in Setters, SetStatusRollback(s) PROVE EventsInv'
  BY <1>3, RollbackPreservesInv
<1>4. ASSUME NEW e \in Editors,
             EditLoad(e) \/ (\E a \in Attrs : EditSave(e, a)) \/ EditAbandon(e)
      PROVE  EventsInv'
  BY <1>4, EditPreservesInv
<1>5. CASE Tick
  BY <1>5, TickPreservesInv
<1>6. CASE UNCHANGED eventVars
  BY <1>6 DEF eventVars, logVars, EventsInv, EventsTypeOK, PublicationConsistent,
    LockedRowIsCurrent, StatusWasDecided
<1> QED
  BY <1>1, <1>2, <1>3, <1>4, <1>5, <1>6 DEF EventsNext

\* Whatever editors and admins interleave, the row satisfies its constraints and is
\* dated exactly while its results are published.
THEOREM EventIsConsistent == EventsSpec => [](EventsTypeOK /\ PublicationConsistent)
<1>1. EventsInv => EventsTypeOK /\ PublicationConsistent
  BY DEF EventsInv
<1> QED
  BY <1>1, EventsInitInv, EventsNextInv, PTL DEF EventsSpec

\* Every row and every copy of a row stays a row: no PATCH attribute, save or transition
\* of any length of history produces anything else.
THEOREM EventsTypeCorrect == EventsSpec => []EventsTypeOK
<1>1. EventsInv => EventsTypeOK
  BY DEF EventsInv
<1> QED
  BY <1>1, EventsInitInv, EventsNextInv, PTL DEF EventsSpec

\* A validated row cannot change underneath the transaction that validated it.
THEOREM LockedRowStaysCurrent == EventsSpec => []LockedRowIsCurrent
<1>1. EventsInv => LockedRowIsCurrent
  BY DEF EventsInv
<1> QED
  BY <1>1, EventsInitInv, EventsNextInv, PTL DEF EventsSpec

----------------------------------------------------------------------------
(* What change_status does to the status. *)

LEMMA StatusStep ==
    ASSUME EventsInv, [EventsNext]_eventVars
    PROVE  event'.status # event.status /\ UNCHANGED edit
              => event'.status \in STATUS_TRANSITIONS[event.status]
<1>1. ASSUME NEW s \in Setters, SetStatusCommit(s)
      PROVE  event'.status \in STATUS_TRANSITIONS[event.status]
  BY <1>1, CommitPreservesInv
<1>2. ASSUME NEW s \in Setters,
             (\E new \in EventStatus : SetStatusLock(s, new)) \/ SetStatusRollback(s)
      PROVE  UNCHANGED event
  BY <1>2 DEF SetStatusLock, SetStatusRollback
<1>3. ASSUME NEW e \in Editors, EditLoad(e) \/ EditAbandon(e)
      PROVE  UNCHANGED event
  BY <1>3 DEF EditLoad, EditAbandon
<1>4. ASSUME NEW e \in Editors, NEW a \in Attrs, EditSave(e, a)
      PROVE  edit' # edit
  BY <1>4 DEF EditSave, EventsInv, EventsTypeOK, EditorJob, NoJob
<1>5. CASE Tick \/ UNCHANGED eventVars
  BY <1>5 DEF Tick, eventVars
<1> QED
  BY <1>1, <1>2, <1>3, <1>4, <1>5 DEF EventsNext

\* However many admins race, and whatever editors load and save meanwhile, a status
\* that moves by change_status moves along the table of transitions.
THEOREM StatusIsGoverned == EventsSpec => StatusFollowsTransitions
<1>1. EventsInv /\ [EventsNext]_eventVars
        => [event'.status # event.status /\ UNCHANGED edit
              => event'.status \in STATUS_TRANSITIONS[event.status]]_eventVars
  BY StatusStep
<1> QED
  BY <1>1, EventsInitInv, EventsNextInv, PTL DEF EventsSpec, StatusFollowsTransitions

\* Whatever stale copies editors save over whatever admins decide, the event is only ever in
\* a status it started with or that an audit entry names.
THEOREM StatusesWereDecided == EventsSpec => []StatusWasDecided
<1>1. EventsInv => StatusWasDecided
  BY DEF EventsInv
<1> QED
  BY <1>1, EventsInitInv, EventsNextInv, PTL DEF EventsSpec
=============================================================================
