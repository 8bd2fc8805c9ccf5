---------------------------- MODULE ResultsReader ----------------------------
(***************************************************************************)
(* GET /events/<slug>/results/: event_results puts its payload together     *)
(* from one SELECT after another (totals, nominations, categories, then the *)
(* awards of each category), each on a state of its own, while votes are    *)
(* cast and the catalogue is edited as in Results.                          *)
(***************************************************************************)
EXTENDS Results

CONSTANTS
    Requested,     \* the events whose results are asked for
    Nobody         \* no event

ASSUME ReaderAssumption == Requested \subseteq Events /\ Nobody \notin Events

VARIABLES
    reader,        \* what the request has read so far
    touched        \* history: awards that changed, or were voted on, since it began

rvars == <<vars, reader, touched>>

Steps == {"totals", "nominations", "categories", "awards"}

ReaderTypeOK ==
    /\ TypeOK
    /\ reader \in [event : Requested \cup {Nobody}, next : Steps,
                   totals : [Nominations -> Nat], found : SUBSET Nominations,
                   categories : SUBSET Categories, listed : [Categories -> SUBSET Awards]]
    /\ touched \subseteq Awards

Idle == [event |-> Nobody, next |-> "totals", totals |-> [n \in Nominations |-> 0], found |-> {},
         categories |-> {}, listed |-> [c \in Categories |-> {}]]

ReaderInit == Init /\ reader = Idle /\ touched = {}

Reading(step) == reader.event # Nobody /\ reader.next = step

----------------------------------------------------------------------------
(* The request, one action per statement. *)

\* Mutant: the totals of the event's awards, whatever event the votes were cast in.
TotalsByAward(e) == [n \in Nominations |-> TotalInAward(n, AwardOf[n])]

\* _totals_by_nomination(event=event)
Totals(e) == [n \in Nominations |-> TotalInEvent(n, e)]

\* get_object and the gate, then the totals.  An event admin may read results at any time,
\* and anyone once they are published (Events has the status): all that get_object returns
\* and this model tells apart is which event it is.
ReadTotals(e) ==
    /\ reader = Idle
    /\ reader' = [reader EXCEPT !.event = e, !.next = "nominations", !.totals = Totals(e)]
    /\ touched' = {}

ReadNominations ==
    /\ Reading("nominations")
    /\ reader' = [reader EXCEPT !.next = "categories",
                                !.found = {n \in approved : EventOf(AwardOf[n]) = reader.event}]
    /\ UNCHANGED touched

ReadCategories ==
    /\ Reading("categories")
    /\ reader' = [reader EXCEPT !.next = "awards",
                                !.categories = {c \in Categories : home[c] = reader.event}]
    /\ UNCHANGED touched

\* The loop over the categories, whose order is nothing to the result.
ReadAwards(c) ==
    /\ Reading("awards") /\ c \in reader.categories
    /\ reader' = [reader EXCEPT !.categories = @ \ {c},
                                !.listed[c] = {a \in active : shelf[a] = c}]
    /\ UNCHANGED touched

Answered == Reading("awards") /\ reader.categories = {}

Respond ==
    /\ Answered
    /\ reader' = Idle
    /\ touched' = {}

Read ==
    /\ \/ \E e \in Requested : ReadTotals(e)
       \/ ReadNominations \/ ReadCategories
       \/ \E c \in Categories : ReadAwards(c)
       \/ Respond
    /\ UNCHANGED vars

----------------------------------------------------------------------------
(* Everything else goes on meanwhile.  Reading, an award is touched when it or its category *)
(* is edited, when one of its nominations is approved or put back, and when a vote for it   *)
(* comes or goes.                                                                           *)

Changed(a) ==
    \/ shelf'[a] # shelf[a] \/ (a \in active') # (a \in active)
    \/ EventOf(a)' # EventOf(a)
    \/ \E n \in Nominations : AwardOf[n] = a /\ (n \in approved') # (n \in approved)
    \/ \E v \in VoteIds : vote'[v] # vote[v] /\ vote'[v].award = a

\* (What happens between the last statement and the response is read by nobody: it is left
\* to the time after.)
Elsewhere ==
    /\ ~Answered
    /\ Next
    /\ touched' = IF reader = Idle THEN touched ELSE touched \cup {a \in Awards : Changed(a)}
    /\ UNCHANGED reader

ReaderNext == Read \/ Elsewhere

ReaderSpec == ReaderInit /\ [][ReaderNext]_rvars

----------------------------------------------------------------------------
\* The entries listed with an award: _rank over by_award.
Entries(a) ==
    LET mine == {n \in reader.found : AwardOf[n] = a}
    IN  Ranked([n \in mine |-> reader.totals[n]])

\* However the payload is put together, an award that nothing happened to while it was read
\* is exact: listed once if it is an active award of the event, with all its nominations,
\* totals and ranks, and not at all otherwise, though other awards come and go.
UntouchedIsExact ==
    Answered => \A a \in Awards \ touched :
        LET where == {c \in Categories : a \in reader.listed[c]}
        IN  IF a \in DOMAIN EventResults(reader.event)
            THEN where = {shelf[a]} /\ Entries(a) = EventResults(reader.event)[a]
            ELSE where = {}
=============================================================================
