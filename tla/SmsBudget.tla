------------------------------ MODULE SmsBudget ------------------------------
(***************************************************************************)
(* common.sms_budget.reserve: the global budget of SMS per Nairobi day.     *)
(* The same counter as the throttles', but its key lives exactly until the  *)
(* end of the day, the request that crosses 80% logs a warning, and an      *)
(* exhausted budget is audited and answered with 503.                       *)
(***************************************************************************)
EXTENDS Integers

CONSTANTS
    Callers, Idents,
    Window,             \* ticks in a day
    SMS_DAILY_LIMIT,    \* 0 disables the budget: nothing to model then
    MaxTime,
    Absent

VARIABLES clock, store, call,
    reserved,    \* callers that may send an SMS
    warned,      \* callers that logged the 80% warning
    exhausted    \* callers with an SMS_BUDGET_EXHAUSTED audit entry, answered 503

\* Mutant: the key lives for one tick.
TtlShort(now) == 1

\* _seconds_until_next_nairobi_day
Ttl(now) == (now \div Window + 1) * Window - now

FW == INSTANCE FixedWindow

\* Mutant: off by one.
WarnAtLate == (4 * SMS_DAILY_LIMIT) \div 5 + 2

\* math.ceil(limit * 0.8)
WarnAt == (4 * SMS_DAILY_LIMIT + 4) \div 5

TypeOK ==
    /\ FW!FWTypeOK
    /\ reserved \subseteq Callers /\ warned \subseteq Callers /\ exhausted \subseteq Callers

Init == FW!FWInit /\ reserved = {} /\ warned = {} /\ exhausted = {}

Reserve(c) ==
    /\ call[c].phase = "counted"
    /\ IF call[c].count > SMS_DAILY_LIMIT
       THEN exhausted' = exhausted \cup {c} /\ UNCHANGED <<reserved, warned>>
       ELSE /\ reserved' = reserved \cup {c}
            /\ warned' = IF call[c].count = WarnAt THEN warned \cup {c} ELSE warned
            /\ UNCHANGED exhausted
    /\ call' = [call EXCEPT ![c].phase = "done"]
    /\ UNCHANGED <<clock, store>>

----------------------------------------------------------------------------
\* The requests counted on the day that c counts on.
CountedWith(c) == {d \in Callers : FW!OnTime(d) /\ FW!Key(d) = FW!Key(c)}

\* The 80% warning is logged by at most one of a day's requests, and when a request is turned
\* away the warning is in the log or some other request is just about to write it.
OneWarningPerDay ==
    /\ \A c \in warned : \A d, e \in CountedWith(c) \cap warned : d = e
    /\ \A c \in exhausted : FW!OnTime(c) =>
           \E d \in CountedWith(c) \ {c} : d \in warned \/ call[d].phase = "counted"
=============================================================================
