------------------------------ MODULE Throttle ------------------------------
(***************************************************************************)
(* common.throttles.WindowThrottle, one scope: at most Limit requests of an *)
(* identity are allowed per window.  A key lives for a whole window from    *)
(* its first request, so past the end of the window it counts.              *)
(***************************************************************************)
EXTENDS Integers

CONSTANTS Callers, Idents, Window, Limit, MaxTime, Absent

VARIABLES clock, store, call,
    allowed    \* callers that allow_request let through

\* cache.add(key, 0, timeout=window)
Ttl(now) == Window

FW == INSTANCE FixedWindow

TypeOK == FW!FWTypeOK /\ allowed \subseteq Callers

Init == FW!FWInit /\ allowed = {}

OverLimit(c) == call[c].count > Limit

\* count > limit: throttled.  A throttled request has been counted all the same.
AllowRequest(c) ==
    /\ call[c].phase = "counted"
    /\ allowed' = IF OverLimit(c) THEN allowed ELSE allowed \cup {c}
    /\ call' = [call EXCEPT ![c].phase = "done"]
    /\ UNCHANGED <<clock, store>>
=============================================================================
