----------------------------- MODULE FixedWindow -----------------------------
(***************************************************************************)
(* The counter that common.throttles and common.sms_budget both keep in the *)
(* shared cache: cache.add(key, 0, ttl), then cache.incr(key), and          *)
(* cache.set(key, 1, ttl) when the key expired in between.  Each of the     *)
(* three is atomic; the sequence is not, and the caller's clock reading,    *)
(* which selects the key, may be old by the time it is used.                *)
(***************************************************************************)
EXTENDS Integers

CONSTANTS
    Callers,    \* requests; each counts itself once
    Idents,     \* whom a counter counts
    Window,     \* length of a window in ticks
    Ttl(_),     \* the timeout given to the cache, from the caller's clock reading
    MaxTime,    \* bound: the clock stops here
    Absent      \* no such key

VARIABLES
    clock,
    store,      \* the cache: count and expiry time per key
    call        \* per caller: phase, whom it counts, clock reading, and the count it got

KeyOf(ident, now) == <<ident, now \div Window>>
Keys == {KeyOf(i, t) : i \in Idents, t \in 0 .. MaxTime}
Key(c) == KeyOf(call[c].ident, call[c].now)

FWTypeOK ==
    /\ clock \in 0 .. MaxTime
    /\ store \in [Keys -> [count : Nat, expires : Nat] \cup {Absent}]
    /\ call \in [Callers -> [phase : {"idle", "keyed", "added", "missed", "counted", "done"},
                             ident : Idents \cup {Absent}, now : 0 .. MaxTime, at : 0 .. MaxTime, count : Nat]]

FWInit ==
    /\ clock = 0
    /\ store = [k \in Keys |-> Absent]
    /\ call = [c \in Callers |-> [phase |-> "idle", ident |-> Absent, now |-> 0, at |-> 0, count |-> 0]]

\* Mutant: the expiry counted from the wrong clock.
FreshRelative(c, count) == [count |-> count, expires |-> Ttl(call[c].now) - clock]

Fresh(c, count) == [count |-> count, expires |-> clock + Ttl(call[c].now)]

ReadClock(c, ident) ==
    /\ call[c].phase = "idle"
    /\ call' = [call EXCEPT ![c].phase = "keyed", ![c].ident = ident, ![c].now = clock]
    /\ UNCHANGED <<clock, store>>

CacheAdd(c) ==
    /\ call[c].phase = "keyed"
    /\ store' = IF store[Key(c)] = Absent THEN [store EXCEPT ![Key(c)] = Fresh(c, 0)] ELSE store
    /\ call' = [call EXCEPT ![c].phase = "added"]
    /\ UNCHANGED clock

Counted(c, count) == [call EXCEPT ![c].phase = "counted", ![c].count = count, ![c].at = clock]

CacheIncr(c) ==
    /\ call[c].phase = "added"
    /\ \/ /\ store[Key(c)] # Absent
          /\ store' = [store EXCEPT ![Key(c)].count = @ + 1]
          /\ call' = Counted(c, store[Key(c)].count + 1)
       \/ /\ store[Key(c)] = Absent
          /\ call' = [call EXCEPT ![c].phase = "missed"]
          /\ UNCHANGED store
    /\ UNCHANGED clock

CacheSet(c) ==
    /\ call[c].phase = "missed"
    /\ store' = [store EXCEPT ![Key(c)] = Fresh(c, 1)]
    /\ call' = Counted(c, 1)
    /\ UNCHANGED clock

CacheStep(c) == CacheAdd(c) \/ CacheIncr(c) \/ CacheSet(c)

\* The cache forgets a key when its time is up.
Tick ==
    /\ clock < MaxTime
    /\ clock' = clock + 1
    /\ store' = [k \in Keys |-> IF store[k] # Absent /\ store[k].expires <= clock'
                                THEN Absent ELSE store[k]]
    /\ UNCHANGED call

\* Callers that got their count while the window they read was still the current one
\* (a caller paused past the end of its window is a straggler).
OnTime(c) == call[c].phase \in {"counted", "done"} /\ KeyOf(call[c].ident, call[c].at) = Key(c)
=============================================================================
