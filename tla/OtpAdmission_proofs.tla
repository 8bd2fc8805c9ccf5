-------------------------- MODULE OtpAdmission_proofs --------------------------
(***************************************************************************)
(* Theorems about OtpAdmission, for any number of callers, any rate, budget *)
(* and length of the windows.  FixedWindow is used twice, as the throttle   *)
(* and as the budget: what holds of its counter is stated once, of a clock, *)
(* a store and the calls, whatever they are.                                *)
(***************************************************************************)
EXTENDS OtpAdmission, Counting

Job(Ids) == [phase : {"idle", "keyed", "added", "missed", "counted", "done"},
             ident : Ids \cup {Absent}, now : 0 .. MaxTime, at : 0 .. MaxTime, count : Nat]

Row == [count : Nat, expires : Nat]

KeyIn(W, job) == <<job.ident, job.now \div W>>

KeySet(Ids, W) == {<<i, t \div W>> : i \in Ids, t \in 0 .. MaxTime}

Counted(job) == job.phase \in {"counted", "done"}

Timely(W, job) == Counted(job) /\ job.at \div W = job.now \div W

\* Who has counted under a key, and who has while its window lasted.
CountedUnder(W, cl, k) == {c \in Callers : Counted(cl[c]) /\ KeyIn(W, cl[c]) = k}
TimelyUnder(W, cl, k) == {c \in Callers : Timely(W, cl[c]) /\ KeyIn(W, cl[c]) = k}

CounterTyped(Ids, W, clk, st, cl) ==
    /\ clk \in 0 .. MaxTime
    /\ st \in [KeySet(Ids, W) -> Row \cup {Absent}]
    /\ cl \in [Callers -> Job(Ids)]
    /\ \A c \in Callers : /\ cl[c].now <= clk /\ cl[c].at <= clk
                          /\ cl[c].phase # "idle" => cl[c].ident \in Ids

\* The timely callers of a key have the numbers from 1 on, each its own.
Numbered(W, cl) ==
    \A c \in Callers : Timely(W, cl[c]) =>
        /\ cl[c].count >= 1
        /\ \A d \in TimelyUnder(W, cl, KeyIn(W, cl[c])) : cl[d].count = cl[c].count => d = c
        /\ \A j \in 1 .. cl[c].count : \E d \in TimelyUnder(W, cl, KeyIn(W, cl[c])) : cl[d].count = j

\* A key of the current window lives to its end, and its count is that of its timely callers.
\* There are no keys of later windows.
WindowOpen(W, clk, st, cl) ==
    \A k \in DOMAIN st : k[2] >= clk \div W =>
        /\ st[k] = Absent => TimelyUnder(W, cl, k) = {}
        /\ st[k] # Absent =>
              /\ k[2] = clk \div W
              /\ st[k].expires >= (k[2] + 1) * W
              /\ \A c \in TimelyUnder(W, cl, k) : cl[c].count <= st[k].count
              /\ \A j \in 1 .. st[k].count : \E c \in TimelyUnder(W, cl, k) : cl[c].count = j

\* While the window lasts, the key that a caller has seen or added is there.
KeysKept(W, clk, st, cl) ==
    \A c \in Callers : cl[c].now \div W = clk \div W =>
        /\ cl[c].phase = "added" => st[KeyIn(W, cl[c])] # Absent
        /\ cl[c].phase # "missed"

\* No count is more than there were callers to count.
NoMoreThanCallers(W, st, cl) ==
    /\ \A k \in DOMAIN st : st[k] # Absent => st[k].count <= Cardinality(CountedUnder(W, cl, k))
    /\ \A c \in Callers : Counted(cl[c]) =>
          cl[c].count <= Cardinality(CountedUnder(W, cl, KeyIn(W, cl[c])))

CounterInv(Ids, W, clk, st, cl) ==
    /\ CounterTyped(Ids, W, clk, st, cl)
    /\ Numbered(W, cl)
    /\ WindowOpen(W, clk, st, cl)
    /\ KeysKept(W, clk, st, cl)
    /\ NoMoreThanCallers(W, st, cl)

\* What a caller's record may become without counting it, and when it is counted.
QuietJob(Ids, W, clk, st, old, job) ==
    /\ job \in Job(Ids) /\ job.now <= clk /\ job.at <= clk
    /\ job.phase # "idle" => job.ident \in Ids
    /\ Counted(job) <=> Counted(old)
    /\ Counted(job) => /\ job.ident = old.ident /\ job.now = old.now
                       /\ job.at = old.at /\ job.count = old.count
    /\ job.now \div W = clk \div W =>
          /\ job.phase = "added" => st[KeyIn(W, job)] # Absent
          /\ job.phase # "missed"

CountedJob(Ids, clk, at, old, row, job) ==
    /\ row \in Row /\ old.phase \in {"added", "missed"}
    /\ old.phase = "added" => at # Absent /\ row.count = at.count + 1 /\ row.expires = at.expires
    /\ old.phase = "missed" => row.count = 1
    /\ job \in Job(Ids) /\ job.phase = "counted" /\ job.count = row.count /\ job.at = clk
    /\ job.ident = old.ident /\ job.now = old.now

----------------------------------------------------------------------------
\* What the verdicts were given for.
Verdicts(c) ==
    /\ c \in allowed => throttling[c].phase = "done" /\ throttling[c].count <= Limit
    /\ c \in reserved => budgeting[c].phase = "done" /\ budgeting[c].count <= SMS_DAILY_LIMIT
    /\ c \in exhausted => budgeting[c].phase = "done" /\ budgeting[c].count > SMS_DAILY_LIMIT
    /\ c \in warned => budgeting[c].phase = "done" /\ budgeting[c].count = Budget!WarnAt
    /\ budgeting[c].phase = "done" =>
          /\ c \in reserved \cup exhausted
          /\ c \in reserved /\ budgeting[c].count = Budget!WarnAt => c \in warned

\* A caller past the throttle was counted under its number.
PhoneCounted(c) ==
    /\ visit[c].stage \notin {"new", "answered"} \/ visit[c].texted =>
          /\ visit[c].raw \in Spellings
          /\ throttling[c].ident = GetIdent(visit[c].raw)
          /\ GetIdent(visit[c].raw) # Absent
    /\ visit[c].stage \in {"request_otp", "text"} \/ visit[c].texted =>
          /\ NormalizePhoneStrict(visit[c].raw) # Absent
          /\ c \in allowed

Accounted(c) == visit[c].texted \/ c \in exhausted \/ visit[c].answer = "500"

\* The budget is asked in request_otp only, and what it gives is spent on a text or lost with
\* the request.
ShareSpent(c) ==
    /\ visit[c].stage \in {"new", "throttle"} => budgeting[c].phase = "idle"
    /\ budgeting[c].phase \notin {"idle", "done"} => visit[c].stage = "request_otp"
    /\ budgeting[c].phase = "done" =>
          \/ visit[c].stage = "text"
          \/ visit[c].stage = "answered" /\ Accounted(c)
    /\ visit[c].stage = "text" \/ visit[c].texted => c \in reserved
    /\ visit[c].texted => visit[c].stage = "answered"

Visited ==
    visit \in [Callers -> [raw : Spellings \cup {Absent}, stage : {"new"} \cup Stages,
                           answer : Answers, texted : BOOLEAN]]

AdmissionInv ==
    /\ CounterInv(Idents, Window, clock, hits, throttling)
    /\ CounterInv({"sms"}, Day, clock, spent, budgeting)
    /\ allowed \subseteq Callers /\ reserved \subseteq Callers
    /\ warned \subseteq Callers /\ exhausted \subseteq Callers
    /\ Visited
    /\ \A c \in Callers : Verdicts(c) /\ PhoneCounted(c) /\ ShareSpent(c)

----------------------------------------------------------------------------
(* The counter. *)

LEMMA Windows ==
    ASSUME NEW W \in Nat \ {0}, NEW s \in Nat, NEW t \in Nat, s <= t
    PROVE  /\ s \div W \in Nat /\ t \div W \in Nat /\ s \div W <= t \div W
           /\ (s \div W) * W \in Nat /\ (t \div W) * W <= t /\ t < ((t \div W) + 1) * W
  OBVIOUS

LEMMA KeyOfCall ==
    ASSUME NEW Ids, NEW W \in Nat \ {0}, NEW clk, NEW st, NEW cl,
           CounterTyped(Ids, W, clk, st, cl), NEW c \in Callers
    PROVE  /\ cl[c] \in Job(Ids) /\ clk \in Nat /\ cl[c].now \in Nat /\ cl[c].at \in Nat
           /\ cl[c].phase # "idle" => KeyIn(W, cl[c]) \in DOMAIN st
           /\ cl[c].now \div W \in Nat /\ clk \div W \in Nat
           /\ cl[c].now \div W <= clk \div W /\ cl[c].at \div W <= clk \div W
<1>1. /\ cl[c] \in Job(Ids) /\ clk \in Nat /\ cl[c].now \in 0 .. MaxTime /\ cl[c].at \in Nat
      /\ cl[c].now <= clk /\ cl[c].at <= clk /\ MaxTime \in Nat
  BY AdmissionAssumption DEF CounterTyped, Job
<1>2. cl[c].phase # "idle" => KeyIn(W, cl[c]) \in DOMAIN st
  BY <1>1 DEF CounterTyped, KeyIn, KeySet
<1> QED
  BY <1>1, <1>2, Windows

LEMMA CountedFinite ==
    ASSUME NEW W, NEW cl, NEW k
    PROVE  IsFiniteSet(CountedUnder(W, cl, k)) /\ Cardinality(CountedUnder(W, cl, k)) \in Nat
<1>1. CountedUnder(W, cl, k) \subseteq Callers
  BY DEF CountedUnder
<1> QED
  BY <1>1, FS_Subset, FS_CardinalityType, AdmissionAssumption

\* A step of a caller that neither counts it nor writes the store.
LEMMA QuietCall ==
    ASSUME NEW Ids, NEW W \in Nat \ {0}, NEW clk, NEW st, NEW cl, CounterInv(Ids, W, clk, st, cl),
           NEW c \in Callers, NEW job, QuietJob(Ids, W, clk, st, cl[c], job),
           NEW cl2, cl2 = [cl EXCEPT ![c] = job]
    PROVE  CounterInv(Ids, W, clk, st, cl2)
<1> USE DEF CounterInv, QuietJob
<1>1. /\ cl \in [Callers -> Job(Ids)] /\ cl2 \in [Callers -> Job(Ids)]
      /\ cl2[c] = job /\ \A d \in Callers \ {c} : cl2[d] = cl[d]
  BY DEF CounterTyped
<1>2. \A d \in Callers : /\ Counted(cl2[d]) <=> Counted(cl[d])
                         /\ Counted(cl2[d]) => /\ cl2[d].ident = cl[d].ident /\ cl2[d].now = cl[d].now
                                               /\ cl2[d].at = cl[d].at /\ cl2[d].count = cl[d].count
  BY <1>1
<1>3. \A d \in Callers : /\ Timely(W, cl2[d]) <=> Timely(W, cl[d])
                         /\ Counted(cl2[d]) => KeyIn(W, cl2[d]) = KeyIn(W, cl[d])
  BY <1>2 DEF Timely, KeyIn
<1>4. \A k : CountedUnder(W, cl2, k) = CountedUnder(W, cl, k)
  BY <1>2, <1>3 DEF CountedUnder
<1>5. \A k : TimelyUnder(W, cl2, k) = TimelyUnder(W, cl, k)
  BY <1>3 DEF TimelyUnder, Timely
<1>6. CounterTyped(Ids, W, clk, st, cl2)
  BY <1>1 DEF CounterTyped
<1>7. \A k : \A d \in TimelyUnder(W, cl, k) : cl2[d].count = cl[d].count
  BY <1>2 DEF TimelyUnder, Timely
<1>8. Numbered(W, cl2)
  <2> SUFFICES ASSUME NEW d \in Callers, Timely(W, cl2[d])
               PROVE  /\ cl2[d].count >= 1
                      /\ \A x \in TimelyUnder(W, cl2, KeyIn(W, cl2[d])) : cl2[x].count = cl2[d].count => x = d
                      /\ \A j \in 1 .. cl2[d].count :
                           \E x \in TimelyUnder(W, cl2, KeyIn(W, cl2[d])) : cl2[x].count = j
    BY DEF Numbered
  <2>1. /\ Timely(W, cl[d]) /\ KeyIn(W, cl2[d]) = KeyIn(W, cl[d]) /\ cl2[d].count = cl[d].count
    BY <1>2, <1>3 DEF Timely
  <2>2. PICK T : T = TimelyUnder(W, cl, KeyIn(W, cl[d]))
    OBVIOUS
  <2>3. TimelyUnder(W, cl2, KeyIn(W, cl2[d])) = T
    <3>1. TimelyUnder(W, cl2, KeyIn(W, cl2[d])) = TimelyUnder(W, cl, KeyIn(W, cl2[d]))
      BY <1>5
    <3> QED
      BY <2>1, <2>2, <3>1
  <2>4. \A x \in T : cl2[x].count = cl[x].count
    BY <1>7, <2>2
  <2>5. /\ cl[d].count >= 1
        /\ \A x \in T : cl[x].count = cl[d].count => x = d
        /\ \A j \in 1 .. cl[d].count : \E x \in T : cl[x].count = j
    BY <2>1, <2>2 DEF Numbered
  <2> QED
    <3> HIDE DEF CounterInv
    <3>1. \A x \in T : cl2[x].count = cl2[d].count => x = d
      BY <2>1, <2>4, <2>5
    <3>2. \A j \in 1 .. cl2[d].count : \E x \in T : cl2[x].count = j
      <4> SUFFICES ASSUME NEW j \in 1 .. cl2[d].count
                   PROVE  \E x \in T : cl2[x].count = j
        OBVIOUS
      <4>1. PICK x \in T : cl[x].count = j
        BY <2>1, <2>5
      <4> QED
        BY <2>4, <4>1
    <3> QED
      BY <2>1, <2>3, <2>5, <3>1, <3>2
<1>9. WindowOpen(W, clk, st, cl2)
  <2> SUFFICES ASSUME NEW k \in DOMAIN st, k[2] >= clk \div W
               PROVE  /\ st[k] = Absent => TimelyUnder(W, cl2, k) = {}
                      /\ st[k] # Absent =>
                            /\ k[2] = clk \div W
                            /\ st[k].expires >= (k[2] + 1) * W
                            /\ \A d \in TimelyUnder(W, cl2, k) : cl2[d].count <= st[k].count
                            /\ \A j \in 1 .. st[k].count : \E d \in TimelyUnder(W, cl2, k) : cl2[d].count = j
    BY DEF WindowOpen
  <2>1. PICK T : T = TimelyUnder(W, cl, k)
    OBVIOUS
  <2>2. TimelyUnder(W, cl2, k) = T
    BY <1>5, <2>1
  <2>3. \A x \in T : cl2[x].count = cl[x].count
    BY <1>7, <2>1
  <2>4. /\ st[k] = Absent => T = {}
        /\ st[k] # Absent =>
              /\ k[2] = clk \div W
              /\ st[k].expires >= (k[2] + 1) * W
              /\ \A d \in T : cl[d].count <= st[k].count
              /\ \A j \in 1 .. st[k].count : \E d \in T : cl[d].count = j
    BY <2>1 DEF WindowOpen
  <2> HIDE DEF CounterInv
  <2>5. \A j : (\E d \in T : cl[d].count = j) => \E d \in T : cl2[d].count = j
    BY <2>3
  <2>6. st[k] # Absent => \A d \in T : cl2[d].count <= st[k].count
    BY <2>3, <2>4
  <2> QED
    BY <2>2, <2>4, <2>5, <2>6
<1>10. KeysKept(W, clk, st, cl2)
  BY <1>1 DEF KeysKept
<1>11. NoMoreThanCallers(W, st, cl2)
  BY <1>2, <1>3, <1>4 DEF NoMoreThanCallers
<1> QED
  BY <1>6, <1>8, <1>9, <1>10, <1>11

\* cache.add of a key that was not there.
LEMMA AddKey ==
    ASSUME NEW Ids, NEW W \in Nat \ {0}, NEW clk, NEW st, NEW cl, CounterInv(Ids, W, clk, st, cl),
           NEW k \in DOMAIN st, st[k] = Absent, k[2] <= clk \div W,
           NEW row \in Row, row.count = 0, k[2] = clk \div W => row.expires >= (k[2] + 1) * W,
           NEW st2, st2 = [st EXCEPT ![k] = row]
    PROVE  CounterInv(Ids, W, clk, st2, cl)
<1> USE DEF CounterInv
<1>1. /\ DOMAIN st2 = DOMAIN st /\ st2[k] = row /\ row # Absent
      /\ \A x \in DOMAIN st \ {k} : st2[x] = st[x]
  BY AdmissionAssumption DEF Row
<1>2. CounterTyped(Ids, W, clk, st2, cl)
  BY DEF CounterTyped
<1>3. WindowOpen(W, clk, st2, cl)
  <2> SUFFICES ASSUME NEW x \in DOMAIN st, x[2] >= clk \div W
               PROVE  /\ st2[x] = Absent => TimelyUnder(W, cl, x) = {}
                      /\ st2[x] # Absent =>
                            /\ x[2] = clk \div W
                            /\ st2[x].expires >= (x[2] + 1) * W
                            /\ \A c \in TimelyUnder(W, cl, x) : cl[c].count <= st2[x].count
                            /\ \A j \in 1 .. st2[x].count : \E c \in TimelyUnder(W, cl, x) : cl[c].count = j
    BY <1>1 DEF WindowOpen
  <2>1. CASE x = k
    <3>1. TimelyUnder(W, cl, x) = {}
      BY <2>1 DEF WindowOpen
    <3>2. x[2] = clk \div W
      <4>1. clk \div W \in Int /\ x[2] \in Int
        BY <2>1, AdmissionAssumption DEF CounterTyped, KeySet
      <4> QED
        BY <2>1, <4>1
    <3> QED
      BY <1>1, <2>1, <3>1, <3>2
  <2>2. CASE x # k
    BY <1>1, <2>2 DEF WindowOpen
  <2> QED
    BY <2>1, <2>2
<1>4. KeysKept(W, clk, st2, cl)
  <2>1. \A c \in Callers : cl[c].phase = "added" => KeyIn(W, cl[c]) \in DOMAIN st
    BY KeyOfCall
  <2> QED
    BY <1>1, <2>1 DEF KeysKept
<1>5. NoMoreThanCallers(W, st2, cl)
  <2>1. 0 <= Cardinality(CountedUnder(W, cl, k))
    BY FS_Subset, FS_CardinalityType, AdmissionAssumption DEF CountedUnder
  <2> QED
    BY <1>1, <2>1 DEF NoMoreThanCallers
<1> QED
  BY <1>2, <1>3, <1>4, <1>5

\* A caller gets its count: the next of the key it has added, or the first of a key that had
\* expired, which is past its window.
LEMMA CountCall ==
    ASSUME NEW Ids, NEW W \in Nat \ {0}, NEW clk, NEW st, NEW cl, CounterInv(Ids, W, clk, st, cl),
           NEW c \in Callers, NEW k, k = KeyIn(W, cl[c]), NEW row, NEW job,
           CountedJob(Ids, clk, st[k], cl[c], row, job),
           NEW st2, st2 = [st EXCEPT ![k] = row], NEW cl2, cl2 = [cl EXCEPT ![c] = job]
    PROVE  CounterInv(Ids, W, clk, st2, cl2)
<1> USE DEF CountedJob
<1>1. /\ CounterTyped(Ids, W, clk, st, cl) /\ Numbered(W, cl) /\ WindowOpen(W, clk, st, cl)
      /\ KeysKept(W, clk, st, cl) /\ NoMoreThanCallers(W, st, cl)
  BY DEF CounterInv
<1>2. /\ cl[c] \in Job(Ids) /\ clk \in Nat /\ k \in DOMAIN st /\ k[2] = cl[c].now \div W
      /\ k[2] \in Nat /\ clk \div W \in Nat /\ k[2] <= clk \div W
  <2>1. cl[c].phase # "idle"
    OBVIOUS
  <2>2. /\ cl[c] \in Job(Ids) /\ clk \in Nat
        /\ KeyIn(W, cl[c]) \in DOMAIN st
        /\ cl[c].now \div W \in Nat /\ clk \div W \in Nat /\ cl[c].now \div W <= clk \div W
    BY <1>1, <2>1, KeyOfCall
  <2>3. k \in DOMAIN st /\ k[2] = cl[c].now \div W
    BY <2>2 DEF KeyIn
  <2> QED
    BY <2>2, <2>3
<1>3. /\ job.phase = "counted" /\ job.count = row.count /\ job.at = clk
      /\ job.ident = cl[c].ident /\ job.now = cl[c].now
  OBVIOUS
<1>4. clk \in 0 .. MaxTime
  BY <1>1 DEF CounterTyped
<1>5. job \in Job(Ids)
  OBVIOUS
<1>6. /\ cl \in [Callers -> Job(Ids)] /\ cl2 \in [Callers -> Job(Ids)]
      /\ cl2[c] = job /\ \A d \in Callers \ {c} : cl2[d] = cl[d]
  BY <1>1, <1>5 DEF CounterTyped
<1>7. /\ DOMAIN st2 = DOMAIN st /\ st2[k] = row /\ row # Absent
      /\ \A x \in DOMAIN st \ {k} : st2[x] = st[x]
  BY <1>2, AdmissionAssumption DEF Row
<1>8. /\ ~Counted(cl[c]) /\ Counted(job) /\ KeyIn(W, job) = k
      /\ Timely(W, job) <=> k[2] = clk \div W
  BY <1>2, <1>3 DEF Counted, KeyIn, Timely
<1>9. k[2] = clk \div W => cl[c].phase = "added"
  BY <1>1, <1>2 DEF KeysKept
<1>10. CounterTyped(Ids, W, clk, st2, cl2)
  BY <1>1, <1>2, <1>3, <1>6, <1>4 DEF CounterTyped
<1>11. /\ CountedUnder(W, cl2, k) = CountedUnder(W, cl, k) \cup {c} /\ c \notin CountedUnder(W, cl, k)
       /\ \A x : x # k => CountedUnder(W, cl2, x) = CountedUnder(W, cl, x)
  BY <1>6, <1>8 DEF CountedUnder
<1>12. /\ k[2] = clk \div W => TimelyUnder(W, cl2, k) = TimelyUnder(W, cl, k) \cup {c}
       /\ \A x : c \notin TimelyUnder(W, cl, x)
       /\ \A x : x # k \/ k[2] # clk \div W => TimelyUnder(W, cl2, x) = TimelyUnder(W, cl, x)
  BY <1>6, <1>8 DEF TimelyUnder, Timely
<1>13. k[2] = clk \div W =>
          /\ st[k] # Absent /\ st[k].count \in Nat /\ row.count = st[k].count + 1
          /\ st[k].expires >= (k[2] + 1) * W /\ row.expires = st[k].expires
          /\ \A d \in TimelyUnder(W, cl, k) : cl[d].count <= st[k].count
          /\ \A j \in 1 .. st[k].count : \E d \in TimelyUnder(W, cl, k) : cl[d].count = j
  <2>1. k[2] = clk \div W => st[k] # Absent /\ row.count = st[k].count + 1 /\ row.expires = st[k].expires
    BY <1>9
  <2>2. st[k] # Absent => st[k].count \in Nat
    BY <1>1, <1>2 DEF CounterTyped, Row
  <2> QED
    BY <1>1, <1>2, <2>1, <2>2 DEF WindowOpen
<1>14. Numbered(W, cl2)
  <2> SUFFICES ASSUME NEW d \in Callers, Timely(W, cl2[d])
               PROVE  /\ cl2[d].count >= 1
                      /\ \A x \in TimelyUnder(W, cl2, KeyIn(W, cl2[d])) : cl2[x].count = cl2[d].count => x = d
                      /\ \A j \in 1 .. cl2[d].count :
                           \E x \in TimelyUnder(W, cl2, KeyIn(W, cl2[d])) : cl2[x].count = j
    BY DEF Numbered
  <2> PICK T2 : T2 = TimelyUnder(W, cl2, KeyIn(W, cl2[d]))
    OBVIOUS
  <2> SUFFICES /\ cl2[d].count >= 1
               /\ \A x \in T2 : cl2[x].count = cl2[d].count => x = d
               /\ \A j \in 1 .. cl2[d].count : \E x \in T2 : cl2[x].count = j
    BY Zenon
  <2>1. CASE d = c
    <3>1. PICK T : T = TimelyUnder(W, cl, k)
      OBVIOUS
    <3>2. k[2] = clk \div W /\ KeyIn(W, cl2[d]) = k
      BY <1>6, <1>8, <2>1
    <3>3. T2 = T \cup {c} /\ c \notin T
      BY <1>12, <3>1, <3>2
    <3>4. /\ st[k].count \in Nat /\ cl2[c].count = st[k].count + 1
          /\ \A x \in T : cl[x].count <= st[k].count
          /\ \A j \in 1 .. st[k].count : \E x \in T : cl[x].count = j
      BY <1>3, <1>6, <1>13, <3>1, <3>2
    <3>5. \A x \in T : cl2[x].count = cl[x].count /\ cl[x].count \in Nat
      <4>1. \A x \in T : x \in Callers \ {c}
        BY <3>1, <3>3 DEF TimelyUnder
      <4> QED
        BY <1>6, <4>1 DEF Job
    <3>6. \A x \in T2 : cl2[x].count = cl2[d].count => x = d
      <4>1. \A x \in T : cl2[x].count # cl2[c].count
        BY <3>4, <3>5
      <4> QED
        BY <2>1, <3>3, <4>1
    <3>7. \A j \in 1 .. cl2[d].count : \E x \in T2 : cl2[x].count = j
      <4> SUFFICES ASSUME NEW j \in 1 .. cl2[c].count
                   PROVE  \E x \in T2 : cl2[x].count = j
        BY <2>1
      <4>1. CASE j = cl2[c].count
        BY <3>3, <4>1
      <4>2. CASE j # cl2[c].count
        <5>1. PICK x \in T : cl[x].count = j
          BY <3>4, <4>2
        <5> QED
          BY <3>3, <3>5, <5>1
      <4> QED
        BY <4>1, <4>2
    <3>8. cl2[d].count >= 1
      BY <2>1, <3>4
    <3> QED
      BY <3>6, <3>7, <3>8
  <2>2. CASE d # c
    <3>1. cl2[d] = cl[d] /\ Timely(W, cl[d])
      BY <1>6, <2>2
    <3>2. PICK T : T = TimelyUnder(W, cl, KeyIn(W, cl[d]))
      OBVIOUS
    <3>3. /\ cl[d].count >= 1
          /\ \A x \in T : cl[x].count = cl[d].count => x = d
          /\ \A j \in 1 .. cl[d].count : \E x \in T : cl[x].count = j
      BY <1>1, <3>1, <3>2 DEF Numbered
    <3>4. \A x \in T : cl2[x] = cl[x]
      BY <1>6, <1>12, <3>2 DEF TimelyUnder
    <3>5. PICK kd : kd = KeyIn(W, cl[d])
      OBVIOUS
    <3>6. T2 = TimelyUnder(W, cl2, kd) /\ T = TimelyUnder(W, cl, kd) /\ d \in T
      <4>1. d \in TimelyUnder(W, cl, kd)
        BY <3>1, <3>5 DEF TimelyUnder
      <4> QED
        BY <3>1, <3>2, <3>5, <4>1
    <3>7. T2 = T \/ (T2 = T \cup {c} /\ kd = k /\ k[2] = clk \div W)
      BY <1>12, <3>6
    <3>8. c \in T2 => cl2[c].count # cl[d].count
      <4> SUFFICES ASSUME c \in T2
                   PROVE  cl2[c].count # cl[d].count
        OBVIOUS
      <4>1. kd = k /\ k[2] = clk \div W /\ d \in TimelyUnder(W, cl, k)
        BY <1>12, <3>6, <3>7
      <4>2. /\ st[k].count \in Nat /\ cl2[c].count = st[k].count + 1
            /\ cl[d].count <= st[k].count
        BY <1>3, <1>6, <1>13, <4>1
      <4>3. cl[d].count \in Nat
        BY <1>6 DEF Job
      <4> QED
        BY <4>2, <4>3
    <3>9. \A x \in T2 : cl2[x].count = cl2[d].count => x = d
      BY <3>1, <3>3, <3>4, <3>7, <3>8
    <3>10. \A j \in 1 .. cl2[d].count : \E x \in T2 : cl2[x].count = j
      <4> SUFFICES ASSUME NEW j \in 1 .. cl[d].count
                   PROVE  \E x \in T2 : cl2[x].count = j
        BY <3>1
      <4>1. PICK x \in T : cl[x].count = j
        BY <3>3
      <4> QED
        BY <3>4, <3>7, <4>1
    <3> QED
      BY <3>1, <3>3, <3>9, <3>10
  <2> QED
    BY <2>1, <2>2
<1>15. WindowOpen(W, clk, st2, cl2)
  <2> SUFFICES ASSUME NEW x \in DOMAIN st, x[2] >= clk \div W
               PROVE  /\ st2[x] = Absent => TimelyUnder(W, cl2, x) = {}
                      /\ st2[x] # Absent =>
                            /\ x[2] = clk \div W
                            /\ st2[x].expires >= (x[2] + 1) * W
                            /\ \A d \in TimelyUnder(W, cl2, x) : cl2[d].count <= st2[x].count
                            /\ \A j \in 1 .. st2[x].count : \E d \in TimelyUnder(W, cl2, x) : cl2[d].count = j
    BY <1>7 DEF WindowOpen
  <2> PICK T2 : T2 = TimelyUnder(W, cl2, x)
    OBVIOUS
  <2> SUFFICES /\ st2[x] = Absent => T2 = {}
               /\ st2[x] # Absent =>
                     /\ x[2] = clk \div W
                     /\ st2[x].expires >= (x[2] + 1) * W
                     /\ \A d \in T2 : cl2[d].count <= st2[x].count
                     /\ \A j \in 1 .. st2[x].count : \E d \in T2 : cl2[d].count = j
    BY Zenon
  <2>1. PICK T : T = TimelyUnder(W, cl, x)
    OBVIOUS
  <2>2. \A d \in T : cl2[d] = cl[d] /\ cl[d].count \in Nat
    BY <1>6, <1>12, <2>1 DEF TimelyUnder, Job
  <2>3. CASE x = k
    <3>1. k[2] = clk \div W
      BY <1>2, <2>3
    <3>2. /\ T2 = T \cup {c} /\ c \notin T /\ st2[x] = row /\ row # Absent
          /\ st[k].count \in Nat /\ row.count = st[k].count + 1 /\ cl2[c].count = row.count
          /\ row.expires >= (x[2] + 1) * W
          /\ \A d \in T : cl[d].count <= st[k].count
          /\ \A j \in 1 .. st[k].count : \E d \in T : cl[d].count = j
      <4>1. /\ T2 = TimelyUnder(W, cl2, k) /\ T = TimelyUnder(W, cl, k) /\ st2[x] = row
            /\ (x[2] + 1) * W = (k[2] + 1) * W
        BY <1>7, <2>1, <2>3
      <4>2. T2 = T \cup {c} /\ c \notin T /\ row # Absent /\ cl2[c].count = row.count
        BY <1>3, <1>6, <1>7, <1>12, <3>1, <4>1
      <4>3. /\ st[k].count \in Nat /\ row.count = st[k].count + 1
            /\ row.expires >= (k[2] + 1) * W
        BY <1>13, <3>1
      <4>4. /\ \A d \in T : cl[d].count <= st[k].count
            /\ \A j \in 1 .. st[k].count : \E d \in T : cl[d].count = j
        BY <1>13, <3>1, <4>1
      <4>5. row.expires >= (x[2] + 1) * W
        BY <4>1, <4>3, Zenon
      <4> QED
        BY <4>1, <4>2, <4>3, <4>4, <4>5, Zenon
    <3>3. \A d \in T2 : cl2[d].count <= row.count
      <4>1. \A d \in T : cl2[d].count <= row.count
        BY <2>2, <3>2
      <4>2. cl2[c].count <= row.count
        BY <3>2
      <4> QED
        BY <3>2, <4>1, <4>2
    <3>4. \A j \in 1 .. row.count : \E d \in T2 : cl2[d].count = j
      <4> SUFFICES ASSUME NEW j \in 1 .. row.count
                   PROVE  \E d \in T2 : cl2[d].count = j
        OBVIOUS
      <4>1. CASE j = row.count
        BY <3>2, <4>1
      <4>2. CASE j # row.count
        <5>1. PICK d \in T : cl[d].count = j
          BY <3>2, <4>2
        <5> QED
          BY <2>2, <3>2, <5>1
      <4> QED
        BY <4>1, <4>2
    <3> QED
      BY <2>3, <3>1, <3>2, <3>3, <3>4
  <2>4. CASE x # k
    <3>1. T2 = T /\ st2[x] = st[x]
      BY <1>7, <1>12, <2>1, <2>4
    <3>2. /\ st[x] = Absent => T = {}
          /\ st[x] # Absent =>
                /\ x[2] = clk \div W
                /\ st[x].expires >= (x[2] + 1) * W
                /\ \A d \in T : cl[d].count <= st[x].count
                /\ \A j \in 1 .. st[x].count : \E d \in T : cl[d].count = j
      BY <1>1, <2>1 DEF WindowOpen
    <3>3. \A j : (\E d \in T : cl[d].count = j) => \E d \in T : cl2[d].count = j
      BY <2>2
    <3>4. st[x] # Absent => \A d \in T : cl2[d].count <= st[x].count
      BY <2>2, <3>2
    <3> QED
      BY <3>1, <3>2, <3>3, <3>4
  <2> QED
    BY <2>3, <2>4
<1>16. KeysKept(W, clk, st2, cl2)
  BY <1>1, <1>3, <1>6, <1>7, KeyOfCall DEF KeysKept
<1>17. NoMoreThanCallers(W, st2, cl2)
  <2>1. \A x : IsFiniteSet(CountedUnder(W, cl, x)) /\ Cardinality(CountedUnder(W, cl, x)) \in Nat
    BY CountedFinite
  <2>2. Cardinality(CountedUnder(W, cl2, k)) = Cardinality(CountedUnder(W, cl, k)) + 1
    <3>1. PICK U : U = CountedUnder(W, cl, k)
      OBVIOUS
    <3>2. CountedUnder(W, cl2, k) = U \cup {c} /\ c \notin U /\ IsFiniteSet(U)
      BY <1>11, <2>1, <3>1
    <3>3. Cardinality(U \cup {c}) = Cardinality(U) + 1
      BY <3>2, FS_AddElement
    <3> QED
      BY <3>1, <3>2, <3>3, Zenon
  <2>3. ASSUME NEW x
        PROVE  Cardinality(CountedUnder(W, cl, x)) <= Cardinality(CountedUnder(W, cl2, x))
    <3>1. Cardinality(CountedUnder(W, cl, x)) \in Nat
      BY <2>1
    <3>2. CASE x = k
      BY <2>2, <3>1, <3>2
    <3>3. CASE x # k
      <4>1. CountedUnder(W, cl2, x) = CountedUnder(W, cl, x)
        BY <1>11, <3>3
      <4> QED
        BY <3>1, <4>1
    <3> QED
      BY <3>2, <3>3
  <2>4. row.count <= Cardinality(CountedUnder(W, cl2, k))
    <3>1. CASE cl[c].phase = "missed"
      BY <2>1, <2>2, <3>1
    <3>2. CASE cl[c].phase = "added"
      <4>1. st[k].count <= Cardinality(CountedUnder(W, cl, k)) /\ row.count = st[k].count + 1
        BY <1>1, <1>2, <3>2 DEF NoMoreThanCallers
      <4>2. st[k].count \in Nat
        BY <1>1, <1>2, <3>2 DEF CounterTyped, Row
      <4> QED
        BY <2>1, <2>2, <4>1, <4>2
    <3> QED
      BY <3>1, <3>2
  <2>5. ASSUME NEW x \in DOMAIN st, st2[x] # Absent
        PROVE  st2[x].count <= Cardinality(CountedUnder(W, cl2, x))
    <3>1. CASE x = k
      BY <1>7, <2>4, <3>1
    <3>2. CASE x # k
      BY <1>1, <1>7, <1>11, <2>5, <3>2 DEF NoMoreThanCallers
    <3> QED
      BY <3>1, <3>2
  <2>6. ASSUME NEW d \in Callers, Counted(cl2[d])
        PROVE  cl2[d].count <= Cardinality(CountedUnder(W, cl2, KeyIn(W, cl2[d])))
    <3>1. CASE d = c
      BY <1>3, <1>6, <1>8, <2>4, <3>1
    <3>2. CASE d # c
      <4>1. cl2[d] = cl[d] /\ cl[d].count \in Nat
        BY <1>6, <3>2 DEF Job
      <4>2. PICK x : x = KeyIn(W, cl[d])
        OBVIOUS
      <4>3. cl[d].count <= Cardinality(CountedUnder(W, cl, x))
        BY <1>1, <2>6, <4>1, <4>2 DEF NoMoreThanCallers
      <4>4. Cardinality(CountedUnder(W, cl2, x)) \in Nat /\ Cardinality(CountedUnder(W, cl, x)) \in Nat
        BY CountedFinite
      <4>5. Cardinality(CountedUnder(W, cl, x)) <= Cardinality(CountedUnder(W, cl2, x))
        BY <2>3
      <4>6. cl[d].count <= Cardinality(CountedUnder(W, cl2, x))
        BY <4>1, <4>3, <4>4, <4>5
      <4> QED
        BY <4>1, <4>2, <4>6
    <3> QED
      BY <3>1, <3>2
  <2> QED
    BY <1>7, <2>5, <2>6 DEF NoMoreThanCallers
<1> QED
  BY <1>10, <1>14, <1>15, <1>16, <1>17 DEF CounterInv

\* The clock moves, and the keys whose time is up are gone.
LEMMA TickCounter ==
    ASSUME NEW Ids, NEW W \in Nat \ {0}, NEW clk, NEW st, NEW cl, CounterInv(Ids, W, clk, st, cl),
           clk < MaxTime, NEW clk2, clk2 = clk + 1, NEW st2,
           st2 = [k \in DOMAIN st |-> IF st[k] # Absent /\ st[k].expires <= clk2 THEN Absent ELSE st[k]]
    PROVE  CounterInv(Ids, W, clk2, st2, cl)
<1>1. /\ CounterTyped(Ids, W, clk, st, cl) /\ Numbered(W, cl) /\ WindowOpen(W, clk, st, cl)
      /\ KeysKept(W, clk, st, cl) /\ NoMoreThanCallers(W, st, cl)
  BY DEF CounterInv
<1>2. /\ clk \in Nat /\ clk2 \in Nat /\ clk2 \in 0 .. MaxTime
  BY <1>1, AdmissionAssumption DEF CounterTyped
<1>3. /\ clk \div W \in Nat /\ clk2 \div W \in Nat /\ clk \div W <= clk2 \div W
      /\ clk2 < ((clk2 \div W) + 1) * W /\ ((clk2 \div W) + 1) * W \in Nat
  BY <1>2, Windows
<1>4. DOMAIN st2 = DOMAIN st /\ \A k \in DOMAIN st : st2[k] = st[k] \/ st2[k] = Absent
  OBVIOUS
<1>5. CounterTyped(Ids, W, clk2, st2, cl)
  <2>1. \A c \in Callers : cl[c].now \in Nat /\ cl[c].at \in Nat /\ cl[c].now <= clk /\ cl[c].at <= clk
    BY <1>1, KeyOfCall DEF CounterTyped
  <2>2. \A c \in Callers : cl[c].now <= clk2 /\ cl[c].at <= clk2
    BY <1>2, <2>1
  <2>3. st2 \in [KeySet(Ids, W) -> Row \cup {Absent}]
    BY <1>1 DEF CounterTyped
  <2> QED
    BY <1>1, <1>2, <2>2, <2>3 DEF CounterTyped
<1>6. \A k \in DOMAIN st : k[2] = clk2 \div W /\ k[2] = clk \div W => st2[k] = st[k]
  <2> SUFFICES ASSUME NEW k \in DOMAIN st, k[2] = clk2 \div W, k[2] = clk \div W, st[k] # Absent
               PROVE  ~(st[k].expires <= clk2)
    OBVIOUS
  <2>1. st[k].expires \in Nat
    BY <1>1 DEF CounterTyped, Row
  <2>2. st[k].expires >= (k[2] + 1) * W
    BY <1>1, <1>3 DEF WindowOpen
  <2>3. (k[2] + 1) * W \in Nat /\ clk2 < (k[2] + 1) * W
    BY <1>3
  <2> QED
    BY <1>2, <2>1, <2>2, <2>3
<1>7. WindowOpen(W, clk2, st2, cl)
  <2> SUFFICES ASSUME NEW k \in DOMAIN st, k[2] >= clk2 \div W
               PROVE  /\ st2[k] = Absent => TimelyUnder(W, cl, k) = {}
                      /\ st2[k] # Absent =>
                            /\ k[2] = clk2 \div W
                            /\ st2[k].expires >= (k[2] + 1) * W
                            /\ \A c \in TimelyUnder(W, cl, k) : cl[c].count <= st2[k].count
                            /\ \A j \in 1 .. st2[k].count : \E c \in TimelyUnder(W, cl, k) : cl[c].count = j
    BY <1>4 DEF WindowOpen
  <2>1. k[2] \in Nat
    BY <1>1, Windows, AdmissionAssumption DEF CounterTyped, KeySet
  <2>2. k[2] >= clk \div W
    BY <1>3, <2>1
  <2>3. /\ st[k] = Absent => TimelyUnder(W, cl, k) = {}
        /\ st[k] # Absent =>
              /\ k[2] = clk \div W
              /\ st[k].expires >= (k[2] + 1) * W
              /\ \A c \in TimelyUnder(W, cl, k) : cl[c].count <= st[k].count
              /\ \A j \in 1 .. st[k].count : \E c \in TimelyUnder(W, cl, k) : cl[c].count = j
    BY <1>1, <2>2 DEF WindowOpen
  <2>4. CASE st[k] = Absent
    BY <1>4, <2>3, <2>4
  <2>5. CASE st[k] # Absent
    <3>1. k[2] = clk \div W /\ k[2] = clk2 \div W
      BY <1>3, <2>1, <2>3, <2>5
    <3>2. st2[k] = st[k]
      BY <1>6, <3>1
    <3> QED
      BY <2>3, <3>1, <3>2, Zenon
  <2> QED
    BY <2>4, <2>5
<1>8. KeysKept(W, clk2, st2, cl)
  <2> SUFFICES ASSUME NEW c \in Callers, cl[c].now \div W = clk2 \div W
               PROVE  /\ cl[c].phase = "added" => st2[KeyIn(W, cl[c])] # Absent
                      /\ cl[c].phase # "missed"
    BY DEF KeysKept
  <2>1. cl[c].now \div W = clk \div W
    <3>1. cl[c].now \div W \in Nat /\ cl[c].now \div W <= clk \div W
      BY <1>1, KeyOfCall
    <3> QED
      BY <1>3, <3>1
  <2>2. /\ cl[c].phase = "added" => st[KeyIn(W, cl[c])] # Absent
        /\ cl[c].phase # "missed"
    BY <1>1, <2>1 DEF KeysKept
  <2>3. cl[c].phase = "added" => KeyIn(W, cl[c]) \in DOMAIN st
    BY <1>1, KeyOfCall
  <2>4. KeyIn(W, cl[c])[2] = cl[c].now \div W
    BY DEF KeyIn
  <2> QED
    BY <1>6, <2>1, <2>2, <2>3, <2>4
<1>9. NoMoreThanCallers(W, st2, cl)
  <2>1. \A k \in DOMAIN st2 : st2[k] # Absent => st2[k] = st[k]
    BY <1>4
  <2> QED
    BY <1>1, <1>4, <2>1 DEF NoMoreThanCallers
<1> QED
  BY <1>1, <1>5, <1>7, <1>8, <1>9 DEF CounterInv

\* Before the first call.
LEMMA NoCalls ==
    ASSUME NEW Ids, NEW W \in Nat \ {0}, NEW st, st = [k \in KeySet(Ids, W) |-> Absent],
           NEW cl, cl = [c \in Callers |-> [phase |-> "idle", ident |-> Absent, now |-> 0, at |-> 0, count |-> 0]]
    PROVE  CounterInv(Ids, W, 0, st, cl)
<1>1. \A c \in Callers : cl[c] = [phase |-> "idle", ident |-> Absent, now |-> 0, at |-> 0, count |-> 0]
  OBVIOUS
<1>2. \A c \in Callers : cl[c].phase = "idle" /\ ~Counted(cl[c])
  BY <1>1 DEF Counted
<1>3. CounterTyped(Ids, W, 0, st, cl)
  <2>1. [phase |-> "idle", ident |-> Absent, now |-> 0, at |-> 0, count |-> 0] \in Job(Ids)
    BY AdmissionAssumption DEF Job
  <2>2. st \in [KeySet(Ids, W) -> Row \cup {Absent}] /\ cl \in [Callers -> Job(Ids)]
    BY <2>1
  <2>3. \A c \in Callers : cl[c].now <= 0 /\ cl[c].at <= 0
    BY <1>1
  <2> QED
    BY <1>2, <2>2, <2>3, AdmissionAssumption DEF CounterTyped
<1>4. \A k : TimelyUnder(W, cl, k) = {}
  BY <1>2 DEF TimelyUnder, Timely
<1>5. Numbered(W, cl)
  BY <1>2 DEF Numbered, Timely
<1>6. WindowOpen(W, 0, st, cl)
  BY <1>4 DEF WindowOpen
<1>7. KeysKept(W, 0, st, cl)
  BY <1>2 DEF KeysKept
<1>8. NoMoreThanCallers(W, st, cl)
  BY <1>2 DEF NoMoreThanCallers
<1> QED
  BY <1>3, <1>5, <1>6, <1>7, <1>8 DEF CounterInv

\* ReadClock: the window is chosen.
LEMMA StartCall ==
    ASSUME NEW Ids, NEW W \in Nat \ {0}, NEW clk, NEW st, NEW cl, CounterInv(Ids, W, clk, st, cl),
           NEW c \in Callers, NEW i \in Ids, cl[c].phase = "idle", NEW cl2,
           cl2 = [cl EXCEPT ![c].phase = "keyed", ![c].ident = i, ![c].now = clk]
    PROVE  CounterInv(Ids, W, clk, st, cl2)
<1>1. cl \in [Callers -> Job(Ids)] /\ clk \in 0 .. MaxTime /\ cl[c].at <= clk
  BY AdmissionAssumption DEF CounterInv, CounterTyped
<1>2. PICK job : job = [cl[c] EXCEPT !.phase = "keyed", !.ident = i, !.now = clk]
  OBVIOUS
<1>3. /\ job \in Job(Ids) /\ job.phase = "keyed" /\ job.ident = i /\ job.now = clk /\ job.at = cl[c].at
      /\ ~Counted(cl[c]) /\ ~Counted(job)
  BY <1>1, <1>2 DEF Job, Counted
<1>4. cl2 = [cl EXCEPT ![c] = job]
  BY <1>1, <1>2
<1>5. /\ job.now <= clk /\ job.at <= clk /\ (job.phase # "idle" => job.ident \in Ids)
      /\ job.phase # "added" /\ job.phase # "missed"
  BY <1>1, <1>3
<1>6. QuietJob(Ids, W, clk, st, cl[c], job)
  BY <1>3, <1>5 DEF QuietJob
<1> QED
  BY <1>4, <1>6, QuietCall

\* The verdict on a count is given.
LEMMA FinishCall ==
    ASSUME NEW Ids, NEW W \in Nat \ {0}, NEW clk, NEW st, NEW cl, CounterInv(Ids, W, clk, st, cl),
           NEW c \in Callers, cl[c].phase = "counted", NEW cl2, cl2 = [cl EXCEPT ![c].phase = "done"]
    PROVE  CounterInv(Ids, W, clk, st, cl2)
<1>1. /\ cl \in [Callers -> Job(Ids)] /\ cl[c].now <= clk /\ cl[c].at <= clk
      /\ cl[c].ident \in Ids
  BY DEF CounterInv, CounterTyped
<1>2. PICK job : job = [cl[c] EXCEPT !.phase = "done"]
  OBVIOUS
<1>3. /\ job \in Job(Ids) /\ job.phase = "done" /\ job.ident = cl[c].ident /\ job.now = cl[c].now
      /\ job.at = cl[c].at /\ job.count = cl[c].count /\ Counted(cl[c]) /\ Counted(job)
  BY <1>1, <1>2 DEF Job, Counted
<1>4. cl2 = [cl EXCEPT ![c] = job]
  BY <1>1, <1>2
<1>5. /\ job.now <= clk /\ job.at <= clk /\ (job.phase # "idle" => job.ident \in Ids)
      /\ job.phase # "added" /\ job.phase # "missed"
  BY <1>1, <1>3
<1>6. QuietJob(Ids, W, clk, st, cl[c], job)
  BY <1>3, <1>5 DEF QuietJob
<1> QED
  BY <1>4, <1>6, QuietCall

\* CacheStep: a key added while its window lasts lives to its end.
LEMMA CacheCall ==
    ASSUME NEW Ids, NEW W \in Nat \ {0}, NEW clk, NEW st, NEW cl, CounterInv(Ids, W, clk, st, cl),
           NEW c \in Callers, NEW k, k = KeyIn(W, cl[c]), NEW ttl \in Nat,
           cl[c].now \div W = clk \div W => clk + ttl >= (clk \div W + 1) * W,
           NEW st2, NEW cl2,
           \/ /\ cl[c].phase = "keyed"
              /\ st2 = IF st[k] = Absent THEN [st EXCEPT ![k] = [count |-> 0, expires |-> clk + ttl]] ELSE st
              /\ cl2 = [cl EXCEPT ![c].phase = "added"]
           \/ /\ cl[c].phase = "added" /\ st[k] # Absent
              /\ st2 = [st EXCEPT ![k].count = @ + 1]
              /\ cl2 = [cl EXCEPT ![c].phase = "counted", ![c].count = st[k].count + 1, ![c].at = clk]
           \/ /\ cl[c].phase = "added" /\ st[k] = Absent
              /\ st2 = st /\ cl2 = [cl EXCEPT ![c].phase = "missed"]
           \/ /\ cl[c].phase = "missed"
              /\ st2 = [st EXCEPT ![k] = [count |-> 1, expires |-> clk + ttl]]
              /\ cl2 = [cl EXCEPT ![c].phase = "counted", ![c].count = 1, ![c].at = clk]
    PROVE  CounterInv(Ids, W, clk, st2, cl2)
<1>1. /\ cl \in [Callers -> Job(Ids)] /\ clk \in Nat /\ clk \in 0 .. MaxTime /\ cl[c].now <= clk /\ cl[c].at <= clk
      /\ cl[c].phase # "idle" => cl[c].ident \in Ids
      /\ st \in [KeySet(Ids, W) -> Row \cup {Absent}]
  BY AdmissionAssumption DEF CounterInv, CounterTyped
<1>2. /\ cl[c].phase # "idle" => k \in DOMAIN st
      /\ cl[c].now \div W \in Nat /\ clk \div W \in Nat /\ cl[c].now \div W <= clk \div W
  BY KeyOfCall DEF CounterInv
<1>3. k[2] = cl[c].now \div W
  BY DEF KeyIn
<1>4. CASE /\ cl[c].phase = "keyed"
           /\ st2 = IF st[k] = Absent THEN [st EXCEPT ![k] = [count |-> 0, expires |-> clk + ttl]] ELSE st
           /\ cl2 = [cl EXCEPT ![c].phase = "added"]
  <2>1. PICK job : job = [cl[c] EXCEPT !.phase = "added"]
    OBVIOUS
  <2>2. /\ job \in Job(Ids) /\ job.phase = "added" /\ job.ident = cl[c].ident /\ job.now = cl[c].now
        /\ job.at = cl[c].at /\ ~Counted(cl[c]) /\ ~Counted(job)
    BY <1>1, <1>4, <2>1 DEF Job, Counted
  <2>3. cl2 = [cl EXCEPT ![c] = job] /\ KeyIn(W, job) = k
    BY <1>1, <1>4, <2>1, <2>2 DEF KeyIn
  <2>4. CounterInv(Ids, W, clk, st2, cl)
    <3>1. CASE st[k] # Absent
      BY <1>4, <3>1
    <3>2. CASE st[k] = Absent
      <4>1. PICK row : row = [count |-> 0, expires |-> clk + ttl]
        OBVIOUS
      <4>2. row \in Row /\ row.count = 0 /\ st2 = [st EXCEPT ![k] = row] /\ row.expires = clk + ttl
        BY <1>1, <1>4, <3>2, <4>1 DEF Row
      <4>3. k[2] = clk \div W => row.expires >= (k[2] + 1) * W
        BY <1>3, <4>2
      <4>4. k \in DOMAIN st /\ k[2] <= clk \div W
        BY <1>2, <1>3, <1>4
      <4> QED
        BY <3>2, <4>2, <4>3, <4>4, AddKey
    <3> QED
      BY <3>1, <3>2
  <2>5. st2[k] # Absent
    <3>1. [count |-> 0, expires |-> clk + ttl] # Absent
      BY <1>1, AdmissionAssumption
    <3> QED
      BY <1>1, <1>2, <1>4, <3>1
  <2>6. /\ job.now <= clk /\ job.at <= clk /\ (job.phase # "idle" => job.ident \in Ids)
        /\ st2[KeyIn(W, job)] # Absent /\ job.phase # "missed"
    BY <1>1, <1>4, <2>2, <2>3, <2>5
  <2>7. QuietJob(Ids, W, clk, st2, cl[c], job)
    BY <2>2, <2>6 DEF QuietJob
  <2> QED
    BY <2>3, <2>4, <2>7, QuietCall
<1>5. CASE /\ cl[c].phase = "added" /\ st[k] # Absent
           /\ st2 = [st EXCEPT ![k].count = @ + 1]
           /\ cl2 = [cl EXCEPT ![c].phase = "counted", ![c].count = st[k].count + 1, ![c].at = clk]
  <2>1. st[k] \in Row /\ st[k].count \in Nat /\ k \in DOMAIN st
    BY <1>1, <1>2, <1>5 DEF Row
  <2>2. PICK row : row = [st[k] EXCEPT !.count = st[k].count + 1]
    OBVIOUS
  <2>3. row \in Row /\ row.count = st[k].count + 1 /\ row.expires = st[k].expires
    BY <2>1, <2>2 DEF Row
  <2>4. st2 = [st EXCEPT ![k] = row]
    BY <1>1, <1>5, <2>1, <2>2
  <2>5. PICK job : job = [cl[c] EXCEPT !.phase = "counted", !.count = row.count, !.at = clk]
    OBVIOUS
  <2>6. cl2 = [cl EXCEPT ![c] = job]
    BY <1>1, <1>5, <2>3, <2>5
  <2>7. /\ job \in Job(Ids) /\ job.phase = "counted" /\ job.count = row.count /\ job.at = clk
        /\ job.ident = cl[c].ident /\ job.now = cl[c].now
    BY <1>1, <2>3, <2>5 DEF Job, Row
  <2> QED
    <3>1. CountedJob(Ids, clk, st[k], cl[c], row, job)
      BY <1>5, <2>3, <2>7 DEF CountedJob
    <3> QED
      BY <2>4, <2>6, <3>1, CountCall
<1>6. CASE /\ cl[c].phase = "added" /\ st[k] = Absent
           /\ st2 = st /\ cl2 = [cl EXCEPT ![c].phase = "missed"]
  <2>1. PICK job : job = [cl[c] EXCEPT !.phase = "missed"]
    OBVIOUS
  <2>2. /\ job \in Job(Ids) /\ job.phase = "missed" /\ job.ident = cl[c].ident /\ job.now = cl[c].now
        /\ job.at = cl[c].at /\ ~Counted(cl[c]) /\ ~Counted(job)
    BY <1>1, <1>6, <2>1 DEF Job, Counted
  <2>3. cl2 = [cl EXCEPT ![c] = job]
    BY <1>1, <1>6, <2>1
  <2>4. cl[c].now \div W # clk \div W
    BY <1>6 DEF CounterInv, KeysKept
  <2>5. /\ job.now <= clk /\ job.at <= clk /\ (job.phase # "idle" => job.ident \in Ids)
        /\ job.now \div W # clk \div W
    BY <1>1, <1>6, <2>2, <2>4
  <2> QED
    <3>1. QuietJob(Ids, W, clk, st, cl[c], job)
      BY <2>2, <2>5 DEF QuietJob
    <3> QED
      BY <1>6, <2>3, <3>1, QuietCall
<1>7. CASE /\ cl[c].phase = "missed"
           /\ st2 = [st EXCEPT ![k] = [count |-> 1, expires |-> clk + ttl]]
           /\ cl2 = [cl EXCEPT ![c].phase = "counted", ![c].count = 1, ![c].at = clk]
  <2>1. PICK row : row = [count |-> 1, expires |-> clk + ttl]
    OBVIOUS
  <2>2. row \in Row /\ row.count = 1 /\ st2 = [st EXCEPT ![k] = row]
    BY <1>1, <1>7, <2>1 DEF Row
  <2>3. PICK job : job = [cl[c] EXCEPT !.phase = "counted", !.count = row.count, !.at = clk]
    OBVIOUS
  <2>4. cl2 = [cl EXCEPT ![c] = job]
    BY <1>1, <1>7, <2>2, <2>3
  <2>5. /\ job \in Job(Ids) /\ job.phase = "counted" /\ job.count = row.count /\ job.at = clk
        /\ job.ident = cl[c].ident /\ job.now = cl[c].now
    <3>1. cl[c] \in Job(Ids) /\ row.count \in Nat
      BY <1>1, <2>2
    <3> QED
      BY <1>1, <2>3, <3>1 DEF Job
  <2> QED
    <3>1. CountedJob(Ids, clk, st[k], cl[c], row, job)
      BY <1>7, <2>2, <2>5 DEF CountedJob
    <3> QED
      BY <2>2, <2>4, <3>1, CountCall
<1> QED
  BY <1>4, <1>5, <1>6, <1>7

----------------------------------------------------------------------------
(* The two counters. *)

LEMMA PhoneStarts ==
    ASSUME CounterInv(Idents, Window, clock, hits, throttling),
           NEW c \in Callers, NEW i \in Idents, Phone!FW!ReadClock(c, i)
    PROVE  /\ CounterInv(Idents, Window, clock', hits', throttling')
           /\ throttling[c].phase = "idle" /\ throttling'[c].phase = "keyed" /\ throttling'[c].ident = i
           /\ \A d \in Callers \ {c} : throttling'[d] = throttling[d]
<1>1. /\ throttling[c].phase = "idle" /\ clock' = clock /\ hits' = hits
      /\ throttling' = [throttling EXCEPT ![c].phase = "keyed", ![c].ident = i, ![c].now = clock]
  BY DEF Phone!FW!ReadClock
<1>2. throttling \in [Callers -> Job(Idents)]
  BY DEF CounterInv, CounterTyped
<1>3. CounterInv(Idents, Window, clock, hits, throttling')
  BY <1>1, StartCall, AdmissionAssumption
<1> QED
  BY <1>1, <1>2, <1>3 DEF Job

LEMMA PhoneCounts ==
    ASSUME CounterInv(Idents, Window, clock, hits, throttling), NEW c \in Callers, Phone!FW!CacheStep(c)
    PROVE  /\ CounterInv(Idents, Window, clock', hits', throttling')
           /\ throttling[c].phase \in {"keyed", "added", "missed"}
           /\ throttling'[c].phase \in {"added", "missed", "counted"}
           /\ throttling'[c].ident = throttling[c].ident
           /\ \A d \in Callers \ {c} : throttling'[d] = throttling[d]
           /\ clock' = clock
<1> DEFINE st == hits
           cl == throttling
           k == KeyIn(Window, throttling[c])
<1>1. /\ clock' = clock
      /\ \/ /\ cl[c].phase = "keyed"
            /\ hits' = IF st[k] = Absent THEN [st EXCEPT ![k] = [count |-> 0, expires |-> clock + Window]] ELSE st
            /\ throttling' = [cl EXCEPT ![c].phase = "added"]
         \/ /\ cl[c].phase = "added" /\ st[k] # Absent
            /\ hits' = [st EXCEPT ![k].count = @ + 1]
            /\ throttling' = [cl EXCEPT ![c].phase = "counted", ![c].count = st[k].count + 1, ![c].at = clock]
         \/ /\ cl[c].phase = "added" /\ st[k] = Absent
            /\ hits' = st /\ throttling' = [cl EXCEPT ![c].phase = "missed"]
         \/ /\ cl[c].phase = "missed"
            /\ hits' = [st EXCEPT ![k] = [count |-> 1, expires |-> clock + Window]]
            /\ throttling' = [cl EXCEPT ![c].phase = "counted", ![c].count = 1, ![c].at = clock]
  BY DEF Phone!FW!CacheStep, Phone!FW!CacheAdd, Phone!FW!CacheIncr, Phone!FW!CacheSet, Phone!FW!Counted,
         Phone!FW!Fresh, Phone!FW!Key, Phone!FW!KeyOf, Phone!Ttl, KeyIn
<1>2. throttling \in [Callers -> Job(Idents)] /\ clock \in Nat
  BY AdmissionAssumption DEF CounterInv, CounterTyped
<1>3. clock + Window >= (clock \div Window + 1) * Window
  <2>1. /\ clock \div Window \in Nat /\ (clock \div Window) * Window <= clock
        /\ (clock \div Window) * Window \in Nat /\ Window \in Nat
    BY <1>2, Windows, AdmissionAssumption
  <2>2. (clock \div Window + 1) * Window = (clock \div Window) * Window + Window
    BY <2>1
  <2> QED
    BY <1>2, <2>1, <2>2
<1>4. CounterInv(Idents, Window, clock, hits', throttling')
  BY <1>1, <1>3, CacheCall, AdmissionAssumption
<1> QED
  BY <1>1, <1>2, <1>4 DEF Job

LEMMA PhoneDecides ==
    ASSUME CounterInv(Idents, Window, clock, hits, throttling), allowed \subseteq Callers,
           NEW c \in Callers, Phone!AllowRequest(c)
    PROVE  /\ CounterInv(Idents, Window, clock', hits', throttling')
           /\ throttling[c].phase = "counted" /\ throttling'[c].phase = "done"
           /\ throttling'[c].ident = throttling[c].ident /\ throttling'[c].count = throttling[c].count
           /\ \A d \in Callers \ {c} : throttling'[d] = throttling[d]
           /\ c \in allowed' => c \in allowed \/ throttling'[c].count <= Limit
           /\ allowed' \subseteq Callers /\ \A d \in Callers \ {c} : d \in allowed' <=> d \in allowed
           /\ clock' = clock
<1>1. /\ throttling[c].phase = "counted" /\ clock' = clock /\ hits' = hits
      /\ throttling' = [throttling EXCEPT ![c].phase = "done"]
      /\ allowed' = IF throttling[c].count > Limit THEN allowed ELSE allowed \cup {c}
  BY DEF Phone!AllowRequest, Phone!OverLimit
<1>2. throttling \in [Callers -> Job(Idents)] /\ throttling[c].count \in Nat
  BY DEF CounterInv, CounterTyped, Job
<1>3. CounterInv(Idents, Window, clock, hits, throttling')
  BY <1>1, FinishCall, AdmissionAssumption
<1>4. /\ throttling'[c].phase = "done" /\ throttling'[c].ident = throttling[c].ident
      /\ throttling'[c].count = throttling[c].count
      /\ \A d \in Callers \ {c} : throttling'[d] = throttling[d]
  BY <1>1, <1>2 DEF Job
<1>5. c \in allowed' => c \in allowed \/ throttling'[c].count <= Limit
  BY <1>1, <1>2, <1>4, AdmissionAssumption
<1> QED
  BY <1>1, <1>3, <1>4, <1>5

LEMMA BudgetStarts ==
    ASSUME CounterInv({"sms"}, Day, clock, spent, budgeting),
           NEW c \in Callers, Budget!FW!ReadClock(c, "sms")
    PROVE  /\ CounterInv({"sms"}, Day, clock', spent', budgeting')
           /\ budgeting[c].phase = "idle" /\ budgeting'[c].phase = "keyed"
           /\ \A d \in Callers \ {c} : budgeting'[d] = budgeting[d]
           /\ clock' = clock
<1>1. /\ budgeting[c].phase = "idle" /\ clock' = clock /\ spent' = spent
      /\ budgeting' = [budgeting EXCEPT ![c].phase = "keyed", ![c].ident = "sms", ![c].now = clock]
  BY DEF Budget!FW!ReadClock
<1>2. budgeting \in [Callers -> Job({"sms"})]
  BY DEF CounterInv, CounterTyped
<1>3. "sms" \in {"sms"}
  OBVIOUS
<1>4. CounterInv({"sms"}, Day, clock, spent, budgeting')
  BY <1>1, <1>3, StartCall, AdmissionAssumption
<1> QED
  BY <1>1, <1>2, <1>4 DEF Job

LEMMA BudgetCounts ==
    ASSUME CounterInv({"sms"}, Day, clock, spent, budgeting), NEW c \in Callers, Budget!FW!CacheStep(c)
    PROVE  /\ CounterInv({"sms"}, Day, clock', spent', budgeting')
           /\ budgeting[c].phase \in {"keyed", "added", "missed"}
           /\ budgeting'[c].phase \in {"added", "missed", "counted"}
           /\ \A d \in Callers \ {c} : budgeting'[d] = budgeting[d]
           /\ clock' = clock
<1> DEFINE st == spent
           cl == budgeting
           k == KeyIn(Day, budgeting[c])
           ttl == (budgeting[c].now \div Day + 1) * Day - budgeting[c].now
<1>1. /\ clock' = clock
      /\ \/ /\ cl[c].phase = "keyed"
            /\ spent' = IF st[k] = Absent THEN [st EXCEPT ![k] = [count |-> 0, expires |-> clock + ttl]] ELSE st
            /\ budgeting' = [cl EXCEPT ![c].phase = "added"]
         \/ /\ cl[c].phase = "added" /\ st[k] # Absent
            /\ spent' = [st EXCEPT ![k].count = @ + 1]
            /\ budgeting' = [cl EXCEPT ![c].phase = "counted", ![c].count = st[k].count + 1, ![c].at = clock]
         \/ /\ cl[c].phase = "added" /\ st[k] = Absent
            /\ spent' = st /\ budgeting' = [cl EXCEPT ![c].phase = "missed"]
         \/ /\ cl[c].phase = "missed"
            /\ spent' = [st EXCEPT ![k] = [count |-> 1, expires |-> clock + ttl]]
            /\ budgeting' = [cl EXCEPT ![c].phase = "counted", ![c].count = 1, ![c].at = clock]
  BY DEF Budget!FW!CacheStep, Budget!FW!CacheAdd, Budget!FW!CacheIncr, Budget!FW!CacheSet, Budget!FW!Counted,
         Budget!FW!Fresh, Budget!FW!Key, Budget!FW!KeyOf, Budget!Ttl, KeyIn
<1>2. /\ budgeting \in [Callers -> Job({"sms"})] /\ clock \in Nat
      /\ budgeting[c].now \in Nat /\ budgeting[c].now <= clock
  BY AdmissionAssumption DEF CounterInv, CounterTyped, Job
<1>3. ttl \in Nat /\ (budgeting[c].now \div Day = clock \div Day => clock + ttl >= (clock \div Day + 1) * Day)
  <2>1. PICK now : now = budgeting[c].now
    OBVIOUS
  <2>2. PICK end : end = (now \div Day + 1) * Day
    OBVIOUS
  <2>3. now \in Nat /\ now <= clock /\ end \in Nat /\ now < end
    BY <1>2, <2>1, <2>2, Windows, AdmissionAssumption
  <2>4. end - now \in Nat /\ clock + (end - now) >= end
    BY <1>2, <2>3
  <2>5. ttl = end - now
    BY <2>1, <2>2
  <2>6. now \div Day = clock \div Day => end = (clock \div Day + 1) * Day
    BY <2>2
  <2> HIDE DEF ttl
  <2> QED
    BY <2>1, <2>4, <2>5, <2>6
<1>4. CounterInv({"sms"}, Day, clock, spent', budgeting')
  <2> HIDE DEF ttl
  <2> QED
    BY <1>1, <1>3, CacheCall, AdmissionAssumption
<1> QED
  BY <1>1, <1>2, <1>4 DEF Job

LEMMA BudgetDecides ==
    ASSUME CounterInv({"sms"}, Day, clock, spent, budgeting), reserved \subseteq Callers,
           warned \subseteq Callers, exhausted \subseteq Callers, NEW c \in Callers, Budget!Reserve(c)
    PROVE  /\ CounterInv({"sms"}, Day, clock', spent', budgeting')
           /\ budgeting[c].phase = "counted" /\ budgeting'[c].phase = "done"
           /\ budgeting'[c].count = budgeting[c].count
           /\ \A d \in Callers \ {c} : budgeting'[d] = budgeting[d]
           /\ \/ /\ budgeting[c].count > SMS_DAILY_LIMIT
                 /\ exhausted' = exhausted \cup {c} /\ reserved' = reserved /\ warned' = warned
              \/ /\ budgeting[c].count <= SMS_DAILY_LIMIT
                 /\ exhausted' = exhausted /\ reserved' = reserved \cup {c}
                 /\ warned' = IF budgeting[c].count = Budget!WarnAt THEN warned \cup {c} ELSE warned
           /\ clock' = clock
<1>1. /\ budgeting[c].phase = "counted" /\ clock' = clock /\ spent' = spent
      /\ budgeting' = [budgeting EXCEPT ![c].phase = "done"]
      /\ IF budgeting[c].count > SMS_DAILY_LIMIT
         THEN exhausted' = exhausted \cup {c} /\ reserved' = reserved /\ warned' = warned
         ELSE /\ reserved' = reserved \cup {c} /\ exhausted' = exhausted
              /\ warned' = IF budgeting[c].count = Budget!WarnAt THEN warned \cup {c} ELSE warned
  BY DEF Budget!Reserve
<1>2. budgeting \in [Callers -> Job({"sms"})] /\ budgeting[c].count \in Nat
  BY DEF CounterInv, CounterTyped, Job
<1>3. CounterInv({"sms"}, Day, clock, spent, budgeting')
  BY <1>1, FinishCall, AdmissionAssumption
<1>4. /\ budgeting'[c].phase = "done" /\ budgeting'[c].count = budgeting[c].count
      /\ \A d \in Callers \ {c} : budgeting'[d] = budgeting[d]
  BY <1>1, <1>2 DEF Job
<1>5. budgeting[c].count <= SMS_DAILY_LIMIT <=> ~(budgeting[c].count > SMS_DAILY_LIMIT)
  BY <1>2, AdmissionAssumption
<1> QED
  BY <1>1, <1>3, <1>4, <1>5

LEMMA ClockTicks ==
    ASSUME CounterInv(Idents, Window, clock, hits, throttling),
           CounterInv({"sms"}, Day, clock, spent, budgeting), Tick
    PROVE  /\ CounterInv(Idents, Window, clock', hits', throttling')
           /\ CounterInv({"sms"}, Day, clock', spent', budgeting')
           /\ throttling' = throttling /\ budgeting' = budgeting
<1>1. /\ clock < MaxTime /\ clock' = clock + 1 /\ throttling' = throttling /\ budgeting' = budgeting
      /\ hits' = [k \in Phone!FW!Keys |-> IF hits[k] # Absent /\ hits[k].expires <= clock' THEN Absent ELSE hits[k]]
      /\ spent' = [k \in Budget!FW!Keys |-> IF spent[k] # Absent /\ spent[k].expires <= clock' THEN Absent ELSE spent[k]]
  BY DEF Tick, Phone!FW!Tick, Budget!FW!Tick
<1>2. Phone!FW!Keys = DOMAIN hits
  BY DEF Phone!FW!Keys, Phone!FW!KeyOf, CounterInv, CounterTyped, KeySet
<1>3. Budget!FW!Keys = DOMAIN spent
  BY DEF Budget!FW!Keys, Budget!FW!KeyOf, CounterInv, CounterTyped, KeySet
<1>4. CounterInv(Idents, Window, clock', hits', throttling)
  BY <1>1, <1>2, TickCounter, AdmissionAssumption
<1>5. CounterInv({"sms"}, Day, clock', spent', budgeting)
  BY <1>1, <1>3, TickCounter, AdmissionAssumption
<1> QED
  BY <1>1, <1>4, <1>5

----------------------------------------------------------------------------
(* The requests. *)

Stays(d) ==
    /\ visit'[d] = visit[d] /\ throttling'[d] = throttling[d] /\ budgeting'[d] = budgeting[d]
    /\ d \in allowed' <=> d \in allowed
    /\ d \in reserved' <=> d \in reserved
    /\ d \in warned' <=> d \in warned
    /\ d \in exhausted' <=> d \in exhausted

CallerOk(d) == Verdicts(d) /\ PhoneCounted(d) /\ ShareSpent(d)

\* What one caller does concerns no other.
LEMMA CallersApart ==
    ASSUME AdmissionInv, NEW c \in Callers, \A d \in Callers \ {c} : Stays(d), CallerOk(c)'
    PROVE  \A d \in Callers : (Verdicts(d) /\ PhoneCounted(d) /\ ShareSpent(d))'
<1>1. ASSUME NEW d \in Callers, d # c
      PROVE  (Verdicts(d) /\ PhoneCounted(d) /\ ShareSpent(d))'
  <2>1. Verdicts(d) /\ PhoneCounted(d) /\ ShareSpent(d) /\ Stays(d)
    BY <1>1 DEF AdmissionInv
  <2>2. Verdicts(d)'
    BY <2>1 DEF Verdicts, Stays, Budget!WarnAt
  <2>3. PhoneCounted(d)'
    BY <2>1 DEF PhoneCounted, Stays
  <2>4. ShareSpent(d)'
    BY <2>1 DEF ShareSpent, Accounted, Stays
  <2> QED
    BY <2>2, <2>3, <2>4
<1> QED
  BY <1>1 DEF CallerOk

LEMMA AdmissionInitInv ==
    ASSUME Init
    PROVE  AdmissionInv
<1>1. Phone!FW!FWInit /\ Budget!FW!FWInit /\ allowed = {} /\ reserved = {} /\ warned = {} /\ exhausted = {}
  BY DEF Init, Phone!Init, Budget!Init
<1>2. /\ clock = 0 /\ hits = [k \in KeySet(Idents, Window) |-> Absent]
      /\ throttling = [c \in Callers |-> [phase |-> "idle", ident |-> Absent, now |-> 0, at |-> 0, count |-> 0]]
  BY <1>1 DEF Phone!FW!FWInit, Phone!FW!Keys, Phone!FW!KeyOf, KeySet
<1>3. /\ spent = [k \in KeySet({"sms"}, Day) |-> Absent]
      /\ budgeting = [c \in Callers |-> [phase |-> "idle", ident |-> Absent, now |-> 0, at |-> 0, count |-> 0]]
  BY <1>1 DEF Budget!FW!FWInit, Budget!FW!Keys, Budget!FW!KeyOf, KeySet
<1>4. CounterInv(Idents, Window, clock, hits, throttling)
  BY <1>2, NoCalls, AdmissionAssumption
<1>5. CounterInv({"sms"}, Day, clock, spent, budgeting)
  BY <1>2, <1>3, NoCalls, AdmissionAssumption
<1>6. visit = [c \in Callers |-> [raw |-> Absent, stage |-> "new", answer |-> Absent, texted |-> FALSE]]
  BY DEF Init
<1>7. Visited
  BY <1>6 DEF Visited, Stages, Answers
<1>8. ASSUME NEW c \in Callers
      PROVE  Verdicts(c) /\ PhoneCounted(c) /\ ShareSpent(c)
  <2>1. visit[c].stage = "new" /\ visit[c].texted = FALSE /\ budgeting[c].phase = "idle"
    BY <1>3, <1>6
  <2> QED
    BY <1>1, <2>1 DEF Verdicts, PhoneCounted, ShareSpent, Accounted
<1> QED
  BY <1>1, <1>4, <1>5, <1>7, <1>8 DEF AdmissionInv

LEMMA AdmissionNextInv ==
    ASSUME AdmissionInv, [Next]_vars
    PROVE  AdmissionInv'
<1>1. /\ CounterInv(Idents, Window, clock, hits, throttling)
      /\ CounterInv({"sms"}, Day, clock, spent, budgeting)
      /\ allowed \subseteq Callers /\ reserved \subseteq Callers
      /\ warned \subseteq Callers /\ exhausted \subseteq Callers
      /\ Visited
      /\ \A d \in Callers : Verdicts(d) /\ PhoneCounted(d) /\ ShareSpent(d)
  BY DEF AdmissionInv
<1>2. CASE UNCHANGED vars
  BY <1>1, <1>2 DEF AdmissionInv, vars, Visited, Verdicts, PhoneCounted, ShareSpent, Accounted, Budget!WarnAt
<1>3. CASE Tick
  <2>1. /\ CounterInv(Idents, Window, clock', hits', throttling')
        /\ CounterInv({"sms"}, Day, clock', spent', budgeting')
        /\ throttling' = throttling /\ budgeting' = budgeting
    BY <1>1, <1>3, ClockTicks
  <2>2. UNCHANGED <<allowed, reserved, warned, exhausted, visit>>
    BY <1>3 DEF Tick
  <2>3. \A d \in Callers : (Verdicts(d) /\ PhoneCounted(d) /\ ShareSpent(d))'
    BY <1>1, <2>1, <2>2 DEF Verdicts, PhoneCounted, ShareSpent, Accounted, Budget!WarnAt
  <2> QED
    BY <1>1, <2>1, <2>2, <2>3 DEF AdmissionInv, Visited
<1>4. ASSUME NEW c \in Callers, NEW s \in Spellings, Arrive(c, s)
      PROVE  AdmissionInv'
  <2>1. /\ visit[c].stage = "new" /\ UNCHANGED <<spent, budgeting, reserved, warned, exhausted, allowed>>
        /\ IF GetIdent(s) = Absent
           THEN /\ visit' = [visit EXCEPT ![c].raw = s, ![c].stage = "answered", ![c].answer = "400"]
                /\ UNCHANGED <<clock, hits, throttling>>
           ELSE /\ visit' = [visit EXCEPT ![c].raw = s, ![c].stage = "throttle"]
                /\ Phone!FW!ReadClock(c, GetIdent(s))
    BY <1>4 DEF Arrive, throttleVars, budgetVars
  <2>2. Visited' /\ \A d \in Callers \ {c} : visit'[d] = visit[d]
    BY <1>1, <2>1 DEF Visited, Stages, Answers
  <2>3. /\ visit'[c].raw = s /\ visit'[c].texted = visit[c].texted
        /\ visit'[c].stage = IF GetIdent(s) = Absent THEN "answered" ELSE "throttle"
    BY <1>1, <2>1 DEF Visited
  <2>4. /\ CounterInv(Idents, Window, clock', hits', throttling') /\ clock' = clock
        /\ \A d \in Callers \ {c} : throttling'[d] = throttling[d]
        /\ GetIdent(s) # Absent => throttling[c].phase = "idle" /\ throttling'[c].ident = GetIdent(s)
        /\ GetIdent(s) = Absent => throttling' = throttling
    <3>1. CASE GetIdent(s) = Absent
      BY <1>1, <2>1, <3>1
    <3>2. CASE GetIdent(s) # Absent
      <4>1. GetIdent(s) \in Idents
        BY <3>2 DEF Idents
      <4>2. Phone!FW!ReadClock(c, GetIdent(s))
        BY <2>1, <3>2
      <4>3. clock' = clock
        BY <4>2 DEF Phone!FW!ReadClock
      <4> QED
        BY <1>1, <3>2, <4>1, <4>2, <4>3, PhoneStarts
    <3> QED
      BY <3>1, <3>2
  <2>5. Verdicts(c) /\ PhoneCounted(c) /\ ShareSpent(c)
    BY <1>1
  <2>6. CallerOk(c)'
    <3>1. Verdicts(c)'
      BY <2>1, <2>4, <2>5 DEF Verdicts, Budget!WarnAt
    <3>2. ~visit'[c].texted
      BY <2>1, <2>3, <2>5 DEF ShareSpent, Accounted
    <3>3. PhoneCounted(c)'
      BY <2>3, <2>4, <3>2 DEF PhoneCounted
    <3>4. ShareSpent(c)'
      BY <2>1, <2>3, <2>5, <3>2 DEF ShareSpent, Accounted
    <3> QED
      BY <3>1, <3>3, <3>4 DEF CallerOk
  <2>7. \A d \in Callers \ {c} : Stays(d)
    BY <2>1, <2>2, <2>4 DEF Stays
  <2>8. CounterInv({"sms"}, Day, clock', spent', budgeting')
    BY <1>1, <2>1, <2>4
  <2>9. \A d \in Callers : (Verdicts(d) /\ PhoneCounted(d) /\ ShareSpent(d))'
    BY <2>6, <2>7, CallersApart
  <2> QED
    BY <1>1, <2>1, <2>2, <2>4, <2>8, <2>9 DEF AdmissionInv
<1>5. ASSUME NEW c \in Callers, Count(c)
      PROVE  AdmissionInv'
  <2>1. Phone!FW!CacheStep(c) /\ UNCHANGED <<allowed, spent, budgeting, reserved, warned, exhausted, visit>>
    BY <1>5 DEF Count, budgetVars
  <2>2. /\ CounterInv(Idents, Window, clock', hits', throttling') /\ clock' = clock
        /\ throttling[c].phase \in {"keyed", "added", "missed"}
        /\ throttling'[c].ident = throttling[c].ident
        /\ \A d \in Callers \ {c} : throttling'[d] = throttling[d]
    BY <1>1, <2>1, PhoneCounts
  <2>3. Verdicts(c) /\ PhoneCounted(c) /\ ShareSpent(c)
    BY <1>1
  <2>4. CallerOk(c)'
    <3>1. Verdicts(c)'
      BY <2>1, <2>2, <2>3 DEF Verdicts, Budget!WarnAt
    <3>2. PhoneCounted(c)'
      BY <2>1, <2>2, <2>3 DEF PhoneCounted
    <3>3. ShareSpent(c)'
      BY <2>1, <2>3 DEF ShareSpent, Accounted
    <3> QED
      BY <3>1, <3>2, <3>3 DEF CallerOk
  <2>5. \A d \in Callers \ {c} : Stays(d)
    BY <2>1, <2>2 DEF Stays
  <2>6. \A d \in Callers : (Verdicts(d) /\ PhoneCounted(d) /\ ShareSpent(d))'
    BY <2>4, <2>5, CallersApart
  <2> QED
    BY <1>1, <2>1, <2>2, <2>6 DEF AdmissionInv, Visited
<1>6. ASSUME NEW c \in Callers, CheckThrottles(c)
      PROVE  AdmissionInv'
  <2>1. /\ Phone!AllowRequest(c) /\ UNCHANGED <<spent, budgeting, reserved, warned, exhausted>>
        /\ visit[c].stage = "throttle"
        /\ \/ /\ c \in allowed' /\ NormalizePhoneStrict(visit[c].raw) # Absent
              /\ visit' = [visit EXCEPT ![c].stage = "request_otp"]
           \/ /\ visit' = [visit EXCEPT ![c].stage = "answered", ![c].answer = "400"]
           \/ /\ visit' = [visit EXCEPT ![c].stage = "answered", ![c].answer = "429"]
    BY <1>6 DEF CheckThrottles, Post, Stage, Reply, budgetVars
  <2>2. /\ CounterInv(Idents, Window, clock', hits', throttling') /\ clock' = clock
        /\ throttling[c].phase = "counted" /\ throttling'[c].phase = "done"
        /\ throttling'[c].ident = throttling[c].ident
        /\ \A d \in Callers \ {c} : throttling'[d] = throttling[d]
        /\ c \in allowed' => c \in allowed \/ throttling'[c].count <= Limit
        /\ allowed' \subseteq Callers /\ \A d \in Callers \ {c} : d \in allowed' <=> d \in allowed
    BY <1>1, <2>1, PhoneDecides
  <2>3. Visited' /\ \A d \in Callers \ {c} : visit'[d] = visit[d]
    BY <1>1, <2>1 DEF Visited, Stages, Answers
  <2>4. /\ visit'[c].raw = visit[c].raw /\ visit'[c].texted = visit[c].texted
        /\ \/ visit'[c].stage = "request_otp" /\ c \in allowed' /\ NormalizePhoneStrict(visit[c].raw) # Absent
           \/ visit'[c].stage = "answered"
    BY <1>1, <2>1 DEF Visited
  <2>5. Verdicts(c) /\ PhoneCounted(c) /\ ShareSpent(c)
    BY <1>1
  <2>6. CallerOk(c)'
    <3>1. Verdicts(c)'
      BY <2>1, <2>2, <2>5 DEF Verdicts, Budget!WarnAt
    <3>2. ~visit'[c].texted
      BY <2>1, <2>4, <2>5 DEF ShareSpent, Accounted
    <3>3. PhoneCounted(c)'
      BY <2>1, <2>2, <2>4, <2>5, <3>2 DEF PhoneCounted
    <3>4. ShareSpent(c)'
      BY <2>1, <2>4, <2>5, <3>2 DEF ShareSpent, Accounted
    <3> QED
      BY <3>1, <3>3, <3>4 DEF CallerOk
  <2>7. \A d \in Callers \ {c} : Stays(d)
    BY <2>1, <2>2, <2>3 DEF Stays
  <2>8. CounterInv({"sms"}, Day, clock', spent', budgeting')
    BY <1>1, <2>1, <2>2
  <2>9. \A d \in Callers : (Verdicts(d) /\ PhoneCounted(d) /\ ShareSpent(d))'
    BY <2>6, <2>7, CallersApart
  <2> QED
    BY <1>1, <2>1, <2>2, <2>3, <2>8, <2>9 DEF AdmissionInv
<1>7. ASSUME NEW c \in Callers, Blocked(c)
      PROVE  AdmissionInv'
  <2>1. /\ budgeting[c].phase = "idle" /\ visit[c].stage = "request_otp"
        /\ visit' = [visit EXCEPT ![c].stage = "answered", ![c].answer = "202"]
        /\ UNCHANGED <<clock, hits, throttling, allowed, spent, budgeting, reserved, warned, exhausted>>
    BY <1>7 DEF Blocked, Reply, throttleVars, budgetVars
  <2>2. Visited' /\ \A d \in Callers \ {c} : visit'[d] = visit[d]
    BY <1>1, <2>1 DEF Visited, Stages, Answers
  <2>3. /\ visit'[c].raw = visit[c].raw /\ visit'[c].texted = visit[c].texted
        /\ visit'[c].stage = "answered"
    BY <1>1, <2>1 DEF Visited
  <2>4. CallerOk(c)'
    <3>1. Verdicts(c) /\ PhoneCounted(c) /\ ShareSpent(c)
      BY <1>1
    <3>2. Verdicts(c)'
      BY <2>1, <3>1 DEF Verdicts, Budget!WarnAt
    <3>3. PhoneCounted(c)'
      BY <2>1, <2>3, <3>1 DEF PhoneCounted
    <3>4. ShareSpent(c)'
      BY <2>1, <2>3, <3>1 DEF ShareSpent, Accounted
    <3> QED
      BY <3>2, <3>3, <3>4 DEF CallerOk
  <2>5. \A d \in Callers \ {c} : Stays(d)
    BY <2>1, <2>2 DEF Stays
  <2>6. \A d \in Callers : (Verdicts(d) /\ PhoneCounted(d) /\ ShareSpent(d))'
    BY <2>4, <2>5, CallersApart
  <2> QED
    BY <1>1, <2>1, <2>2, <2>6 DEF AdmissionInv
<1>8. ASSUME NEW c \in Callers, ReserveStart(c)
      PROVE  AdmissionInv'
  <2>1. /\ visit[c].stage = "request_otp" /\ Budget!FW!ReadClock(c, "sms")
        /\ UNCHANGED <<hits, throttling, allowed, reserved, warned, exhausted, visit>>
    BY <1>8 DEF ReserveStart, throttleVars
  <2>2. /\ CounterInv({"sms"}, Day, clock', spent', budgeting') /\ clock' = clock
        /\ budgeting[c].phase = "idle"
        /\ budgeting'[c].phase \in {"keyed", "added", "missed", "counted"}
        /\ \A d \in Callers \ {c} : budgeting'[d] = budgeting[d]
    BY <1>1, <2>1, BudgetStarts
  <2>3. Verdicts(c) /\ PhoneCounted(c) /\ ShareSpent(c)
    BY <1>1
  <2>4. CallerOk(c)'
    <3>1. Verdicts(c)'
      BY <2>1, <2>2, <2>3 DEF Verdicts, Budget!WarnAt
    <3>2. PhoneCounted(c)'
      BY <2>1, <2>3 DEF PhoneCounted
    <3>3. ShareSpent(c)'
      BY <2>1, <2>2, <2>3 DEF ShareSpent, Accounted, Verdicts
    <3> QED
      BY <3>1, <3>2, <3>3 DEF CallerOk
  <2>5. \A d \in Callers \ {c} : Stays(d)
    BY <2>1, <2>2 DEF Stays
  <2>6. CounterInv(Idents, Window, clock', hits', throttling')
    BY <1>1, <2>1, <2>2
  <2>7. \A d \in Callers : (Verdicts(d) /\ PhoneCounted(d) /\ ShareSpent(d))'
    BY <2>4, <2>5, CallersApart
  <2> QED
    BY <1>1, <2>1, <2>2, <2>6, <2>7 DEF AdmissionInv, Visited
<1>9. ASSUME NEW c \in Callers, ReserveCount(c)
      PROVE  AdmissionInv'
  <2>1. /\ Budget!FW!CacheStep(c)
        /\ UNCHANGED <<hits, throttling, allowed, reserved, warned, exhausted, visit>>
    BY <1>9 DEF ReserveCount, throttleVars
  <2>2. /\ CounterInv({"sms"}, Day, clock', spent', budgeting') /\ clock' = clock
        /\ budgeting[c].phase \in {"keyed", "added", "missed"}
        /\ budgeting'[c].phase \in {"keyed", "added", "missed", "counted"}
        /\ \A d \in Callers \ {c} : budgeting'[d] = budgeting[d]
    BY <1>1, <2>1, BudgetCounts
  <2>3. Verdicts(c) /\ PhoneCounted(c) /\ ShareSpent(c)
    BY <1>1
  <2>4. CallerOk(c)'
    <3>1. Verdicts(c)'
      BY <2>1, <2>2, <2>3 DEF Verdicts, Budget!WarnAt
    <3>2. PhoneCounted(c)'
      BY <2>1, <2>3 DEF PhoneCounted
    <3>3. ShareSpent(c)'
      BY <2>1, <2>2, <2>3 DEF ShareSpent, Accounted, Verdicts
    <3> QED
      BY <3>1, <3>2, <3>3 DEF CallerOk
  <2>5. \A d \in Callers \ {c} : Stays(d)
    BY <2>1, <2>2 DEF Stays
  <2>6. CounterInv(Idents, Window, clock', hits', throttling')
    BY <1>1, <2>1, <2>2
  <2>7. \A d \in Callers : (Verdicts(d) /\ PhoneCounted(d) /\ ShareSpent(d))'
    BY <2>4, <2>5, CallersApart
  <2> QED
    BY <1>1, <2>1, <2>2, <2>6, <2>7 DEF AdmissionInv, Visited
<1>10. ASSUME NEW c \in Callers, Reserve(c)
       PROVE  AdmissionInv'
  <2>1. /\ Budget!Reserve(c) /\ UNCHANGED <<hits, throttling, allowed>>
        /\ visit[c].stage = "request_otp"
        /\ \/ c \in exhausted' /\ visit' = [visit EXCEPT ![c].stage = "answered", ![c].answer = "503"]
           \/ c \notin exhausted' /\ visit' = [visit EXCEPT ![c].stage = "text"]
    BY <1>10 DEF Reserve, Reply, Stage, throttleVars
  <2>2. /\ CounterInv({"sms"}, Day, clock', spent', budgeting') /\ clock' = clock
        /\ budgeting[c].phase = "counted" /\ budgeting'[c].phase = "done"
        /\ budgeting'[c].count = budgeting[c].count
        /\ \A d \in Callers \ {c} : budgeting'[d] = budgeting[d]
        /\ \/ /\ budgeting[c].count > SMS_DAILY_LIMIT
              /\ exhausted' = exhausted \cup {c} /\ reserved' = reserved /\ warned' = warned
           \/ /\ budgeting[c].count <= SMS_DAILY_LIMIT
              /\ exhausted' = exhausted /\ reserved' = reserved \cup {c}
              /\ warned' = IF budgeting[c].count = Budget!WarnAt THEN warned \cup {c} ELSE warned
    BY <1>1, <2>1, BudgetDecides
  <2>3. Visited' /\ \A d \in Callers \ {c} : visit'[d] = visit[d]
    BY <1>1, <2>1 DEF Visited, Stages, Answers
  <2>4. /\ visit'[c].raw = visit[c].raw /\ visit'[c].texted = visit[c].texted
        /\ \/ c \in exhausted' /\ visit'[c].stage = "answered"
           \/ c \notin exhausted' /\ visit'[c].stage = "text"
    BY <1>1, <2>1 DEF Visited
  <2>5. Verdicts(c) /\ PhoneCounted(c) /\ ShareSpent(c)
    BY <1>1
  <2>6. c \notin reserved /\ c \notin exhausted /\ c \notin warned /\ ~visit[c].texted
    BY <2>1, <2>2, <2>5 DEF Verdicts, ShareSpent, Accounted
  <2>7. CallerOk(c)'
    <3>1. Verdicts(c)'
      <4>1. (Budget!WarnAt)' = Budget!WarnAt
        BY DEF Budget!WarnAt
      <4> QED
        BY <2>1, <2>2, <2>5, <2>6, <4>1 DEF Verdicts
    <3>2. PhoneCounted(c)'
      BY <2>1, <2>4, <2>5, <2>6 DEF PhoneCounted
    <3>3. ShareSpent(c)'
      BY <2>1, <2>2, <2>4, <2>6 DEF ShareSpent, Accounted
    <3> QED
      BY <3>1, <3>2, <3>3 DEF CallerOk
  <2>8. \A d \in Callers \ {c} : Stays(d)
    BY <2>1, <2>2, <2>3 DEF Stays
  <2>9. CounterInv(Idents, Window, clock', hits', throttling')
    BY <1>1, <2>1, <2>2
  <2>10. \A d \in Callers : (Verdicts(d) /\ PhoneCounted(d) /\ ShareSpent(d))'
    BY <2>7, <2>8, CallersApart
  <2>11. /\ allowed' \subseteq Callers /\ reserved' \subseteq Callers
         /\ warned' \subseteq Callers /\ exhausted' \subseteq Callers
    BY <1>1, <2>1, <2>2
  <2> QED
    BY <2>2, <2>3, <2>9, <2>10, <2>11 DEF AdmissionInv
<1>11. ASSUME NEW c \in Callers, SendSms(c)
       PROVE  AdmissionInv'
  <2>1. /\ visit[c].stage = "text"
        /\ visit' = [visit EXCEPT ![c].stage = "answered", ![c].answer = "202", ![c].texted = TRUE]
        /\ UNCHANGED <<clock, hits, throttling, allowed, spent, budgeting, reserved, warned, exhausted>>
    BY <1>11 DEF SendSms, throttleVars, budgetVars
  <2>2. Visited' /\ \A d \in Callers \ {c} : visit'[d] = visit[d]
    BY <1>1, <2>1 DEF Visited, Stages, Answers
  <2>3. /\ visit'[c].raw = visit[c].raw /\ visit'[c].texted = TRUE
        /\ visit'[c].stage = "answered"
    BY <1>1, <2>1 DEF Visited
  <2>4. CallerOk(c)'
    <3>1. Verdicts(c) /\ PhoneCounted(c) /\ ShareSpent(c)
      BY <1>1
    <3>2. Verdicts(c)'
      BY <2>1, <3>1 DEF Verdicts, Budget!WarnAt
    <3>3. PhoneCounted(c)'
      BY <2>1, <2>3, <3>1 DEF PhoneCounted
    <3>4. ShareSpent(c)'
      BY <2>1, <2>3, <3>1 DEF ShareSpent, Accounted
    <3> QED
      BY <3>2, <3>3, <3>4 DEF CallerOk
  <2>5. \A d \in Callers \ {c} : Stays(d)
    BY <2>1, <2>2 DEF Stays
  <2>6. \A d \in Callers : (Verdicts(d) /\ PhoneCounted(d) /\ ShareSpent(d))'
    BY <2>4, <2>5, CallersApart
  <2> QED
    BY <1>1, <2>1, <2>2, <2>6 DEF AdmissionInv
<1>12. ASSUME NEW c \in Callers, RequestFails(c)
       PROVE  AdmissionInv'
  <2>1. /\ visit[c].stage = "text"
        /\ visit' = [visit EXCEPT ![c].stage = "answered", ![c].answer = "500"]
        /\ UNCHANGED <<clock, hits, throttling, allowed, spent, budgeting, reserved, warned, exhausted>>
    BY <1>12 DEF RequestFails, Reply, throttleVars, budgetVars
  <2>2. Visited' /\ \A d \in Callers \ {c} : visit'[d] = visit[d]
    BY <1>1, <2>1 DEF Visited, Stages, Answers
  <2>3. /\ visit'[c].raw = visit[c].raw /\ visit'[c].texted = visit[c].texted
        /\ visit'[c].stage = "answered" /\ visit'[c].answer = "500"
    BY <1>1, <2>1 DEF Visited
  <2>4. CallerOk(c)'
    <3>1. Verdicts(c) /\ PhoneCounted(c) /\ ShareSpent(c)
      BY <1>1
    <3>2. Verdicts(c)'
      BY <2>1, <3>1 DEF Verdicts, Budget!WarnAt
    <3>3. PhoneCounted(c)'
      BY <2>1, <2>3, <3>1 DEF PhoneCounted
    <3>4. ShareSpent(c)'
      BY <2>1, <2>3, <3>1 DEF ShareSpent, Accounted
    <3> QED
      BY <3>2, <3>3, <3>4 DEF CallerOk
  <2>5. \A d \in Callers \ {c} : Stays(d)
    BY <2>1, <2>2 DEF Stays
  <2>6. \A d \in Callers : (Verdicts(d) /\ PhoneCounted(d) /\ ShareSpent(d))'
    BY <2>4, <2>5, CallersApart
  <2> QED
    BY <1>1, <2>1, <2>2, <2>6 DEF AdmissionInv
<1> QED
  BY <1>2, <1>3, <1>4, <1>5, <1>6, <1>7, <1>8, <1>9, <1>10, <1>11, <1>12 DEF Next

LEMMA AdmissionSafe == Spec => []AdmissionInv
<1>1. Init => AdmissionInv
  BY AdmissionInitInv
<1>2. AdmissionInv /\ [Next]_vars => AdmissionInv'
  BY AdmissionNextInv
<1> QED
  BY <1>1, <1>2, PTL DEF Spec

----------------------------------------------------------------------------
(* What follows for the requests. *)

LEMMA AdmissionTyped ==
    ASSUME AdmissionInv
    PROVE  TypeOK
<1>1. Phone!FW!FWTypeOK
  BY DEF AdmissionInv, CounterInv, CounterTyped, Phone!FW!FWTypeOK, Phone!FW!Keys, Phone!FW!KeyOf,
         KeySet, Row, Job
<1>2. Budget!FW!FWTypeOK
  BY DEF AdmissionInv, CounterInv, CounterTyped, Budget!FW!FWTypeOK, Budget!FW!Keys, Budget!FW!KeyOf,
         KeySet, Row, Job
<1> QED
  BY <1>1, <1>2 DEF TypeOK, Phone!TypeOK, Budget!TypeOK, AdmissionInv, Visited

\* Everything stays in its range: the clock, both counters, the callers' records and verdicts.
THEOREM AdmissionTypeCorrect == Spec => []TypeOK
<1>1. AdmissionInv => TypeOK
  BY AdmissionTyped
<1> QED
  BY <1>1, AdmissionSafe, PTL

\* Timely callers of one key with numbers up to n are at most n: no number is given twice.
LEMMA AtMostThatMany ==
    ASSUME NEW Ids, NEW W, NEW clk, NEW st, NEW cl, CounterInv(Ids, W, clk, st, cl),
           NEW k, NEW S, S \subseteq TimelyUnder(W, cl, k), NEW n \in Nat,
           \A c \in S : cl[c].count <= n
    PROVE  Cardinality(S) <= n
<1>1. \A c \in S : /\ c \in Callers /\ Timely(W, cl[c]) /\ KeyIn(W, cl[c]) = k
                   /\ cl[c].count \in Nat
  BY DEF TimelyUnder, CounterInv, CounterTyped, Job
<1>2. \A c \in S : cl[c].count >= 1
  BY <1>1 DEF CounterInv, Numbered
<1>3. \A c, d \in S : cl[c].count = cl[d].count => c = d
  <2> SUFFICES ASSUME NEW c \in S, NEW d \in S, cl[c].count = cl[d].count
               PROVE  c = d
    OBVIOUS
  <2>1. \A x \in TimelyUnder(W, cl, KeyIn(W, cl[d])) : cl[x].count = cl[d].count => x = d
    BY <1>1 DEF CounterInv, Numbered
  <2>2. c \in TimelyUnder(W, cl, KeyIn(W, cl[d]))
    BY <1>1 DEF TimelyUnder
  <2> QED
    BY <2>1, <2>2
<1> DEFINE f == [c \in S |-> cl[c].count]
<1>4. f \in Injection(S, 1 .. n)
  <2>1. f \in [S -> 1 .. n]
    BY <1>1, <1>2
  <2>2. \A c, d \in S : f[c] = f[d] => c = d
    BY <1>3
  <2> QED
    BY <2>1, <2>2 DEF Injection, IsInjective
<1>5. IsFiniteSet(1 .. n) /\ Cardinality(1 .. n) = n
  BY FS_Interval
<1> HIDE DEF f
<1> QED
  BY <1>4, <1>5, FS_Injection

LEMMA CountedWithIsTimely ==
    ASSUME AdmissionInv, NEW c \in Callers
    PROVE  /\ Budget!CountedWith(c) = TimelyUnder(Day, budgeting, KeyIn(Day, budgeting[c]))
           /\ Budget!FW!OnTime(c) <=> Timely(Day, budgeting[c])
<1>1. \A d \in Callers : Budget!FW!OnTime(d) <=> Timely(Day, budgeting[d])
  BY DEF Budget!FW!OnTime, Budget!FW!Key, Budget!FW!KeyOf, Timely, Counted
<1>2. \A d \in Callers : Budget!FW!Key(d) = KeyIn(Day, budgeting[d])
  BY DEF Budget!FW!Key, Budget!FW!KeyOf, KeyIn
<1> QED
  BY <1>1, <1>2 DEF Budget!CountedWith, TimelyUnder

\* A day's requests log the 80% warning at most once, and a request is turned away only once
\* the warning is written or about to be.
THEOREM BudgetWarnsOnce == Spec => []OneWarningPerDay
<1> SUFFICES ASSUME AdmissionInv
             PROVE  OneWarningPerDay
  BY AdmissionSafe, PTL
<1>1. /\ CounterInv({"sms"}, Day, clock, spent, budgeting)
      /\ \A d \in Callers : Verdicts(d)
      /\ warned \subseteq Callers /\ exhausted \subseteq Callers
  BY DEF AdmissionInv
<1>2. \A d \in Callers : budgeting[d].count \in Nat
  BY <1>1 DEF CounterInv, CounterTyped, Job
<1>3. Budget!WarnAt \in Nat /\ 1 <= Budget!WarnAt /\ Budget!WarnAt <= SMS_DAILY_LIMIT
  BY AdmissionAssumption DEF Budget!WarnAt
<1>4. ASSUME NEW c \in warned, NEW d \in Budget!CountedWith(c) \cap warned,
             NEW e \in Budget!CountedWith(c) \cap warned
      PROVE  d = e
  <2>1. PICK k : k = KeyIn(Day, budgeting[c])
    OBVIOUS
  <2>2. \A x \in Budget!CountedWith(c) \cap warned :
           /\ x \in Callers /\ Timely(Day, budgeting[x]) /\ KeyIn(Day, budgeting[x]) = k
           /\ budgeting[x].count = Budget!WarnAt
    BY <1>1, <2>1, CountedWithIsTimely DEF TimelyUnder, Verdicts
  <2>3. \A x \in TimelyUnder(Day, budgeting, KeyIn(Day, budgeting[e])) :
           budgeting[x].count = budgeting[e].count => x = e
    BY <1>1, <2>2 DEF CounterInv, Numbered
  <2>4. d \in TimelyUnder(Day, budgeting, KeyIn(Day, budgeting[e]))
    BY <2>2 DEF TimelyUnder
  <2> QED
    BY <2>2, <2>3, <2>4
<1>5. ASSUME NEW c \in exhausted, Budget!FW!OnTime(c)
      PROVE  \E d \in Budget!CountedWith(c) \ {c} : d \in warned \/ budgeting[d].phase = "counted"
  <2>1. c \in Callers /\ budgeting[c].count > SMS_DAILY_LIMIT
    BY <1>1 DEF Verdicts
  <2>2. Timely(Day, budgeting[c])
    BY <1>5, <2>1, CountedWithIsTimely
  <2>3. Budget!WarnAt \in 1 .. budgeting[c].count
    BY <1>2, <1>3, <2>1, AdmissionAssumption
  <2>4. PICK d \in TimelyUnder(Day, budgeting, KeyIn(Day, budgeting[c])) : budgeting[d].count = Budget!WarnAt
    BY <1>1, <2>1, <2>2, <2>3 DEF CounterInv, Numbered
  <2>5. d \in Budget!CountedWith(c) /\ d \in Callers /\ Timely(Day, budgeting[d])
    BY <2>1, <2>4, CountedWithIsTimely DEF TimelyUnder
  <2>6. d # c
    BY <1>2, <1>3, <2>1, <2>4, AdmissionAssumption
  <2>7. budgeting[d].phase = "done" => d \in warned
    <3>1. ~(budgeting[d].count > SMS_DAILY_LIMIT)
      BY <1>3, <2>4, AdmissionAssumption
    <3>2. Verdicts(d)
      BY <1>1, <2>5
    <3> QED
      BY <2>4, <3>1, <3>2 DEF Verdicts
  <2> QED
    BY <2>5, <2>6, <2>7 DEF Timely, Counted
<1> QED
  BY <1>4, <1>5 DEF OneWarningPerDay, Budget!OneWarningPerDay

\* However a number is spelled, the requests of a window send it no more texts than the rate.
THEOREM TextsAreRateLimited == Spec => []TextsPerWindow
<1> SUFFICES ASSUME AdmissionInv
             PROVE  TextsPerWindow
  BY AdmissionSafe, PTL
<1> SUFFICES ASSUME NEW c \in Callers, visit[c].texted
             PROVE  Cardinality({d \in Callers : /\ visit[d].texted /\ visit[d].raw.e164 = visit[c].raw.e164
                                                 /\ Phone!FW!OnTime(d)
                                                 /\ throttling[d].now \div Window = throttling[c].now \div Window}) <= Limit
  BY DEF TextsPerWindow
<1>1. /\ CounterInv(Idents, Window, clock, hits, throttling)
      /\ \A d \in Callers : Verdicts(d) /\ PhoneCounted(d)
  BY DEF AdmissionInv
<1>2. ASSUME NEW d \in Callers, visit[d].texted
      PROVE  /\ throttling[d].ident = visit[d].raw.e164
             /\ throttling[d].count <= Limit
  <2>1. /\ throttling[d].ident = GetIdent(visit[d].raw) /\ GetIdent(visit[d].raw) # Absent
        /\ NormalizePhoneStrict(visit[d].raw) # Absent /\ d \in allowed
    BY <1>1, <1>2 DEF PhoneCounted
  <2>2. visit[d].raw.type = "MOBILE" /\ visit[d].raw.e164 # Absent
    BY <2>1 DEF NormalizePhoneStrict
  <2>3. GetIdent(visit[d].raw) = visit[d].raw.e164
    BY <2>1, <2>2 DEF GetIdent, NormalizePhone
  <2> QED
    BY <1>1, <2>1, <2>3 DEF Verdicts
<1>3. PICK k : k = KeyIn(Window, throttling[c])
  OBVIOUS
<1>4. PICK S : S = {d \in Callers : /\ visit[d].texted /\ visit[d].raw.e164 = visit[c].raw.e164
                                   /\ Phone!FW!OnTime(d)
                                   /\ throttling[d].now \div Window = throttling[c].now \div Window}
  OBVIOUS
<1>5. \A d \in Callers : Phone!FW!OnTime(d) <=> Timely(Window, throttling[d])
  BY DEF Phone!FW!OnTime, Phone!FW!Key, Phone!FW!KeyOf, Timely, Counted
<1>6. S \subseteq TimelyUnder(Window, throttling, k) /\ \A d \in S : throttling[d].count <= Limit
  <2> SUFFICES ASSUME NEW d \in S
               PROVE  d \in TimelyUnder(Window, throttling, k) /\ throttling[d].count <= Limit
    OBVIOUS
  <2>1. /\ d \in Callers /\ visit[d].texted /\ visit[d].raw.e164 = visit[c].raw.e164
        /\ Timely(Window, throttling[d])
        /\ throttling[d].now \div Window = throttling[c].now \div Window
    BY <1>4, <1>5
  <2>2. throttling[d].ident = throttling[c].ident /\ throttling[d].count <= Limit
    BY <1>2, <2>1
  <2>3. KeyIn(Window, throttling[d]) = k
    BY <1>3, <2>1, <2>2 DEF KeyIn
  <2> QED
    BY <2>1, <2>2, <2>3 DEF TimelyUnder
<1>7. Cardinality(S) <= Limit
  BY <1>1, <1>6, AtMostThatMany, AdmissionAssumption
<1> QED
  BY <1>4, <1>7

\* The requests counted on a day send no more texts than the day's budget.
THEOREM TextsAreBudgeted == Spec => []TextsPerDay
<1> SUFFICES ASSUME AdmissionInv
             PROVE  TextsPerDay
  BY AdmissionSafe, PTL
<1> SUFFICES ASSUME NEW c \in reserved
             PROVE  Cardinality({d \in Budget!CountedWith(c) : visit[d].texted}) <= SMS_DAILY_LIMIT
  BY DEF TextsPerDay
<1>1. /\ CounterInv({"sms"}, Day, clock, spent, budgeting) /\ c \in Callers
      /\ \A d \in Callers : Verdicts(d) /\ ShareSpent(d)
  BY DEF AdmissionInv
<1>2. PICK S : S = {d \in Budget!CountedWith(c) : visit[d].texted}
  OBVIOUS
<1>3. PICK k : k = KeyIn(Day, budgeting[c])
  OBVIOUS
<1>4. S \subseteq TimelyUnder(Day, budgeting, k)
  BY <1>1, <1>2, <1>3, CountedWithIsTimely
<1>5. \A d \in S : budgeting[d].count <= SMS_DAILY_LIMIT
  <2>1. \A d \in S : d \in Callers /\ visit[d].texted
    BY <1>2, <1>4 DEF TimelyUnder
  <2> QED
    BY <1>1, <2>1 DEF Verdicts, ShareSpent, Accounted
<1>6. Cardinality(S) <= SMS_DAILY_LIMIT
  BY <1>1, <1>4, <1>5, AtMostThatMany, AdmissionAssumption
<1> QED
  BY <1>2, <1>6

\* A request is turned away only when a whole day's budget of others took their share, and who
\* takes a share is past every refusal but this one.
THEOREM BudgetExhaustedForCause == Spec => []ExhaustedForCause
<1> SUFFICES ASSUME AdmissionInv
             PROVE  ExhaustedForCause
  BY AdmissionSafe, PTL
<1> SUFFICES ASSUME NEW c \in exhausted
             PROVE  Cardinality({d \in Callers \ {c} :
                                  /\ budgeting[d].phase \in {"counted", "done"}
                                  /\ Budget!FW!Key(d) = Budget!FW!Key(c)
                                  /\ visit[d].stage # "answered" \/ Accounted(d)})
                       >= SMS_DAILY_LIMIT
  BY DEF ExhaustedForCause, Accounted
<1>1. /\ CounterInv({"sms"}, Day, clock, spent, budgeting) /\ c \in Callers
      /\ \A d \in Callers : Verdicts(d) /\ ShareSpent(d)
  BY DEF AdmissionInv
<1>2. PICK S : S = {d \in Callers \ {c} :
                     /\ budgeting[d].phase \in {"counted", "done"}
                     /\ Budget!FW!Key(d) = Budget!FW!Key(c)
                     /\ visit[d].stage # "answered" \/ Accounted(d)}
  OBVIOUS
<1>3. PICK U : U = CountedUnder(Day, budgeting, KeyIn(Day, budgeting[c]))
  OBVIOUS
<1>4. U \ {c} \subseteq S
  <2> SUFFICES ASSUME NEW d \in U \ {c}
               PROVE  d \in S
    OBVIOUS
  <2>1. d \in Callers \ {c} /\ budgeting[d].phase \in {"counted", "done"}
        /\ KeyIn(Day, budgeting[d]) = KeyIn(Day, budgeting[c])
    BY <1>3 DEF CountedUnder, Counted
  <2>2. Budget!FW!Key(d) = Budget!FW!Key(c)
    BY <2>1 DEF Budget!FW!Key, Budget!FW!KeyOf, KeyIn
  <2>3. visit[d].stage # "answered" \/ Accounted(d)
    BY <1>1, <2>1 DEF ShareSpent, Accounted
  <2> QED
    BY <1>2, <2>1, <2>2, <2>3
<1>5. /\ budgeting[c].count \in Nat /\ budgeting[c].count > SMS_DAILY_LIMIT
      /\ Counted(budgeting[c])
  BY <1>1 DEF CounterInv, CounterTyped, Job, Verdicts, Counted
<1>6. IsFiniteSet(U) /\ Cardinality(U) \in Nat /\ budgeting[c].count <= Cardinality(U) /\ c \in U
  <2>1. IsFiniteSet(U) /\ Cardinality(U) \in Nat
    BY <1>3, CountedFinite
  <2>2. budgeting[c].count <= Cardinality(U)
    BY <1>1, <1>3, <1>5 DEF CounterInv, NoMoreThanCallers
  <2> QED
    BY <1>1, <1>3, <1>5, <2>1, <2>2 DEF CountedUnder
<1>7. Cardinality(U \ {c}) = Cardinality(U) - 1
  BY <1>6, FS_RemoveElement
<1>8. S \subseteq Callers
  BY <1>2
<1>9. IsFiniteSet(S) /\ Cardinality(S) \in Nat
  BY <1>8, FS_Subset, FS_CardinalityType, AdmissionAssumption
<1>10. Cardinality(U \ {c}) <= Cardinality(S)
  BY <1>4, <1>9, FS_Subset
<1>11. Cardinality(S) >= SMS_DAILY_LIMIT
  BY <1>5, <1>6, <1>7, <1>9, <1>10, AdmissionAssumption
<1> QED
  BY <1>2, <1>11
=============================================================================
