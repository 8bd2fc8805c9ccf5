--------------------------------- MODULE Otp ---------------------------------
(***************************************************************************)
(* One-time codes of ONE phone number: request_otp and verify_otp, run by   *)
(* any number of concurrent requests, next to the admin form that blocks    *)
(* the voter and the command purge_unverified_voters, which deletes it.     *)
(* (Codes of different numbers share no row.)                               *)
(*                                                                         *)
(* Both services use a transaction, at READ COMMITTED: a statement sees the *)
(* rows committed when it STARTED; when it reaches a row that another       *)
(* transaction has locked it waits, and then re-checks its WHERE clause on  *)
(* the newest version of that row, but rows inserted meanwhile stay         *)
(* invisible to it.  Hence a statement that may wait is several actions:    *)
(* its snapshot, and one for each row it locks.  Waiting may form a cycle,  *)
(* and Postgres then aborts one of the transactions in it.                  *)
(***************************************************************************)
EXTENDS Integers, FiniteSets

CONSTANTS
    Requests,      \* POST /auth/otp/request/; a challenge's id is its request
    Verifies,      \* POST /auth/otp/verify/
    Admins,        \* POSTs of the voter form of the Django admin
    Purges,        \* runs of purge_unverified_voters --execute
    OTP_MAX_ATTEMPTS,
    OTP_TTL,
    MaxTime,       \* bound: the clock stops here
    NoChallenge,   \* no row with that id
    NoVoter,       \* no row with that number
    Earlier,       \* the id of the voter there is at first; a new one's is its request
    Wrong          \* a code that is no challenge's

ASSUME OtpAssumption ==
    /\ OTP_MAX_ATTEMPTS \in Nat \ {0} /\ OTP_TTL \in Nat \ {0} /\ MaxTime \in Nat
    /\ Wrong \notin Requests /\ Earlier \notin Requests /\ IsFiniteSet(Requests) /\ IsFiniteSet(Verifies)
    /\ Requests \cap Verifies = {} /\ (Requests \cup Verifies) \cap Purges = {}

VARIABLES
    clock,
    voter,       \* the Voter row of the number: id, is_blocked, whether verified_at is set
    challenge,   \* the committed OTPChallenge rows
    req,         \* per request: phase and the local variables of request_otp
    verify,      \* per verification: phase and the local variables of verify_otp
    admin,       \* per admin form: the stale voter row it will save
    purge        \* per purge: phase, the voter's id, the challenges found and deleted

vars == <<clock, voter, challenge, req, verify, admin, purge>>

Time == 0 .. MaxTime
VoterId == Requests \cup {Earlier}
Voter == [id : VoterId, blocked : BOOLEAN, verified : BOOLEAN]
NewVoter(id) == [id |-> id, blocked |-> FALSE, verified |-> FALSE]
Challenge == [voter : VoterId, created : Nat, expires_at : 0 .. MaxTime + OTP_TTL,
              attempts : 0 .. OTP_MAX_ATTEMPTS, consumed : BOOLEAN]

ASSUME NoRowAssumption == NoVoter \notin Voter /\ NoChallenge \notin Challenge

\* "silent": blocked, answered as if sent.  "refused": 503, the SMS budget is used up.
\* "failed": 500, an IntegrityError at COMMIT.
ReqInFlight == {"resolved", "ready", "expiring", "inserted"}
ReqDone == {"silent", "refused", "sent", "failed", "crashed"}

\* "compared": counted and compared, not committed.  "wrong": the codes differed.
\* "refused": nothing was compared.  "lost": crashed after the comparison.
VerifyInFlight == {"read", "looking", "locked", "compared"}
VerifyDone == {"accepted", "wrong", "refused", "crashed", "lost"}

\* "passed": the voter is no candidate, is gone, or is protected.  "aborted": the
\* command ends in an IntegrityError.
PurgeInFlight == {"candidate", "collected", "deleting", "deleted"}
PurgeDone == {"passed", "purged", "aborted", "crashed"}

\* seen: the rows a statement found and has not reached.  held: the rows locked up to COMMIT,
\* those included that the re-check passed over.
RequestJob == [phase : ReqInFlight \cup ReqDone \cup {"idle"}, now : Time, voter : Voter,
               seen : SUBSET Requests, held : SUBSET Requests, expired : SUBSET Requests,
               created : Nat]
VerifyJob == [phase : VerifyInFlight \cup VerifyDone \cup {"idle"}, now : Time,
              code : Requests \cup {Wrong}, voter : Voter \cup {NoVoter},
              seen : SUBSET Requests, held : SUBSET Requests, on : Requests \cup {Wrong}]
PurgeJob == [phase : PurgeInFlight \cup PurgeDone \cup {"idle"}, voter : VoterId,
             seen : SUBSET Requests, held : SUBSET Requests]

TypeOK ==
    /\ clock \in Time
    /\ voter \in Voter \cup {NoVoter}
    /\ challenge \in [Requests -> Challenge \cup {NoChallenge}]
    /\ req \in [Requests -> RequestJob]
    /\ verify \in [Verifies -> VerifyJob]
    /\ admin \in [Admins -> Voter \cup {<<>>}]
    /\ purge \in [Purges -> PurgeJob]

Init ==
    /\ clock = 0
    /\ voter = NewVoter(Earlier)
    /\ challenge = [r \in Requests |-> NoChallenge]
    /\ req = [r \in Requests |-> [phase |-> "idle", now |-> 0, voter |-> NewVoter(Earlier), seen |-> {},
                                  held |-> {}, expired |-> {}, created |-> 0]]
    /\ verify = [q \in Verifies |-> [phase |-> "idle", now |-> 0, code |-> Wrong, voter |-> NoVoter,
                                     seen |-> {}, held |-> {}, on |-> Wrong]]
    /\ admin = [a \in Admins |-> <<>>]
    /\ purge = [p \in Purges |-> [phase |-> "idle", voter |-> Earlier, seen |-> {}, held |-> {}]]

----------------------------------------------------------------------------
Issued == {r \in Requests : challenge[r] # NoChallenge}

\* Mutant: the expiry time is not compared.
LiveUntilConsumed(r, now) == r \in Issued /\ ~challenge[r].consumed

\* consumed_at IS NULL AND expires_at > now
Live(r, now) == r \in Issued /\ ~challenge[r].consumed /\ challenge[r].expires_at > now

LiveOf(id, now) == {r \in Requests : Live(r, now) /\ challenge[r].voter = id}

\* Who has a row of a challenge locked.
Holders(r) == {h \in Requests : r \in req[h].held} \cup {q \in Verifies : r \in verify[q].held}
              \cup {p \in Purges : r \in purge[p].held}

Locked(r) == Holders(r) # {}

\* A foreign key's check of the row (FOR KEY SHARE) waits for FOR UPDATE and DELETE, and not
\* for the request's UPDATE, which leaves the key alone.
KeyLocked(r) == Holders(r) \ Requests # {}

\* An uncommitted DELETE: updates of the row, and foreign key checks on it, wait.
VoterHolders == {p \in Purges : purge[p].phase = "deleted"}

VoterLocked == VoterHolders # {}

Exists(id) == voter # NoVoter /\ voter.id = id

----------------------------------------------------------------------------
(* The audit log: one entry of each request and verification that has ended, so the log   *)
(* is a function of where they stand.                                                     *)

\* log_voter_event names a voter whose copy is verified, and hashes the number of any other.
LogVoterEvent(copy) ==
    IF copy # NoVoter /\ copy.verified
    THEN [actor |-> copy.id, hashed |-> FALSE]
    ELSE [actor |-> NoVoter, hashed |-> TRUE]

\* OTP_REQUESTED, SMS_BUDGET_EXHAUSTED.
RequestEntries ==
    {LogVoterEvent(req[r].voter) : r \in {s \in Requests : req[s].phase \in {"silent", "refused", "sent"}}}

\* OTP_FAILED; and OTP_VERIFIED, which names the voter.
VerifyEntries ==
    {LogVoterEvent(verify[q].voter) : q \in {s \in Verifies : verify[s].phase \in {"wrong", "refused"}}}
    \cup {[actor |-> verify[q].voter.id, hashed |-> FALSE] :
              q \in {s \in Verifies : verify[s].phase = "accepted"}}

AuditLog == RequestEntries \cup VerifyEntries

\* AuditLogFilter: a search for the number matches its hash, or the number of the voter named.
FilterPhone == {entry \in AuditLog : entry.hashed \/ Exists(entry.actor)}

Referenced(id) == \E entry \in AuditLog : entry.actor = id

\* The foreign key of an entry that names the voter waits for the voter's row.
MayLog(copy) == LogVoterEvent(copy).actor # NoVoter => ~VoterLocked

----------------------------------------------------------------------------
(* request_otp *)

\* get_or_create; the copy it returns is kept.
ResolveVoter(r) ==
    /\ req[r].phase = "idle"
    /\ voter' = IF voter = NoVoter THEN NewVoter(r) ELSE voter
    /\ req' = [req EXCEPT ![r].phase = "resolved", ![r].voter = voter']
    /\ UNCHANGED <<clock, challenge, verify, admin, purge>>

\* A blocked voter: logged, and answered as if sent.
StaySilent(r) ==
    /\ req[r].phase = "resolved" /\ req[r].voter.blocked
    /\ MayLog(req[r].voter)
    /\ req' = [req EXCEPT ![r].phase = "silent"]
    /\ UNCHANGED <<clock, voter, challenge, verify, admin, purge>>

\* reserve_sms_budget lets the request through (and then now = timezone.now()), or logs that
\* the budget is used up (OtpAdmission has the budget).
ReserveSms(r) ==
    /\ req[r].phase = "resolved" /\ ~req[r].voter.blocked
    /\ \/ req' = [req EXCEPT ![r].phase = "ready", ![r].now = clock]
       \/ MayLog(req[r].voter) /\ req' = [req EXCEPT ![r].phase = "refused"]
    /\ UNCHANGED <<clock, voter, challenge, verify, admin, purge>>

\* The UPDATE that expires the live challenges starts: its snapshot.
StartExpire(r) ==
    /\ req[r].phase = "ready"
    /\ req' = [req EXCEPT ![r].phase = "expiring", ![r].seen = LiveOf(req[r].voter.id, req[r].now)]
    /\ UNCHANGED <<clock, voter, challenge, verify, admin, purge>>

\* It reaches the row of s, in whatever order, and locks it: one that is no longer live is
\* passed over, and one that is deleted was skipped without a lock.
ExpireRow(r, s) ==
    /\ req[r].phase = "expiring"
    /\ s \in req[r].seen \cap Issued /\ ~Locked(s)
    /\ req' = [req EXCEPT ![r].seen = @ \ {s}, ![r].held = @ \cup {s},
                          ![r].expired = @ \cup ({s} \cap LiveOf(req[r].voter.id, req[r].now))]
    /\ UNCHANGED <<clock, voter, challenge, verify, admin, purge>>

\* No row is left: the INSERT.
InsertChallenge(r) ==
    /\ req[r].phase = "expiring" /\ req[r].seen \cap Issued = {}
    /\ req' = [req EXCEPT ![r].phase = "inserted", ![r].seen = {},
                          ![r].created = 1 + Cardinality({s \in Requests : req[s].created > 0})]
    /\ UNCHANGED <<clock, voter, challenge, verify, admin, purge>>

\* The transaction is over, and with it its locks.
EndRequest(r, phase) ==
    req' = [req EXCEPT ![r].phase = phase, ![r].seen = {}, ![r].held = {}]

\* What the deferred foreign keys to the voter find at COMMIT.
VoterGone(id) == ~Exists(id)

\* What the transaction writes: its own challenge, and the end of those it found.
StoreChallenge(r) ==
    challenge' = [s \in Requests |->
        IF s = r THEN [voter |-> req[r].voter.id, created |-> req[r].created,
                       expires_at |-> req[r].now + OTP_TTL, attempts |-> 0, consumed |-> FALSE]
        ELSE IF s \in req[r].expired THEN [challenge[s] EXCEPT !.expires_at = req[r].now]
        ELSE challenge[s]]

\* Mutant: an IntegrityError is retried, for ever with the same copy of the voter.
CommitChallengeRetrying(r) ==
    /\ req[r].phase = "inserted"
    /\ ~VoterLocked
    /\ IF VoterGone(req[r].voter.id)
       THEN /\ req' = [req EXCEPT ![r].phase = "ready", ![r].held = {}, ![r].expired = {}]
            /\ UNCHANGED challenge
       ELSE EndRequest(r, "sent") /\ StoreChallenge(r)
    /\ UNCHANGED <<clock, voter, verify, admin, purge>>

\* The audit entry and COMMIT; then the SMS, whose failure is swallowed.  If the voter
\* is gone, an IntegrityError rolls everything back.
CommitChallenge(r) ==
    /\ req[r].phase = "inserted"
    /\ ~VoterLocked
    /\ IF VoterGone(req[r].voter.id)
       THEN /\ EndRequest(r, "failed")
            /\ UNCHANGED challenge
       ELSE EndRequest(r, "sent") /\ StoreChallenge(r)
    /\ UNCHANGED <<clock, voter, verify, admin, purge>>

\* The worker dies, or its transaction is aborted to break a cycle of waits.
RequestCrash(r) ==
    /\ req[r].phase \in ReqInFlight
    /\ EndRequest(r, "crashed")
    /\ UNCHANGED <<clock, voter, challenge, verify, admin, purge>>

----------------------------------------------------------------------------
(* verify_otp *)

\* now = timezone.now(), then the unlocked SELECT of the voter; the copy is kept.  Without a
\* voter, or with a blocked one, there is no lookup, and nothing to find.
ReadVoter(q, code) ==
    /\ verify[q].phase = "idle"
    /\ verify' = [verify EXCEPT ![q].phase = IF voter = NoVoter \/ voter.blocked THEN "looking" ELSE "read",
                                ![q].now = clock, ![q].code = code, ![q].voter = voter]
    /\ UNCHANGED <<clock, voter, challenge, req, admin, purge>>

\* SELECT ... FOR UPDATE, newest first, LIMIT 1: the snapshot.
StartLookup(q) ==
    /\ verify[q].phase = "read"
    /\ verify' = [verify EXCEPT ![q].phase = "looking", ![q].seen = LiveOf(verify[q].voter.id, verify[q].now)]
    /\ UNCHANGED <<clock, voter, challenge, req, admin, purge>>

NewestOf(S) == CHOOSE r \in S : \A s \in S : challenge[s].created <= challenge[r].created

EndVerify(q, phase) ==
    verify' = [verify EXCEPT ![q].phase = phase, ![q].code = Wrong, ![q].seen = {}, ![q].held = {}]

\* It reaches the newest row that is left and locks it: the challenge, or one that stopped
\* being live while it waited and is passed over.
LookAt(q) ==
    /\ verify[q].phase = "looking" /\ verify[q].seen \cap Issued # {}
    /\ LET r == NewestOf(verify[q].seen \cap Issued)
       IN  /\ ~Locked(r)
           /\ verify' = IF r \in LiveOf(verify[q].voter.id, verify[q].now)
                        THEN [verify EXCEPT ![q].phase = "locked", ![q].on = r,
                                            ![q].seen = {}, ![q].held = @ \cup {r}]
                        ELSE [verify EXCEPT ![q].seen = @ \ {r}, ![q].held = @ \cup {r}]
    /\ UNCHANGED <<clock, voter, challenge, req, admin, purge>>

\* Mutant: off by one.
HasAttemptsOneMore(r) == challenge[r].attempts <= OTP_MAX_ATTEMPTS

HasAttempts(r) == challenge[r].attempts < OTP_MAX_ATTEMPTS

\* Mutant: InvalidOTP raised inside the transaction undoes the count.
CountGuessUndone(r) == challenge[r]

\* What the transaction does to the challenge: the attempt, and success consumes it.
CountGuess(r) == [challenge[r] EXCEPT !.attempts = @ + 1]

\* Mutant: the challenge is not consumed.
ConsumeNothing(r) == CountGuess(r)

Consume(r) == [CountGuess(r) EXCEPT !.consumed = TRUE]

\* verified_at is saved only if the copy read before the transaction lacks it.  (Its
\* challenge, which is locked, keeps the voter there.)
MarkVerified(q) == [voter EXCEPT !.verified = @ \/ ~verify[q].voter.verified]

\* No challenge, or one without attempts left: the entry and COMMIT.
Refuse(q) ==
    /\ \/ verify[q].phase = "looking" /\ verify[q].seen \cap Issued = {}
       \/ verify[q].phase = "locked" /\ ~HasAttempts(verify[q].on)
    /\ MayLog(verify[q].voter)
    /\ EndVerify(q, "refused")
    /\ UNCHANGED <<clock, voter, challenge, req, admin, purge>>

\* The attempt is counted, in this transaction, and the codes are compared.
Compare(q) ==
    /\ verify[q].phase = "locked" /\ HasAttempts(verify[q].on)
    /\ verify' = [verify EXCEPT ![q].phase = "compared"]
    /\ UNCHANGED <<clock, voter, challenge, req, admin, purge>>

\* The rest, up to COMMIT (a wrong code commits too): success writes the voter's row.
Decide(q) ==
    /\ verify[q].phase = "compared"
    /\ LET r == verify[q].on
       IN  \/ /\ verify[q].code # r
              /\ MayLog(verify[q].voter)
              /\ challenge' = [challenge EXCEPT ![r] = CountGuess(r)]
              /\ EndVerify(q, "wrong")
              /\ UNCHANGED voter
           \/ /\ verify[q].code = r
              /\ ~VoterLocked
              /\ challenge' = [challenge EXCEPT ![r] = Consume(r)]
              /\ voter' = MarkVerified(q)
              /\ EndVerify(q, "accepted")
    /\ UNCHANGED <<clock, req, admin, purge>>

\* A crash undoes the transaction, the count of the attempt included.
VerifyCrash(q) ==
    /\ verify[q].phase \in VerifyInFlight
    /\ EndVerify(q, IF verify[q].phase = "compared" THEN "lost" ELSE "crashed")
    /\ UNCHANGED <<clock, voter, challenge, req, admin, purge>>

----------------------------------------------------------------------------
(* VoterAdmin: the form loads the row, then saves EVERY column of it. *)

AdminLoad(a) ==
    /\ admin[a] = <<>>
    /\ voter # NoVoter
    /\ admin' = [admin EXCEPT ![a] = voter]
    /\ UNCHANGED <<clock, voter, challenge, req, verify, purge>>

\* save() inserts the row again if its UPDATE finds none, and fails if the number has
\* a new voter by now.
AdminSave(a, blocked) ==
    /\ admin[a] # <<>>
    /\ ~VoterLocked
    /\ voter' = IF voter # NoVoter /\ ~Exists(admin[a].id) THEN voter
                ELSE [admin[a] EXCEPT !.blocked = blocked]
    /\ admin' = [admin EXCEPT ![a] = <<>>]
    /\ UNCHANGED <<clock, challenge, req, verify, purge>>

----------------------------------------------------------------------------
(* purge_unverified_voters --execute.  The age of the voter is left out: the hours are  *)
(* an argument, so any voter may be old enough.  So are votes and payments: who has one *)
(* has logged in, and is protected by the audit entry of that as well.                  *)

\* The SELECT of the candidates.
PurgeSelect(p) ==
    /\ purge[p].phase = "idle"
    /\ purge' = [purge EXCEPT
          ![p] = IF voter # NoVoter /\ ~voter.verified
                 THEN [@ EXCEPT !.phase = "candidate", !.voter = voter.id]
                 ELSE [@ EXCEPT !.phase = "passed"]]
    /\ UNCHANGED <<clock, voter, challenge, req, verify, admin>>

\* get() by id, and delete() collecting what it would break: DoesNotExist, ProtectedError.
PurgeCollect(p) ==
    /\ purge[p].phase = "candidate"
    /\ purge' = [purge EXCEPT ![p].phase =
                    IF Exists(purge[p].voter) /\ ~Referenced(purge[p].voter) THEN "collected" ELSE "passed"]
    /\ UNCHANGED <<clock, voter, challenge, req, verify, admin>>

ChallengesOf(id) == {r \in Issued : challenge[r].voter = id}

\* DELETE of the challenges: the snapshot.
PurgeStart(p) ==
    /\ purge[p].phase = "collected"
    /\ purge' = [purge EXCEPT ![p].phase = "deleting", ![p].seen = ChallengesOf(purge[p].voter)]
    /\ UNCHANGED <<clock, voter, challenge, req, verify, admin>>

\* It reaches the row of r, in whatever order, and deletes it.
PurgeRow(p, r) ==
    /\ purge[p].phase = "deleting"
    /\ r \in purge[p].seen \cap Issued /\ ~Locked(r)
    /\ purge' = [purge EXCEPT ![p].seen = @ \ {r}, ![p].held = @ \cup {r}]
    /\ UNCHANGED <<clock, voter, challenge, req, verify, admin>>

\* No row is left: the DELETE of the voter.
PurgeDelete(p) ==
    /\ purge[p].phase = "deleting" /\ purge[p].seen \cap Issued = {}
    /\ ~VoterLocked
    /\ purge' = [purge EXCEPT ![p].phase = "deleted", ![p].seen = {}]
    /\ UNCHANGED <<clock, voter, challenge, req, verify, admin>>

EndPurge(p, phase) ==
    purge' = [purge EXCEPT ![p].phase = phase, ![p].seen = {}, ![p].held = {}]

\* Challenges that came after the DELETE took its snapshot.
Newer(p) == ChallengesOf(purge[p].voter) \ purge[p].held

\* Mutant: what was collected is trusted.
StillReferencedUnchecked(p) == FALSE

\* What the deferred foreign keys find at COMMIT: a newer challenge, or an audit entry.
StillReferenced(p) == Newer(p) # {} \/ Referenced(purge[p].voter)

\* The check of a newer challenge waits for whoever has its row locked.
PurgeAbort(p) ==
    /\ purge[p].phase = "deleted"
    /\ Referenced(purge[p].voter) \/ \E r \in Newer(p) : ~KeyLocked(r)
    /\ EndPurge(p, "aborted")
    /\ UNCHANGED <<clock, voter, challenge, req, verify, admin>>

PurgeCommit(p) ==
    /\ purge[p].phase = "deleted" /\ ~StillReferenced(p)
    /\ EndPurge(p, "purged")
    /\ voter' = IF Exists(purge[p].voter) THEN NoVoter ELSE voter
    /\ challenge' = [r \in Requests |-> IF r \in purge[p].held THEN NoChallenge ELSE challenge[r]]
    /\ UNCHANGED <<clock, req, verify, admin>>

PurgeCrash(p) ==
    /\ purge[p].phase \in PurgeInFlight
    /\ EndPurge(p, "crashed")
    /\ UNCHANGED <<clock, voter, challenge, req, verify, admin>>

Tick ==
    /\ clock < MaxTime
    /\ clock' = clock + 1
    /\ UNCHANGED <<voter, challenge, req, verify, admin, purge>>

RequestStep(r) ==
    \/ ResolveVoter(r) \/ StaySilent(r) \/ ReserveSms(r) \/ StartExpire(r)
    \/ \E s \in Requests : ExpireRow(r, s)
    \/ InsertChallenge(r) \/ CommitChallenge(r)

VerifyStep(q) == StartLookup(q) \/ LookAt(q) \/ Refuse(q) \/ Compare(q) \/ Decide(q)

PurgeStep(p) ==
    \/ PurgeSelect(p) \/ PurgeCollect(p) \/ PurgeStart(p)
    \/ \E r \in Requests : PurgeRow(p, r)
    \/ PurgeDelete(p) \/ PurgeAbort(p) \/ PurgeCommit(p)

Next ==
    \/ \E r \in Requests : RequestStep(r) \/ RequestCrash(r)
    \/ \E q \in Verifies :
          \/ \E code \in Issued \cup {Wrong} : ReadVoter(q, code)
          \/ VerifyStep(q)
          \/ VerifyCrash(q)
    \/ \E a \in Admins :
          \/ AdminLoad(a)
          \/ \E blocked \in BOOLEAN : AdminSave(a, blocked)
    \/ \E p \in Purges : PurgeStep(p) \/ PurgeCrash(p)
    \/ Tick

----------------------------------------------------------------------------
(* Deadlocks *)

Workers == Requests \cup Verifies \cup Purges

\* Who holds what a worker is waiting for, if it waits.
WaitsFor(w) ==
    LET HoldersOf(S) == UNION {Holders(r) : r \in S \cap Issued}
    IN  CASE w \in Requests -> IF req[w].phase = "inserted" THEN VoterHolders
                               ELSE HoldersOf(req[w].seen)
          [] w \in Verifies -> IF verify[w].seen \cap Issued = {} THEN VoterHolders
                               ELSE Holders(NewestOf(verify[w].seen \cap Issued))
          [] w \in Purges -> IF purge[w].phase = "deleted" THEN HoldersOf(Newer(w)) \ Requests
                             ELSE IF purge[w].seen \cap Issued = {} THEN VoterHolders
                             ELSE HoldersOf(purge[w].seen)

\* w is on a cycle of waits.
Deadlocked(w) ==
    \E S \in SUBSET Workers :
        /\ w \in S
        /\ \A v \in S : WaitsFor(v) \cap S # {} /\ \E u \in S : v \in WaitsFor(u)

Crash(w) ==
    \/ w \in Requests /\ RequestCrash(w)
    \/ w \in Verifies /\ VerifyCrash(w)
    \/ w \in Purges /\ PurgeCrash(w)

\* Postgres aborts a transaction of every cycle.
BreakDeadlock == \E w \in Workers : Deadlocked(w) /\ Crash(w)

\* A worker that has begun a request takes its next step (or dies).
Fairness ==
    /\ \A r \in Requests : WF_vars(req[r].phase # "idle" /\ RequestStep(r))
    /\ \A q \in Verifies : WF_vars(VerifyStep(q))
    /\ \A p \in Purges : WF_vars(purge[p].phase # "idle" /\ PurgeStep(p))
    /\ WF_vars(BreakDeadlock)

Spec == Init /\ [][Next]_vars /\ Fairness

----------------------------------------------------------------------------
(* Properties. *)

Answered(r) == {q \in Verifies : verify[q].phase \in {"accepted", "wrong"} /\ verify[q].on = r}
Comparing(r) == {q \in Verifies : verify[q].phase = "compared" /\ verify[q].on = r}
Lost(r) == {q \in Verifies : verify[q].phase = "lost" /\ verify[q].on = r}

\* Each comparison that was answered is counted, and with the one under way there are at most
\* OTP_MAX_ATTEMPTS at one code, whatever raced.  (A comparison whose worker dies before
\* COMMIT is neither answered nor counted.)
EveryGuessIsCounted ==
    \A r \in Issued :
        /\ challenge[r].attempts = Cardinality(Answered(r))
        /\ challenge[r].attempts + Cardinality(Comparing(r)) <= OTP_MAX_ATTEMPTS

\* No code is compared more often than OTP_MAX_ATTEMPTS: a crash grants no free retry.
CrashGrantsNoRetry ==
    \A r \in Requests :
        Cardinality(Answered(r) \cup Comparing(r) \cup Lost(r)) <= OTP_MAX_ATTEMPTS

Accepted(r) == {q \in Verifies : verify[q].phase = "accepted" /\ verify[q].on = r}

\* A code logs in at most once, and then the challenge is spent.
OneLoginPerCode ==
    \A r \in Requests : /\ Cardinality(Accepted(r)) <= 1
                        /\ Accepted(r) # {} => challenge[r].consumed

\* A request kills the codes it found: one that it expired is only ever accepted by a
\* verification that had begun before the request took its time.
ExpiredCodesAreDead ==
    \A r, s \in Requests : \A q \in Verifies :
        /\ req[r].phase = "sent" /\ s \in req[r].expired
        /\ q \in Accepted(s)
        => verify[q].now < req[r].now

\* A voter that has logged in is never purged, though the command decides on a SELECT made
\* before the login, and though a stale form may empty verified_at again.
LoggedInIsKept ==
    \A q \in Verifies : verify[q].phase = "accepted" => Exists(verify[q].voter.id)

\* Whoever searches the audit log for the number finds every entry about it, from before its
\* voter logged in as from after: by the hash, or through the voter named, who is still there.
SearchFindsAll == AuditLog \subseteq FilterPhone

\* Every request, verification and purge ends: the locks they wait for are released, by whoever
\* holds them or because the database breaks a cycle of waits.
EveryoneIsAnswered ==
    /\ \A r \in Requests : req[r].phase \in ReqInFlight ~> req[r].phase \in ReqDone
    /\ \A q \in Verifies : verify[q].phase \in VerifyInFlight ~> verify[q].phase \in VerifyDone
    /\ \A p \in Purges : purge[p].phase \in PurgeInFlight ~> purge[p].phase \in PurgeDone
=============================================================================
