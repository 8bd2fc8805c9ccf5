----------------------------- MODULE Otp_proofs -----------------------------
(***************************************************************************)
(* Theorems about Otp, for any number of concurrent requests, verifications,*)
(* admin forms and purges, any limit of attempts, any time to live and any  *)
(* clock bound.                                                             *)
(***************************************************************************)
EXTENDS Otp, Counting

LoggedIn(id) == \E q \in Verifies : verify[q].phase = "accepted" /\ verify[q].voter.id = id

Sent == {r \in Requests : req[r].phase = "sent"}

\* The numbers of the requests stay within what there are requests.
CreatedBounded ==
    \A r \in Requests :
        /\ req[r].created <= 1 + Cardinality(Requests)
        /\ r \in Issued => challenge[r].created <= 1 + Cardinality(Requests)

\* The foreign key: a challenge has a sent request and a voter.
ChallengesHaveVoters == \A r \in Issued : r \in Sent /\ Exists(challenge[r].voter)

\* Whatever names a challenge was filled from committed ones.
NamedWereSent ==
    /\ \A r \in Requests : req[r].expired \subseteq Sent
    /\ \A q \in Verifies : verify[q].on \in Sent \cup {Wrong}
    /\ \A p \in Purges : purge[p].seen \subseteq Sent /\ purge[p].held \subseteq Sent

\* The rows that a transaction has locked are what they were when it got the lock.
LockedRowsHold ==
    /\ \A q \in Verifies : verify[q].phase \in {"locked", "compared"} =>
          /\ verify[q].on \in verify[q].held
          /\ verify[q].on \in Issued
          /\ ~challenge[verify[q].on].consumed
          /\ verify[q].now < challenge[verify[q].on].expires_at
          /\ challenge[verify[q].on].voter = verify[q].voter.id
          /\ verify[q].phase = "compared" => HasAttempts(verify[q].on)
    /\ \A h \in Requests : req[h].phase \in {"expiring", "inserted"} =>
          \A s \in req[h].expired :
              /\ s \in req[h].held
              /\ s \in Issued /\ ~challenge[s].consumed /\ req[h].now < challenge[s].expires_at

\* Before its UPDATE a request has expired nothing.
NothingExpiredYet ==
    \A h \in Requests : req[h].phase \in {"idle", "resolved", "ready"} => req[h].expired = {}

LocksExclude == \A r \in Requests : \A v, w \in Holders(r) : v = w

\* A purge finds and deletes challenges of its own voter only.
PurgeOwnRows ==
    \A p \in Purges :
        /\ purge[p].phase \notin {"deleting", "deleted"} => purge[p].seen = {} /\ purge[p].held = {}
        /\ \A r \in (purge[p].seen \cup purge[p].held) \cap Issued :
              challenge[r].voter = purge[p].voter

\* A login leaves its challenge in the table, spent, and there was no other login with it.
AcceptedRowsHold ==
    /\ \A q \in Verifies : verify[q].phase = "accepted" =>
          /\ verify[q].on \in Issued
          /\ challenge[verify[q].on].consumed
          /\ challenge[verify[q].on].voter = verify[q].voter.id
    /\ \A q, x \in Verifies : /\ verify[q].phase = "accepted" /\ verify[x].phase = "accepted"
                              /\ verify[q].on = verify[x].on
                              => q = x

\* Every copy that says "verified" is of a voter that has logged in.
VerifiedHaveLoggedIn ==
    /\ voter # NoVoter /\ voter.verified => LoggedIn(voter.id)
    /\ \A r \in Requests : req[r].voter.verified => LoggedIn(req[r].voter.id)
    /\ \A q \in Verifies : verify[q].voter # NoVoter /\ verify[q].voter.verified
                              => LoggedIn(verify[q].voter.id)
    /\ \A a \in Admins : admin[a] # <<>> /\ admin[a].verified => LoggedIn(admin[a].id)

\* The guesses that were answered are counted.
AnsweredAreCounted == \A r \in Issued : challenge[r].attempts = Cardinality(Answered(r))

\* What a request expired stays expired.
ExpiredStayExpired ==
    \A r \in Sent : \A s \in req[r].expired \cap Issued : challenge[s].expires_at <= req[r].now

OtpInv ==
    /\ TypeOK /\ CreatedBounded
    /\ ChallengesHaveVoters /\ NamedWereSent
    /\ LockedRowsHold /\ NothingExpiredYet /\ LocksExclude /\ PurgeOwnRows
    /\ AcceptedRowsHold /\ VerifiedHaveLoggedIn
    /\ AnsweredAreCounted
    /\ ExpiredStayExpired /\ ExpiredCodesAreDead

----------------------------------------------------------------------------
(* Operators. *)

LEMMA NewestIsThere ==
    ASSUME TypeOK, CreatedBounded, NEW S \in SUBSET Issued, S # {}
    PROVE  NewestOf(S) \in S
<1> DEFINE f == [s \in S |-> challenge[s].created]
           n == 1 + Cardinality(Requests)
<1>1. n \in Nat
  BY FS_CardinalityType, OtpAssumption
<1>2. \A s \in S : f[s] \in Nat /\ f[s] <= n
  BY DEF TypeOK, CreatedBounded, Issued, Challenge
<1> HIDE DEF n
<1>3. \E r \in S : \A s \in S : f[s] <= f[r]
  BY <1>1, <1>2, GreatestExists
<1>4. \E r \in S : \A s \in S : challenge[s].created <= challenge[r].created
  BY <1>3
<1> QED
  BY <1>4 DEF NewestOf

\* What the next number is taken from.
LEMMA CountOfCreated ==
    ASSUME TypeOK
    PROVE  LET n == Cardinality({s \in Requests : req[s].created > 0})
           IN  n \in Nat /\ n <= Cardinality(Requests) /\ Cardinality(Requests) \in Nat
<1> DEFINE S == {s \in Requests : req[s].created > 0}
<1>1. S \in SUBSET Requests /\ IsFiniteSet(Requests)
  BY OtpAssumption
<1> HIDE DEF S
<1>2. IsFiniteSet(S) /\ Cardinality(S) <= Cardinality(Requests)
  BY <1>1, FS_Subset
<1>3. Cardinality(S) \in Nat /\ Cardinality(Requests) \in Nat
  BY <1>1, <1>2, FS_CardinalityType
<1> QED
  BY <1>2, <1>3 DEF S

\* A row lock has one holder, whatever kind of transaction it is.
LEMMA OneHolder ==
    ASSUME LocksExclude, NEW s \in Requests
    PROVE  /\ \A q, x \in Verifies : s \in verify[q].held /\ s \in verify[x].held => q = x
           /\ \A h, k \in Requests : s \in req[h].held /\ s \in req[k].held => h = k
           /\ \A q \in Verifies, h \in Requests : ~(s \in verify[q].held /\ s \in req[h].held)
           /\ \A q \in Verifies, p \in Purges : ~(s \in verify[q].held /\ s \in purge[p].held)
           /\ \A h \in Requests, p \in Purges : ~(s \in req[h].held /\ s \in purge[p].held)
<1>1. \A v, w \in Holders(s) : v = w
  BY DEF LocksExclude
<1>2. /\ \A q \in Verifies : s \in verify[q].held => q \in Holders(s)
      /\ \A h \in Requests : s \in req[h].held => h \in Holders(s)
      /\ \A p \in Purges : s \in purge[p].held => p \in Holders(s)
  BY DEF Holders
<1>3. /\ \A q \in Verifies, h \in Requests : q # h
      /\ \A q \in Verifies, p \in Purges : q # p
      /\ \A h \in Requests, p \in Purges : h # p
  BY OtpAssumption
<1> QED
  BY <1>1, <1>2, <1>3

\* Locks are taken where there is none, by one transaction at a time.
LEMMA LocksStayExclusive ==
    ASSUME LocksExclude, NEW w,
           \A r \in Requests : \/ Holders(r)' \subseteq Holders(r)
                               \/ ~Locked(r) /\ Holders(r)' \subseteq {w}
    PROVE  LocksExclude'
<1> SUFFICES ASSUME NEW r \in Requests, NEW u \in Holders(r)', NEW v \in Holders(r)'
             PROVE  u = v
  BY DEF LocksExclude
<1>1. CASE Holders(r)' \subseteq Holders(r)
  BY <1>1 DEF LocksExclude
<1>2. CASE Holders(r)' \subseteq {w}
  BY <1>2
<1> QED
  BY <1>1, <1>2

----------------------------------------------------------------------------
(* The invariant holds initially. *)

LEMMA NewVoterTyped ==
    ASSUME NEW id \in VoterId
    PROVE  /\ NewVoter(id) \in Voter /\ NewVoter(id) # NoVoter
           /\ NewVoter(id).id = id /\ ~NewVoter(id).verified /\ ~NewVoter(id).blocked
<1>1. NewVoter(id) \in Voter
  BY DEF NewVoter, Voter
<1>2. /\ NewVoter(id).id = id
      /\ ~NewVoter(id).verified /\ ~NewVoter(id).blocked
  BY DEF NewVoter
<1> QED
  BY <1>1, <1>2, NoRowAssumption

LEMMA OtpInitInv == Init => OtpInv
<1> SUFFICES ASSUME Init PROVE OtpInv
  OBVIOUS
<1> DEFINE first == NewVoter(Earlier)
<1>1. first \in Voter /\ ~first.verified
  BY NewVoterTyped DEF VoterId
<1>2. 0 \in Time /\ clock = 0
  BY OtpAssumption DEF Init, Time
<1> HIDE DEF first
<1>3. /\ req = [r \in Requests |-> [phase |-> "idle", now |-> 0, voter |-> first, seen |-> {},
                                    held |-> {}, expired |-> {}, created |-> 0]]
      /\ voter = first
  BY DEF Init, first
<1>4. req \in [Requests -> RequestJob]
  BY <1>1, <1>2, <1>3 DEF RequestJob
<1>5. \A r \in Requests : /\ req[r].phase = "idle" /\ req[r].expired = {} /\ req[r].held = {}
                          /\ req[r].created = 0 /\ req[r].voter = first
  BY <1>3
<1>6. verify \in [Verifies -> VerifyJob]
  BY <1>2 DEF Init, VerifyJob
<1>7. \A q \in Verifies : /\ verify[q].phase = "idle" /\ verify[q].on = Wrong
                          /\ verify[q].held = {} /\ verify[q].voter = NoVoter
  BY DEF Init
<1>8. purge \in [Purges -> PurgeJob]
  BY DEF Init, PurgeJob, VoterId
<1>9. \A p \in Purges : purge[p].phase = "idle" /\ purge[p].seen = {} /\ purge[p].held = {}
  BY DEF Init
<1>10. Issued = {} /\ Sent = {} /\ \A r : Answered(r) = {} /\ Accepted(r) = {}
  BY <1>5, <1>7 DEF Init, Issued, Sent, Answered, Accepted
<1>11. TypeOK
  BY <1>1, <1>2, <1>3, <1>4, <1>6, <1>8 DEF Init, TypeOK
<1>12. CreatedBounded
  BY <1>5, <1>10, FS_CardinalityType, OtpAssumption DEF CreatedBounded
<1>13. ChallengesHaveVoters /\ NamedWereSent
  BY <1>5, <1>7, <1>9, <1>10 DEF ChallengesHaveVoters, NamedWereSent
<1>14. LockedRowsHold /\ NothingExpiredYet /\ LocksExclude /\ PurgeOwnRows
  BY <1>5, <1>7, <1>9 DEF LockedRowsHold, NothingExpiredYet, LocksExclude, Holders, PurgeOwnRows
<1>15. AcceptedRowsHold
  BY <1>7 DEF AcceptedRowsHold
<1>16. VerifiedHaveLoggedIn
  BY <1>1, <1>3, <1>5, <1>7 DEF Init, VerifiedHaveLoggedIn
<1>17. AnsweredAreCounted
  BY <1>10 DEF AnsweredAreCounted
<1>18. ExpiredStayExpired /\ ExpiredCodesAreDead
  BY <1>5, <1>10 DEF ExpiredStayExpired, ExpiredCodesAreDead
<1> QED
  BY <1>11, <1>12, <1>13, <1>14, <1>15, <1>16, <1>17, <1>18 DEF OtpInv

----------------------------------------------------------------------------
(* Steps of a request that commit nothing but, perhaps, a new voter. *)

LEMMA RequestJobStep ==
    ASSUME OtpInv, NEW r \in Requests, NEW job \in RequestJob,
           req[r].phase # "sent", job.phase # "sent",
           job.created <= 1 + Cardinality(Requests),
           job.expired \subseteq Sent,
           job.voter.verified => LoggedIn(job.voter.id),
           job.phase \in {"idle", "resolved", "ready"} => job.expired = {},
           job.phase \in {"expiring", "inserted"} =>
              \A s \in job.expired : /\ s \in job.held /\ s \in Issued /\ ~challenge[s].consumed
                                     /\ job.now < challenge[s].expires_at,
           \A s \in job.held : s \in req[r].held \/ ~Locked(s),
           req' = [req EXCEPT ![r] = job],
           voter' = voter \/ (voter = NoVoter /\ voter' = NewVoter(r)),
           UNCHANGED <<clock, challenge, verify, admin, purge>>
    PROVE  OtpInv'
<1> USE DEF OtpInv
<1>1. /\ req \in [Requests -> RequestJob] /\ req' \in [Requests -> RequestJob]
      /\ req'[r] = job /\ \A s \in Requests \ {r} : req'[s] = req[s]
  BY DEF TypeOK
<1>2. voter' \in Voter \cup {NoVoter}
  BY NewVoterTyped DEF TypeOK, VoterId
<1>3. /\ Issued' = Issued /\ \A id : LoggedIn(id)' = LoggedIn(id)
      /\ \A s : Answered(s)' = Answered(s) /\ Accepted(s)' = Accepted(s)
  BY DEF Issued, LoggedIn, Answered, Accepted
<1>4. Sent' = Sent /\ r \notin Sent
  BY <1>1 DEF Sent
<1>5. TypeOK'
  BY <1>1, <1>2 DEF TypeOK
<1>6. CreatedBounded'
  BY <1>1, <1>3 DEF CreatedBounded
<1>7. ChallengesHaveVoters'
  BY <1>3, <1>4 DEF ChallengesHaveVoters, Exists
<1>8. NamedWereSent'
  BY <1>1, <1>4 DEF NamedWereSent
<1>9. LockedRowsHold' /\ NothingExpiredYet'
  <2>1. ASSUME NEW h \in Requests, req'[h].phase \in {"expiring", "inserted"}, NEW s \in req'[h].expired
        PROVE  /\ s \in req'[h].held /\ s \in Issued /\ ~challenge[s].consumed
               /\ req'[h].now < challenge[s].expires_at
    <3>1. CASE h = r
      BY <1>1, <2>1, <3>1
    <3>2. CASE h # r
      BY <1>1, <2>1, <3>2 DEF LockedRowsHold
    <3> QED
      BY <3>1, <3>2
  <2> QED
    BY <1>1, <1>3, <2>1 DEF LockedRowsHold, NothingExpiredYet, HasAttempts
<1>10. LocksExclude'
  <2>1. ASSUME NEW s \in Requests
        PROVE  \/ Holders(s)' \subseteq Holders(s)
               \/ ~Locked(s) /\ Holders(s)' \subseteq {r}
    <3>1. CASE s \in job.held => s \in req[r].held
      BY <1>1, <3>1 DEF Holders
    <3>2. CASE ~Locked(s)
      BY <1>1, <3>2 DEF Holders, Locked
    <3> QED
      BY <3>1, <3>2
  <2> QED
    BY <2>1, LocksStayExclusive
<1>11. PurgeOwnRows' /\ AcceptedRowsHold'
  BY <1>3 DEF PurgeOwnRows, AcceptedRowsHold
<1>12. VerifiedHaveLoggedIn'
  <2>1. \A s \in Requests : req'[s].voter.verified => LoggedIn(req'[s].voter.id)
    BY <1>1 DEF VerifiedHaveLoggedIn
  <2>2. voter' # NoVoter /\ voter'.verified => LoggedIn(voter'.id)
    BY NewVoterTyped DEF VerifiedHaveLoggedIn, VoterId
  <2> QED
    BY <1>3, <2>1, <2>2 DEF VerifiedHaveLoggedIn
<1>13. AnsweredAreCounted'
  BY <1>3 DEF AnsweredAreCounted
<1>14. ExpiredStayExpired'
  BY <1>1, <1>3, <1>4 DEF ExpiredStayExpired, Sent
<1>15. ExpiredCodesAreDead'
  <2> SUFFICES ASSUME NEW t \in Requests, NEW s \in Requests, NEW q \in Verifies,
                      req'[t].phase = "sent", s \in req'[t].expired, q \in Accepted(s)
               PROVE  verify[q].now < req'[t].now
    BY <1>3 DEF ExpiredCodesAreDead
  <2>1. t # r
    BY <1>1
  <2> QED
    BY <1>1, <2>1 DEF ExpiredCodesAreDead
<1> QED
  BY <1>5, <1>6, <1>7, <1>8, <1>9, <1>10, <1>11, <1>12, <1>13, <1>14, <1>15

\* A step that moves a request on without locking or writing anything.
LEMMA RequestPhaseStep ==
    ASSUME OtpInv, NEW r \in Requests, NEW p \in (ReqInFlight \cup ReqDone) \ {"sent", "inserted"},
           NEW now \in Time, NEW S \in SUBSET Requests, NEW H \in SUBSET req[r].held,
           req[r].phase # "sent",
           p \in {"resolved", "ready", "expiring"} => req[r].phase \in {"resolved", "ready"},
           req' = [req EXCEPT ![r] = [req[r] EXCEPT !.phase = p, !.now = now, !.seen = S, !.held = H]],
           UNCHANGED <<clock, voter, challenge, verify, admin, purge>>
    PROVE  OtpInv'
<1>1. req[r] \in RequestJob /\ req[r].held \in SUBSET Requests
  BY DEF OtpInv, TypeOK, RequestJob
<1>2. PICK job : job = [req[r] EXCEPT !.phase = p, !.now = now, !.seen = S, !.held = H]
  OBVIOUS
<1>3. /\ job \in RequestJob /\ job.phase = p /\ job.voter = req[r].voter
      /\ job.created = req[r].created /\ job.expired = req[r].expired /\ job.held = H
  BY <1>1, <1>2 DEF RequestJob
<1>4. /\ job.created <= 1 + Cardinality(Requests) /\ job.expired \subseteq Sent
      /\ job.voter.verified => LoggedIn(job.voter.id)
  BY <1>3 DEF OtpInv, CreatedBounded, NamedWereSent, VerifiedHaveLoggedIn
<1>5. req' = [req EXCEPT ![r] = job] /\ job.phase # "sent" /\ job.phase # "inserted"
  BY <1>2, <1>3
<1>6. job.phase \in {"idle", "resolved", "ready", "expiring"} => job.expired = {}
  BY <1>3 DEF OtpInv, NothingExpiredYet, ReqInFlight, ReqDone
<1>7. \A s \in job.held : s \in req[r].held \/ ~Locked(s)
  BY <1>3
<1> QED
  BY <1>3, <1>4, <1>5, <1>6, <1>7, RequestJobStep

LEMMA ResolveVoterInv ==
    ASSUME OtpInv, NEW r \in Requests, ResolveVoter(r)
    PROVE  OtpInv'
<1>1. req[r] \in RequestJob /\ req[r].phase = "idle"
  BY DEF OtpInv, TypeOK, ResolveVoter
<1>2. voter' = voter \/ (voter = NoVoter /\ voter' = NewVoter(r))
  BY DEF ResolveVoter
<1>3. voter' \in Voter /\ (voter'.verified => LoggedIn(voter'.id))
  <2>1. CASE voter = NoVoter
    BY <2>1, NewVoterTyped DEF ResolveVoter, VoterId
  <2>2. CASE voter # NoVoter
    BY <2>2 DEF ResolveVoter, OtpInv, TypeOK, VerifiedHaveLoggedIn
  <2> QED
    BY <2>1, <2>2
<1>4. PICK v \in Voter : v = voter'
  BY <1>3
<1>5. PICK job : job = [req[r] EXCEPT !.phase = "resolved", !.voter = v]
  OBVIOUS
<1>6. /\ job \in RequestJob /\ job.phase = "resolved" /\ job.voter = v
      /\ job.created = req[r].created /\ job.expired = req[r].expired
  BY <1>1, <1>5 DEF RequestJob, ReqInFlight
<1>7. /\ req' = [req EXCEPT ![r] = job]
      /\ job.expired = {} /\ \A s \in job.held : s \in req[r].held
  BY <1>1, <1>4, <1>5, <1>6 DEF ResolveVoter, RequestJob, OtpInv, NothingExpiredYet
<1>8. /\ job.created <= 1 + Cardinality(Requests) /\ job.expired \subseteq Sent
      /\ job.voter.verified => LoggedIn(job.voter.id)
  BY <1>3, <1>4, <1>6 DEF OtpInv, CreatedBounded, NamedWereSent
<1>9. UNCHANGED <<clock, challenge, verify, admin, purge>>
  BY DEF ResolveVoter
<1> QED
  BY <1>1, <1>2, <1>6, <1>7, <1>8, <1>9, RequestJobStep

LEMMA QuietRequestInv ==
    ASSUME OtpInv, NEW r \in Requests, StaySilent(r) \/ ReserveSms(r) \/ StartExpire(r)
    PROVE  OtpInv'
<1>1. /\ req \in [Requests -> RequestJob] /\ req[r] \in RequestJob
      /\ req[r].now \in Time /\ req[r].seen \in SUBSET Requests
      /\ req[r].held \in SUBSET req[r].held /\ clock \in Time
  BY DEF OtpInv, TypeOK, RequestJob
<1>2. req[r].phase \in {"resolved", "ready"}
  BY DEF StaySilent, ReserveSms, StartExpire
<1>3. UNCHANGED <<clock, voter, challenge, verify, admin, purge>>
  BY DEF StaySilent, ReserveSms, StartExpire
<1>4. ASSUME NEW p \in {"silent", "refused"}, req' = [req EXCEPT ![r].phase = p]
      PROVE  OtpInv'
  <2>1. req' = [req EXCEPT ![r] = [req[r] EXCEPT !.phase = p, !.now = req[r].now,
                                                 !.seen = req[r].seen, !.held = req[r].held]]
    BY <1>1, <1>4 DEF RequestJob
  <2>2. p \in (ReqInFlight \cup ReqDone) \ {"sent", "inserted"}
    BY <1>4 DEF ReqDone
  <2>3. p \notin {"resolved", "ready", "expiring"} /\ req[r].phase # "sent"
    BY <1>2, <1>4
  <2> QED
    BY <1>1, <1>3, <2>1, <2>2, <2>3, RequestPhaseStep
<1>5. ASSUME req' = [req EXCEPT ![r].phase = "ready", ![r].now = clock]
      PROVE  OtpInv'
  <2>1. req' = [req EXCEPT ![r] = [req[r] EXCEPT !.phase = "ready", !.now = clock,
                                                 !.seen = req[r].seen, !.held = req[r].held]]
    BY <1>1, <1>5 DEF RequestJob
  <2>2. "ready" \in (ReqInFlight \cup ReqDone) \ {"sent", "inserted"}
    BY DEF ReqInFlight
  <2> QED
    BY <1>1, <1>2, <1>3, <2>1, <2>2, RequestPhaseStep
<1>6. CASE StartExpire(r)
  <2> DEFINE S == LiveOf(req[r].voter.id, req[r].now)
  <2>1. S \in SUBSET Requests
    BY DEF LiveOf
  <2>2. req' = [req EXCEPT ![r].phase = "expiring", ![r].seen = S]
    BY <1>6 DEF StartExpire
  <2> HIDE DEF S
  <2>3. req' = [req EXCEPT ![r] = [req[r] EXCEPT !.phase = "expiring", !.now = req[r].now,
                                                 !.seen = S, !.held = req[r].held]]
    BY <1>1, <2>2 DEF RequestJob
  <2>4. "expiring" \in (ReqInFlight \cup ReqDone) \ {"sent", "inserted"}
    BY DEF ReqInFlight
  <2> QED
    BY <1>1, <1>2, <1>3, <2>1, <2>3, <2>4, RequestPhaseStep
<1> QED
  BY <1>4, <1>5, <1>6 DEF StaySilent, ReserveSms

\* A request that ends without a text gives its locks back and leaves the rows alone.
LEMMA RequestEndsInv ==
    ASSUME OtpInv, NEW r \in Requests, NEW p \in {"failed", "crashed"},
           req[r].phase \in ReqInFlight, EndRequest(r, p),
           UNCHANGED <<clock, voter, challenge, verify, admin, purge>>
    PROVE  OtpInv'
<1>1. /\ req \in [Requests -> RequestJob] /\ req[r] \in RequestJob /\ req[r].now \in Time
      /\ req[r].phase # "sent" /\ {} \in SUBSET Requests /\ {} \in SUBSET req[r].held
  BY DEF OtpInv, TypeOK, RequestJob, ReqInFlight
<1>2. req' = [req EXCEPT ![r] = [req[r] EXCEPT !.phase = p, !.now = req[r].now,
                                               !.seen = {}, !.held = {}]]
  BY <1>1 DEF RequestJob, EndRequest
<1>3. p \in (ReqInFlight \cup ReqDone) \ {"sent", "inserted"}
  BY DEF ReqDone
<1> QED
  BY <1>1, <1>2, <1>3, RequestPhaseStep

\* The request locks one row: what it will expire is live, and nobody else holds it.
LEMMA ExpireRowInv ==
    ASSUME OtpInv, NEW r \in Requests, NEW s \in Requests, ExpireRow(r, s)
    PROVE  OtpInv'
<1> DEFINE live == LiveOf(req[r].voter.id, req[r].now)
<1>1. /\ req \in [Requests -> RequestJob] /\ req[r] \in RequestJob
      /\ req[r].phase = "expiring" /\ s \in Issued /\ ~Locked(s)
  BY DEF OtpInv, TypeOK, ExpireRow
<1>2. s \in live => ~challenge[s].consumed /\ challenge[s].expires_at > req[r].now
  BY DEF LiveOf, Live
<1>3. Issued \subseteq Sent
  BY DEF OtpInv, ChallengesHaveVoters
<1>4. req' = [req EXCEPT ![r].seen = req[r].seen \ {s}, ![r].held = req[r].held \cup {s},
                         ![r].expired = req[r].expired \cup ({s} \cap live)]
  BY <1>1 DEF ExpireRow
<1>5. PICK more : more = req[r].expired \cup ({s} \cap live)
  OBVIOUS
<1>6. PICK job : job = [req[r] EXCEPT !.seen = req[r].seen \ {s}, !.held = req[r].held \cup {s},
                                      !.expired = more]
  OBVIOUS
<1>7. more \in SUBSET Requests /\ more \subseteq Sent
  BY <1>1, <1>3, <1>5 DEF RequestJob, OtpInv, NamedWereSent
<1>8. /\ job \in RequestJob /\ job.phase = "expiring" /\ job.created = req[r].created
      /\ job.expired = more /\ job.held = req[r].held \cup {s}
      /\ job.voter = req[r].voter /\ job.now = req[r].now /\ req[r].now \in Time
  BY <1>1, <1>6, <1>7 DEF RequestJob
<1>9. req' = [req EXCEPT ![r] = job]
  BY <1>1, <1>4, <1>5, <1>6
<1>10. /\ job.voter.verified => LoggedIn(job.voter.id)
       /\ job.created <= 1 + Cardinality(Requests)
  BY <1>8 DEF OtpInv, VerifiedHaveLoggedIn, CreatedBounded
<1>11. UNCHANGED <<clock, voter, challenge, verify, admin, purge>>
  BY DEF ExpireRow
<1>12. ASSUME NEW x \in job.expired
       PROVE  /\ x \in job.held /\ x \in Issued /\ ~challenge[x].consumed
              /\ job.now < challenge[x].expires_at
  <2>1. CASE x \in req[r].expired
    BY <1>1, <1>8, <2>1 DEF OtpInv, LockedRowsHold
  <2>2. CASE x = s /\ s \in live
    <3>1. challenge[s].expires_at \in Int /\ req[r].now \in Int
      BY <1>1, <1>8, OtpAssumption DEF OtpInv, TypeOK, Issued, Challenge, Time
    <3> QED
      BY <1>1, <1>2, <1>8, <2>2, <3>1
  <2> QED
    BY <1>5, <1>8, <2>1, <2>2
<1>13. \A x \in job.held : x \in req[r].held \/ ~Locked(x)
  BY <1>1, <1>8
<1> HIDE DEF live
<1> QED
  BY <1>1, <1>7, <1>8, <1>9, <1>10, <1>11, <1>12, <1>13, RequestJobStep

\* The new challenge gets its number.
LEMMA InsertChallengeInv ==
    ASSUME OtpInv, NEW r \in Requests, InsertChallenge(r)
    PROVE  OtpInv'
<1> DEFINE n == 1 + Cardinality({s \in Requests : req[s].created > 0})
<1>1. /\ req \in [Requests -> RequestJob] /\ req[r] \in RequestJob
      /\ req[r].phase = "expiring"
  BY DEF OtpInv, TypeOK, InsertChallenge
<1>2. n \in Nat /\ n <= 1 + Cardinality(Requests)
  BY CountOfCreated DEF OtpInv
<1>3. req' = [req EXCEPT ![r].phase = "inserted", ![r].seen = {}, ![r].created = n]
  BY DEF InsertChallenge
<1> HIDE DEF n
<1>4. PICK job : job = [req[r] EXCEPT !.phase = "inserted", !.seen = {}, !.created = n]
  OBVIOUS
<1>5. /\ job \in RequestJob /\ job.phase = "inserted" /\ job.created = n
      /\ job.expired = req[r].expired /\ job.held = req[r].held
      /\ job.voter = req[r].voter /\ job.now = req[r].now
  BY <1>1, <1>2, <1>4 DEF RequestJob, ReqInFlight
<1>6. req' = [req EXCEPT ![r] = job]
  BY <1>1, <1>3, <1>4
<1>7. /\ job.voter.verified => LoggedIn(job.voter.id)
      /\ job.expired \subseteq Sent
      /\ \A s \in job.expired : /\ s \in job.held /\ s \in Issued /\ ~challenge[s].consumed
                                /\ job.now < challenge[s].expires_at
      /\ \A s \in job.held : s \in req[r].held
  BY <1>1, <1>5 DEF OtpInv, VerifiedHaveLoggedIn, NamedWereSent, LockedRowsHold
<1>8. UNCHANGED <<clock, voter, challenge, verify, admin, purge>>
  BY DEF InsertChallenge
<1> QED
  BY <1>1, <1>2, <1>5, <1>6, <1>7, <1>8, RequestJobStep

\* The request commits: its own challenge is new, and those it had locked expire now.
LEMMA CommitChallengeInv ==
    ASSUME OtpInv, NEW r \in Requests, CommitChallenge(r)
    PROVE  OtpInv'
<1> USE DEF OtpInv
<1>1. /\ req \in [Requests -> RequestJob] /\ req[r] \in RequestJob
      /\ req[r].phase = "inserted" /\ req[r].now \in Time /\ req[r].now \in Int
      /\ req[r].seen \in SUBSET Requests
      /\ challenge \in [Requests -> Challenge \cup {NoChallenge}]
  BY OtpAssumption DEF TypeOK, CommitChallenge, RequestJob, Time
<1>2. UNCHANGED <<clock, voter, verify, admin, purge>>
  BY DEF CommitChallenge
<1>3. CASE VoterGone(req[r].voter.id)
  BY <1>1, <1>2, <1>3, RequestEndsInv DEF CommitChallenge, ReqInFlight
<1>4. CASE ~VoterGone(req[r].voter.id)
  <2> DEFINE row == [voter |-> req[r].voter.id, created |-> req[r].created,
                     expires_at |-> req[r].now + OTP_TTL, attempts |-> 0, consumed |-> FALSE]
  <2>1. /\ req' = [req EXCEPT ![r].phase = "sent", ![r].seen = {}, ![r].held = {}]
        /\ challenge' = [s \in Requests |->
              IF s = r THEN row
              ELSE IF s \in req[r].expired THEN [challenge[s] EXCEPT !.expires_at = req[r].now]
              ELSE challenge[s]]
    BY <1>4 DEF CommitChallenge, EndRequest, StoreChallenge
  <2>2. row \in Challenge /\ row # NoChallenge
    <3>1. req[r].voter.id \in VoterId /\ req[r].created \in Nat
      BY <1>1 DEF RequestJob, Voter
    <3>2. req[r].now + OTP_TTL \in 0 .. MaxTime + OTP_TTL /\ 0 \in 0 .. OTP_MAX_ATTEMPTS
      BY <1>1, OtpAssumption DEF Time
    <3>3. row \in Challenge
      BY <3>1, <3>2 DEF Challenge
    <3> QED
      BY <3>3, NoRowAssumption
  <2>3. /\ row.voter = req[r].voter.id /\ row.created = req[r].created
        /\ row.attempts = 0 /\ ~row.consumed
    OBVIOUS
  <2> HIDE DEF row
  <2>4. r \notin Sent /\ r \notin Issued /\ Issued \subseteq Sent /\ Issued \subseteq Requests
    BY <1>1 DEF Sent, ChallengesHaveVoters, Issued
  <2>5. /\ req'[r].phase = "sent" /\ req'[r].expired = req[r].expired /\ req'[r].now = req[r].now
        /\ req'[r].voter = req[r].voter /\ req'[r].created = req[r].created /\ req'[r].held = {}
        /\ \A h \in Requests \ {r} : req'[h] = req[h]
    BY <1>1, <2>1 DEF RequestJob
  <2>6. Sent' = Sent \cup {r}
    BY <2>5 DEF Sent
  <2>7. \A s \in req[r].expired : /\ s \in Issued /\ ~challenge[s].consumed /\ s \in req[r].held
                                  /\ req[r].now < challenge[s].expires_at
    BY <1>1 DEF LockedRowsHold
  <2>8. ASSUME NEW s \in Issued
        PROVE  /\ challenge[s] \in Challenge /\ challenge'[s] \in Challenge
               /\ challenge'[s].voter = challenge[s].voter
               /\ challenge'[s].created = challenge[s].created
               /\ challenge'[s].attempts = challenge[s].attempts
               /\ challenge'[s].consumed = challenge[s].consumed
               /\ challenge'[s].expires_at =
                     IF s \in req[r].expired THEN req[r].now ELSE challenge[s].expires_at
    <3>1. challenge[s] \in Challenge /\ s # r
      BY <1>1, <2>4 DEF Issued
    <3>2. CASE s \in req[r].expired
      <4>1. challenge'[s] = [challenge[s] EXCEPT !.expires_at = req[r].now]
        BY <2>1, <2>4, <3>1, <3>2
      <4>2. req[r].now \in 0 .. MaxTime + OTP_TTL
        BY <1>1, OtpAssumption DEF Time
      <4> QED
        BY <3>1, <3>2, <4>1, <4>2 DEF Challenge
    <3>3. CASE s \notin req[r].expired
      BY <2>1, <2>4, <3>1, <3>3
    <3> QED
      BY <3>2, <3>3
  <2>9. /\ challenge'[r] = row
        /\ \A s \in Requests \ {r} : s \notin Issued => challenge'[s] = NoChallenge
    BY <2>1, <2>7 DEF Issued
  <2>10. Issued' = Issued \cup {r}
    BY <2>2, <2>8, <2>9, NoRowAssumption DEF Issued
  <2>11. /\ \A id : LoggedIn(id)' = LoggedIn(id)
         /\ \A s : Answered(s)' = Answered(s) /\ Accepted(s)' = Accepted(s)
    BY <1>2 DEF LoggedIn, Answered, Accepted
  <2>12. \A q \in Verifies : verify[q].on # r
    BY <2>4, OtpAssumption DEF NamedWereSent
  <2>13. TypeOK'
    <3>1. challenge' \in [Requests -> Challenge \cup {NoChallenge}]
      BY <2>1, <2>2, <2>8, <2>9
    <3>2. req' \in [Requests -> RequestJob]
      <4>1. req'[r] \in RequestJob
        BY <1>1, <2>1 DEF RequestJob, ReqDone
      <4> QED
        BY <1>1, <2>1, <4>1
    <3> QED
      BY <1>2, <3>1, <3>2 DEF TypeOK
  <2>14. CreatedBounded'
    BY <2>3, <2>5, <2>8, <2>9, <2>10 DEF CreatedBounded
  <2>15. ChallengesHaveVoters'
    BY <1>2, <1>4, <2>3, <2>6, <2>8, <2>9, <2>10 DEF ChallengesHaveVoters, Exists, VoterGone
  <2>16. NamedWereSent'
    BY <1>2, <2>5, <2>6 DEF NamedWereSent
  <2>17. LockedRowsHold' /\ NothingExpiredYet'
    <3>1. ASSUME NEW q \in Verifies, verify[q].phase \in {"locked", "compared"}
          PROVE  /\ verify[q].on \in verify[q].held /\ verify[q].on \in Issued'
                 /\ ~challenge'[verify[q].on].consumed
                 /\ verify[q].now < challenge'[verify[q].on].expires_at
                 /\ challenge'[verify[q].on].voter = verify[q].voter.id
                 /\ verify[q].phase = "compared" => challenge'[verify[q].on].attempts < OTP_MAX_ATTEMPTS
      <4>1. PICK s : s = verify[q].on
        OBVIOUS
      <4>2. s \in Issued /\ s \in Requests /\ s \in verify[q].held
        BY <3>1, <4>1 DEF LockedRowsHold, Issued
      <4>3. s \notin req[r].expired
        BY <2>7, <4>2, OneHolder
      <4> QED
        BY <2>8, <2>10, <3>1, <4>1, <4>2, <4>3 DEF LockedRowsHold, HasAttempts
    <3>2. ASSUME NEW h \in Requests, req'[h].phase \in {"expiring", "inserted"}, NEW s \in req'[h].expired
          PROVE  /\ s \in req'[h].held /\ s \in Issued' /\ ~challenge'[s].consumed
                 /\ req'[h].now < challenge'[s].expires_at
      <4>1. h # r /\ req'[h] = req[h]
        BY <2>5, <3>2
      <4>2. s \in Issued /\ s \in Requests /\ s \in req[h].held
        BY <3>2, <4>1 DEF LockedRowsHold, Issued
      <4>3. s \notin req[r].expired
        BY <2>7, <4>1, <4>2, OneHolder
      <4> QED
        BY <2>8, <2>10, <3>2, <4>1, <4>2, <4>3 DEF LockedRowsHold
    <3>3. NothingExpiredYet'
      BY <2>5 DEF NothingExpiredYet
    <3> QED
      BY <1>2, <3>1, <3>2, <3>3 DEF LockedRowsHold, HasAttempts
  <2>18. LocksExclude'
    <3>1. \A s \in Requests : Holders(s)' \subseteq Holders(s)
      BY <1>2, <2>5 DEF Holders
    <3> QED
      BY <3>1, LocksStayExclusive
  <2>19. PurgeOwnRows'
    <3> SUFFICES ASSUME NEW p \in Purges, NEW s \in (purge[p].seen \cup purge[p].held) \cap Issued'
                 PROVE  challenge'[s].voter = purge[p].voter
      BY <1>2 DEF PurgeOwnRows
    <3>1. s \in Issued
      BY <2>4, <2>10 DEF NamedWereSent
    <3> QED
      BY <2>8, <3>1 DEF PurgeOwnRows
  <2>20. AcceptedRowsHold'
    BY <1>2, <2>8, <2>10 DEF AcceptedRowsHold
  <2>21. VerifiedHaveLoggedIn'
    BY <1>2, <2>5, <2>11 DEF VerifiedHaveLoggedIn
  <2>22. AnsweredAreCounted'
    <3>1. Answered(r) = {}
      BY <2>12 DEF Answered
    <3>2. challenge'[r].attempts = Cardinality(Answered(r))
      BY <2>3, <2>9, <3>1, FS_EmptySet
    <3> QED
      BY <2>8, <2>10, <2>11, <3>2 DEF AnsweredAreCounted
  <2>23. ExpiredStayExpired'
    <3> SUFFICES ASSUME NEW t \in Sent', NEW s \in req'[t].expired \cap Issued'
                 PROVE  challenge'[s].expires_at <= req'[t].now
      BY DEF ExpiredStayExpired
    <3>1. CASE t = r
      BY <1>1, <2>5, <2>7, <2>8, <3>1
    <3>2. CASE t # r
      <4>1. t \in Sent /\ req'[t] = req[t] /\ t \in Requests
        BY <2>5, <2>6, <3>2 DEF Sent
      <4>2. s \in Issued /\ challenge[s].expires_at <= req[t].now
        BY <2>4, <2>10, <4>1 DEF NamedWereSent, ExpiredStayExpired
      <4>3. /\ challenge[s].expires_at \in Int /\ req[t].now \in Int
            /\ challenge'[s].expires_at \in Int
        BY <1>1, <2>8, <4>1, <4>2, OtpAssumption DEF Challenge, RequestJob, Time
      <4>4. challenge'[s].expires_at <= challenge[s].expires_at
        BY <1>1, <2>7, <2>8, <4>2, <4>3
      <4> QED
        BY <4>1, <4>2, <4>3, <4>4
    <3> QED
      BY <3>1, <3>2
  <2>24. ExpiredCodesAreDead'
    <3> SUFFICES ASSUME NEW t \in Requests, NEW s \in Requests, NEW q \in Verifies,
                        req'[t].phase = "sent", s \in req'[t].expired, q \in Accepted(s)
                 PROVE  verify[q].now < req'[t].now
      BY <1>2, <2>11 DEF ExpiredCodesAreDead
    <3>1. t # r
      <4>1. challenge[s].consumed
        BY DEF Accepted, AcceptedRowsHold
      <4> QED
        BY <2>5, <2>7, <4>1
    <3> QED
      BY <2>5, <3>1 DEF ExpiredCodesAreDead
  <2> QED
    BY <2>13, <2>14, <2>15, <2>16, <2>17, <2>18, <2>19, <2>20, <2>21, <2>22, <2>23, <2>24
<1> QED
  BY <1>3, <1>4

----------------------------------------------------------------------------
(* Steps of a verification that compare nothing. *)

LEMMA VerifyJobStep ==
    ASSUME OtpInv, NEW q \in Verifies, NEW job \in VerifyJob,
           verify[q].phase \notin {"accepted", "wrong"}, job.phase \notin {"accepted", "wrong"},
           job.on \in Sent \cup {Wrong},
           job.voter # NoVoter /\ job.voter.verified => LoggedIn(job.voter.id),
           job.phase \in {"locked", "compared"} =>
              /\ job.on \in job.held /\ job.on \in Issued
              /\ ~challenge[job.on].consumed
              /\ job.now < challenge[job.on].expires_at
              /\ challenge[job.on].voter = job.voter.id
              /\ job.phase = "compared" => HasAttempts(job.on),
           \A s \in job.held : s \in verify[q].held \/ ~Locked(s),
           verify' = [verify EXCEPT ![q] = job],
           UNCHANGED <<clock, voter, challenge, req, admin, purge>>
    PROVE  OtpInv'
<1> USE DEF OtpInv
<1>1. /\ verify \in [Verifies -> VerifyJob] /\ verify' \in [Verifies -> VerifyJob]
      /\ verify'[q] = job /\ \A x \in Verifies \ {q} : verify'[x] = verify[x]
  BY DEF TypeOK
<1>2. Issued' = Issued /\ Sent' = Sent
  BY DEF Issued, Sent
<1>3. \A id : LoggedIn(id)' = LoggedIn(id)
  <2>1. \A x \in Verifies : \/ verify'[x] = verify[x]
                            \/ verify'[x].phase # "accepted" /\ verify[x].phase # "accepted"
    BY <1>1
  <2> QED
    BY <2>1 DEF LoggedIn
<1>4. \A s : Answered(s)' = Answered(s) /\ Accepted(s)' = Accepted(s)
  <2>1. \A x \in Verifies :
          \/ verify'[x] = verify[x]
          \/ /\ verify'[x].phase \notin {"accepted", "wrong"}
             /\ verify[x].phase \notin {"accepted", "wrong"}
    BY <1>1
  <2> QED
    BY <2>1 DEF Answered, Accepted
<1>5. TypeOK'
  BY <1>1 DEF TypeOK
<1>6. CreatedBounded' /\ ChallengesHaveVoters'
  BY <1>2 DEF CreatedBounded, ChallengesHaveVoters, Exists
<1>7. NamedWereSent'
  BY <1>1, <1>2 DEF NamedWereSent
<1>8. LockedRowsHold' /\ NothingExpiredYet'
  <2>1. ASSUME NEW x \in Verifies, verify'[x].phase \in {"locked", "compared"}
        PROVE  /\ verify'[x].on \in verify'[x].held /\ verify'[x].on \in Issued
               /\ ~challenge[verify'[x].on].consumed
               /\ verify'[x].now < challenge[verify'[x].on].expires_at
               /\ challenge[verify'[x].on].voter = verify'[x].voter.id
               /\ verify'[x].phase = "compared" => HasAttempts(verify'[x].on)
    <3>1. CASE x = q
      BY <1>1, <2>1, <3>1
    <3>2. CASE x # q
      BY <1>1, <2>1, <3>2 DEF LockedRowsHold
    <3> QED
      BY <3>1, <3>2
  <2> QED
    BY <1>2, <2>1 DEF LockedRowsHold, NothingExpiredYet, HasAttempts
<1>9. LocksExclude'
  <2>1. ASSUME NEW s \in Requests
        PROVE  \/ Holders(s)' \subseteq Holders(s)
               \/ ~Locked(s) /\ Holders(s)' \subseteq {q}
    <3>1. CASE s \in job.held => s \in verify[q].held
      BY <1>1, <3>1 DEF Holders
    <3>2. CASE ~Locked(s)
      BY <1>1, <3>2 DEF Holders, Locked
    <3> QED
      BY <3>1, <3>2
  <2> QED
    BY <2>1, LocksStayExclusive
<1>10. PurgeOwnRows'
  BY <1>2 DEF PurgeOwnRows
<1>11. AcceptedRowsHold'
  <2>1. \A x \in Verifies : verify'[x].phase = "accepted" => verify'[x] = verify[x]
    BY <1>1
  <2> QED
    BY <1>2, <2>1 DEF AcceptedRowsHold
<1>12. VerifiedHaveLoggedIn'
  <2>1. \A x \in Verifies : verify'[x].voter # NoVoter /\ verify'[x].voter.verified
                              => LoggedIn(verify'[x].voter.id)
    BY <1>1 DEF VerifiedHaveLoggedIn
  <2> QED
    BY <1>3, <2>1 DEF VerifiedHaveLoggedIn
<1>13. AnsweredAreCounted' /\ ExpiredStayExpired'
  BY <1>2, <1>4 DEF AnsweredAreCounted, ExpiredStayExpired
<1>14. ExpiredCodesAreDead'
  <2> SUFFICES ASSUME NEW t \in Requests, NEW s \in Requests, NEW x \in Verifies,
                      req[t].phase = "sent", s \in req[t].expired, x \in Accepted(s)
               PROVE  verify'[x].now < req[t].now
    BY <1>4 DEF ExpiredCodesAreDead
  <2>1. verify'[x] = verify[x]
    BY <1>1 DEF Accepted
  <2> QED
    BY <2>1 DEF ExpiredCodesAreDead
<1> QED
  BY <1>5, <1>6, <1>7, <1>8, <1>9, <1>10, <1>11, <1>12, <1>13, <1>14

LEMMA ReadVoterInv ==
    ASSUME OtpInv, NEW q \in Verifies, NEW code \in Issued \cup {Wrong}, ReadVoter(q, code)
    PROVE  OtpInv'
<1>1. verify \in [Verifies -> VerifyJob] /\ verify[q] \in VerifyJob /\ verify[q].phase = "idle"
  BY DEF OtpInv, TypeOK, ReadVoter
<1>2. PICK p \in {"looking", "read"} :
        verify' = [verify EXCEPT ![q].phase = p, ![q].now = clock, ![q].code = code,
                                 ![q].voter = voter]
  BY DEF ReadVoter
<1>3. PICK job : job = [verify[q] EXCEPT !.phase = p, !.now = clock, !.code = code, !.voter = voter]
  OBVIOUS
<1>4. clock \in Time /\ voter \in Voter \cup {NoVoter} /\ code \in Requests \cup {Wrong}
  BY DEF OtpInv, TypeOK, Issued
<1>5. job \in VerifyJob /\ job.phase = p /\ job.voter = voter /\ job.on = verify[q].on
      /\ \A s \in job.held : s \in verify[q].held
  BY <1>1, <1>3, <1>4 DEF VerifyJob, VerifyInFlight
<1>6. verify' = [verify EXCEPT ![q] = job]
  BY <1>1, <1>2, <1>3
<1>7. /\ job.on \in Sent \cup {Wrong}
      /\ job.voter # NoVoter /\ job.voter.verified => LoggedIn(job.voter.id)
  BY <1>5 DEF OtpInv, NamedWereSent, VerifiedHaveLoggedIn
<1>8. UNCHANGED <<clock, voter, challenge, req, admin, purge>>
  BY DEF ReadVoter
<1> QED
  BY <1>1, <1>5, <1>6, <1>7, <1>8, VerifyJobStep

LEMMA StartLookupInv ==
    ASSUME OtpInv, NEW q \in Verifies, StartLookup(q)
    PROVE  OtpInv'
<1>1. PICK S : S = LiveOf(verify[q].voter.id, verify[q].now)
  OBVIOUS
<1>2. /\ S \in SUBSET Requests /\ verify[q] \in VerifyJob /\ verify[q].phase = "read"
      /\ verify \in [Verifies -> VerifyJob]
  BY <1>1 DEF LiveOf, OtpInv, TypeOK, StartLookup
<1>3. PICK job : job = [verify[q] EXCEPT !.phase = "looking", !.seen = S]
  OBVIOUS
<1>4. /\ job \in VerifyJob /\ job.phase = "looking" /\ job.voter = verify[q].voter
      /\ job.on = verify[q].on /\ job.held = verify[q].held
  BY <1>2, <1>3 DEF VerifyJob, VerifyInFlight
<1>5. verify' = [verify EXCEPT ![q].phase = "looking", ![q].seen = S]
  BY <1>1 DEF StartLookup
<1>6. verify' = [verify EXCEPT ![q] = job]
  BY <1>2, <1>3, <1>5
<1>7. /\ job.on \in Sent \cup {Wrong}
      /\ job.voter # NoVoter /\ job.voter.verified => LoggedIn(job.voter.id)
  BY <1>4 DEF OtpInv, NamedWereSent, VerifiedHaveLoggedIn
<1>8. UNCHANGED <<clock, voter, challenge, req, admin, purge>>
  BY DEF StartLookup
<1> QED
  BY <1>2, <1>4, <1>6, <1>7, <1>8, VerifyJobStep

\* What a verification that ends leaves in its record.
LEMMA EndedJob ==
    ASSUME TypeOK, NEW q \in Verifies, NEW p \in VerifyDone, EndVerify(q, p)
    PROVE  \E job \in VerifyJob :
              /\ verify' = [verify EXCEPT ![q] = job]
              /\ job.phase = p /\ job.held = {} /\ job.on = verify[q].on
              /\ job.voter = verify[q].voter /\ job.now = verify[q].now
<1>1. verify \in [Verifies -> VerifyJob] /\ verify[q] \in VerifyJob
  BY DEF TypeOK
<1>2. PICK job : job = [verify[q] EXCEPT !.phase = p, !.code = Wrong, !.seen = {}, !.held = {}]
  OBVIOUS
<1>3. verify' = [verify EXCEPT ![q] = job]
  BY <1>1, <1>2 DEF EndVerify
<1>4. job \in VerifyJob
  BY <1>1, <1>2 DEF VerifyJob
<1>5. /\ job.phase = p /\ job.held = {} /\ job.on = verify[q].on
      /\ job.voter = verify[q].voter /\ job.now = verify[q].now
  BY <1>1, <1>2 DEF VerifyJob
<1> QED
  BY <1>3, <1>4, <1>5

\* A verification that ends without an answer about its code writes no row.
LEMMA VerifyEndsInv ==
    ASSUME OtpInv, NEW q \in Verifies, NEW p \in {"refused", "crashed", "lost"},
           verify[q].phase \in VerifyInFlight, EndVerify(q, p),
           UNCHANGED <<clock, voter, challenge, req, admin, purge>>
    PROVE  OtpInv'
<1>1. p \in VerifyDone /\ verify[q].phase \notin {"accepted", "wrong"}
  BY DEF VerifyDone, VerifyInFlight
<1>2. PICK job \in VerifyJob :
              /\ verify' = [verify EXCEPT ![q] = job]
              /\ job.phase = p /\ job.held = {} /\ job.on = verify[q].on
              /\ job.voter = verify[q].voter /\ job.now = verify[q].now
  BY <1>1, EndedJob DEF OtpInv
<1>3. /\ job.on \in Sent \cup {Wrong}
      /\ job.voter # NoVoter /\ job.voter.verified => LoggedIn(job.voter.id)
  BY <1>2 DEF OtpInv, NamedWereSent, VerifiedHaveLoggedIn
<1>4. job.phase \notin {"accepted", "wrong", "locked", "compared"}
  BY <1>2
<1> QED
  BY <1>1, <1>2, <1>3, <1>4, VerifyJobStep

\* The lookup locks the newest challenge that is left, and takes it if it is still live.
LEMMA LookAtInv ==
    ASSUME OtpInv, NEW q \in Verifies, LookAt(q)
    PROVE  OtpInv'
<1> DEFINE left == verify[q].seen \cap Issued
           live == LiveOf(verify[q].voter.id, verify[q].now)
<1>1. /\ verify \in [Verifies -> VerifyJob] /\ verify[q] \in VerifyJob
      /\ verify[q].phase = "looking"
  BY DEF OtpInv, TypeOK, LookAt
<1>2. UNCHANGED <<clock, voter, challenge, req, admin, purge>>
  BY DEF LookAt
<1>3. PICK r : r = NewestOf(left)
  OBVIOUS
<1>4. left # {} /\ left \in SUBSET Issued
  BY DEF LookAt
<1>5. r \in left
  BY <1>3, <1>4, NewestIsThere DEF OtpInv
<1>6. /\ ~Locked(r)
      /\ verify' = IF r \in live
                   THEN [verify EXCEPT ![q].phase = "locked", ![q].on = r,
                                       ![q].seen = {}, ![q].held = verify[q].held \cup {r}]
                   ELSE [verify EXCEPT ![q].seen = verify[q].seen \ {r},
                                       ![q].held = verify[q].held \cup {r}]
  BY <1>1, <1>3 DEF LookAt
<1>7. r \in Issued /\ r \in Requests /\ r \in Sent
  BY <1>5 DEF Issued, OtpInv, ChallengesHaveVoters
<1>8. r \in live => /\ ~challenge[r].consumed /\ challenge[r].expires_at > verify[q].now
                    /\ challenge[r].voter = verify[q].voter.id
  BY DEF LiveOf, Live
<1>9. verify[q].voter # NoVoter /\ verify[q].voter.verified => LoggedIn(verify[q].voter.id)
  BY DEF OtpInv, VerifiedHaveLoggedIn
<1> HIDE DEF left, live
<1>10. CASE r \in live
  <2>1. PICK job : job = [verify[q] EXCEPT !.phase = "locked", !.on = r,
                                           !.seen = {}, !.held = verify[q].held \cup {r}]
    OBVIOUS
  <2>2. /\ job \in VerifyJob /\ job.phase = "locked" /\ job.voter = verify[q].voter
        /\ job.on = r /\ job.now = verify[q].now /\ job.held = verify[q].held \cup {r}
    BY <1>1, <1>7, <2>1 DEF VerifyJob, VerifyInFlight
  <2>3. verify' = [verify EXCEPT ![q] = job]
    BY <1>1, <1>6, <1>10, <2>1
  <2>4. job.now < challenge[r].expires_at
    <3>1. verify[q].now \in Int /\ challenge[r].expires_at \in Int
      BY <1>1, <1>7, OtpAssumption DEF OtpInv, TypeOK, VerifyJob, Time, Issued, Challenge
    <3> QED
      BY <1>8, <1>10, <2>2, <3>1
  <2>5. \A s \in job.held : s \in verify[q].held \/ ~Locked(s)
    BY <1>6, <2>2
  <2> QED
    BY <1>1, <1>2, <1>7, <1>8, <1>9, <1>10, <2>2, <2>3, <2>4, <2>5, VerifyJobStep
<1>11. CASE r \notin live
  <2>1. PICK job : job = [verify[q] EXCEPT !.seen = verify[q].seen \ {r},
                                           !.held = verify[q].held \cup {r}]
    OBVIOUS
  <2>2. /\ job \in VerifyJob /\ job.phase = "looking" /\ job.voter = verify[q].voter
        /\ job.on = verify[q].on /\ job.held = verify[q].held \cup {r}
    BY <1>1, <1>7, <2>1 DEF VerifyJob
  <2>3. verify' = [verify EXCEPT ![q] = job]
    BY <1>1, <1>6, <1>11, <2>1
  <2>4. \A s \in job.held : s \in verify[q].held \/ ~Locked(s)
    BY <1>6, <2>2
  <2>5. job.on \in Sent \cup {Wrong}
    BY <2>2 DEF OtpInv, NamedWereSent
  <2> QED
    BY <1>1, <1>2, <1>9, <2>2, <2>3, <2>4, <2>5, VerifyJobStep
<1> QED
  BY <1>10, <1>11

\* The codes are compared only with an attempt left, on the row that is locked.
LEMMA CompareInv ==
    ASSUME OtpInv, NEW q \in Verifies, Compare(q)
    PROVE  OtpInv'
<1>1. /\ verify \in [Verifies -> VerifyJob] /\ verify[q] \in VerifyJob
      /\ verify[q].phase = "locked" /\ HasAttempts(verify[q].on)
  BY DEF OtpInv, TypeOK, Compare
<1>2. PICK job : job = [verify[q] EXCEPT !.phase = "compared"]
  OBVIOUS
<1>3. /\ job \in VerifyJob /\ job.phase = "compared" /\ job.voter = verify[q].voter
      /\ job.on = verify[q].on /\ job.now = verify[q].now /\ job.held = verify[q].held
  BY <1>1, <1>2 DEF VerifyJob, VerifyInFlight
<1>4. verify' = [verify EXCEPT ![q] = job]
  BY <1>1, <1>2 DEF Compare
<1>5. /\ job.on \in Sent \cup {Wrong}
      /\ job.voter # NoVoter /\ job.voter.verified => LoggedIn(job.voter.id)
  BY <1>3 DEF OtpInv, NamedWereSent, VerifiedHaveLoggedIn
<1>6. /\ job.on \in job.held /\ job.on \in Issued
      /\ ~challenge[job.on].consumed
      /\ job.now < challenge[job.on].expires_at
      /\ challenge[job.on].voter = job.voter.id
      /\ HasAttempts(job.on)
  BY <1>1, <1>3 DEF OtpInv, LockedRowsHold
<1>7. UNCHANGED <<clock, voter, challenge, req, admin, purge>>
  BY DEF Compare
<1> QED
  BY <1>1, <1>3, <1>4, <1>5, <1>6, <1>7, VerifyJobStep

----------------------------------------------------------------------------
(* The answer about a code: the one step that writes a challenge under its row lock. *)

LEMMA GuessStep ==
    ASSUME OtpInv, NEW q \in Verifies, NEW p \in {"accepted", "wrong"},
           NEW r, NEW job \in VerifyJob, NEW row \in Challenge,
           verify[q].phase = "compared", verify[q].on = r,
           job.phase = p, job.held = {}, job.on = r,
           job.voter = verify[q].voter, job.now = verify[q].now,
           verify' = [verify EXCEPT ![q] = job],
           row.voter = challenge[r].voter, row.created = challenge[r].created,
           row.expires_at = challenge[r].expires_at,
           row.attempts = challenge[r].attempts + 1,
           row.consumed <=> p = "accepted",
           challenge' = [challenge EXCEPT ![r] = row],
           voter' \in Voter, voter'.id = voter.id,
           voter'.verified => voter.verified \/ p = "accepted",
           UNCHANGED <<clock, req, admin, purge>>
    PROVE  OtpInv'
<1> USE DEF OtpInv
<1>1. /\ r \in Issued /\ r \in Requests /\ challenge[r] \in Challenge /\ ~challenge[r].consumed
      /\ verify[q].now < challenge[r].expires_at /\ challenge[r].voter = verify[q].voter.id
      /\ r \in verify[q].held /\ HasAttempts(r)
  BY DEF LockedRowsHold, TypeOK, Issued
<1>2. /\ challenge'[r] = row /\ \A s \in Requests \ {r} : challenge'[s] = challenge[s]
      /\ challenge' \in [Requests -> Challenge \cup {NoChallenge}]
  BY <1>1 DEF TypeOK
<1>3. /\ verify[q] \in VerifyJob /\ job \in VerifyJob /\ job.phase = p /\ job.on = r
      /\ job.now = verify[q].now /\ job.voter = verify[q].voter
  BY DEF TypeOK
<1>4. /\ verify'[q] = job /\ \A x \in Verifies \ {q} : verify'[x] = verify[x]
      /\ verify' \in [Verifies -> VerifyJob]
  BY <1>3 DEF TypeOK
<1>5. Issued' = Issued /\ Sent' = Sent
  BY <1>1, <1>2, NoRowAssumption DEF Issued, Sent
<1>6. \A id : LoggedIn(id) => LoggedIn(id)'
  BY <1>4 DEF LoggedIn
<1>7. voter # NoVoter /\ voter.id = challenge[r].voter /\ voter' # NoVoter
  BY <1>1, NoRowAssumption DEF ChallengesHaveVoters, Exists
<1>8. TypeOK'
  BY <1>2, <1>4 DEF TypeOK
<1>9. CreatedBounded'
  BY <1>2, <1>5 DEF CreatedBounded
<1>10. ChallengesHaveVoters'
  <2>1. \A s \in Issued : challenge'[s].voter = challenge[s].voter
    BY <1>2 DEF Issued
  <2> QED
    BY <1>5, <1>7, <2>1 DEF ChallengesHaveVoters, Exists
<1>11. NamedWereSent'
  BY <1>3, <1>4, <1>5 DEF NamedWereSent
<1>12. LockedRowsHold' /\ NothingExpiredYet'
  <2>1. ASSUME NEW x \in Verifies, verify'[x].phase \in {"locked", "compared"}
        PROVE  /\ verify'[x].on \in verify'[x].held /\ verify'[x].on \in Issued'
               /\ ~challenge'[verify'[x].on].consumed
               /\ verify'[x].now < challenge'[verify'[x].on].expires_at
               /\ challenge'[verify'[x].on].voter = verify'[x].voter.id
               /\ verify'[x].phase = "compared" => challenge'[verify'[x].on].attempts < OTP_MAX_ATTEMPTS
    <3>1. x # q /\ verify'[x] = verify[x]
      BY <1>3, <1>4, <2>1
    <3>2. PICK s : s = verify[x].on
      OBVIOUS
    <3>3. s \in Issued /\ s \in Requests /\ s \in verify[x].held
      BY <2>1, <3>1, <3>2 DEF LockedRowsHold, Issued
    <3>4. s # r
      BY <1>1, <3>1, <3>3, OneHolder
    <3>5. challenge'[s] = challenge[s]
      BY <1>2, <3>3, <3>4
    <3> QED
      BY <1>5, <2>1, <3>1, <3>2, <3>3, <3>5 DEF LockedRowsHold, HasAttempts
  <2>2. ASSUME NEW h \in Requests, req[h].phase \in {"expiring", "inserted"}, NEW s \in req[h].expired
        PROVE  /\ s \in req[h].held
               /\ s \in Issued /\ ~challenge'[s].consumed /\ req[h].now < challenge'[s].expires_at
    <3>1. s \in Issued /\ s \in Requests /\ s \in req[h].held
      BY <2>2 DEF LockedRowsHold, Issued
    <3>2. s # r
      BY <1>1, <3>1, OneHolder
    <3> QED
      BY <1>2, <2>2, <3>1, <3>2 DEF LockedRowsHold
  <2> QED
    BY <1>5, <2>1, <2>2 DEF LockedRowsHold, NothingExpiredYet, HasAttempts
<1>13. LocksExclude'
  <2>1. \A s \in Requests : Holders(s)' \subseteq Holders(s)
    BY <1>4 DEF Holders
  <2> QED
    BY <2>1, LocksStayExclusive
<1>14. PurgeOwnRows'
  <2>1. \A s \in Issued : challenge'[s].voter = challenge[s].voter
    BY <1>2 DEF Issued
  <2> QED
    BY <1>5, <2>1 DEF PurgeOwnRows
<1>15. \A x \in Verifies \ {q} : verify[x].phase = "accepted" =>
          verify[x].on # r /\ challenge'[verify[x].on] = challenge[verify[x].on]
  BY <1>1, <1>2 DEF AcceptedRowsHold, Issued
<1>16. AcceptedRowsHold'
  <2>1. ASSUME NEW x \in Verifies, verify'[x].phase = "accepted"
        PROVE  /\ verify'[x].on \in Issued'
               /\ challenge'[verify'[x].on].consumed
               /\ challenge'[verify'[x].on].voter = verify'[x].voter.id
    <3>1. CASE x = q
      BY <1>1, <1>2, <1>3, <1>4, <1>5, <2>1, <3>1
    <3>2. CASE x # q
      BY <1>4, <1>5, <1>15, <2>1, <3>2 DEF AcceptedRowsHold
    <3> QED
      BY <3>1, <3>2
  <2>2. ASSUME NEW x \in Verifies, NEW y \in Verifies,
               verify'[x].phase = "accepted", verify'[y].phase = "accepted",
               verify'[x].on = verify'[y].on
        PROVE  x = y
    <3>1. CASE x # q /\ y # q
      BY <1>4, <2>2, <3>1 DEF AcceptedRowsHold
    <3>2. CASE x = q /\ y # q
      BY <1>3, <1>4, <1>15, <2>2, <3>2
    <3>3. CASE x # q /\ y = q
      BY <1>3, <1>4, <1>15, <2>2, <3>3
    <3> QED
      BY <3>1, <3>2, <3>3
  <2> QED
    BY <2>1, <2>2 DEF AcceptedRowsHold
<1>17. VerifiedHaveLoggedIn'
  <2>1. p = "accepted" => LoggedIn(voter.id)'
    BY <1>1, <1>3, <1>4, <1>7 DEF LoggedIn
  <2>2. voter'.verified => LoggedIn(voter.id)'
    BY <1>6, <1>7, <2>1 DEF VerifiedHaveLoggedIn
  <2>3. \A x \in Verifies : verify'[x].voter = verify[x].voter
    BY <1>3, <1>4
  <2> QED
    BY <1>6, <2>2, <2>3 DEF VerifiedHaveLoggedIn
<1>18. AnsweredAreCounted'
  <2>1. ASSUME NEW s \in Issued, s # r
        PROVE  challenge'[s].attempts = Cardinality(Answered(s)')
    <3>1. Answered(s)' = Answered(s)
      BY <1>3, <1>4, <2>1 DEF Answered
    <3> QED
      BY <1>2, <2>1, <3>1 DEF AnsweredAreCounted, Issued
  <2>2. Answered(r)' = Answered(r) \cup {q} /\ q \notin Answered(r)
    BY <1>3, <1>4 DEF Answered
  <2>3. IsFiniteSet(Answered(r))
    BY FS_Subset, OtpAssumption DEF Answered
  <2>4. Cardinality(Answered(r)') = Cardinality(Answered(r)) + 1
    BY <2>2, <2>3, FS_AddElement
  <2>5. challenge'[r].attempts = Cardinality(Answered(r)')
    BY <1>1, <1>2, <2>4 DEF AnsweredAreCounted
  <2> QED
    BY <1>5, <2>1, <2>5 DEF AnsweredAreCounted
<1>19. ExpiredStayExpired'
  <2>1. \A s \in Issued : challenge'[s].expires_at = challenge[s].expires_at
    BY <1>2 DEF Issued
  <2> QED
    BY <1>5, <2>1 DEF ExpiredStayExpired
<1>20. ExpiredCodesAreDead'
  <2> SUFFICES ASSUME NEW t \in Requests, NEW s \in Requests, NEW x \in Verifies,
                      req[t].phase = "sent", s \in req[t].expired,
                      verify'[x].phase = "accepted", verify'[x].on = s
               PROVE  verify'[x].now < req[t].now
    BY DEF ExpiredCodesAreDead, Accepted
  <2>1. CASE x = q
    <3>1. s = r
      BY <1>3, <1>4, <2>1
    <3>2. challenge[r].expires_at <= req[t].now
      BY <1>1, <3>1 DEF ExpiredStayExpired, Sent
    <3>3. verify[q].now \in Int /\ challenge[r].expires_at \in Int /\ req[t].now \in Int
      BY <1>1, <1>3, OtpAssumption DEF TypeOK, VerifyJob, RequestJob, Challenge, Time
    <3> QED
      BY <1>1, <1>3, <1>4, <2>1, <3>2, <3>3
  <2>2. CASE x # q
    BY <1>4, <2>2 DEF ExpiredCodesAreDead, Accepted
  <2> QED
    BY <2>1, <2>2
<1> QED
  BY <1>8, <1>9, <1>10, <1>11, <1>12, <1>13, <1>14, <1>16, <1>17, <1>18, <1>19, <1>20

LEMMA DecideInv ==
    ASSUME OtpInv, NEW q \in Verifies, Decide(q)
    PROVE  OtpInv'
<1>1. PICK r : r = verify[q].on
  OBVIOUS
<1>2. /\ verify \in [Verifies -> VerifyJob] /\ verify[q].phase = "compared"
      /\ r \in Issued /\ challenge[r] \in Challenge /\ Exists(challenge[r].voter) /\ ~challenge[r].consumed
      /\ voter \in Voter \cup {NoVoter} /\ HasAttempts(r)
  BY <1>1 DEF OtpInv, TypeOK, LockedRowsHold, ChallengesHaveVoters, Issued, Decide
<1>3. voter # NoVoter /\ voter \in Voter
  BY <1>2 DEF Exists
<1>4. UNCHANGED <<clock, req, admin, purge>>
  BY DEF Decide
<1>5. PICK p \in {"accepted", "wrong"} :
         /\ EndVerify(q, p)
         /\ p = "wrong" => challenge' = [challenge EXCEPT ![r] = CountGuess(r)] /\ UNCHANGED voter
         /\ p = "accepted" => challenge' = [challenge EXCEPT ![r] = Consume(r)] /\ voter' = MarkVerified(q)
  BY <1>1 DEF Decide
<1>6. PICK job \in VerifyJob :
         /\ verify' = [verify EXCEPT ![q] = job]
         /\ job.phase = p /\ job.held = {} /\ job.on = r
         /\ job.voter = verify[q].voter /\ job.now = verify[q].now
  BY <1>1, <1>5, EndedJob DEF OtpInv, VerifyDone
<1>7. PICK counted : counted = CountGuess(r)
  OBVIOUS
<1>8. /\ counted \in Challenge /\ counted.attempts = challenge[r].attempts + 1
      /\ counted.voter = challenge[r].voter /\ counted.created = challenge[r].created
      /\ counted.expires_at = challenge[r].expires_at /\ ~counted.consumed
  BY <1>2, <1>7, OtpAssumption DEF HasAttempts, CountGuess, Challenge
<1>9. CASE p = "wrong"
  <2>1. challenge' = [challenge EXCEPT ![r] = counted] /\ voter' = voter
    BY <1>5, <1>7, <1>9
  <2>2. counted.consumed <=> p = "accepted"
    BY <1>8, <1>9
  <2> QED
    BY <1>1, <1>2, <1>3, <1>4, <1>6, <1>8, <2>1, <2>2, GuessStep
<1>10. CASE p = "accepted"
  <2>1. PICK row : row = [counted EXCEPT !.consumed = TRUE]
    OBVIOUS
  <2>2. /\ row \in Challenge /\ row.attempts = challenge[r].attempts + 1
        /\ row.voter = challenge[r].voter /\ row.created = challenge[r].created
        /\ row.expires_at = challenge[r].expires_at /\ (row.consumed <=> p = "accepted")
    BY <1>8, <1>10, <2>1 DEF Challenge
  <2>3. row = Consume(r)
    BY <1>7, <2>1, Zenon DEF Consume
  <2>4. challenge' = [challenge EXCEPT ![r] = row] /\ voter' = MarkVerified(q)
    BY <1>5, <1>10, <2>3
  <2>5. voter' \in Voter /\ voter'.id = voter.id
    BY <1>3, <2>4 DEF MarkVerified, Voter
  <2>6. voter'.verified => voter.verified \/ p = "accepted"
    BY <1>10
  <2> QED
    BY <1>1, <1>2, <1>4, <1>6, <2>2, <2>4, <2>5, <2>6, GuessStep
<1> QED
  BY <1>9, <1>10

----------------------------------------------------------------------------
(* The purge. *)

LEMMA PurgeJobStep ==
    ASSUME OtpInv, NEW p \in Purges, NEW job \in PurgeJob,
           job.seen \subseteq Sent, job.held \subseteq Sent,
           job.phase \notin {"deleting", "deleted"} => job.seen = {} /\ job.held = {},
           \A r \in (job.seen \cup job.held) \cap Issued : challenge[r].voter = job.voter,
           \A r \in job.held : r \in purge[p].held \/ ~Locked(r),
           purge' = [purge EXCEPT ![p] = job],
           UNCHANGED <<clock, voter, challenge, req, verify, admin>>
    PROVE  OtpInv'
<1> USE DEF OtpInv
<1>1. /\ purge \in [Purges -> PurgeJob] /\ purge' \in [Purges -> PurgeJob]
      /\ purge'[p] = job /\ \A x \in Purges \ {p} : purge'[x] = purge[x]
  BY DEF TypeOK
<1>2. /\ Issued' = Issued /\ Sent' = Sent /\ \A id : LoggedIn(id)' = LoggedIn(id)
      /\ \A s : Answered(s)' = Answered(s) /\ Accepted(s)' = Accepted(s)
  BY DEF Issued, Sent, LoggedIn, Answered, Accepted
<1>3. TypeOK'
  BY <1>1 DEF TypeOK
<1>4. CreatedBounded' /\ ChallengesHaveVoters'
  BY <1>2 DEF CreatedBounded, ChallengesHaveVoters, Exists
<1>5. NamedWereSent'
  BY <1>1, <1>2 DEF NamedWereSent
<1>6. LockedRowsHold' /\ NothingExpiredYet'
  BY <1>2 DEF LockedRowsHold, NothingExpiredYet, HasAttempts
<1>7. LocksExclude'
  <2>1. ASSUME NEW s \in Requests
        PROVE  \/ Holders(s)' \subseteq Holders(s)
               \/ ~Locked(s) /\ Holders(s)' \subseteq {p}
    <3>1. CASE s \in job.held => s \in purge[p].held
      BY <1>1, <3>1 DEF Holders
    <3>2. CASE ~Locked(s)
      BY <1>1, <3>2 DEF Holders, Locked
    <3> QED
      BY <3>1, <3>2
  <2> QED
    BY <2>1, LocksStayExclusive
<1>8. PurgeOwnRows'
  <2>1. ASSUME NEW x \in Purges, NEW r \in (purge'[x].seen \cup purge'[x].held) \cap Issued
        PROVE  challenge[r].voter = purge'[x].voter
    <3>1. CASE x = p
      BY <1>1, <2>1, <3>1
    <3>2. CASE x # p
      BY <1>1, <2>1, <3>2 DEF PurgeOwnRows
    <3> QED
      BY <3>1, <3>2
  <2>2. \A x \in Purges : purge'[x].phase \notin {"deleting", "deleted"}
                             => purge'[x].seen = {} /\ purge'[x].held = {}
    BY <1>1 DEF PurgeOwnRows
  <2> QED
    BY <1>2, <2>1, <2>2 DEF PurgeOwnRows
<1>9. AcceptedRowsHold' /\ VerifiedHaveLoggedIn'
  BY <1>2 DEF AcceptedRowsHold, VerifiedHaveLoggedIn
<1>10. AnsweredAreCounted' /\ ExpiredStayExpired' /\ ExpiredCodesAreDead'
  BY <1>2 DEF AnsweredAreCounted, ExpiredStayExpired, ExpiredCodesAreDead
<1> QED
  BY <1>3, <1>4, <1>5, <1>6, <1>7, <1>8, <1>9, <1>10

\* Before it deletes challenges.
LEMMA QuietPurgeInv ==
    ASSUME OtpInv, NEW p \in Purges, PurgeSelect(p) \/ PurgeCollect(p) \/ PurgeStart(p)
    PROVE  OtpInv'
<1>1. /\ purge \in [Purges -> PurgeJob] /\ purge[p] \in PurgeJob
      /\ purge[p].seen = {} /\ purge[p].held = {} /\ voter \in Voter \cup {NoVoter}
  BY DEF OtpInv, TypeOK, PurgeOwnRows, PurgeSelect, PurgeCollect, PurgeStart
<1>2. UNCHANGED <<clock, voter, challenge, req, verify, admin>>
  BY DEF PurgeSelect, PurgeCollect, PurgeStart
<1>3. ASSUME NEW ph \in {"passed", "candidate", "collected"}, NEW id \in VoterId,
             purge' = [purge EXCEPT ![p] = [purge[p] EXCEPT !.phase = ph, !.voter = id]]
      PROVE  OtpInv'
  <2>1. PICK job : job = [purge[p] EXCEPT !.phase = ph, !.voter = id]
    OBVIOUS
  <2>2. job \in PurgeJob /\ job.phase = ph /\ job.seen = {} /\ job.held = {}
    BY <1>1, <2>1 DEF PurgeJob, PurgeInFlight, PurgeDone
  <2>3. purge' = [purge EXCEPT ![p] = job]
    BY <1>3, <2>1
  <2> QED
    BY <1>2, <2>2, <2>3, PurgeJobStep
<1>4. ASSUME NEW ph \in {"passed", "collected"}, purge' = [purge EXCEPT ![p].phase = ph]
      PROVE  OtpInv'
  <2>1. purge[p].voter \in VoterId
    BY <1>1 DEF PurgeJob
  <2>2. purge' = [purge EXCEPT ![p] = [purge[p] EXCEPT !.phase = ph, !.voter = purge[p].voter]]
    BY <1>1, <1>4 DEF PurgeJob
  <2> QED
    BY <1>3, <1>4, <2>1, <2>2
<1>5. CASE PurgeSelect(p)
  <2>1. CASE voter # NoVoter /\ ~voter.verified
    <3>1. voter.id \in VoterId
      BY <1>1, <2>1 DEF Voter
    <3>2. purge' = [purge EXCEPT ![p] = [purge[p] EXCEPT !.phase = "candidate", !.voter = voter.id]]
      BY <1>1, <1>5, <2>1 DEF PurgeSelect
    <3> QED
      BY <1>3, <3>1, <3>2
  <2>2. CASE ~(voter # NoVoter /\ ~voter.verified)
    <3>1. purge' = [purge EXCEPT ![p].phase = "passed"]
      BY <1>1, <1>5, <2>2 DEF PurgeSelect
    <3> QED
      BY <1>4, <3>1
  <2> QED
    BY <2>1, <2>2
<1>6. CASE PurgeCollect(p)
  BY <1>4, <1>6 DEF PurgeCollect
<1>7. CASE PurgeStart(p)
  <2>1. PICK rows : rows = ChallengesOf(purge[p].voter)
    OBVIOUS
  <2>2. PICK job : job = [purge[p] EXCEPT !.phase = "deleting", !.seen = rows]
    OBVIOUS
  <2>3. /\ rows \subseteq Requests /\ rows \subseteq Sent
        /\ \A r \in rows : challenge[r].voter = purge[p].voter
    BY <2>1 DEF ChallengesOf, Issued, OtpInv, ChallengesHaveVoters
  <2>4. /\ job \in PurgeJob /\ job.phase = "deleting" /\ job.seen = rows
        /\ job.held = {} /\ job.voter = purge[p].voter
    BY <1>1, <2>2, <2>3 DEF PurgeJob, PurgeInFlight, PurgeDone
  <2>5. purge' = [purge EXCEPT ![p].phase = "deleting", ![p].seen = rows]
    BY <1>7, <2>1 DEF PurgeStart
  <2>6. purge' = [purge EXCEPT ![p] = job]
    BY <1>1, <2>2, <2>5
  <2> QED
    BY <1>2, <2>3, <2>4, <2>6, PurgeJobStep
<1> QED
  BY <1>5, <1>6, <1>7

\* A purge that ends without deleting gives its locks back.
LEMMA PurgeEndsInv ==
    ASSUME OtpInv, NEW p \in Purges, NEW ph \in {"aborted", "crashed"}, EndPurge(p, ph),
           UNCHANGED <<clock, voter, challenge, req, verify, admin>>
    PROVE  OtpInv'
<1>1. purge \in [Purges -> PurgeJob] /\ purge[p] \in PurgeJob
  BY DEF OtpInv, TypeOK
<1>2. PICK job : job = [purge[p] EXCEPT !.phase = ph, !.seen = {}, !.held = {}]
  OBVIOUS
<1>3. job \in PurgeJob /\ job.phase = ph /\ job.seen = {} /\ job.held = {}
  BY <1>1, <1>2 DEF PurgeJob, PurgeDone
<1>4. purge' = [purge EXCEPT ![p] = job]
  BY <1>1, <1>2 DEF EndPurge
<1> QED
  BY <1>3, <1>4, PurgeJobStep

\* The DELETE reaches one row and locks it; or it is done with the rows.
LEMMA PurgeRowInv ==
    ASSUME OtpInv, NEW p \in Purges, PurgeDelete(p) \/ \E r \in Requests : PurgeRow(p, r)
    PROVE  OtpInv'
<1>1. /\ purge \in [Purges -> PurgeJob] /\ purge[p] \in PurgeJob /\ purge[p].phase = "deleting"
      /\ purge[p].seen \subseteq Sent /\ purge[p].held \subseteq Sent
      /\ \A r \in (purge[p].seen \cup purge[p].held) \cap Issued :
            challenge[r].voter = purge[p].voter
  BY DEF OtpInv, TypeOK, NamedWereSent, PurgeOwnRows, PurgeDelete, PurgeRow
<1>2. UNCHANGED <<clock, voter, challenge, req, verify, admin>>
  BY DEF PurgeDelete, PurgeRow
<1>3. ASSUME PurgeDelete(p) PROVE OtpInv'
  <2>1. PICK job : job = [purge[p] EXCEPT !.phase = "deleted", !.seen = {}]
    OBVIOUS
  <2>2. /\ job \in PurgeJob /\ job.phase = "deleted" /\ job.seen = {}
        /\ job.held = purge[p].held /\ job.voter = purge[p].voter
    BY <1>1, <2>1 DEF PurgeJob, PurgeInFlight
  <2>3. purge' = [purge EXCEPT ![p] = job]
    BY <1>1, <1>3, <2>1 DEF PurgeDelete
  <2> QED
    BY <1>1, <1>2, <2>2, <2>3, PurgeJobStep
<1>4. ASSUME NEW r \in Requests, PurgeRow(p, r) PROVE OtpInv'
  <2>1. PICK job : job = [purge[p] EXCEPT !.seen = purge[p].seen \ {r}, !.held = purge[p].held \cup {r}]
    OBVIOUS
  <2>2. r \in purge[p].seen /\ ~Locked(r)
    BY <1>4 DEF PurgeRow
  <2>3. /\ job \in PurgeJob /\ job.phase = "deleting" /\ job.seen = purge[p].seen \ {r}
        /\ job.held = purge[p].held \cup {r} /\ job.voter = purge[p].voter
    BY <1>1, <2>1 DEF PurgeJob
  <2>4. purge' = [purge EXCEPT ![p] = job]
    BY <1>1, <1>4, <2>1 DEF PurgeRow
  <2> QED
    BY <1>1, <1>2, <2>2, <2>3, <2>4, PurgeJobStep
<1> QED
  BY <1>3, <1>4

\* What a successful purge removes is not locked, and belongs to nobody who has logged in.
LEMMA PurgeCommitInv ==
    ASSUME OtpInv, NEW p \in Purges, PurgeCommit(p)
    PROVE  OtpInv'
<1> USE DEF OtpInv
<1>1. PICK id, rows : id = purge[p].voter /\ rows = purge[p].held
  OBVIOUS
<1>2. /\ purge \in [Purges -> PurgeJob] /\ purge[p] \in PurgeJob /\ purge[p].phase = "deleted"
      /\ challenge \in [Requests -> Challenge \cup {NoChallenge}]
      /\ UNCHANGED <<clock, req, verify, admin>>
  BY DEF TypeOK, PurgeCommit
<1>3. /\ EndPurge(p, "purged")
      /\ voter' = IF Exists(id) THEN NoVoter ELSE voter
      /\ challenge' = [r \in Requests |-> IF r \in rows THEN NoChallenge ELSE challenge[r]]
  BY <1>1 DEF PurgeCommit
<1>4. ChallengesOf(id) \subseteq rows /\ ~Referenced(id)
  BY <1>1 DEF PurgeCommit, StillReferenced, Newer
<1>5. /\ Issued' = Issued \ rows /\ Sent' = Sent
      /\ \A r \in Issued \ rows : challenge'[r] = challenge[r] /\ r \in Issued
  BY <1>2, <1>3 DEF Issued, Sent
<1>6. /\ \A x : LoggedIn(x)' = LoggedIn(x)
      /\ \A s : Answered(s)' = Answered(s) /\ Accepted(s)' = Accepted(s)
  BY <1>2 DEF LoggedIn, Answered, Accepted
<1>7. ASSUME NEW q \in Verifies, verify[q].phase = "accepted"
      PROVE  verify[q].voter.id # id
  <2>1. [actor |-> verify[q].voter.id, hashed |-> FALSE] \in AuditLog
    BY <1>7 DEF AuditLog, VerifyEntries
  <2> QED
    BY <1>4, <2>1 DEF Referenced
<1>8. \A r \in Issued \ rows : challenge[r].voter # id
  BY <1>4 DEF ChallengesOf, Issued
<1>9. PICK job : job = [purge[p] EXCEPT !.phase = "purged", !.seen = {}, !.held = {}]
  OBVIOUS
<1>10. /\ job \in PurgeJob /\ job.phase = "purged" /\ job.seen = {} /\ job.held = {}
       /\ purge'[p] = job /\ \A x \in Purges \ {p} : purge'[x] = purge[x]
       /\ purge' \in [Purges -> PurgeJob]
  <2>1. job \in PurgeJob /\ job.phase = "purged" /\ job.seen = {} /\ job.held = {}
    BY <1>2, <1>9 DEF PurgeJob, PurgeDone
  <2>2. purge' = [purge EXCEPT ![p] = job]
    BY <1>2, <1>3, <1>9 DEF EndPurge
  <2> QED
    BY <1>2, <2>1, <2>2
<1>11. TypeOK'
  BY <1>2, <1>3, <1>10 DEF TypeOK
<1>12. CreatedBounded'
  BY <1>2, <1>5 DEF CreatedBounded
<1>13. ChallengesHaveVoters'
  <2> SUFFICES ASSUME NEW r \in Issued \ rows
               PROVE  r \in Sent /\ Exists(challenge[r].voter)'
    BY <1>5 DEF ChallengesHaveVoters
  <2>1. r \in Sent /\ Exists(challenge[r].voter) /\ challenge[r].voter # id
    BY <1>8 DEF ChallengesHaveVoters
  <2>2. voter' = voter
    BY <1>3, <2>1 DEF Exists
  <2> QED
    BY <1>5, <2>1, <2>2 DEF Exists
<1>14. NamedWereSent'
  BY <1>2, <1>5, <1>10 DEF NamedWereSent
<1>15. LockedRowsHold' /\ NothingExpiredYet'
  <2>1. ASSUME NEW q \in Verifies, verify[q].phase \in {"locked", "compared"}
        PROVE  verify[q].on \in Issued \ rows
    <3>1. PICK s : s = verify[q].on
      OBVIOUS
    <3>2. s \in Issued /\ s \in Requests /\ s \in verify[q].held
      BY <2>1, <3>1 DEF LockedRowsHold, Issued
    <3> QED
      BY <1>1, <3>1, <3>2, OneHolder
  <2>2. ASSUME NEW h \in Requests, req[h].phase \in {"expiring", "inserted"}, NEW s \in req[h].expired
        PROVE  s \in Issued \ rows
    <3>1. s \in Issued /\ s \in Requests /\ s \in req[h].held
      BY <2>2 DEF LockedRowsHold, Issued
    <3> QED
      BY <1>1, <3>1, OneHolder
  <2>3. \A s \in Issued \ rows : HasAttempts(s)' <=> HasAttempts(s)
    BY <1>5 DEF HasAttempts
  <2> QED
    BY <1>2, <1>5, <2>1, <2>2, <2>3 DEF LockedRowsHold, NothingExpiredYet
<1>16. LocksExclude'
  <2>1. \A s \in Requests : Holders(s)' \subseteq Holders(s)
    BY <1>2, <1>10 DEF Holders
  <2> QED
    BY <2>1, LocksStayExclusive
<1>17. PurgeOwnRows'
  BY <1>5, <1>10 DEF PurgeOwnRows
<1>18. AcceptedRowsHold'
  <2>1. ASSUME NEW q \in Verifies, verify[q].phase = "accepted"
        PROVE  verify[q].on \in Issued \ rows
    <3>1. verify[q].on \in Issued /\ challenge[verify[q].on].voter # id
      BY <1>7, <2>1 DEF AcceptedRowsHold
    <3> QED
      BY <1>1, <1>2, <3>1 DEF PurgeOwnRows
  <2> QED
    BY <1>2, <1>5, <2>1 DEF AcceptedRowsHold
<1>19. VerifiedHaveLoggedIn'
  BY <1>2, <1>3, <1>6 DEF VerifiedHaveLoggedIn
<1>20. AnsweredAreCounted'
  BY <1>5, <1>6 DEF AnsweredAreCounted
<1>21. ExpiredStayExpired' /\ ExpiredCodesAreDead'
  BY <1>2, <1>5, <1>6 DEF ExpiredStayExpired, ExpiredCodesAreDead
<1> QED
  BY <1>11, <1>12, <1>13, <1>14, <1>15, <1>16, <1>17, <1>18, <1>19, <1>20, <1>21

----------------------------------------------------------------------------
(* The admin form, and the clock. *)

\* A save that finds no row puts the voter back, under its old id; no challenge is left then.
LEMMA AdminSaveInv ==
    ASSUME OtpInv, NEW a \in Admins, NEW blocked \in BOOLEAN, AdminSave(a, blocked)
    PROVE  OtpInv'
<1> USE DEF OtpInv
<1>1. /\ UNCHANGED <<clock, challenge, req, verify, purge>>
      /\ admin \in [Admins -> Voter \cup {<<>>}] /\ admin[a] \in Voter /\ admin[a] # <<>>
      /\ admin' = [admin EXCEPT ![a] = <<>>]
      /\ voter \in Voter \cup {NoVoter}
  BY DEF TypeOK, AdminSave
<1>2. PICK row : row = [admin[a] EXCEPT !.blocked = blocked]
  OBVIOUS
<1>3. /\ row \in Voter /\ row # NoVoter
      /\ row.id = admin[a].id /\ row.verified = admin[a].verified
  BY <1>1, <1>2, NoRowAssumption DEF Voter
<1>4. voter' = voter \/ (voter' = row /\ (voter = NoVoter \/ voter.id = row.id))
  BY <1>2, <1>3 DEF AdminSave, Exists
<1>5. voter # NoVoter => voter' # NoVoter /\ voter'.id = voter.id
  BY <1>3, <1>4
<1>6. /\ Issued' = Issued /\ Sent' = Sent /\ \A id : LoggedIn(id)' = LoggedIn(id)
      /\ \A s : Answered(s)' = Answered(s) /\ Accepted(s)' = Accepted(s)
  BY <1>1 DEF Issued, Sent, LoggedIn, Answered, Accepted
<1>7. TypeOK'
  BY <1>1, <1>3, <1>4 DEF TypeOK
<1>8. CreatedBounded' /\ NamedWereSent'
  BY <1>1, <1>6 DEF CreatedBounded, NamedWereSent
<1>9. ChallengesHaveVoters'
  BY <1>1, <1>5, <1>6 DEF ChallengesHaveVoters, Exists
<1>10. LockedRowsHold' /\ NothingExpiredYet' /\ LocksExclude' /\ PurgeOwnRows' /\ AcceptedRowsHold'
  BY <1>1, <1>6 DEF LockedRowsHold, NothingExpiredYet, HasAttempts, LocksExclude, Holders, PurgeOwnRows, AcceptedRowsHold
<1>11. VerifiedHaveLoggedIn'
  <2>1. row.verified => LoggedIn(row.id)
    BY <1>1, <1>3 DEF VerifiedHaveLoggedIn
  <2>2. voter # NoVoter /\ voter.verified => LoggedIn(voter.id)
    BY DEF VerifiedHaveLoggedIn
  <2>3. voter' # NoVoter /\ voter'.verified => \E id : id = voter'.id /\ LoggedIn(id)
    BY <1>4, <2>1, <2>2
  <2>4. voter' # NoVoter /\ voter'.verified => LoggedIn(voter.id)'
    BY <1>1, <2>3 DEF LoggedIn
  <2>5. \A b \in Admins : admin'[b] = <<>> \/ admin'[b] = admin[b]
    BY <1>1
  <2> QED
    BY <1>1, <1>6, <2>4, <2>5 DEF VerifiedHaveLoggedIn
<1>12. AnsweredAreCounted' /\ ExpiredStayExpired' /\ ExpiredCodesAreDead'
  BY <1>1, <1>6 DEF AnsweredAreCounted, ExpiredStayExpired, ExpiredCodesAreDead
<1> QED
  BY <1>7, <1>8, <1>9, <1>10, <1>11, <1>12

LEMMA AdminLoadInv ==
    ASSUME OtpInv, NEW a \in Admins, AdminLoad(a)
    PROVE  OtpInv'
<1> USE DEF OtpInv
<1>1. /\ UNCHANGED <<clock, voter, challenge, req, verify, purge>>
      /\ admin \in [Admins -> Voter \cup {<<>>}] /\ voter \in Voter /\ voter # NoVoter
      /\ admin' = [admin EXCEPT ![a] = voter]
  BY DEF TypeOK, AdminLoad
<1>2. /\ Issued' = Issued /\ Sent' = Sent /\ \A id : LoggedIn(id)' = LoggedIn(id)
      /\ \A s : Answered(s)' = Answered(s) /\ Accepted(s)' = Accepted(s)
  BY <1>1 DEF Issued, Sent, LoggedIn, Answered, Accepted
<1>3. TypeOK'
  BY <1>1 DEF TypeOK
<1>4. CreatedBounded' /\ NamedWereSent' /\ ChallengesHaveVoters'
  BY <1>1, <1>2 DEF CreatedBounded, NamedWereSent, ChallengesHaveVoters, Exists
<1>5. LockedRowsHold' /\ NothingExpiredYet' /\ LocksExclude' /\ PurgeOwnRows' /\ AcceptedRowsHold'
  BY <1>1, <1>2 DEF LockedRowsHold, NothingExpiredYet, HasAttempts, LocksExclude, Holders, PurgeOwnRows, AcceptedRowsHold
<1>6. VerifiedHaveLoggedIn'
  <2>1. \A b \in Admins : admin'[b] = voter \/ admin'[b] = admin[b]
    BY <1>1
  <2> QED
    BY <1>1, <1>2, <2>1 DEF VerifiedHaveLoggedIn
<1>7. AnsweredAreCounted' /\ ExpiredStayExpired' /\ ExpiredCodesAreDead'
  BY <1>1, <1>2 DEF AnsweredAreCounted, ExpiredStayExpired, ExpiredCodesAreDead
<1> QED
  BY <1>3, <1>4, <1>5, <1>6, <1>7

LEMMA ClockInv ==
    ASSUME OtpInv, clock' \in Time, UNCHANGED <<voter, challenge, req, verify, admin, purge>>
    PROVE  OtpInv'
<1> USE DEF OtpInv
<1>1. /\ Issued' = Issued /\ Sent' = Sent /\ \A id : LoggedIn(id)' = LoggedIn(id)
      /\ \A s : Answered(s)' = Answered(s) /\ Accepted(s)' = Accepted(s)
  BY DEF Issued, Sent, LoggedIn, Answered, Accepted
<1>2. TypeOK'
  BY DEF TypeOK
<1>3. CreatedBounded' /\ NamedWereSent' /\ ChallengesHaveVoters'
  BY <1>1 DEF CreatedBounded, NamedWereSent, ChallengesHaveVoters, Exists
<1>4. /\ LockedRowsHold' /\ NothingExpiredYet' /\ LocksExclude' /\ PurgeOwnRows'
      /\ AcceptedRowsHold' /\ VerifiedHaveLoggedIn'
  BY <1>1 DEF LockedRowsHold, NothingExpiredYet, HasAttempts, LocksExclude, Holders, PurgeOwnRows, AcceptedRowsHold, VerifiedHaveLoggedIn
<1>5. AnsweredAreCounted' /\ ExpiredStayExpired' /\ ExpiredCodesAreDead'
  BY <1>1 DEF AnsweredAreCounted, ExpiredStayExpired, ExpiredCodesAreDead
<1> QED
  BY <1>2, <1>3, <1>4, <1>5

----------------------------------------------------------------------------
(* The theorems. *)

LEMMA OtpNextInv == OtpInv /\ [Next]_vars => OtpInv'
<1> SUFFICES ASSUME OtpInv, [Next]_vars PROVE OtpInv'
  OBVIOUS
<1>1. ASSUME NEW r \in Requests, RequestStep(r) PROVE OtpInv'
  BY <1>1, ResolveVoterInv, QuietRequestInv, ExpireRowInv, InsertChallengeInv, CommitChallengeInv
     DEF RequestStep
<1>2. ASSUME NEW r \in Requests, RequestCrash(r) PROVE OtpInv'
  BY <1>2, RequestEndsInv DEF RequestCrash
<1>3. ASSUME NEW q \in Verifies, NEW code \in Issued \cup {Wrong}, ReadVoter(q, code) PROVE OtpInv'
  BY <1>3, ReadVoterInv
<1>4. ASSUME NEW q \in Verifies, VerifyStep(q) PROVE OtpInv'
  <2>1. ASSUME Refuse(q) PROVE OtpInv'
    <3>1. /\ verify[q].phase \in VerifyInFlight /\ EndVerify(q, "refused")
          /\ UNCHANGED <<clock, voter, challenge, req, admin, purge>>
      BY <2>1 DEF Refuse, VerifyInFlight
    <3> QED
      BY <3>1, VerifyEndsInv
  <2> QED
    BY <1>4, <2>1, StartLookupInv, LookAtInv, CompareInv, DecideInv DEF VerifyStep
<1>5. ASSUME NEW q \in Verifies, VerifyCrash(q) PROVE OtpInv'
  BY <1>5, VerifyEndsInv DEF VerifyCrash
<1>6. ASSUME NEW a \in Admins, AdminLoad(a) \/ \E blocked \in BOOLEAN : AdminSave(a, blocked)
      PROVE  OtpInv'
  BY <1>6, AdminLoadInv, AdminSaveInv
<1>7. ASSUME NEW p \in Purges, PurgeStep(p) \/ PurgeCrash(p) PROVE OtpInv'
  BY <1>7, QuietPurgeInv, PurgeRowInv, PurgeEndsInv, PurgeCommitInv
     DEF PurgeStep, PurgeAbort, PurgeCrash
<1>8. ASSUME Tick PROVE OtpInv'
  <2>1. clock' \in Time /\ UNCHANGED <<voter, challenge, req, verify, admin, purge>>
    BY <1>8, OtpAssumption DEF Tick, OtpInv, TypeOK, Time
  <2> QED
    BY <2>1, ClockInv
<1>9. ASSUME UNCHANGED vars PROVE OtpInv'
  <2>1. clock' \in Time /\ UNCHANGED <<voter, challenge, req, verify, admin, purge>>
    BY <1>9 DEF vars, OtpInv, TypeOK
  <2> QED
    BY <2>1, ClockInv
<1> QED
  BY <1>1, <1>2, <1>3, <1>4, <1>5, <1>6, <1>7, <1>8, <1>9 DEF Next

LEMMA OtpInvariant == Spec => []OtpInv
<1>1. Init => OtpInv
  BY OtpInitInv
<1>2. OtpInv /\ [Next]_vars => OtpInv'
  BY OtpNextInv
<1> QED
  BY <1>1, <1>2, PTL DEF Spec

\* The state of requests, verifications, forms and purges is what Otp says it is.
THEOREM OtpTypeCorrect == Spec => []TypeOK
<1>1. OtpInv => TypeOK
  BY DEF OtpInv
<1> QED
  BY <1>1, OtpInvariant, PTL

\* verify_otp counts, compares and commits under one row lock: whatever races, the attempts are
\* exactly the guesses that got an answer, and one more is compared only while there are fewer
\* than OTP_MAX_ATTEMPTS.  (It says nothing of a guess that was compared and lost: the rollback
\* takes its count along.)
THEOREM GuessesAreCounted == Spec => []EveryGuessIsCounted
<1>1. OtpInv => EveryGuessIsCounted
  <2> SUFFICES ASSUME OtpInv, NEW r \in Issued
               PROVE  /\ challenge[r].attempts = Cardinality(Answered(r))
                      /\ challenge[r].attempts + Cardinality(Comparing(r)) <= OTP_MAX_ATTEMPTS
    BY DEF EveryGuessIsCounted
  <2>1. /\ challenge[r].attempts = Cardinality(Answered(r))
        /\ r \in Requests /\ challenge[r] \in Challenge
    BY DEF OtpInv, AnsweredAreCounted, TypeOK, Issued
  <2>2. /\ challenge[r].attempts \in Nat /\ challenge[r].attempts <= OTP_MAX_ATTEMPTS
        /\ OTP_MAX_ATTEMPTS \in Nat
    BY <2>1, OtpAssumption DEF Challenge
  <2>3. CASE Comparing(r) = {}
    <3>1. Cardinality(Comparing(r)) = 0
      BY <2>3, FS_EmptySet
    <3> QED
      BY <2>1, <2>2, <3>1
  <2>4. CASE Comparing(r) # {}
    <3>1. PICK q \in Comparing(r) : TRUE
      BY <2>4
    <3>2. \A x \in Comparing(r) : /\ x \in Verifies /\ r \in verify[x].held /\ HasAttempts(r)
      BY DEF Comparing, OtpInv, LockedRowsHold
    <3>3. Comparing(r) = {q}
      BY <2>1, <3>1, <3>2, OneHolder DEF OtpInv
    <3>4. Cardinality(Comparing(r)) = 1
      BY <3>3, FS_Singleton
    <3>5. challenge[r].attempts < OTP_MAX_ATTEMPTS
      BY <3>1, <3>2 DEF HasAttempts
    <3> QED
      BY <2>1, <2>2, <3>4, <3>5
  <2> QED
    BY <2>3, <2>4
<1> QED
  BY <1>1, OtpInvariant, PTL

\* consumed_at is tested and set under the same lock: however many verifications have read the
\* challenge before, one logs in.
THEOREM CodesLogInOnce == Spec => []OneLoginPerCode
<1>1. OtpInv => OneLoginPerCode
  <2> SUFFICES ASSUME OtpInv, NEW r \in Requests
               PROVE  /\ Cardinality(Accepted(r)) <= 1
                      /\ Accepted(r) # {} => challenge[r].consumed
    BY DEF OneLoginPerCode
  <2>1. Accepted(r) # {} => challenge[r].consumed
    BY DEF OtpInv, AcceptedRowsHold, Accepted
  <2>2. CASE Accepted(r) = {}
    BY <2>2, FS_EmptySet
  <2>3. CASE Accepted(r) # {}
    <3>1. PICK q \in Accepted(r) : TRUE
      BY <2>3
    <3>2. Accepted(r) = {q}
      BY <3>1 DEF OtpInv, AcceptedRowsHold, Accepted
    <3>3. Cardinality(Accepted(r)) = 1
      BY <3>2, FS_Singleton
    <3> QED
      BY <2>1, <3>3
  <2> QED
    BY <2>1, <2>2, <2>3
<1> QED
  BY <1>1, OtpInvariant, PTL

\* request_otp expires the codes it finds: they stay expired, so only a verification whose
\* clock reading is older than the request's can still log in with one.
THEOREM RenewalKillsCodes == Spec => []ExpiredCodesAreDead
<1>1. OtpInv => ExpiredCodesAreDead
  BY DEF OtpInv
<1> QED
  BY <1>1, OtpInvariant, PTL

\* The OTP_VERIFIED entry and the deferred foreign keys stop every purge of a voter that has
\* logged in, wherever the purge stood when that happened.
THEOREM PurgeSparesLogins == Spec => []LoggedInIsKept
<1>1. OtpInv => LoggedInIsKept
  BY DEF OtpInv, AcceptedRowsHold, ChallengesHaveVoters, LoggedInIsKept
<1> QED
  BY <1>1, OtpInvariant, PTL

\* An entry names a voter, instead of hashing the number, only for copies that are verified,
\* whose voter has logged in and is there: a search for the number misses nothing.
THEOREM SearchIsComplete == Spec => []SearchFindsAll
<1>1. OtpInv => SearchFindsAll
  <2> SUFFICES ASSUME OtpInv, NEW entry \in AuditLog, ~entry.hashed
               PROVE  Exists(entry.actor)
    BY DEF SearchFindsAll, FilterPhone
  <2>1. ASSUME NEW copy, entry = LogVoterEvent(copy) PROVE copy # NoVoter /\ copy.verified /\ entry.actor = copy.id
    BY <2>1 DEF LogVoterEvent
  <2>2. LoggedIn(entry.actor)
    BY <2>1 DEF AuditLog, RequestEntries, VerifyEntries, OtpInv, VerifiedHaveLoggedIn, LoggedIn
  <2> QED
    BY <2>2 DEF LoggedIn, OtpInv, AcceptedRowsHold, ChallengesHaveVoters
<1> QED
  BY <1>1, OtpInvariant, PTL
=============================================================================
