------------------------ MODULE StaffSession_proofs ------------------------
(***************************************************************************)
(* What holds of staff sessions for any users, requests and forms.          *)
(***************************************************************************)
EXTENDS StaffSession, TLAPS

\* A step of one request.
StepOf(r) ==
    \/ r \in Logins /\ ((\E u \in Users : LoginRead(r, u)) \/ LoginStamp(r) \/ LoginAudit(r))
    \/ r \in Refreshes /\ ((\E t \in Tokens : RefreshStart(r, t)) \/ RefreshCheck(r)
                              \/ RefreshUser(r) \/ Rotate(r))
    \/ r \in Logouts /\ ((\E a \in Tokens, t \in Tokens \cup {NoToken} : LogoutStart(r, a, t))
                              \/ GetUser(r) \/ LogoutBlacklist(r))
    \/ r \in Calls /\ ((\E a \in Tokens \cup {VoterToken}, role \in Roles : CallStart(r, a, role))
                              \/ GetUser(r) \/ HasPermission(r) \/ AuditDenial(r))
    \/ Answer(r) \/ Lose(r)

LEMMA Steps ==
    ASSUME [Next]_vars
    PROVE  \/ \E r \in Requests : StepOf(r)
           \/ \E u \in Users : Delete(u) \/ \E row \in Forms : SaveUser(u, row)
           \/ UNCHANGED vars
BY DEF Next, StepOf, Login, Refresh, Logout, Call, Requests

\* A record is its fields: what each way of writing a request leaves in it.
LEMMA ToFacts ==
    ASSUME TypeOK, NEW r \in Requests, NEW phase \in Phases, To(r, phase)
    PROVE  /\ req' \in [Requests -> Request]
           /\ \A q \in Requests \ {r} : req'[q] = req[q]
           /\ req'[r].phase = phase /\ req'[r].who = req[r].who /\ req'[r].token = req[r].token
           /\ req'[r].role = req[r].role /\ req'[r].staff = req[r].staff
           /\ req'[r].superuser = req[r].superuser
           /\ req'[r].missing = req[r].missing /\ req'[r].late = req[r].late
<1>1. req[r] \in Request
  BY DEF TypeOK
<1>2. [req[r] EXCEPT !.phase = phase] \in Request
  BY <1>1 DEF Request
<1> QED BY <1>1, <1>2 DEF TypeOK, To, Request

LEMMA AuthenticateFacts ==
    ASSUME TypeOK, NEW r \in Requests, NEW row \in Row, Authenticate(r, row)
    PROVE  /\ req' \in [Requests -> Request]
           /\ \A q \in Requests \ {r} : req'[q] = req[q]
           /\ req'[r].phase = "active" /\ req'[r].who = req[r].who /\ req'[r].token = req[r].token
           /\ req'[r].role = req[r].role /\ req'[r].staff = row.staff
           /\ req'[r].superuser = row.superuser
           /\ req'[r].missing = req[r].missing /\ req'[r].late = req[r].late
<1>1. req[r] \in Request
  BY DEF TypeOK
<1>2. row.staff \in BOOLEAN /\ row.superuser \in BOOLEAN
  BY DEF Row
<1>3. "active" \in Phases
  BY DEF Phases, InFlight
<1>4. [req[r] EXCEPT !.phase = "active", !.staff = row.staff, !.superuser = row.superuser] \in Request
  BY <1>1, <1>2, <1>3 DEF Request
<1> QED BY <1>1, <1>4 DEF TypeOK, Authenticate, Request

LEMMA EndFacts ==
    ASSUME TypeOK, NEW r \in Requests, NEW phase \in Phases, End(r, phase)
    PROVE  /\ req' \in [Requests -> Request]
           /\ \A q \in Requests \ {r} : req'[q] = req[q]
           /\ req'[r].phase = phase /\ req'[r].who = req[r].who /\ req'[r].token = req[r].token
           /\ req'[r].role = Nobody /\ req'[r].staff = FALSE /\ req'[r].superuser = FALSE
           /\ req'[r].missing = {} /\ req'[r].late = req[r].late
<1>1. req[r] \in Request
  BY DEF TypeOK
<1>2. [phase |-> phase, who |-> req[r].who, token |-> req[r].token, role |-> Nobody,
       staff |-> FALSE, superuser |-> FALSE, missing |-> {}, late |-> req[r].late] \in Request
  BY <1>1 DEF Request
<1> QED BY <1>1, <1>2 DEF TypeOK, End

LEMMA LacksType ==
    ASSUME NEW row, NEW role PROVE Lacks(row, role) \in SUBSET Needs
BY DEF Lacks

\* What Begin writes.
Begun(phase, u, t, role, staff) ==
    [phase |-> phase, who |-> u, token |-> t, role |-> role, staff |-> staff, superuser |-> FALSE,
     missing |-> Lacks(user[u], role), late |-> t \in over]

LEMMA BegunType ==
    ASSUME NEW phase \in Phases, NEW u \in Users, NEW t \in Tokens \cup {NoToken},
           NEW role \in Roles \cup {Nobody}, NEW staff \in BOOLEAN
    PROVE  Begun(phase, u, t, role, staff) \in Request
<1>1. Lacks(user[u], role) \in SUBSET Needs
  BY LacksType
<1>2. (t \in over) \in BOOLEAN
  OBVIOUS
<1> QED BY <1>1, <1>2 DEF Begun, Request

\* A request under way works for a user, and a refresh has a token.
Working ==
    /\ \A r \in Requests : req[r].phase \in InFlight \ {"rejected"} => req[r].who # Nobody
    /\ \A r \in Refreshes : req[r].phase # "idle" => req[r].token # NoToken

\* A step of one request writes that request, and only adds to the rest.
LEMMA StepFrame ==
    ASSUME TypeOK, Working, NEW r \in Requests, StepOf(r)
    PROVE  /\ TypeOK' /\ Working'
           /\ \A q \in Requests \ {r} : req'[q] = req[q]
           /\ user' = user /\ saves' = saves /\ deletion' = deletion
           /\ blacklist \subseteq blacklist' /\ log \subseteq log' /\ over \subseteq over'
           /\ \A t \in Tokens \ {r} : owner'[t] = owner[t]
           /\ req'[r].phase # "idle"
<1>1. /\ req[r] \in Request
      /\ Nobody \notin Users /\ NoToken \notin Tokens
      /\ \A u \in Users : user[u] \in Row \cup {Gone}
      /\ {"idle", "rejected", "authenticated", "stamped", "sent", "checked", "active", "denied",
          "granted", "ok", "failed"} = Phases
      /\ r \in Logins \cup Logouts \cup Calls => r \notin Refreshes
      /\ InFlight = Phases \ {"idle", "ok", "failed"}
  BY SessionAssumption DEF TypeOK, Phases, InFlight, Ended, Tokens
<1>2. /\ req[r].who \in Users \cup {Nobody} /\ req[r].token \in Tokens \cup {NoToken}
      /\ r \in Refreshes \/ r \in Logins => r \in Tokens
      /\ r \in Refreshes /\ req[r].phase # "idle" => req[r].token \in Tokens
  BY <1>1 DEF Request, Tokens, Working
<1> DEFINE Written ==
             /\ req' \in [Requests -> Request]
             /\ \A q \in Requests \ {r} : req'[q] = req[q]
             /\ req'[r].phase # "idle"
             /\ req'[r].phase \in InFlight \ {"rejected"} => req'[r].who # Nobody
             /\ r \in Refreshes => req'[r].token # NoToken
<1>3. ASSUME r \in Logins, NEW u \in Users, LoginRead(r, u) PROVE Written
  <2>1. CASE Begin(r, "authenticated", u, NoToken, Nobody, user[u].staff) /\ user[u] # Gone
    <3>1. user[u].staff \in BOOLEAN
      BY <1>1, <2>1 DEF Row
    <3>2. Begun("authenticated", u, NoToken, Nobody, user[u].staff) \in Request
      BY <1>1, <3>1, BegunType
    <3>3. req' = [req EXCEPT ![r] = Begun("authenticated", u, NoToken, Nobody, user[u].staff)]
      BY <2>1 DEF Begin, Begun
    <3>4. req'[r].phase = "authenticated" /\ req'[r].who = u
      BY <3>3 DEF TypeOK, Begun
    <3> QED BY <1>1, <1>3, <3>2, <3>3, <3>4 DEF TypeOK
  <2>2. CASE To(r, "rejected")
    BY <1>1, <1>3, <2>2, ToFacts
  <2> QED BY <1>3, <2>1, <2>2 DEF LoginRead
<1>4. ASSUME NEW phase \in Phases \ {"idle"}, To(r, phase),
             req[r].phase \in InFlight \ {"rejected"}
      PROVE  Written
  BY <1>1, <1>4, ToFacts DEF Working
<1>5. ASSUME Fail(r) \/ End(r, "ok"), r \in Refreshes => req[r].phase # "idle" PROVE Written
  BY <1>1, <1>5, EndFacts DEF Fail, Working
<1>6. ASSUME NEW a \in Tokens, owner[a] # Nobody, NEW t \in Tokens \cup {NoToken},
             NEW role \in Roles \cup {Nobody}, r \in Refreshes => t # NoToken,
             Begin(r, "sent", owner[a], t, role, FALSE)
      PROVE  Written
  <2>1. owner[a] \in Users
    BY <1>6 DEF TypeOK
  <2>2. Begun("sent", owner[a], t, role, FALSE) \in Request
    BY <1>1, <2>1, BegunType
  <2>3. req' = [req EXCEPT ![r] = Begun("sent", owner[a], t, role, FALSE)]
    BY <1>6 DEF Begin, Begun
  <2>4. req'[r].phase = "sent" /\ req'[r].who = owner[a] /\ req'[r].token = t
    BY <2>3 DEF TypeOK, Begun
  <2> QED BY <1>1, <1>6, <2>2, <2>3, <2>4 DEF TypeOK
<1>7. ASSUME r \notin Refreshes, GetUser(r) PROVE Written
  <2>1. CASE user[req[r].who] # Gone /\ Authenticate(r, user[req[r].who])
    <3>1. req[r].who \in Users
      BY <1>1, <1>2, <1>7 DEF GetUser, Working
    <3>2. user[req[r].who] \in Row
      BY <1>1, <2>1, <3>1
    <3> QED BY <1>1, <1>7, <2>1, <3>1, <3>2, AuthenticateFacts DEF GetUser, Working
  <2> QED BY <1>5, <1>7, <2>1 DEF GetUser
<1>8. Written
  <2>1. CASE r \in Logins /\ (LoginStamp(r) \/ LoginAudit(r))
    BY <1>1, <1>4, <1>5, <2>1 DEF LoginStamp, LoginAudit
  <2>2. CASE r \in Refreshes /\ \E t \in Tokens : RefreshStart(r, t)
    BY <1>1, <1>6, <2>2 DEF RefreshStart
  <2>3. CASE r \in Refreshes /\ (RefreshCheck(r) \/ RefreshUser(r) \/ Rotate(r))
    BY <1>1, <1>4, <1>5, <2>3 DEF RefreshCheck, RefreshUser, Rotate
  <2>4. CASE r \in Logouts /\ \E a \in Tokens, t \in Tokens \cup {NoToken} : LogoutStart(r, a, t)
    BY <1>1, <1>6, <2>4 DEF LogoutStart
  <2>5. CASE LogoutBlacklist(r) \/ HasPermission(r) \/ AuditDenial(r)
    BY <1>1, <1>4, <1>5, <2>5 DEF LogoutBlacklist, HasPermission, AuditDenial
  <2>6. CASE r \in Calls /\ \E a \in Tokens \cup {VoterToken}, role \in Roles : CallStart(r, a, role)
    BY <1>1, <1>5, <1>6, <2>6 DEF CallStart
  <2>7. CASE Answer(r) \/ Lose(r)
    BY <1>1, <1>5, <2>7 DEF Answer, Lose
  <2> QED BY <1>1, <1>3, <1>7, <2>1, <2>2, <2>3, <2>4, <2>5, <2>6, <2>7 DEF StepOf
<1>9. /\ user' = user /\ saves' = saves /\ deletion' = deletion /\ blacklist \subseteq blacklist' /\ over \subseteq over'
  BY DEF StepOf, LoginRead, LoginStamp, LoginAudit, RefreshStart, RefreshCheck, RefreshUser, Rotate,
         LogoutStart, GetUser, LogoutBlacklist, CallStart, HasPermission, AuditDenial, Answer, Lose
<1>10. log \subseteq log'
  BY DEF StepOf, LoginRead, LoginStamp, LoginAudit, RefreshStart, RefreshCheck, RefreshUser, Rotate,
         LogoutStart, GetUser, LogoutBlacklist, CallStart, HasPermission, AuditDenial, Answer, Lose,
         Audit
<1>11. log' \subseteq [action : Actions, actor : Users \cup {Nobody}]
  <2>1. \A action \in Actions : Entry(action, req[r].who) \in [action : Actions, actor : Users \cup {Nobody}]
    BY <1>2 DEF Entry
  <2>2. CASE \E action \in Actions : Audit(r, action)
    BY <2>1, <2>2 DEF Audit, TypeOK
  <2>3. CASE log' = log
    BY <2>3 DEF TypeOK
  <2>4. log' = log \/ \E action \in Actions : Audit(r, action)
    BY DEF StepOf, LoginRead, LoginStamp, LoginAudit, RefreshStart, RefreshCheck, RefreshUser, Rotate,
         LogoutStart, GetUser, LogoutBlacklist, CallStart, HasPermission, AuditDenial, Answer, Lose,
         Actions
  <2> QED BY <2>2, <2>3, <2>4
<1>12. blacklist' \subseteq Tokens /\ over' \subseteq Tokens
  BY <1>2 DEF StepOf, LoginRead, LoginStamp, LoginAudit, RefreshStart, RefreshCheck, RefreshUser, Rotate,
         LogoutStart, GetUser, LogoutBlacklist, CallStart, HasPermission, AuditDenial, Answer, Lose,
         Owns, TypeOK
<1>13. owner' \in [Tokens -> Users \cup {Nobody}] /\ \A t \in Tokens \ {r} : owner'[t] = owner[t]
  <2>1. CASE Answer(r)
    BY <1>2, <2>1 DEF Answer, TypeOK
  <2>2. CASE owner' = owner
    BY <2>2 DEF TypeOK
  <2> QED BY <2>1, <2>2 DEF StepOf, LoginRead, LoginStamp, LoginAudit, RefreshStart, RefreshCheck,
         RefreshUser, Rotate, LogoutStart, GetUser, LogoutBlacklist, CallStart, HasPermission,
         AuditDenial, Lose
<1>14. Working'
  BY <1>8 DEF Working, Requests
<1>15. TypeOK'
  BY <1>8, <1>9, <1>11, <1>12, <1>13 DEF TypeOK
<1> QED BY <1>8, <1>9, <1>10, <1>13, <1>14, <1>15

\* A save rewrites one account and what its requests have lacked since they began.
LEMMA SaveFrame ==
    ASSUME TypeOK, Working, NEW u \in Users, NEW row \in Forms, SaveUser(u, row)
    PROVE  /\ TypeOK' /\ Working'
           /\ user[u] # Gone /\ user' = [user EXCEPT ![u] = row] /\ row \in Row
           /\ UNCHANGED <<owner, blacklist, log, over, deletion>>
           /\ \A r \in Requests :
                  /\ req'[r].phase = req[r].phase /\ req'[r].who = req[r].who
                  /\ req'[r].token = req[r].token /\ req'[r].role = req[r].role
                  /\ req'[r].staff = req[r].staff /\ req'[r].superuser = req[r].superuser
                  /\ req'[r].late = req[r].late
                  /\ req'[r].missing = IF req[r].who = u
                                       THEN req[r].missing \cap Lacks(row, req[r].role)
                                       ELSE req[r].missing
<1>1. /\ user[u] # Gone /\ user' = [user EXCEPT ![u] = row] /\ row \in Row
      /\ UNCHANGED <<owner, blacklist, log, over, deletion>> /\ req' = StillMissing(u, row)
      /\ saves' \in 0 .. MaxSaves
  BY SessionAssumption DEF SaveUser, TypeOK
<1>2. ASSUME NEW r \in Requests
      PROVE  /\ req'[r] \in Request
             /\ req'[r].phase = req[r].phase /\ req'[r].who = req[r].who
             /\ req'[r].token = req[r].token /\ req'[r].role = req[r].role
             /\ req'[r].staff = req[r].staff /\ req'[r].superuser = req[r].superuser
             /\ req'[r].late = req[r].late
             /\ req'[r].missing = IF req[r].who = u
                                  THEN req[r].missing \cap Lacks(row, req[r].role)
                                  ELSE req[r].missing
  <2>1. req[r] \in Request
    BY DEF TypeOK
  <2>2. req[r].missing \cap Lacks(row, req[r].role) \in SUBSET Needs
    BY <2>1 DEF Request
  <2>3. CASE req[r].who = u
    <3>1. req'[r] = [req[r] EXCEPT !.missing = req[r].missing \cap Lacks(row, req[r].role)]
      BY <1>1, <2>3 DEF StillMissing
    <3> QED BY <2>1, <2>2, <2>3, <3>1 DEF Request
  <2>4. CASE req[r].who # u
    BY <1>1, <2>1, <2>4 DEF StillMissing
  <2> QED BY <2>3, <2>4
<1>3. TypeOK'
  <2>1. req' \in [Requests -> Request]
    BY <1>1, <1>2 DEF StillMissing
  <2>2. user' \in [Users -> Row \cup {Gone}]
    BY <1>1 DEF TypeOK
  <2> QED BY <1>1, <2>1, <2>2 DEF TypeOK
<1>4. Working'
  BY <1>2 DEF Working, Requests
<1> QED BY <1>1, <1>2, <1>3, <1>4

\* A deletion removes an account that no audit entry names, or nothing.
LEMMA DeleteFrame ==
    ASSUME TypeOK, NEW u \in Users, Delete(u)
    PROVE  /\ UNCHANGED <<owner, blacklist, log, req, saves, over>>
           /\ deletion' \in [Users -> {"none", "looked", "deleted"}]
           /\ \/ user' = user
              \/ user' = [user EXCEPT ![u] = Gone] /\ \A e \in log : e.actor # u
<1>1. ASSUME NEW stage \in {"none", "looked", "deleted"}, deletion' = [deletion EXCEPT ![u] = stage]
      PROVE  deletion' \in [Users -> {"none", "looked", "deleted"}]
  BY <1>1 DEF TypeOK
<1>2. CASE CollectUser(u)
  BY <1>1, <1>2 DEF CollectUser
<1>3. CASE DeleteUser(u)
  BY <1>1, <1>3 DEF DeleteUser
<1>4. CASE DeleteCommit(u)
  BY <1>1, <1>4 DEF DeleteCommit
<1>5. CASE DeleteAbandoned(u)
  BY <1>1, <1>5 DEF DeleteAbandoned
<1> QED BY <1>2, <1>3, <1>4, <1>5 DEF Delete

LEMMA InitTypes == Init => TypeOK /\ Working
<1> SUFFICES ASSUME Init PROVE TypeOK /\ Working
  OBVIOUS
<1>1. Idle \in Request
  BY DEF Idle, Request, Phases
<1>2. Idle.phase = "idle" /\ "idle" \notin InFlight
  BY DEF Idle, InFlight
<1> QED BY <1>1, <1>2, SessionAssumption DEF Init, TypeOK, Working, Requests

LEMMA NextTypes == TypeOK /\ Working /\ [Next]_vars => TypeOK' /\ Working'
<1> SUFFICES ASSUME TypeOK, Working, [Next]_vars PROVE TypeOK' /\ Working'
  OBVIOUS
<1>1. ASSUME NEW r \in Requests, StepOf(r) PROVE TypeOK' /\ Working'
  BY <1>1, StepFrame
<1>2. ASSUME NEW u \in Users, NEW row \in Forms, SaveUser(u, row) PROVE TypeOK' /\ Working'
  BY <1>2, SaveFrame
<1>3. ASSUME NEW u \in Users, Delete(u) PROVE TypeOK' /\ Working'
  BY <1>3, DeleteFrame DEF TypeOK, Working
<1>4. CASE UNCHANGED vars
  BY <1>4 DEF vars, TypeOK, Working
<1> QED BY <1>1, <1>2, <1>3, <1>4, Steps

\* Every state of the staff sessions has its types, for any users, requests and forms.
THEOREM TypeCorrect == Spec => []TypeOK
BY InitTypes, NextTypes, PTL DEF Spec

----------------------------------------------------------------------------
\* u has an account that cannot be deleted any more.
Known(u) == u \in Users /\ user[u] # Gone /\ Entry("STAFF_LOGIN", u) \in log

HolderInv ==
    /\ \A t \in Tokens : owner[t] # Nobody => Known(owner[t])
    /\ \A r \in Refreshes : req[r].phase \in InFlight => Known(req[r].who)
    /\ \A l \in Logins : req[l].phase = "granted" => Known(req[l].who)

\* A login is granted only with its audit entry written.
LEMMA LoginGranted ==
    ASSUME TypeOK, Working, NEW l \in Logins, StepOf(l), req'[l].phase = "granted"
    PROVE  Known(req[l].who)'
<1>1. /\ l \in Requests /\ Nobody \notin Users /\ req[l] \in Request
      /\ l \notin Refreshes /\ l \notin Logouts /\ l \notin Calls
      /\ {"rejected", "stamped", "failed", "granted", "ok"} \subseteq Phases
  BY SessionAssumption DEF Requests, TypeOK, Phases, InFlight, Ended
<1>2. CASE \E u \in Users : LoginRead(l, u)
  BY <1>1, <1>2, ToFacts DEF LoginRead, Begin, TypeOK
<1>3. CASE LoginStamp(l) \/ Lose(l) \/ Answer(l)
  BY <1>1, <1>3, ToFacts, EndFacts DEF LoginStamp, Lose, Answer, Fail
<1>4. CASE LoginAudit(l)
  <2>1. CASE Fail(l)
    BY <1>1, <2>1, EndFacts DEF Fail
  <2>2. CASE ~Fail(l)
    <3>1. /\ req[l].phase = "stamped" /\ Audit(l, "STAFF_LOGIN") /\ UNCHANGED user
          /\ user[req[l].who] # Gone /\ To(l, "granted")
      BY <1>4, <2>2 DEF LoginAudit
    <3>2. req[l].who \in Users /\ req'[l].who = req[l].who
      BY <1>1, <3>1, ToFacts DEF Working, InFlight, Request
    <3>3. Entry("STAFF_LOGIN", req[l].who) \in log'
      BY <3>1 DEF Audit
    <3> QED BY <3>1, <3>2, <3>3 DEF Known, Entry
  <2> QED BY <2>1, <2>2
<1> QED BY <1>1, <1>2, <1>3, <1>4 DEF StepOf

\* A refresh works for the user its token was made out to.
LEMMA RefreshFor ==
    ASSUME TypeOK, Working, NEW r \in Refreshes, StepOf(r), req'[r].phase \in InFlight
    PROVE  \/ req[r].phase \in InFlight /\ req'[r].who = req[r].who
           \/ \E t \in Tokens : owner[t] # Nobody /\ req'[r].who = owner[t]
<1>1. /\ r \in Requests /\ req[r] \in Request
      /\ r \notin Logins /\ r \notin Logouts /\ r \notin Calls
      /\ {"checked", "active", "granted", "failed", "ok"} \subseteq Phases
      /\ {"failed", "ok"} \cap InFlight = {}
      /\ {"sent", "checked", "active", "granted"} \subseteq InFlight
  BY SessionAssumption DEF Requests, TypeOK, Phases, InFlight, Ended
<1>2. CASE \E t \in Tokens : RefreshStart(r, t)
  BY <1>1, <1>2 DEF RefreshStart, Begin, TypeOK
<1>3. CASE RefreshCheck(r) \/ RefreshUser(r) \/ Rotate(r)
  BY <1>1, <1>3, ToFacts, EndFacts DEF RefreshCheck, RefreshUser, Rotate, Fail
<1>4. CASE Answer(r) \/ Lose(r)
  BY <1>1, <1>4, EndFacts DEF Answer, Lose, Fail
<1> QED BY <1>1, <1>2, <1>3, <1>4 DEF StepOf

LEMMA HolderStep == TypeOK /\ Working /\ HolderInv /\ [Next]_vars => HolderInv'
<1> SUFFICES ASSUME TypeOK, Working, HolderInv, [Next]_vars PROVE HolderInv'
  OBVIOUS
<1>1. ASSUME NEW r \in Requests, StepOf(r) PROVE HolderInv'
  <2>1. /\ \A q \in Requests \ {r} : req'[q] = req[q]
        /\ user' = user /\ log \subseteq log'
        /\ \A t \in Tokens \ {r} : owner'[t] = owner[t]
    BY <1>1, StepFrame
  <2>2. \A u \in Users : Known(u) => Known(u)'
    BY <2>1 DEF Known, Entry
  <2>3. \A q \in Refreshes : req'[q].phase \in InFlight => Known(req[q].who)'
    BY <1>1, <2>1, <2>2, RefreshFor DEF HolderInv, Known, Requests
  <2>4. \A l \in Logins : req'[l].phase = "granted" => Known(req[l].who)'
    BY <1>1, <2>1, <2>2, LoginGranted DEF HolderInv, Known, Requests
  <2>5. \A t \in Tokens : owner'[t] # Nobody => Known(owner[t])'
    <3>1. CASE owner' = owner
      BY <2>2, <3>1 DEF HolderInv, Known
    <3>2. CASE r \in Tokens /\ Answer(r)
      <4>1. req[r].phase = "granted" /\ owner' = [owner EXCEPT ![r] = req[r].who]
        BY <3>2 DEF Answer
      <4>2. Known(req[r].who)
        BY <3>2, <4>1 DEF HolderInv, Tokens, InFlight
      <4> QED BY <2>2, <4>1, <4>2 DEF HolderInv, Known, TypeOK
    <3> QED BY <1>1, <3>1, <3>2 DEF StepOf, LoginRead, LoginStamp, LoginAudit, RefreshStart,
         RefreshCheck, RefreshUser, Rotate, LogoutStart, GetUser, LogoutBlacklist, CallStart,
         HasPermission, AuditDenial, Answer, Lose
  <2> QED BY <2>3, <2>4, <2>5 DEF HolderInv
<1>2. ASSUME NEW u \in Users, NEW row \in Forms, SaveUser(u, row) PROVE HolderInv'
  <2>1. \A v : Known(v) => Known(v)'
    <3>1. row # Gone
      BY SessionAssumption
    <3> QED BY <1>2, <3>1, SaveFrame DEF Known, Entry, TypeOK
  <2> QED BY <1>2, <2>1, SaveFrame DEF HolderInv, Requests
<1>3. ASSUME NEW u \in Users, Delete(u) PROVE HolderInv'
  <2>1. \A v : Known(v) => Known(v)'
    BY <1>3, DeleteFrame DEF Known, Entry, TypeOK
  <2> QED BY <1>3, <2>1, DeleteFrame DEF HolderInv
<1>4. CASE UNCHANGED vars
  BY <1>4 DEF vars, HolderInv, Known, Entry
<1> QED BY <1>1, <1>2, <1>3, <1>4, Steps

\* Whoever holds a token has an account and a login in the audit log: no deletion, save or
\* crash leaves a session without its user.
THEOREM HoldersStayKnown == Spec => []HoldersAreKnown
<1>1. Init => HolderInv
  BY SessionAssumption DEF Init, HolderInv, Idle, InFlight, Requests, Tokens
<1>2. HolderInv => HoldersAreKnown
  BY DEF HolderInv, HoldersAreKnown, Known
<1> QED BY <1>1, <1>2, InitTypes, NextTypes, HolderStep, PTL DEF Spec

----------------------------------------------------------------------------
\* Every way of using up a token has blacklisted it before the client hears of it.
OverInv ==
    /\ over \subseteq blacklist
    /\ \A t \in Tokens : owner[t] # Nobody => req[t].phase = "ok"
    /\ \A r \in Refreshes \cup Logouts : req[r].token # NoToken => owner[req[r].token] # Nobody
    /\ \A r \in Refreshes : /\ req[r].phase = "granted" => req[r].token \in blacklist
                            /\ req[r].late => /\ req[r].token \in blacklist
                                               /\ req[r].phase \in {"sent", "failed"}
    /\ \A o \in Logouts : req[o].phase = "granted" /\ Owns(o) => req[o].token \in blacklist

LEMMA RefreshMoves ==
    ASSUME TypeOK, Working, NEW r \in Refreshes, StepOf(r)
    PROVE  \/ \E t \in Tokens :
                 /\ owner[t] # Nobody /\ req'[r].phase = "sent" /\ req'[r].token = t
                 /\ req'[r].late = (t \in over) /\ over' = over
           \/ /\ req'[r].token = req[r].token /\ req'[r].late = req[r].late
              /\ \/ req'[r].phase = "failed" /\ over' = over
                 \/ req'[r].phase = "checked" /\ req[r].token \notin blacklist /\ over' = over
                 \/ req[r].phase = "checked" /\ req'[r].phase = "active" /\ over' = over
                 \/ /\ req[r].phase = "active" /\ req'[r].phase = "granted" /\ over' = over
                    /\ req[r].token \in blacklist'
                 \/ /\ req[r].phase = "granted" /\ req'[r].phase = "ok"
                    /\ over' = over \cup {req[r].token}
<1>1. /\ r \in Requests /\ req[r] \in Request
      /\ r \notin Logins /\ r \notin Logouts /\ r \notin Calls
      /\ {"checked", "active", "granted", "failed", "ok"} \subseteq Phases
  BY SessionAssumption DEF Requests, TypeOK, Phases, InFlight, Ended
<1>2. CASE \E t \in Tokens : RefreshStart(r, t)
  BY <1>1, <1>2 DEF RefreshStart, Begin, TypeOK
<1>3. CASE RefreshCheck(r)
  BY <1>1, <1>3, ToFacts, EndFacts DEF RefreshCheck, Fail
<1>4. CASE RefreshUser(r)
  BY <1>1, <1>4, ToFacts, EndFacts DEF RefreshUser, Fail
<1>5. CASE Rotate(r)
  BY <1>1, <1>5, ToFacts DEF Rotate
<1>6. CASE Answer(r)
  BY <1>1, <1>6, EndFacts DEF Answer
<1>7. CASE Lose(r)
  BY <1>1, <1>7, EndFacts DEF Lose, Fail
<1> QED BY <1>1, <1>2, <1>3, <1>4, <1>5, <1>6, <1>7 DEF StepOf

LEMMA LogoutMoves ==
    ASSUME TypeOK, Working, NEW o \in Logouts, StepOf(o)
    PROVE  \/ /\ req'[o].phase = "sent" /\ over' = over
              /\ req'[o].token # NoToken => owner[req'[o].token] # Nobody
           \/ /\ req'[o].token = req[o].token /\ req'[o].who = req[o].who
              /\ \/ req'[o].phase \in {"failed", "active"} /\ over' = over
                 \/ /\ req'[o].phase = "granted" /\ over' = over
                    /\ Owns(o) => req[o].token \in blacklist'
                 \/ /\ req[o].phase = "granted" /\ req'[o].phase = "ok"
                    /\ over' = IF Owns(o) THEN over \cup {req[o].token} ELSE over
<1>1. /\ o \in Requests /\ req[o] \in Request
      /\ o \notin Logins /\ o \notin Refreshes /\ o \notin Calls
      /\ {"active", "granted", "failed", "ok"} \subseteq Phases
  BY SessionAssumption DEF Requests, TypeOK, Phases, InFlight, Ended
<1>2. CASE \E a \in Tokens, t \in Tokens \cup {NoToken} : LogoutStart(o, a, t)
  BY <1>1, <1>2 DEF LogoutStart, Begin, TypeOK
<1>3. CASE GetUser(o)
  <2>1. CASE Fail(o)
    BY <1>1, <1>3, <2>1, EndFacts DEF Fail, GetUser
  <2>2. CASE ~Fail(o)
    BY <1>1, <1>3, <2>2 DEF GetUser, Authenticate, TypeOK, Request
  <2> QED BY <2>1, <2>2
<1>4. CASE LogoutBlacklist(o)
  BY <1>1, <1>4, ToFacts DEF LogoutBlacklist
<1>5. CASE Answer(o)
  BY <1>1, <1>5, EndFacts DEF Answer
<1>6. CASE Lose(o)
  BY <1>1, <1>6, EndFacts DEF Lose, Fail
<1> QED BY <1>1, <1>2, <1>3, <1>4, <1>5, <1>6 DEF StepOf

LEMMA OthersLeaveOver ==
    ASSUME NEW r \in Requests, r \notin Refreshes, r \notin Logouts, StepOf(r) PROVE over' = over
BY DEF StepOf, LoginRead, LoginStamp, LoginAudit, CallStart, GetUser, HasPermission, AuditDenial,
       Answer, Lose

\* A token that a client holds stays made out to the same user.
LEMMA OwnersStay ==
    ASSUME TypeOK, Working, OverInv, NEW r \in Requests, StepOf(r)
    PROVE  /\ \A t \in Tokens : owner[t] # Nobody => owner'[t] = owner[t] /\ req'[t].phase = "ok"
           /\ r \in Tokens /\ owner'[r] # owner[r] => req'[r].phase = "ok"
<1>1. /\ \A t \in Tokens \ {r} : owner'[t] = owner[t]
      /\ \A q \in Requests \ {r} : req'[q] = req[q]
  BY StepFrame
<1>2. req[r].phase # "ok"
  BY DEF StepOf, LoginRead, LoginStamp, LoginAudit, RefreshStart, RefreshCheck, RefreshUser, Rotate,
         LogoutStart, GetUser, LogoutBlacklist, CallStart, HasPermission, AuditDenial, Answer, Lose,
         Waiting, InFlight
<1>3. CASE owner' = owner
  BY <1>1, <1>2, <1>3 DEF OverInv, Tokens, Requests
<1>4. CASE Answer(r)
  <2>1. req'[r].phase = "ok"
    BY <1>4, EndFacts DEF Answer, Phases, Ended
  <2> QED BY <1>1, <1>2, <2>1 DEF OverInv, Tokens, Requests
<1> QED BY <1>3, <1>4 DEF StepOf, LoginRead, LoginStamp, LoginAudit, RefreshStart, RefreshCheck,
         RefreshUser, Rotate, LogoutStart, GetUser, LogoutBlacklist, CallStart, HasPermission,
         AuditDenial, Lose

LEMMA OverStep == TypeOK /\ Working /\ OverInv /\ [Next]_vars => OverInv'
<1> SUFFICES ASSUME TypeOK, Working, OverInv, [Next]_vars PROVE OverInv'
  OBVIOUS
<1>1. ASSUME NEW r \in Requests, StepOf(r) PROVE OverInv'
  <2>1. /\ \A q \in Requests \ {r} : req'[q] = req[q]
        /\ blacklist \subseteq blacklist'
        /\ \A t \in Tokens \ {r} : owner'[t] = owner[t]
        /\ TypeOK'
    BY <1>1, StepFrame
  <2>2. /\ \A t \in Tokens : owner[t] # Nobody => owner'[t] = owner[t] /\ req'[t].phase = "ok"
        /\ r \in Tokens /\ owner'[r] # owner[r] => req'[r].phase = "ok"
    BY <1>1, OwnersStay
  <2>3. NoToken \notin Tokens /\ Refreshes \cap Logouts = {} /\ over \subseteq Tokens
        /\ \A q \in Requests : req[q].token \in Tokens \cup {NoToken}
    BY SessionAssumption DEF TypeOK, Request, Tokens
  <2>4. over' \subseteq blacklist'
    <3>1. CASE r \in Refreshes
      BY <1>1, <2>1, <3>1, RefreshMoves DEF OverInv
    <3>2. CASE r \in Logouts
      BY <1>1, <2>1, <3>2, LogoutMoves DEF OverInv
    <3> QED BY <1>1, <2>1, <3>1, <3>2, OthersLeaveOver DEF OverInv
  <2>5. \A t \in Tokens : owner'[t] # Nobody => req'[t].phase = "ok"
    BY <2>1, <2>2 DEF OverInv, Requests, Tokens
  <2>6. \A q \in Refreshes \cup Logouts : req'[q].token # NoToken => owner'[req'[q].token] # Nobody
    <3> SUFFICES ASSUME NEW q \in Refreshes \cup Logouts, req'[q].token # NoToken
                 PROVE  owner'[req'[q].token] # Nobody
      OBVIOUS
    <3>1. req'[q].token \in Tokens
      BY <2>1 DEF TypeOK, Request, Requests
    <3>2. owner[req'[q].token] # Nobody
      <4>1. CASE q = r /\ q \in Refreshes
        BY <1>1, <4>1, RefreshMoves DEF OverInv
      <4>2. CASE q = r /\ q \in Logouts
        BY <1>1, <4>2, LogoutMoves DEF OverInv
      <4> QED BY <2>1, <4>1, <4>2 DEF OverInv, Requests
    <3> QED BY <2>2, <3>1, <3>2
  <2>7. \A q \in Refreshes : /\ req'[q].phase = "granted" => req'[q].token \in blacklist'
                             /\ req'[q].late => /\ req'[q].token \in blacklist'
                                                /\ req'[q].phase \in {"sent", "failed"}
    <3> SUFFICES ASSUME NEW q \in Refreshes
                 PROVE  /\ req'[q].phase = "granted" => req'[q].token \in blacklist'
                        /\ req'[q].late => /\ req'[q].token \in blacklist'
                                           /\ req'[q].phase \in {"sent", "failed"}
      OBVIOUS
    <3>1. CASE q = r
      BY <1>1, <2>1, <3>1, RefreshMoves DEF OverInv
    <3>2. CASE q # r
      BY <2>1, <3>2 DEF OverInv, Requests
    <3> QED BY <3>1, <3>2
  <2>8. \A o \in Logouts : req'[o].phase = "granted" /\ Owns(o)' => req'[o].token \in blacklist'
    <3> SUFFICES ASSUME NEW o \in Logouts, req'[o].phase = "granted", Owns(o)'
                 PROVE  req'[o].token \in blacklist'
      OBVIOUS
    <3>1. req'[o].token = req[o].token /\ req'[o].who = req[o].who
      BY <1>1, <2>1, LogoutMoves DEF Requests
    <3>2. Owns(o)
      BY <2>2, <2>3, <3>1 DEF OverInv, Owns, Requests
    <3>3. CASE o = r
      BY <1>1, <3>1, <3>2, <3>3, LogoutMoves
    <3>4. CASE o # r
      BY <2>1, <3>1, <3>2, <3>4 DEF OverInv, Requests
    <3> QED BY <3>3, <3>4
  <2> QED BY <2>4, <2>5, <2>6, <2>7, <2>8 DEF OverInv
<1>2. ASSUME NEW u \in Users, NEW row \in Forms, SaveUser(u, row) PROVE OverInv'
  <2>1. /\ UNCHANGED <<owner, blacklist, over>>
        /\ \A r \in Requests : /\ req'[r].phase = req[r].phase /\ req'[r].who = req[r].who
                               /\ req'[r].token = req[r].token /\ req'[r].late = req[r].late
    BY <1>2, SaveFrame
  <2> QED BY <2>1 DEF OverInv, Owns, Requests, Tokens
<1>3. ASSUME NEW u \in Users, Delete(u) PROVE OverInv'
  BY <1>3, DeleteFrame DEF OverInv, Owns
<1>4. CASE UNCHANGED vars
  BY <1>4 DEF vars, OverInv, Owns
<1> QED BY <1>1, <1>2, <1>3, <1>4, Steps

LEMMA OverInit == Init => OverInv
BY SessionAssumption DEF Init, OverInv, Idle, Requests, Tokens

\* A refresh that begins after its token was reported rotated or logged out gets nothing,
\* however many tabs, retries and logouts present the same token.
THEOREM OverStaysOver == Spec => []OverIsOver
<1>1. OverInv => OverIsOver
  BY DEF OverInv, OverIsOver
<1> QED BY <1>1, InitTypes, NextTypes, OverInit, OverStep, PTL DEF Spec

----------------------------------------------------------------------------
EndedInv ==
    /\ EndedForCause
    /\ \A r \in Requests : req[r].phase = "idle" => req[r].token = NoToken

\* Once a request has begun, its token and its user are fixed.
LEMMA TokensStay ==
    ASSUME TypeOK, Working, NEW r \in Requests, StepOf(r), req[r].phase # "idle"
    PROVE  req'[r].token = req[r].token /\ req'[r].who = req[r].who
<1>1. {"stamped", "granted", "checked", "active", "denied", "failed", "ok"} \subseteq Phases
  BY DEF Phases, InFlight, Ended
<1>2. CASE \E phase \in {"stamped", "granted", "checked", "active", "denied"} : To(r, phase)
  BY <1>1, <1>2, ToFacts
<1>3. CASE Fail(r) \/ End(r, "ok")
  BY <1>1, <1>3, EndFacts DEF Fail
<1>4. CASE GetUser(r) /\ ~Fail(r)
  <2>1. req[r] \in Request
    BY DEF TypeOK
  <2> QED BY <1>4, <2>1 DEF GetUser, Authenticate, TypeOK, Request
<1> QED BY <1>2, <1>3, <1>4 DEF StepOf, LoginRead, LoginStamp, LoginAudit, RefreshStart,
     RefreshCheck, RefreshUser, Rotate, LogoutStart, GetUser, LogoutBlacklist, CallStart,
     HasPermission, AuditDenial, Answer, Lose, Waiting

LEMMA EndedStep == TypeOK /\ Working /\ OverInv /\ EndedInv /\ [Next]_vars => EndedInv'
<1> SUFFICES ASSUME TypeOK, Working, OverInv, EndedInv, [Next]_vars PROVE EndedInv'
  OBVIOUS
<1>1. ASSUME NEW r \in Requests, StepOf(r) PROVE EndedInv'
  <2>1. /\ \A q \in Requests \ {r} : req'[q] = req[q]
        /\ req'[r].phase # "idle"
        /\ TypeOK'
    BY <1>1, StepFrame
  <2>2. NoToken \notin Tokens
    BY SessionAssumption DEF Tokens
  <2>3. \A q \in Requests : req[q].token # NoToken => req'[q].token = req[q].token /\ req'[q].who = req[q].who
    BY <1>1, <2>1, TokensStay DEF EndedInv
  <2>4. \A t \in Tokens : owner[t] # Nobody => owner'[t] = owner[t]
    BY <1>1, OwnersStay
  <2>5. ASSUME NEW t \in blacklist'
        PROVE  \/ \E q \in Refreshes : req'[q].token = t
               \/ \E o \in Logouts : req'[o].token = t /\ req'[o].who = owner'[t]
    <3>1. t \in Tokens
      BY <2>1, <2>5 DEF TypeOK
    <3>2. CASE t \in blacklist
      <4>1. CASE \E q \in Refreshes : req[q].token = t
        BY <2>2, <2>3, <3>1, <4>1 DEF Requests
      <4>2. CASE \E o \in Logouts : req[o].token = t /\ req[o].who = owner[t]
        BY <2>2, <2>3, <2>4, <3>1, <4>2 DEF Requests, OverInv
      <4> QED BY <3>2, <4>1, <4>2 DEF EndedInv, EndedForCause
    <3>3. CASE t \notin blacklist
      <4>1. \/ r \in Refreshes /\ Rotate(r) /\ req[r].token = t
            \/ r \in Logouts /\ LogoutBlacklist(r) /\ Owns(r) /\ req[r].token = t
        BY <1>1, <2>5, <3>3 DEF StepOf, LoginRead, LoginStamp, LoginAudit, RefreshStart,
          RefreshCheck, RefreshUser, Rotate, LogoutStart, GetUser, LogoutBlacklist, CallStart,
          HasPermission, AuditDenial, Answer, Lose
      <4> QED BY <2>2, <2>3, <2>4, <3>1, <4>1 DEF Owns, OverInv
    <3> QED BY <3>2, <3>3
  <2> QED BY <2>1, <2>5 DEF EndedInv, EndedForCause
<1>2. ASSUME NEW u \in Users, NEW row \in Forms, SaveUser(u, row) PROVE EndedInv'
  <2>1. /\ UNCHANGED <<owner, blacklist, over>>
        /\ \A r \in Requests : /\ req'[r].phase = req[r].phase /\ req'[r].who = req[r].who
                               /\ req'[r].token = req[r].token /\ req'[r].late = req[r].late
    BY <1>2, SaveFrame
  <2> QED BY <2>1 DEF EndedInv, EndedForCause, Requests
<1>3. ASSUME NEW u \in Users, Delete(u) PROVE EndedInv'
  BY <1>3, DeleteFrame DEF EndedInv, EndedForCause
<1>4. CASE UNCHANGED vars
  BY <1>4 DEF vars, EndedInv, EndedForCause
<1> QED BY <1>1, <1>2, <1>3, <1>4, Steps

\* A session is ended by a refresh that presents its token or by its own user's logout,
\* and by nobody else's.
THEOREM SessionsEndForCause == Spec => []EndedForCause
<1>1. Init => EndedInv
  BY DEF Init, EndedInv, EndedForCause, Idle
<1>2. EndedInv => EndedForCause
  BY DEF EndedInv
<1> QED BY <1>1, <1>2, InitTypes, NextTypes, OverInit, OverStep, EndedStep, PTL DEF Spec

----------------------------------------------------------------------------
\* What request r has been found to have, it has had at some moment since it began.
Found(r) ==
    /\ req[r].who # Nobody => req[r].missing \subseteq Lacks(user[req[r].who], req[r].role)
    /\ r \in Logins /\ req[r].phase \in {"authenticated", "stamped", "granted"} =>
           /\ "active" \notin req[r].missing
           /\ req[r].staff => "staff" \notin req[r].missing
           /\ req[r].phase = "granted" => req[r].staff
    /\ r \in Refreshes /\ req[r].phase \in {"active", "granted"} => "active" \notin req[r].missing
    /\ r \in Logouts \cup Calls /\ req[r].phase \in {"active", "denied", "granted"} =>
           /\ "active" \notin req[r].missing /\ "staff" \notin req[r].missing
           /\ req[r].superuser => "role" \notin req[r].missing
           /\ r \in Calls /\ req[r].phase = "granted" => "role" \notin req[r].missing
    /\ req[r].phase = "ok" => req[r].missing = {}

MissingInv == \A r \in Requests : Found(r)

LEMMA LacksOf ==
    ASSUME NEW row \in Row, NEW role
    PROVE  /\ row.active => "active" \notin Lacks(row, role)
           /\ row.staff => "staff" \notin Lacks(row, role)
           /\ row.superuser \/ role \in row.roles => "role" \notin Lacks(row, role)
BY SessionAssumption DEF Lacks

LEMMA FoundStep ==
    ASSUME TypeOK, Working, NEW r \in Requests, Found(r), StepOf(r)
    PROVE  Found(r)'
<1>1. /\ req[r] \in Request /\ UNCHANGED user
      /\ Nobody \notin Users /\ Gone \notin Row
      /\ \A u \in Users : user[u] # Gone => user[u] \in Row
      /\ Logins \cap Refreshes = {} /\ (Logins \cup Refreshes) \cap (Logouts \cup Calls) = {}
      /\ {"rejected", "stamped", "granted", "checked", "active", "denied", "failed", "ok"} \subseteq Phases
      /\ Logouts \cap Calls = {}
  BY StepFrame, SessionAssumption DEF TypeOK, Phases, InFlight, Ended
<1>2. req[r].phase \in InFlight \ {"rejected"} => req[r].who \in Users
  BY <1>1 DEF Working, Request
<1>3. ASSUME Fail(r) \/ End(r, "ok") PROVE Found(r)'
  BY <1>1, <1>3, EndFacts DEF Fail, Found
<1>4. CASE r \in Logins /\ \E u \in Users : LoginRead(r, u)
  <2>1. PICK u \in Users : LoginRead(r, u)
    BY <1>4
  <2>2. CASE To(r, "rejected")
    BY <1>1, <1>4, <2>1, <2>2, ToFacts DEF Found
  <2>3. CASE ~To(r, "rejected")
    <3>1. /\ user[u] # Gone /\ user[u].active
          /\ Begin(r, "authenticated", u, NoToken, Nobody, user[u].staff)
      BY <2>1, <2>3 DEF LoginRead
    <3>2. /\ req'[r].phase = "authenticated" /\ req'[r].who = u /\ req'[r].role = Nobody
          /\ req'[r].staff = user[u].staff /\ req'[r].missing = Lacks(user[u], Nobody)
      BY <3>1 DEF Begin, TypeOK
    <3> QED BY <1>1, <1>4, <3>1, <3>2, LacksOf DEF Found
  <2> QED BY <2>2, <2>3
<1>5. CASE r \in Logins /\ LoginStamp(r)
  BY <1>1, <1>3, <1>5, ToFacts DEF LoginStamp, Found
<1>6. CASE r \in Logins /\ LoginAudit(r)
  BY <1>1, <1>3, <1>6, ToFacts DEF LoginAudit, Found
<1>7. CASE r \in Refreshes /\ \E t \in Tokens : RefreshStart(r, t)
  BY <1>1, <1>7 DEF RefreshStart, Begin, TypeOK, Found
<1>8. CASE r \in Refreshes /\ (RefreshCheck(r) \/ Rotate(r))
  BY <1>1, <1>3, <1>8, ToFacts DEF RefreshCheck, Rotate, Found
<1>9. CASE r \in Refreshes /\ RefreshUser(r)
  <2>1. req[r].who \in Users
    BY <1>2, <1>9 DEF RefreshUser, InFlight
  <2>2. CASE Fail(r)
    BY <1>3, <2>2
  <2>3. CASE ~Fail(r)
    <3>1. user[req[r].who] # Gone /\ user[req[r].who].active /\ To(r, "active")
      BY <1>9, <2>3 DEF RefreshUser
    <3>2. "active" \notin req[r].missing
      BY <1>1, <2>1, <3>1, LacksOf DEF Found
    <3> QED BY <1>1, <1>9, <3>1, <3>2, ToFacts DEF Found
  <2> QED BY <2>2, <2>3
<1>10. CASE r \in Logouts /\ \E a \in Tokens, t \in Tokens \cup {NoToken} : LogoutStart(r, a, t)
  BY <1>1, <1>10 DEF LogoutStart, Begin, TypeOK, Found
<1>11. CASE r \in Logouts \cup Calls /\ GetUser(r)
  <2>1. req[r].who \in Users
    BY <1>2, <1>11 DEF GetUser, InFlight
  <2>2. CASE Fail(r)
    BY <1>3, <2>2
  <2>3. CASE ~Fail(r)
    <3> DEFINE row == user[req[r].who]
    <3>1. row # Gone /\ row.active /\ row.staff /\ Authenticate(r, row)
      BY <1>11, <2>3 DEF GetUser
    <3>2. row \in Row
      BY <1>1, <2>1, <3>1
    <3>3. /\ req'[r].phase = "active" /\ req'[r].who = req[r].who /\ req'[r].role = req[r].role
          /\ req'[r].superuser = row.superuser /\ req'[r].missing = req[r].missing
      BY <1>1, <3>1 DEF Authenticate, TypeOK, Request
    <3>4. /\ "active" \notin req[r].missing /\ "staff" \notin req[r].missing
          /\ row.superuser => "role" \notin req[r].missing
      BY <1>1, <2>1, <3>1, <3>2, LacksOf DEF Found
    <3> QED BY <1>1, <1>11, <3>3, <3>4 DEF Found
  <2> QED BY <2>2, <2>3
<1>12. CASE r \in Logouts /\ LogoutBlacklist(r)
  BY <1>1, <1>12, ToFacts DEF LogoutBlacklist, Found
<1>13. CASE r \in Calls /\ \E a \in Tokens \cup {VoterToken}, role \in Roles : CallStart(r, a, role)
  <2>1. CASE Fail(r)
    BY <1>3, <2>1
  <2>2. CASE ~Fail(r)
    BY <1>1, <1>13, <2>2 DEF CallStart, Begin, TypeOK, Found
  <2> QED BY <2>1, <2>2
<1>14. CASE r \in Calls /\ HasPermission(r)
  <2>1. req[r].who \in Users
    BY <1>2, <1>14 DEF HasPermission, InFlight
  <2>2. UserHasRole(r) => "role" \notin req[r].missing
    BY <1>1, <1>14, <2>1, LacksOf DEF UserHasRole, Found, HasPermission
  <2> QED BY <1>1, <1>14, <2>2, ToFacts DEF HasPermission, Found
<1>15. CASE r \in Calls /\ AuditDenial(r)
  BY <1>3, <1>15 DEF AuditDenial
<1>16. CASE Answer(r) \/ Lose(r)
  BY <1>3, <1>16 DEF Answer, Lose
<1> QED BY <1>4, <1>5, <1>6, <1>7, <1>8, <1>9, <1>10, <1>11, <1>12, <1>13, <1>14, <1>15, <1>16 DEF StepOf

LEMMA MissingStep == TypeOK /\ Working /\ MissingInv /\ [Next]_vars => MissingInv'
<1> SUFFICES ASSUME TypeOK, Working, MissingInv, [Next]_vars PROVE MissingInv'
  OBVIOUS
<1>1. ASSUME NEW r \in Requests, StepOf(r) PROVE MissingInv'
  <2>1. Found(r)'
    BY <1>1, FoundStep DEF MissingInv
  <2>2. ASSUME NEW q \in Requests \ {r} PROVE Found(q)'
    <3>1. req'[q] = req[q] /\ user' = user
      BY <1>1, StepFrame
    <3> QED BY <3>1 DEF MissingInv, Found, Lacks
  <2> QED BY <2>1, <2>2 DEF MissingInv
<1>2. ASSUME NEW u \in Users, NEW row \in Forms, SaveUser(u, row) PROVE MissingInv'
  <2> SUFFICES ASSUME NEW r \in Requests PROVE Found(r)'
    BY DEF MissingInv
  <2>1. /\ req'[r].phase = req[r].phase /\ req'[r].who = req[r].who /\ req'[r].role = req[r].role
        /\ req'[r].staff = req[r].staff /\ req'[r].superuser = req[r].superuser
        /\ req'[r].missing = IF req[r].who = u THEN req[r].missing \cap Lacks(row, req[r].role)
                             ELSE req[r].missing
        /\ user' = [user EXCEPT ![u] = row]
    BY <1>2, SaveFrame
  <2>2. Found(r) /\ req[r].who \in Users \cup {Nobody}
    BY DEF MissingInv, TypeOK, Request
  <2>3. req'[r].who # Nobody => req'[r].missing \subseteq Lacks(user'[req'[r].who], req'[r].role)
    BY <2>1, <2>2 DEF Found, TypeOK, Lacks
  <2> QED BY <2>1, <2>2, <2>3 DEF Found, Lacks
<1>3. ASSUME NEW u \in Users, Delete(u) PROVE MissingInv'
  <2> SUFFICES ASSUME NEW r \in Requests PROVE Found(r)'
    BY DEF MissingInv
  <2>1. /\ Found(r) /\ req[r] \in Request /\ req' = req
        /\ user' = user \/ user' = [user EXCEPT ![u] = Gone]
    BY <1>3, DeleteFrame DEF MissingInv, TypeOK
  <2>2. req[r].who # Nobody => req[r].missing \subseteq Lacks(user'[req[r].who], req[r].role)
    BY <2>1 DEF Found, Lacks, TypeOK, Request
  <2> QED BY <2>1, <2>2 DEF Found, Lacks
<1>4. CASE UNCHANGED vars
  BY <1>4 DEF vars, MissingInv, Found, Lacks
<1> QED BY <1>1, <1>2, <1>3, <1>4, Steps

\* Nobody obtains a token, a rotation, a logout or an answer who has lacked what it takes
\* ever since the request came in, whatever the user forms save and delete meanwhile.
THEOREM NothingIsMissing == Spec => []NothingMissing
<1>1. Init => MissingInv
  BY DEF Init, MissingInv, Found, Idle
<1>2. TypeOK /\ MissingInv => NothingMissing
  BY SessionAssumption DEF MissingInv, Found, NothingMissing, Required, Requests, TypeOK, Request, Needs
<1> QED BY <1>1, <1>2, InitTypes, NextTypes, MissingStep, PTL DEF Spec

----------------------------------------------------------------------------
\* Only the user form changes what an account may do: a login that stamps the last login of
\* an account that was deactivated meanwhile does not reactivate it.
THEOREM AccountsChangeByForm == Spec => OnlyFormsChangeAccounts
<1>1. TypeOK /\ Working /\ [Next]_vars =>
          [\A u \in Users : user'[u] # user[u] => saves' = saves + 1 \/ user'[u] = Gone]_vars
  <2> SUFFICES ASSUME TypeOK, Working, [Next]_vars, NEW u \in Users, user'[u] # user[u]
               PROVE  saves' = saves + 1 \/ user'[u] = Gone
    BY DEF vars
  <2>1. ASSUME NEW r \in Requests, StepOf(r) PROVE FALSE
    BY <2>1, StepFrame
  <2>2. ASSUME NEW v \in Users, Delete(v) PROVE user'[u] = Gone
    BY <2>2, DeleteFrame DEF TypeOK
  <2>3. CASE UNCHANGED vars
    BY <2>3 DEF vars
  <2> QED BY <2>1, <2>2, <2>3, Steps DEF SaveUser
<1> QED BY <1>1, InitTypes, NextTypes, PTL DEF Spec, OnlyFormsChangeAccounts
=============================================================================
