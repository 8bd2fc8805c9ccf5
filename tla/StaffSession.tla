----------------------------- MODULE StaffSession -----------------------------
(***************************************************************************)
(* Staff accounts (accounts): login, refresh with rotation, logout, and the *)
(* role check of the staff API, one step per statement of a request.  The   *)
(* database runs in autocommit, so requests, the admin's user form and the  *)
(* deletion of accounts interleave between any two statements.              *)
(*                                                                         *)
(* A login or a refresh hands out an access token and a refresh token; both *)
(* are named by the request that obtained them.  A token that has expired   *)
(* is refused where it is verified, which may happen at any time.           *)
(***************************************************************************)
EXTENDS Integers, FiniteSets

CONSTANTS
    Users,
    Logins, Refreshes, Logouts,    \* requests to /auth/token/, .../refresh/, .../logout/
    Calls,                         \* requests to an endpoint that requires a role
    Roles,
    VoterToken,                    \* the bearer token of a voter
    Nobody, NoToken,
    Gone,                          \* the row of a deleted user
    Forms,                         \* the rows that the user form submits
    Workers,                       \* bound: requests served at a time
    MaxSaves                       \* bound: how often the user form is saved

Row == [active : BOOLEAN, staff : BOOLEAN, superuser : BOOLEAN, roles : SUBSET Roles]

ASSUME SessionAssumption ==
    /\ Forms \subseteq Row
    /\ Logins \cap Refreshes = {} /\ Logins \cap Logouts = {} /\ Logins \cap Calls = {}
    /\ Refreshes \cap Logouts = {} /\ Refreshes \cap Calls = {} /\ Logouts \cap Calls = {}
    /\ Nobody \notin Users /\ Gone \notin Row
    /\ {NoToken, VoterToken} \cap (Logins \cup Refreshes) = {} /\ NoToken # VoterToken
    /\ Workers \in Nat /\ MaxSaves \in Nat

Requests == Logins \cup Refreshes \cup Logouts \cup Calls
Tokens == Logins \cup Refreshes

VARIABLES
    user,         \* rows of User
    owner,        \* per token: the user it was made out to, once a client has it
    blacklist,    \* tokens with a BlacklistedToken row
    log,          \* audit entries about staff: action and actor
    req,          \* per request: how far it is and what it has read
    saves,        \* bound
    over,         \* history: tokens a client was told are used up (rotated or logged out)
    deletion      \* per user: how far a deletion of the account is
vars == <<user, owner, blacklist, log, req, saves, over, deletion>>

Needs == {"active", "staff", "role"}
Actions == {"STAFF_LOGIN", "STAFF_LOGIN_FAILED", "PERMISSION_DENIED"}

Ended == {"ok", "failed"}    \* failed: refused, or lost with its worker or on the way back
InFlight == {"rejected", "authenticated", "stamped", "sent", "checked", "active", "denied", "granted"}

Phases == {"idle"} \cup InFlight \cup Ended

Request ==
    [phase : Phases,
     who : Users \cup {Nobody},
     token : Tokens \cup {NoToken},
     role : Roles \cup {Nobody},
     staff : BOOLEAN, superuser : BOOLEAN,    \* read by the login, or of request.user
     missing : SUBSET Needs,                  \* history: lacked ever since the request began
     late : BOOLEAN]                          \* history: began with a token that was over

TypeOK ==
    /\ user \in [Users -> Row \cup {Gone}]
    /\ owner \in [Tokens -> Users \cup {Nobody}]
    /\ blacklist \subseteq Tokens
    /\ log \subseteq [action : Actions, actor : Users \cup {Nobody}]
    /\ req \in [Requests -> Request]
    /\ saves \in 0 .. MaxSaves
    /\ over \subseteq Tokens
    /\ deletion \in [Users -> {"none", "looked", "deleted"}]

Idle == [phase |-> "idle", who |-> Nobody, token |-> NoToken, role |-> Nobody,
         staff |-> FALSE, superuser |-> FALSE, missing |-> {}, late |-> FALSE]

Init ==
    /\ user \in [Users -> {row \in Forms : row.active /\ row.staff}]
    /\ owner = [t \in Tokens |-> Nobody]
    /\ blacklist = {} /\ log = {} /\ over = {} /\ saves = 0
    /\ req = [r \in Requests |-> Idle]
    /\ deletion = [u \in Users |-> "none"]

\* What a user with this row lacks for an endpoint that requires the role.
Lacks(row, role) ==
    IF row = Gone THEN Needs
    ELSE {n \in Needs : \/ n = "active" /\ ~row.active
                        \/ n = "staff" /\ ~row.staff
                        \/ n = "role" /\ ~row.superuser /\ role \notin row.roles}

To(r, phase) == req' = [req EXCEPT ![r].phase = phase]

\* Request r begins to work for u.
Begin(r, phase, u, t, role, staff) ==
    req' = [req EXCEPT ![r] =
        [phase |-> phase, who |-> u, token |-> t, role |-> role, staff |-> staff, superuser |-> FALSE,
         missing |-> Lacks(user[u], role), late |-> t \in over]]

\* A request that has ended forgets what it read.
End(r, phase) ==
    req' = [req EXCEPT ![r] =
        [phase |-> phase, who |-> req[r].who, token |-> req[r].token, role |-> Nobody,
         staff |-> FALSE, superuser |-> FALSE, missing |-> {}, late |-> req[r].late]]

Fail(r) == End(r, "failed")

\* A worker is free to take a request.
Waiting(r) ==
    /\ req[r].phase = "idle"
    /\ Cardinality({q \in Requests : req[q].phase \in InFlight}) < Workers

\* The DELETE of the row is not committed: whoever writes the row or a row that refers to it
\* waits, and whoever reads sees it still.
RowGoing(u) == u \in Users /\ deletion[u] = "deleted"

----------------------------------------------------------------------------
(* Login: StaffTokenObtainPairSerializer.validate. *)

\* super().validate: the password was right and the account is active, or neither the
\* caller nor the audit log learns which was wrong.
LoginRead(l, u) ==
    /\ Waiting(l)
    /\ \/ /\ user[u] # Gone /\ user[u].active
          /\ Begin(l, "authenticated", u, NoToken, Nobody, user[u].staff)
       \/ To(l, "rejected")
    /\ UNCHANGED <<user, owner, blacklist, log, saves, over, deletion>>

\* Mutant: UPDATE_LAST_LOGIN saves every column of the row that authenticate() read.
LoginStampFullSave(l) ==
    /\ req[l].phase = "authenticated" /\ ~RowGoing(req[l].who)
    /\ IF user[req[l].who] = Gone
       THEN Fail(l) /\ UNCHANGED user
       ELSE /\ To(l, "stamped")
            /\ user' = [user EXCEPT ![req[l].who].active = TRUE, ![req[l].who].staff = req[l].staff]
    /\ UNCHANGED <<owner, blacklist, log, saves, over, deletion>>

\* The outstanding token and last_login, by UPDATE of that column: neither works on a
\* deleted user.
LoginStamp(l) ==
    /\ req[l].phase = "authenticated" /\ ~RowGoing(req[l].who)
    /\ IF user[req[l].who] = Gone THEN Fail(l) ELSE To(l, "stamped")
    /\ UNCHANGED <<user, owner, blacklist, log, saves, over, deletion>>

\* Mutant: the arguments swapped.
EntrySwapped(action, actor) == [action |-> actor, actor |-> action]

Entry(action, actor) == [action |-> action, actor |-> actor]

\* An entry cannot name a user who is gone (the foreign key).
Audit(r, action) ==
    /\ ~RowGoing(req[r].who)
    /\ log' = IF req[r].who # Nobody /\ user[req[r].who] = Gone
              THEN log ELSE log \cup {Entry(action, req[r].who)}

LoginAudit(l) ==
    /\ \/ /\ \/ req[l].phase = "rejected"
             \/ req[l].phase = "stamped" /\ ~req[l].staff
          /\ Audit(l, "STAFF_LOGIN_FAILED")
          /\ Fail(l)
       \/ /\ req[l].phase = "stamped" /\ req[l].staff
          /\ Audit(l, "STAFF_LOGIN")
          /\ IF user[req[l].who] = Gone THEN Fail(l) ELSE To(l, "granted")
    /\ UNCHANGED <<user, owner, blacklist, saves, over, deletion>>

----------------------------------------------------------------------------
(* Refresh: StaffTokenRefreshView.post. *)

RefreshStart(r, t) ==
    /\ Waiting(r) /\ owner[t] # Nobody
    /\ Begin(r, "sent", owner[t], t, Nobody, FALSE)
    /\ UNCHANGED <<user, owner, blacklist, log, saves, over, deletion>>

\* Verifying the cookie: expired or blacklisted tokens are refused.
RefreshCheck(r) ==
    /\ req[r].phase = "sent"
    /\ \/ req[r].token \notin blacklist /\ To(r, "checked")
       \/ Fail(r)
    /\ UNCHANGED <<user, owner, blacklist, log, saves, over, deletion>>

RefreshUser(r) ==
    /\ req[r].phase = "checked"
    /\ IF user[req[r].who] # Gone /\ user[req[r].who].active THEN To(r, "active") ELSE Fail(r)
    /\ UNCHANGED <<user, owner, blacklist, log, saves, over, deletion>>

\* Mutant: BLACKLIST_AFTER_ROTATION switched off.
RotateOnly(r) ==
    /\ req[r].phase = "active"
    /\ To(r, "granted")
    /\ UNCHANGED <<user, owner, blacklist, log, saves, over, deletion>>

\* The old token is blacklisted (again, if a concurrent refresh was first) and a new one made.
Rotate(r) ==
    /\ req[r].phase = "active"
    /\ blacklist' = blacklist \cup {req[r].token}
    /\ To(r, "granted")
    /\ UNCHANGED <<user, owner, log, saves, over, deletion>>

----------------------------------------------------------------------------
(* Logout: LogoutView.post, called with an access token a and a cookie t. *)

LogoutStart(o, a, t) ==
    /\ Waiting(o) /\ owner[a] # Nobody
    /\ t # NoToken => owner[t] # Nobody
    /\ Begin(o, "sent", owner[a], t, Nobody, FALSE)
    /\ UNCHANGED <<user, owner, blacklist, log, saves, over, deletion>>

Owns(o) == req[o].token # NoToken /\ owner[req[o].token] = req[o].who

\* A cookie that has expired is passed over by the code and blacklisted here: refused for
\* ever either way.
LogoutBlacklist(o) ==
    /\ req[o].phase = "active"
    /\ blacklist' = IF Owns(o) THEN blacklist \cup {req[o].token} ELSE blacklist
    /\ To(o, "granted")
    /\ UNCHANGED <<user, owner, log, saves, over, deletion>>

----------------------------------------------------------------------------
(* The role check of an endpoint, RolePermission.has_permission. *)

\* A voter token is no staff token: the caller is anonymous, or a voter, and refused.
CallStart(c, a, role) ==
    /\ Waiting(c)
    /\ \/ a = VoterToken /\ Fail(c)
       \/ a # VoterToken /\ owner[a] # Nobody /\ Begin(c, "sent", owner[a], NoToken, role, FALSE)
    /\ UNCHANGED <<user, owner, blacklist, log, saves, over, deletion>>

\* request.user becomes a copy of this row.
Authenticate(r, row) ==
    req' = [req EXCEPT ![r].phase = "active", ![r].staff = row.staff, ![r].superuser = row.superuser]

\* StaffJWTAuthentication.get_user, for logout too: an active staff user, read now.
GetUser(r) ==
    /\ req[r].phase = "sent"
    /\ LET row == user[req[r].who] IN
       \/ /\ row # Gone /\ row.active /\ row.staff
          /\ Authenticate(r, row)
       \/ Fail(r)
    /\ UNCHANGED <<user, owner, blacklist, log, saves, over, deletion>>

\* Mutant: being staff passes every role check.
UserHasRoleIfStaff(c) == req[c].staff

\* The copy that authenticated says whether it is a superuser; the groups are read now.
UserHasRole(c) ==
    /\ req[c].staff
    /\ \/ req[c].superuser
       \/ user[req[c].who] # Gone /\ req[c].role \in user[req[c].who].roles

HasPermission(c) ==
    /\ req[c].phase = "active"
    /\ To(c, IF UserHasRole(c) THEN "granted" ELSE "denied")
    /\ UNCHANGED <<user, owner, blacklist, log, saves, over, deletion>>

AuditDenial(c) ==
    /\ req[c].phase = "denied"
    /\ Audit(c, "PERMISSION_DENIED")
    /\ Fail(c)
    /\ UNCHANGED <<user, owner, blacklist, saves, over, deletion>>

----------------------------------------------------------------------------
\* The answer reaches the client, which from now on has the new tokens.
Answer(r) ==
    /\ req[r].phase = "granted"
    /\ End(r, "ok")
    /\ owner' = IF r \in Tokens THEN [owner EXCEPT ![r] = req[r].who] ELSE owner
    /\ over' = IF r \in Refreshes \/ (r \in Logouts /\ Owns(r)) THEN over \cup {req[r].token} ELSE over
    /\ UNCHANGED <<user, blacklist, log, saves, deletion>>

\* The worker dies, or the answer is lost.
Lose(r) ==
    /\ req[r].phase \in InFlight
    /\ Fail(r)
    /\ UNCHANGED <<user, owner, blacklist, log, saves, over, deletion>>

\* What the requests of u under way have lacked without a break.
StillMissing(u, row) ==
    [r \in Requests |->
        IF req[r].who = u THEN [req[r] EXCEPT !.missing = @ \cap Lacks(row, req[r].role)] ELSE req[r]]

\* StaffUserAdmin: the form overwrites every field with what was submitted.
SaveUser(u, row) ==
    /\ saves < MaxSaves /\ user[u] # Gone /\ ~RowGoing(u)
    /\ user' = [user EXCEPT ![u] = row]
    /\ req' = StillMissing(u, row)
    /\ saves' = saves + 1
    /\ UNCHANGED <<owner, blacklist, log, over, deletion>>

\* The deletion of an account looks for audit entries that name the user (on_delete=PROTECT):
\* with any there is no deletion.
CollectUser(u) ==
    /\ deletion[u] = "none" /\ user[u] # Gone
    /\ \A e \in log : e.actor # u
    /\ deletion' = [deletion EXCEPT ![u] = "looked"]
    /\ UNCHANGED <<user, owner, blacklist, log, req, saves, over>>

DeleteUser(u) ==
    /\ deletion[u] = "looked"
    /\ deletion' = [deletion EXCEPT ![u] = "deleted"]
    /\ UNCHANGED <<user, owner, blacklist, log, req, saves, over>>

\* Mutant: actor_user without a key in the database (db_constraint=False).
DeleteCommitUnkeyed(u) ==
    /\ deletion[u] = "deleted"
    /\ user' = [user EXCEPT ![u] = Gone]
    /\ deletion' = [deletion EXCEPT ![u] = "none"]
    /\ UNCHANGED <<owner, blacklist, log, req, saves, over>>

\* COMMIT checks the deferred key of the audit log: an entry written since the look keeps the
\* account.
DeleteCommit(u) ==
    /\ deletion[u] = "deleted"
    /\ user' = IF \A e \in log : e.actor # u THEN [user EXCEPT ![u] = Gone] ELSE user
    /\ deletion' = [deletion EXCEPT ![u] = "none"]
    /\ UNCHANGED <<owner, blacklist, log, req, saves, over>>

\* The admin leaves it at the look, or the worker dies: nothing is deleted.
DeleteAbandoned(u) ==
    /\ deletion[u] # "none"
    /\ deletion' = [deletion EXCEPT ![u] = "none"]
    /\ UNCHANGED <<user, owner, blacklist, log, req, saves, over>>

Delete(u) == CollectUser(u) \/ DeleteUser(u) \/ DeleteCommit(u) \/ DeleteAbandoned(u)

Login(l) == (\E u \in Users : LoginRead(l, u)) \/ LoginStamp(l) \/ LoginAudit(l)
Refresh(r) == (\E t \in Tokens : RefreshStart(r, t)) \/ RefreshCheck(r) \/ RefreshUser(r) \/ Rotate(r)
Logout(o) ==
    \/ \E a \in Tokens, t \in Tokens \cup {NoToken} : LogoutStart(o, a, t)
    \/ GetUser(o) \/ LogoutBlacklist(o)
Call(c) ==
    \/ \E a \in Tokens \cup {VoterToken}, role \in Roles : CallStart(c, a, role)
    \/ GetUser(c) \/ HasPermission(c) \/ AuditDenial(c)

Next ==
    \/ \E l \in Logins : Login(l)
    \/ \E r \in Refreshes : Refresh(r)
    \/ \E o \in Logouts : Logout(o)
    \/ \E c \in Calls : Call(c)
    \/ \E r \in Requests : Answer(r) \/ Lose(r)
    \/ \E u \in Users : Delete(u) \/ \E row \in Forms : SaveUser(u, row)

Spec == Init /\ [][Next]_vars

----------------------------------------------------------------------------
Required(r) ==
    CASE r \in Refreshes -> {"active"}
      [] r \in Calls -> Needs
      [] OTHER -> {"active", "staff"}

\* Nobody obtains a token, a rotation, a logout or an answer who has lacked what it takes
\* (an active account, staff, the role) ever since the request came in, however accounts
\* are edited meanwhile.
NothingMissing ==
    \A r \in Requests : req[r].phase \in {"granted", "ok"} => req[r].missing \cap Required(r) = {}

\* A refresh that begins after its token was reported rotated or logged out gets nothing:
\* a token is used twice only by refreshes that overlap.
OverIsOver == \A r \in Refreshes : req[r].late => req[r].phase \notin {"granted", "ok"}

\* A session is ended by a refresh that presents its token or by its own user's logout.
EndedForCause ==
    \A t \in blacklist :
        \/ \E r \in Refreshes : req[r].token = t
        \/ \E o \in Logouts : req[o].token = t /\ req[o].who = owner[t]

\* Whoever holds a token has an account and a login in the audit log, whatever was deleted.
HoldersAreKnown ==
    \A t \in Tokens : owner[t] # Nobody =>
        user[owner[t]] # Gone /\ Entry("STAFF_LOGIN", owner[t]) \in log

\* Only the user form changes what an account may do: a login that raced it does not undo it.
OnlyFormsChangeAccounts ==
    [][\A u \in Users : user'[u] # user[u] => saves' = saves + 1 \/ user'[u] = Gone]_vars
=============================================================================
