# A TLA+ verification of the KW Awards voting platform

The program is a Django REST backend (`backend/voting_platform`) on PostgreSQL and a
shared cache: the public nominates and votes by phone number, moderators review, event
admins run the event. The interesting state lives in the database, is changed by any
number of worker processes at READ COMMITTED, and is copied into their memory between
statements. This directory models those services at the granularity at which Postgres
and the cache interleave them, checks the models with TLC and proves the central
theorems with TLAPS.

Paths below are relative to `backend/voting_platform/`.

## 1. Inventory

**Events** (`events/`). State: one row per event with a status (`draft`,
`nominations_open`, `voting_open`, `closed`, `results_published`), two windows and a
publication time; categories of an event; awards of a category with `is_active`.
Operations: `change_status` (row lock, transition table, audit), create/PATCH/delete and
the Django admin forms. Hard: PATCH reads without a lock and saves *every* column of its
copy, and inserts the row again if it was deleted meanwhile; a delete looks for votes before
its transaction begins; every other service reads the event and acts on the copy. Correct
when the row satisfies its constraints, the status moves only along the table and with an
audit entry, and no vote loses its award or nomination to a delete.

**Voting** (`voting/services.py`, `voting/models.py`, `voting/authentication.py`).
State: `voting_vote`, append-only, with a partial unique index on (voter, award) of the
active free votes; the audit log. Operations: `cast_free_vote`, `void_vote`. There is no
check before the insert: the index decides, and makes inserts wait for uncommitted
inserts and voids. Correct when there is at most one active vote per slot, every row is
audited in the same transaction, 409 is never spurious, nothing is removed, and closing
the event or blocking the voter stops all casts but those already under way.

**One-time codes** (`voting/otp.py`). State: the voter row and its challenges.
Operations: `request_otp` (expires the live challenges, inserts a new one),
`verify_otp` (locks the newest live one, counts, compares, consumes), the admin form of
the voter, and `purge_unverified_voters`, which deletes a voter that never logged in with
its challenges. Hard: statements that lock row after row, wait for each other (in a circle
even) and re-evaluate their conditions, rows inserted meanwhile that they do not see, copies of
the voter read before the transaction, foreign keys that are checked at COMMIT only. Correct
when every answered guess is counted, a code logs in once, old codes die, nobody who logged in
is purged, everyone is answered, and a search of the audit log by number finds every entry
about it.

**Nominations** (`nominations/`). State: nominations with a status. Operations:
submission (reads the award and event, checks the window, looks for a duplicate,
inserts), `review_nomination` (row lock), the admin change form, and the form of a nominee,
which renames it. Correct when each is decided once, no status but pending is there without its
decision, and closing nominations stops submissions that have not looked.

**Admission of an OTP request: throttles and SMS budget** (`common/throttles.py`,
`common/sms_budget.py`, `common/phone.py`, the view of `request_otp`). State: counters in the
cache under keys that expire. Operations: `cache.add`, `cache.incr`, and `cache.set` when the
key vanished in between, for the throttle of the phone number and then for the day's budget,
with the number, the CAPTCHA and the block looked at between them. Correct when a number gets
no more texts in a window than its rate however it is spelled, a day's budget is not overspent,
and a share of it is taken only for a text.

**Results** (`voting/results.py`). No state: tallies are sums over the vote table. A
vote carries the event and award it was cast in, the catalogue can be edited later, also
between the SELECTs of one `event_results`. Correct when the tally shown for a nomination is
the sum of its non-voided votes, and an award nothing happened to is shown exactly.

**Staff accounts** (`accounts/`). State: users with their flags and groups, refresh tokens
and the blacklist. Operations: login (which stamps `last_login`), refresh with rotation,
logout, the role check of every admin endpoint, the user form, deletion of an account. Hard:
everything runs in autocommit, so each statement reads another state; answers are lost and
refreshes retried; `request.user` is a copy, its groups are read later. Correct when nobody
obtains anything who lacked the right to it all along, a session that was reported over stays
over, and whoever holds a token is on record.

**Audit** (`audit/`). An append-only table that every service writes, nearly always in its own
transaction; its foreign keys protect the users and voters it names. It has no module of its
own: each module has the entries its service writes.

**Also there**: roles, payments (a table, no code that fills it), conversions of text, IPs and
images, SMS and CAPTCHA providers, error formatting, settings, demo data (section 8).

**Interaction.** Everybody reads the event row: casts and submissions through a join in
one SELECT, admins under a lock. A cast's foreign key share-locks the event at commit, so
it waits for `change_status`, and the award and nomination, so it waits for a delete. An OTP
request passes the throttle, then the checks, then the SMS budget; all three share the clock
but read it at different times. A login leads to a voter token; each request with it looks at
the voter row once. Results join votes with the catalogue of the moment.

## 2. Modules

| module | models | extends / instantiates |
|---|---|---|
| `Events` | event row, `change_status`, PATCH, clock | |
| `Voting` | casts, voids, vote table, index, audit, deletion of awards | extends `Events`; `B == INSTANCE Ballot` |
| `Ballot` | abstract promise of the voting service | |
| `Otp` | challenges and voter row of one phone number, the purge, what the audit log says of the number | |
| `Nominations` | submission, review, change form | extends `Events` |
| `FixedWindow` | the cache counter | |
| `Throttle`, `SmsBudget` | its two users (components without a specification of their own) | `FW == INSTANCE FixedWindow` |
| `OtpAdmission` | an OTP request from the throttle to the text message | `Phone == INSTANCE Throttle`, `Budget == INSTANCE SmsBudget` |
| `Results` | tallies, ranks, statistics | |
| `ResultsReader` | `event_results`, SELECT by SELECT | extends `Results` |
| `StaffSession` | staff accounts, tokens, role check | |
| `MC*` | instances for TLC | extend the above |
| `Events_proofs`, `Voting_proofs`, `Otp_proofs`, `Nominations_proofs`, `OtpAdmission_proofs`, `Results_proofs`, `StaffSession_proofs` | theorems | extend the module they are about (`Results_proofs`: `ResultsReader`), and `TLAPS` |
| `Counting` | lemmas: least elements, sums over finite sets, sizes of partitions | extended by three of these |

### How state and actions correspond to the code

A process is a request; its `phase` is the program counter between two statements that
other transactions can come between, and its other fields are the local variables whose
values may go stale. A transaction that has not committed keeps its effects in the
process's record (an uncommitted insert is the phase `inserted`), and COMMIT applies them
to the shared variable together with the audit entry written in the same transaction.
Locks are either a variable (`lock`, the event row), or read off the phases (`RowLocked`,
`SlotInDoubt`, `RowGoing`), or, in `Otp`, sets of rows that each transaction holds (`Holders`).
A worker may die in any phase, which undoes its transaction.

* `Events`. `SetStatusLock` is `SELECT ... FOR UPDATE`; `SetStatusCommit` the validation, the
  save of two columns and the audit entry; `SetStatusRollback` the two errors it raises and
  crashes. `audited` and `trail` are what the audit log says (the newest entry, and all).
  `EditLoad` and `EditSave` are `get_object` and `perform_update` of a PATCH (or the admin
  form), whose UPDATE waits for the lock but writes the stale copy.
* `Voting`. `Authenticate` (one SELECT of the voter), `ReadNomination` (one SELECT with
  the event), `CheckOpen` (the copy against the clock), `InsertVote` (BEGIN, INSERT: waits
  while another transaction holds the slot), `CommitCast` (audit entry, COMMIT),
  `AuditDuplicate` (after the rollback, outside a transaction). `VoidLock`, `VoidUpdate`,
  `VoidCommit` are the three statements of `void_vote` (the second subject to the
  append-only trigger). `Collect`, `Delete`, `Remove`, `RemoveFails` are a DELETE of an award:
  Django's collector looks, outside any transaction, then the rows go, then COMMIT checks the
  foreign keys of the votes there are by then (`Referenced`); the same keys at a cast's COMMIT
  are `ForeignKeysHold`, and `CommitFails` what happens if they do not. `LoadAward`,
  `SaveAward` are a PATCH of an award; `Approve`, `Revert` (the stale change form) and
  `ToggleBlocked` what else staff change. A vote's id is the request that made it.
* `Otp`. A statement that may wait is several actions: its snapshot, one for each row it
  locks, and its end. A row that another transaction holds is waited for, and the condition is
  then checked again on its newest version, and only on the rows found: `StartExpire`,
  `ExpireRow`, `InsertChallenge` and `CommitChallenge` are the transaction of `request_otp`;
  `StartLookup` and `LookAt` the SELECT FOR UPDATE of `verify_otp`, `Refuse`, `Compare` and
  `Decide` the rest of it; `PurgeSelect`, `PurgeCollect`, `PurgeStart`, `PurgeRow`, `PurgeDelete`
  the statements of the purge. UPDATE and DELETE take their rows in any order. The foreign keys
  are deferred: `VoterGone` and `StillReferenced` are what they find at COMMIT, and the key's
  look at a newer challenge waits for whoever has that row locked (`PurgeAbort`; `PurgeCommit` is
  the other outcome). `WaitsFor` reads off who waits for whom, `Deadlocked` finds a circle,
  and `BreakDeadlock` is Postgres aborting a transaction of it. A code is identified with the
  challenge it belongs to, or is `Wrong`. `AdminLoad`/`AdminSave` are the voter form, whose
  `save()` inserts the row again when its UPDATE finds none. `AuditLog` (`RequestEntries` and
  `VerifyEntries`) is derived from where the requests stand, each having written one entry when
  it ended (`LogVoterEvent` says whom it names); `FilterPhone` is the search.
* `Nominations`. `ReadAward` (`validate_award`), `Validate` (window on the copy, SELECT for
  a duplicate), `CommitNomination`; `ReviewLock`, `ReviewCommit`; `FormLoad`, `FormSave` (the
  nomination's form); `Rename` (the nominee's).
* `FixedWindow`. `ReadClock` chooses the key, then `CacheAdd`, `CacheIncr`, `CacheSet` are
  one atomic cache operation each; `Tick` lets keys expire. The two users supply the
  time to live and what happens with the count.
* `OtpAdmission`. `Arrive` (the throttle's reading of the clock), `Count` (its cache
  operations), `CheckThrottles` (its verdict, and the serializer, the strict number check and
  the CAPTCHA, which read nothing shared), `Blocked` or `ReserveStart`, `ReserveCount`,
  `Reserve` (the budget), `SendSms`, or `RequestFails`: the transaction between the budget and
  the text does not commit, and a share is spent without a text. A body is one of `Spellings`:
  a text, and the number, type and region the phone library finds in it; `GetIdent` is the
  throttle's identity.
* `StaffSession`. One action per statement: `LoginRead`, `LoginStamp`, `LoginAudit`;
  `RefreshStart`, `RefreshCheck`, `RefreshUser`, `Rotate`; `LogoutStart`, `GetUser`,
  `LogoutBlacklist`; `CallStart`, `GetUser`, `HasPermission`, `AuditDenial`. `Answer` brings
  the client its answer and `Lose` takes it away, in any phase. `SaveUser` is the user form.
  `CollectUser`, `DeleteUser` and `DeleteCommit` delete an account: the collector looks for
  protecting audit entries before the transaction, and the deferred key decides at its COMMIT
  (`DeleteAbandoned`: refused, or rolled back). A token is named by the request that obtained
  it. Two fields are history: `missing` (what the user has lacked ever since the request came
  in) and `late` (the request began after its token was reported over).
* `Results`. `ReadPath` and `Record` abstract a cast to the reading of its nomination and the
  insert; `EditAward` and `EditCategory` are PATCHes that may move things between events;
  `Approve` is a review and `Revert` a change form that saves a stale status. `EventResults`,
  `AwardTally` and `StatsVotes` are the queries.
* `ResultsReader`. `ReadTotals`, `ReadNominations`, `ReadCategories`, `ReadAwards` (once per
  category), `Respond`; between them `Elsewhere` is any step of `Results`, and `touched`
  (history) the awards it concerns.

## 3. Runs

Every run finishes within a few minutes. Bounds: each request of a set is served once
(the setters and the forms of `Events` and `Otp` may come again), the clock stops at
`MaxTime`, and `StaffSession` serves `Workers` requests at a time and saves the user form
`MaxSaves` times. Symmetry is used only where no liveness property is checked. Runs whose
system really comes to rest (all requests served) do not check deadlock.

| run | instance | properties | what it shows |
|---|---|---|---|
| `voting_slot` | 1 voter, 2 awards, 3 approved nominations, 3 casts, 2 voids, 1 deletion and PATCHes of an award | `TypeOK` `OneActiveVote` `AuditMatchesVotes` `DuplicateWasReal` `VotesKeepTheirNomination` `AppendOnly` `ImplementsBallot` | the index alone is enough, the ballot is refined, and no vote loses its award or nomination |
| `voting_drain` | 2 casts, 1 deletion, a setter, staff who approve, revert and block, clock 0..2 | `ClosingDrains` `BlockingDrains` `CastsAreAnswered` | closing and blocking stop all casts but those under way; casts that wait, in the index, for a deletion and for the event row, are answered |
| `otp_guess` | 1 request, 3 verifications, 1 admin, 1 purge, 2 attempts, clock 0..1 | `TypeOK` `EveryGuessIsCounted` `OneLoginPerCode` `LoggedInIsKept` `SearchFindsAll` | one verification more than the attempts allowed; a purge meets logins and a form that empties `verified_at`, and the log stays searchable |
| `otp_renew` | 2 requests, 1 verification, 1 purge, clock 0..1 | `ExpiredCodesAreDead` `EveryoneIsAnswered` | replaced codes; locks are taken one at a time and in any order, circles of waits occur, and everyone is answered because the database breaks them |
| `nominations` | 2 submissions with 2 names, 2 reviews, 1 form, renames, awards on and off; 2 setters and 1 editor of the event, clock 0..1 | `TypeOK` `ReviewedExactlyOnce` `StatusWasReviewed` `DuplicatesOnlyFromRaces` `SubmissionsDrain` `PublicationConsistent` `StatusWasDecided` `StatusFollowsTransitions` | racing moderators, stale forms, opening and closing meanwhile; racing admins cannot apply conflicting transitions, and what a stale copy of the event brings back was once decided |
| `otp_admission` | 3 requests; a number in two spellings, and a blank body; rate 1 per tick, budget 2 per day of 2 ticks, clock 0..2 | `TypeOK` `OneWarningPerDay` `TextsPerWindow` `TextsPerDay` `ExhaustedForCause` | window and day boundaries and expiring keys in the middle of a count; spellings share a count; only texts use the budget |
| `staff_session` | 1 account, 2 logins, 2 refreshes, 1 logout, 1 call, 2 at a time, 2 saves of the form with 5 contents, deletion | `TypeOK` `NothingMissing` `OverIsOver` `HoldersAreKnown` `OnlyFormsChangeAccounts` | copies of the user that go stale, retried and concurrent refreshes, lost answers, deletions under a login |
| `results` | 2 votes, 3 nominations of 2 awards, 2 categories, 2 events; awards and categories move, nominations are approved and reverted; a reader of one event | `ReaderTypeOK` `AwardTallyComplete` `ResultsMatchStats` `RanksAreCompetition` `UntouchedIsExact` | what survives any edit of the catalogue, and what a payload read in pieces still gets right |

The bounds are the smallest at which the races exist: two parties for each race, a third to
find the slot taken after the race is over (a re-cast after a void, a guess beyond the last
attempt), two ticks so that a window can open and close. Time is only ever compared, so
ticks stand for any durations with the same order. `voting_slot` has the races of votes, voids and
deletions in an event that stands still; in `voting_drain` status, clock, approvals and blocks
move and nobody voids (`InitiallyApproved`, `Patches` and `Attrs` choose). `otp_renew` leaves out
the voter form, which holds no lock between its statements.
Two runs have a CONSTRAINT, where the product of two parts would be too large.
`PatchesKeepApart` (`nominations`): submissions begin only where no PATCH is under way or has
brought back an old status or moved the windows, so that PATCHes race `change_status` and nothing
else; a submission reads the event once and saves nothing of it, and that PATCHes do not disturb
`SubmissionsDrain` and `ClosingDrains` is proved (`NominationsDrain`, `VotingDrainsAfterClosing`:
any editors and windows). `OneVoteWhileRead` (`results`): while a payload is read there is one vote
at most; sums are taken by one SELECT, so a second vote adds nothing to what a reader may mix up,
and `UntouchedAwardsAreExact` is proved for any. The five forms of `staff_session` are
a full account, one without each of the three things a call needs, and a superuser; two
saves can take something away and give it back. Requests of different accounts meet only
where a logout carries another user's cookie, which the theorems cover
(`SessionsEndForCause`). In `otp_admission` the limits are the smallest that three requests
can exceed. The reader of `results` stands still once it has its payload, for nothing later can
change it.

### Disagreements found

Each of these runs checks one statement the repository makes and finds a behaviour of the
code that contradicts it.

| run | refuted | the behaviour |
|---|---|---|
| `events_lost_update` | `StatusIsAudited` ("`status` is read-only here") | PATCH loads; the status changes; PATCH saves the old status back |
| `otp_crash` | `CrashGrantsNoRetry` ("Count the attempt first so a crash or a wrong code can never grant a free retry") | the count is written in the transaction that compares the codes: a worker that dies before COMMIT takes it along, and the code is compared once more than `OTP_MAX_ATTEMPTS` |
| `nomination_form_race` | `StatusOnlyByReview` ("Status can only change through the approve/reject actions") | the form saves the pending status it loaded over a decision |
| `results_moved_award` | `TallyIsSumOfVotes` ("A tally is SUM(quantity) over non-voided votes") | an award moved to another event is listed there without its votes |

For each the weaker property that does hold is checked by a passing run:
`StatusFollowsTransitions` and `StatusWasDecided` (a PATCH restores a status that was decided
before, and no transaction of `change_status` builds on anything else); `EveryGuessIsCounted`
(what was answered is counted, and with what is being compared stays within the limit);
`ReviewedExactlyOnce` for nominations no form has saved, and `StatusWasReviewed` for all (a
form makes a nomination pending, or what it was decided to be, never anything else);
`AwardTallyComplete`.

Other races are behaviours of the models that the properties are stated around. A cast that
read the open event commits after an admin has closed it: `ClosingDrains` says that no other
cast does, though `tests/test_voting.py:264` says that closing "stops votes immediately". Two
requests for one number leave two live codes when both run their UPDATE before either INSERT
commits: `ExpiredCodesAreDead` speaks of the codes an UPDATE found. Two submissions of one name
both stand when both look before either inserts: `DuplicatesOnlyFromRaces`. The form of a
nominee looks for no duplicate, so that a renamed nominee may stand next to a nomination of
that name without any race; the property leaves renamed ones out. A nomination that a stale
form has put back to pending is no longer listed, while `event_stats` goes on counting its
votes: `ResultsMatchStats` says that the two differ by exactly the votes of such nominations
and of awards now inactive or elsewhere. A voter form loaded before the first login and saved
after it empties `verified_at`, which a login that holds an older copy of the voter leaves
empty, so that its token is refused. The purge does not look at `is_blocked`: a blocked number
that never logged in is deleted, and its next request makes a voter that is not blocked. A
PATCH that loaded an award before its deletion brings the award back without its nominations,
and a vote committed between the look of a delete and its COMMIT turns the intended 409 into an
IntegrityError (`VotesKeepTheirNomination` holds all the same). An award that moves between two
SELECTs of `event_results` may be listed twice or not at all: `UntouchedIsExact` speaks of the
others. Two concurrent refreshes of one cookie both succeed: `OverIsOver` speaks of a refresh
that begins after the other was answered.

## 4. Fairness

Safety needs none. `EventsFairness`: a `change_status` transaction that began ends: it commits,
rolls back, or its worker dies and Postgres rolls it back. In `Voting`, a cast or void that is
enabled takes its next step (a worker runs its request to the end), weakly; COMMIT
(`CommitCast` or `CommitFails`) is strongly fair, because the event row can be taken again and
again by new admins while a commit waits, and Postgres serves the queue of a row lock in order.
A delete that began ends (`Remove` or `RemoveFails`). In `Otp` the same holds of requests,
verifications and purges, and `BreakDeadlock` is weakly fair: Postgres looks for circles of
waits after `deadlock_timeout` and aborts one transaction of each (the repository sets no
`lock_timeout`, so nothing else ends them). In `Nominations` it holds of reviews.
`OtpAdmission`, `StaffSession` and `ResultsReader` have safety properties only. Nobody is
assumed to *start* anything: no request, PATCH, toggle or tick is fair.

## 5. What is proved

Every safety invariant and action property of the runs, refinement included, for every value
of the constants that satisfies the ASSUMEs of the modules. The requests may be any number,
and `MaxTime` any number; where a property counts (`Otp`, `OtpAdmission`, `Results`) the
requests, votes and catalogue are finite sets. The other assumptions say that limits, rates
and durations are positive, that the values standing for "no row" are no rows, and that a
reader asks for an event there is. No theorem assumes fairness.

Each module has one inductive invariant, which TLC checked on the module's run before it was
proved, and one lemma per action or per row of a table that an action writes.

**Events.** `EventsTypeCorrect`, `EventIsConsistent`, `LockedRowStaysCurrent`: `EventsInv` adds
to types and `PublicationConsistent` that the lock is held exactly by the setter in phase
`locked`, that its copy is the committed row, and that the copies of editors are consistent
rows. The last is what lets a stale full-row save preserve the invariant: status and
publication time are saved from the same copy. `StatusIsGoverned`, for any editors: the
validated copy is the committed row. `StatusesWereDecided`, for any editors: the copies of
PATCHes and of setters carry statuses of `trail` too, so that no save brings in another.

**Voting.** `TypeCorrect`, `OneVotePerVoterPerAward`, `VotesAreAudited`, `VotesAreAppendOnly`:
`OneActiveVote` is not inductive, so `VotingInv` adds that no two uncommitted inserts are in one
slot, that an uncommitted insert's slot holds no active vote (an uncommitted void still counts
as active), that a void under way targets an existing active vote and no two voids target
one, and that the audit entries of casts and voids are exactly those of finished requests.
* `VotesKeepTheirRows`: only `Remove` takes rows away, and none that a committed vote names; a
  cast commits only on rows that are there, and its vote's award is `AwardOf` its nomination.
* `DuplicatesAreReal`: an insert fails only on an active vote, which may be voided at once but
  keeps its slot for ever (`SlotsAreKept`), and the columns of a cast under way are fixed.
* `VotingDrainsAfterClosing`, `BlockingTakesEffect`: each step is either outside the drained
  phases or leads from one of them to the next; entering them takes a read of an open event,
  or of a voter who is not blocked.
* `VotingImplementsBallot`: initial states map to initial states; `CommitCast` maps to `Choose`
  (its slot is empty), `VoidCommit` to `Withdraw` (its target is the only active vote of its
  slot), every other step to a stutter.

**One-time codes.** `OtpInv` has the foreign key (a challenge has a sent request and a voter),
what a row lock guarantees while it is held (`LockedRowsHold`: the challenge is still live and
still the voter's), that a row has one holder (`OneHolder`, over the sets of locked rows, from
which `LocksExclude` follows), and what a login leaves behind.
* `GuessesAreCounted`: under the lock the count read is the count written, so answered
  comparisons are numbered, and the one being made, which has the row, is the next (none can be
  made without an attempt left). How many there are is the cardinality of a set that grows by
  one (`FS_AddElement`). Comparisons lost with their worker are outside it (`otp_crash`).
* `CodesLogInOnce`: a challenge is consumed under the lock and not live again.
* `RenewalKillsCodes`: what a sent request expired stays expired, by its clock reading.
* `PurgeSparesLogins`: the login's challenge or its audit entry still refers to the voter when
  the purge commits (`StillReferenced`). `SearchIsComplete` follows: an entry names a voter only
  if it was seen verified, and every verified copy is of a voter that has logged in
  (`VerifiedHaveLoggedIn`, which stale forms preserve).

**Nominations.** `NominationsInv`: locks are exclusive and on pending rows, a form's copy differs
from its row in the status at most, and the nominations a submission saw of its own name were
rejected (`KnownStayRejected`). From it `OneDecision`, `DuplicatesAreRaces`, `NominationsDrain`,
and `StatusesWereReviewed`, for any forms and reviews: a form's copy carries a status that was
decided, or pending.

**Admission.** The throttle and the budget are one counter, so `CounterInv` and its lemmas
(`StartCall`, `CacheCall`, `FinishCall`, `TickCounter`) are stated once, of any clock, store and
calls, and used for both. While a window lasts its key cannot expire, because either time to
live reaches at least the window's end (`CacheCall` has that as its hypothesis, and each user
proves it of its own `Ttl`); so the callers counted in time have the numbers 1, 2, 3, ..., each
its own (`Numbered`), and the key's count is the last of them (`WindowOpen`). A straggler, whose
window is over, may find the key gone and count from 1 again: hence the
theorems speak of callers on time, except the last.
* `TextsAreRateLimited`, `TextsAreBudgeted`: distinct numbers up to the limit are at most that
  many (`AtMostThatMany`, by `FS_Injection`); that spellings share a key is `PhoneCounted`.
* `BudgetWarnsOnce`: one caller has the number `WarnAt`, and before a number past the limit
  came every smaller one.
* `BudgetExhaustedForCause`: no count, of stragglers either, exceeds how many callers have been
  counted under the key (`NoMoreThanCallers`), and whoever was counted goes on to a text or to
  a refusal by the budget itself (`ShareSpent`).

**Results.** `AwardTalliesAreComplete`: a vote's award is `AwardOf` its nomination, so the tally
splits by nomination. `ResultsAndStatsAgree`: the votes of an event split by listed award and
approved nomination, and the rest, whatever was approved and reverted when. `RanksAreRight`: ranks count who is strictly ahead.
`UntouchedAwardsAreExact`: `ReaderInv` keeps, per award not touched since the reader began, that
what was read of it is what the tables say. `ReadersChangeNothing` (`ReaderSpec => Spec`)
carries what is proved of `Results` over to a system with readers.

**Staff sessions.** `TypeCorrect`, `HoldersStayKnown`, `OverStaysOver`, `SessionsEndForCause`,
`NothingIsMissing`, `AccountsChangeByForm`. `HoldersAreKnown` rests on the entry a login that is
about to be answered has already written, which protects its account from then on: a delete that looked
before it fails at COMMIT.
`OverIsOver` needs that whatever is over is blacklisted and that a refresh which began late
never passes its check. `NothingMissing` needs, phase by phase, which things the request has
already been seen to have, hence no longer in `missing`.

**Counting.** Sums are `SumFunction` of the community modules, a fold that the provers know only
by its definition as a choice among functions on subsets. `SumUnfolds`, `SumOfSizes` (sizes of a
partition add up) and `SumOfOnes` are inductions over finite sets; the library's induction rules take an
operator and cannot be used, so they are by least counterexample (`LeastExists`): a smallest
set on which the lemma fails is not empty, and without one of its elements it does not fail.

`LockedRowIsCurrent`, `EndedForCause` and `ReadersChangeNothing` are theorems without a run of
their own: a lock that does not keep the row breaks `StatusFollowsTransitions` in `nominations`.

## 6. What is only model-checked

The liveness properties `CastsAreAnswered` and `EveryoneIsAnswered`: the prover does not handle
fairness and ENABLED. The four violations of section 3 are behaviours TLC finds, and need no
proof. That rows in use keep what they refer to where the database alone sees to it (a
challenge its voter) is not a property of a run; it is part of `OtpInv` (`ChallengesHaveVoters`).

## 7. Abstractions

One event in `Voting` and `Nominations`, one phone number in `Otp`, one key family in
`FixedWindow`: rows of other events, numbers and identities share no lock, index entry or
counter with them. In `Otp` a statement takes its row locks one at a time and deadlocks are
part of the model; elsewhere a transaction has one row to wait for at a time, and one that
Postgres aborts all the same is covered by the crash actions. Names, links, photos, IPs and
user agents are dropped. A nomination's name is a model value, so "the same name" is equality
(the code ignores case). In `Otp` throttle and CAPTCHA are left out, for they come before and
only refuse, and the SMS budget may refuse at any time; when they do is the subject of
`OtpAdmission`, which leaves out the challenges. Of the throttles only the one keyed on the
phone number is modelled: the others are the same counter with another identity. `StaffSession`
abstracts passwords and signatures to who owns a token, and lets a token expire wherever it is
verified. A commit that Postgres aborts because of a deadlock between a delete and a cast is
`CastCrash` or `RemoveFails`. In `Results` a vote is cast in two steps, the detail of which is
in `Voting`; its catalogue never loses a row. Every free vote has quantity 1; paid votes do not
exist yet.

## 8. What is not modelled

* Creating catalogue rows, and deleting whole categories and events, which is the deletion of an
  award on a larger scale; read-only lists and detail views.
* Deletion of nominees, and of nominations by a superuser, in the Django admin (renaming is
  modelled); a stale nomination form that inserts a nomination deleted meanwhile, or a stale user
  form an account.
* A worker that dies inside `reserve_sms_budget`, between the count and the warning it logs.
* `X-Requested-With`, a constant header that login, refresh and logout require, and
  `ensure_roles`, which creates the groups after a migration.
* Text, IP and image conversion, error and schema formatting, logging: functions of one input.
* The HTTP exchange with the SMS and CAPTCHA providers; `OtpAdmission` has what they may answer.
* Payments (no operation creates or changes one), demo data, settings and deployment. The
  constants of the modules and the switches of token rotation come from the settings.

What could come next: a composition of `Otp` with the token check of `Voting` (a vote implies a
login).
