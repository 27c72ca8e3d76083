# SLI backend: specifications and proofs

TLA+ modules of the internship portal's Go backend (`src/cmd`, `src/internal`,
`src/database/schema`), the TLC configurations that check them on small
instances, and TLAPS proofs for every instance of the constants.

## The system

One process serves HTTP (chi), runs three background workers, and keeps all its
state in Postgres (one pgx pool of 100 connections), in a directory of PDF
files and, for the rate limiter, in memory. Handlers decode, services decide,
repositories are one SQL statement per method. Only two services open
transactions (`RunInTransaction` of reports and evaluations); everything else
is a sequence of separately committed statements, so other requests, the
workers or a crash can come between any two of them.

| Part | State | Operations | Hard behaviour | What makes it correct |
|---|---|---|---|---|
| Evaluation (`evaluation_service.go`) | `evaluation_schedules`, `evaluation_scores`, `evaluation_corrections` | SetSchedule, SubmitMarks, CorrectMarks | reads before the transaction; unique constraint as the only lock; a second pool connection inside a transaction | locked marks change only through recorded corrections; the history accounts for the row |
| Marksheets (`marksheet_service.go`, `storage.go`) | `marksheets`, PDF directory | GenerateMarksheet, GetMarksheetContent | runs after the commit; truncating writes; generations racing on one file; find-then-create of the row | a PDF shows marks that were really committed for its key |
| Audit log (`audit_repository.go`) | `audit_logs` | Create | written on another connection, errors dropped | never ahead of the corrections that happened |
| Outbox (`outbox_dispatcher.go`, `outbox_repository.go`) | `email_delivery_requests` | Enqueue, poll, Send, MarkSent, MarkFailed | crash between send and mark, lost acknowledgements, a server that falls silent, backoff, a bounded batch | at least once; a second copy only when acceptance could not be recorded |
| Notifications (`notification_service.go`) | (the outbox) | four Notify calls | called after the caller's commit | see outbox |
| Reports (`report_service.go`) | `reports` | SubmitReport, EditReport, lists | racing submissions; token and mails after the commit; stale edits | one row per period; a created report has its review link |
| Industry links (`token_service.go`, `industry_handler.go`, `token_cleanup_worker.go`) | `industry_access_tokens`, `feedback` | GenerateToken, ValidateToken, MarkTokenUsed, DeleteExpired | check-then-act over three calls, behind a query that Postgres refuses | a report has one token and one link; nothing behind ValidateToken is reached |
| Faculty feedback (`feedback_service.go`) | `feedback` | SubmitFacultyFeedback | assignment read before the insert; several assignments per internship | feedback only by a mentor of that internship |
| Reminders (`reminder_worker.go`) | (the outbox) | daily round | check then enqueue; a quotient rounded toward zero; a ticker that starts anew | at most one reminder of a week a day; late by one round at most |
| Sign-in (`auth_service.go`, `magic_link_repository.go`) | `users`, `magic_link_tokens` | OAuth callback, RequestMagicLink, VerifyMagicLink, DeleteExpired | two ways of provisioning one user; a link consumed before its user is looked up; stale rows written back | sessions of the owner; one user per Google account; a spent link stays spent |
| Sessions (`jwt.go`, `middleware/auth.go`, `csrf.go`, `rbac.go`) | cookies, `revoked_tokens` | authentication, Logout | claims never read anew; a revocation that fails, or is looked up in vain | who is logged out stays out; a role is served no longer than its tokens live |
| Staff (`internship_service.go`, `user_repository.go`, `admin_handler.go`) | `internships`, `mentor_assignments`, `users` | EnrollStudent, AssignFacultyMentor, ApproveStudent, UpdateProfileFields | departments read in several calls before the insert, while an admin edits them | one internship per student; coordinators act in their department |
| Rate limiter (`ratelimit.go`) | a map of visitors under a mutex | request, sweep | a refused request counts as seen; sweep and restart | at most Limit requests of a client a minute |
| Server (`main.go`, `router.go`, `db.go`) | pool, goroutines | start, shutdown | workers are not stopped by a shutdown; a process stop anywhere | restart loses nothing that was committed |

How they interact: SubmitReport and RequestMagicLink queue mails in the outbox
that the dispatcher drains; Evaluation and Feedback authorize against the
mentor assignments the coordinator creates; both evaluation operations end in
the marksheet service; every authenticated request passes the limiter, the
token check, CSRF and RBAC first; services share the pool and the audit log.
`PROJECT.json` lists every part with its status and every hazard with its line.

## Modules

**Evaluation.tla** is `evaluation_service.go` with `marksheet_service.go`. The
slots in `Requests` are the server's concurrent requests; `pc[r]` names the next
call of a request, `job[r]` what its handler decoded, `seen[r]` what it has read
(Go's locals). Each action is one database call, file call or COMMIT:

| Code | Actions |
|---|---|
| SetSchedule | `Authorize`, `SaveSchedule` |
| SubmitMarks | `Authorize`, `CheckExisting`, `BeginSubmit`, `InsertScore`, `AuditSubmit`, `CommitSubmit`, then generation |
| CorrectMarks | `ReadOld`, `BeginCorrect`, `UpdateScore`, `CreateCorrection`, `CommitCorrect`, `AuditCorrect`, then generation |
| GenerateMarksheet | `GetSchedule`, `GetScore`, `OpenFile`, `WriteFile`, `FindSheet`, `CreateSheet` |
| AssignFacultyMentor | `AssignMentor` |
| an error return | `Fail` (any call), `Rejected` (the data's doing) |
| process stop | `Crash` |

The tables are functions from `Key` (internship and exam type). Reads and
writes of one transaction take effect at its COMMIT, under Postgres' default
READ COMMITTED: an uncommitted INSERT of a key makes another one wait
(`InsertWaits`), an uncommitted UPDATE of the row likewise (`UpdateWaits`).
`inTx` are the requests that hold a connection, `FreeConn` says that one more
is to be had. A file is `None`, `Empty` (truncated), `Mixed` (two writers'
bytes) or a document. Marks are values of a small set: no property depends on
the five criteria. COMMIT may succeed and its answer be lost. `original`,
`failed` and `contended` are history variables only properties read.
`FindByID` calls that read users and internships are not steps: nothing modelled
changes those rows, and a failure there is `Fail` at the neighbouring call.
`Blocked(r)` names the requests whose call cannot be answered: the pool has no
connection for it (`PoolCalls`), or another transaction has the lock.

**Ledger.tla** is what faculty and administrators are promised of marks: entered
once, by one person, then changed only by corrections, each of which is kept and
names marks that were once in force. Evaluation is shown to implement it
(`ImplementsLedger`, with `row <- score`, `trail <- corrections`): `CommitSubmit`
is `Enter`, `CommitCorrect` is `Correct`, every other action a stutter. That
`Correct` takes any marks the key ever had for the old ones, not the last ones,
is what the code gives: it reads them before its transaction.

**Outbox.tla** is the dispatcher over its table; its clock counts minutes and
`wait[e]` is what is left to `next_attempt_at`. `earlier` keeps the order of
`next_attempt_at`, which decides who is in a batch. A conversation has four
outcomes: `SendAccepted`, `SendRefused`, `SendUnacknowledged`, where the server
has the mail and `Send` returns an error all the same, and `SendStalls`: the
server falls silent and `Send` does not return, since `mailer.go` sets no
deadline (lines 64 and 86); only a restart ends the wait. `MarkLost` is an UPDATE that
fails, `Crash` a restart. `doubtful` is a history variable: the mail was
accepted and the row could not be told. **Mail.tla** is what callers are
promised, at-least-once mail, and `Outbox` is shown to implement it (`Box` maps
the row's status).

**ReportFlow.tla** is `report_service.go` with `token_service.go`, the two
outbox rows of a submission and the cleanup of tokens; its clock counts hours.
Slots, `pc` and `job` are as in Evaluation; `stamp[r]` is the `time.Now()` and
`raw[r]` the review token a request holds.

| Code | Actions |
|---|---|
| SubmitReport | `CheckDuplicate`, `BeginInsert`, `InsertReport`, `CommitReport`, then `NotifyFaculty`, `GenerateToken`, `QueueLink` |
| EditReport | `FindReport`, `UpdateReport` |
| CleanupExpiredTokens | `Cleanup` |
| an error return, a cancelled context | `Fail` |
| process stop | `Crash` |

The answer of COMMIT, of the token's INSERT, of Enqueue and of the UPDATE can
be lost: the effect is there, the caller gets a 500. The faculty mail is the one
call whose error is ignored. The pool is left out here: these requests hold one
connection at a time. What an opened link does is not modelled, see below.
`created` and `failed` are history variables. EditReport reads the clock twice
with no call between, for the window and for `EditedAt`: one reading here.

**Filing.tla** is what a student's reports promise, and ReportFlow is shown to
implement it (`ImplementsFiling`, with `filed <- report`, `told <- notices`,
`invited <- links`, `Times <- Hours`): `CommitReport` is `File`, `UpdateReport`
is `Edit`, `NotifyFaculty` is `Tell` or nothing, `QueueLink` is `Invite`, and
the rest are stutters.

**SignIn.tla** is `auth_service.go` without logout, over `users` and
`magic_link_tokens`. No sign-in runs in a transaction.

| Code | Actions |
|---|---|
| HandleOAuthCallback | `Exchange`, `FindByGoogleSub`, then `UpdateUser`, or `FindByEmail` with `LinkGoogleSub` or `CreateUser`, and `Reload` |
| RequestMagicLink | `StoreLink`, `MailLink` |
| VerifyMagicLink | `FindLink`, `MarkUsed`, `FindByEmail`, then `UpdateUser`, or `CreateUser` and `Reload` |
| hourly DeleteExpired | `DeleteExpired` |
| an error return, a lost answer, a process stop | `Fail`, `AnswerLost` inside the writes, `Crash` |
| outside: an account gets another address in Google | `Rename` |

An address is a pair of a person and a name: the organisation gives a person
another address but never another person's. `Taken` is the two UNIQUE columns;
a violation answers "conflict". `sessions`, `signins` and `cutOff` are history:
who was signed in to which row, how often a link was, and which links a fault
hit after they were consumed.

**Accounts.tla** is what people are promised of their accounts, and SignIn is
shown to implement it (`ImplementsAccounts`, with `account <- users`,
`entered <- sessions`): `CreateUser` is `Open`, `LinkGoogleSub` is `Attach`,
`UpdateUser` is a `Move` to another address of the owner together with entering,
`Reload` is entering, and lookups, links, the cleanup and renames are stutters.
A write whose answer is lost is the same change without entering.

**FrontDoor.tla** is what a request to an authenticated route passes before its
handler, and logout. The order is the router's: `RateLimit`, `JWT`, `CSRF`,
`RBAC`.

| Code | Actions |
|---|---|
| RateLimit (under its mutex), ValidateToken | `Enter` with `Bucket` and `Alive` |
| IsRevoked, then CSRF and RBAC | `IsRevoked` with `GoIn`, `CsrfOk`, `RoleOk` |
| a handler | `Handle` |
| Logout | `RevokeAccess`, `RevokeRefresh`, `AnswerLogout` |
| GenerateTokenPair at the end of a sign-in | `SignIn` |
| the limiter's sweep | `Sweep` |
| outside: a role changed in the database | `SetRole` (the method has no caller) |

IsRevoked is modelled as written: when its query fails it answers "not revoked",
and `blind` remembers it; when Revoke cannot store a token, logout goes on, and
`unstored` remembers it. Other histories: `late` (the token had been logged out
when the request came), `out`, `held` (roles users had), `passed` (when the
limiter let a client pass). Between validation and handler the token may expire,
be revoked or the role change: these are steps of their own.

**Staffing.tla** is `internship_service.go`, `feedback_service.go` and the
profile edit of `admin_handler.go`.

| Code | Actions |
|---|---|
| EnrollStudent | `FindStudent`, `FindEnroller`, `Enroll` |
| AssignFacultyMentor | `FindFaculty`, `FindAssigner`, `FindInternship`, `Assign` |
| ApproveStudent | `Approve` (one UPDATE) |
| SubmitFacultyFeedback | `FindReport`, `FindMentor`, `GiveFeedback` |
| UpdateUserProfile | `UpdateProfile` |
| SubmitReport's row | `Submit` |

An internship goes by its student (`UNIQUE (student_id)`); its status never
changes, since `UpdateStatus` has no caller. A refusal and a failure have the
same effect, none, so `Fail` stands for both; a lost answer of the one write at
the end leaves the tables as the write does. `moved` is history: a department
this request rests on was edited while it was served.

**Reminders.tla** is `reminder_worker.go`: `Wake` (the ticker and ListAll),
`Check` per internship with `WeekOf`, `Remind`, `Restart`, and `Elapse` for the
clock, against `Enroll` and `Submit` of others. `Quotient` rounds toward zero,
as Go's `int()` does. A round is assumed to end within the clock unit it began
in. A failing query skips the internship, a failing
Enqueue the reminder.

**MCEvaluation**, **MCOutbox**, **MCReportFlow**, **MCSignIn**, **MCFrontDoor**,
**MCStaffing** and **MCReminders** instantiate them for TLC; the modules named
**...Proofs** hold the theorems.

## Runs

| Run | Question | Instance |
|---|---|---|
| `evaluation` | do racing, failing, interrupted requests implement Ledger and keep history, PDF, audit consistent; does anything but the pool make all wait on all? | 2 slots, 4 requests, 2 connections, 1 internship, 1 exam type, 2 mentors, 1 admin, 2 marks, 2 schedules |
| `evaluation_live` | is every request answered; do exam types stay apart? | 2 slots, 3 requests, 2 exam types, 3 connections, fairness |
| `evaluation_old_marks` | do old values survive? No | as `evaluation`, 1 schedule, 3 requests |
| `evaluation_stale_pdf` | does the PDF show the last correction? No | as above, 4 requests |
| `evaluation_pool` | is the audit write on the global pool fine? No: two submissions hold both connections and both wait for another | 2 slots, 2 connections, 2 internships, 3 requests |
| `outbox` | does the dispatcher implement Mail, and is mail delivered in the end, if no silent server is waited for for ever? | 3 mails, 2 dead, batch 2, long wait 2 after 1 failure, fairness |
| `report` | do racing, failing, interrupted submissions and edits implement Filing, with one answer, token and link per period? | 2 slots, 3 requests, 2 periods, 2 texts, window and expiry 1 hour, clock to 2 |
| `signin` | do racing, failing, interrupted sign-ins implement Accounts, or revive links? | 2 slots, 4 requests, 2 people, 2 names, 3 user ids, 1 link, expiry 0, clock to 1 |
| `signin_link_twice` | does a link sign in once? No | as above, 1 person, 3 requests |
| `frontdoor` | what do logout, roles and the limiter promise when they overlap? | 2 slots, 4 requests, 1 client, 1 user, 2 roles, 1 session, AccessTTL 1, RefreshTTL 2, minute 1, limit 2, clock to 3, 1 role change |
| `staffing` | do department checks and constraints survive races and edits? | 2 slots, 3 requests, 1 student, 2 faculty, 1 coordinator, 1 admin, 1 department, 2 assignments |
| `reminders` | is a week reminded of too often, or in vain? | 2 students, start days -1 and 5, days of 2 units, weeks of 2 days, 2 weeks, clock to 8 |

Bounds. Two slots give every pairwise race, and the races of this code are
pairwise: one unique key, one row, one file. Four requests let a submission, a
schedule and two corrections (or two submissions and two corrections) meet.
Two marks and two schedules tell stale from fresh. Two
connections for two slots let the pool fill up, with submissions that want a
second connection and with others. `MaxRequests` bounds the
requests accepted, so `issued` is the only counter that stops growing by a
bound; the run may stop there only because `AssignMentor` and `Crash` remain.
In the outbox, a batch smaller than the queue and dead addresses give the
contest for places; `Far` above one minute tells the short wait from the long
one; copies beyond two and failures beyond `MaxFailures` are not told apart.
Requests, faculty members, marks and schedules are symmetric in `evaluation`,
requests and texts in `report`. In `report`, three requests are two racing
submissions and an edit, or a submission and two edits; two hours with a window
of one let an edit fall within the window, an edit of an edit after it, and a
token expire.

In `signin`, three ids are one row per address of the renamed person and one of
the other; four requests are a link asked for, opened twice, and a Google
sign-in, or a race of both ways of provisioning with a rename between; with
expiry 0 a clock of 1 has the link live, expire and be deleted. Requests,
people and names are symmetric. In `frontdoor`, a logout, a call that overlaps
it, one after it and a refused one make four requests; the two lifetimes differ,
so a refresh token is used after the access token died; a limit of 2 in a minute
of 1 fills the bucket again within a clock of 3. One session is enough, because
another session's tokens meet this one's only through the user they share, which
the proof covers. In `staffing`, the empty department and one other are
equal or different; two faculty members give an internship two mentors; three
requests are two racing enrolments and an assignment, or enrolment, assignment
and comment. In `reminders`, a student starts before the server and another
after it, so quotients of both signs, the first week and a week past the last
one are met; days of two units let a restart shift the round.

Fairness. `evaluation_live` takes `WF_vars(Serve(r))` for each slot: a goroutine
runs on as long as its next call can be answered. Nothing is assumed of users,
failures or crashes. It has more connections than slots, so that the pool is
free. With fewer, the run would say little: the calls that want a connection
have an error branch that needs none (a client that gives up cancels the
context), and fairness would end every wait by it. `evaluation_pool` shows the
wait itself.
That there are fewer requests at a time than connections is a matter of load:
nothing in the server enforces it.

`outbox` takes weak fairness of the clock and of the dispatcher's loop as long
as its calls return, and strong fairness per mail where an outcome is chosen
outside the program: no mail meets a stop of the server or a silent mail server
every time it is sent, a mail server that takes a mail at all does not refuse it
for ever, and Postgres takes the UPDATE of its row in the end. The code does not
make the mail server answer: `SendStalls` has no fairness, nor the restart that
ends a stall. `MailArrives` therefore has a premise, `[]<>(step # "stalled")`:
no silent server is waited for for ever. Without it TLC answers with one stalled
conversation and every other mail queued behind it.

## What the checks show

Hold: the committed rows are a ledger (`ImplementsLedger`): marks are entered
once, keep their submitter, and change only with a correction row, whose old
marks were once in force; without overlap a correction keeps exactly the marks
it replaces (`CorrectionExact`); a "created" answer belongs to whoever was first
(`OkSubmitKept`); the first correction's old marks and the last one's new marks
agree with the original and the live row (`HistoryMatchesScore`); PDFs show
committed marks of their own key (`PdfWasLive`); if requests do not overlap, an
OK means a fresh PDF even after earlier failures (`OkMeansFreshPdf`); races
alone never leave locked marks without a marksheet (`MarksheetUnlessFailed`);
the audit log is never ahead of corrections (`AuditNeverAhead`); unless
submissions that want a second connection fill the pool, some request goes on,
whatever row locks the others wait for (`OnlyThePoolBlocks`); mail is
delivered at least once, twice only when acceptance could not be recorded, and
in the end, unless the one dispatcher waits for a silent mail server for ever
(`MailArrives`); of racing submissions of a period at most one is answered 201, with
its row and link in place (`CreatedOnce`); a report has at most one token, link
and faculty mail, an uncommitted one none (`MailsMatchReport`); only a failure
or a stop leaves a report without a link (`LinkUnlessFailed`); reports are filed
once, never taken back, changed only by edits that found the window open, and
the faculty mentor is told, if at all, before the industry mentor is invited
(`ImplementsFiling`).

Sign-in: the two ways of signing in are one account book (`ImplementsAccounts`):
no stale or late write takes an address or a Google account away, and nobody
enters with Google but by the account it is attached to; a session is for a row
of the person who signed in, and a row's address and Google account are one
person's (`SessionsOfOwner`); all Google sign-ins of an account lead to one user
(`OneGoogleUser`); a link has no more sessions than the server has request slots
(`LinkBounded`); only a fault wastes a consumed link for
somebody without a user (`LinkNotWasted`); a spent link stays spent
(`SpentForGood`); UNIQUE columns turn away only over a row of the same person
(`RefusedByOwnRow`). Front door: after an answered logout the tokens it
stored reach a handler only past a failing query (`LoggedOutStaysOut`); a role is served at most
a refresh token's life after it was lost (`RoleNotOlder`); no more than Limit
requests of a client pass in a minute (`AtMostLimit`), but fewer can be enough
to be refused (below). Staff: a coordinator writes only
inside one, non-empty department, unless somebody was moved meanwhile
(`OwnDepartment`); racing enrolments leave the first one's row
(`InternshipStays`); feedback and approvals are by mentors (`MentorsOnly`).
Reminders: once a day at most, twice that in the first week
(`RemindersPerWeek`), never of a report that was there when the round began
(`RemindedWhileMissing`).

Do not hold, although the code's comments or mails say so: old marks survive
every correction; the PDF reflects the last correction; the audit write on the
global pool is harmless; a magic link can only be used once. `PROJECT.json`
"findings" quotes the lines. For each, what does hold is proved:

| Claimed | Counterexample | Proved instead |
|---|---|---|
| old marks survive every correction | `OldMarksSurvive` | they do without overlap (`CorrectionExactHeld`); always, they are marks that were in force before (`OldMarksHeld`) and the last correction's new marks are the live ones (`HistoryKept`) |
| the PDF reflects the correction | `CorrectionReachesPdf` | it does without overlap (`FreshPdfHeld`); always, it shows marks its own key had (`PdfKept`) |
| the audit write in the transaction is fine | `AuditRowIsFine` | while there are fewer requests at a time than connections it is (`NoDeadlock`), which is a matter of load and nothing the server enforces; otherwise it is the only thing that can stop everybody (`PoolBlocksAlone`) |
| a magic link can only be used once | `LinkSignsInOnce` | as often as the server has slots (`LinkBoundHeld`), and never once it is spent and nobody is past its check (`SpentHeld`) |

### Seen by reading, without a run

These follow from one or two lines and no interleaving, or concern code that is
not modelled; a run would only repeat them.

- Failed mails do not stop being tried: after the last attempt a row is pushed
  a day ahead and stays pending (`outbox_dispatcher.go:65` against lines 14-16
  and 63-64).
- No industry link opens its report: `FindByHash` selects an `id` that both
  joined tables have (`token_repository.go:47`), Postgres refuses the query, and
  the handler answers with a database error (`industry_handler.go:48-49`).
- A report can be on file without its review link when a call fails after the
  COMMIT, and the student's retry gets "duplicate" (`report_service.go:123-126`).
  `LinkUnlessFailed` is the part that holds.
- The limiter refills a bucket only after a minute of silence, and refused
  requests count as seen (`ratelimit.go:53-60`). So against "limits requests per
  minute per IP" (line 26) it refuses a client that is never silent for a minute,
  however slow it is: with a limit of 2, the third of three requests just
  under a minute apart, and all later ones. `AtMostLimit` does not exclude that, and no property
  here does.
- A mail server that takes a connection and falls silent stops all mail until
  the process is restarted: `smtp.SendMail` and `tls.Dial` get no deadline
  (`mailer.go:64`, `86`) and one goroutine sends the mails one by one. The stall
  is in the model, as the premise of `MailArrives`.
- `IsRevoked` lets a token pass when its query fails, and nothing tells a refresh
  token from an access token when it is presented as one.
- Equal start and end dates pass the check of the service
  (`internship_service.go:88`) and violate `chk_internships_dates`; the answer is
  "student already has an active internship" (line 136).
- There is to be one coordinator per department (`user_repository.go:16-19`), and
  `SetRole` refuses a second one; moving a coordinator to another department does
  not (`user_repository.go:198`).
- A renamed Google account whose new address already signed in by link has two
  rows, and its Google sign-ins end in a conflict from then on
  (`auth_service.go:114`).

## What is proved

The theorems hold for any sets of requests, internships, exam types, marks and
any pool size; the assumptions are the named ASSUMEs of the modules (the
requests are a finite set, the bounds are naturals, `None`, `Empty` and `Mixed`
are no values of the data), which TLC evaluates in the runs.

**EvaluationProofs**: `TypeCorrect`, `HistoryKept`, `PdfKept`, `MentorKept`,
`MarksheetKept`, `LockedMarksKept`, `OkSubmitHeld`, `AuditHeld`, `FreshPdfHeld`,
`CorrectionExactHeld`, `LedgerImplemented`, `OldMarksHeld`, `PoolBlocksAlone`,
`NoDeadlock`, `CallsDoRunOut`, from one inductive invariant `IInv`, and
`LedgerPromise`, of Ledger alone. The properties are not inductive: that the
insert of a submission meets no committed row when it commits needs that only
one transaction is past the insert of a key (`OneInsert`); that a correction's
first old marks are the original needs what a request at each step has read
(`Slot`); that a file shows marks the key had needs the same of the marks a
generation carries; that races leave no marks without a sheet needs that some
request is still on its way to one (`Covered`). `Slot` states these per step of
a request, so the step lemmas look at one request and one key each. `AuditHeld`
counts: the audit rows of a key's corrections and the requests still to write
theirs (`Auditors`) together are no more than the corrections. `FreshPdfHeld`
relates a request to the moments others arrive: as long as it is alone
(`Alone`), what it has read is still so and what it wrote is still there
(`Fresh`); the same gives `CorrectionExactHeld`, for the old marks a correction
carries into its transaction.

`LedgerImplemented` needs of a correction only that its old marks were once in
force when it read them, and that what was in force stays in the trail (`Slot`,
`MarksHad`). `LedgerPromise` proves of any behaviour of Ledger that the trail
ends at the marks in force and that old marks were in force before
(`LedgerInv`); with the refinement it holds of the code, which is `OldMarksHeld`.
The refinement implies `LockedMarksStay`, which is also proved by itself
(`LockedMarksKept`) and is no property of a run any more.

For deadlock, the waits are followed to their end: an INSERT waits for a
submission past its own INSERT, an UPDATE for a correction past its own UPDATE,
and neither of those waits for a lock again (`HoldersGoOn`); so a circle needs
the pool (`PoolBlocksAlone`), and there is none while the pool has a connection
more than there are requests at a time (`NoDeadlock`). `CallsDoRunOut` gives each step a
measure (`Left`, the calls still to make) that every call of a request lowers
and nothing else raises. The two are the safety half of `EveryRequestAnswered`:
fairness is left to TLC.

**OutboxProofs**: `TypeCorrect`, `OneCopy`, `Implements`, and of Mail alone
`MailPromise`. Rows of a batch are
distinct and still pending while the dispatcher works through them
(`InFlight`), so the row about to be marked is the one just sent, and a mail
has one copy exactly when its row is sent or about to be (`Accounted`).
`Implements` maps a `Send*` that reaches the server to `Deliver`, `MarkSent` to `Settle`, `Enqueue` to
`Queue` and all else to stuttering.

**ReportFlowProofs**: `TypeCorrect`, `CreatedHeld`, `MailsHeld`, `LinkHeld`,
`EditsHeld`, `FilingImplemented`, `EditedHeld`, for any requests, periods, texts,
window and expiry, and of Filing alone `FilingPromise`. The
strengthening is `OneOwner`, that past its INSERT a submission is the only one
of its period until it is answered (the unique constraint and the wait on an
uncommitted row give it), and `Slot`, that at each step after the COMMIT what
comes later does not exist yet. `EditsHeld` uses that the row an edit found is
still there, with the same `submitted_at`, when it is written.
`FilingImplemented` needs the clock besides (`Clock`): no request holds and no
row has a time that is still to come, so an edit's time is never before the
submission's. `EditedHeld` is `FilingPromise` carried over by the refinement: what
a row shows as its last edit lies in its window, however late the UPDATE came.
The refinement implies what `EditsInTime` says of a step, but for whose text it
is; `EditsHeld` proves that too.

**SignInProofs**: `TypeCorrect`, `SessionsHeld`, `GoogleUserHeld`, `LinkHeld`,
`AccountHeld`, `SpentHeld`, `RefusalHeld`, `LinkBoundHeld`,
`AccountsImplemented`, for any people, names and links, and of Accounts alone
`AccountsPromise`. Every
step only adds user rows, changes an address to another one of the same person,
or gives a row without an account its owner's (`UsersGrow`), so what a request
holds of a row stays true however late it writes. `IInv` says of rows that they
are one person's (`RowsOK`), of links that they were mailed to the address they
were stored for (`LinksOK`), of sessions that they are for their person's rows
and that Google ones are for the row with the account (`SessionsOK`), of used
links what `LinkNotWasted` asks with the request on its way (`Kept`), and of
each request what it has read at its step (`Slot`).

`LinkBoundHeld` counts. Once a link is used or deleted nobody passes its check
any more (`Closed`), so its sessions and the requests past the check (`Past`)
together only shrink; before, the first MarkUsed has not come, so it has no
session yet, and those past the check are no more than the slots (`BoundInv`).
It is the one theorem of the module that needs `RequestsAssumption`.
`AccountsImplemented` goes step by step; what it needs is that `Taken` keeps
addresses and Google accounts apart at the moment of each write, and that the
row a request holds by its id is still its person's, with the account attached
if it came by Google. `AccountsPromise` proves of any behaviour of Accounts that
addresses and Google accounts are never shared and that entries are by accounts
of one's own; it is what makes the abstract specification worth implementing.
The refinement implies `GoogleAccountStays`, which is also proved by itself
(`AccountHeld`) and is no property of a run any more.

**FrontDoorProofs**: `TypeCorrect`, `LogoutHeld`, `RoleHeld`, `LimitHeld`,
`PausersPass`.
A session's claims were its user's role when it began, or are in `held`
(`ClaimsOK`); a logged-out token is stored, unless it could not be, so `out` is
within `revoked`; a request at each step was admitted while its token lived
(`Slot`). For the limiter, all passed requests but the last
`Limit - tokens` of a client passed more than a minute before its bucket was last
seen (`Buckets`), and those last ones followed each other within a minute
(`Steady`): the first gives `AtMostLimit`, the second that nobody is refused
before Limit requests have passed without a minute's pause between any two
(`PausersPass`), which may have taken up to Limit - 1 minutes.

**StaffingProofs**: `TypeCorrect`, `MentorsHeld`, `DepartmentHeld`,
`InternshipKept`. `Slot` says of each step which departments have been compared
and that they still agree unless somebody was moved (`Matched`).

**RemindersProofs**: `TypeCorrect`, `RemindersBounded`, `MissingWhenReminded`.
`Round` ties the ticker to the clock and a due reminder to its week, and `Count`
bounds the reminders of a week by the days of it that have begun (`First`,
`Days`), which needs the arithmetic of `Quotient` on both sides of zero.

Every safety property of a passing run is proved. Model-checked only: liveness,
`EveryRequestAnswered` and `MailArrives`. Liveness under fairness and ENABLED are
beyond the provers used here, as is induction over data; no module with a
theorem declares a RECURSIVE operator.

## Left to do

1. **ReportMail**: ReportFlow composed with Mail, so that a created report's
   link is delivered in the end; and "This link is valid for 24 hours"
   (`notification_service.go:66`) against a mail that waited a day in the outbox.
2. **Industry links**, once `FindByHash` is a valid query: validation, feedback
   and MarkUsed as three calls of two posts.
3. **Rubric**: `bucketFor` and `MaxPeriod` as operators checked against
   references over bounded inputs.

## Not modelled

Rendering (headless Chrome, templates, `bucketFor`), SMTP's dialogue, JSON
decoding, SQL text, configuration, logging, CORS, request ids, CSRF's signature
and the cookies that carry it (its decision is in FrontDoor), the drain of
Shutdown, the read-only views, migrations and `schemacheck`: they keep no state
that interleaves, or are I/O outside the program. Industry review beyond the
token and its mail is not modelled because no request gets past its query.
`SetRole`, `UpdateStatus` and `Storage.Delete` have no caller in the program;
the first is FrontDoor's outside write, the others are left out.
