------------------------------ MODULE ReportFlow ------------------------------
(***************************************************************************)
(* A student's reports and the mails they set off:                         *)
(* internal/services/report_service.go with token_service.go, the outbox   *)
(* rows both queue, and the cleanup of expired tokens.                     *)
(*                                                                         *)
(* Only the INSERT of the report is in a transaction.  The faculty mail,   *)
(* the review token and the mail with its link are three more steps after  *)
(* the COMMIT, and each can fail, or the server stop before it.            *)
(***************************************************************************)
EXTENDS Integers, FiniteSets

CONSTANTS
  Requests,     \* the server's concurrent request slots
  Periods,      \* report type and number, of one student's internship
  Contents,     \* texts of a report
  Window,       \* REPORT_EDIT_WINDOW_HOURS
  Expiry,       \* hours a review token lives (24 in the code)
  MaxHour,      \* bound: the clock stops there
  MaxRequests,  \* bound: requests accepted in a behaviour
  None          \* no row, no request

Job == [kind: {"submit", "edit"}, period: Periods, content: Contents]
Hours == 0..MaxHour
Report == [content: Contents, submitted: Hours, edited: Hours]

ASSUME HoursAssumption ==
  Window \in Nat /\ Expiry \in Nat /\ MaxHour \in Nat /\ MaxRequests \in Nat
ASSUME NoneAssumption == None \notin Job \cup Report

VARIABLES
  pc,        \* the call a request makes next
  job,       \* the request being served
  stamp,     \* the time.Now() it holds
  raw,       \* the review token it holds
  reply,     \* the last answer of the slot
  report,    \* reports, unique by period
  tokens,    \* industry_access_tokens
  drawn,     \* random tokens drawn: the n-th one is called n
  links,     \* outbox rows that carry a review link
  notices,   \* outbox rows that tell the faculty mentor of a report
  hour,      \* the clock
  created,   \* history: submissions answered 201
  failed,    \* history: a submission broke off after its COMMIT
  issued     \* requests accepted so far (bounded by MaxRequests)

request == <<pc, job, stamp, raw, reply>>
mails == <<tokens, drawn, links, notices>>
history == <<created, failed>>
vars == <<pc, job, stamp, raw, reply, report, tokens, drawn, links, notices,
          hour, created, failed, issued>>

AfterCommit == {"notify", "token", "queue"}
Steps == {"check", "begin", "insert", "commit", "find", "update"} \cup AfterCommit

TypeOK ==
  /\ pc \in [Requests -> Steps \cup {"idle"}]
  /\ job \in [Requests -> Job \cup {None}]
  /\ stamp \in [Requests -> Hours]
  /\ raw \in [Requests -> Nat]
  /\ reply \in [Requests -> {"none", "created", "edited", "duplicate",
                             "notFound", "closed", "error"}]
  /\ report \in [Periods -> Report \cup {None}]
  /\ tokens \subseteq [id: Nat, report: Periods, expires: Nat]
  /\ drawn \in Nat
  /\ links \subseteq [token: Nat, report: Periods]
  /\ notices \in [Periods -> Nat]
  /\ hour \in Hours
  /\ created \in [Periods -> Nat]
  /\ failed \in [Periods -> BOOLEAN]
  /\ issued \in 0..MaxRequests

Init ==
  /\ pc = [r \in Requests |-> "idle"]
  /\ job = [r \in Requests |-> None]
  /\ stamp = [r \in Requests |-> 0]
  /\ raw = [r \in Requests |-> 0]
  /\ reply = [r \in Requests |-> "none"]
  /\ report = [p \in Periods |-> None]
  /\ tokens = {}
  /\ drawn = 0
  /\ links = {}
  /\ notices = [p \in Periods |-> 0]
  /\ hour = 0
  /\ created = [p \in Periods |-> 0]
  /\ failed = [p \in Periods |-> FALSE]
  /\ issued = 0

-----------------------------------------------------------------------------
(* Requests.                                                               *)

At(r, step) == pc[r] = step
Goto(r, step) == pc' = [pc EXCEPT ![r] = step] /\ UNCHANGED <<job, reply>>

Finish(r, answer) ==
  /\ pc' = [pc EXCEPT ![r] = "idle"]
  /\ job' = [job EXCEPT ![r] = None]
  /\ stamp' = [stamp EXCEPT ![r] = 0]
  /\ raw' = [raw EXCEPT ![r] = 0]
  /\ reply' = [reply EXCEPT ![r] = answer]

\* The student posts or puts a report, its type and period valid.
Accept(r, j) ==
  /\ At(r, "idle")
  /\ issued < MaxRequests
  /\ pc' = [pc EXCEPT ![r] = IF j.kind = "submit" THEN "check" ELSE "find"]
  /\ job' = [job EXCEPT ![r] = j]
  /\ reply' = [reply EXCEPT ![r] = "none"]
  /\ issued' = issued + 1
  /\ UNCHANGED <<stamp, raw, report, mails, hour, history>>

\* A call fails or the request's context ends, and the caller gets a 500.
\* Among these calls is the INSERT of a period another request has committed.
Fail(r) ==
  /\ pc[r] \in Steps \ {"notify"}
  /\ failed' = [p \in Periods |->
                  failed[p] \/ (pc[r] \in AfterCommit /\ job[r].period = p)]
  /\ Finish(r, "error")
  /\ UNCHANGED <<report, mails, hour, created, issued>>

\* The server stops and starts again: its requests are never answered.
Crash ==
  /\ failed' = [p \in Periods |->
       \/ failed[p]
       \/ \E r \in Requests : pc[r] \in AfterCommit /\ job[r].period = p]
  /\ pc' = [r \in Requests |-> "idle"]
  /\ job' = [r \in Requests |-> None]
  /\ stamp' = [r \in Requests |-> 0]
  /\ raw' = [r \in Requests |-> 0]
  /\ UNCHANGED <<reply, report, mails, hour, created, issued>>

-----------------------------------------------------------------------------
(* SubmitReport.                                                           *)

\* FindByInternshipTypeAndPeriod, outside the transaction.
CheckDuplicate(r) ==
  /\ At(r, "check")
  /\ IF report[job[r].period] # None
       THEN Finish(r, "duplicate")
       ELSE Goto(r, "begin") /\ UNCHANGED <<stamp, raw>>
  /\ UNCHANGED <<report, mails, hour, history, issued>>

\* submitted_at is taken here, before the transaction.
BeginInsert(r) ==
  /\ At(r, "begin")
  /\ stamp' = [stamp EXCEPT ![r] = hour]
  /\ Goto(r, "insert")
  /\ UNCHANGED <<raw, report, mails, hour, history, issued>>

\* An uncommitted INSERT of the period makes another one wait.
InsertWaits(r) ==
  \E q \in Requests : At(q, "commit") /\ job[q].period = job[r].period

\* Mutant: no unique constraint, the check before the transaction is all.
InsertAnyway(r) ==
  /\ At(r, "insert")
  /\ ~ InsertWaits(r)
  /\ Goto(r, "commit")
  /\ UNCHANGED <<stamp, raw, report, mails, hour, history, issued>>

\* reportRepository.Create under uq_reports_internship_type_period.
InsertReport(r) ==
  /\ At(r, "insert")
  /\ ~ InsertWaits(r)
  /\ report[job[r].period] = None
  /\ Goto(r, "commit")
  /\ UNCHANGED <<stamp, raw, report, mails, hour, history, issued>>

\* Mutant: the transaction is left to its deferred Rollback.
CommitForgotten(r) ==
  /\ At(r, "commit")
  /\ Goto(r, "notify")
  /\ UNCHANGED <<stamp, raw, report, mails, hour, history, issued>>

\* The row becomes visible.  The answer of COMMIT can be lost.
CommitReport(r) ==
  /\ At(r, "commit")
  /\ LET p == job[r].period
     IN /\ report' = [report EXCEPT ![p] =
             [content |-> job[r].content, submitted |-> stamp[r], edited |-> stamp[r]]]
        /\ \/ Goto(r, "notify") /\ UNCHANGED <<stamp, raw, failed>>
           \/ /\ Finish(r, "error")
              /\ failed' = [failed EXCEPT ![p] = TRUE]
  /\ UNCHANGED <<mails, hour, created, issued>>

\* Mutant: without an assignment or its mail, the handler returns.
NotifyFacultyOrReturn(r) ==
  /\ At(r, "notify")
  /\ \/ /\ notices' = [notices EXCEPT ![job[r].period] = @ + 1]
        /\ Goto(r, "token")
        /\ UNCHANGED <<stamp, raw>>
     \/ Finish(r, "created") /\ UNCHANGED notices
  /\ UNCHANGED <<report, tokens, drawn, links, hour, history, issued>>

\* The mail to the faculty mentor; no assignment yet, or an error, and there
\* is none and the handler goes on.
NotifyFaculty(r) ==
  /\ At(r, "notify")
  /\ \/ notices' = [notices EXCEPT ![job[r].period] = @ + 1]
     \/ UNCHANGED notices
  /\ Goto(r, "token")
  /\ UNCHANGED <<stamp, raw, report, tokens, drawn, links, hour, history, issued>>

\* GenerateToken; only the hash is stored, so the token is gone with the
\* request.  The answer of the INSERT can be lost.
GenerateToken(r) ==
  /\ At(r, "token")
  /\ LET p == job[r].period
     IN /\ tokens' = tokens \cup
             {[id |-> drawn + 1, report |-> p, expires |-> hour + Expiry]}
        /\ \/ /\ Goto(r, "queue")
              /\ raw' = [raw EXCEPT ![r] = drawn + 1]
              /\ UNCHANGED <<stamp, failed>>
           \/ /\ Finish(r, "error")
              /\ failed' = [failed EXCEPT ![p] = TRUE]
  /\ drawn' = drawn + 1
  /\ UNCHANGED <<report, links, notices, hour, created, issued>>

\* NotifyIndustryMentorReviewLink; the answer of Enqueue can be lost.
QueueLink(r) ==
  /\ At(r, "queue")
  /\ LET p == job[r].period
     IN /\ links' = links \cup {[token |-> raw[r], report |-> p]}
        /\ \/ /\ Finish(r, "created")
              /\ created' = [created EXCEPT ![p] = @ + 1]
              /\ UNCHANGED failed
           \/ /\ Finish(r, "error")
              /\ failed' = [failed EXCEPT ![p] = TRUE]
              /\ UNCHANGED created
  /\ UNCHANGED <<report, tokens, drawn, notices, hour, issued>>

-----------------------------------------------------------------------------
(* EditReport.                                                             *)

\* Mutant: the window is counted from edited_at.
FindSlidingWindow(r) ==
  /\ At(r, "find")
  /\ LET row == report[job[r].period]
     IN /\ row # None
        /\ hour - row.edited <= Window
  /\ stamp' = [stamp EXCEPT ![r] = hour]
  /\ Goto(r, "update")
  /\ UNCHANGED <<raw, report, mails, hour, history, issued>>

\* The row is read and its window checked.  EditedAt is a second time.Now(),
\* with no call between the two: they are one reading here.
FindReport(r) ==
  /\ At(r, "find")
  /\ LET row == report[job[r].period]
     IN \/ row = None /\ Finish(r, "notFound")
        \/ row # None /\ hour - row.submitted > Window /\ Finish(r, "closed")
        \/ /\ row # None
           /\ hour - row.submitted <= Window
           /\ stamp' = [stamp EXCEPT ![r] = hour]
           /\ Goto(r, "update")
           /\ UNCHANGED raw
  /\ UNCHANGED <<report, mails, hour, history, issued>>

\* Mutant: the decoded text does not reach the struct.
UpdateBlank(r) ==
  /\ At(r, "update")
  /\ report' = [report EXCEPT ![job[r].period].content = None]
  /\ Finish(r, "edited")
  /\ UNCHANGED <<mails, hour, history, issued>>

\* reportRepository.Update by id, whatever the row holds by now and however
\* late; the answer can be lost.
UpdateReport(r) ==
  /\ At(r, "update")
  /\ report' = [report EXCEPT ![job[r].period].content = job[r].content,
                              ![job[r].period].edited = stamp[r]]
  /\ Finish(r, "edited") \/ Finish(r, "error")
  /\ UNCHANGED <<mails, hour, history, issued>>

-----------------------------------------------------------------------------
(* The clock and the cleanup worker.                                       *)

Tick ==
  /\ hour < MaxHour
  /\ hour' = hour + 1
  /\ UNCHANGED <<request, report, mails, history, issued>>

\* tokenRepository.DeleteExpired, hourly.
Cleanup ==
  /\ tokens' = {t \in tokens : t.expires >= hour}
  /\ UNCHANGED <<request, report, drawn, links, notices, hour, history, issued>>

Serve(r) ==
  \/ CheckDuplicate(r) \/ BeginInsert(r) \/ InsertReport(r) \/ CommitReport(r)
  \/ NotifyFaculty(r) \/ GenerateToken(r) \/ QueueLink(r)
  \/ FindReport(r) \/ UpdateReport(r)

Next ==
  \/ \E r \in Requests :
       \/ \E j \in Job : Accept(r, j)
       \/ Serve(r)
       \/ Fail(r)
  \/ Crash
  \/ Tick
  \/ Cleanup

Spec == Init /\ [][Next]_vars

-----------------------------------------------------------------------------
(* Properties.                                                             *)

LinksOf(p) == {l \in links : l.report = p}
TokensOf(p) == {t \in tokens : t.report = p}
Submitting(p) == \E r \in Requests : pc[r] \in AfterCommit /\ job[r].period = p

\* Of racing, repeated and failing submissions of a period at most one is
\* answered 201, and then its row and its review link are there.
CreatedOnce ==
  \A p \in Periods : created[p] > 0 =>
    created[p] = 1 /\ report[p] # None /\ LinksOf(p) # {}

\* A report has at most one token, one review link and one mail to the
\* faculty mentor, and a submission that was not committed has none.
MailsMatchReport ==
  \A p \in Periods :
    /\ \A t, u \in TokensOf(p) : t = u
    /\ \A l, m \in LinksOf(p) : l = m
    /\ notices[p] <= 1
    /\ report[p] = None => notices[p] = 0 /\ LinksOf(p) = {} /\ TokensOf(p) = {}

\* Races alone, or a missing faculty mentor, never leave a report without
\* its review link: only a failure or a stop after the COMMIT does.
LinkUnlessFailed ==
  \A p \in Periods :
    report[p] # None /\ ~ failed[p] /\ ~ Submitting(p) => LinksOf(p) # {}

\* A report is never taken back, keeps its submission time, and gets another
\* text only by an edit that found its window open.
EditsInTime ==
  [][\A p \in Periods : report[p] # None /\ report'[p] # report[p] =>
       /\ report'[p] # None
       /\ report'[p].submitted = report[p].submitted
       /\ \E r \in Requests :
            /\ At(r, "update")
            /\ job[r].period = p /\ job[r].content = report'[p].content
            /\ stamp[r] - report[p].submitted <= Window]_vars

Reports == INSTANCE Filing
  WITH Times <- Hours, filed <- report, told <- notices, invited <- links

\* Submissions and edits that race, fail, are repeated or outlive the window
\* they found open, together only file reports, change them by what was sent
\* in their window, and tell each mentor once, the faculty mentor first.
ImplementsFiling == Reports!Spec

=============================================================================
