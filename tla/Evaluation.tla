------------------------------ MODULE Evaluation ------------------------------
(***************************************************************************)
(* Marks, corrections and marksheets.                                      *)
(*                                                                         *)
(* internal/services/evaluation_service.go and marksheet_service.go, run   *)
(* by concurrent HTTP requests over one Postgres pool and one directory of *)
(* PDF files.  An action is one database call, one file system call or one *)
(* COMMIT of a request: that is where another request can come in between. *)
(* Every call can fail (the connection, a constraint, the request's        *)
(* context) and the server can crash between any two of them.              *)
(***************************************************************************)
EXTENDS Naturals, FiniteSets, Sequences

CONSTANTS
  Requests,     \* the server's concurrent request slots
  Internships,
  ExamTypes,    \* domain.AllExamTypes: ISE and ESE
  Faculty,      \* users who can be assigned as mentors
  Admins,       \* users whose claims pass the ADMIN route
  Marks,        \* the rubric values of a score, remarks included
  Schedules,    \* venue and dates of an evaluation
  MaxConns,     \* pgxpool MaxConns (100 in the code)
  MaxRequests,  \* bound: requests accepted in a behaviour
  None,         \* SQL NULL, no row, no file, no job
  Empty,        \* a file os.WriteFile has truncated and not yet written
  Mixed         \* a file in which two writers' bytes overlap

Key == Internships \X ExamTypes

\* Requests as the handlers decode them.
Job ==
  [kind: {"schedule"}, actor: Faculty, at: Key, value: Schedules]
    \cup [kind: {"submit"}, actor: Faculty, at: Key, value: Marks]
    \cup [kind: {"correct"}, actor: Admins, at: Key, value: Marks]

Score == [by: Faculty, marks: Marks]
Correction == [old: Marks, new: Marks, by: Admins]
Pdf == [at: Key, sched: Schedules, marks: Marks]

NoPdf == {None, Empty, Mixed}

ASSUME ConnsAssumption == MaxConns \in Nat \ {0}
ASSUME RequestsAssumption == IsFiniteSet(Requests)
ASSUME BoundAssumption == MaxRequests \in Nat
ASSUME NoneAssumption ==
  /\ None \notin Job \cup Score \cup Schedules \cup Marks
  /\ NoPdf \cap Pdf = {}
  /\ None # Empty /\ None # Mixed /\ Empty # Mixed

VARIABLES
  pc,           \* the call a request makes next
  job,          \* the request being served
  seen,         \* what the request has read: its Go locals
  reply,        \* the last answer of the slot
  inTx,         \* requests that hold a connection with an open transaction
  mentors,      \* mentor_assignments: faculty assigned per internship
  schedule,     \* evaluation_schedules
  score,        \* evaluation_scores (the row's mark columns and submitted_by)
  corrections,  \* evaluation_corrections, in commit order
  sheet,        \* marksheets: is there a row?
  file,         \* the PDF directory, by file key
  audit,        \* audit_logs: rows per key and action
  original,     \* history: the marks first committed
  failed,       \* history: a marksheet generation of this key did not finish
  contended,    \* history: the requests now at this key overlapped in time
  issued        \* requests accepted so far (bounded by MaxRequests)

request == <<pc, job, seen, reply>>
tables == <<mentors, schedule, score, corrections, sheet>>
vars == <<pc, job, seen, reply, inTx, mentors, schedule, score, corrections,
          sheet, file, audit, original, failed, contended, issued>>
history == <<original, failed, contended>>

SubmitTx == {"insert", "auditSubmit", "commitSubmit"}
CorrectTx == {"update", "record", "commitCorrect"}
GenSteps == {"getSchedule", "getScore", "openFile", "writeFile",
             "findSheet", "createSheet"}
Steps == SubmitTx \cup CorrectTx \cup GenSteps
           \cup {"auth", "saveSchedule", "exists", "beginSubmit",
                 "read", "beginCorrect", "auditCorrect"}

Nothing == [old |-> None, sched |-> None, marks |-> None]

Seen == [old: Marks \cup {None}, sched: Schedules \cup {None},
         marks: Marks \cup {None}]

\* Mutant: one file per internship, the exam type left out of the key.
FileKeyShared(i, x) == <<i, CHOOSE y \in ExamTypes : TRUE>>

\* storage.GenerateFileKey
FileKey(i, x) == <<i, x>>
KeyOfFile(k) == FileKey(k[1], k[2])

TypeOK ==
  /\ pc \in [Requests -> Steps \cup {"idle"}]
  /\ job \in [Requests -> Job \cup {None}]
  /\ seen \in [Requests -> Seen]
  /\ reply \in [Requests -> {"none", "ok", "locked", "refused", "error"}]
  /\ inTx \subseteq Requests
  /\ mentors \in [Internships -> SUBSET Faculty]
  /\ schedule \in [Key -> Schedules \cup {None}]
  /\ score \in [Key -> Score \cup {None}]
  /\ corrections \in [Key -> Seq(Correction)]
  /\ sheet \in [Key -> BOOLEAN]
  /\ file \in [Key -> Pdf \cup NoPdf]
  /\ audit \in [Key -> [submit: Nat, correct: Nat]]
  /\ original \in [Key -> Marks \cup {None}]
  /\ failed \in [Key -> BOOLEAN]
  /\ contended \in [Key -> BOOLEAN]
  /\ issued \in 0..MaxRequests

Init ==
  /\ pc = [r \in Requests |-> "idle"]
  /\ job = [r \in Requests |-> None]
  /\ seen = [r \in Requests |-> Nothing]
  /\ reply = [r \in Requests |-> "none"]
  /\ inTx = {}
  /\ mentors = [i \in Internships |-> {}]
  /\ schedule = [k \in Key |-> None]
  /\ score = [k \in Key |-> None]
  /\ corrections = [k \in Key |-> <<>>]
  /\ sheet = [k \in Key |-> FALSE]
  /\ file = [k \in Key |-> None]
  /\ audit = [k \in Key |-> [submit |-> 0, correct |-> 0]]
  /\ original = [k \in Key |-> None]
  /\ failed = [k \in Key |-> FALSE]
  /\ contended = [k \in Key |-> FALSE]
  /\ issued = 0

-----------------------------------------------------------------------------
(* Requests, the pool, locks.                                              *)

\* A statement outside a transaction, and Begin, take a connection of the
\* pool; both wait while open transactions hold all of them.
FreeConn == Cardinality(inTx) < MaxConns

At(r, step) == pc[r] = step
Goto(r, step) ==
  /\ pc' = [pc EXCEPT ![r] = step]
  /\ UNCHANGED <<job, reply>>

Finish(r, answer) ==
  /\ pc' = [pc EXCEPT ![r] = "idle"]
  /\ job' = [job EXCEPT ![r] = None]
  /\ seen' = [seen EXCEPT ![r] = Nothing]
  /\ reply' = [reply EXCEPT ![r] = answer]

\* An uncommitted INSERT of the same (internship_id, exam_type) makes another
\* INSERT wait (uq_ev_internship_examtype); an uncommitted UPDATE of the row
\* makes another UPDATE wait.
HoldsKey(k, steps) == \E r \in inTx : pc[r] \in steps /\ job[r].at = k
InsertWaitsOnOwn(r) == HoldsKey(job[r].at, SubmitTx)  \* mutant: own lock counts
InsertWaits(r) == HoldsKey(job[r].at, {"auditSubmit", "commitSubmit"})
UpdateWaits(r) == HoldsKey(job[r].at, {"record", "commitCorrect"})

\* A request arrives, its JSON decoded and its exam type valid.
Accept(r, j) ==
  /\ At(r, "idle")
  /\ issued < MaxRequests
  /\ pc' = [pc EXCEPT ![r] = IF j.kind = "correct" THEN "read" ELSE "auth"]
  /\ job' = [job EXCEPT ![r] = j]
  /\ reply' = [reply EXCEPT ![r] = "none"]
  /\ issued' = issued + 1
  /\ contended' = [contended EXCEPT ![j.at] =
                     \E q \in Requests : pc[q] # "idle" /\ job[q].at = j.at]
  /\ UNCHANGED <<seen, inTx, tables, file, audit, original, failed>>

\* mentorAssignmentRepository.Create: rows are only ever added, and nothing
\* stops a second one for the same internship.
AssignMentor(i, f) ==
  /\ f \notin mentors[i]
  /\ mentors' = [mentors EXCEPT ![i] = @ \cup {f}]
  /\ UNCHANGED <<request, inTx, schedule, score, corrections, sheet, file,
                 audit, history, issued>>

\* Mutant: an assignment exists, whoever the mentor is.
AuthorizeAnyone(r) ==
  /\ At(r, "auth")
  /\ FreeConn
  /\ mentors[job[r].at[1]] # {}
  /\ Goto(r, IF job[r].kind = "schedule" THEN "saveSchedule" ELSE "exists")
  /\ UNCHANGED <<seen, inTx, tables, file, audit, history, issued>>

\* FindByInternshipID returns one row, any row, of the internship's; the
\* caller must be its mentor.
Authorize(r) ==
  /\ At(r, "auth")
  /\ FreeConn
  /\ LET i == job[r].at[1]
     IN \/ /\ job[r].actor \in mentors[i]
           /\ Goto(r, IF job[r].kind = "schedule" THEN "saveSchedule" ELSE "exists")
           /\ UNCHANGED seen
        \/ /\ mentors[i] \ {job[r].actor} # {} \/ mentors[i] = {}
           /\ Finish(r, "refused")
  /\ UNCHANGED <<inTx, tables, file, audit, history, issued>>

\* Mutant: the decoded request is stored where its value belongs.
SaveScheduleWhole(r) ==
  /\ At(r, "saveSchedule")
  /\ FreeConn
  /\ schedule' = [schedule EXCEPT ![job[r].at] = job[r]]
  /\ Finish(r, "ok")
  /\ UNCHANGED <<inTx, mentors, score, corrections, sheet, file, audit,
                 history, issued>>

\* evaluationRepository.SetSchedule: an upsert, whether or not marks exist.
SaveSchedule(r) ==
  /\ At(r, "saveSchedule")
  /\ FreeConn
  /\ schedule' = [schedule EXCEPT ![job[r].at] = job[r].value]
  /\ Finish(r, "ok")
  /\ UNCHANGED <<inTx, mentors, score, corrections, sheet, file, audit,
                 history, issued>>

-----------------------------------------------------------------------------
(* SubmitMarks.                                                            *)

\* Mutant: a repeated submission is answered like the first.
CheckExistingIdempotent(r) ==
  /\ At(r, "exists")
  /\ FreeConn
  /\ IF score[job[r].at] # None
       THEN Finish(r, "ok")
       ELSE Goto(r, "beginSubmit") /\ UNCHANGED seen
  /\ UNCHANGED <<inTx, tables, file, audit, history, issued>>

\* The "already submitted" check.  An error of the query is taken for "no".
CheckExisting(r) ==
  /\ At(r, "exists")
  /\ \/ /\ FreeConn
        /\ score[job[r].at] # None
        /\ Finish(r, "locked")
     \/ /\ Goto(r, "beginSubmit")
        /\ UNCHANGED seen
  /\ UNCHANGED <<inTx, tables, file, audit, history, issued>>

BeginSubmit(r) ==
  /\ At(r, "beginSubmit")
  /\ FreeConn
  /\ inTx' = inTx \cup {r}
  /\ Goto(r, "insert")
  /\ UNCHANGED <<seen, tables, file, audit, history, issued>>

\* Mutant: ON CONFLICT DO UPDATE, as SetSchedule's statement has.
InsertScoreUpsert(r) ==
  /\ At(r, "insert")
  /\ ~ InsertWaits(r)
  /\ Goto(r, "auditSubmit")
  /\ UNCHANGED <<seen, inTx, tables, file, audit, history, issued>>

\* SubmitScores inside the transaction; a committed row fails it (Fail).
InsertScore(r) ==
  /\ At(r, "insert")
  /\ ~ InsertWaits(r)
  /\ score[job[r].at] = None
  /\ Goto(r, "auditSubmit")
  /\ UNCHANGED <<seen, inTx, tables, file, audit, history, issued>>

\* auditRepo.Create on the global pool: a second connection, committed at
\* once, its error dropped.
AuditSubmit(r) ==
  /\ At(r, "auditSubmit")
  /\ \/ /\ FreeConn
        /\ audit' = [audit EXCEPT ![job[r].at].submit = @ + 1]
     \/ UNCHANGED audit
  /\ Goto(r, "commitSubmit")
  /\ UNCHANGED <<seen, inTx, tables, file, history, issued>>

\* The row becomes visible.  The answer of COMMIT can be lost.
CommitSubmit(r) ==
  /\ At(r, "commitSubmit")
  /\ LET k == job[r].at
     IN /\ score' = [score EXCEPT ![k] = [by |-> job[r].actor, marks |-> job[r].value]]
        /\ original' = [original EXCEPT ![k] = job[r].value]
        /\ \/ /\ Goto(r, "getSchedule")
              /\ UNCHANGED <<seen, failed>>
           \/ /\ Finish(r, "error")
              /\ failed' = [failed EXCEPT ![k] = TRUE]
  /\ inTx' = inTx \ {r}
  /\ UNCHANGED <<mentors, schedule, corrections, sheet, file, audit,
                 contended, issued>>

-----------------------------------------------------------------------------
(* CorrectMarks.                                                           *)

\* The score is read before the transaction begins.
ReadOld(r) ==
  /\ At(r, "read")
  /\ FreeConn
  /\ LET k == job[r].at
     IN \/ /\ score[k] # None
           /\ seen' = [seen EXCEPT ![r].old = score[k].marks]
           /\ Goto(r, "beginCorrect")
        \/ /\ score[k] = None
           /\ Finish(r, "refused")
  /\ UNCHANGED <<inTx, tables, file, audit, history, issued>>

BeginCorrect(r) ==
  /\ At(r, "beginCorrect")
  /\ FreeConn
  /\ inTx' = inTx \cup {r}
  /\ Goto(r, "update")
  /\ UNCHANGED <<seen, tables, file, audit, history, issued>>

\* Mutant: the transaction's error is dropped and the handler goes on.
UpdateScoreUnchecked(r) ==
  /\ At(r, "update")
  /\ ~ UpdateWaits(r)
  /\ \/ Goto(r, "record") /\ UNCHANGED inTx
     \/ Goto(r, "auditCorrect") /\ inTx' = inTx \ {r}
  /\ UNCHANGED <<seen, tables, file, audit, history, issued>>

UpdateScore(r) ==
  /\ At(r, "update")
  /\ ~ UpdateWaits(r)
  /\ Goto(r, "record")
  /\ UNCHANGED <<seen, inTx, tables, file, audit, history, issued>>

CreateCorrection(r) ==
  /\ At(r, "record")
  /\ Goto(r, "commitCorrect")
  /\ UNCHANGED <<seen, inTx, tables, file, audit, history, issued>>

\* Mutant: the old scores are marshalled after the struct was overwritten.
CommitCorrectLateOld(r) ==
  /\ At(r, "commitCorrect")
  /\ LET k == job[r].at
     IN /\ score' = [score EXCEPT ![k].marks = job[r].value]
        /\ corrections' = [corrections EXCEPT ![k] =
             Append(@, [old |-> job[r].value, new |-> job[r].value, by |-> job[r].actor])]
  /\ Goto(r, "auditCorrect")
  /\ inTx' = inTx \ {r}
  /\ UNCHANGED <<seen, mentors, schedule, sheet, file, audit, history, issued>>

\* Both statements of the transaction take effect.
CommitCorrect(r) ==
  /\ At(r, "commitCorrect")
  /\ LET k == job[r].at
     IN /\ score' = [score EXCEPT ![k].marks = job[r].value]
        /\ corrections' = [corrections EXCEPT ![k] =
             Append(@, [old |-> seen[r].old, new |-> job[r].value, by |-> job[r].actor])]
        /\ \/ /\ Goto(r, "auditCorrect")
              /\ UNCHANGED <<seen, failed>>
           \/ /\ Finish(r, "error")
              /\ failed' = [failed EXCEPT ![k] = TRUE]
  /\ inTx' = inTx \ {r}
  /\ UNCHANGED <<mentors, schedule, sheet, file, audit, original,
                 contended, issued>>

\* The audit error is dropped again.
AuditCorrect(r) ==
  /\ At(r, "auditCorrect")
  /\ \/ /\ FreeConn
        /\ audit' = [audit EXCEPT ![job[r].at].correct = @ + 1]
     \/ UNCHANGED audit
  /\ Goto(r, "getSchedule")
  /\ UNCHANGED <<seen, inTx, tables, file, history, issued>>

-----------------------------------------------------------------------------
(* GenerateMarksheet, the tail of both.                                    *)

GetSchedule(r) ==
  /\ At(r, "getSchedule")
  /\ FreeConn
  /\ schedule[job[r].at] # None
  /\ seen' = [seen EXCEPT ![r].sched = schedule[job[r].at]]
  /\ Goto(r, "getScore")
  /\ UNCHANGED <<inTx, tables, file, audit, history, issued>>

\* Mutant: a marksheet that has a row is not rendered again.
GetScoreOnce(r) ==
  /\ At(r, "getScore")
  /\ FreeConn
  /\ IF sheet[job[r].at]
       THEN Finish(r, "ok")
       ELSE /\ seen' = [seen EXCEPT ![r].marks = score[job[r].at].marks]
            /\ Goto(r, "openFile")
  /\ UNCHANGED <<inTx, tables, file, audit, history, issued>>

GetScore(r) ==
  /\ At(r, "getScore")
  /\ FreeConn
  /\ score[job[r].at] # None
  /\ seen' = [seen EXCEPT ![r].marks = score[job[r].at].marks]
  /\ Goto(r, "openFile")
  /\ UNCHANGED <<inTx, tables, file, audit, history, issued>>

\* storage.Save is os.WriteFile: it truncates, then writes.
OpenFile(r) ==
  /\ At(r, "openFile")
  /\ file' = [file EXCEPT ![KeyOfFile(job[r].at)] = Empty]
  /\ Goto(r, "writeFile")
  /\ UNCHANGED <<seen, inTx, tables, audit, history, issued>>

\* Over bytes another writer left since the truncation, the longer of the two
\* documents keeps its tail.
WriteFile(r) ==
  /\ At(r, "writeFile")
  /\ LET f == KeyOfFile(job[r].at)
         pdf == [at |-> job[r].at, sched |-> seen[r].sched, marks |-> seen[r].marks]
     IN \/ file' = [file EXCEPT ![f] = pdf]
        \/ /\ file[f] # Empty
           /\ file' = [file EXCEPT ![f] = Mixed]
  /\ Goto(r, "findSheet")
  /\ UNCHANGED <<seen, inTx, tables, audit, history, issued>>

\* Mutant: an error of the query is taken for "there is one".
FindSheetOptimist(r) ==
  /\ At(r, "findSheet")
  /\ \/ Finish(r, "ok")
     \/ ~ sheet[job[r].at] /\ Goto(r, "createSheet") /\ UNCHANGED seen
  /\ UNCHANGED <<inTx, tables, file, audit, history, issued>>

\* An error of the query is taken for "no row".
FindSheet(r) ==
  /\ At(r, "findSheet")
  /\ \/ /\ FreeConn
        /\ sheet[job[r].at]
        /\ Finish(r, "ok")
     \/ /\ Goto(r, "createSheet")
        /\ UNCHANGED seen
  /\ UNCHANGED <<inTx, tables, file, audit, history, issued>>

\* marksheets.evaluation_score_id is UNIQUE: a second row fails (Fail).
CreateSheet(r) ==
  /\ At(r, "createSheet")
  /\ FreeConn
  /\ ~ sheet[job[r].at]
  /\ sheet' = [sheet EXCEPT ![job[r].at] = TRUE]
  /\ Finish(r, "ok")
  /\ UNCHANGED <<inTx, mentors, schedule, score, corrections, file, audit,
                 history, issued>>

-----------------------------------------------------------------------------
(* Failure.                                                                *)

\* The call returns an error the code passes on; the deferred Rollback closes
\* the transaction.
Abort(r) ==
  /\ Finish(r, "error")
  /\ inTx' = inTx \ {r}
  /\ failed' = IF pc[r] \in GenSteps
                 THEN [failed EXCEPT ![job[r].at] = TRUE] ELSE failed
  /\ UNCHANGED <<tables, file, audit, original, contended, issued>>

\* Any call can fail: the connection, a CHECK, the request's context, the
\* renderer, the disk.  Calls whose error is ignored have that outcome in
\* their own action.
Fail(r) ==
  /\ pc[r] \notin {"idle", "exists", "auditSubmit", "auditCorrect", "findSheet"}
  /\ Abort(r)

\* Calls the data make fail: a unique constraint, a schedule never set.
Rejected(r) ==
  /\ \/ At(r, "insert") /\ ~ InsertWaits(r) /\ score[job[r].at] # None
     \/ At(r, "getSchedule") /\ FreeConn /\ schedule[job[r].at] = None
     \/ At(r, "createSheet") /\ FreeConn /\ sheet[job[r].at]
  /\ Abort(r)

\* Steps after the commit, at which a stop leaves the marksheet undone.
Unfinished == GenSteps \cup {"auditCorrect"}

\* The process stops and restarts: requests are gone, Postgres rolls back
\* what was open, files stay as they are.
Crash ==
  /\ pc' = [r \in Requests |-> "idle"]
  /\ job' = [r \in Requests |-> None]
  /\ seen' = [r \in Requests |-> Nothing]
  /\ reply' = [r \in Requests |-> "none"]
  /\ inTx' = {}
  /\ failed' = [k \in Key |-> failed[k] \/
                 \E r \in Requests : pc[r] \in Unfinished /\ job[r].at = k]
  /\ UNCHANGED <<tables, file, audit, original, contended, issued>>

-----------------------------------------------------------------------------

\* The steps a running server takes of its own accord.
Serve(r) ==
  \/ Authorize(r) \/ SaveSchedule(r)
  \/ CheckExisting(r) \/ BeginSubmit(r) \/ InsertScore(r) \/ AuditSubmit(r)
  \/ CommitSubmit(r)
  \/ ReadOld(r) \/ BeginCorrect(r) \/ UpdateScore(r) \/ CreateCorrection(r)
  \/ CommitCorrect(r) \/ AuditCorrect(r)
  \/ GetSchedule(r) \/ GetScore(r) \/ OpenFile(r) \/ WriteFile(r)
  \/ FindSheet(r) \/ CreateSheet(r)
  \/ Rejected(r)

Next ==
  \/ \E r \in Requests, j \in Job : Accept(r, j)
  \/ \E i \in Internships, f \in Faculty : AssignMentor(i, f)
  \/ \E r \in Requests : Serve(r)
  \/ \E r \in Requests : Fail(r)
  \/ Crash

Spec == Init /\ [][Next]_vars

\* A request's goroutine runs on, and Postgres and the disk answer, unless the
\* server crashes; users need not send requests and nothing need fail.
FairSpec == Spec /\ \A r \in Requests : WF_vars(Serve(r))

-----------------------------------------------------------------------------
(* Properties.                                                             *)

Answers(r, answer) == pc[r] # "idle" /\ pc'[r] = "idle" /\ reply'[r] = answer

\* The marks a key has had: those submitted and each correction's.
MarksHad(k) == {original[k]} \cup {corrections[k][n].new : n \in 1..Len(corrections[k])}

\* The correction history accounts for the score row: with no correction the
\* row has the marks first submitted, otherwise the first correction kept
\* those as its old marks and the last one's new marks are the live ones
\* (CorrectMarks reads the score outside its transaction, so the chain in
\* between can break; its two ends cannot).
HistoryMatchesScore ==
  \A k \in Key : score[k] # None =>
    IF corrections[k] = <<>>
      THEN score[k].marks = original[k]
      ELSE /\ corrections[k][1].old = original[k]
           /\ corrections[k][Len(corrections[k])].new = score[k].marks

\* Once committed, a score is never deleted or handed to another submitter,
\* and its marks change only together with a new correction row: racing
\* SubmitMarks calls that both passed the "already submitted" check included.
LockedMarksStay ==
  [][\A k \in Key : score[k] # None /\ score'[k] # score[k] =>
       /\ score'[k] # None
       /\ score'[k].by = score[k].by
       /\ Len(corrections'[k]) = Len(corrections[k]) + 1]_vars

Marksheets == INSTANCE Ledger WITH row <- score, trail <- corrections

\* Through all races, failures and crashes the committed rows are a ledger:
\* marks entered once and corrected one at a time, every correction naming
\* old marks that had been in force, if not always the ones it replaced.
ImplementsLedger == Marksheets!Spec

\* A faculty member told "created" is the one whose marks were locked first,
\* whatever else raced, failed or crashed.
OkSubmitKept ==
  [][\A r \in Requests : Answers(r, "ok") /\ job[r].kind = "submit" =>
       /\ original'[job[r].at] = job[r].value
       /\ score'[job[r].at].by = job[r].actor]_vars

\* A marksheet row never points at a missing file, and a readable file under
\* a key shows marks that key really had, committed: never another exam
\* type's, never rolled back ones.
PdfWasLive ==
  \A k \in Key :
    /\ sheet[k] => file[KeyOfFile(k)] # None
    /\ file[KeyOfFile(k)] \in Pdf =>
         /\ score[k] # None
         /\ file[KeyOfFile(k)].at = k
         /\ file[KeyOfFile(k)].marks \in MarksHad(k)

\* When requests for a key do not overlap, an OK answer to SubmitMarks or
\* CorrectMarks means the stored PDF shows the live marks and schedule and a
\* marksheet row leads to it, even if an earlier generation was cut short.
OkMeansFreshPdf ==
  [][\A r \in Requests :
       /\ Answers(r, "ok")
       /\ job[r].kind \in {"submit", "correct"}
       /\ ~ contended[job[r].at]
       => LET k == job[r].at
          IN /\ sheet'[k]
             /\ file'[KeyOfFile(k)] =
                  [at |-> k, sched |-> schedule'[k], marks |-> score'[k].marks]]_vars

\* When requests for a key do not overlap, the correction row keeps exactly
\* the marks its update replaces, although they were read three calls before.
CorrectionExact ==
  [][\A k \in Key : corrections'[k] # corrections[k] /\ ~ contended[k] =>
       corrections'[k][Len(corrections'[k])].old = score[k].marks]_vars

Quiet(k) == \A r \in Requests : pc[r] = "idle" \/ job[r].at # k

\* Locked marks with nobody working on them have their marksheet, unless a
\* generation failed or the server stopped during one: overlapping requests
\* alone never leave the row or the file missing.
MarksheetUnlessFailed ==
  \A k \in Key : score[k] # None /\ Quiet(k) /\ ~ failed[k] =>
    sheet[k] /\ file[KeyOfFile(k)] # None

\* The audit log never tells of a correction that was not committed (it can
\* miss one: the audit error is dropped).
AuditNeverAhead ==
  \A k \in Key : audit[k].correct <= Len(corrections[k])

\* Marks are only ever submitted by a mentor of the internship, although the
\* assignment is read calls before the insert and others may be assigned
\* meanwhile.
ScoredByMentor ==
  \A k \in Key : score[k] # None => score[k].by \in mentors[k[1]]

\* Every request accepted is answered or dies with the server, as long as the
\* pool has a connection more than there are requests.
EveryRequestAnswered ==
  \A r \in Requests : (pc[r] # "idle") ~> (pc[r] = "idle")

\* The old values survive: each correction's old marks are the ones its
\* update replaced (evaluation_service.go:210-213).
OldMarksSurvive ==
  \A k \in Key : \A n \in 2..Len(corrections[k]) :
    corrections[k][n].old = corrections[k][n - 1].new

\* The PDF is regenerated "so the downloadable document reflects the corrected
\* marks" (evaluation_service.go:239-240): after an OK answer to a correction,
\* with nobody else working on the key, a whole document shows the live marks.
CorrectionReachesPdf ==
  [][\A r \in Requests, k \in Key :
       Answers(r, "ok") /\ job[r].kind = "correct" /\ job[r].at = k /\ Quiet(k)' =>
         (file'[KeyOfFile(k)] \in Pdf => file'[KeyOfFile(k)].marks = score'[k].marks)]_vars

\* The audit row on the global pool inside the transaction "is fine"
\* (evaluation_service.go:117-118): the transactions holding all connections
\* do not all wait for a second one for their audit row.
AuditRowIsFine == ~ (~ FreeConn /\ \A r \in inTx : At(r, "auditSubmit"))

\* The transactions holding all connections do not all wait, for another
\* connection or for the row of one that does.
PoolNeverStuck ==
  ~ /\ ~ FreeConn
    /\ \A r \in inTx : At(r, "auditSubmit") \/ (At(r, "insert") /\ InsertWaits(r))

\* The calls that take a connection of the pool while they run.
PoolCalls == {"auth", "saveSchedule", "exists", "beginSubmit", "auditSubmit",
              "read", "beginCorrect", "auditCorrect"}
               \cup (GenSteps \ {"openFile", "writeFile"})

\* The call of request r cannot be answered: no connection is free, another
\* transaction has the lock, or what the handler takes for granted is not there.
Blocked(r) ==
  \/ pc[r] \in PoolCalls /\ ~ FreeConn
  \/ At(r, "insert") /\ InsertWaits(r)
  \/ At(r, "update") /\ UpdateWaits(r)
  \/ At(r, "getScore") /\ score[job[r].at] = None

\* Everyone waiting on everyone has one cause, the pool: the locks of racing
\* INSERTs and UPDATEs alone never close a circle, and as long as the pool is
\* not full of submissions that want a second connection, somebody goes on.
OnlyThePoolBlocks ==
  (\E r \in Requests : pc[r] # "idle") /\ PoolNeverStuck =>
    \E r \in Requests : pc[r] # "idle" /\ ~ Blocked(r)

=============================================================================
