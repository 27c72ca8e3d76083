--------------------------- MODULE EvaluationProofs ---------------------------
(***************************************************************************)
(* Evaluation, for any number of requests, internships, exam types, marks  *)
(* and connections: type correctness, the two ends of the correction       *)
(* history, the marksheet and its file, who submitted, what a step may do  *)
(* to locked marks; that the whole is a Ledger; and that requests wait on  *)
(* each other for the pool only.                                           *)
(*                                                                         *)
(* What a request relies on at a call is what its earlier calls read or    *)
(* did.  Slot(r) says what that is per program counter.  No step of        *)
(* another request takes it away, because rows and files are never         *)
(* deleted (Grows); the one exception, that a key still has no score,      *)
(* rests on the unique constraint (OneInsert).                             *)
(***************************************************************************)
EXTENDS Evaluation, SequenceTheorems, FiniteSetTheorems, TLAPS

Replies == {"none", "ok", "locked", "refused", "error"}
OldSteps == {"beginCorrect"} \cup CorrectTx
Inserted == {"auditSubmit", "commitSubmit"}
SubmitSteps == {"exists", "beginSubmit"} \cup SubmitTx
RenderSteps == {"openFile", "writeFile"}

\* What request r relies on at its next call.
Slot(r) ==
  LET k == job[r].at
  IN /\ pc[r] = "idle" <=> job[r] = None
     /\ r \in inTx <=> pc[r] \in SubmitTx \cup CorrectTx
     /\ pc[r] = "auth" => job[r].kind \in {"schedule", "submit"}
     /\ pc[r] = "saveSchedule" => job[r].kind = "schedule"
     /\ pc[r] \in SubmitSteps =>
          job[r].kind = "submit" /\ job[r].actor \in mentors[k[1]]
     /\ pc[r] \in OldSteps \cup {"read", "auditCorrect"} => job[r].kind = "correct"
     /\ pc[r] \in OldSteps =>
          /\ score[k] # None
          /\ seen[r].old \in Marks /\ seen[r].old \in MarksHad(k)
          /\ corrections[k] = <<>> => seen[r].old = original[k]
     /\ pc[r] \in Unfinished => score[k] # None
     /\ pc[r] \in GenSteps => job[r].kind \in {"submit", "correct"}
     /\ pc[r] \in GenSteps /\ job[r].kind = "submit" =>
          original[k] = job[r].value /\ score[k].by = job[r].actor
     /\ pc[r] \in RenderSteps \cup {"getScore"} => seen[r].sched \in Schedules
     /\ pc[r] \in RenderSteps => seen[r].marks \in MarksHad(k)
     /\ pc[r] \in {"writeFile", "findSheet", "createSheet"} => file[k] # None

\* The uncommitted row of a key is the only one, and none is committed.
OneInsert ==
  \A r \in Requests : pc[r] \in Inserted =>
    /\ score[job[r].at] = None
    /\ \A q \in Requests : pc[q] \in Inserted /\ job[q].at = job[r].at => q = r

\* Only a key with a score row has a history.
Unscored ==
  \A k \in Key :
    /\ score[k] = None <=> original[k] = None
    /\ score[k] = None => corrections[k] = <<>>

\* PdfWasLive, with the key itself for the file's name.
PdfInv ==
  \A k \in Key :
    /\ sheet[k] => file[k] # None
    /\ file[k] \in Pdf =>
         score[k] # None /\ file[k].at = k /\ file[k].marks \in MarksHad(k)

\* Locked marks have their marksheet, a generation that failed, or a request
\* still on its way through one.
Covered ==
  \A k \in Key : score[k] # None /\ ~ failed[k] =>
    \/ sheet[k] /\ file[k] # None
    \/ \E r \in Requests : pc[r] \in Unfinished /\ job[r].at = k

Rows == Unscored /\ HistoryMatchesScore /\ PdfInv /\ ScoredByMentor

IInv == TypeOK /\ (\A r \in Requests : Slot(r)) /\ OneInsert /\ Rows /\ Covered

-----------------------------------------------------------------------------
(* Steps, as far as other requests can tell.                               *)

SlotSame(q) ==
  /\ pc'[q] = pc[q]
  /\ job'[q] = job[q]
  /\ seen'[q] = seen[q]
  /\ q \in inTx' <=> q \in inTx

Grows ==
  /\ \A i \in Internships : mentors[i] \subseteq mentors'[i]
  /\ \A k \in Key :
       /\ score[k] # None =>
            /\ score'[k] # None
            /\ score'[k].by = score[k].by
            /\ original'[k] = original[k]
            /\ MarksHad(k) \subseteq MarksHad(k)'
       /\ corrections'[k] = <<>> => corrections[k] = <<>>
       /\ file[k] # None => file'[k] # None

LEMMA FileOfKey == ASSUME NEW k \in Key PROVE KeyOfFile(k) = k
BY DEF KeyOfFile, FileKey, Key

LEMMA PdfInvSuffices == PdfInv => PdfWasLive
BY FileOfKey DEF PdfInv, PdfWasLive

LEMMA Busy ==
  ASSUME TypeOK, NEW r \in Requests, Slot(r), pc[r] # "idle"
  PROVE  /\ job[r] \in Job /\ job[r] # None
         /\ job[r].at \in Key /\ job[r].at[1] \in Internships
         /\ job[r].kind \in {"schedule", "submit", "correct"}
         /\ job[r].kind = "schedule" =>
              job[r].actor \in Faculty /\ job[r].value \in Schedules
         /\ job[r].kind = "submit" =>
              job[r].actor \in Faculty /\ job[r].value \in Marks
         /\ job[r].kind = "correct" =>
              job[r].actor \in Admins /\ job[r].value \in Marks
<1>1. job[r] \in Job /\ job[r] # None
  BY DEF TypeOK, Slot
<1>2. job[r].at \in Key
  BY <1>1 DEF Job
<1> QED
  BY <1>1, <1>2 DEF Job, Key

\* A slot keeps what it relies on through any step of the others.
LEMMA SlotStable ==
  ASSUME TypeOK, NEW q \in Requests, Slot(q), SlotSame(q), Grows
  PROVE  Slot(q)'
<1>1. CASE pc[q] = "idle"
  BY <1>1 DEF Slot, SlotSame, SubmitTx, CorrectTx, SubmitSteps, OldSteps,
       Unfinished, GenSteps, RenderSteps
<1>2. CASE pc[q] # "idle"
  <2>1. PICK k \in Key : k = job[q].at /\ k[1] \in Internships
    BY <1>2, Busy
  <2>2. pc[q] \in SubmitSteps => job[q].actor \in mentors'[k[1]]
    BY <2>1 DEF Slot, Grows
  <2>3. pc[q] \in OldSteps =>
          /\ score'[k] # None
          /\ corrections'[k] = <<>> => seen[q].old = original'[k]
    BY <2>1 DEF Slot, Grows
  <2>4. pc[q] \in Unfinished \cup OldSteps =>
          /\ score'[k] # None
          /\ score'[k].by = score[k].by
          /\ original'[k] = original[k]
          /\ MarksHad(k) \subseteq MarksHad(k)'
    BY <2>1 DEF Slot, Grows
  <2>5. file[k] # None => file'[k] # None
    BY <2>1 DEF Grows
  <2>6. pc'[q] = pc[q] /\ job'[q] = job[q] /\ seen'[q] = seen[q]
    BY DEF SlotSame
  <2>7. /\ pc[q] \in RenderSteps => seen'[q].marks \in MarksHad(job[q].at)'
        /\ pc[q] \in OldSteps => seen'[q].old \in MarksHad(job[q].at)'
    <3>1. /\ pc[q] \in RenderSteps => seen[q].marks \in MarksHad(k)
          /\ pc[q] \in OldSteps => seen[q].old \in MarksHad(k)
      BY <2>1 DEF Slot
    <3>2. pc[q] \in RenderSteps \cup OldSteps => MarksHad(k) \subseteq MarksHad(k)'
      BY <2>4 DEF RenderSteps, Unfinished, GenSteps
    <3>3. job'[q].at = k
      BY <2>1, <2>6
    <3>4. MarksHad(job[q].at)' = MarksHad(k)'
      BY <3>3 DEF MarksHad
    <3> QED
      BY <3>1, <3>2, <3>4, <2>6
  <2>8. (q \in inTx') <=> (pc'[q] \in SubmitTx \cup CorrectTx)
    <3>1. (q \in inTx) <=> (pc[q] \in SubmitTx \cup CorrectTx)
      BY DEF Slot
    <3> QED
      BY <3>1, <2>6 DEF SlotSame
  <2> QED
    BY <2>1, <2>2, <2>3, <2>4, <2>5, <2>6, <2>7, <2>8
    DEF Slot, Unfinished, RenderSteps, GenSteps
<1> QED
  BY <1>1, <1>2

LEMMA RowsKept ==
  ASSUME Rows, UNCHANGED <<mentors, score, corrections, sheet, file, original>>
  PROVE  Rows' /\ Grows
<1>1. Unscored' /\ HistoryMatchesScore' /\ ScoredByMentor'
  BY DEF Rows, Unscored, HistoryMatchesScore, ScoredByMentor
<1>2. PdfInv'
  BY DEF Rows, PdfInv, MarksHad
<1>3. Grows
  BY DEF Grows, MarksHad
<1> QED
  BY <1>1, <1>2, <1>3 DEF Rows

\* A step of request r preserves the invariant when it gives r what its next
\* call relies on and respects what everybody shares.
LEMMA Composed ==
  ASSUME IInv, NEW r \in Requests, TypeOK', Slot(r)', Grows,
         \A q \in Requests \ {r} : SlotSame(q),
         OneInsert', Rows', Covered'
  PROVE  IInv'
<1>1. ASSUME NEW q \in Requests
      PROVE  Slot(q)'
  <2>1. CASE q = r
    BY <2>1
  <2>2. CASE q # r
    BY <2>2, SlotStable DEF IInv
  <2> QED
    BY <2>1, <2>2
<1> QED
  BY <1>1 DEF IInv

\* A step that writes no row and no file another request relies on.
LEMMA LocalStep ==
  ASSUME IInv, NEW r \in Requests, TypeOK', Slot(r)',
         \A q \in Requests \ {r} : SlotSame(q),
         UNCHANGED <<mentors, score, corrections, sheet, file, original>>,
         \A k \in Key : failed[k] => failed'[k],
         pc'[r] \in Inserted => pc[r] \in Inserted /\ job'[r] = job[r],
         pc[r] \in Unfinished =>
           \/ pc'[r] \in Unfinished /\ job'[r] = job[r]
           \/ failed'[job[r].at]
           \/ sheet[job[r].at] /\ file[job[r].at] # None
  PROVE  IInv'
<1>1. Rows' /\ Grows
  BY RowsKept DEF IInv
<1>2. OneInsert'
  BY DEF IInv, OneInsert, SlotSame
<1>3. Covered'
  <2> SUFFICES ASSUME NEW k \in Key, score'[k] # None, ~ failed'[k]
               PROVE  \/ sheet'[k] /\ file'[k] # None
                      \/ \E q \in Requests : pc'[q] \in Unfinished /\ job'[q].at = k
    BY DEF Covered
  <2>1. CASE sheet[k] /\ file[k] # None
    BY <2>1
  <2>2. CASE \E q \in Requests : pc[q] \in Unfinished /\ job[q].at = k
    BY <2>2 DEF SlotSame
  <2> QED
    BY <2>1, <2>2 DEF IInv, Covered
<1> QED
  BY <1>1, <1>2, <1>3, Composed

LEMMA GotoEffect ==
  ASSUME TypeOK, NEW r \in Requests, NEW s \in Steps, Goto(r, s)
  PROVE  /\ pc' \in [Requests -> Steps \cup {"idle"}]
         /\ job' \in [Requests -> Job \cup {None}]
         /\ reply' \in [Requests -> Replies]
         /\ pc'[r] = s /\ job'[r] = job[r]
         /\ \A q \in Requests \ {r} : pc'[q] = pc[q] /\ job'[q] = job[q]
BY DEF TypeOK, Goto, Replies

LEMMA FinishEffect ==
  ASSUME TypeOK, NEW r \in Requests, NEW a \in Replies, Finish(r, a)
  PROVE  /\ pc' \in [Requests -> Steps \cup {"idle"}]
         /\ job' \in [Requests -> Job \cup {None}]
         /\ seen' \in [Requests -> Seen]
         /\ reply' \in [Requests -> Replies]
         /\ pc'[r] = "idle" /\ job'[r] = None
         /\ \A q \in Requests \ {r} :
              pc'[q] = pc[q] /\ job'[q] = job[q] /\ seen'[q] = seen[q]
<1>1. Nothing \in Seen
  BY DEF Nothing, Seen
<1> QED
  BY <1>1 DEF TypeOK, Finish, Replies

\* What a read leaves in a request's locals.
LEMMA SeenUpdate ==
  ASSUME TypeOK, NEW r \in Requests
  PROVE  /\ \A v \in Marks : seen' = [seen EXCEPT ![r].old = v] =>
              /\ seen' \in [Requests -> Seen] /\ seen'[r].old = v
              /\ \A q \in Requests \ {r} : seen'[q] = seen[q]
         /\ \A v \in Schedules : seen' = [seen EXCEPT ![r].sched = v] =>
              /\ seen' \in [Requests -> Seen] /\ seen'[r].sched = v
              /\ \A q \in Requests \ {r} : seen'[q] = seen[q]
         /\ \A v \in Marks : seen' = [seen EXCEPT ![r].marks = v] =>
              /\ seen' \in [Requests -> Seen] /\ seen'[r].marks = v
              /\ seen'[r].sched = seen[r].sched
              /\ \A q \in Requests \ {r} : seen'[q] = seen[q]
<1>1. seen \in [Requests -> Seen]
  BY DEF TypeOK
<1>2. ASSUME NEW v \in Marks, seen' = [seen EXCEPT ![r].old = v]
      PROVE  /\ seen' \in [Requests -> Seen] /\ seen'[r].old = v
             /\ \A q \in Requests \ {r} : seen'[q] = seen[q]
  BY <1>1, <1>2 DEF Seen
<1>3. ASSUME NEW v \in Schedules, seen' = [seen EXCEPT ![r].sched = v]
      PROVE  /\ seen' \in [Requests -> Seen] /\ seen'[r].sched = v
             /\ \A q \in Requests \ {r} : seen'[q] = seen[q]
  BY <1>1, <1>3 DEF Seen
<1>4. ASSUME NEW v \in Marks, seen' = [seen EXCEPT ![r].marks = v]
      PROVE  /\ seen' \in [Requests -> Seen] /\ seen'[r].marks = v
             /\ seen'[r].sched = seen[r].sched
             /\ \A q \in Requests \ {r} : seen'[q] = seen[q]
  BY <1>1, <1>4 DEF Seen
<1> QED
  BY <1>2, <1>3, <1>4

LEMMA AuditUpdate ==
  ASSUME TypeOK, NEW k \in Key,
         \/ audit' = [audit EXCEPT ![k].submit = @ + 1]
         \/ audit' = [audit EXCEPT ![k].correct = @ + 1]
         \/ UNCHANGED audit
  PROVE  audit' \in [Key -> [submit: Nat, correct: Nat]]
<1>1. audit \in [Key -> [submit: Nat, correct: Nat]]
  BY DEF TypeOK
<1>2. CASE audit' = [audit EXCEPT ![k].submit = @ + 1]
  BY <1>1, <1>2
<1>3. CASE audit' = [audit EXCEPT ![k].correct = @ + 1]
  BY <1>1, <1>3
<1> QED
  BY <1>1, <1>2, <1>3

\* An idle slot relies on nothing.
LEMMA IdleSlot ==
  ASSUME NEW r \in Requests, pc'[r] = "idle", job'[r] = None, r \notin inTx'
  PROVE  Slot(r)'
BY DEF Slot, SubmitTx, CorrectTx, SubmitSteps, OldSteps, Unfinished, GenSteps,
       RenderSteps

\* Answering a request.
LEMMA FinishStep ==
  ASSUME IInv, NEW r \in Requests, NEW a \in Replies, Finish(r, a),
         inTx' = inTx \ {r},
         schedule' \in [Key -> Schedules \cup {None}],
         failed' \in [Key -> BOOLEAN], \A k \in Key : failed[k] => failed'[k],
         UNCHANGED <<mentors, score, corrections, sheet, file, audit, original,
                     contended, issued>>,
         pc[r] \in Unfinished =>
           \/ failed'[job[r].at]
           \/ sheet[job[r].at] /\ file[job[r].at] # None
  PROVE  IInv'
<1>1. TypeOK' /\ \A q \in Requests \ {r} : SlotSame(q)
  BY FinishEffect DEF IInv, TypeOK, SlotSame, Replies
<1>2. pc'[r] = "idle" /\ job'[r] = None
  BY FinishEffect DEF IInv
<1>3. Slot(r)'
  BY <1>2, IdleSlot
<1> QED
  BY <1>1, <1>2, <1>3, LocalStep DEF Inserted

\* Going on to the next call.
LEMMA GotoStep ==
  ASSUME IInv, NEW r \in Requests, NEW s \in Steps, Goto(r, s),
         pc'[r] = s /\ job'[r] = job[r] => Slot(r)',
         seen' \in [Requests -> Seen], \A q \in Requests \ {r} : seen'[q] = seen[q],
         inTx' \in {inTx, inTx \cup {r}},
         audit' \in [Key -> [submit: Nat, correct: Nat]],
         UNCHANGED <<mentors, schedule, score, corrections, sheet, file,
                     original, failed, contended, issued>>,
         s \in Inserted => pc[r] \in Inserted,
         pc[r] \in Unfinished => s \in Unfinished
  PROVE  IInv'
<1>1. TypeOK' /\ \A q \in Requests \ {r} : SlotSame(q)
  BY GotoEffect DEF IInv, TypeOK, SlotSame, Replies
<1>2. pc'[r] = s /\ job'[r] = job[r]
  BY GotoEffect DEF IInv
<1> QED
  BY <1>1, <1>2, LocalStep

-----------------------------------------------------------------------------
(* The steps that write nothing others rely on.                            *)

LEMMA AcceptStep ==
  ASSUME IInv, NEW r \in Requests, NEW j \in Job, Accept(r, j)
  PROVE  IInv'
<1>1. /\ pc' = [pc EXCEPT ![r] = IF j.kind = "correct" THEN "read" ELSE "auth"]
      /\ job' = [job EXCEPT ![r] = j]
      /\ reply' = [reply EXCEPT ![r] = "none"]
      /\ pc[r] = "idle" /\ issued < MaxRequests /\ issued' = issued + 1
      /\ contended' \in [Key -> BOOLEAN]
      /\ UNCHANGED <<seen, inTx, mentors, schedule, score, corrections, sheet,
                     file, audit, original, failed>>
  BY DEF Accept, At, tables, IInv, TypeOK
<1>2. TypeOK'
  BY <1>1, BoundAssumption DEF IInv, TypeOK, Steps
<1>3. j.kind \in {"schedule", "submit", "correct"} /\ j # None
  BY NoneAssumption DEF Job
<1>4. Slot(r)'
  BY <1>1, <1>3 DEF IInv, TypeOK, Slot, SubmitTx, CorrectTx, SubmitSteps, OldSteps,
       Unfinished, GenSteps, RenderSteps
<1>5. \A q \in Requests \ {r} : SlotSame(q)
  BY <1>1 DEF IInv, TypeOK, SlotSame
<1> QED
  BY <1>1, <1>2, <1>4, <1>5, LocalStep
  DEF IInv, TypeOK, Inserted, Unfinished, GenSteps

LEMMA AuthorizeStep ==
  ASSUME IInv, NEW r \in Requests, Authorize(r)
  PROVE  IInv'
<1>1. /\ pc[r] = "auth" /\ Slot(r) /\ TypeOK
      /\ UNCHANGED <<inTx, mentors, schedule, score, corrections, sheet,
                     file, audit, original, failed, contended, issued>>
  BY DEF Authorize, At, tables, history, IInv
<1>2. inTx \ {r} = inTx
  BY <1>1 DEF Slot, SubmitTx, CorrectTx
<1>3. CASE /\ job[r].actor \in mentors[job[r].at[1]]
           /\ Goto(r, IF job[r].kind = "schedule" THEN "saveSchedule" ELSE "exists")
           /\ UNCHANGED seen
  <2>1. PICK s \in {"saveSchedule", "exists"} :
          Goto(r, s) /\ s = IF job[r].kind = "schedule" THEN "saveSchedule" ELSE "exists"
    BY <1>3
  <2>2. pc'[r] = s /\ job'[r] = job[r] => Slot(r)'
    BY <1>1, <1>3, <2>1, Busy DEF Slot, SubmitTx, CorrectTx, SubmitSteps,
       OldSteps, Unfinished, GenSteps, RenderSteps
  <2> QED
    BY <1>1, <1>3, <2>1, <2>2, GotoStep
    DEF TypeOK, Steps, Inserted, Unfinished, GenSteps
<1>4. CASE Finish(r, "refused")
  BY <1>1, <1>2, <1>4, FinishStep DEF TypeOK, Replies, Unfinished, GenSteps
<1> QED
  BY <1>3, <1>4 DEF Authorize

LEMMA SaveScheduleStep ==
  ASSUME IInv, NEW r \in Requests, SaveSchedule(r)
  PROVE  IInv'
<1>1. pc[r] = "saveSchedule" /\ Slot(r) /\ TypeOK /\ Finish(r, "ok")
  BY DEF SaveSchedule, At, IInv
<1>2. job[r].value \in Schedules
  BY <1>1, Busy DEF Slot
<1>3. inTx \ {r} = inTx
  BY <1>1 DEF Slot, SubmitTx, CorrectTx
<1> QED
  BY <1>1, <1>2, <1>3, FinishStep
  DEF SaveSchedule, TypeOK, Replies, Unfinished, GenSteps, history

LEMMA CheckExistingStep ==
  ASSUME IInv, NEW r \in Requests, CheckExisting(r)
  PROVE  IInv'
<1>1. /\ pc[r] = "exists" /\ Slot(r) /\ TypeOK
      /\ UNCHANGED <<inTx, mentors, schedule, score, corrections, sheet,
                     file, audit, original, failed, contended, issued>>
  BY DEF CheckExisting, At, tables, history, IInv
<1>2. inTx \ {r} = inTx
  BY <1>1 DEF Slot, SubmitTx, CorrectTx
<1>3. CASE Goto(r, "beginSubmit") /\ UNCHANGED seen
  <2>1. pc'[r] = "beginSubmit" /\ job'[r] = job[r] => Slot(r)'
    BY <1>1, <1>3, Busy DEF Slot, SubmitTx, CorrectTx, SubmitSteps,
       OldSteps, Unfinished, GenSteps, RenderSteps
  <2> QED
    BY <1>1, <1>3, <2>1, GotoStep
    DEF TypeOK, Steps, Inserted, Unfinished, GenSteps
<1>4. CASE Finish(r, "locked")
  BY <1>1, <1>2, <1>4, FinishStep DEF TypeOK, Replies, Unfinished, GenSteps
<1> QED
  BY <1>3, <1>4 DEF CheckExisting

\* Old marks read by a correction stay marks of its key while nothing commits.
LEMMA OldMarksKept ==
  ASSUME NEW r \in Requests, Slot(r), pc[r] \in OldSteps, job'[r] = job[r],
         UNCHANGED <<seen, corrections, original>>
  PROVE  seen'[r].old \in MarksHad(job[r].at)'
<1>1. seen[r].old \in MarksHad(job[r].at)
  BY DEF Slot
<1> QED
  BY <1>1 DEF MarksHad

LEMMA BeginStep ==
  ASSUME IInv, NEW r \in Requests, BeginSubmit(r) \/ BeginCorrect(r)
  PROVE  IInv'
<1>1. PICK s \in {"insert", "update"} :
        /\ pc[r] = IF s = "insert" THEN "beginSubmit" ELSE "beginCorrect"
        /\ Goto(r, s)
  BY DEF BeginSubmit, BeginCorrect, At
<1>2. /\ Slot(r) /\ TypeOK /\ inTx' = inTx \cup {r}
      /\ UNCHANGED <<seen, mentors, schedule, score, corrections, sheet,
                     file, audit, original, failed, contended, issued>>
  BY DEF BeginSubmit, BeginCorrect, tables, history, IInv
<1>3. pc'[r] = s /\ job'[r] = job[r] => Slot(r)'
  BY <1>1, <1>2, Busy, OldMarksKept DEF Slot, SubmitTx, CorrectTx, SubmitSteps,
     OldSteps, Unfinished, GenSteps, RenderSteps
<1> QED
  BY <1>1, <1>2, <1>3, GotoStep
  DEF TypeOK, Steps, SubmitTx, CorrectTx, Inserted, Unfinished, GenSteps

LEMMA AuditSubmitStep ==
  ASSUME IInv, NEW r \in Requests, AuditSubmit(r)
  PROVE  IInv'
<1>1. /\ pc[r] = "auditSubmit" /\ Slot(r) /\ TypeOK /\ Goto(r, "commitSubmit")
      /\ UNCHANGED <<seen, inTx, mentors, schedule, score, corrections, sheet,
                     file, original, failed, contended, issued>>
  BY DEF AuditSubmit, At, tables, history, IInv
<1>2. audit' \in [Key -> [submit: Nat, correct: Nat]]
  BY <1>1, Busy, AuditUpdate DEF AuditSubmit
<1>3. pc'[r] = "commitSubmit" /\ job'[r] = job[r] => Slot(r)'
  BY <1>1, Busy DEF Slot, SubmitTx, CorrectTx, SubmitSteps,
     OldSteps, Unfinished, GenSteps, RenderSteps
<1> QED
  BY <1>1, <1>2, <1>3, GotoStep
  DEF TypeOK, Steps, SubmitTx, Inserted, Unfinished, GenSteps

\* The live marks are marks the key has had.
LEMMA LiveMarksHad ==
  ASSUME TypeOK, Rows, NEW k \in Key, score[k] # None
  PROVE  score[k] \in Score /\ score[k].marks \in MarksHad(k)
<1>1. score[k] \in Score /\ corrections[k] \in Seq(Correction)
  BY DEF TypeOK
<1>2. CASE corrections[k] = <<>>
  BY <1>1, <1>2 DEF Rows, HistoryMatchesScore, MarksHad
<1>3. CASE corrections[k] # <<>>
  <2>1. Len(corrections[k]) \in 1..Len(corrections[k])
    BY <1>1, <1>3
  <2>2. corrections[k][Len(corrections[k])].new = score[k].marks
    BY <1>3 DEF Rows, HistoryMatchesScore
  <2> QED
    BY <1>1, <2>1, <2>2 DEF MarksHad
<1> QED
  BY <1>2, <1>3

LEMMA ReadOldStep ==
  ASSUME IInv, NEW r \in Requests, ReadOld(r)
  PROVE  IInv'
<1>1. /\ pc[r] = "read" /\ Slot(r) /\ TypeOK
      /\ UNCHANGED <<inTx, mentors, schedule, score, corrections, sheet,
                     file, audit, original, failed, contended, issued>>
  BY DEF ReadOld, At, tables, history, IInv
<1>2. inTx \ {r} = inTx
  BY <1>1 DEF Slot, SubmitTx, CorrectTx
<1>3. PICK k \in Key : k = job[r].at
  BY <1>1, Busy
<1>4. CASE /\ score[k] # None
           /\ seen' = [seen EXCEPT ![r].old = score[k].marks]
           /\ Goto(r, "beginCorrect")
  <2>1. score[k].marks \in Marks /\ score[k] \in Score
    BY <1>1, <1>3, <1>4 DEF TypeOK, Score
  <2>2. /\ seen' \in [Requests -> Seen]
        /\ seen'[r].old = score[k].marks
        /\ \A q \in Requests \ {r} : seen'[q] = seen[q]
    BY <1>1, <1>4, <2>1, SeenUpdate
  <2>3. corrections[k] = <<>> => score[k].marks = original[k]
    BY <1>3, <1>4 DEF IInv, Rows, HistoryMatchesScore
  <2>3a. job'[r] = job[r] => seen'[r].old \in MarksHad(job[r].at)'
    <3>1. score[k].marks \in MarksHad(k)
      BY <1>4, LiveMarksHad DEF IInv
    <3> QED
      BY <1>1, <1>3, <2>2, <3>1 DEF MarksHad
  <2>4. pc'[r] = "beginCorrect" /\ job'[r] = job[r] => Slot(r)'
    BY <1>1, <1>3, <1>4, <2>1, <2>2, <2>3, <2>3a, Busy DEF Slot, SubmitTx, CorrectTx,
       SubmitSteps, OldSteps, Unfinished, GenSteps, RenderSteps
  <2> QED
    BY <1>1, <1>4, <2>2, <2>4, GotoStep
    DEF TypeOK, Steps, Inserted, Unfinished, GenSteps
<1>5. CASE Finish(r, "refused")
  BY <1>1, <1>2, <1>5, FinishStep DEF TypeOK, Replies, Unfinished, GenSteps
<1> QED
  BY <1>3, <1>4, <1>5 DEF ReadOld

LEMMA CorrectTxStep ==
  ASSUME IInv, NEW r \in Requests, UpdateScore(r) \/ CreateCorrection(r)
  PROVE  IInv'
<1>1. PICK s \in {"record", "commitCorrect"} :
        /\ pc[r] = IF s = "record" THEN "update" ELSE "record"
        /\ Goto(r, s)
  BY DEF UpdateScore, CreateCorrection, At
<1>2. /\ Slot(r) /\ TypeOK
      /\ UNCHANGED <<seen, inTx, mentors, schedule, score, corrections, sheet,
                     file, audit, original, failed, contended, issued>>
  BY DEF UpdateScore, CreateCorrection, tables, history, IInv
<1>3. pc'[r] = s /\ job'[r] = job[r] => Slot(r)'
  BY <1>1, <1>2, Busy, OldMarksKept DEF Slot, SubmitTx, CorrectTx, SubmitSteps,
       OldSteps, Unfinished, GenSteps, RenderSteps
<1> QED
  BY <1>1, <1>2, <1>3, GotoStep
  DEF TypeOK, Steps, SubmitTx, CorrectTx, Inserted, Unfinished, GenSteps

LEMMA AuditCorrectStep ==
  ASSUME IInv, NEW r \in Requests, AuditCorrect(r)
  PROVE  IInv'
<1>1. /\ pc[r] = "auditCorrect" /\ Slot(r) /\ TypeOK /\ Goto(r, "getSchedule")
      /\ UNCHANGED <<seen, inTx, mentors, schedule, score, corrections, sheet,
                     file, original, failed, contended, issued>>
  BY DEF AuditCorrect, At, tables, history, IInv
<1>2. audit' \in [Key -> [submit: Nat, correct: Nat]]
  BY <1>1, Busy, AuditUpdate DEF AuditCorrect
<1>3. pc'[r] = "getSchedule" /\ job'[r] = job[r] => Slot(r)'
  BY <1>1, Busy DEF Slot, SubmitTx, CorrectTx, SubmitSteps,
       OldSteps, Unfinished, GenSteps, RenderSteps
<1> QED
  BY <1>1, <1>2, <1>3, GotoStep
  DEF TypeOK, Steps, SubmitTx, Inserted, Unfinished, GenSteps

LEMMA GetScheduleStep ==
  ASSUME IInv, NEW r \in Requests, GetSchedule(r)
  PROVE  IInv'
<1>1. /\ pc[r] = "getSchedule" /\ Slot(r) /\ TypeOK /\ Goto(r, "getScore")
      /\ seen' = [seen EXCEPT ![r].sched = schedule[job[r].at]]
      /\ schedule[job[r].at] # None
      /\ UNCHANGED <<inTx, mentors, schedule, score, corrections, sheet,
                     file, audit, original, failed, contended, issued>>
  BY DEF GetSchedule, At, tables, history, IInv
<1>2. PICK v \in Schedules : v = schedule[job[r].at]
  BY <1>1, Busy DEF TypeOK
<1>3. /\ seen' \in [Requests -> Seen] /\ seen'[r].sched = v
      /\ \A q \in Requests \ {r} : seen'[q] = seen[q]
  BY <1>1, <1>2, SeenUpdate
<1>4. pc'[r] = "getScore" /\ job'[r] = job[r] => Slot(r)'
  BY <1>1, <1>2, <1>3, Busy DEF Slot, SubmitTx, CorrectTx, SubmitSteps,
       OldSteps, Unfinished, GenSteps, RenderSteps
<1> QED
  BY <1>1, <1>3, <1>4, GotoStep
  DEF TypeOK, Steps, SubmitTx, Inserted, Unfinished, GenSteps

LEMMA GetScoreStep ==
  ASSUME IInv, NEW r \in Requests, GetScore(r)
  PROVE  IInv'
<1>1. /\ pc[r] = "getScore" /\ Slot(r) /\ TypeOK /\ Goto(r, "openFile")
      /\ seen' = [seen EXCEPT ![r].marks = score[job[r].at].marks]
      /\ score[job[r].at] # None
      /\ UNCHANGED <<inTx, mentors, schedule, score, corrections, sheet,
                     file, audit, original, failed, contended, issued>>
  BY DEF GetScore, At, tables, history, IInv
<1>2. PICK k \in Key : k = job[r].at
  BY <1>1, Busy
<1>3. score[k].marks \in Marks /\ score[k].marks \in MarksHad(k)
  BY <1>1, <1>2, LiveMarksHad DEF IInv, Score
<1>4. /\ seen' \in [Requests -> Seen] /\ seen'[r].marks = score[k].marks
      /\ seen'[r].sched = seen[r].sched
      /\ \A q \in Requests \ {r} : seen'[q] = seen[q]
  BY <1>1, <1>2, <1>3, SeenUpdate
<1>5. job'[r] = job[r] => seen'[r].marks \in MarksHad(job[r].at)'
  BY <1>1, <1>2, <1>3, <1>4 DEF MarksHad
<1>6. pc'[r] = "openFile" /\ job'[r] = job[r] => Slot(r)'
  BY <1>1, <1>4, <1>5, Busy DEF Slot, SubmitTx, CorrectTx, SubmitSteps,
       OldSteps, Unfinished, GenSteps, RenderSteps
<1> QED
  BY <1>1, <1>4, <1>6, GotoStep
  DEF TypeOK, Steps, SubmitTx, Inserted, Unfinished, GenSteps

LEMMA FindSheetStep ==
  ASSUME IInv, NEW r \in Requests, FindSheet(r)
  PROVE  IInv'
<1>1. /\ pc[r] = "findSheet" /\ Slot(r) /\ TypeOK
      /\ UNCHANGED <<inTx, mentors, schedule, score, corrections, sheet,
                     file, audit, original, failed, contended, issued>>
  BY DEF FindSheet, At, tables, history, IInv
<1>2. inTx \ {r} = inTx
  BY <1>1 DEF Slot, SubmitTx, CorrectTx
<1>3. CASE Goto(r, "createSheet") /\ UNCHANGED seen
  <2>1. pc'[r] = "createSheet" /\ job'[r] = job[r] => Slot(r)'
    BY <1>1, <1>3, Busy DEF Slot, SubmitTx, CorrectTx, SubmitSteps,
       OldSteps, Unfinished, GenSteps, RenderSteps
  <2> QED
    BY <1>1, <1>3, <2>1, GotoStep
    DEF TypeOK, Steps, Inserted, Unfinished, GenSteps
<1>4. CASE sheet[job[r].at] /\ Finish(r, "ok")
  <2>1. file[job[r].at] # None
    BY <1>1 DEF Slot
  <2> QED
    BY <1>1, <1>2, <1>4, <2>1, FinishStep DEF TypeOK, Replies
<1> QED
  BY <1>3, <1>4 DEF FindSheet

LEMMA AbortStep ==
  ASSUME IInv, NEW r \in Requests, Fail(r) \/ Rejected(r)
  PROVE  IInv'
<1>1. /\ pc[r] \notin {"idle", "auditCorrect"} /\ Abort(r) /\ Slot(r) /\ TypeOK
  BY DEF Fail, Rejected, At, IInv
<1>2. job[r].at \in Key
  BY <1>1, Busy
<1>3. /\ failed' \in [Key -> BOOLEAN]
      /\ \A k \in Key : failed[k] => failed'[k]
      /\ pc[r] \in Unfinished => failed'[job[r].at]
  BY <1>1, <1>2 DEF Abort, TypeOK, Unfinished
<1> QED
  BY <1>1, <1>3, FinishStep DEF Abort, TypeOK, Replies, tables

-----------------------------------------------------------------------------
(* The insert: the unique constraint keeps the uncommitted row alone.      *)

LEMMA InsertScoreStep ==
  ASSUME IInv, NEW r \in Requests, InsertScore(r)
  PROVE  IInv'
<1>1. /\ pc[r] = "insert" /\ Slot(r) /\ TypeOK /\ Goto(r, "auditSubmit")
      /\ score[job[r].at] = None /\ ~ InsertWaits(r)
      /\ UNCHANGED <<seen, inTx, mentors, schedule, score, corrections, sheet,
                     file, audit, original, failed, contended, issued>>
  BY DEF InsertScore, At, tables, history, IInv
<1>2. /\ pc' \in [Requests -> Steps \cup {"idle"}]
      /\ job' \in [Requests -> Job \cup {None}]
      /\ reply' \in [Requests -> Replies]
      /\ pc'[r] = "auditSubmit" /\ job'[r] = job[r]
      /\ \A q \in Requests \ {r} : pc'[q] = pc[q] /\ job'[q] = job[q]
  BY <1>1, GotoEffect DEF Steps, SubmitTx
<1>3. TypeOK' /\ \A q \in Requests \ {r} : SlotSame(q)
  BY <1>1, <1>2 DEF TypeOK, SlotSame, Replies
<1>4. Slot(r)'
  BY <1>1, <1>2, Busy DEF Slot, SubmitTx, CorrectTx, SubmitSteps,
       OldSteps, Unfinished, GenSteps, RenderSteps
<1>5. \A q \in Requests : pc[q] \in Inserted => q # r /\ job[q].at # job[r].at
  <2> SUFFICES ASSUME NEW q \in Requests, pc[q] \in Inserted
               PROVE  q # r /\ job[q].at # job[r].at
    OBVIOUS
  <2>1. q \in inTx
    BY DEF IInv, Slot, Inserted, SubmitTx
  <2> QED
    BY <1>1, <2>1 DEF InsertWaits, HoldsKey, Inserted
<1>6. OneInsert'
  BY <1>1, <1>2, <1>5 DEF IInv, OneInsert
<1>7. Rows' /\ Grows
  BY <1>1, RowsKept DEF IInv
<1>8. Covered'
  BY <1>1, <1>2 DEF IInv, Covered, Unfinished, GenSteps
<1> QED
  BY <1>3, <1>4, <1>6, <1>7, <1>8, Composed

-----------------------------------------------------------------------------
(* The commits.                                                            *)

\* How a COMMIT leaves its request: answered on, or its answer lost.
LEMMA CommitEffect ==
  ASSUME TypeOK, NEW r \in Requests, NEW s \in Unfinished, NEW k \in Key,
         \/ Goto(r, s) /\ UNCHANGED <<seen, failed>>
         \/ Finish(r, "error") /\ failed' = [failed EXCEPT ![k] = TRUE]
  PROVE  /\ pc' \in [Requests -> Steps \cup {"idle"}]
         /\ job' \in [Requests -> Job \cup {None}]
         /\ seen' \in [Requests -> Seen]
         /\ reply' \in [Requests -> Replies]
         /\ failed' \in [Key -> BOOLEAN]
         /\ \A x \in Key : failed[x] => failed'[x]
         /\ \/ pc'[r] = s /\ job'[r] = job[r] /\ seen'[r] = seen[r]
            \/ pc'[r] = "idle" /\ job'[r] = None /\ failed'[k]
         /\ \A q \in Requests \ {r} :
              pc'[q] = pc[q] /\ job'[q] = job[q] /\ seen'[q] = seen[q]
<1>1. CASE Goto(r, s) /\ UNCHANGED <<seen, failed>>
  BY <1>1, GotoEffect DEF TypeOK, Steps, Unfinished
<1>2. CASE Finish(r, "error") /\ failed' = [failed EXCEPT ![k] = TRUE]
  <2>1. "error" \in Replies
    BY DEF Replies
  <2>2. /\ failed' \in [Key -> BOOLEAN] /\ failed'[k]
        /\ \A x \in Key : failed[x] => failed'[x]
    BY <1>2 DEF TypeOK
  <2> QED
    BY <1>2, <2>1, <2>2, FinishEffect
<1> QED
  BY <1>1, <1>2

LEMMA CommitSubmitStep ==
  ASSUME IInv, NEW r \in Requests, CommitSubmit(r)
  PROVE  IInv'
<1>1. pc[r] = "commitSubmit" /\ Slot(r) /\ TypeOK
  BY DEF CommitSubmit, At, IInv
<1>2. PICK k \in Key : k = job[r].at
  BY <1>1, Busy
<1>3. PICK f \in Faculty, m \in Marks : f = job[r].actor /\ m = job[r].value
  BY <1>1, Busy DEF Slot, SubmitSteps, SubmitTx
<1>4. /\ score' = [score EXCEPT ![k] = [by |-> f, marks |-> m]]
      /\ original' = [original EXCEPT ![k] = m]
      /\ inTx' = inTx \ {r}
      /\ UNCHANGED <<mentors, schedule, corrections, sheet, file, audit,
                     contended, issued>>
      /\ \/ Goto(r, "getSchedule") /\ UNCHANGED <<seen, failed>>
         \/ Finish(r, "error") /\ failed' = [failed EXCEPT ![k] = TRUE]
  BY <1>2, <1>3 DEF CommitSubmit
<1>5. /\ pc' \in [Requests -> Steps \cup {"idle"}]
      /\ job' \in [Requests -> Job \cup {None}]
      /\ seen' \in [Requests -> Seen]
      /\ reply' \in [Requests -> Replies]
      /\ failed' \in [Key -> BOOLEAN]
      /\ \A x \in Key : failed[x] => failed'[x]
      /\ \/ pc'[r] = "getSchedule" /\ job'[r] = job[r] /\ seen'[r] = seen[r]
         \/ pc'[r] = "idle" /\ job'[r] = None /\ failed'[k]
      /\ \A q \in Requests \ {r} :
           pc'[q] = pc[q] /\ job'[q] = job[q] /\ seen'[q] = seen[q]
  BY <1>1, <1>4, CommitEffect DEF Unfinished, GenSteps
<1>6. /\ score[k] = None /\ original[k] = None /\ corrections[k] = <<>>
      /\ \A q \in Requests : pc[q] \in Inserted /\ job[q].at = k => q = r
  BY <1>1, <1>2 DEF IInv, OneInsert, Rows, Unscored, Inserted
<1>7. /\ [by |-> f, marks |-> m] \in Score /\ [by |-> f, marks |-> m] # None
      /\ m # None
  BY NoneAssumption DEF Score
<1>8. TypeOK'
  BY <1>1, <1>4, <1>5, <1>7 DEF TypeOK, Replies
<1>9. \A q \in Requests \ {r} : SlotSame(q)
  BY <1>4, <1>5 DEF SlotSame
<1>10. /\ score'[k] = [by |-> f, marks |-> m] /\ original'[k] = m
       /\ \A x \in Key \ {k} : score'[x] = score[x] /\ original'[x] = original[x]
  BY <1>1, <1>4 DEF TypeOK
<1>11. f \in mentors[k[1]]
  BY <1>1, <1>2, <1>3 DEF Slot, SubmitSteps, SubmitTx
<1>12. Grows
  BY <1>4, <1>6, <1>10 DEF Grows, MarksHad
<1>13. Slot(r)'
  <2>1. CASE pc'[r] = "idle" /\ job'[r] = None
    BY <1>4, <2>1, IdleSlot
  <2>2. CASE pc'[r] = "getSchedule" /\ job'[r] = job[r]
    BY <1>1, <1>2, <1>3, <1>4, <1>7, <1>10, <2>2, Busy DEF Slot, SubmitTx, CorrectTx, SubmitSteps,
       OldSteps, Unfinished, GenSteps, RenderSteps
  <2> QED
    BY <1>5, <2>1, <2>2
<1>14. OneInsert'
  <2> SUFFICES ASSUME NEW q \in Requests, pc'[q] \in Inserted
               PROVE  /\ score'[job'[q].at] = None
                      /\ \A p \in Requests :
                           pc'[p] \in Inserted /\ job'[p].at = job'[q].at => p = q
    BY DEF OneInsert
  <2>1. pc'[r] \notin Inserted
    BY <1>5 DEF Inserted
  <2>2. q # r /\ pc[q] \in Inserted /\ job'[q] = job[q]
    BY <1>5, <2>1
  <2>3. job[q].at \in Key \ {k}
    BY <1>6, <2>2, Busy DEF IInv, Inserted
  <2> QED
    BY <1>5, <1>10, <2>1, <2>2, <2>3 DEF IInv, OneInsert
<1>15. Unscored' /\ HistoryMatchesScore' /\ ScoredByMentor'
  BY <1>4, <1>6, <1>7, <1>10, <1>11
  DEF IInv, Rows, Unscored, HistoryMatchesScore, ScoredByMentor
<1>16. PdfInv'
  <2> SUFFICES ASSUME NEW x \in Key
               PROVE  /\ sheet[x] => file[x] # None
                      /\ file[x] \in Pdf =>
                           /\ score'[x] # None /\ file[x].at = x
                           /\ file[x].marks \in MarksHad(x)'
    BY <1>4 DEF PdfInv
  <2>1. x # k => MarksHad(x)' = MarksHad(x)
    BY <1>4, <1>10 DEF MarksHad
  <2> QED
    BY <1>6, <1>10, <2>1 DEF IInv, Rows, PdfInv
<1>17. Covered'
  <2>1. failed'[k] \/ (pc'[r] \in Unfinished /\ job'[r].at = k)
    BY <1>2, <1>5 DEF Unfinished, GenSteps
  <2>2. pc[r] \notin Unfinished
    BY <1>1 DEF Unfinished, GenSteps
  <2> QED
    BY <1>4, <1>5, <1>10, <2>1, <2>2 DEF IInv, Covered
<1> QED
  BY <1>8, <1>9, <1>12, <1>13, <1>14, <1>15, <1>16, <1>17, Composed DEF Rows

LEMMA CommitCorrectStep ==
  ASSUME IInv, NEW r \in Requests, CommitCorrect(r)
  PROVE  IInv'
<1>1. pc[r] = "commitCorrect" /\ Slot(r) /\ TypeOK
  BY DEF CommitCorrect, At, IInv
<1>2. PICK k \in Key : k = job[r].at
  BY <1>1, Busy
<1>3. PICK c \in Correction :
        c = [old |-> seen[r].old, new |-> job[r].value, by |-> job[r].actor]
  BY <1>1, Busy DEF Slot, OldSteps, CorrectTx, Correction
<1>4. PICK m \in Marks : m = job[r].value /\ m = c.new
  BY <1>1, <1>3, Busy DEF Slot, OldSteps, CorrectTx
<1>5. /\ score' = [score EXCEPT ![k].marks = m]
      /\ corrections' = [corrections EXCEPT ![k] = Append(@, c)]
      /\ inTx' = inTx \ {r}
      /\ UNCHANGED <<mentors, schedule, sheet, file, audit, original,
                     contended, issued>>
      /\ \/ Goto(r, "auditCorrect") /\ UNCHANGED <<seen, failed>>
         \/ Finish(r, "error") /\ failed' = [failed EXCEPT ![k] = TRUE]
  BY <1>2, <1>3, <1>4 DEF CommitCorrect
<1>6. /\ pc' \in [Requests -> Steps \cup {"idle"}]
      /\ job' \in [Requests -> Job \cup {None}]
      /\ seen' \in [Requests -> Seen]
      /\ reply' \in [Requests -> Replies]
      /\ failed' \in [Key -> BOOLEAN]
      /\ \A x \in Key : failed[x] => failed'[x]
      /\ \/ pc'[r] = "auditCorrect" /\ job'[r] = job[r] /\ seen'[r] = seen[r]
         \/ pc'[r] = "idle" /\ job'[r] = None /\ failed'[k]
      /\ \A q \in Requests \ {r} :
           pc'[q] = pc[q] /\ job'[q] = job[q] /\ seen'[q] = seen[q]
  BY <1>1, <1>5, CommitEffect DEF Unfinished
<1>7. /\ score[k] # None /\ score[k] \in Score
      /\ corrections[k] = <<>> => c.old = original[k]
  BY <1>1, <1>2, <1>3 DEF Slot, OldSteps, CorrectTx, TypeOK
<1>8. PICK w \in Score : /\ score' = [score EXCEPT ![k] = w]
                         /\ w.by = score[k].by /\ w.marks = m
  <2>1. PICK s \in Score : s = score[k]
    BY <1>7
  <2>2. PICK w : w = [s EXCEPT !.marks = m]
    OBVIOUS
  <2>3. w \in Score /\ w.by = s.by /\ w.marks = m
    BY <2>2 DEF Score
  <2>4. score' = [score EXCEPT ![k] = w]
    BY <1>5, <2>1, <2>2, Zenon
  <2> QED
    BY <2>1, <2>3, <2>4
<1>9. /\ score'[k] = w /\ w # None
      /\ corrections'[k] = Append(corrections[k], c)
      /\ \A x \in Key \ {k} :
           score'[x] = score[x] /\ corrections'[x] = corrections[x]
  BY <1>1, <1>5, <1>8, NoneAssumption DEF TypeOK
<1>10. corrections[k] \in Seq(Correction)
  BY <1>1 DEF TypeOK
<1>11. TypeOK'
  <2>1. corrections' \in [Key -> Seq(Correction)]
    BY <1>1, <1>5, <1>10 DEF TypeOK
  <2>2. score' \in [Key -> Score \cup {None}]
    BY <1>1, <1>8 DEF TypeOK
  <2> QED
    BY <1>1, <1>5, <1>6, <2>1, <2>2 DEF TypeOK, Replies
<1>12. \A q \in Requests \ {r} : SlotSame(q)
  BY <1>5, <1>6 DEF SlotSame
<1>13. /\ Len(corrections'[k]) = Len(corrections[k]) + 1
       /\ corrections'[k] # <<>>
       /\ corrections'[k][Len(corrections'[k])] = c
       /\ \A n \in 1..Len(corrections[k]) : corrections'[k][n] = corrections[k][n]
       /\ Len(corrections[k]) \in Nat
       /\ corrections[k] # <<>> => 1 \in 1..Len(corrections[k])
  BY <1>9, <1>10
<1>14. \A x \in Key : MarksHad(x) \subseteq MarksHad(x)'
  BY <1>5, <1>9, <1>13 DEF MarksHad
<1>15. Grows
  BY <1>5, <1>8, <1>9, <1>13, <1>14 DEF Grows
<1>16. Slot(r)'
  <2>1. CASE pc'[r] = "idle" /\ job'[r] = None
    BY <1>5, <2>1, IdleSlot
  <2>2. CASE pc'[r] = "auditCorrect" /\ job'[r] = job[r]
    BY <1>1, <1>2, <1>5, <1>9, <2>2, Busy DEF Slot, SubmitTx, CorrectTx, SubmitSteps,
       OldSteps, Unfinished, GenSteps, RenderSteps
  <2> QED
    BY <1>6, <2>1, <2>2
<1>17. OneInsert'
  <2> SUFFICES ASSUME NEW q \in Requests, pc'[q] \in Inserted
               PROVE  /\ score'[job'[q].at] = None
                      /\ \A p \in Requests :
                           pc'[p] \in Inserted /\ job'[p].at = job'[q].at => p = q
    BY DEF OneInsert
  <2>1. pc'[r] \notin Inserted
    BY <1>6 DEF Inserted
  <2>2. q # r /\ pc[q] \in Inserted /\ job'[q] = job[q]
    BY <1>6, <2>1
  <2>3. job[q].at \in Key \ {k}
    BY <1>7, <2>2, Busy DEF IInv, OneInsert, Inserted
  <2> QED
    BY <1>6, <1>9, <2>1, <2>2, <2>3 DEF IInv, OneInsert
<1>18. HistoryMatchesScore'
  <2> SUFFICES ASSUME NEW x \in Key, score'[x] # None
               PROVE  IF corrections'[x] = <<>>
                        THEN score'[x].marks = original[x]
                        ELSE /\ corrections'[x][1].old = original[x]
                             /\ corrections'[x][Len(corrections'[x])].new
                                  = score'[x].marks
    BY <1>5 DEF HistoryMatchesScore
  <2>1. CASE x # k
    BY <1>9, <2>1 DEF IInv, Rows, HistoryMatchesScore
  <2>2. CASE x = k
    <3>1. corrections'[k][1].old = original[k]
      <4>1. CASE corrections[k] = <<>>
        BY <1>7, <1>9, <4>1
      <4>2. CASE corrections[k] # <<>>
        BY <1>7, <1>13, <4>2 DEF IInv, Rows, HistoryMatchesScore
      <4> QED
        BY <4>1, <4>2
    <3> QED
      BY <1>4, <1>8, <1>9, <1>13, <2>2, <3>1
  <2> QED
    BY <2>1, <2>2
<1>19. Unscored' /\ ScoredByMentor'
  BY <1>5, <1>7, <1>8, <1>9 DEF IInv, Rows, Unscored, ScoredByMentor
<1>20. PdfInv'
  BY <1>5, <1>9, <1>14 DEF IInv, Rows, PdfInv
<1>21. Covered'
  <2>1. failed'[k] \/ (pc'[r] \in Unfinished /\ job'[r].at = k)
    BY <1>2, <1>6 DEF Unfinished
  <2>2. pc[r] \notin Unfinished
    BY <1>1 DEF Unfinished, GenSteps
  <2> QED
    BY <1>5, <1>6, <1>9, <2>1, <2>2 DEF IInv, Covered
<1> QED
  BY <1>11, <1>12, <1>15, <1>16, <1>17, <1>18, <1>19, <1>20, <1>21, Composed
  DEF Rows

-----------------------------------------------------------------------------
(* The file, its row, the others.                                          *)

\* Marks a request has read stay marks of its key while it renders them.
LEMMA FileStep ==
  ASSUME IInv, NEW r \in Requests, pc[r] \in RenderSteps,
         NEW s \in {"writeFile", "findSheet"}, Goto(r, s),
         s = "writeFile" => pc[r] = "openFile",
         NEW v \in Pdf \cup {Empty, Mixed},
         file' = [file EXCEPT ![job[r].at] = v],
         v \in Pdf => v.at = job[r].at /\ v.marks = seen[r].marks,
         UNCHANGED <<seen, inTx, mentors, schedule, score, corrections, sheet,
                     audit, original, failed, contended, issued>>
  PROVE  IInv'
<1>1. Slot(r) /\ TypeOK /\ pc[r] # "idle"
  BY DEF IInv, RenderSteps
<1>2. PICK k \in Key : k = job[r].at
  BY <1>1, Busy
<1>3. /\ pc' \in [Requests -> Steps \cup {"idle"}]
      /\ job' \in [Requests -> Job \cup {None}]
      /\ reply' \in [Requests -> Replies]
      /\ pc'[r] = s /\ job'[r] = job[r]
      /\ \A q \in Requests \ {r} : pc'[q] = pc[q] /\ job'[q] = job[q]
  BY <1>1, GotoEffect DEF Steps, GenSteps
<1>4. v # None /\ v \in Pdf \cup NoPdf /\ (v \in Pdf => v \notin NoPdf)
  BY NoneAssumption DEF NoPdf
<1>5. file'[k] = v /\ \A x \in Key \ {k} : file'[x] = file[x]
  BY <1>1, <1>2 DEF TypeOK
<1>6. TypeOK'
  BY <1>1, <1>2, <1>3, <1>4 DEF TypeOK, Replies
<1>7. \A q \in Requests \ {r} : SlotSame(q)
  BY <1>3 DEF SlotSame
<1>8. \A x \in Key : MarksHad(x)' = MarksHad(x)
  BY DEF MarksHad
<1>9. score[k] # None /\ seen[r].marks \in MarksHad(k)
  BY <1>1, <1>2 DEF Slot, RenderSteps, Unfinished, GenSteps
<1>10. Grows
  BY <1>4, <1>5, <1>8 DEF Grows
<1>11. Slot(r)'
  <2>1. seen'[r].marks \in MarksHad(job[r].at)'
    BY <1>2, <1>3, <1>9 DEF MarksHad
  <2> QED
    BY <1>1, <1>2, <1>3, <1>4, <1>5, <2>1, Busy DEF Slot, SubmitTx, CorrectTx, SubmitSteps,
       OldSteps, Unfinished, GenSteps, RenderSteps
<1>12. OneInsert'
  BY <1>3 DEF IInv, OneInsert, Inserted
<1>13. Unscored' /\ HistoryMatchesScore' /\ ScoredByMentor'
  BY DEF IInv, Rows, Unscored, HistoryMatchesScore, ScoredByMentor
<1>14. PdfInv'
  BY <1>2, <1>4, <1>5, <1>8, <1>9 DEF IInv, Rows, PdfInv
<1>15. Covered'
  <2>1. pc'[r] \in Unfinished
    BY <1>3 DEF Unfinished, GenSteps
  <2>2. \A x \in Key : file[x] # None => file'[x] # None
    BY <1>4, <1>5
  <2> QED
    BY <1>3, <2>1, <2>2 DEF IInv, Covered
<1> QED
  BY <1>6, <1>7, <1>10, <1>11, <1>12, <1>13, <1>14, <1>15, Composed DEF Rows

LEMMA OpenFileStep ==
  ASSUME IInv, NEW r \in Requests, OpenFile(r)
  PROVE  IInv'
<1>1. /\ pc[r] = "openFile" /\ job[r].at \in Key
      /\ UNCHANGED <<seen, inTx, mentors, schedule, score, corrections, sheet,
                     audit, original, failed, contended, issued>>
  BY Busy DEF OpenFile, At, tables, history, IInv
<1>2. file' = [file EXCEPT ![job[r].at] = Empty] /\ Goto(r, "writeFile")
  BY <1>1, FileOfKey DEF OpenFile
<1>3. Empty \notin Pdf
  BY NoneAssumption DEF NoPdf
<1> QED
  BY <1>1, <1>2, <1>3, FileStep DEF RenderSteps

LEMMA WriteFileStep ==
  ASSUME IInv, NEW r \in Requests, WriteFile(r)
  PROVE  IInv'
<1>1. /\ pc[r] = "writeFile" /\ job[r].at \in Key /\ Slot(r) /\ TypeOK
      /\ Goto(r, "findSheet")
      /\ UNCHANGED <<seen, inTx, mentors, schedule, score, corrections, sheet,
                     audit, original, failed, contended, issued>>
  BY Busy DEF WriteFile, At, tables, history, IInv
<1>2. PICK pdf : pdf = [at |-> job[r].at, sched |-> seen[r].sched,
                        marks |-> seen[r].marks]
  OBVIOUS
<1>3. \/ file' = [file EXCEPT ![job[r].at] = pdf]
      \/ file' = [file EXCEPT ![job[r].at] = Mixed]
  BY <1>1, <1>2, FileOfKey DEF WriteFile
<1>4. seen[r].marks \in Marks
  <2>1. PICK k \in Key : k = job[r].at
    BY <1>1
  <2>2. seen[r].marks \in MarksHad(k) /\ score[k] # None
    BY <1>1, <2>1 DEF Slot, RenderSteps, Unfinished, GenSteps
  <2>3. original[k] \in Marks
    BY <1>1, <2>1, <2>2 DEF TypeOK, IInv, Rows, Unscored
  <2>4. corrections[k] \in Seq(Correction)
    BY <1>1 DEF TypeOK
  <2>5. \A n \in 1..Len(corrections[k]) : corrections[k][n] \in Correction
    BY <2>4
  <2> QED
    BY <2>2, <2>3, <2>5 DEF MarksHad, Correction
<1>5. pdf \in Pdf /\ pdf.at = job[r].at /\ pdf.marks = seen[r].marks
  BY <1>1, <1>2, <1>4 DEF Pdf, Slot, RenderSteps
<1>6. Mixed \notin Pdf
  BY NoneAssumption DEF NoPdf
<1>7. CASE file' = [file EXCEPT ![job[r].at] = pdf]
  BY <1>1, <1>5, <1>7, FileStep DEF RenderSteps
<1>8. CASE file' = [file EXCEPT ![job[r].at] = Mixed]
  BY <1>1, <1>6, <1>8, FileStep DEF RenderSteps
<1> QED
  BY <1>3, <1>7, <1>8

LEMMA CreateSheetStep ==
  ASSUME IInv, NEW r \in Requests, CreateSheet(r)
  PROVE  IInv'
<1>1. /\ pc[r] = "createSheet" /\ Slot(r) /\ TypeOK /\ Finish(r, "ok")
      /\ sheet' = [sheet EXCEPT ![job[r].at] = TRUE]
      /\ UNCHANGED <<inTx, mentors, schedule, score, corrections, file, audit,
                     original, failed, contended, issued>>
  BY DEF CreateSheet, At, history, IInv
<1>2. PICK k \in Key : k = job[r].at
  BY <1>1, Busy
<1>3. /\ pc' \in [Requests -> Steps \cup {"idle"}]
      /\ job' \in [Requests -> Job \cup {None}]
      /\ seen' \in [Requests -> Seen]
      /\ reply' \in [Requests -> Replies]
      /\ pc'[r] = "idle" /\ job'[r] = None
      /\ \A q \in Requests \ {r} :
           pc'[q] = pc[q] /\ job'[q] = job[q] /\ seen'[q] = seen[q]
  BY <1>1, FinishEffect DEF Replies
<1>4. file[k] # None /\ r \notin inTx
  BY <1>1, <1>2 DEF Slot, SubmitTx, CorrectTx
<1>5. sheet'[k] /\ \A x \in Key \ {k} : sheet'[x] = sheet[x]
  BY <1>1, <1>2 DEF TypeOK
<1>6. TypeOK' /\ \A q \in Requests \ {r} : SlotSame(q)
  BY <1>1, <1>3 DEF TypeOK, Replies, SlotSame
<1>7. Slot(r)' /\ Grows
  <2>1. Slot(r)'
    BY <1>1, <1>3, <1>4, IdleSlot
  <2>2. Grows
    BY <1>1 DEF Grows, MarksHad
  <2> QED
    BY <2>1, <2>2
<1>8. OneInsert'
  BY <1>1, <1>3 DEF IInv, OneInsert, Inserted
<1>9. Unscored' /\ HistoryMatchesScore' /\ ScoredByMentor'
  BY <1>1 DEF IInv, Rows, Unscored, HistoryMatchesScore, ScoredByMentor
<1>10. PdfInv'
  <2>1. \A x \in Key : MarksHad(x)' = MarksHad(x)
    BY <1>1 DEF MarksHad
  <2> QED
    BY <1>1, <1>4, <1>5, <2>1 DEF IInv, Rows, PdfInv
<1>11. Covered'
  BY <1>1, <1>2, <1>3, <1>4, <1>5 DEF IInv, Covered
<1> QED
  BY <1>6, <1>7, <1>8, <1>9, <1>10, <1>11, Composed DEF Rows

LEMMA AssignMentorStep ==
  ASSUME IInv, NEW i \in Internships, NEW f \in Faculty, AssignMentor(i, f)
  PROVE  IInv'
<1>1. /\ mentors' = [mentors EXCEPT ![i] = @ \cup {f}]
      /\ UNCHANGED <<pc, job, seen, reply, inTx, schedule, score, corrections,
                     sheet, file, audit, original, failed, contended, issued>>
  BY DEF AssignMentor, request, history
<1>2. TypeOK'
  BY <1>1 DEF IInv, TypeOK
<1>3. \A x \in Internships : mentors[x] \subseteq mentors'[x]
  BY <1>1 DEF IInv, TypeOK
<1>4. Grows
  BY <1>1, <1>3 DEF Grows, MarksHad
<1>5. ASSUME NEW q \in Requests PROVE Slot(q)'
  BY <1>1, <1>4, SlotStable DEF IInv, SlotSame
<1>6. OneInsert' /\ Covered'
  BY <1>1 DEF IInv, OneInsert, Covered
<1>7. Unscored' /\ HistoryMatchesScore' /\ PdfInv'
  BY <1>1 DEF IInv, Rows, Unscored, HistoryMatchesScore, PdfInv, MarksHad
<1>8. ScoredByMentor'
  BY <1>1, <1>3 DEF IInv, Rows, ScoredByMentor, Key
<1> QED
  BY <1>2, <1>5, <1>6, <1>7, <1>8 DEF IInv, Rows

LEMMA CrashStep ==
  ASSUME IInv, Crash
  PROVE  IInv'
<1>1. /\ pc' = [r \in Requests |-> "idle"]
      /\ job' = [r \in Requests |-> None]
      /\ seen' = [r \in Requests |-> Nothing]
      /\ reply' = [r \in Requests |-> "none"]
      /\ inTx' = {}
      /\ failed' = [k \in Key |-> failed[k] \/
                      \E r \in Requests : pc[r] \in Unfinished /\ job[r].at = k]
      /\ UNCHANGED <<mentors, schedule, score, corrections, sheet, file, audit,
                     original, contended, issued>>
  BY DEF Crash, tables
<1>2. Nothing \in Seen
  BY DEF Nothing, Seen
<1>3. failed' \in [Key -> BOOLEAN]
  BY <1>1 DEF IInv, TypeOK
<1>4. TypeOK'
  BY <1>1, <1>2, <1>3 DEF IInv, TypeOK
<1>5. ASSUME NEW q \in Requests PROVE Slot(q)'
  BY <1>1, IdleSlot
<1>6. OneInsert'
  BY <1>1 DEF OneInsert, Inserted
<1>7. Rows'
  BY <1>1, RowsKept DEF IInv
<1>8. Covered'
  BY <1>1 DEF IInv, Covered
<1> QED
  BY <1>4, <1>5, <1>6, <1>7, <1>8 DEF IInv

LEMMA StutterStep ==
  ASSUME IInv, UNCHANGED vars
  PROVE  IInv'
<1>1. UNCHANGED <<pc, job, seen, reply, inTx, mentors, schedule, score,
                  corrections, sheet, file, audit, original, failed, contended,
                  issued>>
  BY DEF vars
<1>2. TypeOK' /\ OneInsert' /\ Covered'
  BY <1>1 DEF IInv, TypeOK, OneInsert, Covered
<1>3. Rows' /\ Grows
  BY <1>1, RowsKept DEF IInv
<1>4. ASSUME NEW q \in Requests PROVE Slot(q)'
  BY <1>1, <1>3, SlotStable DEF IInv, SlotSame
<1> QED
  BY <1>2, <1>3, <1>4 DEF IInv

-----------------------------------------------------------------------------
(* The theorems.                                                           *)

LEMMA InitIInv == Init => IInv
<1> SUFFICES ASSUME Init PROVE IInv
  OBVIOUS
<1>1. Nothing \in Seen
  BY DEF Nothing, Seen
<1>2. TypeOK
  BY <1>1, BoundAssumption DEF Init, TypeOK, NoPdf
<1>3. ASSUME NEW r \in Requests PROVE Slot(r)
  BY DEF Init, Slot, SubmitTx, CorrectTx, SubmitSteps, OldSteps, Unfinished,
     GenSteps, RenderSteps
<1>4. OneInsert /\ Covered
  BY DEF Init, OneInsert, Covered, Inserted
<1>5. None \notin Pdf
  BY NoneAssumption DEF NoPdf
<1>6. Rows
  BY <1>5 DEF Init, Rows, Unscored, HistoryMatchesScore, PdfInv, ScoredByMentor
<1> QED
  BY <1>2, <1>3, <1>4, <1>6 DEF IInv

\* Every step of the server, of its users and every crash keeps the invariant.
LEMMA NextIInv == IInv /\ [Next]_vars => IInv'
<1> SUFFICES ASSUME IInv, [Next]_vars PROVE IInv'
  OBVIOUS
<1>1. CASE UNCHANGED vars
  BY <1>1, StutterStep
<1>2. CASE \E r \in Requests, j \in Job : Accept(r, j)
  BY <1>2, AcceptStep
<1>3. CASE \E i \in Internships, f \in Faculty : AssignMentor(i, f)
  BY <1>3, AssignMentorStep
<1>4. CASE \E r \in Requests : Serve(r)
  <2> PICK r \in Requests : Serve(r)
    BY <1>4
  <2>1. CASE Authorize(r) \/ SaveSchedule(r) \/ CheckExisting(r)
    BY <2>1, AuthorizeStep, SaveScheduleStep, CheckExistingStep
  <2>2. CASE BeginSubmit(r) \/ BeginCorrect(r)
    BY <2>2, BeginStep
  <2>3. CASE InsertScore(r) \/ AuditSubmit(r) \/ CommitSubmit(r)
    BY <2>3, InsertScoreStep, AuditSubmitStep, CommitSubmitStep
  <2>4. CASE ReadOld(r)
    BY <2>4, ReadOldStep
  <2>5. CASE UpdateScore(r) \/ CreateCorrection(r)
    BY <2>5, CorrectTxStep
  <2>6. CASE CommitCorrect(r) \/ AuditCorrect(r)
    BY <2>6, CommitCorrectStep, AuditCorrectStep
  <2>7. CASE GetSchedule(r) \/ GetScore(r)
    BY <2>7, GetScheduleStep, GetScoreStep
  <2>8. CASE OpenFile(r) \/ WriteFile(r)
    BY <2>8, OpenFileStep, WriteFileStep
  <2>9. CASE FindSheet(r) \/ CreateSheet(r)
    BY <2>9, FindSheetStep, CreateSheetStep
  <2>10. CASE Rejected(r)
    BY <2>10, AbortStep
  <2> QED
    BY <2>1, <2>2, <2>3, <2>4, <2>5, <2>6, <2>7, <2>8, <2>9, <2>10 DEF Serve
<1>5. CASE \E r \in Requests : Fail(r)
  BY <1>5, AbortStep
<1>6. CASE Crash
  BY <1>6, CrashStep
<1> QED
  BY <1>1, <1>2, <1>3, <1>4, <1>5, <1>6 DEF Next

LEMMA Inductive == Spec => []IInv
BY InitIInv, NextIInv, PTL DEF Spec

\* The state of the server, the tables and the files keeps its types.
THEOREM TypeCorrect == Spec => []TypeOK
<1>1. IInv => TypeOK
  BY DEF IInv
<1> QED
  BY <1>1, Inductive, PTL

\* CorrectMarks and SubmitMarks: the correction history starts at the marks
\* first submitted and ends at the live ones.
THEOREM HistoryKept == Spec => []HistoryMatchesScore
<1>1. IInv => HistoryMatchesScore
  BY DEF IInv, Rows
<1> QED
  BY <1>1, Inductive, PTL

\* GenerateMarksheet: a marksheet row has its file, and a readable file shows
\* committed marks of its own key.
THEOREM PdfKept == Spec => []PdfWasLive
<1>1. IInv => PdfWasLive
  BY PdfInvSuffices DEF IInv, Rows
<1> QED
  BY <1>1, Inductive, PTL

\* SubmitMarks: marks come from a mentor of the internship.
THEOREM MentorKept == Spec => []ScoredByMentor
<1>1. IInv => ScoredByMentor
  BY DEF IInv, Rows
<1> QED
  BY <1>1, Inductive, PTL

\* GenerateMarksheet: locked marks that nobody works on lack their marksheet
\* only if a generation failed or the server stopped in one.
THEOREM MarksheetKept == Spec => []MarksheetUnlessFailed
<1>1. IInv => MarksheetUnlessFailed
  <2> SUFFICES ASSUME IInv, NEW k \in Key, score[k] # None, Quiet(k), ~ failed[k]
               PROVE  sheet[k] /\ file[KeyOfFile(k)] # None
    BY DEF MarksheetUnlessFailed
  <2>1. ~ \E r \in Requests : pc[r] \in Unfinished /\ job[r].at = k
    BY DEF Quiet, Unfinished, GenSteps
  <2> QED
    BY <2>1, FileOfKey DEF IInv, Covered
<1> QED
  BY <1>1, Inductive, PTL

\* Score and correction rows are written by the two commits only.
LEMMA RowWriters ==
  ASSUME Next
  PROVE  \/ UNCHANGED <<score, corrections>>
         \/ \E r \in Requests : CommitSubmit(r) \/ CommitCorrect(r)
<1>1. CASE \E r \in Requests : Serve(r)
  <2> PICK r \in Requests : Serve(r)
    BY <1>1
  <2> QED
    BY DEF Serve, Authorize, SaveSchedule, CheckExisting, BeginSubmit,
       InsertScore, AuditSubmit, ReadOld, BeginCorrect, UpdateScore,
       CreateCorrection, AuditCorrect, GetSchedule, GetScore, OpenFile,
       WriteFile, FindSheet, CreateSheet, Rejected, Abort, tables
<1>2. CASE ~ \E r \in Requests : Serve(r)
  BY <1>2 DEF Next, Accept, AssignMentor, Fail, Abort, Crash, tables
<1> QED
  BY <1>1, <1>2

\* SubmitMarks and CorrectMarks: a locked score keeps its row and submitter,
\* and its marks change only with a correction row.
THEOREM LockedMarksKept == Spec => LockedMarksStay
<1> DEFINE Kept == \A k \in Key : score[k] # None /\ score'[k] # score[k] =>
                     /\ score'[k] # None
                     /\ score'[k].by = score[k].by
                     /\ Len(corrections'[k]) = Len(corrections[k]) + 1
<1>1. IInv /\ [Next]_vars => [Kept]_vars
  <2> SUFFICES ASSUME IInv, Next,
                      NEW k \in Key, score[k] # None, score'[k] # score[k]
               PROVE  /\ score'[k] # None
                      /\ score'[k].by = score[k].by
                      /\ Len(corrections'[k]) = Len(corrections[k]) + 1
    OBVIOUS
  <2>1. PICK r \in Requests : CommitSubmit(r) \/ CommitCorrect(r)
    BY RowWriters
  <2>2. pc[r] \in {"commitSubmit", "commitCorrect"} /\ Slot(r) /\ TypeOK
    BY <2>1 DEF CommitSubmit, CommitCorrect, At, IInv
  <2>3. PICK x \in Key : x = job[r].at
    BY <2>2, Busy
  <2>4. score[k] \in Score /\ corrections[k] \in Seq(Correction)
    BY <2>2 DEF TypeOK
  <2>5. CASE CommitSubmit(r)
    <3>1. score[x] = None
      BY <2>3, <2>5 DEF IInv, OneInsert, Inserted, CommitSubmit, At
    <3>2. score' = [score EXCEPT ![x] = [by |-> job[r].actor, marks |-> job[r].value]]
      BY <2>3, <2>5 DEF CommitSubmit
    <3>3. x # k
      BY <3>1
    <3> QED
      BY <2>2, <3>2, <3>3 DEF TypeOK
  <2>6. CASE CommitCorrect(r)
    <3>1. PICK c \in Correction :
            c = [old |-> seen[r].old, new |-> job[r].value, by |-> job[r].actor]
      <4>1. pc[r] = "commitCorrect"
        BY <2>6 DEF CommitCorrect, At
      <4> QED
        BY <2>2, <4>1, Busy DEF Slot, OldSteps, CorrectTx, Correction
    <3>2. /\ score' = [score EXCEPT ![x].marks = job[r].value]
          /\ corrections' = [corrections EXCEPT ![x] = Append(@, c)]
      BY <2>3, <2>6, <3>1 DEF CommitCorrect
    <3>3. x = k
      BY <2>2, <3>2 DEF TypeOK
    <3>4. corrections'[k] = Append(corrections[k], c)
      BY <2>2, <3>2, <3>3 DEF TypeOK
    <3>5. PICK w : w = [score[k] EXCEPT !.marks = job[r].value]
      OBVIOUS
    <3>6. score'[k] = w
      BY <2>2, <3>2, <3>3, <3>5 DEF TypeOK
    <3>7. w \in [by: Faculty, marks: {job[r].value}] /\ w.by = score[k].by
      BY <2>4, <3>5 DEF Score
    <3>8. w \in Score
      BY <2>2, <2>6, <3>7, Busy DEF Score, Slot, OldSteps, CorrectTx, CommitCorrect, At
    <3> QED
      BY <2>4, <3>4, <3>6, <3>7, <3>8, NoneAssumption
  <2> QED
    BY <2>1, <2>5, <2>6
<1> QED
  BY <1>1, Inductive, PTL DEF Spec, LockedMarksStay

\* An OK answer is the last call's of one of three handlers.
LEMMA OkAnswers ==
  ASSUME IInv, Next, NEW r \in Requests, Answers(r, "ok")
  PROVE  SaveSchedule(r) \/ FindSheet(r) \/ CreateSheet(r)
<1>1. pc[r] # "idle" /\ pc'[r] = "idle" /\ reply'[r] = "ok" /\ TypeOK /\ Slot(r)
  BY DEF Answers, IInv
<1>2. ASSUME NEW q \in Requests, Serve(q) \/ Fail(q)
      PROVE  SaveSchedule(r) \/ FindSheet(r) \/ CreateSheet(r)
  <2>1. CASE SaveSchedule(q) \/ FindSheet(q) \/ CreateSheet(q)
    BY <1>1, <2>1 DEF SaveSchedule, FindSheet, CreateSheet, Goto, Finish, TypeOK
  <2>2. CASE ~ (SaveSchedule(q) \/ FindSheet(q) \/ CreateSheet(q))
    BY <1>1, <1>2, <2>2 DEF Serve, Authorize, CheckExisting, BeginSubmit,
       InsertScore, AuditSubmit, CommitSubmit, ReadOld, BeginCorrect,
       UpdateScore, CreateCorrection, CommitCorrect, AuditCorrect,
       GetSchedule, GetScore, OpenFile, WriteFile, Rejected, Fail, Abort,
       Goto, Finish, TypeOK
  <2> QED
    BY <2>1, <2>2
<1>3. ASSUME NEW q \in Requests, NEW j \in Job, Accept(q, j)
      PROVE  FALSE
  BY <1>1, <1>3 DEF Accept, At, TypeOK
<1>4. CASE \E i \in Internships, f \in Faculty : AssignMentor(i, f)
  BY <1>1, <1>4 DEF AssignMentor, request
<1>5. CASE Crash
  BY <1>1, <1>5 DEF Crash
<1> QED
  BY <1>2, <1>3, <1>4, <1>5 DEF Next

\* SubmitMarks: the faculty member told "created" is the one whose marks were
\* committed first.
THEOREM OkSubmitHeld == Spec => OkSubmitKept
<1> DEFINE Held == \A r \in Requests : Answers(r, "ok") /\ job[r].kind = "submit" =>
                     /\ original'[job[r].at] = job[r].value
                     /\ score'[job[r].at].by = job[r].actor
<1>1. IInv /\ [Next]_vars => [Held]_vars
  <2> SUFFICES ASSUME IInv, Next, NEW r \in Requests,
                      Answers(r, "ok"), job[r].kind = "submit"
               PROVE  /\ original'[job[r].at] = job[r].value
                      /\ score'[job[r].at].by = job[r].actor
    OBVIOUS
  <2>1. pc[r] # "idle" /\ pc'[r] = "idle" /\ reply'[r] = "ok" /\ TypeOK /\ Slot(r)
    BY DEF Answers, IInv
  <2>2. SaveSchedule(r) \/ FindSheet(r) \/ CreateSheet(r)
    BY OkAnswers
  <2>3. pc[r] \in GenSteps /\ UNCHANGED <<original, score>>
    BY <2>1, <2>2 DEF SaveSchedule, FindSheet, CreateSheet, At, Slot, GenSteps,
       tables, history
  <2> QED
    BY <2>1, <2>3 DEF Slot
<1> QED
  BY <1>1, Inductive, PTL DEF Spec, OkSubmitKept

-----------------------------------------------------------------------------
(* The audit log and the corrections.                                      *)

\* Requests that have committed a correction and not yet audited it.
Auditors(k) == {r \in Requests : pc[r] = "auditCorrect" /\ job[r].at = k}

\* The correction rows leave room for the audit rows on their way.
AuditInv ==
  \A k \in Key : audit[k].correct + Cardinality(Auditors(k)) <= Len(corrections[k])

LEMMA AuditorsFinite ==
  ASSUME NEW k, NEW S \in SUBSET Auditors(k)
  PROVE  /\ IsFiniteSet(Auditors(k)) /\ IsFiniteSet(S)
         /\ Cardinality(Auditors(k)) \in Nat /\ Cardinality(S) \in Nat
         /\ Cardinality(S) <= Cardinality(Auditors(k))
<1>1. IsFiniteSet(Auditors(k))
  BY RequestsAssumption, FS_Subset DEF Auditors
<1>2. IsFiniteSet(S) /\ Cardinality(S) <= Cardinality(Auditors(k))
  BY <1>1, FS_Subset
<1> QED
  BY <1>1, <1>2, FS_CardinalityType

LEMMA CountTypes ==
  ASSUME TypeOK, NEW k \in Key
  PROVE  audit[k].correct \in Nat /\ Len(corrections[k]) \in Nat
BY DEF TypeOK

\* A step that neither commits nor audits a correction adds no auditor.
LEMMA AuditorsShrink ==
  ASSUME IInv, AuditInv, NEW k \in Key,
         audit'[k].correct = audit[k].correct, corrections'[k] = corrections[k],
         Auditors(k)' \subseteq Auditors(k)
  PROVE  audit'[k].correct + Cardinality(Auditors(k)') <= Len(corrections'[k])
<1>1. /\ Cardinality(Auditors(k)') <= Cardinality(Auditors(k))
      /\ Cardinality(Auditors(k)') \in Nat /\ Cardinality(Auditors(k)) \in Nat
  BY AuditorsFinite
<1>2. audit[k].correct \in Nat /\ Len(corrections[k]) \in Nat
  BY CountTypes DEF IInv
<1> QED
  BY <1>1, <1>2 DEF AuditInv

LEMMA CommitCorrectAudit ==
  ASSUME IInv, AuditInv, NEW r \in Requests, CommitCorrect(r)
  PROVE  AuditInv'
<1>1. pc[r] = "commitCorrect" /\ Slot(r) /\ TypeOK /\ UNCHANGED audit
  BY DEF CommitCorrect, At, IInv
<1>2. PICK x \in Key : x = job[r].at
  BY <1>1, Busy
<1>3. PICK c \in Correction :
        c = [old |-> seen[r].old, new |-> job[r].value, by |-> job[r].actor]
  BY <1>1, Busy DEF Slot, OldSteps, CorrectTx, Correction
<1>4. corrections' = [corrections EXCEPT ![x] = Append(@, c)]
  BY <1>2, <1>3 DEF CommitCorrect
<1>5. /\ \A q \in Requests \ {r} : pc'[q] = pc[q] /\ job'[q] = job[q]
      /\ pc'[r] = "auditCorrect" => job'[r] = job[r]
  BY <1>1 DEF CommitCorrect, Goto, Finish, TypeOK
<1>6. ASSUME NEW k \in Key
      PROVE  audit'[k].correct + Cardinality(Auditors(k)') <= Len(corrections'[k])
  <2>1. CASE k # x
    <3>1. Auditors(k)' \subseteq Auditors(k)
      BY <1>2, <1>5, <2>1 DEF Auditors
    <3>2. corrections'[k] = corrections[k]
      BY <1>1, <1>4, <2>1 DEF TypeOK
    <3> QED
      BY <1>1, <3>1, <3>2, AuditorsShrink
  <2>2. CASE k = x
    <3>1. Auditors(k)' \subseteq Auditors(k) \cup {r}
      BY <1>5 DEF Auditors
    <3>2. r \notin Auditors(k)
      BY <1>1 DEF Auditors
    <3>3. /\ IsFiniteSet(Auditors(k)) /\ Cardinality(Auditors(k)) \in Nat
      BY AuditorsFinite
    <3>4. /\ IsFiniteSet(Auditors(k) \cup {r})
          /\ Cardinality(Auditors(k) \cup {r}) = Cardinality(Auditors(k)) + 1
      BY <3>2, <3>3, FS_AddElement
    <3>5. /\ Cardinality(Auditors(k)') <= Cardinality(Auditors(k)) + 1
          /\ IsFiniteSet(Auditors(k)')
      BY <3>1, <3>4, FS_Subset
    <3>6. Cardinality(Auditors(k)') \in Nat
      BY <3>5, FS_CardinalityType
    <3>7. Len(corrections'[k]) = Len(corrections[k]) + 1
      BY <1>1, <1>4, <2>2 DEF TypeOK
    <3>8. audit[k].correct \in Nat /\ Len(corrections[k]) \in Nat
      BY <1>1, CountTypes
    <3>9. audit[k].correct + Cardinality(Auditors(k)) <= Len(corrections[k])
      BY DEF AuditInv
    <3> QED
      BY <1>1, <3>3, <3>5, <3>6, <3>7, <3>8, <3>9
  <2> QED
    BY <2>1, <2>2
<1> QED
  BY <1>6 DEF AuditInv

LEMMA AuditCorrectAudit ==
  ASSUME IInv, AuditInv, NEW r \in Requests, AuditCorrect(r)
  PROVE  AuditInv'
<1>1. /\ pc[r] = "auditCorrect" /\ Slot(r) /\ TypeOK
      /\ pc' = [pc EXCEPT ![r] = "getSchedule"]
      /\ UNCHANGED <<job, corrections>>
  BY DEF AuditCorrect, At, Goto, IInv, tables
<1>2. PICK x \in Key : x = job[r].at
  BY <1>1, Busy
<1>3. /\ \A k \in Key \ {x} : audit'[k] = audit[k]
      /\ \/ audit'[x].correct = audit[x].correct
         \/ audit'[x].correct = audit[x].correct + 1
  BY <1>1, <1>2 DEF AuditCorrect, TypeOK
<1>4. ASSUME NEW k \in Key
      PROVE  audit'[k].correct + Cardinality(Auditors(k)') <= Len(corrections'[k])
  <2>1. CASE k # x
    <3>1. Auditors(k)' \subseteq Auditors(k)
      BY <1>1 DEF Auditors, TypeOK
    <3> QED
      BY <1>1, <1>3, <2>1, <3>1, AuditorsShrink
  <2>2. CASE k = x
    <3>1. Auditors(k)' \subseteq Auditors(k) \ {r} /\ r \in Auditors(k)
      BY <1>1, <1>2, <2>2 DEF Auditors, TypeOK
    <3>2. IsFiniteSet(Auditors(k)) /\ Cardinality(Auditors(k)) \in Nat
      BY AuditorsFinite
    <3>3. /\ IsFiniteSet(Auditors(k) \ {r})
          /\ Cardinality(Auditors(k) \ {r}) = Cardinality(Auditors(k)) - 1
      BY <3>1, <3>2, FS_RemoveElement
    <3>4. /\ Cardinality(Auditors(k)') <= Cardinality(Auditors(k)) - 1
          /\ IsFiniteSet(Auditors(k)')
      BY <3>1, <3>3, FS_Subset
    <3>5. Cardinality(Auditors(k)') \in Nat
      BY <3>4, FS_CardinalityType
    <3>6. audit[k].correct \in Nat /\ Len(corrections[k]) \in Nat
      BY <1>1, CountTypes
    <3>7. audit[k].correct + Cardinality(Auditors(k)) <= Len(corrections[k])
      BY DEF AuditInv
    <3>8. PICK a \in Nat, n \in Nat, m \in Nat :
            /\ a = audit[k].correct /\ n = Cardinality(Auditors(k))
            /\ m = Cardinality(Auditors(k)')
      BY <3>2, <3>5, <3>6
    <3>9. audit'[k].correct = a \/ audit'[k].correct = a + 1
      BY <1>3, <2>2, <3>8
    <3>10. m <= n - 1 /\ a + n <= Len(corrections[k])
      BY <3>4, <3>7, <3>8
    <3>11. audit'[k].correct + m <= Len(corrections[k])
      BY <3>6, <3>9, <3>10
    <3> QED
      BY <1>1, <3>8, <3>11
  <2> QED
    BY <2>1, <2>2
<1> QED
  BY <1>4 DEF AuditInv

LEMMA OtherAudit ==
  ASSUME IInv, AuditInv, [Next]_vars,
         ~ \E r \in Requests : CommitCorrect(r) \/ AuditCorrect(r)
  PROVE  AuditInv'
<1>1. TypeOK
  BY DEF IInv
<1>2. ASSUME NEW r \in Requests, Serve(r) \/ Fail(r)
      PROVE  /\ UNCHANGED corrections
             /\ \A k \in Key : audit'[k].correct = audit[k].correct
             /\ \A q \in Requests : pc'[q] = "auditCorrect" =>
                  pc[q] = "auditCorrect" /\ job'[q] = job[q]
  <2>1. CASE AuditSubmit(r)
    <3>1. PICK x \in Key : x = job[r].at
      BY <1>1, <2>1, Busy DEF AuditSubmit, At, IInv
    <3>2. audit[x] \in [submit: Nat, correct: Nat]
      BY <1>1 DEF TypeOK
    <3>3. PICK w : w = [audit[x] EXCEPT !.submit = @ + 1]
      OBVIOUS
    <3>3a. w.correct = audit[x].correct
      BY <3>2, <3>3
    <3>3b. UNCHANGED audit \/ audit' = [audit EXCEPT ![x] = w]
      BY <2>1, <3>1, <3>3 DEF AuditSubmit
    <3>4. \A k \in Key : audit'[k].correct = audit[k].correct
      BY <1>1, <3>3a, <3>3b DEF TypeOK
    <3> QED
      BY <1>1, <2>1, <3>4 DEF AuditSubmit, At, Goto, TypeOK, tables
  <2>2. CASE CommitSubmit(r)
    BY <1>1, <2>2 DEF CommitSubmit, At, Goto, Finish, TypeOK, tables
  <2>3. CASE ~ (AuditSubmit(r) \/ CommitSubmit(r))
    <3>1. UNCHANGED <<corrections, audit>>
      BY <1>2, <2>3 DEF Serve, Authorize, SaveSchedule, CheckExisting, BeginSubmit,
         InsertScore, ReadOld, BeginCorrect, UpdateScore, CreateCorrection,
         GetSchedule, GetScore, OpenFile, WriteFile, FindSheet, CreateSheet,
         Rejected, Fail, Abort, tables
    <3>2. \/ Finish(r, "ok") \/ Finish(r, "refused") \/ Finish(r, "locked")
          \/ Finish(r, "error")
          \/ \E step \in (Steps \ {"auditCorrect"}) : Goto(r, step)
      BY <1>2, <2>3 DEF Serve, Authorize, SaveSchedule, CheckExisting, BeginSubmit,
         InsertScore, ReadOld, BeginCorrect, UpdateScore, CreateCorrection,
         GetSchedule, GetScore, OpenFile, WriteFile, FindSheet, CreateSheet,
         Rejected, Fail, Abort, Steps, SubmitTx, CorrectTx, GenSteps
    <3> QED
      BY <1>1, <3>1, <3>2 DEF Goto, Finish, TypeOK
  <2> QED
    BY <2>1, <2>2, <2>3
<1>3. ASSUME NEW r \in Requests, NEW j \in Job, Accept(r, j)
      PROVE  /\ UNCHANGED <<corrections, audit>>
             /\ \A q \in Requests : pc'[q] = "auditCorrect" =>
                  pc[q] = "auditCorrect" /\ job'[q] = job[q]
  BY <1>1, <1>3 DEF Accept, At, TypeOK, tables
<1>4. CASE Crash
  BY <1>4, AuditorsShrink DEF Crash, AuditInv, Auditors, tables
<1>5. CASE \/ UNCHANGED vars \/ \E i \in Internships, f \in Faculty : AssignMentor(i, f)
  BY <1>5 DEF AssignMentor, vars, request, AuditInv, Auditors
<1>6. CASE /\ \A k \in Key : /\ audit'[k].correct = audit[k].correct
                             /\ corrections'[k] = corrections[k]
           /\ \A q \in Requests : pc'[q] = "auditCorrect" =>
                pc[q] = "auditCorrect" /\ job'[q] = job[q]
  <2>1. ASSUME NEW k \in Key PROVE Auditors(k)' \subseteq Auditors(k)
    BY <1>6 DEF Auditors
  <2> QED
    BY <1>6, <2>1, AuditorsShrink DEF AuditInv
<1> QED
  BY <1>2, <1>3, <1>4, <1>5, <1>6 DEF Next

\* CorrectMarks: the audit log never tells of a correction that was not
\* committed.
THEOREM AuditHeld == Spec => []AuditNeverAhead
<1>1. Init => AuditInv
  <2> SUFFICES ASSUME Init, NEW k \in Key
               PROVE  audit[k].correct + Cardinality(Auditors(k)) <= Len(corrections[k])
    BY DEF AuditInv
  <2>1. Auditors(k) = {}
    BY DEF Init, Auditors
  <2>2. Cardinality(Auditors(k)) = 0
    BY <2>1, FS_EmptySet
  <2> QED
    BY <2>2 DEF Init
<1>2. IInv /\ AuditInv /\ [Next]_vars => AuditInv'
  BY CommitCorrectAudit, AuditCorrectAudit, OtherAudit
<1>3. IInv /\ AuditInv => AuditNeverAhead
  <2> SUFFICES ASSUME IInv, AuditInv, NEW k \in Key
               PROVE  audit[k].correct <= Len(corrections[k])
    BY DEF AuditNeverAhead
  <2>1. Cardinality(Auditors(k)) \in Nat
    BY AuditorsFinite
  <2>2. audit[k].correct \in Nat /\ Len(corrections[k]) \in Nat
    BY CountTypes DEF IInv
  <2> QED
    BY <2>1, <2>2 DEF AuditInv
<1> QED
  BY <1>1, <1>2, <1>3, Inductive, PTL DEF Spec


-----------------------------------------------------------------------------
(* Requests that have a key to themselves.                                 *)

\* Two requests at one key overlap, and the later one marked it contended.
Alone ==
  \A r, q \in Requests :
    pc[r] # "idle" /\ pc[q] # "idle" /\ job[r].at = job[q].at /\ ~ contended[job[r].at] =>
      r = q

\* What a request alone at its key has read, and written, is still so.
Fresh(r) ==
  LET k == job[r].at
  IN pc[r] # "idle" /\ ~ contended[k] =>
       /\ pc[r] \in OldSteps => seen[r].old = score[k].marks
       /\ pc[r] \in RenderSteps \cup {"getScore"} => seen[r].sched = schedule[k]
       /\ pc[r] \in RenderSteps => seen[r].marks = score[k].marks
       /\ pc[r] = "writeFile" => file[k] = Empty
       /\ pc[r] \in {"findSheet", "createSheet"} =>
            file[k] = [at |-> k, sched |-> schedule[k], marks |-> score[k].marks]

FreshInv == Alone /\ \A r \in Requests : Fresh(r)

FreshSteps == OldSteps \cup RenderSteps \cup {"getScore", "findSheet", "createSheet"}

\* A request changes schedules, scores and files of its own key only.
LEMMA OwnKeyOnly ==
  ASSUME IInv, NEW r \in Requests, Serve(r) \/ Fail(r)
  PROVE  /\ pc[r] # "idle" /\ UNCHANGED contended
         /\ \A q \in Requests \ {r} :
              pc'[q] = pc[q] /\ job'[q] = job[q] /\ seen'[q] = seen[q]
         /\ pc'[r] # "idle" => job'[r] = job[r]
         /\ \A k \in Key : k # job[r].at =>
              /\ schedule'[k] = schedule[k]
              /\ score'[k] = score[k]
              /\ file'[k] = file[k]
<1>1. TypeOK
  BY DEF IInv
<1>2. pc[r] # "idle" /\ UNCHANGED contended
  BY DEF Serve, Authorize, SaveSchedule, CheckExisting, BeginSubmit, InsertScore,
     AuditSubmit, CommitSubmit, ReadOld, BeginCorrect, UpdateScore,
     CreateCorrection, CommitCorrect, AuditCorrect, GetSchedule, GetScore,
     OpenFile, WriteFile, FindSheet, CreateSheet, Rejected, Fail, Abort, At, history
<1>3. /\ \A q \in Requests \ {r} :
           pc'[q] = pc[q] /\ job'[q] = job[q] /\ seen'[q] = seen[q]
      /\ pc'[r] # "idle" => job'[r] = job[r]
  BY <1>1 DEF Serve, Authorize, SaveSchedule, CheckExisting, BeginSubmit,
     InsertScore, AuditSubmit, CommitSubmit, ReadOld, BeginCorrect, UpdateScore,
     CreateCorrection, CommitCorrect, AuditCorrect, GetSchedule, GetScore,
     OpenFile, WriteFile, FindSheet, CreateSheet, Rejected, Fail, Abort,
     Goto, Finish, TypeOK
<1>4. PICK x \in Key : x = job[r].at /\ KeyOfFile(x) = x
  BY <1>1, <1>2, Busy, FileOfKey DEF IInv
<1>5. ASSUME NEW k \in Key, k # x
      PROVE  schedule'[k] = schedule[k] /\ score'[k] = score[k] /\ file'[k] = file[k]
  <2>1. CASE SaveSchedule(r)
    BY <1>1, <1>4, <1>5, <2>1 DEF SaveSchedule, TypeOK
  <2>2. CASE CommitSubmit(r) \/ CommitCorrect(r)
    BY <1>1, <1>4, <1>5, <2>2 DEF CommitSubmit, CommitCorrect, TypeOK
  <2>3. CASE OpenFile(r) \/ WriteFile(r)
    BY <1>1, <1>4, <1>5, <2>3 DEF OpenFile, WriteFile, TypeOK, tables
  <2>4. CASE ~ \/ SaveSchedule(r) \/ CommitSubmit(r) \/ CommitCorrect(r)
               \/ OpenFile(r) \/ WriteFile(r)
    BY <2>4 DEF Serve, Authorize, CheckExisting, BeginSubmit, InsertScore,
       AuditSubmit, ReadOld, BeginCorrect, UpdateScore, CreateCorrection,
       AuditCorrect, GetSchedule, GetScore, FindSheet, CreateSheet, Rejected,
       Fail, Abort, tables
  <2> QED
    BY <2>1, <2>2, <2>3, <2>4
<1> QED
  BY <1>2, <1>3, <1>4, <1>5

\* The request's own calls read, and write, what is live.
LEMMA OwnFresh ==
  ASSUME IInv, FreshInv, NEW r \in Requests, Serve(r) \/ Fail(r)
  PROVE  Fresh(r)'
<1>1. TypeOK /\ Slot(r) /\ Fresh(r)
  BY DEF IInv, FreshInv
<1>2. pc[r] # "idle" /\ UNCHANGED contended
      /\ (pc'[r] # "idle" => job'[r] = job[r])
  BY OwnKeyOnly
<1>3. PICK x \in Key : x = job[r].at /\ KeyOfFile(x) = x
  BY <1>1, <1>2, Busy, FileOfKey
<1>4. seen[r] \in Seen
  BY <1>1 DEF TypeOK
<1> USE DEF RenderSteps, OldSteps, CorrectTx
<1>5. CASE GetSchedule(r)
  <2>1. pc'[r] = "getScore" /\ schedule' = schedule /\ job' = job
    BY <1>1, <1>5 DEF GetSchedule, Goto, TypeOK, tables
  <2>2. seen'[r].sched = schedule[x]
    BY <1>1, <1>3, <1>4, <1>5 DEF GetSchedule, TypeOK, Seen
  <2> QED
    BY <1>3, <2>1, <2>2 DEF Fresh
<1>6. CASE GetScore(r)
  <2>1. /\ pc[r] = "getScore" /\ pc'[r] = "openFile"
        /\ UNCHANGED <<schedule, score, job>>
    BY <1>1, <1>6 DEF GetScore, At, Goto, TypeOK, tables
  <2>2. seen'[r].marks = score[x].marks /\ seen'[r].sched = seen[r].sched
    BY <1>1, <1>3, <1>4, <1>6 DEF GetScore, TypeOK, Seen
  <2> QED
    BY <1>1, <1>2, <1>3, <2>1, <2>2 DEF Fresh
<1>7. CASE OpenFile(r)
  <2>1. /\ pc[r] = "openFile" /\ pc'[r] = "writeFile"
        /\ UNCHANGED <<schedule, score, job, seen>> /\ file'[x] = Empty
    BY <1>1, <1>3, <1>7 DEF OpenFile, At, Goto, TypeOK, tables
  <2> QED
    BY <1>1, <1>2, <1>3, <2>1 DEF Fresh
<1>8. CASE WriteFile(r)
  <2>1. /\ pc[r] = "writeFile" /\ pc'[r] = "findSheet"
        /\ UNCHANGED <<schedule, score, job>>
    BY <1>1, <1>8 DEF WriteFile, At, Goto, TypeOK, tables
  <2>2. ASSUME ~ contended[x]
        PROVE  file'[x] = [at |-> x, sched |-> schedule[x], marks |-> score[x].marks]
    <3>1. /\ file[x] = Empty
          /\ seen[r].sched = schedule[x] /\ seen[r].marks = score[x].marks
      BY <1>1, <1>3, <2>1, <2>2 DEF Fresh
    <3>2. file' = [file EXCEPT ![x] =
                     [at |-> x, sched |-> seen[r].sched, marks |-> seen[r].marks]]
      BY <1>3, <1>8, <3>1 DEF WriteFile
    <3> QED
      BY <1>1, <3>1, <3>2 DEF TypeOK
  <2> QED
    BY <1>2, <1>3, <2>1, <2>2 DEF Fresh
<1>9. CASE FindSheet(r)
  <2>1. /\ pc[r] = "findSheet" /\ pc'[r] \in {"idle", "createSheet"}
        /\ UNCHANGED <<schedule, score, file>>
    BY <1>1, <1>9 DEF FindSheet, At, Goto, Finish, TypeOK, tables
  <2> QED
    BY <1>1, <1>2, <1>3, <2>1 DEF Fresh
<1>10. CASE ReadOld(r)
  <2>1. /\ pc'[r] \in {"idle", "beginCorrect"}
        /\ UNCHANGED <<schedule, score, file>>
    BY <1>1, <1>10 DEF ReadOld, Goto, Finish, TypeOK, tables
  <2>2. pc'[r] = "beginCorrect" => seen'[r].old = score[x].marks
    BY <1>1, <1>3, <1>4, <1>10, <2>1 DEF ReadOld, Finish, TypeOK, Seen
  <2> QED
    BY <1>2, <1>3, <2>1, <2>2 DEF Fresh
<1>11. CASE BeginCorrect(r) \/ UpdateScore(r) \/ CreateCorrection(r)
  <2>1. /\ pc[r] \in OldSteps /\ pc'[r] \in CorrectTx
        /\ UNCHANGED <<seen, schedule, score, file>>
    BY <1>1, <1>11 DEF BeginCorrect, UpdateScore, CreateCorrection, At, Goto,
       TypeOK, tables
  <2> QED
    BY <1>1, <1>2, <1>3, <2>1 DEF Fresh
<1>12. CASE ~ \/ GetSchedule(r) \/ GetScore(r) \/ OpenFile(r) \/ WriteFile(r)
              \/ FindSheet(r) \/ ReadOld(r) \/ BeginCorrect(r) \/ UpdateScore(r)
              \/ CreateCorrection(r)
  <2>1. pc'[r] \notin FreshSteps
    BY <1>1, <1>12 DEF Serve, Authorize, SaveSchedule, CheckExisting, BeginSubmit,
       InsertScore, AuditSubmit, CommitSubmit, CommitCorrect, AuditCorrect, CreateSheet, Rejected,
       Fail, Abort, Goto, Finish, TypeOK, FreshSteps
  <2> QED
    BY <2>1 DEF Fresh, FreshSteps
<1> QED
  BY <1>5, <1>6, <1>7, <1>8, <1>9, <1>10, <1>11, <1>12

LEMMA FreshServe ==
  ASSUME IInv, FreshInv, NEW r \in Requests, Serve(r) \/ Fail(r)
  PROVE  FreshInv'
<1>1. Alone'
  BY OwnKeyOnly DEF FreshInv, Alone
<1>2. ASSUME NEW q \in Requests PROVE Fresh(q)'
  <2>1. CASE q = r
    BY <2>1, OwnFresh
  <2>2. CASE q # r /\ (pc[q] = "idle" \/ contended[job[q].at])
    BY <2>2, OwnKeyOnly DEF Fresh
  <2>3. CASE q # r /\ pc[q] # "idle" /\ ~ contended[job[q].at]
    <3>1. job[q].at \in Key /\ job[q].at # job[r].at
      BY <2>3, OwnKeyOnly, Busy DEF IInv, FreshInv, Alone
    <3>2. Fresh(q)
      BY DEF FreshInv
    <3> QED
      BY <2>3, <3>1, <3>2, OwnKeyOnly DEF Fresh
  <2> QED
    BY <2>1, <2>2, <2>3
<1> QED
  BY <1>1, <1>2 DEF FreshInv

LEMMA FreshAccept ==
  ASSUME IInv, FreshInv, NEW r \in Requests, NEW j \in Job, Accept(r, j)
  PROVE  FreshInv'
<1>1. TypeOK /\ j.at \in Key
  BY DEF IInv, Job
<1>2. /\ pc[r] = "idle" /\ pc'[r] \in {"read", "auth"} /\ job'[r] = j
      /\ \A q \in Requests \ {r} : pc'[q] = pc[q] /\ job'[q] = job[q]
      /\ UNCHANGED <<seen, schedule, score, file>>
      /\ contended'[j.at] = (\E q \in Requests : pc[q] # "idle" /\ job[q].at = j.at)
      /\ \A k \in Key \ {j.at} : contended'[k] = contended[k]
  BY <1>1 DEF Accept, At, TypeOK, tables
<1>3. ASSUME NEW q \in Requests \ {r}, pc[q] # "idle", ~ contended'[job[q].at]
      PROVE  job[q].at # j.at /\ ~ contended[job[q].at]
  <2>1. job[q].at \in Key
    BY <1>3, Busy DEF IInv
  <2> QED
    BY <1>2, <1>3, <2>1
<1>4. Alone'
  <2> SUFFICES ASSUME NEW p \in Requests, NEW q \in Requests,
                      pc'[p] # "idle", pc'[q] # "idle", job'[p].at = job'[q].at,
                      ~ contended'[job'[p].at]
               PROVE  p = q
    BY DEF Alone
  <2> QED
    BY <1>2, <1>3 DEF FreshInv, Alone
<1>5. ASSUME NEW q \in Requests PROVE Fresh(q)'
  <2>1. CASE q = r
    BY <2>1, <1>2 DEF Fresh, RenderSteps, OldSteps, CorrectTx
  <2>2. CASE q # r
    BY <2>2, <1>2, <1>3 DEF FreshInv, Fresh
  <2> QED
    BY <2>1, <2>2
<1> QED
  BY <1>4, <1>5 DEF FreshInv

LEMMA FreshInductive == Spec => []FreshInv
<1>1. Init => FreshInv
  BY DEF Init, FreshInv, Alone, Fresh
<1>2. IInv /\ FreshInv /\ [Next]_vars => FreshInv'
  <2> SUFFICES ASSUME IInv, FreshInv, [Next]_vars PROVE FreshInv'
    OBVIOUS
  <2>1. CASE Crash
    BY <2>1 DEF Crash, FreshInv, Alone, Fresh
  <2>2. CASE \/ UNCHANGED vars
             \/ \E i \in Internships, f \in Faculty : AssignMentor(i, f)
    BY <2>2 DEF AssignMentor, vars, request, history, FreshInv, Alone, Fresh
  <2> QED
    BY <2>1, <2>2, FreshServe, FreshAccept DEF Next
<1> QED
  BY <1>1, <1>2, Inductive, PTL DEF Spec

\* CorrectMarks: with the key to itself, a correction keeps exactly the marks
\* it replaces.
THEOREM CorrectionExactHeld == Spec => CorrectionExact
<1> DEFINE Exact == \A k \in Key : corrections'[k] # corrections[k] /\ ~ contended[k] =>
                      corrections'[k][Len(corrections'[k])].old = score[k].marks
<1>1. IInv /\ FreshInv /\ [Next]_vars => [Exact]_vars
  <2> SUFFICES ASSUME IInv, FreshInv, Next, NEW k \in Key,
                      corrections'[k] # corrections[k], ~ contended[k]
               PROVE  corrections'[k][Len(corrections'[k])].old = score[k].marks
    OBVIOUS
  <2>1. PICK r \in Requests : CommitCorrect(r)
    BY RowWriters DEF CommitSubmit
  <2>2. /\ pc[r] = "commitCorrect" /\ TypeOK /\ Slot(r) /\ Fresh(r)
        /\ corrections[k] \in Seq(Correction)
    BY <2>1 DEF CommitCorrect, At, IInv, FreshInv, TypeOK
  <2>3. PICK c \in Correction :
          c = [old |-> seen[r].old, new |-> job[r].value, by |-> job[r].actor]
    BY <2>2, Busy DEF Slot, OldSteps, CorrectTx, Correction
  <2>4. PICK x \in Key : x = job[r].at
    BY <2>2, Busy
  <2>5. corrections' = [corrections EXCEPT ![x] = Append(@, c)]
    BY <2>1, <2>3, <2>4 DEF CommitCorrect
  <2>6. x = k /\ corrections'[k] = Append(corrections[k], c)
    BY <2>2, <2>5 DEF TypeOK
  <2>7. c.old = score[k].marks
    BY <2>2, <2>3, <2>4, <2>6 DEF Fresh, OldSteps, CorrectTx
  <2> QED
    BY <2>2, <2>3, <2>6, <2>7
<1> QED
  BY <1>1, Inductive, FreshInductive, PTL DEF Spec, CorrectionExact

\* SubmitMarks and CorrectMarks: an OK answer to a request that had its key
\* to itself means that the stored PDF shows the live marks and schedule.
THEOREM FreshPdfHeld == Spec => OkMeansFreshPdf
<1> DEFINE Held == \A r \in Requests :
                     /\ Answers(r, "ok")
                     /\ job[r].kind \in {"submit", "correct"}
                     /\ ~ contended[job[r].at]
                     => LET k == job[r].at
                        IN /\ sheet'[k]
                           /\ file'[KeyOfFile(k)] = [at |-> k, sched |-> schedule'[k],
                                                     marks |-> score'[k].marks]
<1>1. IInv /\ FreshInv /\ [Next]_vars => [Held]_vars
  <2> SUFFICES ASSUME IInv, FreshInv, Next, NEW r \in Requests, Answers(r, "ok"),
                      job[r].kind \in {"submit", "correct"}, ~ contended[job[r].at]
               PROVE  /\ sheet'[job[r].at]
                      /\ file'[KeyOfFile(job[r].at)] =
                           [at |-> job[r].at, sched |-> schedule'[job[r].at],
                            marks |-> score'[job[r].at].marks]
    OBVIOUS
  <2>1. pc[r] # "idle" /\ pc'[r] = "idle" /\ reply'[r] = "ok" /\ TypeOK
        /\ Slot(r) /\ Fresh(r)
    BY DEF Answers, IInv, FreshInv
  <2>2. SaveSchedule(r) \/ FindSheet(r) \/ CreateSheet(r)
    BY OkAnswers
  <2>3. PICK x \in Key : x = job[r].at /\ KeyOfFile(x) = x
    BY <2>1, Busy, FileOfKey
  <2>4. ~ SaveSchedule(r)
    BY <2>1 DEF SaveSchedule, At, Slot
  <2>5. CASE FindSheet(r)
    BY <2>1, <2>3, <2>5 DEF FindSheet, At, Goto, TypeOK, Fresh, tables
  <2>6. CASE CreateSheet(r)
    BY <2>1, <2>3, <2>6 DEF CreateSheet, At, TypeOK, Fresh
  <2> QED
    BY <2>2, <2>4, <2>5, <2>6
<1> QED
  BY <1>1, Inductive, FreshInductive, PTL DEF Spec, OkMeansFreshPdf

-----------------------------------------------------------------------------
(* The committed rows are a ledger.                                        *)

\* The marks a ledger calls had are those the submission and its corrections
\* brought: the first correction kept the marks first submitted.
LEMMA SameHad ==
  ASSUME TypeOK, Rows, NEW k \in Key, score[k] # None
  PROVE  MarksHad(k) = Marksheets!Had(k)
<1>1. original[k] = IF corrections[k] = <<>> THEN score[k].marks
                                             ELSE corrections[k][1].old
  BY DEF Rows, HistoryMatchesScore
<1> QED
  BY <1>1 DEF MarksHad, Marksheets!Had

\* The commit of a submission enters marks where there are none.
LEMMA SubmitEnters ==
  ASSUME IInv, NEW r \in Requests, CommitSubmit(r)
  PROVE  Marksheets!Next
<1>1. pc[r] = "commitSubmit" /\ Slot(r) /\ TypeOK
  BY DEF CommitSubmit, At, IInv
<1>2. PICK k \in Key : k = job[r].at
  BY <1>1, Busy
<1>3. PICK f \in Faculty, m \in Marks : f = job[r].actor /\ m = job[r].value
  BY <1>1, Busy DEF Slot, SubmitSteps, SubmitTx
<1>4. score[k] = None
  BY <1>1, <1>2 DEF IInv, OneInsert, Inserted
<1>5. Marksheets!Enter(k, f, m)
  BY <1>2, <1>3, <1>4 DEF CommitSubmit, Marksheets!Enter
<1> QED
  BY <1>5 DEF Marksheets!Next

\* The commit of a correction replaces marks and names some that were in force.
LEMMA CorrectionCorrects ==
  ASSUME IInv, NEW r \in Requests, CommitCorrect(r)
  PROVE  Marksheets!Next
<1>1. pc[r] = "commitCorrect" /\ Slot(r) /\ TypeOK
  BY DEF CommitCorrect, At, IInv
<1>2. PICK k \in Key : k = job[r].at
  BY <1>1, Busy
<1>3. PICK a \in Admins, m \in Marks : a = job[r].actor /\ m = job[r].value
  BY <1>1, Busy DEF Slot, OldSteps, CorrectTx
<1>4. PICK o \in Marks : o = seen[r].old /\ o \in MarksHad(k) /\ score[k] # None
  BY <1>1, <1>2 DEF Slot, OldSteps, CorrectTx
<1>5. o \in Marksheets!Had(k)
  BY <1>1, <1>4, SameHad DEF IInv
<1>6. Marksheets!Correct(k, a, o, m)
  BY <1>2, <1>3, <1>4, <1>5 DEF CommitCorrect, Marksheets!Correct
<1> QED
  BY <1>6 DEF Marksheets!Next

LEMMA LedgerStep == IInv /\ [Next]_vars => [Marksheets!Next]_<<score, corrections>>
<1> SUFFICES ASSUME IInv, [Next]_vars
             PROVE  [Marksheets!Next]_<<score, corrections>>
  OBVIOUS
<1>1. CASE UNCHANGED vars
  BY <1>1 DEF vars
<1>2. CASE \E r \in Requests : CommitSubmit(r) \/ CommitCorrect(r)
  BY <1>2, SubmitEnters, CorrectionCorrects
<1>3. CASE Next /\ UNCHANGED <<score, corrections>>
  BY <1>3
<1> QED
  BY <1>1, <1>2, <1>3, RowWriters

\* Whatever submissions and corrections race, fail or are cut off by a crash,
\* the committed rows follow the ledger: marks entered once, then corrected
\* one at a time, each correction naming marks that were once in force.
THEOREM LedgerImplemented == Spec => ImplementsLedger
<1>1. Init => Marksheets!Init
  BY DEF Init, Marksheets!Init
<1> QED
  BY <1>1, LedgerStep, Inductive, PTL DEF Spec, ImplementsLedger, Marksheets!Spec

-----------------------------------------------------------------------------
(* What a ledger promises of its rows.                                     *)

\* The marks correction n of a key had before it, by the trail alone.
Before(k, n) ==
  {corrections[k][1].old} \cup {corrections[k][m].new : m \in 1..(n - 1)}

LedgerInv ==
  /\ score \in [Key -> Score \cup {None}]
  /\ corrections \in [Key -> Seq(Correction)]
  /\ \A k \in Key :
       /\ score[k] = None => corrections[k] = <<>>
       /\ corrections[k] # <<>> =>
            corrections[k][Len(corrections[k])].new = score[k].marks
       /\ \A n \in 1..Len(corrections[k]) : corrections[k][n].old \in Before(k, n)

LEMMA LedgerEnters ==
  ASSUME LedgerInv, NEW k \in Key, NEW f \in Faculty, NEW m \in Marks,
         Marksheets!Enter(k, f, m)
  PROVE  LedgerInv'
<1> USE DEF Marksheets!Enter
<1>1. [by |-> f, marks |-> m] \in Score /\ [by |-> f, marks |-> m] # None
  BY NoneAssumption DEF Score
<1>2. corrections[k] = <<>> /\ Len(corrections[k]) = 0
  BY DEF LedgerInv
<1>3. ASSUME NEW j \in Key \ {k} PROVE score'[j] = score[j]
  BY DEF LedgerInv
<1> QED
  BY <1>1, <1>2, <1>3 DEF LedgerInv, Before

LEMMA LedgerCorrects ==
  ASSUME LedgerInv, NEW k \in Key, NEW a \in Admins, NEW o \in Marks, NEW m \in Marks,
         Marksheets!Correct(k, a, o, m)
  PROVE  LedgerInv'
<1> DEFINE c == [old |-> o, new |-> m, by |-> a]
           len == Len(corrections[k])
<1>1. c \in Correction /\ c.old = o /\ c.new = m
  BY DEF Correction
<1>2. /\ corrections[k] \in Seq(Correction) /\ len \in Nat
      /\ score[k] \in Score /\ o \in Marksheets!Had(k)
      /\ score' = [score EXCEPT ![k].marks = m]
      /\ corrections' = [corrections EXCEPT ![k] = Append(@, c)]
  BY LenProperties DEF Marksheets!Correct, LedgerInv
<1> HIDE DEF c
<1>3. /\ score' \in [Key -> Score \cup {None}]
      /\ score'[k] # None /\ score'[k].marks = m
      /\ \A j \in Key \ {k} : score'[j] = score[j]
  BY <1>2, NoneAssumption DEF Score, LedgerInv
<1>4. /\ corrections' \in [Key -> Seq(Correction)]
      /\ corrections'[k] = Append(corrections[k], c)
      /\ \A j \in Key \ {k} : corrections'[j] = corrections[j]
  BY <1>1, <1>2, AppendProperties DEF LedgerInv
<1>5. /\ Len(corrections'[k]) = len + 1
      /\ \A n \in 1..len : corrections'[k][n] = corrections[k][n]
      /\ corrections'[k][len + 1] = c
  BY <1>1, <1>2, <1>4, AppendProperties
<1>6. ASSUME NEW n \in 1..(len + 1)
      PROVE  corrections'[k][n].old \in Before(k, n)'
  <2>1. CASE n \in 1..len
    <3>1. corrections[k][n].old \in Before(k, n)
      BY <2>1 DEF LedgerInv
    <3>2. Before(k, n)' = Before(k, n)
      <4>1. \A i \in 1..(n - 1) : corrections'[k][i] = corrections[k][i]
        BY <2>1, <1>2, <1>5
      <4>2. corrections'[k][1] = corrections[k][1]
        BY <2>1, <1>2, <1>5
      <4> QED
        BY <4>1, <4>2 DEF Before
    <3> QED
      BY <2>1, <3>1, <3>2, <1>5
  <2>2. CASE n = len + 1 /\ len = 0
    BY <2>2, <1>5 DEF Before
  <2>3. CASE n = len + 1 /\ len # 0
    <3>1. corrections[k] # <<>> /\ 1 \in 1..len
      BY <2>3, <1>2, EmptySeq
    <3>2. o \in {corrections[k][1].old} \cup {corrections[k][i].new : i \in 1..len}
      BY <1>2, <3>1 DEF Marksheets!Had
    <3>3. o \in {corrections'[k][1].old} \cup {corrections'[k][i].new : i \in 1..len}
      BY <1>5, <3>1, <3>2
    <3> QED
      BY <1>1, <1>2, <1>5, <2>3, <3>3 DEF Before
  <2> QED
    BY <2>1, <2>2, <2>3, <1>2
<1>7. ASSUME NEW j \in Key, NEW n \in 1..Len(corrections'[j])
      PROVE  corrections'[j][n].old \in Before(j, n)'
  <2>1. CASE j = k
    BY <2>1, <1>2, <1>5, <1>6
  <2>2. CASE j # k
    <3>1. corrections'[j] = corrections[j] /\ n \in 1..Len(corrections[j])
      BY <2>2, <1>4
    <3>2. Before(j, n)' = Before(j, n)
      BY <3>1 DEF Before
    <3>3. corrections[j][n].old \in Before(j, n)
      BY <3>1 DEF LedgerInv
    <3> QED
      BY <3>1, <3>2, <3>3
  <2> QED
    BY <2>1, <2>2
<1>8. ASSUME NEW j \in Key
      PROVE  /\ score'[j] = None => corrections'[j] = <<>>
             /\ corrections'[j] # <<>> =>
                  corrections'[j][Len(corrections'[j])].new = score'[j].marks
  <2>1. CASE j = k
    BY <2>1, <1>1, <1>3, <1>5
  <2>2. CASE j # k
    BY <2>2, <1>3, <1>4 DEF LedgerInv
  <2> QED
    BY <2>1, <2>2
<1> QED
  BY <1>3, <1>4, <1>7, <1>8 DEF LedgerInv

\* Of any ledger, whoever keeps it: its trail ends at the marks in force, and
\* what a correction calls old was in force before it.
THEOREM LedgerPromise == Marksheets!Spec => []LedgerInv
<1>1. Marksheets!Init => LedgerInv
  <2>1. ASSUME NEW k \in Key PROVE Len(<<>>) = 0
    OBVIOUS
  <2> QED
    BY <2>1, EmptySeq DEF Marksheets!Init, LedgerInv
<1>2. LedgerInv /\ [Marksheets!Next]_<<score, corrections>> => LedgerInv'
  <2> SUFFICES ASSUME LedgerInv, [Marksheets!Next]_<<score, corrections>>
               PROVE  LedgerInv'
    OBVIOUS
  <2>1. CASE UNCHANGED <<score, corrections>>
    BY <2>1 DEF LedgerInv, Before
  <2>2. CASE Marksheets!Next
    BY <2>2, LedgerEnters, LedgerCorrects DEF Marksheets!Next
  <2> QED
    BY <2>1, <2>2
<1> QED
  BY <1>1, <1>2, PTL DEF Marksheets!Spec

\* The old marks of every correction are the marks first submitted or those an
\* earlier correction brought: they need not be the ones it replaced, but they
\* were in force before it.
OldMarksWereLive ==
  \A k \in Key : \A n \in 1..Len(corrections[k]) :
    corrections[k][n].old \in
      {original[k]} \cup {corrections[k][m].new : m \in 1..(n - 1)}

\* CorrectMarks, however stale the score it read: what the refinement and the
\* ledger's promise give of "the old values survive".
THEOREM OldMarksHeld == Spec => []OldMarksWereLive
<1>1. IInv /\ LedgerInv => OldMarksWereLive
  <2> SUFFICES ASSUME IInv, LedgerInv, NEW k \in Key, NEW n \in 1..Len(corrections[k])
               PROVE  corrections[k][n].old \in
                        {original[k]} \cup {corrections[k][m].new : m \in 1..(n - 1)}
    BY DEF OldMarksWereLive
  <2>1. corrections[k] # <<>> /\ score[k] # None
    <3>1. Len(<<>>) = 0
      OBVIOUS
    <3> QED
      BY <3>1 DEF LedgerInv
  <2>2. corrections[k][1].old = original[k]
    BY <2>1 DEF IInv, Rows, HistoryMatchesScore
  <2> QED
    BY <2>2 DEF LedgerInv, Before
<1> QED
  BY <1>1, Inductive, LedgerImplemented, LedgerPromise, PTL DEF ImplementsLedger

-----------------------------------------------------------------------------
(* Deadlock.                                                               *)

\* A transaction past the wait for its lock goes on, if it wants no second
\* connection.
LEMMA HoldersGoOn ==
  ASSUME NEW r \in Requests, pc[r] \in {"commitSubmit", "record", "commitCorrect"}
  PROVE  pc[r] # "idle" /\ ~ Blocked(r)
BY DEF Blocked, PoolCalls, GenSteps, At

\* Whoever waits for the lock of an UPDATE waits for one who goes on.
LEMMA UpdatesGoOn ==
  ASSUME NEW r \in Requests, pc[r] = "update", inTx \subseteq Requests
  PROVE  \E q \in Requests : pc[q] # "idle" /\ ~ Blocked(q)
<1>1. CASE UpdateWaits(r)
  BY <1>1, HoldersGoOn DEF UpdateWaits, HoldsKey
<1>2. CASE ~ UpdateWaits(r)
  BY <1>2 DEF Blocked, PoolCalls, GenSteps, At
<1> QED
  BY <1>1, <1>2

\* With a free connection, only the lock of an INSERT or UPDATE makes a
\* request wait.
LEMMA FreeGoesOn ==
  ASSUME IInv, FreeConn, NEW r \in Requests, pc[r] # "idle"
  PROVE  \E q \in Requests : pc[q] # "idle" /\ ~ Blocked(q)
<1>1. Slot(r) /\ inTx \subseteq Requests
  BY DEF IInv, TypeOK
<1>2. CASE pc[r] = "update"
  BY <1>1, <1>2, UpdatesGoOn
<1>3. CASE pc[r] = "insert" /\ InsertWaits(r)
  <2>1. PICK q \in Requests : pc[q] \in {"auditSubmit", "commitSubmit"}
    BY <1>1, <1>3 DEF InsertWaits, HoldsKey
  <2>2. ~ Blocked(q)
    BY <2>1 DEF Blocked, At
  <2> QED
    BY <2>1, <2>2
<1>4. CASE pc[r] # "update" /\ ~ (pc[r] = "insert" /\ InsertWaits(r))
  <2>1. pc[r] = "getScore" => score[job[r].at] # None
    BY <1>1 DEF Slot, Unfinished, GenSteps
  <2> QED
    BY <1>4, <2>1 DEF Blocked, At
<1> QED
  BY <1>2, <1>3, <1>4

\* In a full pool, a transaction that neither wants a second connection nor
\* waits for one that does goes on.
LEMMA FullGoesOn ==
  ASSUME IInv, NEW r \in inTx, pc[r] # "auditSubmit",
         ~ (pc[r] = "insert" /\ InsertWaits(r))
  PROVE  \E q \in Requests : pc[q] # "idle" /\ ~ Blocked(q)
<1>1. r \in Requests /\ inTx \subseteq Requests
  BY DEF IInv, TypeOK
<1>2. pc[r] \in {"insert", "commitSubmit", "update", "record", "commitCorrect"}
  BY <1>1 DEF IInv, Slot, SubmitTx, CorrectTx
<1>3. CASE pc[r] = "insert"
  BY <1>1, <1>3 DEF Blocked, PoolCalls, GenSteps, At
<1>4. CASE pc[r] # "insert"
  BY <1>1, <1>2, <1>4, HoldersGoOn, UpdatesGoOn
<1> QED
  BY <1>3, <1>4

\* Unless open submissions that want a second connection fill the pool, some
\* request can go on whenever one is being served: the row locks that racing
\* submissions and corrections wait for never close a circle.
THEOREM PoolBlocksAlone == Spec => []OnlyThePoolBlocks
<1>1. IInv => OnlyThePoolBlocks
  <2> SUFFICES ASSUME IInv, NEW r \in Requests, pc[r] # "idle", PoolNeverStuck
               PROVE  \E q \in Requests : pc[q] # "idle" /\ ~ Blocked(q)
    BY DEF OnlyThePoolBlocks
  <2>1. CASE FreeConn
    BY <2>1, FreeGoesOn
  <2>2. CASE ~ FreeConn
    BY <2>2, FullGoesOn DEF PoolNeverStuck, At
  <2> QED
    BY <2>1, <2>2
<1> QED
  BY <1>1, Inductive, PTL

SomebodyGoesOn ==
  (\E r \in Requests : pc[r] # "idle") =>
    \E r \in Requests : pc[r] # "idle" /\ ~ Blocked(r)

\* While the server has fewer requests at a time than the pool connections (it
\* does nothing to keep it so), there is no deadlock: the audit rows get their
\* connections and somebody always goes on.
THEOREM NoDeadlock ==
  ASSUME Cardinality(Requests) < MaxConns
  PROVE  Spec => [](PoolNeverStuck /\ AuditRowIsFine /\ SomebodyGoesOn)
<1>1. IInv => FreeConn
  <2> SUFFICES ASSUME IInv PROVE Cardinality(inTx) < MaxConns
    BY DEF FreeConn
  <2>1. inTx \subseteq Requests
    BY DEF IInv, TypeOK
  <2>2. /\ IsFiniteSet(inTx) /\ Cardinality(inTx) <= Cardinality(Requests)
        /\ Cardinality(inTx) \in Nat /\ Cardinality(Requests) \in Nat
    BY <2>1, RequestsAssumption, FS_Subset, FS_CardinalityType
  <2> QED
    BY <2>2, ConnsAssumption
<1>2. IInv => PoolNeverStuck /\ AuditRowIsFine /\ SomebodyGoesOn
  BY <1>1, FreeGoesOn DEF PoolNeverStuck, AuditRowIsFine, SomebodyGoesOn
<1> QED
  BY <1>2, Inductive, PTL

\* The calls a request has still to make, its longest way.
Left(step) ==
  CASE step = "idle" -> 0
    [] step \in {"createSheet", "saveSchedule"} -> 1
    [] step = "findSheet" -> 2
    [] step = "writeFile" -> 3
    [] step = "openFile" -> 4
    [] step = "getScore" -> 5
    [] step = "getSchedule" -> 6
    [] step \in {"commitSubmit", "auditCorrect"} -> 7
    [] step \in {"auditSubmit", "commitCorrect"} -> 8
    [] step \in {"insert", "record"} -> 9
    [] step \in {"beginSubmit", "update"} -> 10
    [] step \in {"exists", "beginCorrect"} -> 11
    [] step \in {"auth", "read"} -> 12

CallsRunOut ==
  [][\A r \in Requests : pc[r] # "idle" =>
       /\ Serve(r) => Left(pc'[r]) < Left(pc[r])
       /\ Left(pc'[r]) <= Left(pc[r])]_vars

LEMMA LeftIsNat == ASSUME NEW s \in Steps \cup {"idle"} PROVE Left(s) \in 0..12
BY DEF Left, Steps, SubmitTx, CorrectTx, GenSteps

\* A call that is made leaves fewer to make.
LEMMA ServeRunsOut ==
  ASSUME TypeOK, NEW r \in Requests, Serve(r) \/ Fail(r)
  PROVE  /\ Left(pc'[r]) < Left(pc[r])
         /\ \A q \in Requests \ {r} : pc'[q] = pc[q]
<1> USE DEF At, Goto, Finish, TypeOK, Left
<1>1. CASE \/ Authorize(r) \/ SaveSchedule(r) \/ CheckExisting(r)
           \/ BeginSubmit(r) \/ InsertScore(r) \/ AuditSubmit(r)
  BY <1>1 DEF Authorize, SaveSchedule, CheckExisting, BeginSubmit, InsertScore,
     AuditSubmit
<1>2. CASE \/ CommitSubmit(r) \/ ReadOld(r) \/ BeginCorrect(r) \/ UpdateScore(r)
           \/ CreateCorrection(r) \/ CommitCorrect(r) \/ AuditCorrect(r)
  BY <1>2 DEF CommitSubmit, ReadOld, BeginCorrect, UpdateScore,
     CreateCorrection, CommitCorrect, AuditCorrect
<1>3. CASE \/ GetSchedule(r) \/ GetScore(r) \/ OpenFile(r) \/ WriteFile(r)
           \/ FindSheet(r) \/ CreateSheet(r)
  BY <1>3 DEF GetSchedule, GetScore, OpenFile, WriteFile, FindSheet, CreateSheet
<1>4. CASE Rejected(r) \/ Fail(r)
  <2>1. pc' = [pc EXCEPT ![r] = "idle"] /\ pc[r] \in Steps
    BY <1>4 DEF Rejected, Fail, Abort, Steps, SubmitTx, GenSteps
  <2>2. Left(pc[r]) > 0
    BY <2>1 DEF Steps, SubmitTx, CorrectTx, GenSteps
  <2> QED
    BY <2>1, <2>2
<1> QED
  BY <1>1, <1>2, <1>3, <1>4 DEF Serve

\* A request never makes a call again: each one brings it nearer to its
\* answer, and what others do never sets it back.  With NoDeadlock, all
\* requests being served are answered if no call hangs.
THEOREM CallsDoRunOut == Spec => CallsRunOut
<1> DEFINE Lower == \A r \in Requests : pc[r] # "idle" =>
                      /\ Serve(r) => Left(pc'[r]) < Left(pc[r])
                      /\ Left(pc'[r]) <= Left(pc[r])
<1>1. IInv /\ IInv' /\ [Next]_vars => [Lower]_vars
  <2> SUFFICES ASSUME IInv, IInv', Next, NEW r \in Requests, pc[r] # "idle"
               PROVE  /\ Serve(r) => Left(pc'[r]) < Left(pc[r])
                      /\ Left(pc'[r]) <= Left(pc[r])
    OBVIOUS
  <2>1. TypeOK /\ Left(pc[r]) \in 0..12 /\ Left(pc'[r]) \in 0..12
    BY LeftIsNat DEF IInv, TypeOK
  <2>2. Serve(r) => Left(pc'[r]) < Left(pc[r])
    BY <2>1, ServeRunsOut
  <2>3. Left(pc'[r]) <= Left(pc[r])
    <3>1. ASSUME NEW q \in Requests, Serve(q) \/ Fail(q) PROVE Left(pc'[r]) <= Left(pc[r])
      BY <2>1, <3>1, ServeRunsOut
    <3>2. CASE Crash
      <4>1. pc'[r] = "idle"
        BY <3>2 DEF Crash
      <4>2. Left("idle") = 0
        BY DEF Left
      <4> QED
        BY <2>1, <4>1, <4>2
    <3>3. ASSUME NEW q \in Requests, NEW j \in Job, Accept(q, j) PROVE pc'[r] = pc[r]
      BY <2>1, <3>3 DEF Accept, At, TypeOK
    <3>4. ASSUME NEW i \in Internships, NEW f \in Faculty, AssignMentor(i, f)
          PROVE  pc'[r] = pc[r]
      BY <3>4 DEF AssignMentor, request
    <3> QED
      BY <2>1, <3>1, <3>2, <3>3, <3>4 DEF Next
  <2> QED
    BY <2>2, <2>3
<1> QED
  BY <1>1, Inductive, PTL DEF Spec, CallsRunOut

=============================================================================
