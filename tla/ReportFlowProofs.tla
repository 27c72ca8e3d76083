--------------------------- MODULE ReportFlowProofs ---------------------------
(***************************************************************************)
(* Theorems of ReportFlow, for any sets of requests, periods and texts and *)
(* any window and lifetime of a token; and that it implements Filing.      *)
(***************************************************************************)
EXTENDS ReportFlow, TLAPS

\* Past its INSERT a submission is the only one of its period.
Owning == {"commit"} \cup AfterCommit

\* What is known of a request at its step.
Slot(r) ==
  /\ pc[r] # "idle" => job[r] \in Job
  /\ pc[r] = "commit" => report[job[r].period] = None
  /\ pc[r] \in AfterCommit =>
       /\ report[job[r].period] # None
       /\ created[job[r].period] = 0
       /\ LinksOf(job[r].period) = {}
  /\ pc[r] \in {"notify", "token"} => TokensOf(job[r].period) = {}
  /\ pc[r] = "notify" => notices[job[r].period] = 0
  /\ pc[r] = "update" =>
       /\ report[job[r].period] # None
       /\ stamp[r] - report[job[r].period].submitted <= Window

OneOwner ==
  \A r, q \in Requests :
    pc[r] \in Owning /\ pc[q] \in Owning /\ job[r].period = job[q].period => r = q

\* The outbox, the tokens and the answers match the row of a period.
Accounted(p) ==
  /\ \A t, u \in TokensOf(p) : t = u
  /\ \A l, m \in LinksOf(p) : l = m
  /\ notices[p] <= 1
  /\ report[p] = None =>
       notices[p] = 0 /\ LinksOf(p) = {} /\ TokensOf(p) = {} /\ created[p] = 0
  /\ created[p] <= 1
  /\ created[p] = 1 => LinksOf(p) # {}
  /\ report[p] # None /\ ~ failed[p] /\ ~ Submitting(p) => LinksOf(p) # {}

IInv ==
  /\ TypeOK
  /\ \A r \in Requests : Slot(r)
  /\ OneOwner
  /\ \A p \in Periods : Accounted(p)

-----------------------------------------------------------------------------
(* The steps of a request.                                                 *)

LEMMA InitInv == Init => IInv
<1> SUFFICES ASSUME Init PROVE IInv
  OBVIOUS
<1> USE HoursAssumption DEF Init
<1>1. TypeOK
  BY DEF TypeOK, Hours, Steps, AfterCommit
<1>2. \A r \in Requests : Slot(r)
  BY DEF Slot, AfterCommit
<1>3. OneOwner
  BY DEF OneOwner, Owning, AfterCommit
<1>4. \A p \in Periods : Accounted(p)
  BY DEF Accounted, TokensOf, LinksOf
<1> QED
  BY <1>1, <1>2, <1>3, <1>4 DEF IInv

\* The period of a request being served.
LEMMA PeriodOf ==
  ASSUME IInv, NEW r \in Requests, pc[r] # "idle"
  PROVE  /\ job[r] \in Job /\ job[r].period \in Periods
         /\ job[r].content \in Contents /\ job[r] # None
BY NoneAssumption DEF IInv, Slot, Job

LEMMA AcceptInv ==
  ASSUME IInv, NEW r \in Requests, NEW j \in Job, Accept(r, j)
  PROVE  IInv'
<1> USE DEF IInv, Accept, At, mails, history
<1>1. TypeOK'
  BY HoursAssumption DEF TypeOK, Steps, AfterCommit
<1>2. \A q \in Requests : Slot(q)'
  BY DEF Slot, TypeOK, AfterCommit, LinksOf, TokensOf
<1>3. OneOwner'
  BY DEF OneOwner, Owning, TypeOK, AfterCommit
<1>4. \A x \in Periods : Accounted(x)'
  BY DEF Accounted, Submitting, TypeOK, AfterCommit, LinksOf, TokensOf
<1> QED
  BY <1>1, <1>2, <1>3, <1>4

LEMMA FailInv ==
  ASSUME IInv, NEW r \in Requests, Fail(r)
  PROVE  IInv'
<1> USE DEF IInv, Fail, Finish, mails, Steps, AfterCommit
<1>1. TypeOK'
  BY HoursAssumption DEF TypeOK, Hours
<1>2. \A q \in Requests : Slot(q)'
  BY DEF Slot, TypeOK, LinksOf, TokensOf
<1>3. OneOwner'
  BY DEF OneOwner, Owning, TypeOK
<1>4. \A x \in Periods : Accounted(x)'
  <2> SUFFICES ASSUME NEW x \in Periods PROVE Accounted(x)'
    OBVIOUS
  <2>1. ~ failed'[x] /\ ~ Submitting(x)' => ~ failed[x] /\ ~ Submitting(x)
    BY DEF TypeOK, Submitting
  <2>2. UNCHANGED <<report, tokens, links, notices, created>>
    OBVIOUS
  <2> QED
    BY <2>1, <2>2 DEF Accounted, LinksOf, TokensOf
<1> QED
  BY <1>1, <1>2, <1>3, <1>4

LEMMA CrashInv ==
  ASSUME IInv, Crash
  PROVE  IInv'
<1> USE DEF IInv, Crash, mails
<1>1. TypeOK'
  BY HoursAssumption DEF TypeOK, Hours
<1>2. \A q \in Requests : Slot(q)'
  BY DEF Slot, AfterCommit
<1>3. OneOwner'
  BY DEF OneOwner, Owning, AfterCommit
<1>4. \A x \in Periods : Accounted(x)'
  BY DEF Accounted, Submitting, TypeOK, LinksOf, TokensOf
<1> QED
  BY <1>1, <1>2, <1>3, <1>4

LEMMA CheckDuplicateInv ==
  ASSUME IInv, NEW r \in Requests, CheckDuplicate(r)
  PROVE  IInv'
<1> USE DEF IInv, CheckDuplicate, Finish, Goto, At, mails, history, AfterCommit
<1>1. TypeOK'
  BY HoursAssumption DEF TypeOK, Hours, Steps
<1>2. \A q \in Requests : Slot(q)'
  BY DEF Slot, TypeOK, LinksOf, TokensOf
<1>3. OneOwner'
  BY DEF OneOwner, Owning, TypeOK
<1>4. \A x \in Periods : Accounted(x)'
  BY DEF Accounted, Submitting, TypeOK, LinksOf, TokensOf
<1> QED
  BY <1>1, <1>2, <1>3, <1>4

LEMMA BeginInsertInv ==
  ASSUME IInv, NEW r \in Requests, BeginInsert(r)
  PROVE  IInv'
<1> USE DEF IInv, BeginInsert, Goto, At, mails, history, AfterCommit
<1>1. TypeOK'
  BY DEF TypeOK, Steps
<1>2. \A q \in Requests : Slot(q)'
  BY DEF Slot, TypeOK, LinksOf, TokensOf
<1>3. OneOwner'
  BY DEF OneOwner, Owning, TypeOK
<1>4. \A x \in Periods : Accounted(x)'
  BY DEF Accounted, Submitting, TypeOK, LinksOf, TokensOf
<1> QED
  BY <1>1, <1>2, <1>3, <1>4

LEMMA InsertReportInv ==
  ASSUME IInv, NEW r \in Requests, InsertReport(r)
  PROVE  IInv'
<1> USE DEF IInv, InsertReport, Goto, At, mails, history, AfterCommit
<1>1. TypeOK'
  BY DEF TypeOK, Steps
<1>2. \A q \in Requests : Slot(q)'
  BY DEF Slot, TypeOK, LinksOf, TokensOf
<1>3. OneOwner'
  BY DEF OneOwner, Owning, TypeOK, InsertWaits, Slot
<1>4. \A x \in Periods : Accounted(x)'
  BY DEF Accounted, Submitting, TypeOK, LinksOf, TokensOf
<1> QED
  BY <1>1, <1>2, <1>3, <1>4

LEMMA CommitReportInv ==
  ASSUME IInv, NEW r \in Requests, CommitReport(r)
  PROVE  IInv'
<1>p. PICK p \in Periods : p = job[r].period
  BY PeriodOf DEF CommitReport, At
<1>c. job[r].content \in Contents /\ pc[r] = "commit" /\ report[p] = None
  BY <1>p, PeriodOf DEF CommitReport, At, IInv, Slot
<1> DEFINE row == [content |-> job[r].content, submitted |-> stamp[r], edited |-> stamp[r]]
<1>row. row \in Report /\ row # None
  <2>1. row \in Report
    BY <1>c DEF Report, IInv, TypeOK
  <2> QED
    BY <2>1, NoneAssumption
<1>set. report' = [report EXCEPT ![p] = row]
  BY <1>p DEF CommitReport
<1>type. report' \in [Periods -> Report \cup {None}] /\ report'[p] = row
  BY <1>row, <1>set DEF IInv, TypeOK
<1>after. \/ /\ pc' = [pc EXCEPT ![r] = "notify"]
             /\ UNCHANGED <<job, reply, stamp, raw, failed>>
          \/ /\ Finish(r, "error")
             /\ failed' = [failed EXCEPT ![p] = TRUE]
  BY <1>p DEF CommitReport, Goto
<1>same. UNCHANGED <<tokens, drawn, links, notices, hour, created, issued>>
  BY DEF CommitReport, mails
<1> HIDE DEF row
<1> USE DEF IInv, Finish, AfterCommit
<1>1. TypeOK'
  <2>1. CASE UNCHANGED <<job, reply, stamp, raw, failed>>
    BY <2>1, <1>type, <1>after, <1>same DEF TypeOK, Hours, Steps
  <2>2. CASE Finish(r, "error")
    <3>1. failed' \in [Periods -> BOOLEAN]
      BY <1>after DEF TypeOK
    <3> QED
      BY <2>2, <3>1, <1>type, <1>same, HoursAssumption DEF TypeOK, Hours, Steps
  <2> QED
    BY <2>1, <2>2, <1>after
<1>2. \A q \in Requests : Slot(q)'
  BY <1>p, <1>c, <1>row, <1>set, <1>type, <1>after, <1>same
     DEF Slot, TypeOK, LinksOf, TokensOf, OneOwner, Owning, Accounted
<1>3. OneOwner'
  BY <1>p, <1>after, <1>c DEF OneOwner, Owning, TypeOK
<1>4. \A x \in Periods : Accounted(x)'
  BY <1>p, <1>c, <1>row, <1>set, <1>after, <1>same
     DEF Accounted, Submitting, TypeOK, LinksOf, TokensOf
<1> QED
  BY <1>1, <1>2, <1>3, <1>4

LEMMA NotifyFacultyInv ==
  ASSUME IInv, NEW r \in Requests, NotifyFaculty(r)
  PROVE  IInv'
<1>p. PICK p \in Periods : p = job[r].period
  BY PeriodOf DEF NotifyFaculty, At
<1> USE <1>p DEF IInv, NotifyFaculty, Goto, At, history, AfterCommit
<1>1. TypeOK'
  BY DEF TypeOK, Steps
<1>2. \A q \in Requests : Slot(q)'
  <2> SUFFICES ASSUME NEW q \in Requests PROVE Slot(q)'
    OBVIOUS
  <2>1. CASE q = r
    BY <2>1 DEF Slot, TypeOK, LinksOf, TokensOf
  <2>2. CASE q # r /\ pc[q] = "notify"
    <3>1. job[q].period # p
      BY <2>2 DEF OneOwner, Owning
    <3>2. job[q].period \in Periods /\ Slot(q)
      BY <2>2, PeriodOf
    <3>3. notices'[job[q].period] = 0
      BY <2>2, <3>1, <3>2 DEF Slot, TypeOK
    <3> QED
      BY <2>2, <3>2, <3>3 DEF Slot, TypeOK, LinksOf, TokensOf
  <2>3. CASE q # r /\ pc[q] # "notify"
    BY <2>3 DEF Slot, TypeOK, LinksOf, TokensOf
  <2> QED
    BY <2>1, <2>2, <2>3
<1>3. OneOwner'
  BY DEF OneOwner, Owning, TypeOK
<1>4. \A x \in Periods : Accounted(x)'
  BY DEF Accounted, Submitting, TypeOK, LinksOf, TokensOf, Slot
<1> QED
  BY <1>1, <1>2, <1>3, <1>4

LEMMA GenerateTokenInv ==
  ASSUME IInv, NEW r \in Requests, GenerateToken(r)
  PROVE  IInv'
<1>p. PICK p \in Periods : p = job[r].period
  BY PeriodOf DEF GenerateToken, At
<1>c. pc[r] = "token" /\ TokensOf(p) = {} /\ report[p] # None
  BY <1>p DEF GenerateToken, At, IInv, Slot, AfterCommit
<1> DEFINE row == [id |-> drawn + 1, report |-> p, expires |-> hour + Expiry]
<1>row. row \in [id: Nat, report: Periods, expires: Nat] /\ row.report = p
  BY HoursAssumption DEF IInv, TypeOK, Hours
<1>set. tokens' = tokens \cup {row}
  BY <1>p DEF GenerateToken
<1>after. \/ /\ pc' = [pc EXCEPT ![r] = "queue"]
             /\ raw' = [raw EXCEPT ![r] = drawn + 1]
             /\ UNCHANGED <<job, reply, stamp, failed>>
          \/ /\ Finish(r, "error")
             /\ failed' = [failed EXCEPT ![p] = TRUE]
  BY <1>p DEF GenerateToken, Goto
<1>same. /\ drawn' = drawn + 1
         /\ UNCHANGED <<report, links, notices, hour, created, issued>>
  BY DEF GenerateToken
<1> HIDE DEF row
<1>of. \A x \in Periods : TokensOf(x)' = IF x = p THEN {row} ELSE TokensOf(x)
  BY <1>c, <1>row, <1>set DEF TokensOf
<1> USE DEF IInv, Finish, AfterCommit
<1>1. TypeOK'
  <2>1. CASE UNCHANGED <<job, reply, stamp, failed>> /\ raw' = [raw EXCEPT ![r] = drawn + 1]
    BY <2>1, <1>row, <1>set, <1>after, <1>same DEF TypeOK, Hours, Steps
  <2>2. CASE Finish(r, "error")
    <3>1. failed' \in [Periods -> BOOLEAN]
      BY <1>after DEF TypeOK
    <3> QED
      BY <2>2, <3>1, <1>row, <1>set, <1>same, HoursAssumption DEF TypeOK, Hours, Steps
  <2> QED
    BY <2>1, <2>2, <1>after
<1>2. \A q \in Requests : Slot(q)'
  <2> SUFFICES ASSUME NEW q \in Requests PROVE Slot(q)'
    OBVIOUS
  <2>1. CASE q = r
    BY <2>1, <1>p, <1>c, <1>of, <1>after, <1>same DEF Slot, TypeOK, LinksOf, Job
  <2>2. CASE q # r
    <3>1. pc'[q] = pc[q] /\ job'[q] = job[q] /\ stamp'[q] = stamp[q] /\ Slot(q)
      BY <2>2, <1>after DEF TypeOK
    <3>2. pc[q] = "idle" \/ job[q].period \in Periods
      BY PeriodOf
    <3>3. pc[q] \in AfterCommit => job[q].period # p
      BY <2>2, <1>p, <1>c DEF OneOwner, Owning
    <3> QED
      BY <3>1, <3>2, <3>3, <1>p, <1>c, <1>of, <1>same DEF Slot, LinksOf
  <2> QED
    BY <2>1, <2>2
<1>3. OneOwner'
  BY <1>p, <1>after, <1>c DEF OneOwner, Owning, TypeOK
<1>4. \A x \in Periods : Accounted(x)'
  BY <1>p, <1>c, <1>of, <1>after, <1>same
     DEF Accounted, Submitting, TypeOK, LinksOf
<1> QED
  BY <1>1, <1>2, <1>3, <1>4

LEMMA QueueLinkInv ==
  ASSUME IInv, NEW r \in Requests, QueueLink(r)
  PROVE  IInv'
<1>p. PICK p \in Periods : p = job[r].period
  BY PeriodOf DEF QueueLink, At
<1>c. /\ pc[r] = "queue" /\ LinksOf(p) = {}
      /\ report[p] # None /\ created[p] = 0
  BY <1>p DEF QueueLink, At, IInv, Slot, AfterCommit
<1> DEFINE row == [token |-> raw[r], report |-> p]
<1>row. row \in [token: Nat, report: Periods] /\ row.report = p
  BY DEF IInv, TypeOK
<1>set. links' = links \cup {row}
  BY <1>p DEF QueueLink
<1>after. \/ /\ Finish(r, "created")
             /\ created' = [created EXCEPT ![p] = created[p] + 1]
             /\ UNCHANGED failed
          \/ /\ Finish(r, "error")
             /\ failed' = [failed EXCEPT ![p] = TRUE]
             /\ UNCHANGED created
  BY <1>p DEF QueueLink
<1>same. UNCHANGED <<report, tokens, drawn, notices, hour, issued>>
  BY DEF QueueLink
<1> HIDE DEF row
<1>of. \A x \in Periods : LinksOf(x)' = IF x = p THEN {row} ELSE LinksOf(x)
  BY <1>c, <1>row, <1>set DEF LinksOf
<1>made. /\ created'[p] \in {0, 1}
         /\ \A x \in Periods \ {p} : created'[x] = created[x] /\ failed'[x] = failed[x]
  BY <1>c, <1>after DEF IInv, TypeOK
<1> USE DEF IInv, Finish, AfterCommit
<1>1. TypeOK'
  <2>1. created' \in [Periods -> Nat]
    BY <1>after DEF TypeOK
  <2>f. failed' \in [Periods -> BOOLEAN]
    BY <1>after DEF TypeOK
  <2>2. Finish(r, "created") \/ Finish(r, "error")
    BY <1>after
  <2> QED
    BY <2>1, <2>2, <2>f, <1>row, <1>set, <1>same, HoursAssumption DEF TypeOK, Hours, Steps
<1>2. \A q \in Requests : Slot(q)'
  <2> SUFFICES ASSUME NEW q \in Requests PROVE Slot(q)'
    OBVIOUS
  <2>1. CASE q = r
    BY <2>1, <1>p, <1>c, <1>of, <1>after, <1>same, <1>made DEF Slot, TypeOK, TokensOf, Job
  <2>2. CASE q # r
    <3>1. pc'[q] = pc[q] /\ job'[q] = job[q] /\ stamp'[q] = stamp[q] /\ Slot(q)
      BY <2>2, <1>after DEF TypeOK
    <3>2. pc[q] = "idle" \/ job[q].period \in Periods
      BY PeriodOf
    <3>3. pc[q] \in AfterCommit => job[q].period # p
      BY <2>2, <1>p, <1>c DEF OneOwner, Owning
    <3> QED
      BY <3>1, <3>2, <3>3, <1>p, <1>c, <1>of, <1>same, <1>made DEF Slot, TokensOf
  <2> QED
    BY <2>1, <2>2
<1>3. OneOwner'
  BY <1>p, <1>after, <1>c DEF OneOwner, Owning, TypeOK
<1>4. \A x \in Periods : Accounted(x)'
  <2> SUFFICES ASSUME NEW x \in Periods PROVE Accounted(x)'
    OBVIOUS
  <2>1. CASE x = p
    BY <2>1, <1>c, <1>of, <1>same, <1>made DEF Accounted, TokensOf
  <2>2. CASE x # p
    <3>1. Submitting(x)' = Submitting(x)
      BY <2>2, <1>p, <1>c, <1>after DEF Submitting, TypeOK
    <3> QED
      BY <2>2, <3>1, <1>of, <1>same, <1>made DEF Accounted, TokensOf
  <2> QED
    BY <2>1, <2>2
<1> QED
  BY <1>1, <1>2, <1>3, <1>4

LEMMA FindReportInv ==
  ASSUME IInv, NEW r \in Requests, FindReport(r)
  PROVE  IInv'
<1> USE DEF IInv, FindReport, Finish, Goto, At, mails, history, AfterCommit
<1>1. TypeOK'
  BY HoursAssumption DEF TypeOK, Hours, Steps
<1>2. \A q \in Requests : Slot(q)'
  BY DEF Slot, TypeOK, LinksOf, TokensOf
<1>3. OneOwner'
  BY DEF OneOwner, Owning, TypeOK
<1>4. \A x \in Periods : Accounted(x)'
  BY DEF Accounted, Submitting, TypeOK, LinksOf, TokensOf
<1> QED
  BY <1>1, <1>2, <1>3, <1>4

\* What an UPDATE leaves in the row.
LEMMA Updated ==
  ASSUME IInv, NEW r \in Requests, UpdateReport(r),
         NEW p \in Periods, p = job[r].period
  PROVE  /\ report[p] \in Report /\ report[p] # None
         /\ report' \in [Periods -> Report \cup {None}]
         /\ report'[p] \in Report /\ report'[p] # None
         /\ report'[p].content = job[r].content
         /\ report'[p].submitted = report[p].submitted
         /\ \A x \in Periods \ {p} : report'[x] = report[x]
<1>1. report[p] # None /\ stamp[r] \in Hours /\ job[r].content \in Contents
  BY PeriodOf DEF IInv, TypeOK, Slot, UpdateReport, At
<1>2. report[p] \in Report
  BY <1>1 DEF IInv, TypeOK
<1> DEFINE row == [report[p] EXCEPT !.content = job[r].content, !.edited = stamp[r]]
<1>3. report' = [report EXCEPT ![p] = row]
  BY <1>2 DEF UpdateReport, IInv, TypeOK
<1>4. row \in Report /\ row.content = job[r].content
      /\ row.submitted = report[p].submitted
  BY <1>1, <1>2 DEF Report
<1> HIDE DEF row
<1>5. row # None
  BY <1>4, NoneAssumption
<1> QED
  BY <1>1, <1>2, <1>3, <1>4, <1>5 DEF IInv, TypeOK

LEMMA UpdateReportInv ==
  ASSUME IInv, NEW r \in Requests, UpdateReport(r)
  PROVE  IInv'
<1>p. PICK p \in Periods : p = job[r].period
  BY PeriodOf DEF UpdateReport, At
<1>row. /\ report[p] # None /\ report'[p] # None
        /\ report' \in [Periods -> Report \cup {None}]
        /\ report'[p].submitted = report[p].submitted
        /\ \A x \in Periods \ {p} : report'[x] = report[x]
  BY <1>p, Updated
<1>after. /\ pc[r] = "update"
          /\ Finish(r, "edited") \/ Finish(r, "error")
          /\ UNCHANGED <<tokens, drawn, links, notices, hour, created, failed, issued>>
  BY DEF UpdateReport, At, mails, history
<1> USE DEF IInv, Finish, AfterCommit
<1>1. TypeOK'
  BY <1>row, <1>after, HoursAssumption DEF TypeOK, Hours, Steps
<1>2. \A q \in Requests : Slot(q)'
  BY <1>p, <1>row, <1>after DEF Slot, TypeOK, LinksOf, TokensOf, Job
<1>3. OneOwner'
  BY <1>after DEF OneOwner, Owning, TypeOK
<1>4. \A x \in Periods : Accounted(x)'
  <2> SUFFICES ASSUME NEW x \in Periods PROVE Accounted(x)'
    OBVIOUS
  <2>1. Submitting(x)' = Submitting(x)
    BY <1>after DEF Submitting, TypeOK
  <2>2. report'[x] = None <=> report[x] = None
    BY <1>row
  <2> QED
    BY <2>1, <2>2, <1>after DEF Accounted, LinksOf, TokensOf
<1> QED
  BY <1>1, <1>2, <1>3, <1>4

-----------------------------------------------------------------------------
(* The clock and the cleanup.                                              *)

LEMMA TickInv ==
  ASSUME IInv, Tick
  PROVE  IInv'
<1> USE DEF IInv, Tick, request, mails, history
<1>1. TypeOK'
  BY HoursAssumption DEF TypeOK, Hours
<1>2. \A q \in Requests : Slot(q)'
  BY DEF Slot, LinksOf, TokensOf
<1>3. OneOwner'
  BY DEF OneOwner
<1>4. \A x \in Periods : Accounted(x)'
  BY DEF Accounted, Submitting, LinksOf, TokensOf
<1> QED
  BY <1>1, <1>2, <1>3, <1>4

LEMMA CleanupInv ==
  ASSUME IInv, Cleanup
  PROVE  IInv'
<1> USE DEF IInv, Cleanup, request, history
<1>1. TypeOK'
  BY DEF TypeOK
<1>of. \A x \in Periods : TokensOf(x)' \subseteq TokensOf(x)
  BY DEF TokensOf
<1>2. \A q \in Requests : Slot(q)'
  <2> SUFFICES ASSUME NEW q \in Requests PROVE Slot(q)'
    OBVIOUS
  <2>1. CASE pc[q] = "idle"
    BY <2>1 DEF Slot, AfterCommit
  <2>2. CASE pc[q] # "idle"
    BY <2>2, <1>of, PeriodOf DEF Slot, LinksOf
  <2> QED
    BY <2>1, <2>2
<1>3. OneOwner'
  BY DEF OneOwner
<1>4. \A x \in Periods : Accounted(x)'
  BY <1>of DEF Accounted, Submitting, LinksOf
<1> QED
  BY <1>1, <1>2, <1>3, <1>4

LEMMA StepInv == IInv /\ [Next]_vars => IInv'
<1> SUFFICES ASSUME IInv, [Next]_vars PROVE IInv'
  OBVIOUS
<1>1. CASE UNCHANGED vars
  BY <1>1 DEF vars, IInv, TypeOK, Slot, OneOwner, Accounted, Submitting,
     LinksOf, TokensOf
<1>2. CASE Next
  <2>1. ASSUME NEW r \in Requests, NEW j \in Job, Accept(r, j) PROVE IInv'
    BY <2>1, AcceptInv
  <2>2. ASSUME NEW r \in Requests, Serve(r) PROVE IInv'
    BY <2>2, CheckDuplicateInv, BeginInsertInv, InsertReportInv,
       CommitReportInv, NotifyFacultyInv, GenerateTokenInv, QueueLinkInv,
       FindReportInv, UpdateReportInv DEF Serve
  <2>3. ASSUME NEW r \in Requests, Fail(r) PROVE IInv'
    BY <2>3, FailInv
  <2> QED
    BY <1>2, <2>1, <2>2, <2>3, CrashInv, TickInv, CleanupInv DEF Next
<1> QED
  BY <1>1, <1>2

LEMMA Invariance == Spec => []IInv
BY InitInv, StepInv, PTL DEF Spec

-----------------------------------------------------------------------------
(* The theorems.                                                           *)

\* Requests, rows, tokens and outbox rows keep their shapes.
THEOREM TypeCorrect == Spec => []TypeOK
<1>1. IInv => TypeOK
  BY DEF IInv
<1> QED
  BY <1>1, Invariance, PTL

\* However many submissions of a period race, fail and are repeated, at most
\* one is answered 201, and then its row and its review link are there.
THEOREM CreatedHeld == Spec => []CreatedOnce
<1>1. IInv => CreatedOnce
  <2> SUFFICES ASSUME IInv, NEW p \in Periods, created[p] > 0
               PROVE  created[p] = 1 /\ report[p] # None /\ LinksOf(p) # {}
    BY DEF CreatedOnce
  <2>1. created[p] \in Nat /\ Accounted(p)
    BY DEF IInv, TypeOK
  <2>2. created[p] = 1
    BY <2>1 DEF Accounted
  <2> QED
    BY <2>1, <2>2 DEF Accounted
<1> QED
  BY <1>1, Invariance, PTL

\* A report has at most one token, link and faculty mail, and a submission
\* that was not committed has none.
THEOREM MailsHeld == Spec => []MailsMatchReport
<1>1. IInv => MailsMatchReport
  BY DEF IInv, Accounted, MailsMatchReport
<1> QED
  BY <1>1, Invariance, PTL

\* No interleaving of requests leaves a report without its review link:
\* only a failure or a stop after the COMMIT does.
THEOREM LinkHeld == Spec => []LinkUnlessFailed
<1>1. IInv => LinkUnlessFailed
  BY DEF IInv, Accounted, LinkUnlessFailed
<1> QED
  BY <1>1, Invariance, PTL

\* A report is never taken back, and its text changes only by an edit that
\* found its window open.
THEOREM EditsHeld == Spec => EditsInTime
<1> DEFINE Edited(p) ==
      /\ report'[p] # None
      /\ report'[p].submitted = report[p].submitted
      /\ \E r \in Requests :
           /\ At(r, "update")
           /\ job[r].period = p /\ job[r].content = report'[p].content
           /\ stamp[r] - report[p].submitted <= Window
<1>1. ASSUME IInv, Next, NEW p \in Periods,
             report[p] # None, report'[p] # report[p]
      PROVE  Edited(p)
  <2>1. \E r \in Requests : CommitReport(r) \/ UpdateReport(r)
    BY <1>1 DEF Next, Serve, Accept, Fail, Crash, Tick, Cleanup, CheckDuplicate,
       BeginInsert, InsertReport, NotifyFaculty, GenerateToken, QueueLink,
       FindReport
  <2>2. PICK r \in Requests : CommitReport(r) \/ UpdateReport(r)
    BY <2>1
  <2>3. CASE CommitReport(r)
    <3>1. job[r].period \in Periods /\ report[job[r].period] = None
      BY <2>3, <1>1, PeriodOf DEF CommitReport, At, IInv, Slot
    <3>2. report'[p] = report[p]
      BY <2>3, <3>1, <1>1 DEF CommitReport, IInv, TypeOK
    <3> QED
      BY <3>2, <1>1
  <2>4. CASE UpdateReport(r)
    <3>1. PICK x \in Periods : x = job[r].period
      BY <2>4, <1>1, PeriodOf DEF UpdateReport, At
    <3>2. p = x
      BY <2>4, <3>1, <1>1, Updated
    <3>3. /\ report'[p] # None
          /\ report'[p].submitted = report[p].submitted
          /\ report'[p].content = job[r].content
      BY <2>4, <3>1, <3>2, <1>1, Updated
    <3>4. At(r, "update") /\ stamp[r] - report[p].submitted <= Window
      BY <2>4, <3>1, <3>2, <1>1 DEF UpdateReport, At, IInv, Slot
    <3> QED
      BY <3>1, <3>2, <3>3, <3>4
  <2> QED
    BY <2>2, <2>3, <2>4
<1>2. IInv /\ [Next]_vars =>
        [\A p \in Periods : report[p] # None /\ report'[p] # report[p] => Edited(p)]_vars
  BY <1>1
<1> QED
  BY <1>2, Invariance, PTL DEF EditsInTime, Spec

-----------------------------------------------------------------------------
(* Filing.                                                                 *)

\* No request holds, and no row has, a time that is still to come; an edit
\* under way found its report before it.
Clock ==
  /\ \A r \in Requests : stamp[r] <= hour
  /\ \A p \in Periods : report[p] # None => report[p].submitted <= hour
  /\ \A r \in Requests : pc[r] = "update" =>
       report[job[r].period].submitted <= stamp[r]

LEMMA TypeHolds ==
  ASSUME IInv
  PROVE  /\ TypeOK /\ hour \in Nat
         /\ \A r \in Requests : stamp[r] \in Nat
         /\ \A p \in Periods : report[p] # None =>
              report[p] \in Report /\ report[p].submitted \in Nat
BY HoursAssumption DEF IInv, TypeOK, Hours, Report

\* Steps that change no row and no time, and start no UPDATE.
LEMMA ClockStays ==
  ASSUME IInv, Clock, UNCHANGED <<stamp, report, hour>>,
         \A r \in Requests : pc'[r] = "update" => pc[r] = "update" /\ job'[r] = job[r]
  PROVE  Clock'
BY DEF Clock

\* A request that ends.
LEMMA ClockEnds ==
  ASSUME IInv, Clock, NEW r \in Requests, NEW a, Finish(r, a),
         UNCHANGED <<report, hour>>
  PROVE  Clock'
<1>1. /\ stamp'[r] = 0 /\ pc'[r] = "idle"
      /\ \A q \in Requests \ {r} :
           stamp'[q] = stamp[q] /\ pc'[q] = pc[q] /\ job'[q] = job[q]
  BY DEF Finish, IInv, TypeOK
<1> QED
  BY <1>1, TypeHolds DEF Clock

LEMMA CommitClock ==
  ASSUME IInv, Clock, NEW r \in Requests, CommitReport(r)
  PROVE  Clock'
<1>p. PICK p \in Periods : p = job[r].period /\ pc[r] = "commit"
  BY PeriodOf DEF CommitReport, At
<1>1. /\ report[p] = None /\ report'[p].submitted = stamp[r]
      /\ \A x \in Periods \ {p} : report'[x] = report[x]
      /\ hour' = hour
  BY <1>p DEF CommitReport, IInv, Slot, TypeOK
<1>2. /\ pc'[r] # "update" /\ stamp'[r] \in {0, stamp[r]}
      /\ \A q \in Requests \ {r} :
           stamp'[q] = stamp[q] /\ pc'[q] = pc[q] /\ job'[q] = job[q]
  BY DEF CommitReport, Goto, Finish, IInv, TypeOK
<1>3. \A q \in Requests : stamp'[q] <= hour'
  BY <1>1, <1>2, TypeHolds DEF Clock
<1>4. \A x \in Periods : report'[x] # None => report'[x].submitted <= hour'
  BY <1>1 DEF Clock
<1>5. ASSUME NEW q \in Requests, pc'[q] = "update"
      PROVE  report'[job'[q].period].submitted <= stamp'[q]
  <2>1. q # r /\ pc[q] = "update"
    BY <1>2, <1>5
  <2>2. job[q].period \in Periods \ {p}
    BY <2>1, <1>1, PeriodOf DEF IInv, Slot
  <2> QED
    BY <2>1, <2>2, <1>1, <1>2 DEF Clock
<1> QED
  BY <1>3, <1>4, <1>5 DEF Clock

LEMMA UpdateClock ==
  ASSUME IInv, Clock, NEW r \in Requests, UpdateReport(r)
  PROVE  Clock'
<1>p. PICK p \in Periods : p = job[r].period
  BY PeriodOf DEF UpdateReport, At
<1>1. /\ report[p] # None /\ report'[p].submitted = report[p].submitted
      /\ \A x \in Periods \ {p} : report'[x] = report[x]
      /\ hour' = hour
  BY <1>p, Updated DEF UpdateReport
<1>2. /\ stamp'[r] = 0 /\ pc'[r] = "idle"
      /\ \A q \in Requests \ {r} :
           stamp'[q] = stamp[q] /\ pc'[q] = pc[q] /\ job'[q] = job[q]
  BY DEF UpdateReport, Finish, IInv, TypeOK
<1>3. \A q \in Requests : pc[q] = "update" => job[q].period \in Periods
  BY PeriodOf
<1>4. \A q \in Requests : stamp'[q] <= hour'
  BY <1>1, <1>2, TypeHolds DEF Clock
<1>5. \A x \in Periods : report'[x] # None => report'[x].submitted <= hour'
  BY <1>1 DEF Clock
<1>6. \A q \in Requests : pc'[q] = "update" =>
        report'[job'[q].period].submitted <= stamp'[q]
  BY <1>1, <1>2, <1>3 DEF Clock
<1> QED
  BY <1>4, <1>5, <1>6 DEF Clock

LEMMA FindClock ==
  ASSUME IInv, Clock, NEW r \in Requests, FindReport(r)
  PROVE  Clock'
<1>1. \/ Finish(r, "notFound") \/ Finish(r, "closed")
      \/ /\ report[job[r].period] # None /\ pc[r] = "find"
         /\ stamp' = [stamp EXCEPT ![r] = hour]
         /\ pc' = [pc EXCEPT ![r] = "update"] /\ UNCHANGED job
  BY DEF FindReport, Goto, At
<1>2. UNCHANGED <<report, hour>>
  BY DEF FindReport, mails
<1>3. CASE /\ report[job[r].period] # None /\ pc[r] = "find"
           /\ stamp' = [stamp EXCEPT ![r] = hour]
           /\ pc' = [pc EXCEPT ![r] = "update"] /\ UNCHANGED job
  <2>1. job[r].period \in Periods
    BY <1>3, PeriodOf
  <2>2. /\ stamp'[r] = hour /\ pc'[r] = "update"
        /\ \A q \in Requests \ {r} : stamp'[q] = stamp[q] /\ pc'[q] = pc[q]
    BY <1>3 DEF IInv, TypeOK
  <2> QED
    BY <1>2, <1>3, <2>1, <2>2, TypeHolds DEF Clock
<1> QED
  BY <1>1, <1>2, <1>3, ClockEnds

LEMMA ClockStep == IInv /\ Clock /\ [Next]_vars => Clock'
<1> SUFFICES ASSUME IInv, Clock, [Next]_vars PROVE Clock'
  OBVIOUS
<1>1. CASE UNCHANGED vars
  BY <1>1 DEF vars, Clock
<1>2. ASSUME NEW r \in Requests, NEW j \in Job, Accept(r, j) PROVE Clock'
  <2>1. \A q \in Requests : pc'[q] = "update" => pc[q] = "update" /\ job'[q] = job[q]
    BY <1>2 DEF Accept, At, IInv, TypeOK
  <2>2. UNCHANGED <<stamp, report, hour>>
    BY <1>2 DEF Accept
  <2> QED
    BY <2>1, <2>2, ClockStays
<1>3. ASSUME NEW r \in Requests, Fail(r) PROVE Clock'
  BY <1>3, ClockEnds DEF Fail
<1>4. ASSUME NEW r \in Requests,
             CheckDuplicate(r) \/ InsertReport(r) \/ NotifyFaculty(r) \/ QueueLink(r)
      PROVE  Clock'
  <2>1. UNCHANGED <<report, hour>>
    BY <1>4 DEF CheckDuplicate, InsertReport, NotifyFaculty, QueueLink, mails
  <2>2. \/ \E a \in {"duplicate", "created", "error"} : Finish(r, a)
        \/ /\ UNCHANGED <<stamp, job>>
           /\ \E step \in {"begin", "commit", "token"} : pc' = [pc EXCEPT ![r] = step]
    BY <1>4 DEF CheckDuplicate, InsertReport, NotifyFaculty, QueueLink, Goto
  <2>3. CASE /\ UNCHANGED <<stamp, job>>
             /\ \E step \in {"begin", "commit", "token"} : pc' = [pc EXCEPT ![r] = step]
    <3>1. \A q \in Requests : pc'[q] = "update" => pc[q] = "update"
      BY <2>3 DEF IInv, TypeOK
    <3> QED
      BY <2>1, <2>3, <3>1, ClockStays
  <2> QED
    BY <2>1, <2>2, <2>3, ClockEnds
<1>5. ASSUME NEW r \in Requests, BeginInsert(r) PROVE Clock'
  <2>1. /\ stamp'[r] = hour /\ pc'[r] = "insert" /\ UNCHANGED <<job, report, hour>>
        /\ \A q \in Requests \ {r} : stamp'[q] = stamp[q] /\ pc'[q] = pc[q]
    BY <1>5 DEF BeginInsert, Goto, mails, IInv, TypeOK
  <2> QED
    BY <2>1, TypeHolds DEF Clock
<1>6. ASSUME NEW r \in Requests, GenerateToken(r) PROVE Clock'
  <2>1. UNCHANGED <<report, hour>>
    BY <1>6 DEF GenerateToken
  <2>2. \/ Finish(r, "error")
        \/ pc' = [pc EXCEPT ![r] = "queue"] /\ UNCHANGED <<stamp, job>>
    BY <1>6 DEF GenerateToken, Goto
  <2>3. CASE pc' = [pc EXCEPT ![r] = "queue"] /\ UNCHANGED <<stamp, job>>
    <3>1. \A q \in Requests : pc'[q] = "update" => pc[q] = "update"
      BY <2>3 DEF IInv, TypeOK
    <3> QED
      BY <2>1, <2>3, <3>1, ClockStays
  <2> QED
    BY <2>1, <2>2, <2>3, ClockEnds
<1>7. CASE Crash
  <2>1. \A r \in Requests : stamp'[r] = 0 /\ pc'[r] = "idle"
    BY <1>7 DEF Crash
  <2>2. UNCHANGED <<report, hour>>
    BY <1>7 DEF Crash
  <2> QED
    BY <2>1, <2>2, TypeHolds DEF Clock
<1>8. CASE Tick
  <2>1. hour' = hour + 1 /\ UNCHANGED <<pc, job, stamp, report>>
    BY <1>8 DEF Tick, request
  <2> QED
    BY <2>1, TypeHolds DEF Clock
<1>9. CASE Cleanup
  BY <1>9 DEF Cleanup, request, Clock
<1> QED
  BY <1>1, <1>2, <1>3, <1>4, <1>5, <1>6, <1>7, <1>8, <1>9,
     CommitClock, UpdateClock, FindClock DEF Next, Serve

LEMMA ClockHolds == Spec => []Clock
<1>1. Init => Clock
  BY DEF Init, Clock
<1> QED
  BY <1>1, ClockStep, Invariance, PTL DEF Spec

\* The COMMIT files the report.
LEMMA CommitFiles ==
  ASSUME IInv, NEW r \in Requests, CommitReport(r)
  PROVE  Reports!Next
<1>p. PICK p \in Periods : p = job[r].period
  BY PeriodOf DEF CommitReport, At
<1>1. /\ job[r].content \in Contents /\ stamp[r] \in Hours /\ report[p] = None
      /\ report' = [report EXCEPT ![p] =
           [content |-> job[r].content, submitted |-> stamp[r], edited |-> stamp[r]]]
      /\ UNCHANGED <<notices, links>>
  BY <1>p, PeriodOf DEF CommitReport, At, mails, IInv, TypeOK, Slot
<1> QED
  BY <1>1 DEF Reports!Next, Reports!File, Reports!Filed

\* However late its UPDATE comes, an edit is of a time within the window.
LEMMA UpdateEdits ==
  ASSUME IInv, Clock, NEW r \in Requests, UpdateReport(r)
  PROVE  Reports!Next
<1>p. PICK p \in Periods : p = job[r].period
  BY PeriodOf DEF UpdateReport, At
<1>1. /\ job[r].content \in Contents /\ stamp[r] \in Hours /\ report[p] # None
      /\ report[p].submitted <= stamp[r]
      /\ stamp[r] - report[p].submitted <= Window
  BY <1>p, PeriodOf DEF UpdateReport, At, IInv, TypeOK, Slot, Clock
<1>2. stamp[r] - report[p].submitted \in 0..Window
  BY <1>1, TypeHolds, HoursAssumption
<1>3. /\ report' = [report EXCEPT ![p].content = job[r].content, ![p].edited = stamp[r]]
      /\ UNCHANGED <<notices, links>>
  BY <1>p DEF UpdateReport, mails
<1> QED
  BY <1>1, <1>2, <1>3 DEF Reports!Next, Reports!Edit, Reports!Filed

LEMMA NotifyTells ==
  ASSUME IInv, NEW r \in Requests, NotifyFaculty(r)
  PROVE  [Reports!Next]_<<report, notices, links>>
<1>p. PICK p \in Periods : p = job[r].period
  BY PeriodOf DEF NotifyFaculty, At
<1>1. /\ report[p] # None /\ notices[p] = 0 /\ LinksOf(p) = {}
      /\ UNCHANGED <<report, links>>
      /\ \/ notices' = [notices EXCEPT ![p] = 1]
         \/ UNCHANGED notices
  BY <1>p DEF NotifyFaculty, At, IInv, Slot, AfterCommit
<1> QED
  BY <1>1 DEF Reports!Next, Reports!Tell, Reports!Filed, Reports!Invitations, LinksOf

LEMMA QueueInvites ==
  ASSUME IInv, NEW r \in Requests, QueueLink(r)
  PROVE  Reports!Next
<1>p. PICK p \in Periods : p = job[r].period
  BY PeriodOf DEF QueueLink, At
<1> DEFINE l == [token |-> raw[r], report |-> p]
<1>1. /\ report[p] # None /\ LinksOf(p) = {}
      /\ links' = links \cup {l} /\ UNCHANGED <<report, notices>>
  BY <1>p DEF QueueLink, At, IInv, Slot, AfterCommit
<1>2. l.report = p /\ l \in links'
  BY <1>1
<1> QED
  BY <1>1, <1>2
     DEF Reports!Next, Reports!Invite, Reports!Filed, Reports!Invitations, LinksOf

LEMMA StepFiling ==
  ASSUME IInv, Clock, [Next]_vars
  PROVE  [Reports!Next]_<<report, notices, links>>
<1>1. ASSUME NEW r \in Requests,
             \/ CheckDuplicate(r) \/ BeginInsert(r) \/ InsertReport(r)
             \/ GenerateToken(r) \/ FindReport(r) \/ Fail(r)
      PROVE  UNCHANGED <<report, notices, links>>
  BY <1>1 DEF CheckDuplicate, BeginInsert, InsertReport, GenerateToken, FindReport,
     Fail, mails
<1>2. ASSUME NEW r \in Requests, NEW j \in Job, Accept(r, j)
      PROVE  UNCHANGED <<report, notices, links>>
  BY <1>2 DEF Accept, mails
<1>3. ASSUME Crash \/ Tick \/ Cleanup \/ UNCHANGED vars
      PROVE  UNCHANGED <<report, notices, links>>
  BY <1>3 DEF Crash, Tick, Cleanup, mails, vars
<1> QED
  BY <1>1, <1>2, <1>3, CommitFiles, UpdateEdits, NotifyTells, QueueInvites
     DEF Next, Serve

\* Requests, transactions, tokens, failures and the cleanup together
\* implement Filing.
THEOREM FilingImplemented == Spec => ImplementsFiling
<1>1. Init => Reports!Init
  BY DEF Init, Reports!Init
<1>2. IInv /\ Clock /\ [Next]_vars => [Reports!Next]_<<report, notices, links>>
  BY StepFiling
<1> QED
  BY <1>1, <1>2, Invariance, ClockHolds, PTL DEF Spec, ImplementsFiling, Reports!Spec

\* What a register of reports promises: of each report its last edit is within
\* the window of its first submission, and each mentor has one mail of it.
FilingInv ==
  /\ report \in [Periods -> Report \cup {None}]
  /\ notices \in [Periods -> 0..1]
  /\ \A p \in Periods :
       /\ report[p] # None => report[p].edited - report[p].submitted \in 0..Window
       /\ report[p] = None => notices[p] = 0 /\ Reports!Invitations(p) = {}
       /\ \A l, m \in Reports!Invitations(p) : l = m

LEMMA FilingFiles ==
  ASSUME FilingInv, NEW p \in Periods, Reports!File(p)
  PROVE  FilingInv'
<1>1. PICK c \in Contents, t \in Hours :
        report' = [report EXCEPT ![p] =
          [content |-> c, submitted |-> t, edited |-> t]]
  BY DEF Reports!File
<1> DEFINE row == [content |-> c, submitted |-> t, edited |-> t]
<1>2. /\ row \in Report /\ row # None /\ row.edited = t /\ row.submitted = t
  <2>1. row \in Report
    BY DEF Report
  <2> QED
    BY <2>1, NoneAssumption
<1>3. row.edited - row.submitted \in 0..Window
  BY <1>2, HoursAssumption DEF Hours
<1>4. report' = [report EXCEPT ![p] = row] /\ UNCHANGED <<notices, links>>
  BY <1>1 DEF Reports!File
<1> HIDE DEF row
<1> QED
  BY <1>2, <1>3, <1>4 DEF FilingInv, Reports!Invitations

LEMMA FilingEdits ==
  ASSUME FilingInv, NEW p \in Periods, Reports!Edit(p)
  PROVE  FilingInv'
<1>1. PICK c \in Contents, t \in Hours :
        /\ t - report[p].submitted \in 0..Window
        /\ report' = [report EXCEPT ![p].content = c, ![p].edited = t]
  BY DEF Reports!Edit
<1>2. report[p] \in Report /\ report[p] # None
  BY DEF Reports!Edit, Reports!Filed, FilingInv
<1> DEFINE row == [report[p] EXCEPT !.content = c, !.edited = t]
<1>3. row \in Report /\ row.edited = t /\ row.submitted = report[p].submitted
  BY <1>2 DEF Report
<1>4. report' = [report EXCEPT ![p] = row] /\ UNCHANGED <<notices, links>>
  BY <1>1, <1>2 DEF Reports!Edit, FilingInv
<1> HIDE DEF row
<1>5. row # None
  BY <1>3, NoneAssumption
<1>6. /\ report' \in [Periods -> Report \cup {None}] /\ report'[p] = row
      /\ \A x \in Periods \ {p} : report'[x] = report[x]
  BY <1>3, <1>4 DEF FilingInv
<1>7. report'[p].edited - report'[p].submitted \in 0..Window
  BY <1>1, <1>3, <1>6
<1>8. \A x \in Periods : Reports!Invitations(x)' = Reports!Invitations(x)
  BY <1>4 DEF Reports!Invitations
<1> QED
  BY <1>2, <1>4, <1>5, <1>6, <1>7, <1>8 DEF FilingInv

LEMMA FilingInvites ==
  ASSUME FilingInv, NEW p \in Periods, Reports!Invite(p)
  PROVE  FilingInv'
<1>1. PICK l \in links' : l.report = p /\ links' = links \cup {l}
  BY DEF Reports!Invite
<1>2. /\ report[p] # None /\ Reports!Invitations(p) = {}
      /\ UNCHANGED <<report, notices>>
  BY DEF Reports!Invite, Reports!Filed
<1>3. \A x \in Periods :
        Reports!Invitations(x)' = IF x = p THEN {l} ELSE Reports!Invitations(x)
  BY <1>1, <1>2 DEF Reports!Invitations
<1> QED
  BY <1>2, <1>3 DEF FilingInv

\* Of any register of reports, whoever keeps it: FilingInv.
THEOREM FilingPromise == Reports!Spec => []FilingInv
<1>1. Reports!Init => FilingInv
  BY DEF Reports!Init, FilingInv, Reports!Invitations
<1>2. FilingInv /\ [Reports!Next]_<<report, notices, links>> => FilingInv'
  <2> SUFFICES ASSUME FilingInv, [Reports!Next]_<<report, notices, links>>
               PROVE  FilingInv'
    OBVIOUS
  <2>1. CASE UNCHANGED <<report, notices, links>>
    BY <2>1 DEF FilingInv, Reports!Invitations
  <2>2. ASSUME NEW p \in Periods, Reports!Tell(p) PROVE FilingInv'
    BY <2>2 DEF Reports!Tell, Reports!Filed, FilingInv, Reports!Invitations
  <2> QED
    BY <2>1, <2>2, FilingFiles, FilingEdits, FilingInvites DEF Reports!Next
<1> QED
  BY <1>1, <1>2, PTL DEF Reports!Spec

\* However many edits race and however late their UPDATEs come, a report
\* never shows an edit from before its submission or after its window (but for
\* the moment between the check of the window and EditedAt).
EditedInWindow ==
  \A p \in Periods : report[p] # None =>
    report[p].edited - report[p].submitted \in 0..Window

\* What Filing's promise says of the reports table.
THEOREM EditedHeld == Spec => []EditedInWindow
<1>1. FilingInv => EditedInWindow
  BY DEF FilingInv, EditedInWindow
<1> QED
  BY <1>1, FilingImplemented, FilingPromise, PTL DEF ImplementsFiling

=============================================================================
