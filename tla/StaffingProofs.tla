---------------------------- MODULE StaffingProofs ----------------------------
(***************************************************************************)
(* Theorems of Staffing, for any sets of requests, accounts, departments   *)
(* and assignments.                                                        *)
(***************************************************************************)
EXTENDS Staffing, TLAPS

\* What the departments were found to be, unless one was edited since.
Matched(r) ==
  LET j == job[r] IN
  /\ pc[r] = "enroller" => read[r] = dept[j.on]
  /\ pc[r] = "enroll" /\ j.by \notin Admins =>
       dept[j.by] # None /\ dept[j.on] = dept[j.by]
  /\ pc[r] \in {"assigner", "internship"} => read[r] = dept[j.mentor]
  /\ pc[r] = "internship" => own[r] = dept[j.by]
  /\ pc[r] = "assign" /\ j.by \notin Admins =>
       dept[j.by] # None /\ dept[j.on] = dept[j.by] /\ dept[j.mentor] = dept[j.by]

\* What is known of a request at its step.
Slot(r) ==
  LET j == job[r] IN
  /\ pc[r] # "idle" => j \in Job
  /\ pc[r] \in {"student", "enroller", "enroll"} =>
       j.kind = "enroll" /\ j.by \in Staff /\ j.mentor = None
  /\ pc[r] \in {"enroller", "enroll"} => j.on \in Students
  /\ pc[r] \in {"faculty", "assigner", "internship", "assign"} =>
       j.kind = "assign" /\ j.by \in Staff /\ j.on \in Students
  /\ pc[r] \in {"assigner", "internship", "assign"} => j.mentor \in Faculty
  /\ pc[r] = "internship" => j.by \notin Admins
  /\ pc[r] \in {"report", "mentor", "feedback"} =>
       j.by \in Faculty /\ j.on \in Students
  /\ pc[r] = "feedback" => \E i \in Ids :
       /\ assignments[i] # None
       /\ assignments[i].student = j.on /\ assignments[i].faculty = j.by
  /\ r \notin moved => Matched(r)

IInv ==
  /\ TypeOK
  /\ \A r \in Requests : Slot(r)
  /\ MentorsOnly

-----------------------------------------------------------------------------

LEMMA InitInv == Init => IInv
<1> SUFFICES ASSUME Init PROVE IInv
  OBVIOUS
<1> USE UsersAssumption DEF Init
<1>1. TypeOK
  BY DEF TypeOK, Department
<1>2. \A r \in Requests : Slot(r)
  BY DEF Slot, Matched
<1>3. MentorsOnly
  BY DEF MentorsOnly
<1> QED
  BY <1>1, <1>2, <1>3 DEF IInv

LEMMA AcceptInv ==
  ASSUME IInv, NEW r \in Requests, NEW j \in Job, Accept(r, j)
  PROVE  IInv'
<1> USE DEF IInv, Accept, At, tables
<1>1. TypeOK'
  BY UsersAssumption DEF TypeOK, Steps
<1>2. \A q \in Requests : Slot(q)'
  BY DEF Slot, Matched, TypeOK, Job
<1>3. MentorsOnly'
  BY DEF MentorsOnly
<1> QED
  BY <1>1, <1>2, <1>3

LEMMA FailInv ==
  ASSUME IInv, NEW r \in Requests, Fail(r)
  PROVE  IInv'
<1> USE DEF IInv, Fail, Finish, tables
<1>1. TypeOK'
  BY DEF TypeOK, Department
<1>2. \A q \in Requests : Slot(q)'
  BY DEF Slot, Matched, TypeOK
<1>3. MentorsOnly'
  BY DEF MentorsOnly
<1> QED
  BY <1>1, <1>2, <1>3

LEMMA CrashInv ==
  ASSUME IInv, Crash
  PROVE  IInv'
<1> USE DEF IInv, Crash, tables
<1>1. TypeOK'
  BY DEF TypeOK, Department
<1>2. \A q \in Requests : Slot(q)'
  BY DEF Slot, Matched
<1>3. MentorsOnly'
  BY DEF MentorsOnly
<1> QED
  BY <1>1, <1>2, <1>3

\* The reads: nothing changes but the request.
LEMMA ReadInv ==
  ASSUME IInv, NEW r \in Requests,
         \/ FindStudent(r) \/ FindEnroller(r)
         \/ FindFaculty(r) \/ FindAssigner(r) \/ FindInternship(r)
         \/ FindReport(r) \/ FindMentor(r)
  PROVE  IInv'
<1> USE UsersAssumption
    DEF IInv, FindStudent, FindEnroller, FindFaculty, FindAssigner, FindInternship,
        FindReport, FindMentor, Goto, At, tables
<1>1. TypeOK'
  BY DEF TypeOK, Steps, Movable, Users, Slot, Department
<1>2. \A q \in Requests : Slot(q)'
  BY DEF Slot, Matched, TypeOK
<1>3. MentorsOnly'
  BY DEF MentorsOnly
<1> QED
  BY <1>1, <1>2, <1>3

LEMMA EnrollInv ==
  ASSUME IInv, NEW r \in Requests, Enroll(r)
  PROVE  IInv'
<1> USE DEF IInv, Enroll, Finish, At
<1>1. TypeOK'
  BY DEF TypeOK, Slot, Department
<1>2. \A q \in Requests : Slot(q)'
  BY DEF Slot, Matched, TypeOK
<1>3. MentorsOnly'
  BY NoRowAssumption DEF MentorsOnly, Slot, TypeOK, Assignment, Job, Users
<1> QED
  BY <1>1, <1>2, <1>3

LEMMA AssignInv ==
  ASSUME IInv, NEW r \in Requests, Assign(r)
  PROVE  IInv'
<1>1. PICK i \in Ids :
        /\ assignments[i] = None
        /\ assignments' = [assignments EXCEPT ![i] =
             [student |-> job[r].on, faculty |-> job[r].mentor, approved |-> None]]
  BY DEF Assign
<1> DEFINE row == [student |-> job[r].on, faculty |-> job[r].mentor, approved |-> None]
<1>2. /\ row \in Assignment /\ row # None
      /\ row.student = job[r].on /\ row.approved = None
      /\ internships[job[r].on] # None
  <2>1. row \in Assignment
    BY DEF Assign, At, IInv, Slot, Assignment
  <2> QED
    BY <2>1, NoRowAssumption DEF Assign
<1>3. assignments' = [assignments EXCEPT ![i] = row]
  BY <1>1
<1> HIDE DEF row
<1> USE DEF IInv
<1>4. TypeOK'
  BY <1>2, <1>3 DEF TypeOK, Department, Assign, Finish
<1>5. \A q \in Requests : Slot(q)'
  BY <1>1, <1>3 DEF Slot, Matched, TypeOK, Assign, Finish
<1>6. MentorsOnly'
  <2>1. \A k \in Ids : assignments[k] # None => assignments'[k] = assignments[k]
    BY <1>1, <1>3 DEF TypeOK
  <2>2. \A k \in Ids : assignments'[k] = assignments[k] \/ assignments'[k] = row
    BY <1>3 DEF TypeOK
  <2> QED
    BY <1>2, <2>1, <2>2 DEF MentorsOnly, Assign
<1> QED
  BY <1>4, <1>5, <1>6

LEMMA ApproveInv ==
  ASSUME IInv, NEW f \in Faculty, NEW i \in Ids, Approve(f, i)
  PROVE  IInv'
<1> DEFINE row == [assignments[i] EXCEPT !.approved = f]
<1>1. assignments[i] \in Assignment
  BY DEF Approve, IInv, TypeOK
<1>2. /\ row \in Assignment /\ row # None
      /\ row.student = assignments[i].student
      /\ row.faculty = assignments[i].faculty /\ row.approved = f
      /\ assignments[i].faculty = f /\ assignments[i] # None
  <2>1. row \in Assignment
    BY <1>1 DEF Assignment
  <2> QED
    BY <1>1, <2>1, NoRowAssumption DEF Approve, Assignment
<1>3. assignments' = [assignments EXCEPT ![i] = row]
  BY DEF Approve
<1> HIDE DEF row
<1>4. \A k \in Ids :
        /\ assignments[k] # None <=> assignments'[k] # None
        /\ assignments[k] # None =>
             /\ assignments'[k].student = assignments[k].student
             /\ assignments'[k].faculty = assignments[k].faculty
             /\ assignments'[k] = assignments[k] \/ assignments'[k].approved = assignments'[k].faculty
  BY <1>2, <1>3 DEF IInv, TypeOK
<1>5. UNCHANGED <<request, internships, reported, dept, feedback>>
  BY DEF Approve
<1> USE DEF IInv, request
<1>6. TypeOK'
  BY <1>2, <1>3, <1>5 DEF TypeOK
<1>7. \A q \in Requests : Slot(q)'
  BY <1>4, <1>5 DEF Slot, Matched
<1>8. MentorsOnly'
  BY <1>4, <1>5 DEF MentorsOnly
<1> QED
  BY <1>6, <1>7, <1>8

LEMMA GiveFeedbackInv ==
  ASSUME IInv, NEW r \in Requests, GiveFeedback(r)
  PROVE  IInv'
<1> USE DEF IInv, GiveFeedback, Finish, At
<1>1. TypeOK'
  BY DEF TypeOK, Slot, Department
<1>2. \A q \in Requests : Slot(q)'
  BY DEF Slot, Matched, TypeOK
<1>3. MentorsOnly'
  BY DEF MentorsOnly, Slot
<1> QED
  BY <1>1, <1>2, <1>3

LEMMA SubmitInv ==
  ASSUME IInv, NEW s \in Students, Submit(s)
  PROVE  IInv'
<1> USE DEF IInv, Submit, request
<1>1. TypeOK'
  BY DEF TypeOK
<1>2. \A q \in Requests : Slot(q)'
  BY DEF Slot, Matched
<1>3. MentorsOnly'
  BY DEF MentorsOnly
<1> QED
  BY <1>1, <1>2, <1>3

LEMMA UpdateProfileInv ==
  ASSUME IInv, NEW u \in Movable, UpdateProfile(u)
  PROVE  IInv'
<1> USE DEF IInv, UpdateProfile
<1>1. TypeOK'
  BY DEF TypeOK
<1>2. \A q \in Requests : Slot(q)'
  <2> SUFFICES ASSUME NEW q \in Requests PROVE Slot(q)'
    OBVIOUS
  <2>1. CASE pc[q] = "idle"
    BY <2>1 DEF Slot, Matched
  <2>2. CASE pc[q] # "idle" /\ q \in moved'
    BY <2>2 DEF Slot
  <2>3. CASE pc[q] # "idle" /\ q \notin moved'
    <3>1. job[q] \in Job /\ u \notin Party(job[q]) /\ q \notin moved
      BY <2>3, NoRowAssumption DEF Slot
    <3>2. CASE job[q].kind = "feedback"
      BY <2>3, <3>1, <3>2 DEF Slot, Matched
    <3>3. CASE job[q].kind # "feedback"
      <4>1. u # job[q].by /\ u # job[q].on /\ u # job[q].mentor
        BY <3>1, <3>3, NoRowAssumption DEF Party, Movable
      <4>2. dept'[job[q].on] = dept[job[q].on] /\ dept'[job[q].by] = dept[job[q].by]
            /\ dept'[job[q].mentor] = dept[job[q].mentor]
        BY <4>1 DEF TypeOK
      <4> QED
        BY <2>3, <3>1, <4>2 DEF Slot, Matched
    <3> QED
      BY <3>2, <3>3
  <2> QED
    BY <2>1, <2>2, <2>3
<1>3. MentorsOnly'
  BY DEF MentorsOnly
<1> QED
  BY <1>1, <1>2, <1>3

LEMMA StepInv == IInv /\ [Next]_vars => IInv'
<1> SUFFICES ASSUME IInv, [Next]_vars PROVE IInv'
  OBVIOUS
<1>1. CASE UNCHANGED vars
  BY <1>1 DEF vars, request, tables, IInv, TypeOK, Slot, Matched, MentorsOnly
<1>2. ASSUME NEW r \in Requests, NEW j \in Job, Accept(r, j) PROVE IInv'
  BY <1>2, AcceptInv
<1>3. ASSUME NEW r \in Requests, Serve(r) PROVE IInv'
  BY <1>3, ReadInv, EnrollInv, AssignInv, GiveFeedbackInv DEF Serve
<1>4. ASSUME NEW r \in Requests, Fail(r) PROVE IInv'
  BY <1>4, FailInv
<1>5. ASSUME NEW f \in Faculty, NEW i \in Ids, Approve(f, i) PROVE IInv'
  BY <1>5, ApproveInv
<1>6. ASSUME NEW u \in Movable, UpdateProfile(u) PROVE IInv'
  BY <1>6, UpdateProfileInv
<1>7. ASSUME NEW s \in Students, Submit(s) PROVE IInv'
  BY <1>7, SubmitInv
<1>8. CASE Crash
  BY <1>8, CrashInv
<1> QED
  BY <1>1, <1>2, <1>3, <1>4, <1>5, <1>6, <1>7, <1>8 DEF Next

LEMMA Invariance == Spec => []IInv
BY InitInv, StepInv, PTL DEF Spec

-----------------------------------------------------------------------------

\* Requests and rows keep their shapes.
THEOREM TypeCorrect == Spec => []TypeOK
<1>1. IInv => TypeOK
  BY DEF IInv
<1> QED
  BY <1>1, Invariance, PTL

\* Feedback is a mentor's of the internship, an approval the mentor's own.
THEOREM MentorsHeld == Spec => []MentorsOnly
<1>1. IInv => MentorsOnly
  BY DEF IInv
<1> QED
  BY <1>1, Invariance, PTL

\* Reads that departments were edited between admit nobody a coordinator of
\* another department may not enrol or assign, as long as nobody was moved.
THEOREM DepartmentHeld == Spec => OwnDepartment
<1> DEFINE Own(r) == \/ job[r].by \in Admins
                     \/ r \in moved
                     \/ \E d \in Departments : \A u \in Party(job[r]) : dept[u] = d
<1>1. ASSUME IInv, NEW r \in Requests, pc[r] \in {"enroll", "assign"}
      PROVE  Own(r)
  <2> SUFFICES ASSUME job[r].by \notin Admins, r \notin moved
               PROVE  \E d \in Departments : \A u \in Party(job[r]) : dept[u] = d
    OBVIOUS
  <2>1. Slot(r) /\ Matched(r)
    BY <1>1 DEF IInv, Slot
  <2>2. job[r].by \in Movable
    BY <1>1, <2>1 DEF Slot, Movable, Users
  <2>3. dept[job[r].by] \in Departments
    BY <1>1, <2>1, <2>2 DEF Matched, IInv, TypeOK, Department
  <2>4. \A u \in Party(job[r]) : dept[u] = dept[job[r].by]
    BY <1>1, <2>1 DEF Slot, Matched, Party
  <2> QED
    BY <2>3, <2>4
<1>2. IInv /\ [Next]_vars =>
        [\A r \in Requests : Enrols(r) \/ Assigns(r) => Own(r)]_vars
  BY <1>1 DEF Enrols, Assigns, At
<1> QED
  BY <1>2, Invariance, PTL DEF OwnDepartment, Spec

\* No second enrolment replaces an internship.
THEOREM InternshipKept == Spec => InternshipStays
<1>1. IInv /\ [Next]_vars =>
        [\A s \in Students : internships[s] # None =>
           internships'[s] = internships[s]]_vars
  <2> SUFFICES ASSUME IInv, Next, NEW s \in Students, internships[s] # None
               PROVE  internships'[s] = internships[s]
    OBVIOUS
  <2>1. CASE \E r \in Requests : Enroll(r)
    BY <2>1 DEF Enroll, IInv, TypeOK
  <2>2. CASE ~ \E r \in Requests : Enroll(r)
    BY <2>2 DEF Next, Serve, tables, Accept, Fail, Crash, FindStudent, FindEnroller,
       FindFaculty, FindAssigner, FindInternship, Assign, Approve, FindReport,
       FindMentor, GiveFeedback, UpdateProfile, Submit
  <2> QED
    BY <2>1, <2>2
<1> QED
  BY <1>1, Invariance, PTL DEF InternshipStays, Spec

=============================================================================
