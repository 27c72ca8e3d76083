------------------------------- MODULE Staffing -------------------------------
(***************************************************************************)
(* Enrolment, mentor assignment, approval, mentor feedback and department  *)
(* edits: internal/services/internship_service.go, feedback_service.go and *)
(* internal/handlers/admin_handler.go.                                     *)
(*                                                                         *)
(* Departments decide who may act on whom.  They are read in two or three  *)
(* calls before the INSERT, with no transaction, while an admin edits them.*)
(***************************************************************************)
EXTENDS Integers

CONSTANTS
  Requests,     \* the server's concurrent request slots
  Students,     \* student accounts; an internship goes by its student
  Faculty,      \* faculty accounts
  Staff,        \* coordinators and admins
  Admins,       \* the admins among Staff; the others coordinate
  Departments,  \* departments; None is the empty one
  Ids,          \* mentor_assignments ids (bound: no more rows than ids)
  MaxRequests,  \* bound: requests accepted in a behaviour
  None          \* no row, no department

Users == Students \cup Faculty \cup Staff
Movable == Users \ Admins
Department == Departments \cup {None}
Assignment == [student: Students, faculty: Faculty, approved: Faculty \cup {None}]
Job == [kind: {"enroll", "assign", "feedback"},
        by: Staff \cup Faculty,
        on: Users,                  \* the student
        mentor: Users \cup {None}]  \* the faculty to assign

ASSUME UsersAssumption ==
  /\ MaxRequests \in Nat
  /\ Students \cap Faculty = {} /\ Students \cap Staff = {}
  /\ Faculty \cap Staff = {} /\ Admins \subseteq Staff
ASSUME NoRowAssumption ==
  None \notin Assignment \cup Job \cup Users \cup Departments \cup Ids

VARIABLES
  pc,          \* the call a request makes next
  job,         \* the request being served
  read,        \* the department it read of the student or the mentor
  own,         \* the department it read of the coordinator
  internships, \* created_by of an internship, by student: UNIQUE student_id
  reported,    \* students with a report
  dept,        \* users.department; nobody looks at an admin's
  assignments, \* mentor_assignments
  feedback,    \* faculty's feedback: <<student, given_by>>
  moved,       \* history: requests with a user moved while they were served
  issued       \* requests accepted so far (bounded by MaxRequests)

request == <<pc, job, read, own, moved, issued>>
tables == <<internships, reported, dept, assignments, feedback>>
vars == <<request, tables>>

Steps == {"student", "enroller", "enroll", "faculty", "assigner", "internship",
          "assign", "report", "mentor", "feedback"}

TypeOK ==
  /\ internships \in [Students -> Staff \cup {None}]
  /\ reported \subseteq Students
  /\ pc \in [Requests -> Steps \cup {"idle"}]
  /\ job \in [Requests -> Job \cup {None}]
  /\ read \in [Requests -> Department]
  /\ own \in [Requests -> Department]
  /\ moved \subseteq Requests
  /\ dept \in [Movable -> Department]
  /\ assignments \in [Ids -> Assignment \cup {None}]
  /\ feedback \subseteq Students \X Faculty
  /\ issued \in 0..MaxRequests

Init ==
  /\ internships = [s \in Students |-> None]
  /\ reported = {}
  /\ pc = [r \in Requests |-> "idle"]
  /\ job = [r \in Requests |-> None]
  /\ read = [r \in Requests |-> None]
  /\ own = [r \in Requests |-> None]
  /\ moved = {}
  /\ dept = [u \in Movable |-> None]
  /\ assignments = [i \in Ids |-> None]
  /\ feedback = {}
  /\ issued = 0

-----------------------------------------------------------------------------
(* Requests.                                                               *)

\* Whose departments a request rests on.
Party(j) == IF j.kind = "feedback" THEN {} ELSE {j.by, j.on, j.mentor} \ {None}
At(r, step) == pc[r] = step
Goto(r, step) ==
  /\ pc' = [pc EXCEPT ![r] = step]
  /\ UNCHANGED <<job, read, own, moved, issued>>

Finish(r) ==
  /\ pc' = [pc EXCEPT ![r] = "idle"]
  /\ job' = [job EXCEPT ![r] = None]
  /\ read' = [read EXCEPT ![r] = None]
  /\ own' = [own EXCEPT ![r] = None]
  /\ moved' = moved \ {r}
  /\ UNCHANGED issued

\* The routes let coordinators and admins enrol and assign, and faculty
\* comment (admins too, whom no assignment ever names).
Accept(r, j) ==
  /\ At(r, "idle")
  /\ \/ j.kind = "enroll" /\ j.by \in Staff /\ j.mentor = None
     \/ j.kind = "assign" /\ j.by \in Staff /\ j.on \in Students /\ j.mentor # None
     \/ j.kind = "feedback" /\ j.by \in Faculty /\ j.on \in Students /\ j.mentor = None
  /\ issued < MaxRequests
  /\ issued' = issued + 1
  /\ pc' = [pc EXCEPT ![r] = CASE j.kind = "enroll" -> "student"
                               [] j.kind = "assign" -> "faculty"
                               [] j.kind = "feedback" -> "report"]
  /\ job' = [job EXCEPT ![r] = j]
  /\ UNCHANGED <<read, own, moved, tables>>

\* A read fails, a check refuses, or a write fails without effect.
Fail(r) ==
  /\ pc[r] \in Steps
  /\ Finish(r)
  /\ UNCHANGED tables

\* The server stops and starts again.
Crash ==
  /\ pc' = [r \in Requests |-> "idle"]
  /\ job' = [r \in Requests |-> None]
  /\ read' = [r \in Requests |-> None]
  /\ own' = [r \in Requests |-> None]
  /\ moved' = {}
  /\ UNCHANGED <<issued, tables>>

-----------------------------------------------------------------------------
(* EnrollStudent.                                                          *)

\* FindByID of the student, who must be one.
FindStudent(r) ==
  /\ At(r, "student")
  /\ job[r].on \in Students
  /\ read' = [read EXCEPT ![r] = dept[job[r].on]]
  /\ pc' = [pc EXCEPT ![r] = "enroller"]
  /\ UNCHANGED <<job, own, moved, issued, tables>>

\* Mutant: an empty department equals an empty department.
FindEnrollerLoose(r) ==
  /\ At(r, "enroller")
  /\ job[r].by \notin Admins => read[r] = dept[job[r].by]
  /\ Goto(r, "enroll")
  /\ UNCHANGED tables

\* FindByID of who enrols: an admin, or a coordinator of the department.
FindEnroller(r) ==
  /\ At(r, "enroller")
  /\ job[r].by \notin Admins =>
       dept[job[r].by] # None /\ read[r] = dept[job[r].by]
  /\ Goto(r, "enroll")
  /\ UNCHANGED tables

\* Mutant: an enrolment replaces an earlier one.
EnrollUpsert(r) ==
  /\ At(r, "enroll")
  /\ internships' = [internships EXCEPT ![job[r].on] = job[r].by]
  /\ Finish(r)
  /\ UNCHANGED <<reported, dept, assignments, feedback>>

\* internshipRepo.Create.  A second internship of a student, an end date not
\* after the start and any failure all get the answer "already has one".
Enroll(r) ==
  /\ At(r, "enroll")
  /\ internships[job[r].on] = None
  /\ internships' = [internships EXCEPT ![job[r].on] = job[r].by]
  /\ Finish(r)
  /\ UNCHANGED <<reported, dept, assignments, feedback>>

-----------------------------------------------------------------------------
(* AssignFacultyMentor and ApproveStudent.                                 *)

FindFaculty(r) ==
  /\ At(r, "faculty")
  /\ job[r].mentor \in Faculty
  /\ read' = [read EXCEPT ![r] = dept[job[r].mentor]]
  /\ pc' = [pc EXCEPT ![r] = "assigner"]
  /\ UNCHANGED <<job, own, moved, issued, tables>>

\* An admin goes straight to the INSERT, whatever the internship.
FindAssigner(r) ==
  /\ At(r, "assigner")
  /\ IF job[r].by \in Admins
       THEN Goto(r, "assign")
       ELSE /\ own' = [own EXCEPT ![r] = dept[job[r].by]]
            /\ pc' = [pc EXCEPT ![r] = "internship"]
            /\ UNCHANGED <<job, read, moved, issued>>
  /\ UNCHANGED tables

\* The internship, joined with its student's department.
FindInternship(r) ==
  /\ At(r, "internship")
  /\ internships[job[r].on] # None
  /\ own[r] # None
  /\ dept[job[r].on] = own[r]
  /\ read[r] = own[r]
  /\ Goto(r, "assign")
  /\ UNCHANGED tables

\* Mutant: the assigner's id is written for the mentor's.
AssignSwapped(r) ==
  /\ At(r, "assign")
  /\ internships[job[r].on] # None
  /\ \E i \in Ids :
       /\ assignments[i] = None
       /\ assignments' = [assignments EXCEPT ![i] =
            [student |-> job[r].on, faculty |-> job[r].by, approved |-> None]]
  /\ Finish(r)
  /\ UNCHANGED <<internships, reported, dept, feedback>>

\* The INSERT looks at no other assignment; a foreign key wants the internship.
Assign(r) ==
  /\ At(r, "assign")
  /\ internships[job[r].on] # None
  /\ \E i \in Ids :
       /\ assignments[i] = None
       /\ assignments' = [assignments EXCEPT ![i] =
            [student |-> job[r].on, faculty |-> job[r].mentor, approved |-> None]]
  /\ Finish(r)
  /\ UNCHANGED <<internships, reported, dept, feedback>>

\* ApproveStudent by faculty f, one UPDATE: WHERE id AND faculty_mentor_id,
\* as often as one likes.
Approve(f, i) ==
  /\ assignments[i] # None
  /\ assignments[i].faculty = f
  /\ assignments' = [assignments EXCEPT ![i].approved = f]
  /\ UNCHANGED <<internships, reported, request, dept, feedback>>

-----------------------------------------------------------------------------
(* SubmitFacultyFeedback and UpdateUserProfile.                            *)

FindReport(r) ==
  /\ At(r, "report")
  /\ job[r].on \in reported
  /\ Goto(r, "mentor")
  /\ UNCHANGED tables

\* Mutant: whoever mentors the internship, the comment is taken.
FindMentorOfAny(r) ==
  /\ At(r, "mentor")
  /\ \E i \in Ids : assignments[i] # None
  /\ Goto(r, "feedback")
  /\ UNCHANGED tables

\* FindByInternshipID answers any one of the internship's assignments.
FindMentor(r) ==
  /\ At(r, "mentor")
  /\ \E i \in Ids :
       /\ assignments[i] # None
       /\ assignments[i].student = job[r].on
       /\ assignments[i].faculty = job[r].by
  /\ Goto(r, "feedback")
  /\ UNCHANGED tables

GiveFeedback(r) ==
  /\ At(r, "feedback")
  /\ feedback' = feedback \cup {<<job[r].on, job[r].by>>}
  /\ Finish(r)
  /\ UNCHANGED <<internships, reported, dept, assignments>>

\* The student submits a first report (ReportFlow has its steps).
Submit(s) ==
  /\ internships[s] # None
  /\ reported' = reported \cup {s}
  /\ UNCHANGED <<request, internships, dept, assignments, feedback>>

\* UpdateProfileFields sets one column, without a look at the coordinators
\* and requests that rest on it.  The audit row that follows is left out.
UpdateProfile(u) ==
  /\ \E d \in Department \ {dept[u]} : dept' = [dept EXCEPT ![u] = d]
  /\ moved' = moved \cup {r \in Requests : job[r] # None /\ u \in Party(job[r])}
  /\ UNCHANGED <<internships, reported, pc, job, read, own, issued, assignments, feedback>>

Serve(r) ==
  \/ FindStudent(r) \/ FindEnroller(r) \/ Enroll(r)
  \/ FindFaculty(r) \/ FindAssigner(r) \/ FindInternship(r) \/ Assign(r)
  \/ FindReport(r) \/ FindMentor(r) \/ GiveFeedback(r)

Next ==
  \/ \E r \in Requests :
       \/ \E j \in Job : Accept(r, j)
       \/ Serve(r)
       \/ Fail(r)
  \/ \E f \in Faculty, i \in Ids : Approve(f, i)
  \/ \E u \in Movable : UpdateProfile(u)
  \/ Crash
  \/ \E s \in Students : Submit(s)

Spec == Init /\ [][Next]_vars

-----------------------------------------------------------------------------
(* Properties.                                                             *)

\* Request r writes its row: an internship, an assignment.
Enrols(r) == At(r, "enroll") /\ pc'[r] = "idle" /\ internships' # internships
Assigns(r) == At(r, "assign") /\ pc'[r] = "idle" /\ assignments' # assignments

\* Departments are read in two or three calls and written in one more.  A
\* coordinator still enrols a student, or gives one a mentor, only where all
\* of them are in one, non-empty department, unless one of them was moved
\* while the request was served.
OwnDepartment ==
  [][\A r \in Requests : Enrols(r) \/ Assigns(r) =>
       \/ job[r].by \in Admins
       \/ r \in moved
       \/ \E d \in Departments : \A u \in Party(job[r]) : dept[u] = d]_vars

\* Racing enrolments of a student leave the first one's internship, which
\* reports, mentors and marks refer to, as it is.
InternshipStays ==
  [][\A s \in Students : internships[s] # None =>
       internships'[s] = internships[s]]_vars

\* However assignments, approvals and comments interleave, feedback is by a
\* mentor of that internship, which exists, and an approval by the mentor
\* approved (internship_service.go:186 lets an internship have several).
MentorsOnly ==
  /\ \A f \in feedback : \E i \in Ids :
       assignments[i] # None /\ f = <<assignments[i].student, assignments[i].faculty>>
  /\ \A i \in Ids : assignments[i] # None =>
       /\ internships[assignments[i].student] # None
       /\ assignments[i].approved \in {None, assignments[i].faculty}

=============================================================================
