------------------------------ MODULE Reminders ------------------------------
(***************************************************************************)
(* The weekly reminders: internal/jobs/reminder_worker.go over the         *)
(* internships and reports tables.                                         *)
(*                                                                         *)
(* Once a day the worker lists the internships and, for each, works out    *)
(* the current week, looks for its report and queues a mail when there is  *)
(* none.  Reports arrive between any two of these calls.                   *)
(***************************************************************************)
EXTENDS Integers

CONSTANTS
  Students,    \* student accounts; an internship goes by its student
  Starts,      \* start dates, in clock units
  Day,         \* clock units in a day
  DaysPerWeek, \* seven
  Weeks,       \* the last week of a report: 16
  MaxTime,     \* bound: the clock stops there
  None         \* no row

Time == 0..MaxTime
Week == Day * DaysPerWeek
Period == Students \X (1..Weeks)

ASSUME ClockAssumption ==
  /\ Day \in Nat \ {0} /\ DaysPerWeek \in Nat \ {0} /\ Weeks \in Nat \ {0}
  /\ Starts \subseteq Int /\ MaxTime \in Nat
ASSUME NoneAssumption == None \notin Starts \cup Period

VARIABLES
  start,       \* internships.start_date, by student
  reports,     \* weekly reports, by student and week
  clock,       \* time since the first start of the server
  wake,        \* when the ticker fires next
  todo,        \* students whose internship the round has not come to
  due,         \* the reminder the round is about to queue
  reminded,    \* reminders queued, by student and week
  before       \* history: the reports there were when the round began

worker == <<wake, todo, due>>
vars == <<start, reports, clock, worker, reminded, before>>

TypeOK ==
  /\ start \in [Students -> Starts \cup {None}]
  /\ reports \subseteq Period
  /\ clock \in 0..MaxTime
  /\ wake \in Nat
  /\ todo \subseteq Students
  /\ due \in Period \cup {None}
  /\ reminded \in [Period -> Nat]
  /\ before \subseteq reports

Init ==
  /\ start = [s \in Students |-> None]
  /\ reports = {}
  /\ clock = 0
  /\ wake = Day
  /\ todo = {}
  /\ due = None
  /\ reminded = [p \in Period |-> 0]
  /\ before = {}

Enrolled == {s \in Students : start[s] # None}
Idle == todo = {} /\ due = None

\* int() of a quotient drops its fraction: it rounds toward zero.
Quotient(a, b) == IF a >= 0 THEN a \div b ELSE -((-a) \div b)

\* int(time.Since(StartDate).Hours()/24/7) + 1
WeekOf(s) == Quotient(clock - start[s], Week) + 1

-----------------------------------------------------------------------------

\* Mutant: a round does not wait for the next day.
WakeAnyTime ==
  /\ Idle
  /\ todo' = Enrolled
  /\ before' = reports
  /\ UNCHANGED <<start, reports, clock, wake, due, reminded>>

\* The ticker fires; ListAll answers, or fails and the round is over.
Wake ==
  /\ Idle
  /\ clock = wake
  /\ wake' = clock + Day
  /\ todo' = Enrolled \/ todo' = {}
  /\ before' = reports
  /\ UNCHANGED <<start, reports, clock, due, reminded>>

\* Mutants: the week is not held against 1..Weeks; the report looked for is
\* that of the week before.
CheckUnbounded(s) ==
  /\ due = None
  /\ s \in todo
  /\ todo' = todo \ {s}
  /\ <<s, WeekOf(s)>> \notin reports
  /\ due' = <<s, WeekOf(s)>>
  /\ UNCHANGED <<start, reports, clock, wake, reminded, before>>

CheckWeekBefore(s) ==
  /\ due = None
  /\ s \in todo
  /\ todo' = todo \ {s}
  /\ WeekOf(s) \in 1..Weeks
  /\ <<s, WeekOf(s) - 1>> \notin reports
  /\ due' = <<s, WeekOf(s)>>
  /\ UNCHANGED <<start, reports, clock, wake, reminded, before>>

\* FindByInternshipTypeAndPeriod for the current week.  Outside 1..Weeks,
\* with a report, or when the query fails the internship is skipped.
Check(s) ==
  /\ due = None
  /\ s \in todo
  /\ todo' = todo \ {s}
  /\ \/ due' = None
     \/ /\ WeekOf(s) \in 1..Weeks
        /\ <<s, WeekOf(s)>> \notin reports
        /\ due' = <<s, WeekOf(s)>>
  /\ UNCHANGED <<start, reports, clock, wake, reminded, before>>

\* NotifyStudentWeeklyReminder; Enqueue can fail.
Remind ==
  /\ due # None
  /\ due' = None
  /\ \/ reminded' = [reminded EXCEPT ![due] = @ + 1]
     \/ UNCHANGED reminded
  /\ UNCHANGED <<start, reports, clock, wake, todo, before>>

\* The ticker starts anew with the process.
Restart ==
  /\ wake' = clock + Day
  /\ todo' = {}
  /\ due' = None
  /\ UNCHANGED <<start, reports, clock, reminded, before>>

\* Time passes; a round is over within the unit in which it began.
Elapse ==
  /\ Idle
  /\ clock < wake
  /\ clock < MaxTime
  /\ clock' = clock + 1
  /\ UNCHANGED <<start, reports, worker, reminded, before>>

\* EnrollStudent inserts an internship (Staffing has its steps).
Enroll(s) ==
  /\ start[s] = None
  /\ \E d \in Starts : start' = [start EXCEPT ![s] = d]
  /\ UNCHANGED <<reports, clock, worker, reminded, before>>

\* SubmitReport commits (ReportFlow has its steps).
Submit(p) ==
  /\ p \notin reports
  /\ start[p[1]] # None
  /\ reports' = reports \cup {p}
  /\ UNCHANGED <<start, clock, worker, reminded, before>>

Next ==
  \/ Wake
  \/ \E s \in Students : Check(s) \/ Enroll(s)
  \/ Remind
  \/ Restart
  \/ Elapse
  \/ \E p \in Period : Submit(p)

Spec == Init /\ [][Next]_vars

-----------------------------------------------------------------------------
(* Properties.                                                             *)

\* Crashes, restarts and rounding notwithstanding, a week is reminded of
\* once a day at most; only the first week, which int() also makes of the
\* week before the start, can be reminded of twice as often
\* (reminder_worker.go:57).
RemindersPerWeek ==
  \A p \in Period :
    reminded[p] <= (IF p[2] = 1 THEN 2 * DaysPerWeek ELSE DaysPerWeek)

\* A reminder can be late by one round, never by more: its report was still
\* missing when the round began (reminder_worker.go:62).
RemindedWhileMissing == due # None => due \notin before

=============================================================================
