---------------------------- MODULE RemindersProofs ----------------------------
(***************************************************************************)
(* Theorems of Reminders, for any students, start dates and lengths of a   *)
(* day and a week.                                                         *)
(***************************************************************************)
EXTENDS Reminders, TLAPS

-----------------------------------------------------------------------------
(* Arithmetic.                                                             *)

LEMMA LessThanScaled ==
  ASSUME NEW a \in Int, NEW b \in Int, NEW d \in Nat \ {0}, a * d < b * d
  PROVE  a < b
<1> SUFFICES ASSUME a >= b PROVE FALSE
  OBVIOUS
<1>1. PICK k \in Nat : a = b + k
  <2>1. a - b \in Nat
    OBVIOUS
  <2> QED
    BY <2>1
<1>2. a * d = b * d + k * d
  BY <1>1
<1>3. k * d >= 0
  OBVIOUS
<1> QED
  BY <1>2, <1>3

\* The quotient of a week: w - 1 means at least (w - 1) weeks after the
\* start, or less than a week before it, and less than w weeks after it.
LEMMA QuotientRange ==
  ASSUME NEW a \in Int, NEW b \in Nat \ {0}, NEW q \in Nat, Quotient(a, b) = q
  PROVE  /\ a < (q + 1) * b
         /\ q = 0 => a > -b
         /\ q # 0 => a >= q * b
<1>1. CASE a >= 0
  <2>1. q = a \div b
    BY <1>1 DEF Quotient
  <2>2. q * b <= a /\ a < (q + 1) * b
    BY <1>1, <2>1
  <2> QED
    BY <1>1, <2>2
<1>2. CASE a < 0
  <2> DEFINE c == -a
  <2>1. c \in Nat /\ c > 0 /\ q = -(c \div b)
    BY <1>2 DEF Quotient
  <2>2. (c \div b) \in Int /\ c \div b >= 0 /\ c < ((c \div b) + 1) * b
    BY <2>1
  <2>3. c \div b = 0 /\ q = 0
    BY <2>1, <2>2
  <2> QED
    BY <1>2, <2>2, <2>3
<1> QED
  BY <1>1, <1>2

-----------------------------------------------------------------------------
(* The inductive invariant.                                                *)

\* When week w of an internship that starts on a begins, as the worker sees
\* it, and how long it lasts for it.
First(w, a) == IF w = 1 THEN a - Week + 1 ELSE a + (w - 1) * Week
Days(w) == IF w = 1 THEN 2 * DaysPerWeek ELSE DaysPerWeek

\* The reminders of p, a day apart, fit between its first day and the next
\* round, and if this round may still send one, the clock.
Count(p) ==
  /\ reminded[p] <= Days(p[2])
  /\ reminded[p] > 0 =>
       /\ start[p[1]] # None
       /\ First(p[2], start[p[1]]) + reminded[p] * Day <= wake
       /\ p[1] \in todo \/ due = p =>
            First(p[2], start[p[1]]) + reminded[p] * Day <= clock

Round ==
  /\ clock <= wake /\ wake <= clock + Day
  /\ ~ Idle => wake = clock + Day
  /\ \A s \in todo : start[s] # None
  /\ due # None =>
       /\ due \notin before
       /\ due[1] \notin todo
       /\ start[due[1]] # None
       /\ due[2] = WeekOf(due[1])

IInv ==
  /\ TypeOK
  /\ Round
  /\ \A p \in Period : Count(p)

LEMMA WeekIsNat == Week \in Nat \ {0}
<1>1. DaysPerWeek * Day > 0
  <2>1. PICK k \in Nat : DaysPerWeek = k + 1
    BY ClockAssumption
  <2>2. DaysPerWeek * Day = k * Day + Day /\ k * Day >= 0
    BY <2>1, ClockAssumption
  <2> QED
    BY <2>2, ClockAssumption
<1> QED
  BY <1>1, ClockAssumption DEF Week

LEMMA FirstIsInt ==
  ASSUME NEW p \in Period, NEW a \in Starts
  PROVE  First(p[2], a) \in Int /\ Days(p[2]) \in Nat \ {0}
<1>1. p[2] \in Nat /\ a \in Int /\ Week \in Int
  BY ClockAssumption, WeekIsNat DEF Period
<1>2. (p[2] - 1) * Week \in Int
  BY <1>1
<1> QED
  BY <1>1, <1>2, ClockAssumption DEF First, Days

\* While the worker sees week w the clock is inside it.
LEMMA InsideWeek ==
  ASSUME NEW a \in Int, NEW c \in Int, NEW w \in Nat \ {0},
         w = Quotient(c - a, Week) + 1
  PROVE  First(w, a) <= c /\ c < First(w, a) + Days(w) * Day
<1>1. PICK W \in Nat \ {0} : W = Week
  BY WeekIsNat
<1>2. PICK x \in Int : x = c - a
  OBVIOUS
<1>3. PICK q \in Nat : q = w - 1
  OBVIOUS
<1>4. Quotient(x, W) = q
  <2>1. Quotient(x, W) \in Int
    <3>1. x \div W \in Int /\ -((-x) \div W) \in Int
      OBVIOUS
    <3> QED
      BY <3>1 DEF Quotient
  <2> QED
    BY <1>1, <1>2, <1>3, <2>1
<1>5. /\ x < (q + 1) * W
      /\ q = 0 => x > -W
      /\ q # 0 => x >= q * W
  BY <1>4, QuotientRange
<1>6. W = DaysPerWeek * Day /\ DaysPerWeek \in Nat /\ Day \in Nat
  BY <1>1, ClockAssumption DEF Week
<1>7. CASE q = 0
  <2>1. x > -W /\ x < W
    <3>1. (0 + 1) * W = W
      OBVIOUS
    <3> QED
      BY <1>5, <1>7, <3>1
  <2>2. w = 1 /\ First(w, a) = a - W + 1
    BY <1>1, <1>3, <1>7 DEF First
  <2>3. Days(w) * Day = W + W
    <3>1. (2 * DaysPerWeek) * Day = DaysPerWeek * Day + DaysPerWeek * Day
      BY <1>6
    <3> QED
      BY <1>6, <2>2, <3>1 DEF Days
  <2> QED
    BY <1>2, <2>1, <2>2, <2>3
<1>8. CASE q # 0
  <2>1. First(w, a) = a + q * W /\ q * W \in Int
    <3>1. w # 1
      BY <1>3, <1>8
    <3> QED
      BY <1>1, <1>3, <3>1 DEF First
  <2>2. (q + 1) * W = q * W + W
    OBVIOUS
  <2>3. Days(w) * Day = W
    BY <1>3, <1>6, <1>8 DEF Days
  <2> QED
    BY <1>2, <1>5, <1>8, <2>1, <2>2, <2>3
<1> QED
  BY <1>7, <1>8

LEMMA InitInv == Init => IInv
<1> SUFFICES ASSUME Init PROVE IInv
  OBVIOUS
<1> USE ClockAssumption DEF Init
<1>1. TypeOK
  BY DEF TypeOK
<1>2. Round
  BY DEF Round, Idle
<1>3. \A p \in Period : Count(p)
  BY DEF Count, Days
<1> QED
  BY <1>1, <1>2, <1>3 DEF IInv

LEMMA WakeInv ==
  ASSUME IInv, Wake
  PROVE  IInv'
<1> USE ClockAssumption DEF IInv, Wake, Idle, Enrolled
<1>1. TypeOK'
  BY DEF TypeOK
<1>2. Round'
  BY DEF Round, TypeOK
<1>3. \A p \in Period : Count(p)'
  <2> SUFFICES ASSUME NEW p \in Period, reminded[p] > 0 PROVE Count(p)'
    BY DEF Count, TypeOK
  <2>1. start[p[1]] \in Starts /\ First(p[2], start[p[1]]) \in Int
    BY FirstIsInt DEF Count, TypeOK, Period
  <2>2. reminded[p] * Day \in Int
    BY DEF TypeOK
  <2>3. First(p[2], start[p[1]]) + reminded[p] * Day <= clock
    BY DEF Count, TypeOK
  <2> QED
    BY <2>1, <2>2, <2>3 DEF Count, TypeOK
<1> QED
  BY <1>1, <1>2, <1>3

LEMMA CheckInv ==
  ASSUME IInv, NEW s \in Students, Check(s)
  PROVE  IInv'
<1> USE ClockAssumption, NoneAssumption DEF IInv, Check, Idle
<1>1. TypeOK'
  BY DEF TypeOK, Period
<1>2. Round'
  BY DEF Round, TypeOK, WeekOf
<1>3. \A p \in Period : Count(p)'
  <2> SUFFICES ASSUME NEW p \in Period PROVE Count(p)'
    OBVIOUS
  <2>1. p[1] \in todo' \/ due' = p => p[1] \in todo
    OBVIOUS
  <2> QED
    BY <2>1 DEF Count
<1> QED
  BY <1>1, <1>2, <1>3

LEMMA RemindInv ==
  ASSUME IInv, Remind
  PROVE  IInv'
<1> USE ClockAssumption, NoneAssumption DEF IInv
<1>p. PICK p \in Period : p = due
  BY DEF Remind, TypeOK
<1> DEFINE n == reminded[p]
           F == First(p[2], start[p[1]])
<1>a. /\ due = p /\ p # None /\ due' = None /\ n \in Nat
      /\ \/ reminded' = [reminded EXCEPT ![p] = n + 1]
         \/ reminded' = reminded
      /\ UNCHANGED <<start, reports, clock, wake, todo, before>>
  BY <1>p DEF Remind, TypeOK
<1>b. /\ start[p[1]] \in Starts /\ p[2] \in 1..Weeks /\ p[2] = WeekOf(p[1])
      /\ wake = clock + Day /\ p[1] \notin todo
      /\ clock \in Nat
  BY <1>a DEF Round, TypeOK, Period, Idle, Time
<1>c. F \in Int /\ Days(p[2]) \in Nat \ {0} /\ n * Day \in Int
  <2>1. F \in Int /\ Days(p[2]) \in Nat \ {0}
    BY <1>b, FirstIsInt
  <2>2. n * Day \in Int
    BY <1>a
  <2> QED
    BY <2>1, <2>2
<1>d. F <= clock /\ clock < F + Days(p[2]) * Day
  <2>1. PICK a \in Int : a = start[p[1]]
    BY <1>b
  <2>2. PICK w \in Nat \ {0} : w = p[2]
    BY <1>b
  <2>3. w = Quotient(clock - a, Week) + 1
    BY <1>b, <2>1, <2>2 DEF WeekOf
  <2>4. First(w, a) <= clock /\ clock < First(w, a) + Days(w) * Day
    BY <1>b, <2>3, InsideWeek
  <2> QED
    BY <2>1, <2>2, <2>4
<1>e. n + 1 <= Days(p[2])
  <2>1. CASE n = 0
    BY <2>1, <1>c
  <2>2. CASE n > 0
    <3>1. F + n * Day <= clock
      BY <1>a, <2>2 DEF Count
    <3>2. Days(p[2]) * Day \in Int
      BY <1>c
    <3>3. n * Day < Days(p[2]) * Day
      BY <3>1, <3>2, <1>b, <1>c, <1>d
    <3>4. n < Days(p[2])
      BY <3>3, <1>a, <1>c, LessThanScaled
    <3> QED
      BY <3>4, <1>a, <1>c
  <2> QED
    BY <2>1, <2>2, <1>a
<1>f. F + (n + 1) * Day <= wake
  <2>1. (n + 1) * Day = n * Day + Day
    BY <1>a
  <2>2. F + n * Day <= clock
    <3>1. CASE n = 0
      BY <3>1, <1>c, <1>d
    <3>2. CASE n > 0
      BY <3>2, <1>a DEF Count
    <3> QED
      BY <3>1, <3>2, <1>a
  <2> QED
    BY <2>1, <2>2, <1>b, <1>c
<1>1. TypeOK'
  <2>1. reminded' \in [Period -> Nat]
    BY <1>a DEF TypeOK
  <2> QED
    BY <1>a, <2>1 DEF TypeOK
<1>2. Round'
  BY <1>a, <1>b DEF Round, Idle, TypeOK, Time
<1>3. \A x \in Period : Count(x)'
  <2> SUFFICES ASSUME NEW x \in Period PROVE Count(x)'
    OBVIOUS
  <2>1. CASE x # p \/ reminded' = reminded
    <3>1. reminded'[x] = reminded[x]
      BY <2>1, <1>a DEF TypeOK
    <3>2. p[1] \in todo' <=> p[1] \in todo
      BY <1>a
    <3> QED
      BY <3>1, <1>a DEF Count
  <2>2. CASE x = p /\ reminded' # reminded
    <3>1. reminded'[x] = n + 1
      BY <2>2, <1>a DEF TypeOK
    <3> HIDE DEF n
    <3> QED
      BY <2>2, <3>1, <1>a, <1>b, <1>e, <1>f DEF Count
  <2> QED
    BY <2>1, <2>2
<1> QED
  BY <1>1, <1>2, <1>3

LEMMA RestartInv ==
  ASSUME IInv, Restart
  PROVE  IInv'
<1> USE ClockAssumption DEF IInv, Restart
<1>1. TypeOK'
  BY DEF TypeOK, Time
<1>2. Round'
  BY DEF Round, Idle, TypeOK, Time
<1>3. \A p \in Period : Count(p)'
  <2> SUFFICES ASSUME NEW p \in Period, reminded[p] > 0 PROVE Count(p)'
    BY DEF Count, TypeOK
  <2>1. start[p[1]] \in Starts /\ First(p[2], start[p[1]]) \in Int
    BY FirstIsInt DEF Count, TypeOK, Period
  <2>2. reminded[p] * Day \in Int /\ p # None
    BY NoneAssumption DEF TypeOK
  <2>3. First(p[2], start[p[1]]) + reminded[p] * Day <= wake
    BY DEF Count
  <2>4. wake <= wake'
    BY DEF Round
  <2> QED
    BY <2>1, <2>2, <2>3, <2>4 DEF Count, TypeOK
<1> QED
  BY <1>1, <1>2, <1>3

LEMMA ElapseInv ==
  ASSUME IInv, Elapse
  PROVE  IInv'
<1> USE ClockAssumption, NoneAssumption DEF IInv, Elapse, Idle, worker
<1>1. TypeOK'
  BY DEF TypeOK, Time
<1>2. Round'
  BY DEF Round, TypeOK, Time
<1>3. \A p \in Period : Count(p)'
  BY DEF Count
<1> QED
  BY <1>1, <1>2, <1>3

LEMMA EnrollInv ==
  ASSUME IInv, NEW s \in Students, Enroll(s)
  PROVE  IInv'
<1>1. PICK d \in Starts : start' = [start EXCEPT ![s] = d] /\ start[s] = None
  BY DEF Enroll
<1>2. \A x \in Students : start[x] # None => start'[x] = start[x]
  BY <1>1 DEF IInv, TypeOK
<1>3. UNCHANGED <<reports, clock, wake, todo, due, reminded, before>>
  BY DEF Enroll, worker
<1> USE DEF IInv
<1>4. TypeOK'
  BY <1>1, <1>3 DEF TypeOK
<1>5. Round'
  BY <1>2, <1>3 DEF Round, Idle, TypeOK, Period, WeekOf
<1>6. \A p \in Period : Count(p)'
  BY <1>2, <1>3 DEF Count, Period
<1> QED
  BY <1>4, <1>5, <1>6

LEMMA SubmitInv ==
  ASSUME IInv, NEW p \in Period, Submit(p)
  PROVE  IInv'
<1> USE DEF IInv, Submit, worker
<1>1. TypeOK'
  BY DEF TypeOK
<1>2. Round'
  BY DEF Round, Idle, WeekOf
<1>3. \A x \in Period : Count(x)'
  BY DEF Count
<1> QED
  BY <1>1, <1>2, <1>3

LEMMA StepInv == IInv /\ [Next]_vars => IInv'
<1> SUFFICES ASSUME IInv, [Next]_vars PROVE IInv'
  OBVIOUS
<1>1. CASE UNCHANGED vars
  BY <1>1 DEF vars, worker, IInv, TypeOK, Round, Idle, WeekOf, Count
<1>2. CASE Wake
  BY <1>2, WakeInv
<1>3. ASSUME NEW s \in Students, Check(s) \/ Enroll(s) PROVE IInv'
  BY <1>3, CheckInv, EnrollInv
<1>4. CASE Remind \/ Restart \/ Elapse
  BY <1>4, RemindInv, RestartInv, ElapseInv
<1>5. ASSUME NEW p \in Period, Submit(p) PROVE IInv'
  BY <1>5, SubmitInv
<1> QED
  BY <1>1, <1>2, <1>3, <1>4, <1>5 DEF Next

LEMMA Invariance == Spec => []IInv
BY InitInv, StepInv, PTL DEF Spec

-----------------------------------------------------------------------------

\* The clock, the ticker and the tables keep their types.
THEOREM TypeCorrect == Spec => []TypeOK
<1>1. IInv => TypeOK
  BY DEF IInv
<1> QED
  BY <1>1, Invariance, PTL

\* At most one reminder a day of a week, and two weeks' worth of the first.
THEOREM RemindersBounded == Spec => []RemindersPerWeek
<1>1. IInv => RemindersPerWeek
  BY DEF IInv, Count, Days, RemindersPerWeek
<1> QED
  BY <1>1, Invariance, PTL

\* What a round reminds of was missing when the round began.
THEOREM MissingWhenReminded == Spec => []RemindedWhileMissing
<1>1. IInv => RemindedWhileMissing
  BY DEF IInv, Round, RemindedWhileMissing
<1> QED
  BY <1>1, Invariance, PTL

=============================================================================
