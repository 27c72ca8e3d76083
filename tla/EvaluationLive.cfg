SPECIFICATION FairSpec
CONSTANTS
  Requests = {r1, r2}
  Internships = {i1}
  ExamTypes = {ISE, ESE}
  Faculty = {f1}
  Admins = {a1}
  Marks = {m1}
  Schedules = {s1}
  MaxConns = 3
  MaxRequests = 3
  None = None
  Empty = Empty
  Mixed = Mixed
INVARIANTS
  PdfWasLive
PROPERTIES
  EveryRequestAnswered
