SPECIFICATION Spec
CONSTANTS
  Requests = {r1, r2}
  Internships = {i1}
  ExamTypes = {ISE}
  Faculty = {f1}
  Admins = {a1}
  Marks = {m1, m2}
  Schedules = {s1}
  MaxConns = 3
  MaxRequests = 4
  None = None
  Empty = Empty
  Mixed = Mixed
PROPERTIES
  CorrectionReachesPdf
