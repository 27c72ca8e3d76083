SPECIFICATION Spec
CONSTANTS
  Requests = {r1, r2}
  Internships = {i1, i2}
  ExamTypes = {ISE}
  Faculty = {f1}
  Admins = {a1}
  Marks = {m1}
  Schedules = {s1}
  MaxConns = 2
  MaxRequests = 3
  None = None
  Empty = Empty
  Mixed = Mixed
INVARIANTS
  AuditRowIsFine
