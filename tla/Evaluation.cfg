SPECIFICATION Spec
CONSTANTS
  Requests = {r1, r2}
  Internships = {i1}
  ExamTypes = {ISE}
  Faculty = {f1, f2}
  Admins = {a1}
  Marks = {m1, m2}
  Schedules = {s1, s2}
  MaxConns = 2
  MaxRequests = 4
  None = None
  Empty = Empty
  Mixed = Mixed
SYMMETRY Symmetry
INVARIANTS
  TypeOK
  HistoryMatchesScore
  MarksheetUnlessFailed
  AuditNeverAhead
  ScoredByMentor
  OnlyThePoolBlocks
PROPERTIES
  CorrectionExact
  OkSubmitKept
  OkMeansFreshPdf
  ImplementsLedger
