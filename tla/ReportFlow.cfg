SPECIFICATION Spec
SYMMETRY Symmetry
CONSTANTS
  Requests = {r1, r2}
  Periods = {week1, week2}
  Contents = {c1, c2}
  Window = 1
  Expiry = 1
  MaxHour = 2
  MaxRequests = 3
  None = None
INVARIANTS
  TypeOK
  CreatedOnce
  MailsMatchReport
  LinkUnlessFailed
PROPERTIES
  ImplementsFiling
