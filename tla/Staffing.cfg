SPECIFICATION Spec
SYMMETRY Symmetry
CONSTANTS
  Requests = {r1, r2}
  Students = {s1}
  Faculty = {f1, f2}
  Staff = {c1, a1}
  Admins = {a1}
  Departments = {d1}
  Ids = {1, 2}
  MaxRequests = 3
  None = None
INVARIANTS
  TypeOK
  MentorsOnly
PROPERTIES
  OwnDepartment
  InternshipStays
