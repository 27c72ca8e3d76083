SPECIFICATION Spec
SYMMETRY Symmetry
CONSTANTS
  Requests = {r1, r2}
  People = {p1}
  Names = {n1, n2}
  Users = {u1, u2, u3}
  Links = {l1}
  Expiry = 0
  MaxTime = 1
  MaxRequests = 3
  None = None
INVARIANTS
  LinkSignsInOnce
