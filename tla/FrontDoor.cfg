SPECIFICATION Spec
SYMMETRY Symmetry
CONSTANTS
  Requests = {r1, r2}
  Clients = {c1}
  Users = {u1}
  Roles = {STUDENT, COORDINATOR}
  Sessions = {s1}
  AccessTTL = 1
  RefreshTTL = 2
  Minute = 1
  Limit = 2
  MaxTime = 3
  MaxChanges = 1
  MaxRequests = 4
  None = None
INVARIANTS
  TypeOK
  LoggedOutStaysOut
  RoleNotOlder
  AtMostLimit
