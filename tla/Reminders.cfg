SPECIFICATION Spec
SYMMETRY Symmetry
CONSTANTS
  Students = {s1, s2}
  Starts <- StartDays
  Day = 2
  DaysPerWeek = 2
  Weeks = 2
  MaxTime = 8
  None = None
INVARIANTS
  TypeOK
  RemindersPerWeek
  RemindedWhileMissing
