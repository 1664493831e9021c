SPECIFICATION Spec
CONSTANTS
  j1 = j1
  j2 = j2
  e1 = e1
  d1 = d1
  d2 = d2
  Jobs = {j1}
  Specs <- Cadences
  Day = 3
  Daemons = {d1, d2}
  Editors = {e1}
  MaxTime = 4
  MaxEdits = 2
  MaxCrashes = 1
INVARIANTS
  TypeOK
  
  OncePerSlot
PROPERTIES
  Rescheduled
CHECK_DEADLOCK FALSE
