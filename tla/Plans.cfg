SPECIFICATION Spec
CONSTANTS
  s1 = s1
  s2 = s2
  N = 2
  Shells = {s1, s2}
  Shapes <- AllShapes
  MaxResumes = 2
  MaxFaults = 1
SYMMETRY Symmetry
INVARIANTS
  TypeOK
  
  
PROPERTIES
  NotRedone
CHECK_DEADLOCK FALSE
