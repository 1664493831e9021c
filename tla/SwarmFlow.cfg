SPECIFICATION Spec
CONSTANTS
  a = a
  b = b
  c = c
  k1 = k1
  Lanes = {a, b, c}
  DependsOn <- OnFirst
  Controllers = {k1}
  Cap = 1
  NoCap = NoCap
  MaxCost = 1
  MaxConcurrency = 2
  MaxAttempts = 2
  Graded = FALSE
  SelfHeal = TRUE
  VerifyMerge = TRUE
  MaxCalls = 2
  MaxWrites = 3
INVARIANTS
  TypeOK
  CancelledNeverWorks
  SpendBound
  
PROPERTIES
  CallsEnd
CHECK_DEADLOCK FALSE
