SPECIFICATION Spec
CONSTANTS
  init = init
  c1 = c1
  c2 = c2
  Calls = {init, c1, c2}
  Initialize = init
  Kinds = {"stdio"}
  AskingKinds = {"stdio"}
  MaxSyncs = 2
  Queries = {c1}
  Stamped = TRUE
  Waiting = Waiting
  Nothing = Nothing
PROPERTIES
  CallsAreKept
CHECK_DEADLOCK FALSE
