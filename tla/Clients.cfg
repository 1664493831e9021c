SPECIFICATION Spec
CONSTANTS
  init = init
  c1 = c1
  c2 = c2
  Calls = {init, c1, c2}
  Initialize = init
  Kinds = {"stdio", "http", "lsp"}
  AskingKinds = {"lsp"}
  MaxSyncs = 2
  Queries = {c1}
  Stamped = TRUE
  Waiting = Waiting
  Nothing = Nothing
INVARIANTS
  TypeOK
  NeverLeaksServer
  
PROPERTIES
  CallsAreKept
  Settles
CHECK_DEADLOCK FALSE
