SPECIFICATION Spec
CONSTANTS
    Workflows <- TwoCommands
    Commands <- MCCommands
    Tools = {"edit", "tsc", "rm"}
    GateOf <- MCGate
    Configured = {"test"}
    Typecheck = {"tsc"}
    Fronts = {TRUE, FALSE}
    HasCap = TRUE
    Cap = 3
    Costs = {0, 2}
    MaxCost = 2
    MeshMode = "auto"
    MaxIterations = 2
    MaxToolCalls = 2
    MaxStale = 1
PROPERTY
    CancelUnblocks
