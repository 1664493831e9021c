SPECIFICATION Spec
CONSTANTS
    Terminals = {t1}
    Plans <- MCPlans
    Additions <- MCAdditions
    Stronger = {"parallelize"}
    Budgets = {4}
    NoBudget = NoBudget
    Costs = {2}
    MaxCost = 2
    MaxSteps = 3
    MaxAttempts = 2
    MaxGrown = 4
    MaxLaunches = 2
    NoMission = NoMission
    Torn = Torn
INVARIANTS
    TypeOK
    DependenciesFirst
    
    
    NoStrandedSteps
    SplicesAreAccepted
PROPERTIES
    Terminates
