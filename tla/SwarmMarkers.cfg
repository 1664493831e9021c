SPECIFICATION Spec
CONSTANTS
    a = a
    b = b
    c = c
    d = d
    Merge = Merge
    Lanes = {a, b, c, d}
    Plans <- MCPlans
    DependsOn <- MCDependsOn
    When <- MCWhen
    Ceiling = 2
    MaxConcurrency = 2
    Healer = TRUE
    Gate = TRUE
    MaxCalls = 2
INVARIANT ConflictsLeftOut
