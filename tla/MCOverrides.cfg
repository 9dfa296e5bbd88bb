\* Two registries with epochs of different lengths share the log.
SPECIFICATION Spec
CONSTANTS
    r1 = r1
    r2 = r2
    n1 = n1
    n2 = n2
    Registries = {r1, r2}
    Nullifiers = {n1, n2}
    Home <- MCHomes
    Cheats = {n2}
    Shares = {x1, x2}
    Honest = x1
    Validators = {v1}
    Refreshers = {}
    Provers = {q1}
    Configs <- Overridden
    StaleAfter = 2
    NudgeMin = 1
    ReadLimit = 0
    History = 1
    MaxHead = 0
    MaxTime = 2
    MaxCalls = 3
    None = None
PROPERTY ExactWhileFresh
CHECK_DEADLOCK FALSE
