\* Two calls at a time, two nullifiers of which one is reused for two messages.
SPECIFICATION Spec
CONSTANTS
    r1 = r1
    r2 = r2
    n1 = n1
    n2 = n2
    Registries = {r1}
    Nullifiers = {n1, n2}
    Home <- MCHome
    Cheats = {n2}
    Shares = {x1, x2}
    Honest = x1
    Validators = {v1, v2}
    Refreshers = {}
    Provers = {q1}
    Configs <- Uniform
    StaleAfter = 0
    NudgeMin = 1
    ReadLimit = 0
    History = 1
    MaxHead = 0
    MaxTime = 3
    MaxCalls = 3
    None = None
SYMMETRY Symmetry
INVARIANTS NoFalseAccusation
PROPERTIES ExactWhileFresh
CHECK_DEADLOCK FALSE
