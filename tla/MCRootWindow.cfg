\* Rotating roots, a refresher and a prover that read them, calls that miss.
SPECIFICATION Spec
CONSTANTS
    r1 = r1
    r2 = r2
    n1 = n1
    n2 = n2
    Registries = {r1}
    Nullifiers = {n1}
    Home <- MCHome1
    Cheats = {}
    Shares = {x1}
    Honest = x1
    Validators = {v1, v2}
    Refreshers = {q1}
    Provers = {q2}
    Configs <- Long
    StaleAfter = 1
    NudgeMin = 1
    ReadLimit = 1
    History = 1
    MaxHead = 1
    MaxTime = 4
    MaxCalls = 2
    None = None
SYMMETRY Symmetry
PROPERTY RootsRecent
CHECK_DEADLOCK FALSE
