CONSTANTS
    n1 = n1
    n2 = n2
    Networks = {n1, n2}
    Foreign = foreign
    Elsewhere = elsewhere
    Envs <- SomeEnvs
    Askers = {a1}
    MaxStarts = 2
    MaxOutages = 1
    Quarantined = {n2}
    MaxFunds = 1
    MaxQuote = 2
    None = None
SPECIFICATION Spec
INVARIANTS GateIsCurrent PayerStays PaysOnItsChain
PROPERTIES HomeNeverRepointed OutageHeals PassEnds
CHECK_DEADLOCK FALSE
