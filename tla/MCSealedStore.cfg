SPECIFICATION Spec
CONSTANTS
    Hashes = {h1, h2}
    UserPasswords = {p1}
    Secrets = {g1, g2}
    Walkers = {w1, w2}
    Rememberers = {w2}
    MaxSlots = 1
    MaxUuids = 2
    MaxFaults = 1
    MaxOpens = 2
    None = None
    Corrupt = Corrupt
SYMMETRY Symmetry
INVARIANTS NoFalseQuarantine CountersNeverRollBack AckedSurvive CredentialsOpenable
PROPERTY ImplementsCustody
CHECK_DEADLOCK FALSE
