SPECIFICATION Spec
CONSTANTS
    Members = {m1}
    Apps = {a1}
    Callers = {c1, c2}
    Sizes = {1, 2}
    Gaps = {1}
    RateLimits = {2}
    MaxRate = 2
    MaxTime = 3
    RowCap = 2
    MaxReservations = 3
    None = None
SYMMETRY Symmetry
INVARIANTS TypeOK NoReissue OneEpochSize FloorHasTwoWitnesses DurableBeforeUse QuotaMirrorsReserveBelowCap
PROPERTY ImplementsLedger
