CONSTANTS
    Keys = {k1}
    Callers = {c1}
    TTL = 3
    Settle = 2
    MaxResubmits = 1
    MaxTx = 2
    MaxLostReads = 1
    None = None
SPECIFICATION Spec
INVARIANTS SoleSubmission RevertIsSettled OneOutcome
PROPERTIES NoFalseErasure SlotFreed
