\* One record: a tick and a state read at once.
SPECIFICATION Spec
CONSTANTS
    Members = {m1}
    Scopes = {s1}
    Wide = Wide
    Callers = {c1}
    Pollers = {p1}
    Readers = {r1}
    RegistryStates = {"active", "expired"}
    CacheLoss = FALSE
    None = None
INVARIANTS UsableWasRegistered ErasedWasRegistered
PROPERTIES OnlyPollerFailsConfirmed PendingResolves RemovalNoticed
CHECK_DEADLOCK FALSE
