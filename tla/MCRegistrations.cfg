\* Two concurrent registrations and a tick; a restart may lose the cache file.
SPECIFICATION Spec
CONSTANTS
    Members = {m1, m2}
    Scopes = {s1}
    Wide = Wide
    Callers = {c1, c2}
    Pollers = {p1}
    Readers = {}
    RegistryStates = {"active"}
    CacheLoss = TRUE
    None = None
SYMMETRY Symmetry
INVARIANTS NoDoubleMint ClaimsMatchCalls
CHECK_DEADLOCK FALSE
