\* A provisioning call and a registration of an application, side by side.
SPECIFICATION Spec
CONSTANTS
    Members = {m1, m2}
    Scopes = {s1}
    Wide = Wide
    Callers = {c1, c2}
    Pollers = {p1}
    Readers = {}
    RegistryStates = {"active"}
    CacheLoss = FALSE
    None = None
PROPERTY ProvisionAddsNoSecond
CHECK_DEADLOCK FALSE
