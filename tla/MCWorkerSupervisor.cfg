\* Both loops and the warm pass, no reads inside a tick.
SPECIFICATION Spec
CONSTANTS
    Hosts = {h1, h2}
    Loops = {"poller", "refresher"}
    MaxWorkers = 4
    MaxItems = 0
    MaxGen = 2
    MaxStarts = 2
    None = None
SYMMETRY Symmetry
INVARIANTS RunningExact NoDuplicateLoop LoopsRun QuietAfterStop
CHECK_DEADLOCK FALSE
