\* One loop with reads inside its ticks, and the warm pass.
SPECIFICATION Spec
CONSTANTS
    Hosts = {h1}
    Loops = {"refresher"}
    MaxWorkers = 3
    MaxItems = 2
    MaxGen = 2
    MaxStarts = 1
    None = None
INVARIANTS RefresherStopsReading
PROPERTIES CallsReturn StragglersExit
CHECK_DEADLOCK FALSE
