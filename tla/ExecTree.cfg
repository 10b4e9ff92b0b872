\* A descendant that ignores SIGTERM and has redirected its output survives a timeout.
SPECIFICATION Spec
CONSTANTS
    sh = sh  d1 = d1
    Shell = sh
    Descendants = {d1}
    Faults = {}
    Capacity = 1
    MaxOutput = 2
INVARIANTS TimeoutKillsTree
CHECK_DEADLOCK FALSE
