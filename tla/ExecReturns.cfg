\* One call with every fault, for any script of two processes.
SPECIFICATION FairSpec
CONSTANTS
    sh = sh  d1 = d1
    Shell = sh
    Descendants = {d1}
    Faults = {"fork", "poll", "read", "wait"}
    Capacity = 1
    MaxOutput = 2
INVARIANTS TypeOK KilledTreeIsGone ReturnedMeansReaped OutputComplete
PROPERTIES Returns
CHECK_DEADLOCK FALSE
