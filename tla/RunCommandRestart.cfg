\* Shutdown, crash and restart, an overflowing history.
SPECIFICATION Spec
CONSTANTS
    c1 = c1  c2 = c2  w1 = w1  w2 = w2
    None = None
    Commands <- MCCommands
    Workers = {w1, w2}
    Messages <- MCOddMessages
    Malformed <- MCMalformed
    DedupHistory = 1
    LossyCalls = {"ack"}
    DrainExpires = TRUE
    MaxExits = 1
    MaxCrashes = 1
INVARIANTS TypeOK OneCopy AckedIsStarted DrainedMeansIdle
SYMMETRY WorkerSymmetry
