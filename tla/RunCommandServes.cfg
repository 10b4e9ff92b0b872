\* Lost acknowledgements, redelivery, a cancel and an orderly restart at any point.
SPECIFICATION FairSpec
CONSTANTS
    c1 = c1  c2 = c2  w1 = w1  w2 = w2
    None = None
    Commands <- MCCommands
    Workers = {w1}
    Messages <- MCMessages
    Malformed <- MCNoMalformed
    DedupHistory = 2
    LossyCalls = {"poll", "ack"}
    DrainExpires = FALSE
    MaxExits = 1
    MaxCrashes = 0
INVARIANTS AtMostOnce
PROPERTIES CancelReaches TerminalSticks ImplementsLifecycle EveryCommandAnswered
