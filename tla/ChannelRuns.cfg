\* Output beyond the capacity of the Outbox, repeated input, a client that comes late or leaves.
SPECIFICATION FairSpec
CONSTANTS
    MaxResends = 1
    MaxBuffered = 2
    MaxOutput = 1
    MaxKeys = 2
    MaxRepeats = 1
INVARIANTS TypeOK KeysOnce AckedInputIsApplied NothingForgotten
PROPERTIES ImplementsSession Reaped
CHECK_DEADLOCK FALSE
