\* Outages, a clock that drifts and is set, three threads that share token and credentials.
SPECIFICATION FairSpec
CONSTANTS
    Pieces = 2
    MaxRead = 3
    MaxDrift = 2
    TokenLife = 3
    TokenMargin = 1
    CredMargin = 3
    CredLife = 4
    RotateLead = 3
    Interval = 2
    MaxCall = 1
    Behind = 3
    Ahead = 2
    Tolerance = 2
INVARIANTS NeverExpired RetryIsFresh OkIsWhole
PROPERTIES Recovers ClockIsKept
