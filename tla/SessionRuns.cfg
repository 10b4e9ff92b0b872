\* A session and a refused one; failures, a repeated request and a stop.
SPECIFICATION FairSpec
CONSTANTS
    s1 = s1  s2 = s2  t1 = t1  t2 = t2  t3 = t3
    None = None
    Sessions = {s1, s2}
    Refused = {s2}
    Threads = {t1, t2, t3}
    MaxFailures = 3
    MaxRepeats = 2
INVARIANTS TypeOK OneShellPerChannel DrainedMeansQuiet
PROPERTIES ShutdownCompletes SessionServed
CHECK_DEADLOCK FALSE
