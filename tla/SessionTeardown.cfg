\* The control channel breaks while the agent is stopped: nobody waits for the sessions.
SPECIFICATION Spec
CONSTANTS
    s1 = s1  s2 = s2  t1 = t1  t2 = t2  t3 = t3
    None = None
    Sessions = {s1, s2}
    Refused = {s2}
    Threads = {t1, t2, t3}
    MaxFailures = 1
    MaxRepeats = 2
INVARIANTS ProviderOutlivesSessions
CHECK_DEADLOCK FALSE
