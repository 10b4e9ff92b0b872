\* A scan that was cut short is reported as an empty list of missing updates.
SPECIFICATION Spec
CONSTANTS
    p1 = p1  p2 = p2
    NoRecord = NoRecord
    LongScans = FALSE
    TitleSize = 4  MarkSize = 3  SizeRange = 128
    MaxSteps = 1
    Packages = {p1}
INVARIANTS PendingIsMissing
CHECK_DEADLOCK FALSE
