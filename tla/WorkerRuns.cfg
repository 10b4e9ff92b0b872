\* Documents of up to three steps, a baseline of two packages, a cancel at any moment.
SPECIFICATION Spec
CONSTANTS
    p1 = p1  p2 = p2
    NoRecord = NoRecord
    LongScans = TRUE
    TitleSize = 4  MarkSize = 3  SizeRange = 128
    MaxSteps = 3
    Packages = {p1, p2}
INVARIANTS SuccessIsEarned FailureIsShown SuccessIsRecorded NothingInstalledIsMissing
    CancelledOnlyOnRequest
CHECK_DEADLOCK FALSE
