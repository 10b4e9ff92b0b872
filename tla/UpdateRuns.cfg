\* Versions published in any order, every step of an update failing, a crash at any point.
SPECIFICATION Spec
CONSTANTS
    MaxVersion = 3
    MaxCrashes = 2
    NoFile = NoFile
INVARIANTS TypeOK InstalledIsWhole ServiceCanRestart
PROPERTIES RunsForward ImplementsUpdate
