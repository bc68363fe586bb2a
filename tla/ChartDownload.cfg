SPECIFICATION Spec
CONSTANTS
    MaxVersion = 2
    Indexes <- MCIndexes
    Rules <- MCRules
    Sources = {"repo", "archive", "directory", "other"}
    Debug = FALSE
    MaxDirs = 3
    MaxFailures = 2
    Own = Own
    NoDir = NoDir
    NoEntry = NoEntry
INVARIANTS
    TypeOK
    NewestAllowed
    ChartIsKept
    OnlyFailuresLeave
PROPERTIES
    NoFalseAlarm
