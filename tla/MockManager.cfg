CONSTANTS
    MaxStarts = 2
    MaxStops = 2
SPECIFICATION FairSpec
INVARIANT TypeOK
INVARIANT UnmanagedOnlyByRace
PROPERTY StartingResolves
PROPERTY StopIsFinal
CHECK_DEADLOCK FALSE
