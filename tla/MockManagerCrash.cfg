CONSTANTS
    MaxStarts = 2
    MaxStops = 2
SPECIFICATION Spec
INVARIANT CrashShown
CHECK_DEADLOCK FALSE
