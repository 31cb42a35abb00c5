CONSTANTS
    MaxRuns = 2
    MaxChecked = 1
    NoKey = NoKey
    k1 = k1
    Keys <- MCKeys
    HarnessStatus <- MCHarnessStatus
SPECIFICATION Spec
INVARIANT ShutdownStopsRunner
