CONSTANTS
    MaxRuns = 2
    MaxChecked = 1
    NoKey = NoKey
    k1 = k1
    Keys <- MCKeys
    HarnessStatus <- MCHarnessStatus
SPECIFICATION FairSpec
INVARIANT TypeOK
INVARIANT OneRunner
INVARIANT ForeignLinesAreLeftovers
INVARIANT OpenRowsAccounted
INVARIANT ErrorMeansNeverRan
PROPERTY StopHitsOwnRun
PROPERTY DeadRunnerFreesSlot
