CONSTANTS
    NumCases = 2
    MaxRefused = 1
    ds1 = ds1
    Resources <- MCResources
    DataSources <- MCDataSources
    Verdicts <- MCVerdicts
SPECIFICATION Spec
INVARIANT CaseVerdictKept
