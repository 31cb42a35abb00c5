CONSTANTS
    NumCases = 2
    ds1 = ds1
    tag1 = tag1
    Resources <- MCResources
    DataSources <- MCDataSources
    Verdicts <- MCVerdicts
SPECIFICATION Spec
INVARIANT CleanedUpEvenWhenCancelled
