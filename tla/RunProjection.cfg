CONSTANTS
    NumCases = 2
    MaxRefused = 1
    ds1 = ds1
    Resources <- MCResources
    DataSources <- MCDataSources
    Verdicts <- MCVerdicts
SPECIFICATION FairSpec
INVARIANT TypeOK
INVARIANT FinishedRowExact
INVARIANT EndedRowTellsCases
INVARIANT RowNeverOverstates
INVARIANT RowsFollowResults
PROPERTY CancelStands
PROPERTY ReaderCatchesUp
