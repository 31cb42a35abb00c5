CONSTANTS
    NumCases = 2
    ds1 = ds1
    tag1 = tag1
    Resources <- MCResources
    DataSources <- MCDataSources
    Verdicts <- MCVerdicts
SPECIFICATION FairSpec
INVARIANT TypeOK
INVARIANT NoSilentLeak
INVARIANT ExitZeroIsClean
INVARIANT StatsMatchResults
INVARIANT OnlyChosenCaseBegins
PROPERTY SignalEndsRun
PROPERTY KeepsCustody
