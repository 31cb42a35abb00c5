CONSTANTS
    NumTags = 2
    MaxCalls = 3
SPECIFICATION Spec
INVARIANT TypeOK
INVARIANT NoTagTwice
INVARIANT FinishedMeansAll
INVARIANT ProgressNeverOverstates
INVARIANT FreshTotalsExact
