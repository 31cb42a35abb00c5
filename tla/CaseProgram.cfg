SPECIFICATION FairSpec
CONSTANTS
    Scripts <- AllCases
    MaxFaults = 2
INVARIANTS TypeOK NoSilentLeak ReturnLeavesStanding  LeavesNothing NoFalseResidual LeavesNothingBacked
PROPERTIES CleanupNeverMasks KeepsCustody CaseEnds
