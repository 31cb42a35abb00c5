CONSTANTS
    NumTags = 3
    MaxCalls = 2
SPECIFICATION Spec
PROPERTY ProgressNeverFalls
