CONSTANTS
    MaxActive = 2
    MaxBytes = 4
    Sizes <- OneOrTwo
    MaxOpens = 3
SPECIFICATION Spec
PROPERTY FailedOpenKeepsOthers
