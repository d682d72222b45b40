SPECIFICATION Spec
CONSTANTS
    Members = {ann}
    Chains = {c1}
    Nothing = Nothing
    Rotates = FALSE
    MaxGrants = 2
    MaxRestarts = 0
PROPERTIES
    FailureIsFlagged
