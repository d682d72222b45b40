SPECIFICATION Spec
CONSTANTS
    Members = {ann, bob}
    Chains = {c1, c2}
    Nothing = Nothing
    Rotates = TRUE
    MaxGrants = 2
    MaxRestarts = 1
INVARIANTS
    LinkIsOwn
    PairLostOnlyWithAnswer
PROPERTIES RedirectEnds
