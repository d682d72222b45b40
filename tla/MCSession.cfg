SPECIFICATION Spec
CONSTANTS
    Members = {ann, bob}
    NoUser = NoUser
    Failed = Failed
    Tasks = {t1, t2}
    MaxOutbox = 2
    MaxKills = 1
INVARIANTS
    ProgressHasOwner
    DashboardHasMember
    ShownMemberIsSignedIn
PROPERTIES SpinnerStops ResumeOrReport QueuedRecordArrives
