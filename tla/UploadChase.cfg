SPECIFICATION FairSpec
CONSTANTS
    None = None
    New = New
    Login = Login
    a = a
    b = b
    Start <- ChaseEntries
    StartPos = 3
    Results = {"r1"}
    Items = {a, b}
    MaxGestures = 2
    MaxNavigations = 0
CHECK_DEADLOCK FALSE
PROPERTY CorrectionEnds
