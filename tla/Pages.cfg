SPECIFICATION PagesSpec
CONSTANTS
    Parts = {"upload", "watch"}
    None = None
    New = New
    Login = Login
    a = a
    b = b
    Start <- StartEntries
    StartPos = 3
    Results = {"r1", "r2"}
    Items = {a, b}
    MaxGestures = 2
    MaxNavigations = 1
CHECK_DEADLOCK FALSE
INVARIANT TakeoversWait
PROPERTIES CommitsAtHome EventuallyShown
