CONSTANTS
    s1 = s1
    s2 = s2
    c1 = c1
    c2 = c2
    Screen = {s1, s2}
    Content = {c1, c2}
    NoScreen = none
    maxScreens = 2
    Backup <- Files
    MaxRevision = 3
SPECIFICATION Spec
INVARIANTS StartScreenRule OrderIsTotal ScreenSaveIsSafe ProjectSaveIsSafe
CHECK_DEADLOCK FALSE
