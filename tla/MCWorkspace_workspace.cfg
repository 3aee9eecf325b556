SPECIFICATION WorkspaceSpec
CONSTANTS
    r1 = r1
    r2 = r2
    r3 = r3
    q1 = q1
    q2 = q2
    c1 = c1
    c2 = c2
    x = x
    y = y
INVARIANTS WorkIsAccounted
PROPERTIES SupersededIsSilent NothingExcludedIsHandedOut
CHECK_DEADLOCK FALSE
