SPECIFICATION FairSpec
CONSTANTS
    None = None
    m1 = m1
    m2 = m2
    f1 = f1
    f2 = f2
    Messages = {m1, m2}
    Sends <- MCSends
    Frames = {f1, f2}
    Roots = 2
    MaxFaults = 2
INVARIANTS AcceptedIsRecorded AcceptedIsCovered
PROPERTIES AcceptedIsRead
CHECK_DEADLOCK FALSE
