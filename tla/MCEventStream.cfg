SPECIFICATION Spec
CONSTANTS
    a = a
    b = b
    Clients = {a, b}
    Connects <- MCConnects
    Script <- MCScript
    QueueMax = 1
    ReplayMax = 1
    MaxBreaks = 1
INVARIANTS OpenIsServed GapsHaveCause
PROPERTIES FramesArrive
CHECK_DEADLOCK FALSE
