SPECIFICATION Spec
CONSTANTS
    NoStepId = NoStepId
    NoId = NoStepId
    Pipelines = {"concept", "central", "old"}
    File <- MCFile
    SharedLayers <- MCLayers
    Root = "concept"
    MaxSelf = 1
    MaxChains = 3
    MaxRts = 9
    MaxFaults = 1
    MaxCrashes = 1
INVARIANTS RunsOwnRt InputsComplete  
CHECK_DEADLOCK FALSE
