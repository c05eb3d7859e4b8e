SPECIFICATION FairSpec
CONSTANTS
    c1 = c1
    c2 = c2
    p1 = p1
    p2 = p2
    None = None
    Chains = {c1}
    Pipelines = {p1, p2}
    PipelineOf <- SamePipeline
    NumSteps = 2
    Requests = {q1, q2}
    Workers = {w1, w2}
    MaxCrashes = 0
    MaxFaults = 1

PROPERTIES WaitingGetsItsTurn
CHECK_DEADLOCK FALSE
