SPECIFICATION FairSpec
CONSTANTS
    c1 = c1
    c2 = c2
    p1 = p1
    p2 = p2
    None = None
    Chains = {c1, c2}
    Pipelines = {p1, p2}
    PipelineOf <- OwnPipeline
    NumSteps = 2
    Requests = {q1, q2, q3}
    Workers = {w1, w2}
    MaxCrashes = 0
    MaxFaults = 0
INVARIANTS SingleDriver UnfinishedAttended
CHECK_DEADLOCK FALSE
