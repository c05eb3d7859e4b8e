SPECIFICATION FairSpec
CONSTANTS
    c1 = c1
    c2 = c2
    p1 = p1
    p2 = p2
    None = None
    Chains = {c1}
    Pipelines = {p1, p2}
    PipelineOf <- SamePipeline
    NumSteps = 3
    Requests = {q1, q2}
    Workers = {w1, w2}
    MaxCrashes = 1
    MaxFaults = 0
INVARIANTS TypeOK CompleteHasOutputs DispatchInOrder
PROPERTIES Settles
CHECK_DEADLOCK FALSE
