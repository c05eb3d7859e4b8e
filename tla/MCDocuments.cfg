SPECIFICATION Spec
CONSTANTS
    s1 = s1
    s2 = s2
    q1 = q1
    q2 = q2
    q3 = q3
    None = None
    Subs = {s1, s2}
    ProviderOf <- OneProvider
    Requests = {q1, q2, q3}
    MaxFaults = 1
    Keys = {k1}
    Items = {i1, i2}
    Cap = 1
    MaxWorks = 3
    MaxIom = 2
SYMMETRY RequestSymmetry
INVARIANTS EtagNamesContent NoHiddenMapping OneResultPerKey AnswersKept DraftKeepsPromise
PROPERTIES OthersMappingsKept
CHECK_DEADLOCK FALSE
