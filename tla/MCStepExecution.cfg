SPECIFICATION Spec
CONSTANTS
    c1 = c1
    r1 = r1
    r2 = r2
    t1 = t1
    Chains = {c1}
    Rts = {r1, r2, t1}
    Plan <- MCPlan
    ToolRts = {t1}
    HasSchema = {r1}
    Parts <- MCParts
    Configs <- MCConfigs
    Unlisted <- MCUnlisted
    PersonaSlots = 2  ToolSlots = 1
    SchemaRetry = 1
    BusyBackoff = 1  BusyBackoffMax = 1  RetryBudget = 1
    MaxExecs = 3  MaxFaults = 1  MaxRestarts = 1
INVARIANTS SlotsHeld   ContextReplayable
PROPERTIES CallsEnd
CHECK_DEADLOCK FALSE
