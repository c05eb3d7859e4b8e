SPECIFICATION FamilySpec
CONSTANTS
    Requests = {r1, r2, r3}
    MaxLost = 1
    Timely = TRUE
INVARIANTS RotatedOnce KeepsUsableToken LogoutExplained
CHECK_DEADLOCK FALSE
