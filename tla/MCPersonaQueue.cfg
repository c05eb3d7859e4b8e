SPECIFICATION Spec
CONSTANTS
    c1 = c1
    c2 = c2
    Rts = {1, 2, 3, 4}
    Chains <- MCChains
    ChainOf <- MCChainOf
    Ttl = 2
    MaxClock = 4
INVARIANTS TypeOK WaitingOnce
PROPERTIES LiveLeaseKept ChainFifo Implements
CHECK_DEADLOCK FALSE
