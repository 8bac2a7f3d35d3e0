\* Two invocations: one may take over the lease of the other, alive or killed.
SPECIFICATION LeaseSpec
CONSTANTS
    Invocations = {i1, i2}
    MaxDuration = 3
    LeaseMs = 6
    MaxSkew = 1
    MaxTime = 11
INVARIANTS
    MutualExclusion
    LeaseInv
PROPERTIES
    TurnedAwayOnlyBriefly
CHECK_DEADLOCK FALSE
