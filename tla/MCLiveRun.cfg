SPECIFICATION Spec
CONSTANTS
    Mandates = {m1, m2}
    Collections <- MCCollections
    Awards = {0, 5000, 10000}
    Amount = 2
    Funding = 3
    Treasury = 6
    Enough = 2
    MaxDetours = 2
    MaxFaults = 1
INVARIANTS
    TypeOK
    ManifestServed
    GateSound
PROPERTIES
    HonestRunPasses
CHECK_DEADLOCK FALSE
