SPECIFICATION Spec
CONSTANTS
    Agents = {a1, a2}
    NoAgent = noAgent
    Mandates = {m1, m2}
    NoMandate = noMandate
    Manifests = {f1, f2}
    NoManifest = noManifest
    c1 = c1
    c2 = c2
    Commands = {c1, c2}
    MaxTries <- MCTries
    ReuseKeys = TRUE
    MaxSends = 2
    Starts <- MCStarts
    Wants <- MCWants
SYMMETRY Symmetry
INVARIANTS
    TypeOK
    CarriedOncePerCommand
    OneClaimant
    CompletedOncePerStage
CHECK_DEADLOCK FALSE
