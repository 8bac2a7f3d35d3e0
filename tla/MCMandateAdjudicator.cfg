SPECIFICATION Spec
CONSTANTS
    Cases = {k1}
    Terms <- MCTerms
    Total = 10
    Contents = {c1}
    Missing = missing
    Chars <- MCChars
    Urls = {u1, u2}
    c1 = c1
    c2 = c2
    u1 = u1
    u2 = u2
    missing = missing
    Manifests <- MCManifests
    MaxFetched = 3
    MaxSourceChars = 2
    MaxTotalChars = 3
    MaxItems = 4
    MaxAppeals = 1
INVARIANTS
    FulfilledMeansAllPassed
    PassIsProven
    RoundedForPrincipal
PROPERTIES
    FinalStays
CHECK_DEADLOCK FALSE
