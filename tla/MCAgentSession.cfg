SPECIFICATION Spec
CONSTANTS
    r1 = r1
    r2 = r2
    Stdin <- MCStdin
    Redemptions = {r1, r2}
    Former = former
    Stranger = stranger
    Mandates = {m1, m2}
    Limit = 1
    Times = 2
INVARIANTS
    OneIdentity
    WalkSeesOpen
PROPERTIES
    RequestAnswered
CHECK_DEADLOCK FALSE
