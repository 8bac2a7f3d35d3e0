SPECIFICATION Spec
CONSTANTS
    principal = principal
    provider = provider
    escrowAddress = escrowAddress
    mandateHash = mandateHash
    verdictPart = verdictPart
    NoActor = NoActor
    NoHash = NoHash
    Mandates = {m1, m2}
    Actors = {principal, provider}
    EscrowAccount = escrowAddress
    MandateHashes = {mandateHash}
    DeliveryHashes = {delivery1}
    Verdicts = {verdictPart}
    GenLayerTxs = {tx1}
    Grounds = {grounds}
    BPS <- MCBPS
    SettlementBps <- MCBps
    Terms <- MCTerms
    Balances <- MCBalances
    MaxTime = 3
    MaxNonce = 5
    SettlementNonces = {1, 2}
CONSTRAINT MCFewAppeals
SYMMETRY MCSymmetry
INVARIANTS
    EscrowSolvent
    NonceAccounting
    FundsNeverStranded
    PayoutMatchesOutcome
    OnlyJudgedWorkIsSettled
    CourtInv
PROPERTIES
    DeliveredLeavesByJudgment
    PromiseKept
CHECK_DEADLOCK FALSE
