\* One failure of a relay, of GenLayer or of the database, anywhere; every pass takes all open jobs.
SPECIFICATION FairSpec
CONSTANTS
    principal = principal
    provider = provider
    escrowAddress = escrowAddress
    mandateHash = mandateHash
    grounds = grounds
    verdictPart = verdictPart
    NoActor = NoActor
    NoHash = NoHash
    Mandates = {m1}
    Actors = {principal, provider}
    EscrowAccount = escrowAddress
    MandateHashes = {mandateHash}
    DeliveryHashes = {delivery}
    Verdicts = {verdictPart}
    GenLayerTxs = {tx1, tx2}
    Grounds = {grounds}
    BPS <- MCBPS
    SettlementBps <- MCBps
    Terms <- MCTerms
    Balances <- MCBalances
    TermsOf <- MCTermsOf
    GroundsOf <- MCGroundsOf
    Principal = principal
    Provider = provider
    Appellants = {}
    Lifetime = 3
    MaxTime = 0
    MaxNonce = 3
    SettlementNonces = {1, 2, 3}
    MaxDue = 0
    MaxAttempts = 2
    MaxFaults = 1
    MaxCrashes = 0
INVARIANTS
    QueueInv
PROPERTIES
    FinalJudgmentAnswered
CHECK_DEADLOCK FALSE
