\* One stopped invocation: is every final judgment still carried out, if late?
SPECIFICATION FairSpec
CONSTANTS
    principal = principal
    provider = provider
    escrowAddress = escrowAddress
    mandateHash = mandateHash
    grounds = grounds
    verdictPart = verdictPart
    NoActor = NoActor
    NoHash = NoHash
    Mandates = {m1}
    Actors = {principal, provider}
    EscrowAccount = escrowAddress
    MandateHashes = {mandateHash}
    DeliveryHashes = {delivery}
    Verdicts = {verdictPart}
    GenLayerTxs = {tx1, tx2}
    Grounds = {grounds}
    BPS <- MCBPS
    SettlementBps <- MCBps
    Terms <- MCTerms
    Balances <- MCBalances
    TermsOf <- MCTermsOf
    GroundsOf <- MCGroundsOf
    Principal = principal
    Provider = provider
    Appellants = {}
    Lifetime = 3
    MaxTime = 0
    MaxNonce = 3
    SettlementNonces = {1, 2, 3}
    MaxDue = 0
    MaxAttempts = 2
    MaxFaults = 0
    MaxCrashes = 1
PROPERTIES
    FinalJudgmentAnswered
CHECK_DEADLOCK FALSE
