\* Nothing fails but the races themselves; the principal may appeal.  Checks that the lifecycle goes on.
SPECIFICATION FairSpec
CONSTANTS
    principal = principal
    provider = provider
    escrowAddress = escrowAddress
    mandateHash = mandateHash
    grounds = grounds
    verdictPart = verdictPart
    NoActor = NoActor
    NoHash = NoHash
    Mandates = {m1}
    Actors = {principal, provider}
    EscrowAccount = escrowAddress
    MandateHashes = {mandateHash}
    DeliveryHashes = {delivery}
    Verdicts = {verdictPart, verdictFull}
    GenLayerTxs = {tx1}
    Grounds = {grounds}
    BPS <- MCBPS
    SettlementBps <- MCBps
    Terms <- MCTerms
    Balances <- MCBalances
    TermsOf <- MCTermsOf
    GroundsOf <- MCGroundsOf
    Principal = principal
    Provider = provider
    Appellants = {"principal"}
    Lifetime = 3
    MaxTime = 0
    MaxNonce = 3
    SettlementNonces = {1, 2, 3}
    MaxDue = 0
    MaxAttempts = 1
    MaxFaults = 0
    MaxCrashes = 0
INVARIANTS
    SettledUnderFinality
PROPERTIES
    AppealAnswered
    DeliveryAnswered
CHECK_DEADLOCK FALSE
