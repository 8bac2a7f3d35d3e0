----------------------------- MODULE CourtTypes -----------------------------
(***************************************************************************)
(* The vocabulary shared by the contracts of Mandate Court on Base: the    *)
(* mandate statuses and signed messages of CourtTypes.sol, the terms a     *)
(* mandate is created with, and the block timestamp every contract reads.  *)
(***************************************************************************)
EXTENDS Integers, FiniteSets

CONSTANTS
    Mandates,        \* mandate identifiers (bytes32 mandateId)
    Actors,          \* wallets that can be principal or provider
    NoActor,         \* address(0)
    EscrowAccount,   \* the address of the escrow contract, as a USDC holder
    Terms,           \* the terms actors may sign a mandate with
    MandateHashes,   \* commitments to the locked mandate and its policy
    DeliveryHashes,  \* commitments to a delivery manifest
    NoHash,          \* bytes32(0)
    Verdicts,        \* hashes of judgments the adjudicator can return
    SettlementBps,   \* the provider's share each judgment carries
    GenLayerTxs,     \* GenLayer transaction identifiers
    Grounds,         \* hashes of the grounds of an appeal
    BPS              \* the whole in basis points, 10_000 in the contracts

TermsType ==
    [provider           : Actors \cup {NoActor},
     mandateHash        : MandateHashes,
     amount             : Nat,
     acceptanceDeadline : Nat,
     deliveryDeadline   : Nat]

\* NoActor and NoHash are the zero values, distinct from every real one; the
\* escrow contract signs no intents, so it is no principal and no provider.
ASSUME CourtTypesAssumption ==
    /\ NoActor \notin Actors
    /\ EscrowAccount \notin Actors \cup {NoActor}
    /\ NoHash \notin
         MandateHashes \cup DeliveryHashes \cup Verdicts \cup GenLayerTxs
    /\ NoHash \notin Grounds
    /\ Terms \subseteq TermsType
    /\ BPS \in Nat \ {0}
    /\ SettlementBps \in [Verdicts -> 0 .. BPS]

Status ==
    {"None", "Funded", "Offered", "Active", "Submitted", "UnderReview",
     "Finalized", "Settled", "Cancelled", "Expired"}

\* What an actor intent and the court authorization issued for it agree on.
\* The two are one record here: a call whose two messages differ in mandate,
\* action, payload, actor or nonce reverts with AuthorizationMismatch.
AuthorizationType ==
    [mandateId : Mandates, actor : Actors, nonce : Nat, courtNonce : Nat,
     deadline  : Nat]

FinalJudgmentType ==
    [mandateId : Mandates, mandateHash : MandateHashes,
     deliveryHash : DeliveryHashes, genlayerTransactionId : GenLayerTxs,
     verdictHash : Verdicts, providerBps : Nat, nonce : Nat, deadline : Nat]

VARIABLE now         \* block.timestamp

=============================================================================
