------------------------- MODULE SettlementAdapter -------------------------
(***************************************************************************)
(* SettlementAdapter.sol: the only contract that may release a deposit on  *)
(* a judgment.  It checks the attested judgment against the commitments of *)
(* the registry and the finalized case, spends the judgment's nonce and    *)
(* has the escrow pay; the escrow then sets the mandate's status, all in   *)
(* one transaction.                                                        *)
(***************************************************************************)
EXTENDS MandateEscrow, MandateRegistry, DisputeRegistry

VARIABLES
    adapterLinks,    \* which of the three addresses the owner has set
    settled,         \* mandate -> whether a judgment was executed
    usedNonces       \* settlement nonces spent

adapterVars == <<adapterLinks, settled, usedNonces>>

Links == {"escrow", "mandateRegistry", "disputeRegistry"}

AdapterTypeOK ==
    /\ adapterLinks \subseteq Links
    /\ settled \in [Mandates -> BOOLEAN]
    /\ usedNonces \subseteq Nat

AdapterInit ==
    /\ adapterLinks = {}
    /\ settled = [m \in Mandates |-> FALSE]
    /\ usedNonces = {}

\* setEscrow, setMandateRegistry and setDisputeRegistry: once each.
SetLink(link) ==
    /\ link \notin adapterLinks
    /\ adapterLinks' = adapterLinks \cup {link}
    /\ UNCHANGED <<settled, usedNonces>>

\* Mutant of CommitmentsMatch: the delivery is not compared.
MandateMatches(j) ==
    /\ mandates[j.mandateId].status # "None"
    /\ mandates[j.mandateId].mandateHash = j.mandateHash

\* The judgment names what the registry committed to.
CommitmentsMatch(j) ==
    /\ mandates[j.mandateId].status # "None"
    /\ mandates[j.mandateId].mandateHash = j.mandateHash
    /\ mandates[j.mandateId].deliveryHash = j.deliveryHash

\* The judgment is the one the case was finalized with.
JudgmentFinal(j) ==
    LET case == cases[j.mandateId] IN
    /\ Linked(j.mandateId)
    /\ case.finalized
    /\ case.genlayerTransactionId = j.genlayerTransactionId
    /\ case.finalizedVerdictHash = j.verdictHash

\* escrow.settle, with the status change it makes in the registry.
SettleEscrow(m, bps) ==
    /\ Settle(m, bps)
    /\ IF escrowRegistry THEN SetStatus(m, "Settled")
                         ELSE UNCHANGED registryVars

ExecuteFinalJudgment(j) ==
    /\ adapterLinks = Links
    /\ j.deadline >= now
    /\ j.providerBps <= BPS
    /\ ~settled[j.mandateId]
    /\ j.nonce \notin usedNonces
    /\ CommitmentsMatch(j)
    /\ JudgmentFinal(j)
    /\ settled' = [settled EXCEPT ![j.mandateId] = TRUE]
    /\ usedNonces' = usedNonces \cup {j.nonce}
    /\ SettleEscrow(j.mandateId, j.providerBps)
    /\ UNCHANGED <<now, adapterLinks, cases>>

=============================================================================
