---------------------------- MODULE MCRelayQueue ----------------------------
(***************************************************************************)
(* Small instances of RelayQueue for TLC.                                  *)
(***************************************************************************)
EXTENDS RelayQueue

CONSTANTS principal, provider, escrowAddress, mandateHash, grounds, verdictPart

\* A behaviour meets one kind of trouble: an invocation that stops, or a
\* deadline that passes.
MCOneTrouble == now > 0 => crashes = 0

MCBPS == 10000
MCBps == [v \in Verdicts |-> IF v = verdictPart THEN 5000 ELSE 10000]

MCTerm == [provider |-> NoActor, mandateHash |-> mandateHash, amount |-> 2,
           acceptanceDeadline |-> 1, deliveryDeadline |-> 2]
MCTerms == {MCTerm}
MCTermsOf == [m \in Mandates |-> MCTerm]
MCGroundsOf == [r \in Appellants |-> grounds]
MCBalances == [h \in Actors \cup {EscrowAccount} |->
                 IF h = principal THEN 4 ELSE 0]

=============================================================================
