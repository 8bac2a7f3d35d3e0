---------------------------- MODULE MCBaseCourt ----------------------------
(***************************************************************************)
(* A small instance of BaseCourt for TLC: two mandates that share wallets,  *)
(* nonces, the token and the counter of settlements.                       *)
(***************************************************************************)
EXTENDS BaseCourt, TLC

CONSTANTS principal, provider, escrowAddress, mandateHash, verdictPart

\* 3 * 5000 \div 10000 drops a fraction of the unit; the scale is the
\* contract's.
MCBPS == 10000
MCBps == [v \in Verdicts |-> IF v = verdictPart THEN 5000 ELSE 10000]

MCTerms ==
    {[provider |-> p, mandateHash |-> mandateHash, amount |-> 3,
      acceptanceDeadline |-> 1, deliveryDeadline |-> 2] :
        p \in {NoActor, provider}}

MCSymmetry == Permutations(Mandates)

\* Appeals of one case at most: those of different cases do not meet.
MCFewAppeals ==
    \A m, n \in Mandates :
        \/ m = n
        \/ {cases[m].principalAppealHash, cases[m].providerAppealHash} = {NoHash}
        \/ {cases[n].principalAppealHash, cases[n].providerAppealHash} = {NoHash}

MCBalances ==
    [h \in Actors \cup {EscrowAccount} |-> IF h = principal THEN 6 ELSE IF h = provider THEN 3 ELSE 0]

=============================================================================
