--------------------------- MODULE MandateEscrow ---------------------------
(***************************************************************************)
(* MandateEscrow.sol: custody of the USDC of every mandate.  An operation  *)
(* is enabled exactly when the call does not revert; a reverted call       *)
(* leaves the chain as it was and is no step.  The re-entrancy lock is 1   *)
(* between transactions and is not state here.                             *)
(***************************************************************************)
EXTENDS CourtTypes

VARIABLES
    escrowRegistry,  \* whether setRegistry has been called
    deposits,        \* mandate -> Deposit
    usdc,            \* balances of the USDC token (external)
    payouts          \* what EscrowSettled and EscrowRefunded report, summed

escrowVars == <<escrowRegistry, deposits, usdc, payouts>>

Holders == Actors \cup {EscrowAccount}

NoDeposit ==
    [principal |-> NoActor, provider |-> NoActor, amount |-> 0,
     funded |-> FALSE, settled |-> FALSE]

NoPayout == [times |-> 0, provider |-> 0, principal |-> 0]

Deposit ==
    [principal : Actors \cup {NoActor}, provider : Actors \cup {NoActor},
     amount : Nat, funded : BOOLEAN, settled : BOOLEAN]

EscrowTypeOK ==
    /\ escrowRegistry \in BOOLEAN
    /\ deposits \in [Mandates -> Deposit]
    /\ usdc \in [Holders -> Nat]
    /\ payouts \in [Mandates -> [times : Nat, provider : Nat, principal : Nat]]

EscrowInit(balances) ==
    /\ escrowRegistry = FALSE
    /\ deposits = [m \in Mandates |-> NoDeposit]
    /\ usdc = balances
    /\ payouts = [m \in Mandates |-> NoPayout]

\* The provider's part of a settled deposit: the division of the EVM rounds
\* down, and whatever it drops stays with the principal.
ProviderAmount(amount, bps) == (amount * bps) \div BPS

SetRegistry ==
    /\ ~escrowRegistry
    /\ escrowRegistry' = TRUE
    /\ UNCHANGED <<deposits, usdc, payouts>>

\* Called by the registry: pull the signed USDC authorization of the principal.
Fund(m, principal, amount) ==
    /\ escrowRegistry
    /\ ~deposits[m].funded
    /\ amount # 0
    /\ usdc[principal] >= amount
    /\ deposits' = [deposits EXCEPT ![m] =
                      [principal |-> principal, provider |-> NoActor,
                       amount |-> amount, funded |-> TRUE, settled |-> FALSE]]
    /\ usdc' = [usdc EXCEPT ![principal] = @ - amount,
                            ![EscrowAccount] = @ + amount]
    /\ UNCHANGED <<escrowRegistry, payouts>>

\* Called by the registry when a provider accepts.
BindProvider(m, provider) ==
    /\ escrowRegistry
    /\ provider # NoActor
    /\ deposits[m].funded
    /\ deposits[m].provider = NoActor
    /\ deposits' = [deposits EXCEPT ![m].provider = provider]
    /\ UNCHANGED <<escrowRegistry, usdc, payouts>>

\* Transfers from the escrow; principal and provider may be one wallet.
PayOut(m, toProvider, toPrincipal) ==
    LET d == deposits[m] IN
    /\ usdc[EscrowAccount] >= toProvider + toPrincipal
    /\ usdc' = [h \in Holders |->
                  usdc[h]
                  + (IF h = d.provider THEN toProvider ELSE 0)
                  + (IF h = d.principal THEN toPrincipal ELSE 0)
                  - (IF h = EscrowAccount THEN toProvider + toPrincipal
                                          ELSE 0)]
    /\ payouts' = [payouts EXCEPT ![m] =
                     [times     |-> @.times + 1,
                      provider  |-> @.provider + toProvider,
                      principal |-> @.principal + toPrincipal]]

\* Mutant of Refundable: only what a provider has accepted is given back.
RefundableOnceBound(d) == d.funded /\ ~d.settled /\ d.provider # NoActor

\* The deposit states settle and refund accept.
Settleable(d) == d.funded /\ ~d.settled /\ d.provider # NoActor

Refundable(d) == d.funded /\ ~d.settled

\* Mutant of Settle: the shares are exchanged.
SettleExchanged(m, bps) ==
    LET d == deposits[m]
        share == ProviderAmount(d.amount, bps)
    IN
    /\ bps <= BPS
    /\ Settleable(d)
    /\ deposits' = [deposits EXCEPT ![m].settled = TRUE]
    /\ PayOut(m, d.amount - share, share)
    /\ UNCHANGED escrowRegistry

\* Called by the settlement adapter.
Settle(m, bps) ==
    LET d == deposits[m]
        share == ProviderAmount(d.amount, bps)
    IN
    /\ bps <= BPS
    /\ Settleable(d)
    /\ deposits' = [deposits EXCEPT ![m].settled = TRUE]
    /\ PayOut(m, share, d.amount - share)
    /\ UNCHANGED escrowRegistry

\* Mutant of Refund: the deposit is not marked as paid out.
RefundUnmarked(m) ==
    /\ escrowRegistry
    /\ Refundable(deposits[m])
    /\ PayOut(m, 0, deposits[m].amount)
    /\ UNCHANGED <<escrowRegistry, deposits>>

\* Called by the registry on cancellation and expiry.
Refund(m) ==
    /\ escrowRegistry
    /\ Refundable(deposits[m])
    /\ deposits' = [deposits EXCEPT ![m].settled = TRUE]
    /\ PayOut(m, 0, deposits[m].amount)
    /\ UNCHANGED escrowRegistry

=============================================================================
