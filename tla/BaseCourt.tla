----------------------------- MODULE BaseCourt -----------------------------
(***************************************************************************)
(* The four contracts on Base together.  One action is one transaction:    *)
(* the called contract, every contract it calls, and nothing in between.   *)
(* Whoever can obtain the signatures may send a transaction at any time    *)
(* and any number of times (the relays do), so the inputs of an action are *)
(* all messages that the parties may have signed.                          *)
(***************************************************************************)
EXTENDS SettlementAdapter, Functions

CONSTANTS
    Balances,            \* USDC held before the first mandate
    MaxTime,             \* last block timestamp of the model
    MaxNonce,            \* largest nonce of an authorization in the model
    SettlementNonces     \* values of the court's settlement counter

ASSUME BaseCourtAssumption ==
    /\ Balances \in [Holders -> Nat]
    /\ Balances[EscrowAccount] = 0
    /\ MaxTime \in Nat
    /\ MaxNonce \in Nat
    /\ SettlementNonces \subseteq Nat

\* An identifier is 32 bytes and an address 20: there are finitely many.
ASSUME FiniteCourt == IsFiniteSet(Mandates) /\ IsFiniteSet(Actors)

vars == <<now, escrowVars, registryVars, cases, adapterVars>>

Init ==
    /\ now = 0
    /\ EscrowInit(Balances)
    /\ RegistryInit
    /\ DisputeInit
    /\ AdapterInit

(***************************************************************************)
(* Messages.                                                               *)
(***************************************************************************)
Authorizations(m) ==
    [mandateId : {m}, actor : Actors, nonce : 0 .. MaxNonce,
     courtNonce : 0 .. MaxNonce, deadline : 0 .. MaxTime]

\* The court attests the judgment it stored for the mandate: the share is the
\* one the judgment carries; the delivery is the one the court was handed,
\* which the chain may not have seen.
FinalJudgments(m) ==
    {j \in [mandateId : {m}, mandateHash : MandateHashes,
            deliveryHash : DeliveryHashes,
            genlayerTransactionId : GenLayerTxs, verdictHash : Verdicts,
            providerBps : {SettlementBps[v] : v \in Verdicts},
            nonce : SettlementNonces, deadline : 0 .. MaxTime] :
        j.providerBps = SettlementBps[j.verdictHash]}

(***************************************************************************)
(* Deployment: the owner wires the adapter first and the escrow last.      *)
(***************************************************************************)
WireAdapter(link) ==
    /\ link = "mandateRegistry" => "escrow" \in adapterLinks
    /\ link = "disputeRegistry" => "mandateRegistry" \in adapterLinks
    /\ SetLink(link)
    /\ UNCHANGED <<now, escrowVars, registryVars, cases>>

WireEscrow ==
    /\ adapterLinks = Links
    /\ SetRegistry
    /\ UNCHANGED <<now, registryVars, cases, adapterVars>>

(***************************************************************************)
(* Transactions sent to the registry.                                      *)
(***************************************************************************)
CreateMandate(auth, t) ==
    /\ RegisterMandate(auth, t)
    /\ Fund(auth.mandateId, auth.actor, t.amount)
    /\ UNCHANGED <<now, cases, adapterVars>>

AcceptMandate(auth) ==
    /\ RegisterAcceptance(auth)
    /\ BindProvider(auth.mandateId, auth.actor)
    /\ UNCHANGED <<now, cases, adapterVars>>

SubmitDelivery(auth, hash) ==
    /\ RegisterDelivery(auth, hash)
    /\ UNCHANGED <<now, escrowVars, cases, adapterVars>>

CancelMandate(auth) ==
    /\ RegisterCancellation(auth)
    /\ Refund(auth.mandateId)
    /\ UNCHANGED <<now, cases, adapterVars>>

MarkExpired(m) ==
    /\ RegisterExpiry(m)
    /\ Refund(m)
    /\ UNCHANGED <<now, cases, adapterVars>>

(***************************************************************************)
(* Transactions of the court's wallet on the case of a mandate.            *)
(***************************************************************************)
CourtRecord(m) ==
    /\ \/ \E tx \in GenLayerTxs : LinkCase(m, tx)
       \/ \E v \in Verdicts : RecordAccepted(m, v)
       \/ \E g \in Grounds : RecordPrincipalAppeal(m, g)
       \/ \E g \in Grounds : RecordProviderAppeal(m, g)
       \/ \E v \in Verdicts : RecordFinalized(m, v)
    /\ UNCHANGED <<now, escrowVars, registryVars, adapterVars>>

Tick ==
    /\ now < MaxTime
    /\ now' = now + 1
    /\ UNCHANGED <<escrowVars, registryVars, cases, adapterVars>>

Transaction(m) ==
    \/ \E auth \in Authorizations(m) :
          \/ \E t \in Terms : CreateMandate(auth, t)
          \/ AcceptMandate(auth)
          \/ \E hash \in DeliveryHashes : SubmitDelivery(auth, hash)
          \/ CancelMandate(auth)
    \/ MarkExpired(m)
    \/ CourtRecord(m)
    \/ \E j \in FinalJudgments(m) : ExecuteFinalJudgment(j)

Next ==
    \/ \E link \in Links : WireAdapter(link)
    \/ WireEscrow
    \/ \E m \in Mandates : Transaction(m)
    \/ Tick

Spec == Init /\ [][Next]_vars

(***************************************************************************)
(* Properties.                                                             *)
(***************************************************************************)

\* Every variable has its type.
TypeOK ==
    /\ now \in 0 .. MaxTime
    /\ EscrowTypeOK
    /\ RegistryTypeOK
    /\ DisputeTypeOK
    /\ AdapterTypeOK

Released == {"Settled", "Cancelled", "Expired"}

\* The registry and the escrow keep two records of one mandate, written by
\* different calls of one transaction.  They agree: a mandate exists when its
\* deposit does, is over exactly when the deposit has been paid out, and from
\* acceptance on both name the same provider, before it neither pays one.
StatusMatchesDeposit ==
    \A m \in Mandates :
        LET mandate == mandates[m]
            d == deposits[m]
        IN
        /\ d.funded <=> mandate.status # "None"
        /\ d.settled <=> mandate.status \in Released
        /\ d.funded => /\ d.principal = mandate.principal
                       /\ d.amount = mandate.amount
        /\ mandate.status \in {"Funded", "Cancelled"} => d.provider = NoActor
        /\ mandate.status \in {"Active", "Submitted", "Settled"} =>
              d.provider = mandate.provider /\ d.provider # NoActor

\* What a finished mandate has paid, by every transfer of its whole life: one
\* refund of everything, or one split under the verdict its case was finalized
\* with.  Before the end nothing has left the escrow.
PayoutMatchesOutcome ==
    \A m \in Mandates :
        LET mandate == mandates[m]
            share == ProviderAmount(mandate.amount,
                        SettlementBps[cases[m].finalizedVerdictHash])
        IN
        CASE mandate.status = "Settled" ->
               payouts[m] = [times |-> 1, provider |-> share,
                             principal |-> mandate.amount - share]
          [] mandate.status \in {"Cancelled", "Expired"} ->
               payouts[m] = [times |-> 1, provider |-> 0,
                             principal |-> mandate.amount]
          [] OTHER -> payouts[m] = NoPayout

\* Only delivered work with a finalized judgment is settled, although the
\* adapter never looks at the status of the mandate: the commitments and the
\* finalized case stand in for it (README, "Core Invariants" 8).
OnlyJudgedWorkIsSettled ==
    \A m \in Mandates :
        /\ mandates[m].status = "Settled" =>
              /\ mandates[m].deliveryHash # NoHash
              /\ cases[m].finalized
        /\ settled[m] <=> mandates[m].status = "Settled"

\* What the invariants above rest on and do not say: the statuses the code
\* never sets, the delivery hash as the mark of delivered work, the
\* finalized verdict as the mark of a finalized case, the link that precedes it,
\* and the registry without which nothing was funded.
RecordsConsistent ==
    \A m \in Mandates :
        /\ mandates[m].status \notin {"Offered", "UnderReview", "Finalized"}
        /\ mandates[m].deliveryHash # NoHash <=>
              mandates[m].status \in {"Submitted", "Settled"}
        /\ cases[m].finalized <=> cases[m].finalizedVerdictHash # NoHash
        /\ cases[m].finalized => Linked(m)
        /\ deposits[m].funded => escrowRegistry

\* The inductive invariant of the proofs.
CourtInv ==
    /\ TypeOK
    /\ StatusMatchesDeposit
    /\ PayoutMatchesOutcome
    /\ OnlyJudgedWorkIsSettled
    /\ RecordsConsistent

Held(m) == IF Refundable(deposits[m]) THEN deposits[m].amount ELSE 0

\* The escrow holds the deposits that have not been paid out, to the unit:
\* no sequence of fundings, splits and refunds leaves dust or a shortfall, and
\* no USDC is made or lost.
EscrowSolvent ==
    /\ usdc[EscrowAccount] = SumFunctionOnSet([m \in Mandates |-> Held(m)], Mandates)
    /\ SumFunctionOnSet(usdc, Holders) = SumFunctionOnSet(Balances, Holders)

\* How many signed calls brought a mandate where it is.
SignedSteps(m) ==
    LET mandate == mandates[m] IN
    CASE mandate.status = "None" -> 0
      [] mandate.status = "Funded" -> 1
      [] mandate.status \in {"Active", "Cancelled"} -> 2
      [] mandate.status \in {"Submitted", "Settled"} -> 3
      [] OTHER -> IF deposits[m].provider = NoActor THEN 1 ELSE 2

\* Each nonce of an actor and each nonce of the court paid for exactly one
\* step of one mandate: no authorization is replayed and none is skipped,
\* whatever mandates and actors the calls are spread over.
NonceAccounting ==
    /\ courtNonce = SumFunctionOnSet([m \in Mandates |-> SignedSteps(m)], Mandates)
    /\ courtNonce = SumFunctionOnSet(actorNonces, Actors)

\* A deposit can always leave the escrow when the protocol says it may: the
\* refund of an expired mandate and the execution of a final judgment on a
\* delivered one are never refused by another contract's guard.
FundsNeverStranded ==
    \A m \in Mandates :
        /\ Expired(mandates[m]) => ENABLED MarkExpired(m)
        /\ mandates[m].status = "Submitted" /\ cases[m].finalized =>
              ENABLED \E j \in FinalJudgments(m) : ExecuteFinalJudgment(j)

\* Once created, a mandate keeps its terms; the provider and the delivery are
\* set once and then kept (README, "Core Invariants" 2 and 3).
KeepsCommitments ==
    \A m \in Mandates :
        LET old == mandates[m]
            new == mandates'[m]
        IN
        old.status # "None" =>
          /\ new.principal = old.principal
          /\ new.mandateHash = old.mandateHash
          /\ new.amount = old.amount
          /\ new.acceptanceDeadline = old.acceptanceDeadline
          /\ new.deliveryDeadline = old.deliveryDeadline
          /\ old.provider # NoActor => new.provider = old.provider
          /\ old.deliveryHash # NoHash => new.deliveryHash = old.deliveryHash

\* No transaction changes what a mandate has committed to.
CommitmentsFrozen == [][KeepsCommitments]_vars

\* Delivered work leaves the Submitted state by a final judgment only, and a
\* released mandate never changes again.
LeavesByJudgment ==
    \A m \in Mandates :
        /\ mandates[m].status = "Submitted" =>
              \/ mandates'[m].status = "Submitted"
              \/ mandates'[m].status = "Settled" /\ cases[m].finalized
        /\ mandates[m].status \in Released => mandates'[m] = mandates[m]

\* Neither the principal nor the passing of the deadlines can take back the
\* deposit of delivered work.
DeliveredLeavesByJudgment == [][LeavesByJudgment]_vars

KeepsFinalizedCases ==
    \A m \in Mandates : cases[m].finalized => cases'[m] = cases[m]

\* A finalized case is the record the payment rests on: no later call of the
\* court, in whatever order its relayed calls arrive, changes any part of it.
FinalizedCaseFrozen == [][KeepsFinalizedCases]_vars

(***************************************************************************)
(* Refinement: the contracts keep the promise of MandatePromise.           *)
(***************************************************************************)
Stage(mandate) ==
    CASE mandate.status = "None" -> "empty"
      [] mandate.status \in {"Cancelled", "Expired"} -> "returned"
      [] mandate.status = "Settled" -> "enforced"
      [] mandate.status = "Submitted" -> "delivered"
      [] OTHER -> "held"

Promise ==
    INSTANCE MandatePromise WITH
        Amounts      <- {t.amount : t \in Terms} \ {0},
        Rulings      <- Verdicts,
        NoRuling     <- NoHash,
        ProviderPart <- SettlementBps,
        Whole        <- BPS,
        stage        <- [m \in Mandates |-> Stage(mandates[m])],
        amount       <- [m \in Mandates |-> deposits[m].amount],
        ruling       <- [m \in Mandates |-> cases[m].finalizedVerdictHash],
        paid         <- [m \in Mandates |->
                           [provider  |-> payouts[m].provider,
                            principal |-> payouts[m].principal]]

\* Every transaction on the four contracts is one step of the promise, seen
\* through the escrow's own books, or does not concern it.
PromiseKept == Promise!Spec

=============================================================================
