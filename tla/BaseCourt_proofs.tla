-------------------------- MODULE BaseCourt_proofs --------------------------
(***************************************************************************)
(* Proofs about BaseCourt for every set of mandates, wallets, terms and    *)
(* verdicts.                                                               *)
(***************************************************************************)
EXTENDS BaseCourt, FoldTheorems_proofs, TLAPS

(***************************************************************************)
(* The split of a deposit.                                                 *)
(***************************************************************************)

\* The provider's part of an amount never exceeds it, so the remainder that
\* MandateEscrow.settle refunds is never negative.
LEMMA ShareBound ==
    ASSUME NEW a \in Nat, NEW b \in 0 .. BPS
    PROVE  ProviderAmount(a, b) \in 0 .. a
<1> DEFINE q == (a * b) \div BPS
<1>0. BPS \in Nat \ {0} /\ a * b \in Nat
  BY CourtTypesAssumption, SMT
<1>1. q \in Int /\ BPS * q <= a * b /\ a * b < BPS * q + BPS
  BY <1>0, SMT
<1>2. a * b <= a * BPS
  BY <1>0, SMT
<1>3. q <= a
  <2> SUFFICES ASSUME q >= a + 1 PROVE FALSE
    BY <1>1
  <2>1. BPS * q >= BPS * (a + 1)
    BY <1>0, <1>1, SMT
  <2> QED BY <1>0, <1>1, <1>2, <2>1, SMT
<1>4. q >= 0
  BY <1>0, <1>1, SMT
<1> QED BY <1>1, <1>3, <1>4 DEF ProviderAmount

(***************************************************************************)
(* Type correctness.                                                       *)
(***************************************************************************)

\* A payment from a well typed deposit leaves every balance and every payout
\* a natural number.
LEMMA PayOutTypes ==
    ASSUME TypeOK, NEW m \in Mandates, NEW x \in Nat, NEW y \in Nat,
           PayOut(m, x, y)
    PROVE  /\ usdc' \in [Holders -> Nat]
           /\ payouts' \in [Mandates ->
                [times : Nat, provider : Nat, principal : Nat]]
<1>1. usdc' \in [Holders -> Nat]
  <2>1. EscrowAccount \notin Actors \cup {NoActor}
    BY CourtTypesAssumption
  <2>2. /\ deposits[m].provider \in Actors \cup {NoActor}
        /\ deposits[m].principal \in Actors \cup {NoActor}
        /\ usdc \in [Holders -> Nat]
    BY DEF TypeOK, EscrowTypeOK, Deposit
  <2> SUFFICES ASSUME NEW h \in Holders
               PROVE  usdc[h]
                      + (IF h = deposits[m].provider THEN x ELSE 0)
                      + (IF h = deposits[m].principal THEN y ELSE 0)
                      - (IF h = EscrowAccount THEN x + y ELSE 0) \in Nat
    BY DEF PayOut
  <2>3. CASE h = EscrowAccount
    BY <2>1, <2>2, <2>3 DEF PayOut, Holders
  <2>4. CASE h # EscrowAccount
    BY <2>1, <2>2, <2>4 DEF Holders
  <2> QED BY <2>3, <2>4
<1>2. payouts' \in [Mandates ->
        [times : Nat, provider : Nat, principal : Nat]]
  BY DEF TypeOK, EscrowTypeOK, PayOut
<1> QED BY <1>1, <1>2

\* The deployed contracts start with every variable of its type.
LEMMA InitTypes == Init => TypeOK
<1> SUFFICES ASSUME Init PROVE TypeOK
  OBVIOUS
<1> USE DEF Init
<1>1. now \in 0 .. MaxTime
  BY BaseCourtAssumption
<1>2. EscrowTypeOK
  BY BaseCourtAssumption
  DEF EscrowInit, EscrowTypeOK, Deposit, NoDeposit, NoPayout
<1>3. RegistryTypeOK
  BY DEF RegistryInit, RegistryTypeOK, Mandate, NoMandate, Status
<1>4. DisputeTypeOK
  BY DEF DisputeInit, DisputeTypeOK, CaseRecord, NoCase
<1>5. AdapterTypeOK
  BY DEF AdapterInit, AdapterTypeOK
<1> QED BY <1>1, <1>2, <1>3, <1>4, <1>5 DEF TypeOK

\* Each signed call keeps the types of MandateRegistry's storage.
LEMMA RegistryCallTypes ==
    ASSUME TypeOK, NEW m \in Mandates, NEW auth \in Authorizations(m)
    PROVE  /\ \A t \in Terms : RegisterMandate(auth, t) => RegistryTypeOK'
           /\ RegisterAcceptance(auth) => RegistryTypeOK'
           /\ \A h \in DeliveryHashes :
                 RegisterDelivery(auth, h) => RegistryTypeOK'
           /\ RegisterCancellation(auth) => RegistryTypeOK'
<1> USE DEF TypeOK, RegistryTypeOK, Mandate, Status
<1>0. auth.mandateId = m /\ auth.actor \in Actors
  BY DEF Authorizations
<1>1. Authorize(auth) =>
        actorNonces' \in [Actors -> Nat] /\ courtNonce' \in Nat
  BY <1>0 DEF Authorize
<1>2. ASSUME NEW t \in Terms, RegisterMandate(auth, t)
      PROVE  RegistryTypeOK'
  BY <1>0, <1>1, <1>2, CourtTypesAssumption DEF RegisterMandate, TermsType
<1>3. ASSUME RegisterAcceptance(auth) PROVE RegistryTypeOK'
  BY <1>0, <1>1, <1>3 DEF RegisterAcceptance
<1>4. ASSUME NEW h \in DeliveryHashes, RegisterDelivery(auth, h)
      PROVE  RegistryTypeOK'
  BY <1>0, <1>1, <1>4 DEF RegisterDelivery
<1>5. ASSUME RegisterCancellation(auth) PROVE RegistryTypeOK'
  BY <1>0, <1>1, <1>5 DEF RegisterCancellation
<1> QED BY <1>2, <1>3, <1>4, <1>5

\* Each call of the escrow keeps the types of its storage: what fund, settle and
\* refund subtract from a balance is never more than the balance.
LEMMA EscrowCallTypes ==
    ASSUME TypeOK, NEW m \in Mandates
    PROVE  /\ \A a \in Actors, n \in Nat : Fund(m, a, n) => EscrowTypeOK'
           /\ \A a \in Actors : BindProvider(m, a) => EscrowTypeOK'
           /\ \A b \in Nat : Settle(m, b) => EscrowTypeOK'
           /\ Refund(m) => EscrowTypeOK'
<1> USE DEF TypeOK, EscrowTypeOK, Deposit
<1>1. ASSUME NEW a \in Actors, NEW n \in Nat, Fund(m, a, n)
      PROVE  EscrowTypeOK'
  BY <1>1, CourtTypesAssumption DEF Fund, Holders
<1>2. ASSUME NEW a \in Actors, BindProvider(m, a)
      PROVE  EscrowTypeOK'
  <2>1. deposits' \in [Mandates -> Deposit]
    <3>1. [deposits[m] EXCEPT !.provider = a] \in Deposit
      OBVIOUS
    <3>2. deposits' = [deposits EXCEPT ![m] = [deposits[m] EXCEPT !.provider = a]]
      BY <1>2 DEF BindProvider
    <3>3. deposits \in [Mandates -> Deposit]
      OBVIOUS
    <3> HIDE DEF TypeOK, EscrowTypeOK, Deposit
    <3> QED BY <3>1, <3>2, <3>3
  <2> QED BY <1>2, <2>1 DEF BindProvider
<1>3. ASSUME NEW b \in Nat, Settle(m, b)
      PROVE  EscrowTypeOK'
  <2> DEFINE share == ProviderAmount(deposits[m].amount, b)
  <2>0. deposits[m].amount \in Nat /\ b \in 0 .. BPS
    BY <1>3, CourtTypesAssumption DEF Settle
  <2>1. share \in 0 .. deposits[m].amount
    BY <2>0, ShareBound
  <2>2. share \in Nat /\ deposits[m].amount - share \in Nat
    BY <2>0, <2>1
  <2>3. PayOut(m, share, deposits[m].amount - share)
    BY <1>3 DEF Settle
  <2>4. /\ usdc' \in [Holders -> Nat]
        /\ payouts' \in [Mandates ->
              [times : Nat, provider : Nat, principal : Nat]]
    BY <2>2, <2>3, PayOutTypes
  <2> QED BY <1>3, <2>4 DEF Settle
<1>4. ASSUME Refund(m) PROVE EscrowTypeOK'
  <2>1. deposits[m].amount \in Nat
    OBVIOUS
  <2>2. /\ usdc' \in [Holders -> Nat]
        /\ payouts' \in [Mandates ->
              [times : Nat, provider : Nat, principal : Nat]]
    BY <1>4, <2>1, PayOutTypes DEF Refund
  <2> QED BY <1>4, <2>2 DEF Refund
<1> QED BY <1>1, <1>2, <1>3, <1>4

\* What the court attests: the share is the one its verdict carries.
LEMMA JudgmentTypes ==
    ASSUME NEW m \in Mandates, NEW j \in FinalJudgments(m)
    PROVE  /\ j.mandateId = m
           /\ j.deliveryHash \in DeliveryHashes
           /\ j.verdictHash \in Verdicts
           /\ j.nonce \in Nat
           /\ j.providerBps = SettlementBps[j.verdictHash]
           /\ j.providerBps \in Nat
<1>1. /\ j.mandateId = m
      /\ j.deliveryHash \in DeliveryHashes
      /\ j.verdictHash \in Verdicts
      /\ j.nonce \in SettlementNonces
      /\ j.providerBps = SettlementBps[j.verdictHash]
  BY DEF FinalJudgments
<1>2. j.nonce \in Nat
  BY <1>1, BaseCourtAssumption
<1>3. j.providerBps \in 0 .. BPS
  BY <1>1, CourtTypesAssumption
<1> QED BY <1>1, <1>2, <1>3, CourtTypesAssumption

\* Every transaction keeps every type, by the lemmas on the calls it makes.
LEMMA NextTypes == TypeOK /\ [Next]_vars => TypeOK'
<1> SUFFICES ASSUME TypeOK, [Next]_vars PROVE TypeOK'
  OBVIOUS
<1> USE DEF TypeOK
<1>1. ASSUME NEW link \in Links, WireAdapter(link) PROVE TypeOK'
  BY <1>1 DEF WireAdapter, SetLink, AdapterTypeOK, escrowVars, registryVars,
       EscrowTypeOK, RegistryTypeOK, DisputeTypeOK
<1>2. ASSUME WireEscrow PROVE TypeOK'
  BY <1>2 DEF WireEscrow, SetRegistry, AdapterTypeOK, adapterVars,
       registryVars, EscrowTypeOK, RegistryTypeOK, DisputeTypeOK
<1>3. ASSUME NEW m \in Mandates, Transaction(m) PROVE TypeOK'
  <2>1. ASSUME NEW auth \in Authorizations(m), NEW t \in Terms,
               CreateMandate(auth, t)
        PROVE  TypeOK'
    <3>1. /\ auth.mandateId = m /\ auth.actor \in Actors
          /\ t.amount \in Nat
      BY CourtTypesAssumption DEF Authorizations, TermsType
    <3>2. RegistryTypeOK'
      BY <2>1, RegistryCallTypes DEF CreateMandate
    <3>3. EscrowTypeOK'
      BY <2>1, <3>1, EscrowCallTypes DEF CreateMandate
    <3> QED BY <2>1, <3>2, <3>3
            DEF CreateMandate, adapterVars, AdapterTypeOK, DisputeTypeOK
  <2>2. ASSUME NEW auth \in Authorizations(m), AcceptMandate(auth)
        PROVE  TypeOK'
    <3>1. auth.mandateId = m /\ auth.actor \in Actors
      BY DEF Authorizations
    <3>2. RegistryTypeOK'
      BY <2>2, RegistryCallTypes DEF AcceptMandate
    <3>3. EscrowTypeOK'
      BY <2>2, <3>1, EscrowCallTypes DEF AcceptMandate
    <3> QED BY <2>2, <3>2, <3>3
            DEF AcceptMandate, adapterVars, AdapterTypeOK, DisputeTypeOK
  <2>3. ASSUME NEW auth \in Authorizations(m), NEW hash \in DeliveryHashes,
               SubmitDelivery(auth, hash)
        PROVE  TypeOK'
    <3>1. RegistryTypeOK'
      BY <2>3, RegistryCallTypes DEF SubmitDelivery
    <3> QED BY <2>3, <3>1
            DEF SubmitDelivery, adapterVars, escrowVars, AdapterTypeOK,
                EscrowTypeOK, DisputeTypeOK
  <2>4. ASSUME NEW auth \in Authorizations(m), CancelMandate(auth)
        PROVE  TypeOK'
    <3>1. auth.mandateId = m
      BY DEF Authorizations
    <3>2. RegistryTypeOK'
      BY <2>4, RegistryCallTypes DEF CancelMandate
    <3>3. EscrowTypeOK'
      BY <2>4, <3>1, EscrowCallTypes DEF CancelMandate
    <3> QED BY <2>4, <3>2, <3>3
            DEF CancelMandate, adapterVars, AdapterTypeOK, DisputeTypeOK
  <2>5. ASSUME MarkExpired(m) PROVE TypeOK'
    <3>1. RegistryTypeOK'
      BY <2>5 DEF MarkExpired, RegisterExpiry, RegistryTypeOK, Mandate, Status
    <3>2. EscrowTypeOK'
      BY <2>5, EscrowCallTypes DEF MarkExpired
    <3> QED BY <2>5, <3>1, <3>2
            DEF MarkExpired, adapterVars, AdapterTypeOK, DisputeTypeOK
  <2>6. ASSUME CourtRecord(m) PROVE TypeOK'
    <3>1. DisputeTypeOK'
      <4> USE DEF DisputeTypeOK, CaseRecord
      <4>1. ASSUME NEW tx \in GenLayerTxs, LinkCase(m, tx)
            PROVE  DisputeTypeOK'
        BY <4>1 DEF LinkCase
      <4>2. ASSUME NEW v \in Verdicts, RecordAccepted(m, v)
            PROVE  DisputeTypeOK'
        BY <4>2 DEF RecordAccepted
      <4>3. ASSUME NEW g \in Grounds, RecordPrincipalAppeal(m, g)
            PROVE  DisputeTypeOK'
        BY <4>3 DEF RecordPrincipalAppeal
      <4>4. ASSUME NEW g \in Grounds, RecordProviderAppeal(m, g)
            PROVE  DisputeTypeOK'
        BY <4>4 DEF RecordProviderAppeal
      <4>5. ASSUME NEW v \in Verdicts, RecordFinalized(m, v)
            PROVE  DisputeTypeOK'
        BY <4>5 DEF RecordFinalized
      <4> QED BY <2>6, <4>1, <4>2, <4>3, <4>4, <4>5 DEF CourtRecord
    <3> QED BY <2>6, <3>1
            DEF CourtRecord, adapterVars, escrowVars, registryVars,
                AdapterTypeOK, EscrowTypeOK, RegistryTypeOK
  <2>7. ASSUME NEW j \in FinalJudgments(m), ExecuteFinalJudgment(j)
        PROVE  TypeOK'
    <3>1. /\ j.mandateId = m /\ j.nonce \in Nat /\ j.providerBps \in Nat
      BY JudgmentTypes
    <3>2. EscrowTypeOK'
      BY <2>7, <3>1, EscrowCallTypes DEF ExecuteFinalJudgment, SettleEscrow
    <3>3. RegistryTypeOK'
      BY <2>7, <3>1 DEF ExecuteFinalJudgment, SettleEscrow, SetStatus,
           registryVars, RegistryTypeOK, Mandate, Status
    <3>4. AdapterTypeOK'
      BY <2>7, <3>1 DEF ExecuteFinalJudgment, AdapterTypeOK
    <3> QED BY <2>7, <3>2, <3>3, <3>4
            DEF ExecuteFinalJudgment, DisputeTypeOK
  <2> QED BY <1>3, <2>1, <2>2, <2>3, <2>4, <2>5, <2>6, <2>7 DEF Transaction
<1>4. ASSUME Tick PROVE TypeOK'
  BY <1>4, BaseCourtAssumption
  DEF Tick, adapterVars, escrowVars, registryVars, AdapterTypeOK,
      EscrowTypeOK, RegistryTypeOK, DisputeTypeOK
<1>5. ASSUME UNCHANGED vars PROVE TypeOK'
  BY <1>5 DEF vars, adapterVars, escrowVars, registryVars, AdapterTypeOK,
       EscrowTypeOK, RegistryTypeOK, DisputeTypeOK
<1> QED BY <1>1, <1>2, <1>3, <1>4, <1>5 DEF Next

\* In every behaviour of the contracts every variable keeps its type; in
\* particular no balance and no refund ever becomes negative.
THEOREM TypeCorrect == Spec => []TypeOK
<1> QED BY InitTypes, NextTypes, PTL DEF Spec

(***************************************************************************)
(* The books of one mandate.  CourtInv relates the registry, the escrow,   *)
(* the case and the adapter mandate by mandate, so a transaction disturbs  *)
(* it only at its own mandate.                                             *)
(***************************************************************************)
StatusBooks(mandate, d) ==
    /\ d.funded <=> mandate.status # "None"
    /\ d.settled <=> mandate.status \in Released
    /\ d.funded => /\ d.principal = mandate.principal
                   /\ d.amount = mandate.amount
    /\ mandate.status \in {"Funded", "Cancelled"} => d.provider = NoActor
    /\ mandate.status \in {"Active", "Submitted", "Settled"} =>
          d.provider = mandate.provider /\ d.provider # NoActor

PayoutBooks(mandate, p, case) ==
    LET share == ProviderAmount(mandate.amount,
                                SettlementBps[case.finalizedVerdictHash])
    IN
    /\ mandate.status = "Settled" =>
          p = [times |-> 1, provider |-> share,
               principal |-> mandate.amount - share]
    /\ mandate.status \in {"Cancelled", "Expired"} =>
          p = [times |-> 1, provider |-> 0, principal |-> mandate.amount]
    /\ mandate.status \notin Released => p = NoPayout

JudgmentBooks(mandate, case, s) ==
    /\ mandate.status = "Settled" =>
          mandate.deliveryHash # NoHash /\ case.finalized
    /\ s <=> mandate.status = "Settled"

RecordBooks(mandate, case) ==
    /\ mandate.status \notin {"Offered", "UnderReview", "Finalized"}
    /\ mandate.deliveryHash # NoHash <=>
          mandate.status \in {"Submitted", "Settled"}
    /\ case.finalized <=> case.finalizedVerdictHash # NoHash
    /\ case.finalized => case.genlayerTransactionId # NoHash

Books(m) ==
    /\ StatusBooks(mandates[m], deposits[m])
    /\ PayoutBooks(mandates[m], payouts[m], cases[m])
    /\ JudgmentBooks(mandates[m], cases[m], settled[m])
    /\ RecordBooks(mandates[m], cases[m])
    /\ deposits[m].funded => escrowRegistry

\* The invariant is the types and the books of each mandate.
LEMMA BooksAreInv ==
    CourtInv <=> TypeOK /\ \A m \in Mandates : Books(m)
<1>1. StatusMatchesDeposit <=>
        \A m \in Mandates : StatusBooks(mandates[m], deposits[m])
  BY DEF StatusMatchesDeposit, StatusBooks
<1>2. PayoutMatchesOutcome <=>
        \A m \in Mandates : PayoutBooks(mandates[m], payouts[m], cases[m])
  BY Zenon DEF PayoutMatchesOutcome, PayoutBooks, Released
<1>3. OnlyJudgedWorkIsSettled <=>
        \A m \in Mandates : JudgmentBooks(mandates[m], cases[m], settled[m])
  BY DEF OnlyJudgedWorkIsSettled, JudgmentBooks
<1>4. RecordsConsistent <=>
        \A m \in Mandates : /\ RecordBooks(mandates[m], cases[m])
                            /\ deposits[m].funded => escrowRegistry
  BY DEF RecordsConsistent, RecordBooks, Linked
<1> QED BY <1>1, <1>2, <1>3, <1>4 DEF CourtInv, Books

\* The same after a step.
LEMMA BooksAreInvPrimed ==
    CourtInv' <=> TypeOK' /\ \A m \in Mandates : Books(m)'
<1>1. CourtInv' <=> (TypeOK /\ \A m \in Mandates : Books(m))'
  BY BooksAreInv, PTL
<1> QED BY <1>1

\* A mandate that a step leaves alone keeps its books.
LEMMA BooksFrame ==
    ASSUME NEW m \in Mandates, Books(m),
           mandates'[m] = mandates[m], deposits'[m] = deposits[m],
           payouts'[m] = payouts[m], cases'[m] = cases[m],
           settled'[m] = settled[m], escrowRegistry => escrowRegistry'
    PROVE  Books(m)'
BY DEF Books, StatusBooks, PayoutBooks, JudgmentBooks, RecordBooks, Released,
       Refundable

\* A mandate nobody has created has its books in order.
LEMMA BooksInit == Init => \A m \in Mandates : Books(m)
BY DEF Init, EscrowInit, RegistryInit, DisputeInit, AdapterInit, NoDeposit,
       NoMandate, NoCase, NoPayout, Books, StatusBooks, PayoutBooks,
       JudgmentBooks, RecordBooks, Released

\* createMandate opens the books of a mandate that had none: registry and escrow
\* write the same principal and amount.
LEMMA CreateKeepsBooks ==
    ASSUME TypeOK, NEW m \in Mandates, Books(m),
           NEW auth \in Authorizations(m), NEW t \in Terms,
           CreateMandate(auth, t)
    PROVE  \A n \in Mandates : Books(n) => Books(n)'
<1>0. auth.mandateId = m
  BY DEF Authorizations
<1> SUFFICES ASSUME NEW n \in Mandates, Books(n) PROVE Books(n)'
  OBVIOUS
<1> USE DEF TypeOK, EscrowTypeOK, RegistryTypeOK
<1>1. CASE n # m
  BY <1>0, <1>1, BooksFrame
  DEF CreateMandate, RegisterMandate, Fund, adapterVars
<1>2. CASE n = m
  <2>1. /\ mandates[m].status = "None"
        /\ mandates'[m].status = "Funded"
        /\ mandates'[m].deliveryHash = NoHash
        /\ mandates'[m].principal = auth.actor
        /\ mandates'[m].amount = t.amount
    BY <1>0 DEF CreateMandate, RegisterMandate
  <2>2. /\ deposits'[m] = [principal |-> auth.actor, provider |-> NoActor,
                           amount |-> t.amount, funded |-> TRUE,
                           settled |-> FALSE]
        /\ escrowRegistry'
    BY <1>0 DEF CreateMandate, Fund
  <2>3. /\ payouts'[m] = payouts[m]
        /\ cases'[m] = cases[m]
        /\ settled'[m] = settled[m]
    BY DEF CreateMandate, Fund, adapterVars
  <2> QED BY <1>2, <2>1, <2>2, <2>3
          DEF Books, StatusBooks, PayoutBooks, JudgmentBooks, RecordBooks,
              Released
<1> QED BY <1>1, <1>2

\* acceptMandate names one provider in the registry and the escrow.
LEMMA AcceptKeepsBooks ==
    ASSUME TypeOK, NEW m \in Mandates, Books(m),
           NEW auth \in Authorizations(m), AcceptMandate(auth)
    PROVE  \A n \in Mandates : Books(n) => Books(n)'
<1>0. auth.mandateId = m /\ auth.actor \in Actors
  BY DEF Authorizations
<1> SUFFICES ASSUME NEW n \in Mandates, Books(n) PROVE Books(n)'
  OBVIOUS
<1> USE DEF TypeOK, EscrowTypeOK, RegistryTypeOK
<1>1. CASE n # m
  BY <1>0, <1>1, BooksFrame
  DEF AcceptMandate, RegisterAcceptance, BindProvider, adapterVars
<1>2. CASE n = m
  <2>1. /\ mandates[m].status = "Funded"
        /\ mandates'[m] = [mandates[m] EXCEPT !.provider = auth.actor,
                                              !.status = "Active"]
        /\ mandates[m] \in Mandate
    BY <1>0 DEF AcceptMandate, RegisterAcceptance
  <2>2. /\ deposits'[m] = [deposits[m] EXCEPT !.provider = auth.actor]
        /\ deposits[m] \in Deposit
        /\ auth.actor # NoActor
        /\ escrowRegistry'
    BY <1>0 DEF AcceptMandate, BindProvider
  <2>3. /\ payouts'[m] = payouts[m]
        /\ cases'[m] = cases[m]
        /\ settled'[m] = settled[m]
    BY DEF AcceptMandate, BindProvider, adapterVars
  <2> QED BY <1>2, <2>1, <2>2, <2>3
          DEF Books, StatusBooks, PayoutBooks, JudgmentBooks, RecordBooks,
              Released, Mandate, Deposit
<1> QED BY <1>1, <1>2

\* submitDelivery sets the hash and the status together.
LEMMA DeliveryKeepsBooks ==
    ASSUME TypeOK, NEW m \in Mandates, Books(m),
           NEW auth \in Authorizations(m), NEW hash \in DeliveryHashes,
           SubmitDelivery(auth, hash)
    PROVE  \A n \in Mandates : Books(n) => Books(n)'
<1>0. auth.mandateId = m /\ hash # NoHash
  BY CourtTypesAssumption DEF Authorizations
<1> SUFFICES ASSUME NEW n \in Mandates, Books(n) PROVE Books(n)'
  OBVIOUS
<1> USE DEF TypeOK, EscrowTypeOK, RegistryTypeOK
<1>1. CASE n # m
  BY <1>0, <1>1, BooksFrame
  DEF SubmitDelivery, RegisterDelivery, escrowVars, adapterVars
<1>2. CASE n = m
  <2>1. /\ mandates[m].status = "Active"
        /\ mandates'[m] = [mandates[m] EXCEPT !.deliveryHash = hash,
                                              !.status = "Submitted"]
        /\ mandates[m] \in Mandate
    BY <1>0 DEF SubmitDelivery, RegisterDelivery
  <2>2. /\ deposits'[m] = deposits[m]
        /\ escrowRegistry' = escrowRegistry
        /\ payouts'[m] = payouts[m]
        /\ cases'[m] = cases[m]
        /\ settled'[m] = settled[m]
    BY DEF SubmitDelivery, escrowVars, adapterVars
  <2> QED BY <1>0, <1>2, <2>1, <2>2
          DEF Books, StatusBooks, PayoutBooks, JudgmentBooks, RecordBooks,
              Released, Mandate
<1> QED BY <1>1, <1>2

\* Cancellation and expiry end a mandate the same way: a live mandate without
\* a delivery gets another final status and its whole deposit is refunded.
LEMMA RefundKeepsBooks ==
    ASSUME TypeOK, NEW m \in Mandates, Books(m),
           NEW status \in {"Cancelled", "Expired"},
           mandates[m].status \in {"Funded", "Active"},
           status = "Cancelled" => mandates[m].status = "Funded",
           mandates' = [mandates EXCEPT ![m].status = status],
           Refund(m), UNCHANGED <<cases, settled>>
    PROVE  \A n \in Mandates : Books(n) => Books(n)'
<1> SUFFICES ASSUME NEW n \in Mandates, Books(n) PROVE Books(n)'
  OBVIOUS
<1> USE DEF TypeOK, EscrowTypeOK, RegistryTypeOK
<1>1. CASE n # m
  BY <1>1, BooksFrame DEF Refund, PayOut
<1>2. CASE n = m
  <2>1. /\ mandates'[m] = [mandates[m] EXCEPT !.status = status]
        /\ mandates[m] \in Mandate
    OBVIOUS
  <2>2. /\ deposits'[m] = [deposits[m] EXCEPT !.settled = TRUE]
        /\ deposits[m] \in Deposit
        /\ deposits[m].funded
        /\ escrowRegistry'
    BY DEF Refund, Refundable
  <2>3. /\ payouts[m] = NoPayout
        /\ deposits[m].amount = mandates[m].amount
        /\ deposits[m].amount \in Nat
    BY <2>2 DEF Books, PayoutBooks, StatusBooks, Released, Deposit
  <2>4. payouts'[m] = [times     |-> payouts[m].times + 1,
                       provider  |-> payouts[m].provider + 0,
                       principal |-> payouts[m].principal
                                       + deposits[m].amount]
    BY DEF Refund, PayOut
  <2>5. payouts'[m] = [times |-> 1, provider |-> 0,
                       principal |-> mandates[m].amount]
    BY <2>3, <2>4 DEF NoPayout
  <2> QED BY <1>2, <2>1, <2>2, <2>5
          DEF Books, StatusBooks, PayoutBooks, JudgmentBooks, RecordBooks,
              Released, Mandate, Deposit
<1> QED BY <1>1, <1>2

\* The records of the court move no money and touch no final case, which the
\* payout of a settled mandate is read against.
LEMMA RecordKeepsBooks ==
    ASSUME TypeOK, NEW m \in Mandates, Books(m), CourtRecord(m)
    PROVE  \A n \in Mandates : Books(n) => Books(n)'
<1> SUFFICES ASSUME NEW n \in Mandates, Books(n) PROVE Books(n)'
  OBVIOUS
<1>1. /\ mandates' = mandates /\ deposits' = deposits
      /\ payouts' = payouts /\ settled' = settled
      /\ escrowRegistry' = escrowRegistry
  BY DEF CourtRecord, escrowVars, registryVars, adapterVars
<1>2. cases'[n] = cases[n] \/ n = m
  BY DEF CourtRecord, LinkCase, RecordAccepted, RecordPrincipalAppeal,
         RecordProviderAppeal, RecordFinalized, TypeOK, DisputeTypeOK
<1>3. CASE n = m
  <2>1. cases[m] \in CaseRecord
    BY DEF TypeOK, DisputeTypeOK
  <2>2. \/ /\ cases'[m].finalized = cases[m].finalized
           /\ cases'[m].finalizedVerdictHash = cases[m].finalizedVerdictHash
           /\ Linked(m) => Linked(m)'
        \/ /\ ~cases[m].finalized
           /\ cases'[m].finalized
           /\ cases'[m].finalizedVerdictHash \in Verdicts
           /\ Linked(m)'
    <3> USE DEF TypeOK, DisputeTypeOK, CaseRecord, Linked
    <3>1. ASSUME NEW tx \in GenLayerTxs, LinkCase(m, tx) PROVE <2>2!1
      BY <3>1 DEF LinkCase
    <3>2. ASSUME NEW v \in Verdicts, RecordAccepted(m, v) PROVE <2>2!1
      BY <3>2 DEF RecordAccepted
    <3>3. ASSUME NEW g \in Grounds, RecordPrincipalAppeal(m, g) PROVE <2>2!1
      BY <3>3 DEF RecordPrincipalAppeal
    <3>4. ASSUME NEW g \in Grounds, RecordProviderAppeal(m, g) PROVE <2>2!1
      BY <3>4 DEF RecordProviderAppeal
    <3>5. ASSUME NEW v \in Verdicts, RecordFinalized(m, v) PROVE <2>2!2
      BY <3>5 DEF RecordFinalized
    <3> QED BY <3>1, <3>2, <3>3, <3>4, <3>5 DEF CourtRecord
  <2>3. NoHash \notin Verdicts
    BY CourtTypesAssumption
  <2> QED BY <1>1, <1>3, <2>1, <2>2, <2>3
          DEF Books, StatusBooks, PayoutBooks, JudgmentBooks, RecordBooks,
              Released, CaseRecord, Linked
<1> QED BY <1>1, <1>2, <1>3, BooksFrame

\* What an executed judgment does to its own mandate.  The adapter does not
\* look at the status: that the mandate was Submitted follows from the
\* delivery hash it compares and from the escrow's refusal of a deposit that
\* has been paid out.
LEMMA JudgmentEffect ==
    ASSUME TypeOK, NEW m \in Mandates, Books(m),
           NEW j \in FinalJudgments(m), ExecuteFinalJudgment(j)
    PROVE  LET share == ProviderAmount(mandates[m].amount,
                          SettlementBps[cases[m].finalizedVerdictHash])
           IN
           /\ mandates[m].status = "Submitted"
           /\ mandates[m].deliveryHash # NoHash
           /\ cases[m].finalized
           /\ deposits[m].amount = mandates[m].amount
           /\ mandates' = [mandates EXCEPT ![m].status = "Settled"]
           /\ deposits' = [deposits EXCEPT ![m].settled = TRUE]
           /\ settled' = [settled EXCEPT ![m] = TRUE]
           /\ cases' = cases
           /\ payouts' = [payouts EXCEPT ![m] =
                            [times |-> 1, provider |-> share,
                             principal |-> mandates[m].amount - share]]
<1> DEFINE share == ProviderAmount(deposits[m].amount, j.providerBps)
<1>0. /\ j.mandateId = m
      /\ j.deliveryHash # NoHash
      /\ j.providerBps = SettlementBps[j.verdictHash]
      /\ j.providerBps \in Nat
  BY JudgmentTypes, CourtTypesAssumption
<1>1. /\ cases[m].finalized
      /\ cases[m].finalizedVerdictHash = j.verdictHash
      /\ mandates[m].deliveryHash = j.deliveryHash
  BY <1>0 DEF ExecuteFinalJudgment, CommitmentsMatch, JudgmentFinal
<1>2. /\ Settleable(deposits[m])
      /\ j.providerBps <= BPS
      /\ PayOut(m, share, deposits[m].amount - share)
      /\ deposits' = [deposits EXCEPT ![m].settled = TRUE]
  BY <1>0 DEF ExecuteFinalJudgment, SettleEscrow, Settle
<1>3. /\ deposits[m] \in Deposit
      /\ mandates[m] \in Mandate
  BY DEF TypeOK, EscrowTypeOK, RegistryTypeOK
<1>4. /\ mandates[m].status \notin Released
      /\ mandates[m].status # "None"
      /\ deposits[m].amount = mandates[m].amount
      /\ payouts[m] = NoPayout
  BY <1>2, <1>3 DEF Settleable, Books, StatusBooks, PayoutBooks, Deposit
<1>5. mandates[m].status = "Submitted"
  BY <1>0, <1>1, <1>4 DEF Books, RecordBooks, Released
<1>6. \/ mandates' = [mandates EXCEPT ![m].status = "Settled"]
      \/ ~escrowRegistry /\ mandates' = mandates
  BY <1>0 DEF ExecuteFinalJudgment, SettleEscrow, SetStatus, registryVars
<1>7. escrowRegistry
  BY <1>2 DEF Settleable, Books
<1>8. /\ settled' = [settled EXCEPT ![m] = TRUE]
      /\ cases' = cases
  BY <1>0 DEF ExecuteFinalJudgment
<1>9. share \in Nat /\ deposits[m].amount - share \in Nat
  <2>1. deposits[m].amount \in Nat /\ j.providerBps \in 0 .. BPS
    BY <1>0, <1>2, <1>3, CourtTypesAssumption DEF Deposit
  <2>2. share \in 0 .. deposits[m].amount
    BY <2>1, ShareBound
  <2> QED BY <2>1, <2>2
<1>10. payouts' = [payouts EXCEPT ![m] =
                     [times |-> 1, provider |-> share,
                      principal |-> deposits[m].amount - share]]
  <2> DEFINE rest == deposits[m].amount - share
  <2> HIDE DEF share
  <2>1. payouts' = [payouts EXCEPT ![m] =
                      [times     |-> payouts[m].times + 1,
                       provider  |-> payouts[m].provider + share,
                       principal |-> payouts[m].principal + rest]]
    BY <1>2 DEF PayOut
  <2>2. /\ payouts[m].times + 1 = 1
        /\ payouts[m].provider + share = share
        /\ payouts[m].principal + rest = rest
    BY <1>4, <1>9 DEF NoPayout
  <2> QED BY <2>1, <2>2
<1> QED BY <1>0, <1>1, <1>2, <1>4, <1>5, <1>6, <1>7, <1>8, <1>10

\* executeFinalJudgment closes registry, escrow and adapter at once, with the
\* split of the finalized verdict.
LEMMA JudgmentKeepsBooks ==
    ASSUME TypeOK, NEW m \in Mandates, Books(m),
           NEW j \in FinalJudgments(m), ExecuteFinalJudgment(j)
    PROVE  \A n \in Mandates : Books(n) => Books(n)'
<1> SUFFICES ASSUME NEW n \in Mandates, Books(n) PROVE Books(n)'
  OBVIOUS
<1> DEFINE share == ProviderAmount(mandates[m].amount,
                      SettlementBps[cases[m].finalizedVerdictHash])
<1>0. /\ escrowRegistry' = escrowRegistry
      /\ mandates \in [Mandates -> Mandate]
      /\ deposits \in [Mandates -> Deposit]
      /\ settled \in [Mandates -> BOOLEAN]
      /\ DOMAIN payouts = Mandates
  BY DEF ExecuteFinalJudgment, SettleEscrow, Settle, TypeOK, EscrowTypeOK,
         RegistryTypeOK, AdapterTypeOK
<1>3. /\ mandates[m].status = "Submitted"
      /\ mandates[m].deliveryHash # NoHash
      /\ cases[m].finalized
      /\ mandates' = [mandates EXCEPT ![m].status = "Settled"]
      /\ deposits' = [deposits EXCEPT ![m].settled = TRUE]
      /\ settled' = [settled EXCEPT ![m] = TRUE]
      /\ cases' = cases
      /\ payouts' = [payouts EXCEPT ![m] =
                       [times |-> 1, provider |-> share,
                        principal |-> mandates[m].amount - share]]
  BY JudgmentEffect
<1> HIDE DEF share
<1>1. CASE n # m
  BY <1>0, <1>1, <1>3, BooksFrame
<1>2. CASE n = m
  <2>1. /\ mandates'[m] = [mandates[m] EXCEPT !.status = "Settled"]
        /\ deposits'[m] = [deposits[m] EXCEPT !.settled = TRUE]
        /\ settled'[m] = TRUE
        /\ mandates[m] \in Mandate
        /\ deposits[m] \in Deposit
    BY <1>0, <1>3
  <2>2. payouts'[m] = [times |-> 1, provider |-> share,
                       principal |-> mandates[m].amount - share]
    BY <1>0, <1>3
  <2> QED BY <1>0, <1>2, <1>3, <2>1, <2>2
          DEF Books, StatusBooks, PayoutBooks, JudgmentBooks, RecordBooks,
              Released, Mandate, Deposit, share
<1> QED BY <1>1, <1>2

\* Whatever transaction is sent for a mandate, it keeps the books of all.
LEMMA TransactionKeepsBooks ==
    ASSUME TypeOK, NEW m \in Mandates, Books(m), Transaction(m)
    PROVE  \A n \in Mandates : Books(n) => Books(n)'
<1>1. ASSUME NEW auth \in Authorizations(m), CancelMandate(auth)
      PROVE  \A n \in Mandates : Books(n) => Books(n)'
  <2>1. auth.mandateId = m
    BY DEF Authorizations
  <2>2. /\ mandates[m].status = "Funded"
        /\ mandates' = [mandates EXCEPT ![m].status = "Cancelled"]
        /\ Refund(m)
        /\ UNCHANGED <<cases, settled>>
    BY <1>1, <2>1 DEF CancelMandate, RegisterCancellation, adapterVars
  <2> QED BY <2>2, RefundKeepsBooks
<1>2. ASSUME MarkExpired(m)
      PROVE  \A n \in Mandates : Books(n) => Books(n)'
  <2>1. /\ mandates[m].status \in {"Funded", "Active"}
        /\ mandates' = [mandates EXCEPT ![m].status = "Expired"]
        /\ Refund(m)
        /\ UNCHANGED <<cases, settled>>
    BY <1>2 DEF MarkExpired, RegisterExpiry, Expired, adapterVars
  <2> QED BY <2>1, RefundKeepsBooks
<1> QED BY <1>1, <1>2, CreateKeepsBooks, AcceptKeepsBooks,
           DeliveryKeepsBooks, RecordKeepsBooks, JudgmentKeepsBooks
        DEF Transaction

\* The invariant is inductive: deployment and time touch no books.
LEMMA NextInv == CourtInv /\ [Next]_vars => CourtInv'
<1> SUFFICES ASSUME CourtInv, [Next]_vars PROVE CourtInv'
  OBVIOUS
<1>0. TypeOK /\ \A m \in Mandates : Books(m)
  BY BooksAreInv
<1>1. TypeOK'
  BY <1>0, NextTypes
<1>2. \A m \in Mandates : Books(m)'
  <2>1. ASSUME NEW m \in Mandates, Transaction(m)
        PROVE  \A n \in Mandates : Books(n)'
    BY <1>0, <2>1, TransactionKeepsBooks
  <2>2. ASSUME \/ \E link \in Links : WireAdapter(link)
               \/ WireEscrow \/ Tick \/ UNCHANGED vars
        PROVE  \A n \in Mandates : Books(n)'
    <3>1. /\ mandates' = mandates /\ deposits' = deposits
          /\ payouts' = payouts /\ cases' = cases /\ settled' = settled
          /\ escrowRegistry => escrowRegistry'
      BY <2>2 DEF WireAdapter, SetLink, WireEscrow, SetRegistry, Tick, vars,
           escrowVars, registryVars, adapterVars
    <3> QED BY <1>0, <3>1, BooksFrame
  <2> QED BY <2>1, <2>2 DEF Next
<1> QED BY <1>1, <1>2, BooksAreInvPrimed

\* The registry, the escrow, the case and the adapter agree about every
\* mandate in every reachable state, whatever transactions are sent and in
\* whatever order.
THEOREM CourtInvariant == Spec => []CourtInv
<1>1. Init => CourtInv
  BY InitTypes, BooksInit, BooksAreInv
<1> QED BY <1>1, NextInv, PTL DEF Spec

\* A mandate's status and its deposit agree on whether the money is still in
\* custody and on who the parties are (MandateRegistry and MandateEscrow).
THEOREM StatusMatchesDepositAlways == Spec => []StatusMatchesDeposit
<1>1. CourtInv => StatusMatchesDeposit
  BY DEF CourtInv
<1> QED BY <1>1, CourtInvariant, PTL

\* A deposit is paid out at most once, in full, as a refund or as the split of
\* the finalized verdict (MandateEscrow.settle and refund).
THEOREM PayoutMatchesOutcomeAlways == Spec => []PayoutMatchesOutcome
<1>1. CourtInv => PayoutMatchesOutcome
  BY DEF CourtInv
<1> QED BY <1>1, CourtInvariant, PTL

\* Only delivered work whose case was finalized is ever settled
\* (SettlementAdapter.executeFinalJudgment).
THEOREM OnlyJudgedWorkIsSettledAlways == Spec => []OnlyJudgedWorkIsSettled
<1>1. CourtInv => OnlyJudgedWorkIsSettled
  BY DEF CourtInv
<1> QED BY <1>1, CourtInvariant, PTL

(***************************************************************************)
(* What a step may never do.                                               *)
(***************************************************************************)

\* Which mandates and cases a step changes, and how.
LEMMA StepEffects ==
    ASSUME CourtInv, [Next]_vars, NEW m \in Mandates
    PROVE  /\ KeepsCommitments!(m)
           /\ LeavesByJudgment!(m)
           /\ KeepsFinalizedCases!(m)
<1>0. /\ Books(m)
      /\ TypeOK
      /\ \A n \in Mandates : Books(n)
  BY BooksAreInv
<1>1. /\ mandates \in [Mandates -> Mandate]
      /\ cases \in [Mandates -> CaseRecord]
      /\ mandates[m] \in Mandate
  BY <1>0 DEF TypeOK, RegistryTypeOK, DisputeTypeOK
<1> DEFINE Goal == /\ KeepsCommitments!(m)
                   /\ LeavesByJudgment!(m)
                   /\ KeepsFinalizedCases!(m)
<1>2. ASSUME mandates'[m] = mandates[m], cases'[m] = cases[m] PROVE Goal
  BY <1>2
<1>3. ASSUME NEW n \in Mandates, NEW auth \in Authorizations(n),
             NEW t \in Terms, CreateMandate(auth, t)
      PROVE  Goal
  <2>1. /\ mandates[n].status = "None"
        /\ cases' = cases
        /\ m # n => mandates'[m] = mandates[m]
    BY <1>1, <1>3 DEF CreateMandate, RegisterMandate, Authorizations
  <2> QED BY <2>1, <1>2 DEF Released
<1>4. ASSUME NEW n \in Mandates, NEW auth \in Authorizations(n),
             AcceptMandate(auth)
      PROVE  Goal
  <2>1. /\ cases' = cases
        /\ mandates[n].status = "Funded"
        /\ mandates[n].provider \in {NoActor, auth.actor}
        /\ mandates' = [mandates EXCEPT ![n].provider = auth.actor,
                                        ![n].status = "Active"]
    BY <1>4 DEF AcceptMandate, RegisterAcceptance, Authorizations
  <2> QED BY <1>1, <1>2, <2>1 DEF Released, Mandate
<1>5. ASSUME NEW n \in Mandates, NEW auth \in Authorizations(n),
             NEW hash \in DeliveryHashes, SubmitDelivery(auth, hash)
      PROVE  Goal
  <2>1. /\ cases' = cases
        /\ mandates[n].status = "Active"
        /\ mandates[n].deliveryHash = NoHash
        /\ mandates' = [mandates EXCEPT ![n].deliveryHash = hash,
                                        ![n].status = "Submitted"]
    BY <1>0, <1>5
    DEF SubmitDelivery, RegisterDelivery, Authorizations, Books, RecordBooks
  <2> QED BY <1>1, <1>2, <2>1 DEF Released, Mandate
<1>6. ASSUME NEW n \in Mandates, NEW status \in Status,
             mandates[n].status \in {"Funded", "Active"}, cases' = cases,
             mandates' = [mandates EXCEPT ![n].status = status]
      PROVE  Goal
  BY <1>1, <1>2, <1>6 DEF Released, Mandate
<1>7. ASSUME NEW n \in Mandates, NEW auth \in Authorizations(n),
             CancelMandate(auth)
      PROVE  Goal
  BY <1>6, <1>7
  DEF CancelMandate, RegisterCancellation, Authorizations, Status
<1>8. ASSUME NEW n \in Mandates, MarkExpired(n) PROVE Goal
  BY <1>6, <1>8 DEF MarkExpired, RegisterExpiry, Expired, Status
<1>9. ASSUME NEW n \in Mandates, CourtRecord(n) PROVE Goal
  <2>1. /\ mandates' = mandates
        /\ ~cases[n].finalized
        /\ m # n => cases'[m] = cases[m]
    <3>1. mandates' = mandates
      BY <1>9 DEF CourtRecord, registryVars
    <3>2. cases[n].finalized => Linked(n)
      BY <1>0 DEF Books, RecordBooks, Linked
    <3>3. ~cases[n].finalized
      BY <1>9, <3>2 DEF CourtRecord, LinkCase, RecordAccepted,
         RecordPrincipalAppeal, RecordProviderAppeal, RecordFinalized
    <3>4. m # n => cases'[m] = cases[m]
      BY <1>1, <1>9 DEF CourtRecord, LinkCase, RecordAccepted,
         RecordPrincipalAppeal, RecordProviderAppeal, RecordFinalized
    <3> QED BY <3>1, <3>3, <3>4
  <2> QED BY <1>1, <1>2, <2>1 DEF Released
<1>10. ASSUME NEW n \in Mandates, NEW j \in FinalJudgments(n),
              ExecuteFinalJudgment(j)
       PROVE  Goal
  <2>1. /\ mandates[n].status = "Submitted"
        /\ cases[n].finalized
        /\ mandates' = [mandates EXCEPT ![n].status = "Settled"]
        /\ cases' = cases
    BY <1>0, <1>10, JudgmentEffect
  <2> QED BY <1>1, <1>2, <2>1 DEF Released, Mandate
<1>11. ASSUME \/ \E link \in Links : WireAdapter(link)
              \/ WireEscrow \/ Tick \/ UNCHANGED vars
       PROVE  Goal
  <2>1. mandates' = mandates /\ cases' = cases
    BY <1>11 DEF WireAdapter, WireEscrow, Tick, vars, registryVars
  <2> QED BY <1>2, <2>1
<1> QED BY <1>3, <1>4, <1>5, <1>7, <1>8, <1>9, <1>10, <1>11
        DEF Next, Transaction

\* The terms, the provider and the delivery of a mandate never change once set
\* (MandateRegistry).
THEOREM CommitmentsFrozenAlways == Spec => CommitmentsFrozen
<1>1. CourtInv /\ [Next]_vars => [KeepsCommitments]_vars
  <2> SUFFICES ASSUME CourtInv, [Next]_vars PROVE KeepsCommitments
    OBVIOUS
  <2> QED BY StepEffects DEF KeepsCommitments
<1> QED BY <1>1, CourtInvariant, PTL DEF Spec, CommitmentsFrozen

\* A delivered mandate leaves custody by a final judgment only, and nothing
\* follows a release (MandateRegistry, SettlementAdapter).
THEOREM DeliveredLeavesByJudgmentAlways == Spec => DeliveredLeavesByJudgment
<1>1. CourtInv /\ [Next]_vars => [LeavesByJudgment]_vars
  <2> SUFFICES ASSUME CourtInv, [Next]_vars PROVE LeavesByJudgment
    OBVIOUS
  <2> QED BY StepEffects DEF LeavesByJudgment
<1> QED BY <1>1, CourtInvariant, PTL DEF Spec, DeliveredLeavesByJudgment

\* A finalized case never changes (DisputeRegistry).
THEOREM FinalizedCaseFrozenAlways == Spec => FinalizedCaseFrozen
<1>1. CourtInv /\ [Next]_vars => [KeepsFinalizedCases]_vars
  <2> SUFFICES ASSUME CourtInv, [Next]_vars PROVE KeepsFinalizedCases
    OBVIOUS
  <2> QED BY StepEffects DEF KeepsFinalizedCases
<1> QED BY <1>1, CourtInvariant, PTL DEF Spec, FinalizedCaseFrozen

(***************************************************************************)
(* What a transaction never takes back: the systems that watch the chain   *)
(* rest on it.                                                             *)
(***************************************************************************)
ProvidersFunded ==
    \A m \in Mandates : deposits[m].provider # NoActor => deposits[m].funded

MandateMarks(old, new) ==
    /\ old.status # "None" => new.status # "None"
    /\ old.status \in {"Active", "Submitted", "Settled", "Expired"} =>
          new.status \in {"Active", "Submitted", "Settled", "Expired"}
    /\ old.status \in {"Submitted", "Settled"} =>
          new.status \in {"Submitted", "Settled"}
    /\ old.status = "Settled" => new.status = "Settled"
    /\ old.deliveryHash # NoHash => new.deliveryHash = old.deliveryHash

DepositMarks(old, new) ==
    /\ old.funded => new.funded
    /\ old.provider # NoActor => new.provider # NoActor
    /\ new.provider # NoActor => new.funded

CaseMarks(old, new) ==
    /\ old.genlayerTransactionId # NoHash =>
          new.genlayerTransactionId = old.genlayerTransactionId
    /\ old.acceptedVerdictHash # NoHash => new.acceptedVerdictHash # NoHash
    /\ old.principalAppealHash # NoHash => new.principalAppealHash # NoHash
    /\ old.providerAppealHash # NoHash => new.providerAppealHash # NoHash
    /\ old.finalized => new = old

MarksKept(m) ==
    /\ MandateMarks(mandates[m], mandates'[m])
    /\ DepositMarks(deposits[m], deposits'[m])
    /\ CaseMarks(cases[m], cases'[m])
    /\ settled[m] => settled'[m]

\* A finalized case was linked, so no record of the court can touch it.
LEMMA RecordKeepsMarks ==
    ASSUME TypeOK, NEW n \in Mandates, Books(n), CourtRecord(n),
           NEW m \in Mandates
    PROVE  CaseMarks(cases[m], cases'[m])
<1>1. /\ cases \in [Mandates -> CaseRecord]
      /\ cases[n] \in CaseRecord
  BY DEF TypeOK, DisputeTypeOK
<1>2. cases[n].finalized => cases[n].genlayerTransactionId # NoHash
  BY DEF Books, RecordBooks
<1>3. CASE m # n
  <2>1. cases'[m] = cases[m]
    BY <1>1, <1>3 DEF CourtRecord, LinkCase, RecordAccepted,
       RecordPrincipalAppeal, RecordProviderAppeal, RecordFinalized
  <2> QED BY <2>1 DEF CaseMarks
<1>4. CASE m = n
  <2>1. \A v \in Verdicts \cup Grounds : v # NoHash
    BY CourtTypesAssumption
  <2>2. ASSUME NEW tx \in GenLayerTxs, LinkCase(n, tx)
        PROVE  CaseMarks(cases[m], cases'[m])
    BY <1>1, <1>2, <1>4, <2>2 DEF LinkCase, Linked, CaseMarks, CaseRecord
  <2>3. ASSUME NEW v \in Verdicts, RecordAccepted(n, v)
        PROVE  CaseMarks(cases[m], cases'[m])
    BY <1>1, <1>4, <2>1, <2>3 DEF RecordAccepted, CaseMarks, CaseRecord
  <2>4. ASSUME NEW g \in Grounds, RecordPrincipalAppeal(n, g)
        PROVE  CaseMarks(cases[m], cases'[m])
    BY <1>1, <1>4, <2>1, <2>4 DEF RecordPrincipalAppeal, CaseMarks, CaseRecord
  <2>5. ASSUME NEW g \in Grounds, RecordProviderAppeal(n, g)
        PROVE  CaseMarks(cases[m], cases'[m])
    BY <1>1, <1>4, <2>1, <2>5 DEF RecordProviderAppeal, CaseMarks, CaseRecord
  <2>6. ASSUME NEW v \in Verdicts, RecordFinalized(n, v)
        PROVE  CaseMarks(cases[m], cases'[m])
    BY <1>1, <1>4, <2>1, <2>6 DEF RecordFinalized, CaseMarks, CaseRecord
  <2> QED BY <2>2, <2>3, <2>4, <2>5, <2>6 DEF CourtRecord
<1> QED BY <1>3, <1>4

\* No transaction takes a mark back: a stage that was passed, a deposit, a
\* provider, a delivery, a link, a verdict, an appeal, a settlement.
LEMMA StepKeepsMarks ==
    ASSUME CourtInv, ProvidersFunded, [Next]_vars, NEW m \in Mandates
    PROVE  MarksKept(m)
<1>0. /\ TypeOK
      /\ \A n \in Mandates : Books(n)
      /\ deposits[m].provider # NoActor => deposits[m].funded
  BY BooksAreInv DEF ProvidersFunded
<1>1. /\ mandates \in [Mandates -> Mandate]
      /\ mandates[m] \in Mandate
      /\ deposits \in [Mandates -> Deposit]
      /\ deposits[m] \in Deposit
      /\ settled \in [Mandates -> BOOLEAN]
  BY <1>0 DEF TypeOK, RegistryTypeOK, EscrowTypeOK, AdapterTypeOK
<1>2. /\ CaseMarks(cases[m], cases[m])
      /\ DepositMarks(deposits[m], deposits[m])
      /\ MandateMarks(mandates[m], mandates[m])
  BY <1>0 DEF CaseMarks, DepositMarks, MandateMarks
<1>3. ASSUME NEW n \in Mandates, NEW auth \in Authorizations(n),
             NEW t \in Terms, CreateMandate(auth, t)
      PROVE  MarksKept(m)
  <2>1. /\ mandates[n].status = "None" /\ mandates[n].deliveryHash = NoHash
        /\ ~deposits[n].funded
        /\ cases' = cases /\ settled' = settled
        /\ m # n => mandates'[m] = mandates[m] /\ deposits'[m] = deposits[m]
    BY <1>0, <1>1, <1>3
    DEF CreateMandate, RegisterMandate, Fund, Authorizations, Books,
        RecordBooks, adapterVars
  <2>2. m = n => deposits'[m].funded
                 /\ mandates'[m].status # "None"
    BY <1>1, <1>3
    DEF CreateMandate, RegisterMandate, Fund, Authorizations
  <2> QED BY <1>0, <1>2, <2>1, <2>2 DEF MarksKept, MandateMarks, DepositMarks
<1>4. ASSUME NEW n \in Mandates, NEW auth \in Authorizations(n),
             AcceptMandate(auth)
      PROVE  MarksKept(m)
  <2>1. /\ cases' = cases /\ settled' = settled
        /\ mandates[n].status = "Funded"
        /\ mandates' = [mandates EXCEPT ![n].provider = auth.actor,
                                        ![n].status = "Active"]
        /\ deposits[n].funded /\ auth.actor # NoActor
        /\ deposits' = [deposits EXCEPT ![n].provider = auth.actor]
    BY <1>4 DEF AcceptMandate, RegisterAcceptance, BindProvider,
                Authorizations, adapterVars
  <2>2. MandateMarks(mandates[m], mandates'[m])
    BY <1>1, <1>2, <2>1 DEF Mandate, MandateMarks
  <2>3. DepositMarks(deposits[m], deposits'[m])
    BY <1>1, <1>2, <2>1 DEF Deposit, DepositMarks
  <2> QED BY <1>2, <2>1, <2>2, <2>3 DEF MarksKept
<1>5. ASSUME NEW n \in Mandates, NEW auth \in Authorizations(n),
             NEW hash \in DeliveryHashes, SubmitDelivery(auth, hash)
      PROVE  MarksKept(m)
  <2>1. /\ cases' = cases /\ settled' = settled /\ deposits' = deposits
        /\ mandates[n].status = "Active"
        /\ mandates[n].deliveryHash = NoHash
        /\ mandates' = [mandates EXCEPT ![n].deliveryHash = hash,
                                        ![n].status = "Submitted"]
    BY <1>0, <1>5
    DEF SubmitDelivery, RegisterDelivery, Authorizations, Books, RecordBooks,
        adapterVars, escrowVars
  <2>2. MandateMarks(mandates[m], mandates'[m])
    BY <1>1, <1>2, <2>1 DEF Mandate, MandateMarks
  <2> QED BY <1>2, <2>1, <2>2 DEF MarksKept
<1>6. ASSUME NEW n \in Mandates, NEW status \in {"Cancelled", "Expired"},
             mandates[n].status \in {"Funded", "Active"},
             mandates[n].status = "Active" => status = "Expired",
             mandates' = [mandates EXCEPT ![n].status = status],
             deposits' = [deposits EXCEPT ![n].settled = TRUE],
             cases' = cases, settled' = settled
      PROVE  MarksKept(m)
  <2>1. MandateMarks(mandates[m], mandates'[m])
    BY <1>1, <1>2, <1>6 DEF Mandate, MandateMarks
  <2>2. DepositMarks(deposits[m], deposits'[m])
    BY <1>1, <1>2, <1>6 DEF Deposit, DepositMarks
  <2> QED BY <1>2, <1>6, <2>1, <2>2 DEF MarksKept
<1>7. ASSUME NEW n \in Mandates, NEW auth \in Authorizations(n),
             CancelMandate(auth)
      PROVE  MarksKept(m)
  BY <1>6, <1>7 DEF CancelMandate, RegisterCancellation, Refund,
                    Authorizations, adapterVars
<1>8. ASSUME NEW n \in Mandates, MarkExpired(n) PROVE MarksKept(m)
  BY <1>6, <1>8 DEF MarkExpired, RegisterExpiry, Expired, Refund, adapterVars
<1>9. ASSUME NEW n \in Mandates, CourtRecord(n) PROVE MarksKept(m)
  <2>1. mandates' = mandates /\ deposits' = deposits /\ settled' = settled
    BY <1>9 DEF CourtRecord, registryVars, escrowVars, adapterVars
  <2>2. CaseMarks(cases[m], cases'[m])
    BY <1>0, <1>9, RecordKeepsMarks
  <2> QED BY <1>2, <2>1, <2>2 DEF MarksKept
<1>10. ASSUME NEW n \in Mandates, NEW j \in FinalJudgments(n),
              ExecuteFinalJudgment(j)
       PROVE  MarksKept(m)
  <2>1. /\ mandates[n].status = "Submitted"
        /\ mandates' = [mandates EXCEPT ![n].status = "Settled"]
        /\ deposits' = [deposits EXCEPT ![n].settled = TRUE]
        /\ settled' = [settled EXCEPT ![n] = TRUE]
        /\ cases' = cases
    BY <1>0, <1>10, JudgmentEffect
  <2>2. MandateMarks(mandates[m], mandates'[m])
    BY <1>1, <1>2, <2>1 DEF Mandate, MandateMarks
  <2>3. DepositMarks(deposits[m], deposits'[m])
    BY <1>1, <1>2, <2>1 DEF Deposit, DepositMarks
  <2>4. settled[m] => settled'[m]
    BY <1>1, <2>1
  <2> QED BY <1>2, <2>1, <2>2, <2>3, <2>4 DEF MarksKept
<1>11. ASSUME \/ \E link \in Links : WireAdapter(link)
              \/ WireEscrow \/ Tick \/ UNCHANGED vars
       PROVE  MarksKept(m)
  <2>1. /\ mandates' = mandates /\ cases' = cases /\ deposits' = deposits
        /\ settled' = settled
    BY <1>11 DEF WireAdapter, SetLink, WireEscrow, SetRegistry, Tick, vars,
                 registryVars, escrowVars, adapterVars
  <2> QED BY <1>2, <2>1 DEF MarksKept
<1> QED BY <1>3, <1>4, <1>5, <1>7, <1>8, <1>9, <1>10, <1>11
        DEF Next, Transaction

(***************************************************************************)
(* Refinement.  The four mapped variables, named so that a step can be     *)
(* stated as their update.                                                 *)
(***************************************************************************)
StageOf == [m \in Mandates |-> Stage(mandates[m])]
AmountOf == [m \in Mandates |-> deposits[m].amount]
RulingOf == [m \in Mandates |-> cases[m].finalizedVerdictHash]
PaidOf == [m \in Mandates |-> [provider  |-> payouts[m].provider,
                              principal |-> payouts[m].principal]]

\* The contracts start where the promise does.
LEMMA InitPromise == Init => Promise!Init
BY DEF Init, EscrowInit, RegistryInit, DisputeInit, NoDeposit, NoMandate,
       NoCase, NoPayout, Stage, Promise!Init, Promise!Nothing

\* A step that changes neither status nor delivery, deposit, ruling or payout.
LEMMA SilentStep ==
    ASSUME StageOf' = StageOf, AmountOf' = AmountOf, RulingOf' = RulingOf,
           PaidOf' = PaidOf
    PROVE  UNCHANGED Promise!promiseVars
BY DEF StageOf, AmountOf, RulingOf, PaidOf, Promise!promiseVars

\* createMandate takes the deposit.
LEMMA CreatePromise ==
    ASSUME CourtInv, NEW m \in Mandates, NEW auth \in Authorizations(m),
           NEW t \in Terms, CreateMandate(auth, t)
    PROVE  Promise!TakeDeposit(m)
<1>0. auth.mandateId = m /\ auth.actor \in Actors
  BY DEF Authorizations
<1>1. /\ mandates \in [Mandates -> Mandate]
      /\ deposits \in [Mandates -> Deposit]
  BY DEF CourtInv, TypeOK, RegistryTypeOK, EscrowTypeOK
<1>2. /\ mandates[m].status = "None"
      /\ mandates'[m].status = "Funded"
      /\ mandates'[m].deliveryHash = NoHash
      /\ \A n \in Mandates \ {m} : mandates'[n] = mandates[n]
  BY <1>0, <1>1 DEF CreateMandate, RegisterMandate
<1>3. /\ t.amount # 0
      /\ deposits'[m].amount = t.amount
      /\ \A n \in Mandates \ {m} : deposits'[n] = deposits[n]
      /\ payouts' = payouts /\ cases' = cases
  BY <1>0, <1>1 DEF CreateMandate, Fund
<1>4. StageOf[m] = "empty" /\ StageOf' = [StageOf EXCEPT ![m] = "held"]
  <2>1. Stage(mandates[m]) = "empty" /\ Stage(mandates'[m]) = "held"
    BY <1>2 DEF Stage
  <2> QED BY <1>2, <2>1 DEF StageOf
<1>5. AmountOf' = [AmountOf EXCEPT ![m] = t.amount]
  BY <1>3 DEF AmountOf
<1>6. t.amount \in {s.amount : s \in Terms} \ {0}
  BY <1>3
<1> QED BY <1>3, <1>4, <1>5, <1>6
        DEF Promise!TakeDeposit, Promise!Move, StageOf, AmountOf

\* submitDelivery delivers.
LEMMA DeliveryPromise ==
    ASSUME CourtInv, NEW m \in Mandates, NEW auth \in Authorizations(m),
           NEW hash \in DeliveryHashes, SubmitDelivery(auth, hash)
    PROVE  Promise!Deliver(m)
<1>0. auth.mandateId = m /\ hash # NoHash
  BY CourtTypesAssumption DEF Authorizations
<1>1. mandates \in [Mandates -> Mandate]
  BY DEF CourtInv, TypeOK, RegistryTypeOK
<1>2. /\ mandates[m].status = "Active"
      /\ mandates[m].deliveryHash = NoHash
      /\ mandates' = [mandates EXCEPT ![m].deliveryHash = hash,
                                      ![m].status = "Submitted"]
  BY <1>0 DEF SubmitDelivery, RegisterDelivery, CourtInv, RecordsConsistent
<1>3. deposits' = deposits /\ payouts' = payouts /\ cases' = cases
  BY DEF SubmitDelivery, escrowVars
<1>4. StageOf[m] = "held" /\ StageOf' = [StageOf EXCEPT ![m] = "delivered"]
  BY <1>0, <1>1, <1>2 DEF StageOf, Stage, Mandate
<1> QED BY <1>3, <1>4 DEF Promise!Deliver, Promise!Move, StageOf

\* cancelMandate and markExpired give the deposit back.
LEMMA RefundPromise ==
    ASSUME CourtInv, NEW m \in Mandates, NEW status \in {"Cancelled", "Expired"},
           mandates[m].status \in {"Funded", "Active"},
           mandates' = [mandates EXCEPT ![m].status = status],
           Refund(m), cases' = cases
    PROVE  Promise!GiveBack(m)
<1>1. /\ mandates \in [Mandates -> Mandate]
      /\ deposits \in [Mandates -> Deposit]
      /\ DOMAIN payouts = Mandates
  BY DEF CourtInv, TypeOK, RegistryTypeOK, EscrowTypeOK
<1>2. mandates[m].deliveryHash = NoHash
  BY DEF CourtInv, RecordsConsistent
<1>3. StageOf[m] = "held" /\ StageOf' = [StageOf EXCEPT ![m] = "returned"]
  <2>1. /\ mandates'[m].status = status
        /\ mandates'[m].deliveryHash = NoHash
        /\ \A n \in Mandates \ {m} : mandates'[n] = mandates[n]
    BY <1>1, <1>2 DEF Mandate
  <2>2. Stage(mandates[m]) = "held"
    BY <1>2 DEF Stage
  <2>3. Stage(mandates'[m]) = "returned"
    BY <2>1 DEF Stage
  <2>4. \A n \in Mandates :
          StageOf'[n] = IF n = m THEN "returned" ELSE StageOf[n]
    BY <2>1, <2>3 DEF StageOf
  <2> QED BY <2>2, <2>4 DEF StageOf
<1>4. AmountOf' = AmountOf
  BY <1>1 DEF Refund, AmountOf, Deposit
<1>5. payouts[m] = NoPayout /\ deposits[m].amount \in Nat
  BY <1>1, BooksAreInv DEF Books, PayoutBooks, Released, Deposit
<1>6. payouts' = [payouts EXCEPT ![m] =
                    [times     |-> payouts[m].times + 1,
                     provider  |-> payouts[m].provider + 0,
                     principal |-> payouts[m].principal + deposits[m].amount]]
  BY DEF Refund, PayOut
<1>7. /\ payouts[m].provider + 0 = 0
      /\ payouts[m].principal + deposits[m].amount = deposits[m].amount
  BY <1>5 DEF NoPayout
<1>8. PaidOf' = [PaidOf EXCEPT ![m] = [provider |-> 0,
                                      principal |-> AmountOf[m]]]
  BY <1>1, <1>6, <1>7 DEF PaidOf, AmountOf
<1> QED BY <1>3, <1>4, <1>8
        DEF Promise!GiveBack, Promise!Move, StageOf, AmountOf, PaidOf

\* executeFinalJudgment enforces the ruling.
LEMMA JudgmentPromise ==
    ASSUME CourtInv, NEW m \in Mandates, NEW j \in FinalJudgments(m),
           ExecuteFinalJudgment(j)
    PROVE  Promise!Enforce(m)
<1> DEFINE share == ProviderAmount(mandates[m].amount,
                      SettlementBps[cases[m].finalizedVerdictHash])
<1>1. /\ mandates \in [Mandates -> Mandate]
      /\ deposits \in [Mandates -> Deposit]
      /\ DOMAIN payouts = Mandates
  BY DEF CourtInv, TypeOK, RegistryTypeOK, EscrowTypeOK
<1>2. TypeOK /\ Books(m)
  BY BooksAreInv
<1>3. /\ mandates[m].status = "Submitted"
      /\ mandates[m].deliveryHash # NoHash
      /\ cases[m].finalized
      /\ deposits[m].amount = mandates[m].amount
      /\ mandates' = [mandates EXCEPT ![m].status = "Settled"]
      /\ deposits' = [deposits EXCEPT ![m].settled = TRUE]
      /\ cases' = cases
      /\ payouts' = [payouts EXCEPT ![m] =
                       [times |-> 1, provider |-> share,
                        principal |-> mandates[m].amount - share]]
  BY <1>2, JudgmentEffect
<1>4. RulingOf[m] # NoHash
  BY <1>3 DEF CourtInv, RecordsConsistent, RulingOf
<1>5. StageOf[m] = "delivered" /\ StageOf' = [StageOf EXCEPT ![m] = "enforced"]
  <2>1. /\ mandates'[m].status = "Settled"
        /\ \A n \in Mandates \ {m} : mandates'[n] = mandates[n]
    BY <1>1, <1>3 DEF Mandate
  <2>2. Stage(mandates[m]) = "delivered"
    BY <1>3 DEF Stage
  <2>3. Stage(mandates'[m]) = "enforced"
    BY <2>1 DEF Stage
  <2> QED BY <2>1, <2>2, <2>3 DEF StageOf
<1>6. AmountOf' = AmountOf /\ AmountOf[m] = mandates[m].amount
  BY <1>1, <1>3 DEF AmountOf, Deposit
<1>7. share = (AmountOf[m] * SettlementBps[RulingOf[m]]) \div BPS
  BY <1>6 DEF ProviderAmount, RulingOf
<1> HIDE DEF share
<1>8. PaidOf' = [PaidOf EXCEPT ![m] = [provider  |-> share,
                                      principal |-> AmountOf[m] - share]]
  BY <1>1, <1>3, <1>6 DEF PaidOf
<1>9. RulingOf' = RulingOf
  BY <1>3 DEF RulingOf
<1> QED BY <1>4, <1>5, <1>6, <1>7, <1>8, <1>9
        DEF Promise!Enforce, Promise!Move, StageOf, AmountOf, RulingOf, PaidOf

\* recordFinalized rules; the other records do not concern the promise.
LEMMA RecordPromise ==
    ASSUME CourtInv, NEW m \in Mandates, CourtRecord(m)
    PROVE  Promise!Rule(m) \/ UNCHANGED Promise!promiseVars
<1>1. cases \in [Mandates -> CaseRecord]
  BY DEF CourtInv, TypeOK, DisputeTypeOK
<1>2. /\ mandates' = mandates /\ deposits' = deposits
      /\ payouts' = payouts
  BY DEF CourtRecord, escrowVars, registryVars
<1>3. StageOf' = StageOf /\ AmountOf' = AmountOf /\ PaidOf' = PaidOf
  BY <1>2 DEF StageOf, AmountOf, PaidOf
<1>4. ASSUME NEW v \in Verdicts, RecordFinalized(m, v)
      PROVE  Promise!Rule(m)
  <2>1. RulingOf[m] = NoHash
    BY <1>4 DEF RecordFinalized, RulingOf, CourtInv, RecordsConsistent
  <2>2. RulingOf' = [RulingOf EXCEPT ![m] = v]
    BY <1>1, <1>4 DEF RecordFinalized, RulingOf, CaseRecord
  <2> QED BY <1>3, <2>1, <2>2
          DEF Promise!Rule, StageOf, AmountOf, RulingOf, PaidOf
<1>5. ASSUME ~\E v \in Verdicts : RecordFinalized(m, v)
      PROVE  UNCHANGED Promise!promiseVars
  <2>1. RulingOf' = RulingOf
    BY <1>1, <1>5 DEF CourtRecord, LinkCase, RecordAccepted,
       RecordPrincipalAppeal, RecordProviderAppeal, RulingOf, CaseRecord
  <2> QED BY <1>3, <2>1, SilentStep
<1> QED BY <1>4, <1>5

\* Every step of the contracts is one of the promise, or a stutter (acceptance,
\* the other records, deployment and time do not concern it).
LEMMA NextPromise ==
    CourtInv /\ [Next]_vars => [Promise!Next]_(Promise!promiseVars)
<1> SUFFICES ASSUME CourtInv, [Next]_vars
             PROVE  Promise!Next \/ UNCHANGED Promise!promiseVars
  OBVIOUS
<1> DEFINE Goal == Promise!Next \/ UNCHANGED Promise!promiseVars
<1>1. ASSUME NEW m \in Mandates, NEW auth \in Authorizations(m),
             NEW t \in Terms, CreateMandate(auth, t)
      PROVE  Goal
  BY <1>1, CreatePromise DEF Promise!Next
<1>2. ASSUME NEW m \in Mandates, NEW auth \in Authorizations(m),
             AcceptMandate(auth)
      PROVE  Goal
  <2>1. /\ mandates \in [Mandates -> Mandate]
        /\ deposits \in [Mandates -> Deposit]
    BY DEF CourtInv, TypeOK, RegistryTypeOK, EscrowTypeOK
  <2>2. /\ mandates[m].status = "Funded"
        /\ mandates[m].deliveryHash = NoHash
        /\ mandates' = [mandates EXCEPT ![m].provider = auth.actor,
                                        ![m].status = "Active"]
        /\ deposits' = [deposits EXCEPT ![m].provider = auth.actor]
        /\ payouts' = payouts /\ cases' = cases
    BY <1>2 DEF AcceptMandate, RegisterAcceptance, BindProvider,
       Authorizations, CourtInv, RecordsConsistent
  <2>3. StageOf' = StageOf
    BY <2>1, <2>2 DEF StageOf, Stage, Mandate
  <2>4. AmountOf' = AmountOf
    BY <2>1, <2>2 DEF AmountOf, Deposit
  <2>5. RulingOf' = RulingOf /\ PaidOf' = PaidOf
    BY <2>2 DEF RulingOf, PaidOf
  <2> QED BY <2>3, <2>4, <2>5, SilentStep
<1>3. ASSUME NEW m \in Mandates, NEW auth \in Authorizations(m),
             NEW hash \in DeliveryHashes, SubmitDelivery(auth, hash)
      PROVE  Goal
  BY <1>3, DeliveryPromise DEF Promise!Next
<1>4. ASSUME NEW m \in Mandates, NEW auth \in Authorizations(m),
             CancelMandate(auth)
      PROVE  Goal
  BY <1>4, RefundPromise
  DEF CancelMandate, RegisterCancellation, Authorizations, Promise!Next
<1>5. ASSUME NEW m \in Mandates, MarkExpired(m) PROVE Goal
  BY <1>5, RefundPromise
  DEF MarkExpired, RegisterExpiry, Expired, Promise!Next
<1>6. ASSUME NEW m \in Mandates, CourtRecord(m) PROVE Goal
  BY <1>6, RecordPromise DEF Promise!Next
<1>7. ASSUME NEW m \in Mandates, NEW j \in FinalJudgments(m),
             ExecuteFinalJudgment(j)
      PROVE  Goal
  BY <1>7, JudgmentPromise DEF Promise!Next
<1>8. ASSUME \/ \E link \in Links : WireAdapter(link)
             \/ WireEscrow \/ Tick \/ UNCHANGED vars
      PROVE  Goal
  <2>1. /\ mandates' = mandates /\ deposits' = deposits
        /\ payouts' = payouts /\ cases' = cases
    BY <1>8 DEF WireAdapter, WireEscrow, SetRegistry, Tick, vars, escrowVars,
       registryVars
  <2>2. /\ StageOf' = StageOf /\ AmountOf' = AmountOf
        /\ RulingOf' = RulingOf /\ PaidOf' = PaidOf
    BY <2>1 DEF StageOf, AmountOf, RulingOf, PaidOf
  <2> QED BY <2>2, SilentStep
<1> QED BY <1>1, <1>2, <1>3, <1>4, <1>5, <1>6, <1>7, <1>8
        DEF Next, Transaction

\* The contracts implement the promise to the parties: each deposit is taken
\* once and leaves once, as a refund before delivery or by the one ruling after.
THEOREM PromiseRefined == Spec => PromiseKept
<1> QED BY InitPromise, CourtInvariant, NextPromise, PTL
        DEF Spec, PromiseKept, Promise!Spec

(***************************************************************************)
(* Solvency.  The balances are summed over all holders and the deposits    *)
(* over all mandates; a transaction moves at most three balances and       *)
(* changes what is held for one mandate.                                   *)
(***************************************************************************)

\* Beside the sums, the money of a refund must have somewhere to go: a deposit
\* is funded by a wallet, never by the zero address, where a transfer would
\* make USDC disappear.
PrincipalsKnown ==
    \A m \in Mandates : deposits[m].funded => deposits[m].principal \in Actors

SolvencyInv == EscrowSolvent /\ PrincipalsKnown

HeldNow == [m \in Mandates |-> Held(m)]

\* The accounts of the token are finitely many.
LEMMA FiniteHolders == IsFiniteSet(Holders)
BY FiniteCourt, FS_AddElement, FS_Union, FS_Singleton DEF Holders

\* A payment moves what it pays from the escrow to the two parties.
LEMMA PayOutMoves ==
    ASSUME TypeOK, NEW m \in Mandates, NEW x \in Nat, NEW y \in Nat,
           PayOut(m, x, y), deposits[m].principal \in Actors,
           x = 0 \/ deposits[m].provider \in Actors
    PROVE  /\ usdc'[EscrowAccount] = usdc[EscrowAccount] - (x + y)
           /\ SumFunctionOnSet(usdc', Holders) = SumFunctionOnSet(usdc, Holders)
<1> DEFINE principal == deposits[m].principal
           provider  == deposits[m].provider
           taken     == [usdc EXCEPT ![EscrowAccount] = @ - (x + y)]
           refunded  == [taken EXCEPT ![principal] = @ + y]
<1>1. /\ usdc \in [Holders -> Int] /\ EscrowAccount \in Holders
      /\ EscrowAccount \notin Actors /\ Actors \subseteq Holders
      /\ principal \in Actors /\ NoActor \notin Holders
      /\ provider \in Actors \cup {NoActor}
  BY CourtTypesAssumption DEF TypeOK, EscrowTypeOK, Holders, Deposit
<1>2. usdc' = [h \in Holders |->
                 usdc[h] + (IF h = provider THEN x ELSE 0)
                         + (IF h = principal THEN y ELSE 0)
                         - (IF h = EscrowAccount THEN x + y ELSE 0)]
  BY DEF PayOut
<1>3. /\ usdc' \in [Holders -> Int]
      /\ usdc'[EscrowAccount] = usdc[EscrowAccount] - (x + y)
  BY <1>1, <1>2
<1>4. /\ taken \in [Holders -> Int]
      /\ taken[EscrowAccount] = usdc[EscrowAccount] - (x + y)
      /\ \A h \in Holders \ {EscrowAccount} : taken[h] = usdc[h]
  BY <1>1
<1>5. SumFunctionOnSet(taken, Holders)
        = SumFunctionOnSet(usdc, Holders) - (x + y)
  <2> HIDE DEF taken
  <2>1. SumFunctionOnSet(taken, Holders)
          = SumFunctionOnSet(usdc, Holders) + taken[EscrowAccount]
              - usdc[EscrowAccount]
    BY <1>1, <1>4, FiniteHolders, SumOneTerm
  <2> QED BY <1>1, <1>4, <2>1, FiniteHolders, SumInt
<1>6. /\ refunded \in [Holders -> Int]
      /\ refunded[principal] = taken[principal] + y
      /\ \A h \in Holders \ {principal} : refunded[h] = taken[h]
  BY <1>1, <1>4
<1>7. SumFunctionOnSet(refunded, Holders)
        = SumFunctionOnSet(taken, Holders) + y
  <2> HIDE DEF taken, refunded
  <2>1. SumFunctionOnSet(refunded, Holders)
          = SumFunctionOnSet(taken, Holders) + refunded[principal]
              - taken[principal]
    BY <1>1, <1>4, <1>6, FiniteHolders, SumOneTerm
  <2> QED BY <1>1, <1>4, <1>6, <2>1, FiniteHolders, SumInt
<1>8. \A h \in Holders : usdc'[h]
        = refunded[h] + (IF h = provider THEN x ELSE 0)
  <2> HIDE DEF taken, refunded
  <2> TAKE h \in Holders
  <2>1. taken[h] = usdc[h] - (IF h = EscrowAccount THEN x + y ELSE 0)
    BY <1>1, <1>4
  <2>2. refunded[h] = taken[h] + (IF h = principal THEN y ELSE 0)
    BY <1>1, <1>4, <1>6
  <2> QED BY <1>1, <1>2, <2>1, <2>2
<1>9. SumFunctionOnSet(usdc', Holders)
        = SumFunctionOnSet(refunded, Holders) + x
  <2> HIDE DEF taken, refunded
  <2>1. CASE provider \in Actors
    <3>1. SumFunctionOnSet(usdc', Holders)
            = SumFunctionOnSet(refunded, Holders) + usdc'[provider]
                - refunded[provider]
      <4>1. \A h \in Holders \ {provider} : usdc'[h] = refunded[h]
        BY <1>6, <1>8
      <4> QED BY <1>1, <1>3, <1>6, <2>1, <4>1, FiniteHolders, SumOneTerm
    <3> QED BY <1>1, <1>3, <1>6, <1>8, <2>1, <3>1, FiniteHolders, SumInt
  <2>2. CASE provider \notin Actors
    <3>1. x = 0 /\ \A h \in Holders : usdc'[h] = refunded[h]
      BY <1>1, <1>6, <1>8, <2>2
    <3>2. usdc' = refunded
      BY <1>3, <1>6, <3>1
    <3> QED BY <1>6, <3>1, <3>2, FiniteHolders, SumInt
  <2> QED BY <2>1, <2>2
<1> HIDE DEF taken, refunded
<1> QED BY <1>1, <1>3, <1>4, <1>5, <1>6, <1>7, <1>9, FiniteHolders, SumInt

\* What is held for a mandate is a natural number, and only the deposit's
\* amount and its two flags matter.
LEMMA HeldTypes == TypeOK => HeldNow \in [Mandates -> Int]
BY DEF TypeOK, EscrowTypeOK, Deposit, HeldNow, Held

\* A step that changes one deposit changes what is held by as much.
LEMMA HeldChanges ==
    ASSUME TypeOK, TypeOK', NEW m \in Mandates,
           \A n \in Mandates \ {m} : deposits'[n] = deposits[n]
    PROVE  SumFunctionOnSet(HeldNow', Mandates)
             = SumFunctionOnSet(HeldNow, Mandates) + Held(m)' - Held(m)
<1>1. HeldNow \in [Mandates -> Int] /\ HeldNow' \in [Mandates -> Int]
  <2>1. (TypeOK => HeldNow \in [Mandates -> Int])'
    BY HeldTypes, PTL
  <2> QED BY <2>1, HeldTypes
<1>2. /\ \A n \in Mandates \ {m} : HeldNow'[n] = HeldNow[n]
      /\ HeldNow'[m] = Held(m)' /\ HeldNow[m] = Held(m)
  BY DEF HeldNow, Held
<1>3. SumFunctionOnSet(HeldNow', Mandates)
        = SumFunctionOnSet(HeldNow, Mandates) + HeldNow'[m] - HeldNow[m]
  BY <1>1, <1>2, FiniteCourt, SumOneTerm
<1> QED BY <1>2, <1>3

\* A payment of everything that is held for a mandate keeps the escrow solvent,
\* whatever the shares are.
LEMMA ReleaseKeepsSolvent ==
    ASSUME TypeOK, TypeOK', SolvencyInv, NEW m \in Mandates,
           NEW x \in Nat, NEW y \in Nat, Refundable(deposits[m]),
           x + y = deposits[m].amount, PayOut(m, x, y),
           x = 0 \/ deposits[m].provider \in Actors,
           deposits' = [deposits EXCEPT ![m].settled = TRUE]
    PROVE  SolvencyInv'
<1>1. deposits[m] \in Deposit /\ deposits \in [Mandates -> Deposit]
  BY DEF TypeOK, EscrowTypeOK
<1>2. /\ deposits'[m] = [deposits[m] EXCEPT !.settled = TRUE]
      /\ \A n \in Mandates \ {m} : deposits'[n] = deposits[n]
  BY <1>1
<1>3. Held(m) = x + y /\ Held(m)' = 0
  BY <1>1, <1>2 DEF Held, Refundable, Deposit
<1>4. deposits[m].principal \in Actors
  BY DEF SolvencyInv, PrincipalsKnown, Refundable
<1>5. /\ usdc'[EscrowAccount] = usdc[EscrowAccount] - (x + y)
      /\ SumFunctionOnSet(usdc', Holders) = SumFunctionOnSet(usdc, Holders)
  BY <1>4, PayOutMoves
<1>6. SumFunctionOnSet(HeldNow', Mandates)
        = SumFunctionOnSet(HeldNow, Mandates) + Held(m)' - Held(m)
  BY <1>2, HeldChanges
<1>7. SumFunctionOnSet(HeldNow, Mandates) \in Int
  BY HeldTypes, FiniteCourt, SumInt
<1>8. EscrowSolvent'
  BY <1>3, <1>5, <1>6, <1>7 DEF SolvencyInv, EscrowSolvent, HeldNow
<1>9. PrincipalsKnown'
  BY <1>1, <1>2 DEF SolvencyInv, PrincipalsKnown, Deposit
<1> QED BY <1>8, <1>9 DEF SolvencyInv

\* createMandate takes from the principal what the escrow then holds.
LEMMA FundKeepsSolvent ==
    ASSUME TypeOK, TypeOK', SolvencyInv, NEW m \in Mandates,
           NEW principal \in Actors, NEW amount \in Nat,
           Fund(m, principal, amount)
    PROVE  SolvencyInv'
<1>1. /\ deposits \in [Mandates -> Deposit] /\ usdc \in [Holders -> Int]
      /\ usdc' \in [Holders -> Int]
      /\ EscrowAccount \in Holders /\ principal \in Holders
      /\ principal # EscrowAccount
  BY CourtTypesAssumption DEF TypeOK, EscrowTypeOK, Holders
<1>2. /\ deposits'[m] =
            [principal |-> principal, provider |-> NoActor, amount |-> amount,
             funded |-> TRUE, settled |-> FALSE]
      /\ ~deposits[m].funded
      /\ \A n \in Mandates \ {m} : deposits'[n] = deposits[n]
  BY <1>1 DEF Fund
<1>3. Held(m) = 0 /\ Held(m)' = amount
  BY <1>2 DEF Held, Refundable
<1> DEFINE given == [usdc EXCEPT ![principal] = @ - amount]
<1>4. /\ given \in [Holders -> Int]
      /\ given[principal] = usdc[principal] - amount
      /\ \A h \in Holders \ {principal} : given[h] = usdc[h]
  BY <1>1
<1>5. /\ usdc'[EscrowAccount] = given[EscrowAccount] + amount
      /\ given[EscrowAccount] = usdc[EscrowAccount]
      /\ \A h \in Holders \ {EscrowAccount} : usdc'[h] = given[h]
  BY <1>1 DEF Fund
<1> HIDE DEF given
<1>6. SumFunctionOnSet(given, Holders)
        = SumFunctionOnSet(usdc, Holders) + given[principal] - usdc[principal]
  BY <1>1, <1>4, FiniteHolders, SumOneTerm
<1>7. SumFunctionOnSet(usdc', Holders)
        = SumFunctionOnSet(given, Holders) + usdc'[EscrowAccount]
            - given[EscrowAccount]
  <2>1. \A h \in Holders \ {EscrowAccount} : usdc'[h] = given[h]
    BY <1>5
  <2>2. usdc' \in [Holders -> Int] /\ given \in [Holders -> Int]
    BY <1>1, <1>4
  <2> QED BY <1>1, <2>1, <2>2, FiniteHolders, SumOneTerm
<1>8. SumFunctionOnSet(usdc', Holders) = SumFunctionOnSet(usdc, Holders)
  <2>1. /\ SumFunctionOnSet(usdc, Holders) \in Int
        /\ SumFunctionOnSet(given, Holders) \in Int
        /\ SumFunctionOnSet(usdc', Holders) \in Int
    BY <1>1, <1>4, FiniteHolders, SumInt
  <2>2. /\ usdc[principal] \in Int /\ given[principal] \in Int
        /\ usdc'[EscrowAccount] \in Int /\ given[EscrowAccount] \in Int
    BY <1>1, <1>4
  <2> QED BY <1>4, <1>5, <1>6, <1>7, <2>1, <2>2
<1>9. SumFunctionOnSet(HeldNow', Mandates)
        = SumFunctionOnSet(HeldNow, Mandates) + Held(m)' - Held(m)
  BY <1>2, HeldChanges
<1>10. SumFunctionOnSet(HeldNow, Mandates) \in Int
  BY HeldTypes, FiniteCourt, SumInt
<1>11. EscrowSolvent'
  BY <1>3, <1>5, <1>8, <1>9, <1>10 DEF SolvencyInv, EscrowSolvent, HeldNow
<1>12. PrincipalsKnown'
  BY <1>2 DEF SolvencyInv, PrincipalsKnown
<1> QED BY <1>11, <1>12 DEF SolvencyInv

\* A step that moves no money and keeps what each deposit owes keeps the escrow
\* solvent.
LEMMA SolvencyFrame ==
    ASSUME TypeOK, SolvencyInv, usdc' = usdc,
           \A m \in Mandates :
              /\ deposits'[m].funded = deposits[m].funded
              /\ deposits'[m].settled = deposits[m].settled
              /\ deposits'[m].amount = deposits[m].amount
              /\ deposits'[m].principal = deposits[m].principal
    PROVE  SolvencyInv'
<1>1. HeldNow' = HeldNow
  BY DEF HeldNow, Held, Refundable
<1>2. EscrowSolvent'
  BY <1>1 DEF SolvencyInv, EscrowSolvent, HeldNow
<1> QED BY <1>2 DEF SolvencyInv, PrincipalsKnown

\* Nothing is deposited at the start.
LEMMA InitSolvent == Init => SolvencyInv
<1> SUFFICES ASSUME Init PROVE SolvencyInv
  OBVIOUS
<1>1. \A m \in Mandates : ~deposits[m].funded
  BY DEF Init, EscrowInit, NoDeposit
<1>2. /\ HeldNow \in [Mandates -> Int]
      /\ \A m \in Mandates : HeldNow[m] = 0
  BY <1>1 DEF HeldNow, Held, Refundable
<1>3. SumFunctionOnSet(HeldNow, Mandates) = 0
  BY <1>2, FiniteCourt, SumZero
<1>4. usdc = Balances /\ usdc[EscrowAccount] = 0
  BY BaseCourtAssumption DEF Init, EscrowInit
<1>5. EscrowSolvent
  BY <1>3, <1>4 DEF EscrowSolvent, HeldNow
<1> QED BY <1>1, <1>5 DEF SolvencyInv, PrincipalsKnown

\* Every transaction keeps the escrow solvent.
LEMMA NextSolvent ==
    CourtInv /\ CourtInv' /\ SolvencyInv /\ [Next]_vars => SolvencyInv'
<1> SUFFICES ASSUME CourtInv, CourtInv', SolvencyInv, [Next]_vars
             PROVE  SolvencyInv'
  OBVIOUS
<1>0. TypeOK /\ TypeOK' /\ \A m \in Mandates : deposits[m] \in Deposit
  BY DEF CourtInv, TypeOK, EscrowTypeOK
<1>1. ASSUME NEW m \in Mandates, NEW auth \in Authorizations(m),
             NEW t \in Terms, CreateMandate(auth, t)
      PROVE  SolvencyInv'
  <2>1. auth.mandateId = m /\ auth.actor \in Actors /\ t.amount \in Nat
    BY CourtTypesAssumption DEF Authorizations, TermsType
  <2> QED BY <1>0, <1>1, <2>1, FundKeepsSolvent DEF CreateMandate
<1>2. ASSUME NEW m \in Mandates, NEW auth \in Authorizations(m),
             AcceptMandate(auth)
      PROVE  SolvencyInv'
  <2>1. /\ usdc' = usdc
        /\ deposits' = [deposits EXCEPT ![m].provider = auth.actor]
    BY <1>2 DEF AcceptMandate, BindProvider, Authorizations
  <2>2. \A n \in Mandates :
           /\ deposits'[n].funded = deposits[n].funded
           /\ deposits'[n].settled = deposits[n].settled
           /\ deposits'[n].amount = deposits[n].amount
           /\ deposits'[n].principal = deposits[n].principal
    BY <1>0, <2>1 DEF TypeOK, EscrowTypeOK, Deposit
  <2> QED BY <1>0, <2>1, <2>2, SolvencyFrame
<1>3. ASSUME NEW m \in Mandates, Refund(m)
      PROVE  SolvencyInv'
  <2>1. deposits[m].amount \in Nat /\ 0 + deposits[m].amount = deposits[m].amount
    BY <1>0 DEF Deposit
  <2> QED BY <1>0, <1>3, <2>1, ReleaseKeepsSolvent DEF Refund
<1>4. ASSUME NEW m \in Mandates, NEW j \in FinalJudgments(m),
             ExecuteFinalJudgment(j)
      PROVE  SolvencyInv'
  <2> DEFINE share == ProviderAmount(deposits[m].amount, j.providerBps)
  <2>1. j.mandateId = m /\ j.providerBps \in 0 .. BPS
    BY CourtTypesAssumption DEF FinalJudgments
  <2>2. deposits[m].amount \in Nat
    BY <1>0 DEF Deposit
  <2>3. share \in 0 .. deposits[m].amount
    BY <2>1, <2>2, ShareBound
  <2>4. /\ Settleable(deposits[m])
        /\ deposits' = [deposits EXCEPT ![m].settled = TRUE]
        /\ PayOut(m, share, deposits[m].amount - share)
    BY <1>4, <2>1 DEF ExecuteFinalJudgment, SettleEscrow, Settle
  <2>5. deposits[m].provider \in Actors
    BY <1>0, <2>4 DEF Settleable, Deposit
  <2> HIDE DEF share
  <2>6. /\ share \in Nat /\ deposits[m].amount - share \in Nat
        /\ share + (deposits[m].amount - share) = deposits[m].amount
    BY <2>2, <2>3
  <2> QED BY <1>0, <2>4, <2>5, <2>6, ReleaseKeepsSolvent
          DEF Settleable, Refundable
<1>5. ASSUME UNCHANGED <<deposits, usdc>>
      PROVE  SolvencyInv'
  BY <1>0, <1>5, SolvencyFrame
<1>6. ASSUME NEW m \in Mandates, Transaction(m)
      PROVE  SolvencyInv'
  <2>1. ASSUME NEW auth \in Authorizations(m), CancelMandate(auth)
        PROVE  Refund(m)
    BY <2>1 DEF CancelMandate, Authorizations
  <2>2. ASSUME NEW auth \in Authorizations(m), NEW hash \in DeliveryHashes,
               SubmitDelivery(auth, hash)
        PROVE  UNCHANGED <<deposits, usdc>>
    BY <2>2 DEF SubmitDelivery, escrowVars
  <2>3. MarkExpired(m) => Refund(m)
    BY DEF MarkExpired
  <2>4. CourtRecord(m) => UNCHANGED <<deposits, usdc>>
    BY DEF CourtRecord, escrowVars
  <2> QED BY <1>1, <1>2, <1>3, <1>4, <1>5, <1>6, <2>1, <2>2, <2>3, <2>4
          DEF Transaction
<1> QED BY <1>5, <1>6
        DEF Next, vars, WireAdapter, WireEscrow, SetRegistry, Tick, escrowVars

\* The escrow holds exactly the deposits that have not been paid out, and no
\* USDC is made or lost (MandateEscrow.fund, settle and refund), for every
\* number of mandates and wallets.
THEOREM EscrowSolventAlways == Spec => []EscrowSolvent
<1>1. SolvencyInv => EscrowSolvent
  BY DEF SolvencyInv
<1> QED BY <1>1, InitSolvent, CourtInvariant, NextSolvent, PTL DEF Spec

(***************************************************************************)
(* The nonces.                                                             *)
(***************************************************************************)

StepsNow == [m \in Mandates |-> SignedSteps(m)]

\* The steps that wallets sign are counted in natural numbers.
LEMMA StepsTypes == StepsNow \in [Mandates -> Int]
BY DEF StepsNow, SignedSteps

\* A call that both parties signed advances one mandate by one step, and uses
\* up one nonce of the actor and one of the court.
LEMMA SignedStepAccounts ==
    ASSUME TypeOK, TypeOK', NonceAccounting, NEW m \in Mandates,
           NEW auth \in Authorizations(m), Authorize(auth),
           SignedSteps(m)' = SignedSteps(m) + 1,
           \A n \in Mandates \ {m} :
              mandates'[n] = mandates[n] /\ deposits'[n] = deposits[n]
    PROVE  NonceAccounting'
<1>1. /\ actorNonces \in [Actors -> Int] /\ actorNonces' \in [Actors -> Int]
      /\ courtNonce \in Int /\ auth.actor \in Actors
  BY DEF TypeOK, RegistryTypeOK, Authorizations
<1>2. /\ actorNonces'[auth.actor] = actorNonces[auth.actor] + 1
      /\ \A a \in Actors \ {auth.actor} : actorNonces'[a] = actorNonces[a]
      /\ courtNonce' = courtNonce + 1
  BY <1>1 DEF Authorize
<1>3. SumFunctionOnSet(actorNonces', Actors)
        = SumFunctionOnSet(actorNonces, Actors) + 1
  <2>1. SumFunctionOnSet(actorNonces', Actors)
          = SumFunctionOnSet(actorNonces, Actors) + actorNonces'[auth.actor]
              - actorNonces[auth.actor]
    BY <1>1, <1>2, FiniteCourt, SumOneTerm
  <2>2. actorNonces[auth.actor] \in Int
        /\ SumFunctionOnSet(actorNonces, Actors) \in Int
    BY <1>1, FiniteCourt, SumInt
  <2> QED BY <1>2, <2>1, <2>2
<1>4. SumFunctionOnSet(StepsNow', Mandates)
        = SumFunctionOnSet(StepsNow, Mandates) + 1
  <2>1. StepsNow \in [Mandates -> Int] /\ StepsNow' \in [Mandates -> Int]
    <3>1. (StepsNow \in [Mandates -> Int])'
      BY StepsTypes, PTL
    <3> QED BY <3>1, StepsTypes
  <2>2. /\ \A n \in Mandates \ {m} : StepsNow'[n] = StepsNow[n]
        /\ StepsNow'[m] = SignedSteps(m)' /\ StepsNow[m] = SignedSteps(m)
    BY DEF StepsNow, SignedSteps
  <2>3. SumFunctionOnSet(StepsNow', Mandates)
          = SumFunctionOnSet(StepsNow, Mandates) + StepsNow'[m] - StepsNow[m]
    BY <2>1, <2>2, FiniteCourt, SumOneTerm
  <2>4. StepsNow[m] \in Int /\ SumFunctionOnSet(StepsNow, Mandates) \in Int
    BY <2>1, FiniteCourt, SumInt
  <2> QED BY <2>2, <2>3, <2>4
<1> QED BY <1>1, <1>2, <1>3, <1>4 DEF NonceAccounting, StepsNow

\* A call without signatures leaves the count of every mandate as it was.
LEMMA UnsignedStepAccounts ==
    ASSUME NonceAccounting, UNCHANGED <<actorNonces, courtNonce>>,
           \A m \in Mandates : SignedSteps(m)' = SignedSteps(m)
    PROVE  NonceAccounting'
<1>1. StepsNow' = StepsNow
  BY DEF StepsNow
<1> QED BY <1>1 DEF NonceAccounting, StepsNow

\* No step has been signed at the start.
LEMMA InitAccounts == Init => NonceAccounting
<1> SUFFICES ASSUME Init PROVE NonceAccounting
  OBVIOUS
<1>1. StepsNow \in [Mandates -> Int] /\ \A m \in Mandates : StepsNow[m] = 0
  BY DEF Init, RegistryInit, NoMandate, StepsNow, SignedSteps
<1>2. actorNonces \in [Actors -> Int] /\ \A a \in Actors : actorNonces[a] = 0
  BY DEF Init, RegistryInit
<1>3. courtNonce = 0
  BY DEF Init, RegistryInit
<1>4. SumFunctionOnSet(StepsNow, Mandates) = 0
  BY <1>1, FiniteCourt, SumZero
<1>5. SumFunctionOnSet(actorNonces, Actors) = 0
  BY <1>2, FiniteCourt, SumZero
<1> QED BY <1>3, <1>4, <1>5 DEF NonceAccounting, StepsNow

\* Which signed call was sent shows in the status it leaves; expiry and
\* settlement need no intent of a party and keep the count.
LEMMA NextAccounts ==
    CourtInv /\ CourtInv' /\ NonceAccounting /\ [Next]_vars => NonceAccounting'
<1> SUFFICES ASSUME CourtInv, CourtInv', NonceAccounting, [Next]_vars
             PROVE  NonceAccounting'
  OBVIOUS
<1>0. /\ TypeOK /\ TypeOK'
      /\ \A m \in Mandates : mandates[m] \in Mandate /\ deposits[m] \in Deposit
      /\ mandates \in [Mandates -> Mandate] /\ deposits \in [Mandates -> Deposit]
      /\ \A m \in Mandates : Books(m)
  BY BooksAreInv DEF CourtInv, TypeOK, EscrowTypeOK, RegistryTypeOK
<1>1. ASSUME NEW m \in Mandates, NEW auth \in Authorizations(m),
             NEW t \in Terms, CreateMandate(auth, t)
      PROVE  NonceAccounting'
  <2>0. auth.mandateId = m
    BY DEF Authorizations
  <2>1. /\ Authorize(auth)
        /\ mandates[m].status = "None" /\ mandates'[m].status = "Funded"
        /\ \A n \in Mandates \ {m} :
              mandates'[n] = mandates[n] /\ deposits'[n] = deposits[n]
    BY <1>0, <1>1, <2>0 DEF CreateMandate, RegisterMandate, Fund
  <2>2. SignedSteps(m)' = SignedSteps(m) + 1
    BY <2>1 DEF SignedSteps
  <2> QED BY <1>0, <2>1, <2>2, SignedStepAccounts
<1>2. ASSUME NEW m \in Mandates, NEW auth \in Authorizations(m),
             AcceptMandate(auth)
      PROVE  NonceAccounting'
  <2>0. auth.mandateId = m
    BY DEF Authorizations
  <2>1. /\ Authorize(auth)
        /\ mandates[m].status = "Funded" /\ mandates'[m].status = "Active"
        /\ \A n \in Mandates \ {m} :
              mandates'[n] = mandates[n] /\ deposits'[n] = deposits[n]
    BY <1>0, <1>2, <2>0 DEF AcceptMandate, RegisterAcceptance, BindProvider, Mandate
  <2>2. SignedSteps(m)' = SignedSteps(m) + 1
    BY <2>1 DEF SignedSteps
  <2> QED BY <1>0, <2>1, <2>2, SignedStepAccounts
<1>3. ASSUME NEW m \in Mandates, NEW auth \in Authorizations(m),
             NEW hash \in DeliveryHashes, SubmitDelivery(auth, hash)
      PROVE  NonceAccounting'
  <2>0. auth.mandateId = m
    BY DEF Authorizations
  <2>1. /\ Authorize(auth)
        /\ mandates[m].status = "Active" /\ mandates'[m].status = "Submitted"
        /\ \A n \in Mandates \ {m} :
              mandates'[n] = mandates[n] /\ deposits'[n] = deposits[n]
    BY <1>0, <1>3, <2>0 DEF SubmitDelivery, RegisterDelivery, Mandate, escrowVars
  <2>2. SignedSteps(m)' = SignedSteps(m) + 1
    BY <2>1 DEF SignedSteps
  <2> QED BY <1>0, <2>1, <2>2, SignedStepAccounts
<1>4. ASSUME NEW m \in Mandates, NEW auth \in Authorizations(m),
             CancelMandate(auth)
      PROVE  NonceAccounting'
  <2>0. auth.mandateId = m
    BY DEF Authorizations
  <2>1. /\ Authorize(auth)
        /\ mandates[m].status = "Funded" /\ mandates'[m].status = "Cancelled"
        /\ \A n \in Mandates \ {m} :
              mandates'[n] = mandates[n] /\ deposits'[n] = deposits[n]
    BY <1>0, <1>4, <2>0 DEF CancelMandate, RegisterCancellation, Refund, Mandate
  <2>2. SignedSteps(m)' = SignedSteps(m) + 1
    BY <2>1 DEF SignedSteps
  <2> QED BY <1>0, <2>1, <2>2, SignedStepAccounts
<1>5. ASSUME NEW m \in Mandates, MarkExpired(m)
      PROVE  NonceAccounting'
  <2>1. /\ mandates[m].status \in {"Funded", "Active"}
        /\ mandates' = [mandates EXCEPT ![m].status = "Expired"]
        /\ deposits' = [deposits EXCEPT ![m].settled = TRUE]
        /\ UNCHANGED <<actorNonces, courtNonce>>
    BY <1>5 DEF MarkExpired, RegisterExpiry, Expired, Refund
  <2>2. /\ mandates'[m].status = "Expired"
        /\ deposits'[m].provider = deposits[m].provider
        /\ \A n \in Mandates \ {m} :
              mandates'[n] = mandates[n] /\ deposits'[n] = deposits[n]
    BY <1>0, <2>1 DEF Mandate, Deposit
  <2>3. /\ mandates[m].status = "Funded" => deposits[m].provider = NoActor
        /\ mandates[m].status = "Active" => deposits[m].provider # NoActor
    BY <1>0 DEF Books, StatusBooks
  <2>4. SignedSteps(m)' = SignedSteps(m)
    BY <2>1, <2>2, <2>3 DEF SignedSteps
  <2>5. \A n \in Mandates : SignedSteps(n)' = SignedSteps(n)
    BY <2>2, <2>4 DEF SignedSteps
  <2> QED BY <2>1, <2>5, UnsignedStepAccounts
<1>6. ASSUME NEW m \in Mandates, NEW j \in FinalJudgments(m),
             ExecuteFinalJudgment(j)
      PROVE  NonceAccounting'
  <2>0. j.mandateId = m
    BY DEF FinalJudgments
  <2>1. /\ mandates[m].status = "Submitted"
        /\ mandates' = [mandates EXCEPT ![m].status = "Settled"]
        /\ deposits' = [deposits EXCEPT ![m].settled = TRUE]
    BY <1>0, <1>6, JudgmentEffect
  <2>2. UNCHANGED <<actorNonces, courtNonce>>
    BY <1>6 DEF ExecuteFinalJudgment, SettleEscrow, SetStatus, registryVars
  <2>3. \A n \in Mandates : SignedSteps(n)' = SignedSteps(n)
    BY <1>0, <2>1 DEF SignedSteps, Mandate, Deposit
  <2> QED BY <2>2, <2>3, UnsignedStepAccounts
<1>7. ASSUME UNCHANGED <<registryVars, deposits>>
      PROVE  NonceAccounting'
  BY <1>7, UnsignedStepAccounts DEF registryVars, SignedSteps
<1>8. ASSUME NEW m \in Mandates, Transaction(m)
      PROVE  NonceAccounting'
  BY <1>1, <1>2, <1>3, <1>4, <1>5, <1>6, <1>7, <1>8
  DEF Transaction, CourtRecord, escrowVars
<1> QED BY <1>7, <1>8
        DEF Next, vars, WireAdapter, WireEscrow, SetRegistry, Tick, escrowVars

\* Every nonce of an actor and of the court was used up by one step of one
\* mandate (MandateRegistry._authorize), for every number of both.
THEOREM NonceAccountingAlways == Spec => []NonceAccounting
BY InitAccounts, CourtInvariant, NextAccounts, PTL DEF Spec

(***************************************************************************)
(* Deposits can leave.  FundsNeverStranded says it with ENABLED, which the *)
(* provers do not handle; what it needs is that no guard of the contracts  *)
(* that the release of a deposit runs through can refuse it.               *)
(***************************************************************************)

\* The owner sets the escrow's registry last, when the adapter is complete.
WiredInOrder == escrowRegistry => adapterLinks = Links

\* The guards of MandateEscrow.refund for an expired mandate, and of
\* SettlementAdapter and MandateEscrow.settle for delivered work with a final
\* case: the wiring, the flags of the deposit and the balance of the escrow.
ReleaseNeverRefused ==
    \A m \in Mandates :
        /\ Expired(mandates[m]) =>
              /\ escrowRegistry
              /\ Refundable(deposits[m])
              /\ deposits[m].amount <= usdc[EscrowAccount]
        /\ mandates[m].status = "Submitted" /\ cases[m].finalized =>
              /\ adapterLinks = Links
              /\ escrowRegistry
              /\ ~settled[m]
              /\ Linked(m)
              /\ Settleable(deposits[m])
              /\ deposits[m].amount <= usdc[EscrowAccount]

\* The escrow's balance covers each deposit it holds, whatever the others are.
LEMMA HeldCovered ==
    ASSUME TypeOK, EscrowSolvent, NEW m \in Mandates
    PROVE  Held(m) <= usdc[EscrowAccount]
<1> DEFINE none == [n \in Mandates |-> 0]
           only == [n \in Mandates |-> IF n = m THEN Held(m) ELSE 0]
<1>1. /\ HeldNow \in [Mandates -> Int]
      /\ \A n \in Mandates : HeldNow[n] >= 0
      /\ HeldNow[m] = Held(m)
  BY HeldTypes DEF TypeOK, EscrowTypeOK, Deposit, HeldNow, Held
<1>2. /\ none \in [Mandates -> Int] /\ \A n \in Mandates : none[n] = 0
      /\ only \in [Mandates -> Int] /\ only[m] = Held(m)
      /\ \A n \in Mandates \ {m} : only[n] = none[n]
  BY <1>1
<1>3. \A n \in Mandates : only[n] <= HeldNow[n]
  BY <1>1
<1> HIDE DEF none, only
<1>4. SumFunctionOnSet(none, Mandates) = 0
  BY <1>2, FiniteCourt, SumZero
<1>5. SumFunctionOnSet(only, Mandates)
        = SumFunctionOnSet(none, Mandates) + only[m] - none[m]
  BY <1>2, FiniteCourt, SumOneTerm
<1>6. SumFunctionOnSet(only, Mandates) <= SumFunctionOnSet(HeldNow, Mandates)
  BY <1>1, <1>2, <1>3, FiniteCourt, SumLeq
<1>7. Held(m) \in Int /\ SumFunctionOnSet(only, Mandates) = Held(m)
  BY <1>1, <1>2, <1>4, <1>5
<1> QED BY <1>6, <1>7 DEF EscrowSolvent, HeldNow

\* The contracts are wired in order, whatever happens.
LEMMA NextWired == WiredInOrder /\ [Next]_vars => WiredInOrder'
<1> SUFFICES ASSUME WiredInOrder, [Next]_vars PROVE WiredInOrder'
  OBVIOUS
<1>1. CASE \E link \in Links : WireAdapter(link)
  BY <1>1 DEF WiredInOrder, WireAdapter, SetLink, escrowVars
<1>2. CASE WireEscrow
  BY <1>2 DEF WiredInOrder, WireEscrow, adapterVars
<1>3. ASSUME NEW m \in Mandates, Transaction(m)
      PROVE  UNCHANGED <<escrowRegistry, adapterLinks>>
  <2>1. ASSUME NEW j \in FinalJudgments(m), ExecuteFinalJudgment(j)
        PROVE  UNCHANGED <<escrowRegistry, adapterLinks>>
    BY <2>1 DEF ExecuteFinalJudgment, SettleEscrow, Settle
  <2>2. ASSUME NEW auth \in Authorizations(m),
               \/ \E t \in Terms : CreateMandate(auth, t)
               \/ AcceptMandate(auth)
               \/ \E hash \in DeliveryHashes : SubmitDelivery(auth, hash)
               \/ CancelMandate(auth)
        PROVE  UNCHANGED <<escrowRegistry, adapterLinks>>
    BY <2>2 DEF CreateMandate, AcceptMandate, SubmitDelivery, CancelMandate,
                Fund, BindProvider, Refund, escrowVars, adapterVars
  <2>3. MarkExpired(m) \/ CourtRecord(m)
          => UNCHANGED <<escrowRegistry, adapterLinks>>
    BY DEF MarkExpired, CourtRecord, Refund, escrowVars, adapterVars
  <2> QED BY <1>3, <2>1, <2>2, <2>3 DEF Transaction
<1>4. CASE Tick \/ UNCHANGED vars
  BY <1>4 DEF WiredInOrder, Tick, vars, escrowVars, adapterVars
<1> QED BY <1>1, <1>2, <1>3, <1>4 DEF Next, WiredInOrder

\* No guard of the contracts stands between an expired deposit and its refund,
\* or between a final judgment and its execution (MandateEscrow.refund,
\* SettlementAdapter.executeFinalJudgment, MandateEscrow.settle).
THEOREM ReleaseNeverRefusedAlways == Spec => []ReleaseNeverRefused
<1>1. Init => WiredInOrder
  BY DEF Init, EscrowInit, WiredInOrder
<1>2. CourtInv /\ EscrowSolvent /\ WiredInOrder => ReleaseNeverRefused
  <2> SUFFICES ASSUME CourtInv, EscrowSolvent, WiredInOrder,
                      NEW m \in Mandates
               PROVE  /\ Expired(mandates[m]) =>
                          /\ escrowRegistry
                          /\ Refundable(deposits[m])
                          /\ deposits[m].amount <= usdc[EscrowAccount]
                      /\ mandates[m].status = "Submitted"
                         /\ cases[m].finalized =>
                          /\ adapterLinks = Links
                          /\ escrowRegistry
                          /\ ~settled[m]
                          /\ Linked(m)
                          /\ Settleable(deposits[m])
                          /\ deposits[m].amount <= usdc[EscrowAccount]
    BY DEF ReleaseNeverRefused
  <2>1. Books(m) /\ TypeOK
    BY BooksAreInv
  <2>2. mandates[m].status \in {"Funded", "Active", "Submitted"}
          => Refundable(deposits[m]) /\ escrowRegistry
    BY <2>1 DEF Books, StatusBooks, Released, Refundable
  <2>3. Refundable(deposits[m]) => deposits[m].amount <= usdc[EscrowAccount]
    BY <2>1, HeldCovered DEF Held
  <2>4. Expired(mandates[m]) => mandates[m].status \in {"Funded", "Active"}
    BY DEF Expired
  <2>5. mandates[m].status = "Submitted" /\ cases[m].finalized
          => ~settled[m] /\ Linked(m) /\ Settleable(deposits[m])
    BY <2>1, <2>2 DEF Books, StatusBooks, JudgmentBooks, RecordBooks, Linked,
                      Refundable, Settleable
  <2> QED BY <2>2, <2>3, <2>4, <2>5 DEF WiredInOrder
<1> QED BY <1>1, <1>2, NextWired, CourtInvariant, EscrowSolventAlways, PTL
        DEF Spec

=============================================================================
