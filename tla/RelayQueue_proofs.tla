-------------------------- MODULE RelayQueue_proofs --------------------------
(***************************************************************************)
(* Proofs about RelayQueue for every set of mandates, wallets, verdicts    *)
(* and GenLayer transactions, and every bound on passes, attempts, faults  *)
(* and crashes.                                                            *)
(*                                                                         *)
(* Court is the module of the proofs about the contracts, with the         *)
(* variables of the whole system: a theorem about the contracts holds here *)
(* because the whole system implements their specification.                *)
(***************************************************************************)
EXTENDS RelayQueue, FoldTheorems_proofs, TLAPS

Court == INSTANCE BaseCourt_proofs

(***************************************************************************)
(* Types.                                                                  *)
(***************************************************************************)
IntentType == [actor : Actors \cup {NoActor}, nonce : Nat, deadline : Nat]

Judgment == Verdicts \cup {NoHash}

Document ==
    [status : DocumentStatus, intents : [SignedTypes -> IntentType],
     deliveryHash : DeliveryHashes \cup {NoHash},
     deliveryTransaction : BOOLEAN,
     genlayerTransactionId : GenLayerTxs \cup {NoHash},
     acceptedJudgmentHash : Judgment, judgmentHash : Judgment,
     appeals : SUBSET Appellants]

Job == [status : JobStatus, attempts : Nat, task : Nat]

TaskMessage ==
    [courtNonce : Nat, nonce : Nat, verdict : Judgment, deadline : Nat]

Task == [state : TaskState, message : TaskMessage]

CourtCase ==
    [transactions : SUBSET GenLayerTxs,
     status : {"NONE", "PENDING", "ACCEPTED", "FINALIZED"},
     verdict : Judgment]

Labels == {"idle", "next", "job"} \cup Writing

Worker ==
    [at : Labels, batch : Seq(JobKeys), job : JobKeys \cup {Idle.job},
     seen : Document, read : CourtCase, submitted : BOOLEAN]

\* The jobs that handlers insert.
HandlerKeys ==
    {k \in JobKeys :
        k.type \in SignedTypes \cup AppealTypes \cup {"GENLAYER_ADJUDICATION"}}

StoreTypes ==
    /\ documents \in [Mandates -> Document]
    /\ jobs \in [JobKeys -> Job]
    /\ settlementCounter \in Nat
    /\ inserting \subseteq Seq(HandlerKeys) \ {<<>>}
    /\ appealing \subseteq AppealRequests
    /\ tasks \in [JobKeys -> Seq(Task)]
    /\ genlayer \in [Mandates -> CourtCase]
    /\ worker \in Worker

ChainTypes ==
    /\ now \in 0 .. MaxTime
    /\ mandates \in [Mandates -> Mandate]
    /\ actorNonces \in [Actors -> Nat]
    /\ courtNonce \in Nat
    /\ deposits \in [Mandates -> Deposit]
    /\ cases \in [Mandates -> CaseRecord]
    /\ settled \in [Mandates -> BOOLEAN]

(***************************************************************************)
(* The inductive invariant: what every mandate and every job is known to   *)
(* be, and what the processor knows at each of its steps.                  *)
(***************************************************************************)

\* The delivery on Base is the one in the document, which no other replaces,
\* and GenLayer knows delivered mandates only.
Delivered(m) ==
    /\ mandates[m].deliveryHash # NoHash =>
          /\ documents[m].deliveryHash = mandates[m].deliveryHash
          /\ documents[m].intents["SUBMIT_DELIVERY"].actor # NoActor
    /\ documents[m].intents["SUBMIT_DELIVERY"].actor # NoActor =>
          documents[m].deliveryHash \in DeliveryHashes
    /\ genlayer[m].status # "NONE" => mandates[m].deliveryHash # NoHash

FinalVerdict(m, v) ==
    genlayer[m].status = "FINALIZED" /\ genlayer[m].verdict = v

\* The document and the chain hold a transaction of GenLayer's case and the
\* verdict GenLayer finalized.
Judged(m) ==
    /\ documents[m].genlayerTransactionId # NoHash =>
          documents[m].genlayerTransactionId \in genlayer[m].transactions
    /\ genlayer[m].transactions # {} => genlayer[m].status # "NONE"
    /\ cases[m].genlayerTransactionId
          \in {NoHash, documents[m].genlayerTransactionId}
    /\ documents[m].judgmentHash # NoHash =>
          FinalVerdict(m, documents[m].judgmentHash)
    /\ cases[m].finalized => FinalVerdict(m, cases[m].finalizedVerdictHash)

\* What a record job waited for is there when the job is.
Prepared(k) ==
    LET document == documents[k.mandate] IN
    /\ k.type = "LINK_CASE" => document.genlayerTransactionId # NoHash
    /\ k.type = "RECORD_ACCEPTED" =>
          \/ document.acceptedJudgmentHash # NoHash
          \/ document.judgmentHash # NoHash
    /\ k.type \in {"RECORD_FINALIZED", "SETTLEMENT"} =>
          document.judgmentHash # NoHash
    /\ k.type = "SETTLEMENT" => cases[k.mandate].finalized

AheadOfNothing(m) ==
    mandates[m].status \in KnownOnBase(documents[m].status)

AppealSound(a) == documents[a.mandate].genlayerTransactionId # NoHash

MessageSound(k, message) ==
    /\ k.type = "RECORD_ACCEPTED" => message.verdict # NoHash
    /\ k.type \in {"RECORD_FINALIZED", "SETTLEMENT"} =>
          message.verdict # NoHash /\ FinalVerdict(k.mandate, message.verdict)

TaskSound(k, task) ==
    /\ MessageSound(k, task.message)
    /\ task.state = "success" => Effect(k)

JobSound(k) ==
    /\ Exists(k) => Prepared(k)
    /\ tasks[k] # <<>> => Exists(k) /\ k.type \in BaseTypes
    /\ jobs[k].task <= Len(tasks[k])
    /\ jobs[k].status = "COMPLETED" /\ k.type \in BaseTypes => Effect(k)

MandateSound(m) == Delivered(m) /\ Judged(m) /\ AheadOfNothing(m)

TasksSound(k) == \A i \in DOMAIN tasks[k] : TaskSound(k, tasks[k][i])

StoreInv ==
    /\ \A m \in Mandates : MandateSound(m)
    /\ \A a \in appealing : AppealSound(a)
    /\ \A k \in JobKeys : JobSound(k) /\ TasksSound(k)

Working == worker.at \notin {"idle", "next"}

SeenSound ==
    /\ job \in JobKeys
    /\ Exists(job)
    /\ worker.seen.genlayerTransactionId # NoHash =>
          worker.seen.genlayerTransactionId \in genlayer[mandate].transactions
    /\ worker.seen.judgmentHash # NoHash =>
          FinalVerdict(mandate, worker.seen.judgmentHash)

OnAdjudication ==
    {"review", "reviewing", "link", "progress", "accepted", "judged",
     "finalized", "finalize"}

\* What the processor knows at each step, whatever has moved since it read.
LabelNeeds(at) ==
    /\ at = "next" => worker.batch # <<>>
    /\ at = "job" =>
          /\ worker.seen.genlayerTransactionId
                = documents[mandate].genlayerTransactionId
          /\ Is("RECORD_ACCEPTED") =>
                \/ worker.seen.acceptedJudgmentHash # NoHash
                \/ worker.seen.judgmentHash # NoHash
          /\ Is("RECORD_FINALIZED") \/ Is("SETTLEMENT") =>
                worker.seen.judgmentHash # NoHash
    /\ at \in OnAdjudication => Is("GENLAYER_ADJUDICATION")
    /\ at = "review" =>
          /\ documents[mandate].genlayerTransactionId = NoHash
          /\ worker.seen.genlayerTransactionId # NoHash
    /\ at = "reviewing" \/ at = "link" =>
          documents[mandate].genlayerTransactionId # NoHash
    /\ at = "progress" =>
          /\ worker.seen.genlayerTransactionId # NoHash
          /\ worker.read.status = "FINALIZED" =>
                FinalVerdict(mandate, worker.read.verdict)
    /\ at = "accepted" => documents[mandate].acceptedJudgmentHash # NoHash
    /\ at = "judged" \/ at = "finalized" \/ at = "finalize" =>
          documents[mandate].judgmentHash # NoHash
    /\ at = "appealed" \/ at = "appeal" =>
          Is("GENLAYER_APPEAL") /\ genlayer[mandate].status # "NONE"
    /\ at = "complete" \/ at = "follow" => job.type \in BaseTypes /\ Effect(job)
    /\ at = "follow" => Is("SUBMIT_DELIVERY") \/ Is("RECORD_FINALIZED")
    /\ at = "attested" => Is("SETTLEMENT")

LabelSound == LabelNeeds(worker.at)

BatchSound == \A i \in DOMAIN worker.batch : Exists(worker.batch[i])

WorkerInv ==
    /\ BatchSound
    /\ Working => SeenSound
    /\ LabelSound

ChainInv == Court!CourtInv /\ Court!ProvidersFunded

SystemInv == ChainInv /\ StoreTypes /\ StoreInv /\ WorkerInv

(***************************************************************************)
(* The contracts within the whole system.                                  *)
(***************************************************************************)

\* What the proofs about the contracts assume of the constants holds here.
LEMMA CourtAssumptions ==
    /\ Court!CourtTypesAssumption
    /\ Court!BaseCourtAssumption
    /\ Court!FiniteCourt
<1>1. Court!CourtTypesAssumption
  BY CourtTypesAssumption DEF Court!CourtTypesAssumption, Court!TermsType,
                              TermsType
<1>2. Court!BaseCourtAssumption
  BY CourtRelaysAssumption DEF Court!BaseCourtAssumption, Court!Holders,
                               Holders
<1>3. Court!FiniteCourt
  BY CourtRelaysAssumption DEF Court!FiniteCourt, Court!IsFiniteSet,
                               IsFiniteSet
<1> QED BY <1>1, <1>2, <1>3

\* The variables of the contracts have the types of their modules.
LEMMA ChainTyped == Court!CourtInv => ChainTypes
BY DEF Court!CourtInv, Court!TypeOK, Court!RegistryTypeOK, Court!Mandate,
       Court!EscrowTypeOK, Court!Deposit, Court!DisputeTypeOK,
       Court!CaseRecord, Court!AdapterTypeOK, Court!Status,
       ChainTypes, Mandate, Deposit, CaseRecord, Status

\* What the processor reads off a mark of the contracts.
LEMMA ChainFacts ==
    ASSUME Court!CourtInv, NEW m \in Mandates
    PROVE  /\ mandates[m].status \in Status
           /\ mandates[m].deliveryHash # NoHash <=>
                 mandates[m].status \in {"Submitted", "Settled"}
           /\ cases[m].finalized <=> cases[m].finalizedVerdictHash # NoHash
           /\ cases[m].finalized => cases[m].genlayerTransactionId # NoHash
           /\ deposits[m].funded <=> mandates[m].status # "None"
           /\ mandates[m].status \in {"Funded", "Cancelled"} =>
                 deposits[m].provider = NoActor
           /\ mandates[m].status \notin {"Offered", "UnderReview", "Finalized"}
           /\ settled[m] <=> mandates[m].status = "Settled"
<1>1. mandates[m].status \in Status
  BY ChainTyped DEF ChainTypes, Mandate
<1> QED BY <1>1
        DEF Court!CourtInv, Court!StatusMatchesDeposit,
            Court!OnlyJudgedWorkIsSettled, Court!RecordsConsistent,
            Court!Linked

\* The invariant of the contracts is kept by every transaction.
LEMMA ChainInvStep ==
    ASSUME ChainInv, [Court!Next]_(Court!vars)
    PROVE  /\ ChainInv'
           /\ \A m \in Mandates : Court!MarksKept(m)
<1>1. \A m \in Mandates : Court!MarksKept(m)
  BY Court!StepKeepsMarks, CourtAssumptions DEF ChainInv
<1>2. Court!CourtInv'
  BY Court!NextInv, CourtAssumptions DEF ChainInv
<1>3. Court!ProvidersFunded'
  BY <1>1 DEF Court!ProvidersFunded, Court!MarksKept, Court!DepositMarks
<1> QED BY <1>1, <1>2, <1>3 DEF ChainInv

\* What a call that lands leaves behind, and where the marks it may set come
\* from: the delivery and the transaction from the document, the final verdict
\* from the message.
CallEffect(k, message) ==
    /\ Court!Next
    /\ \A m \in Mandates :
          mandates'[m].deliveryHash # mandates[m].deliveryHash =>
            /\ mandates'[m].deliveryHash = documents[m].deliveryHash
            /\ documents[m].intents["SUBMIT_DELIVERY"].actor # NoActor
    /\ \A m \in Mandates :
          cases'[m].genlayerTransactionId # cases[m].genlayerTransactionId =>
            cases'[m].genlayerTransactionId
              = documents[m].genlayerTransactionId
    /\ \A m \in Mandates :
          cases'[m].finalized /\ ~cases[m].finalized =>
            /\ k = Key(m, "RECORD_FINALIZED")
            /\ cases'[m].finalizedVerdictHash = message.verdict
    /\ Effect(k)'

\* The key of a job, and what its call needs.
LEMMA KeyFacts ==
    ASSUME NEW k \in JobKeys
    PROVE  /\ k.mandate \in Mandates
           /\ k.type \in Types
           /\ k.type \notin AppealTypes => k = Key(k.mandate, k.type)
           /\ k.type \in AppealTypes => k.role \in Appellants
BY DEF JobKeys, Key, Types, BaseTypes, AppealTypes

\* A job that is not one of an appeal has one key for each mandate.
LEMMA KeyInKeys ==
    ASSUME NEW m \in Mandates, NEW type \in Types \ AppealTypes
    PROVE  Key(m, type) \in JobKeys
BY DEF JobKeys, Key

\* A call that spends an authorization goes to BaseCourt as it is.
LEMMA SignedIsBase ==
    ASSUME NEW m \in Mandates, NEW auth \in Base!Authorizations(m)
    PROVE  /\ auth \in Court!Authorizations(m)
           /\ auth.mandateId = m /\ auth.actor \in Actors
           /\ \A t \in Terms :
                 Base!CreateMandate(auth, t) => Court!CreateMandate(auth, t)
           /\ Base!AcceptMandate(auth) => Court!AcceptMandate(auth)
           /\ \A h : Base!SubmitDelivery(auth, h) =>
                        Court!SubmitDelivery(auth, h)
<1>1. auth \in Court!Authorizations(m) /\ auth.mandateId = m /\ auth.actor \in Actors
  BY DEF Base!Authorizations, Court!Authorizations
<1>2. ASSUME NEW t \in Terms, Base!CreateMandate(auth, t)
      PROVE  Court!CreateMandate(auth, t)
  BY <1>2
  DEF Base!CreateMandate, Base!RegisterMandate, Base!Fund, Base!ValidTerms,
      Base!Authorize, Base!adapterVars,
      Court!CreateMandate, Court!RegisterMandate, Court!Fund,
      Court!ValidTerms, Court!Authorize, Court!adapterVars
<1>3. ASSUME Base!AcceptMandate(auth) PROVE Court!AcceptMandate(auth)
  BY <1>3
  DEF Base!AcceptMandate, Base!RegisterAcceptance, Base!BindProvider,
      Base!Authorize, Base!adapterVars,
      Court!AcceptMandate, Court!RegisterAcceptance, Court!BindProvider,
      Court!Authorize, Court!adapterVars
<1>4. ASSUME NEW h, Base!SubmitDelivery(auth, h)
      PROVE  Court!SubmitDelivery(auth, h)
  BY <1>4
  DEF Base!SubmitDelivery, Base!RegisterDelivery, Base!Authorize,
      Base!adapterVars, Base!escrowVars,
      Court!SubmitDelivery, Court!RegisterDelivery, Court!Authorize,
      Court!adapterVars, Court!escrowVars
<1> QED BY <1>1, <1>2, <1>3, <1>4

\* createMandate leaves a funded deposit.
LEMMA CreateLands ==
    ASSUME ChainInv, NEW k \in JobKeys, NEW message,
           k.type = "CREATE_MANDATE",
           NEW auth \in Base!Authorizations(k.mandate),
           Base!CreateMandate(auth, TermsOf[k.mandate])
    PROVE  CallEffect(k, message)
<1> DEFINE m == k.mandate
<1>0. m \in Mandates /\ TermsOf[m] \in Terms /\ k.type \in SignedTypes
  BY KeyFacts, CourtDatabaseAssumption DEF SignedTypes
<1> HIDE DEF m
<1> USE DEF m
<1>1. /\ Court!CreateMandate(auth, TermsOf[m])
      /\ auth \in Court!Authorizations(m)
      /\ auth.mandateId = m
  BY <1>0, SignedIsBase
<1>2. Court!Next
  BY <1>0, <1>1 DEF Court!Next, Court!Transaction
<1>3. ChainTypes /\ Court!CourtInv
  BY ChainTyped DEF ChainInv
<1>4. /\ cases' = cases
      /\ deposits'[m].funded
      /\ mandates[m].status = "None"
      /\ mandates'[m].deliveryHash = NoHash
      /\ \A n \in Mandates : n # m => mandates'[n] = mandates[n]
  BY <1>0, <1>1, <1>3
  DEF Court!CreateMandate, Court!RegisterMandate, Court!Fund, ChainTypes
<1>5. mandates[m].deliveryHash = NoHash
  BY <1>0, <1>3, <1>4, ChainFacts
<1>6. Effect(k)'
  BY <1>0, <1>4 DEF Effect
<1> QED BY <1>2, <1>4, <1>5, <1>6 DEF CallEffect

\* acceptMandate binds a provider.
LEMMA AcceptLands ==
    ASSUME ChainInv, NEW k \in JobKeys, NEW message,
           k.type = "ACCEPT_MANDATE",
           NEW auth \in Base!Authorizations(k.mandate),
           Base!AcceptMandate(auth)
    PROVE  CallEffect(k, message)
<1> DEFINE m == k.mandate
<1>0. m \in Mandates /\ k.type \in SignedTypes
  BY KeyFacts DEF SignedTypes
<1>1. /\ Court!AcceptMandate(auth)
      /\ auth \in Court!Authorizations(m)
      /\ auth.mandateId = m
  BY <1>0, SignedIsBase
<1>2. Court!Next
  BY <1>0, <1>1 DEF Court!Next, Court!Transaction
<1>3. ChainTypes
  BY ChainTyped DEF ChainInv
<1>4. /\ cases' = cases
      /\ deposits'[m].provider # NoActor
      /\ \A n \in Mandates :
            mandates'[n].deliveryHash = mandates[n].deliveryHash
  BY <1>0, <1>1, <1>3
  DEF Court!AcceptMandate, Court!RegisterAcceptance, Court!BindProvider,
      ChainTypes, Mandate, Deposit
<1>5. Effect(k)'
  BY <1>0, <1>4 DEF Effect
<1> QED BY <1>2, <1>4, <1>5 DEF CallEffect

\* submitDelivery writes the delivery hash of the document.
LEMMA DeliveryLands ==
    ASSUME ChainInv, NEW k \in JobKeys, NEW message,
           k.type = "SUBMIT_DELIVERY",
           NEW auth \in Base!Authorizations(k.mandate),
           auth.actor = documents[k.mandate].intents["SUBMIT_DELIVERY"].actor,
           documents[k.mandate].deliveryHash \in DeliveryHashes,
           Base!SubmitDelivery(auth, documents[k.mandate].deliveryHash)
    PROVE  CallEffect(k, message)
<1> DEFINE m == k.mandate
           hash == documents[m].deliveryHash
<1>0. m \in Mandates /\ k.type \in SignedTypes /\ hash # NoHash
  BY KeyFacts, CourtTypesAssumption DEF SignedTypes
<1>1. /\ Court!SubmitDelivery(auth, hash)
      /\ auth \in Court!Authorizations(m)
      /\ auth.mandateId = m
      /\ auth.actor # NoActor
  BY <1>0, SignedIsBase, CourtTypesAssumption
<1>2. Court!Next
  BY <1>0, <1>1 DEF Court!Next, Court!Transaction
<1>3. ChainTypes
  BY ChainTyped DEF ChainInv
<1>4. /\ cases' = cases
      /\ mandates'[m].deliveryHash = hash
      /\ \A n \in Mandates : n # m => mandates'[n] = mandates[n]
  BY <1>0, <1>1, <1>3
  DEF Court!SubmitDelivery, Court!RegisterDelivery, ChainTypes, Mandate
<1>5. Effect(k)'
  BY <1>0, <1>4 DEF Effect
<1> QED BY <1>1, <1>2, <1>4, <1>5 DEF CallEffect

\* The court's records of a case.
LEMMA RecordLands ==
    ASSUME ChainInv, NEW k \in JobKeys, NEW message \in TaskMessage,
           documents[k.mandate].genlayerTransactionId \in GenLayerTxs \cup {NoHash},
           k.type = "LINK_CASE" =>
             documents[k.mandate].genlayerTransactionId # NoHash,
           k.type \in {"RECORD_ACCEPTED", "RECORD_FINALIZED"} =>
             message.verdict # NoHash,
           RecordCall(k, message)
    PROVE  CallEffect(k, message)
<1> DEFINE m == k.mandate
<1>0. m \in Mandates
  BY KeyFacts
<1>1. ChainTypes /\ Court!CourtInv
  BY ChainTyped DEF ChainInv
<1>2. message.verdict \in Verdicts \cup {NoHash}
  BY DEF TaskMessage, Judgment
<1>3. /\ mandates' = mandates
      /\ UNCHANGED <<now, Court!escrowVars, Court!registryVars,
                     Court!adapterVars>>
  BY DEF RecordCall, escrowVars, registryVars, adapterVars,
         Court!escrowVars, Court!registryVars, Court!adapterVars
<1>4. \A g \in Grounds : g # NoHash
  BY CourtTypesAssumption
<1>5. CASE k.type = "LINK_CASE"
  <2> DEFINE tx == documents[m].genlayerTransactionId
  <2>1. LinkCase(m, tx)
    BY <1>5 DEF RecordCall
  <2>2. tx \in GenLayerTxs /\ tx # NoHash
    BY <1>5
  <2>3. Court!LinkCase(m, tx)
    BY <2>1 DEF LinkCase, Linked, Court!LinkCase, Court!Linked
  <2>4. Court!Next
    BY <1>0, <1>3, <2>2, <2>3
    DEF Court!Next, Court!Transaction, Court!CourtRecord
  <2>5. /\ cases'[m].genlayerTransactionId = tx
        /\ \A n \in Mandates : cases'[n].finalized = cases[n].finalized
        /\ \A n \in Mandates : n # m => cases'[n] = cases[n]
    BY <1>0, <1>1, <2>1 DEF LinkCase, ChainTypes, CaseRecord
  <2>6. Effect(k)'
    BY <1>5, <2>2, <2>5 DEF Effect, SignedTypes, Linked
  <2> QED BY <1>3, <2>4, <2>5, <2>6 DEF CallEffect
<1>6. CASE k.type = "RECORD_ACCEPTED"
  <2>1. RecordAccepted(m, message.verdict)
    BY <1>6 DEF RecordCall
  <2>2. message.verdict \in Verdicts /\ message.verdict # NoHash
    BY <1>2, <1>6
  <2>3. Court!RecordAccepted(m, message.verdict)
    BY <2>1 DEF RecordAccepted, Linked, Court!RecordAccepted, Court!Linked
  <2>4. Court!Next
    BY <1>0, <1>3, <2>2, <2>3
    DEF Court!Next, Court!Transaction, Court!CourtRecord
  <2>5. /\ cases'[m].acceptedVerdictHash = message.verdict
        /\ \A n \in Mandates :
              /\ cases'[n].finalized = cases[n].finalized
              /\ cases'[n].genlayerTransactionId
                   = cases[n].genlayerTransactionId
    BY <1>0, <1>1, <2>1 DEF RecordAccepted, ChainTypes, CaseRecord
  <2>6. Effect(k)'
    BY <1>6, <2>2, <2>5 DEF Effect, SignedTypes
  <2> QED BY <1>3, <2>4, <2>5, <2>6 DEF CallEffect
<1>7. CASE k.type = "RECORD_APPEAL"
  <2> DEFINE g == GroundsOf[k.role]
  <2>1. g \in Grounds /\ g # NoHash
    BY <1>4, <1>7, KeyFacts, CourtRelaysAssumption DEF AppealTypes
  <2>2. \/ k.role = "principal" /\ RecordPrincipalAppeal(m, g)
        \/ k.role = "provider" /\ RecordProviderAppeal(m, g)
    BY <1>7 DEF RecordCall
  <2>3. \/ Court!RecordPrincipalAppeal(m, g)
        \/ Court!RecordProviderAppeal(m, g)
    BY <2>2 DEF RecordPrincipalAppeal, RecordProviderAppeal, Linked,
       Court!RecordPrincipalAppeal, Court!RecordProviderAppeal, Court!Linked
  <2>4. Court!Next
    BY <1>0, <1>3, <2>1, <2>3
    DEF Court!Next, Court!Transaction, Court!CourtRecord
  <2>5. /\ k.role = "principal" => cases'[m].principalAppealHash = g
        /\ k.role # "principal" => cases'[m].providerAppealHash = g
        /\ \A n \in Mandates :
              /\ cases'[n].finalized = cases[n].finalized
              /\ cases'[n].genlayerTransactionId
                   = cases[n].genlayerTransactionId
    BY <1>0, <1>1, <2>2
    DEF RecordPrincipalAppeal, RecordProviderAppeal, ChainTypes, CaseRecord
  <2>6. Effect(k)'
    BY <1>7, <2>1, <2>5 DEF Effect, SignedTypes
  <2> QED BY <1>3, <2>4, <2>5, <2>6 DEF CallEffect
<1>8. CASE k.type = "RECORD_FINALIZED"
  <2>1. RecordFinalized(m, message.verdict)
    BY <1>8 DEF RecordCall
  <2>2. message.verdict \in Verdicts /\ message.verdict # NoHash
    BY <1>2, <1>8
  <2>3. Court!RecordFinalized(m, message.verdict)
    BY <2>1 DEF RecordFinalized, Linked, Court!RecordFinalized, Court!Linked
  <2>4. Court!Next
    BY <1>0, <1>3, <2>2, <2>3
    DEF Court!Next, Court!Transaction, Court!CourtRecord
  <2>5. /\ cases'[m].finalizedVerdictHash = message.verdict
        /\ cases'[m].finalized
        /\ \A n \in Mandates :
              cases'[n].genlayerTransactionId = cases[n].genlayerTransactionId
        /\ \A n \in Mandates : n # m => cases'[n] = cases[n]
    BY <1>0, <1>1, <2>1 DEF RecordFinalized, ChainTypes, CaseRecord
  <2>6. Effect(k)'
    BY <1>8, <2>5 DEF Effect, SignedTypes
  <2>7. k = Key(m, "RECORD_FINALIZED")
    BY <1>8, KeyFacts DEF AppealTypes
  <2> QED BY <1>3, <2>4, <2>5, <2>6, <2>7 DEF CallEffect
<1> QED BY <1>5, <1>6, <1>7, <1>8 DEF RecordCall

\* The adapter carries out what the court attests.
LEMMA SettlementLands ==
    ASSUME ChainInv, NEW k \in JobKeys, NEW message,
           k.type = "SETTLEMENT",
           NEW j \in Base!FinalJudgments(k.mandate),
           Base!ExecuteFinalJudgment(j)
    PROVE  CallEffect(k, message)
<1> DEFINE m == k.mandate
<1>0. m \in Mandates
  BY KeyFacts
<1>1. j \in Court!FinalJudgments(m) /\ j.mandateId = m
  BY DEF Base!FinalJudgments, Court!FinalJudgments
<1>2. Court!ExecuteFinalJudgment(j)
  BY DEF Base!ExecuteFinalJudgment, Base!CommitmentsMatch, Base!JudgmentFinal, Base!Linked,
     Base!SettleEscrow, Base!Settle, Base!Settleable, Base!PayOut, Base!Holders, Base!ProviderAmount,
     Base!SetStatus, Base!registryVars, Base!Links,
     Court!ExecuteFinalJudgment, Court!CommitmentsMatch, Court!JudgmentFinal, Court!Linked,
     Court!SettleEscrow, Court!Settle, Court!Settleable, Court!PayOut, Court!Holders, Court!ProviderAmount,
     Court!SetStatus, Court!registryVars, Court!Links
<1>3. Court!Next
  BY <1>0, <1>1, <1>2 DEF Court!Next, Court!Transaction
<1>4. ChainTypes
  BY ChainTyped DEF ChainInv
<1>5. /\ cases' = cases
      /\ settled'[m]
      /\ \A n \in Mandates :
            mandates'[n].deliveryHash = mandates[n].deliveryHash
  BY <1>0, <1>1, <1>2, <1>4
  DEF Court!ExecuteFinalJudgment, Court!SettleEscrow, Court!SetStatus,
      Court!registryVars, ChainTypes, Mandate
<1>6. Effect(k)'
  BY <1>5 DEF Effect, SignedTypes
<1> QED BY <1>3, <1>5, <1>6 DEF CallEffect

\* Every call of a job is a transaction of BaseCourt.
LEMMA CallLands ==
    ASSUME ChainInv, StoreTypes, StoreInv, NEW k \in JobKeys, Exists(k),
           NEW message \in TaskMessage, MessageSound(k, message),
           Call(k, message)
    PROVE  CallEffect(k, message)
<1>0. /\ k.mandate \in Mandates
      /\ Delivered(k.mandate)
      /\ Prepared(k)
      /\ documents[k.mandate] \in Document
      /\ k.type \notin AppealTypes => k = Key(k.mandate, k.type)
  BY KeyFacts DEF StoreInv, MandateSound, JobSound, StoreTypes
<1>1. CASE k.type \in SignedTypes /\ SignedCall(k.mandate, k.type, message)
  <2> DEFINE auth == Authorization(k.mandate, k.type, message)
  <2>1. /\ auth \in Base!Authorizations(k.mandate)
        /\ auth.actor = documents[k.mandate].intents[k.type].actor
        /\ auth.actor # NoActor
    BY <1>1, CourtTypesAssumption
    DEF SignedCall, Authorization, Base!Authorizations
  <2>2. \/ k.type = "CREATE_MANDATE"
           /\ Base!CreateMandate(auth, TermsOf[k.mandate])
        \/ k.type = "ACCEPT_MANDATE" /\ Base!AcceptMandate(auth)
        \/ k.type = "SUBMIT_DELIVERY"
           /\ Base!SubmitDelivery(auth, documents[k.mandate].deliveryHash)
    BY <1>1 DEF SignedCall
  <2> HIDE DEF auth
  <2>3. CASE k.type = "SUBMIT_DELIVERY"
    <3>1. documents[k.mandate].deliveryHash \in DeliveryHashes
      BY <1>0, <2>1, <2>3 DEF Delivered
    <3> QED BY <2>1, <2>2, <2>3, <3>1, DeliveryLands
  <2> QED BY <2>1, <2>2, <2>3, CreateLands, AcceptLands
<1>2. CASE RecordCall(k, message)
  <2>1. documents[k.mandate].genlayerTransactionId \in GenLayerTxs \cup {NoHash}
    BY <1>0 DEF Document
  <2>2. k.type = "LINK_CASE" =>
          documents[k.mandate].genlayerTransactionId # NoHash
    BY <1>0 DEF Prepared
  <2>3. k.type \in {"RECORD_ACCEPTED", "RECORD_FINALIZED"} =>
          message.verdict # NoHash
    BY DEF MessageSound
  <2> QED BY <1>2, <2>1, <2>2, <2>3, RecordLands
<1>3. CASE /\ k.type = "SETTLEMENT"
           /\ FinalJudgment(k.mandate, message)
                \in Base!FinalJudgments(k.mandate)
           /\ Base!ExecuteFinalJudgment(FinalJudgment(k.mandate, message))
  BY <1>3, SettlementLands
<1> QED BY <1>1, <1>2, <1>3 DEF Call

(***************************************************************************)
(* What no step takes back.                                                *)
(***************************************************************************)
Grows ==
    /\ \A k \in JobKeys : /\ Exists(k) => Exists(k)'
                          /\ Effect(k) => Effect(k)'
    /\ \A m \in Mandates :
          /\ cases[m].finalized => cases'[m].finalized
          /\ genlayer[m].transactions \subseteq genlayer'[m].transactions
          /\ genlayer[m].status # "NONE" => genlayer'[m].status # "NONE"
          /\ genlayer[m].status = "FINALIZED" =>
                /\ genlayer'[m].status = "FINALIZED"
                /\ genlayer'[m].verdict = genlayer[m].verdict
          /\ documents[m].genlayerTransactionId # NoHash =>
                documents'[m].genlayerTransactionId
                  = documents[m].genlayerTransactionId
          /\ documents[m].acceptedJudgmentHash # NoHash =>
                documents'[m].acceptedJudgmentHash # NoHash
          /\ documents[m].judgmentHash # NoHash =>
                documents'[m].judgmentHash # NoHash

SameCases ==
    \A m \in Mandates :
        documents'[m].genlayerTransactionId
          = documents[m].genlayerTransactionId

\* The chain stands still.
LEMMA BaseStands ==
    ASSUME UNCHANGED baseVars
    PROVE  /\ mandates' = mandates /\ deposits' = deposits /\ cases' = cases
           /\ settled' = settled /\ actorNonces' = actorNonces
           /\ now' = now /\ courtNonce' = courtNonce
           /\ \A k \in JobKeys : Effect(k)' <=> Effect(k)
           /\ ChainInv => ChainInv'
           /\ [Court!Next]_(Court!vars)
<1>1. /\ mandates' = mandates /\ deposits' = deposits /\ cases' = cases
      /\ settled' = settled /\ actorNonces' = actorNonces
      /\ now' = now /\ courtNonce' = courtNonce
  BY DEF baseVars, escrowVars, registryVars, adapterVars
<1>2. UNCHANGED Court!vars
  BY DEF baseVars, escrowVars, registryVars, adapterVars, Court!vars,
         Court!escrowVars, Court!registryVars, Court!adapterVars
<1>3. ChainInv => ChainInv'
  BY <1>2, ChainInvStep
<1>4. \A k \in JobKeys : Effect(k)' <=> Effect(k)
  BY <1>1 DEF Effect, Linked
<1> QED BY <1>1, <1>2, <1>3, <1>4

\* A message stays sound: a final verdict stays.
LEMMA TasksStay ==
    ASSUME StoreInv, Grows, NEW k \in JobKeys, NEW task, TaskSound(k, task)
    PROVE  TaskSound(k, task)'
<1>1. k.mandate \in Mandates
  BY KeyFacts
<1>2. MessageSound(k, task.message)'
  BY <1>1 DEF TaskSound, MessageSound, FinalVerdict, Grows
<1> QED BY <1>2 DEF TaskSound, Grows

\* What a job waited for stays.
LEMMA PreparedStays ==
    ASSUME Grows, NEW k \in JobKeys, Prepared(k)
    PROVE  Prepared(k)'
<1>1. k.mandate \in Mandates
  BY KeyFacts
<1> QED BY <1>1 DEF Prepared, Grows

\* The jobs and tasks that a step leaves alone stay sound, and so do the
\* appeals that wait.
LEMMA QueueStays ==
    ASSUME StoreTypes, StoreInv, Grows, UNCHANGED <<jobs, tasks>>
    PROVE  \A k \in JobKeys : (JobSound(k) /\ TasksSound(k))'
<1> SUFFICES ASSUME NEW k \in JobKeys PROVE JobSound(k)' /\ TasksSound(k)'
  OBVIOUS
<1>1. JobSound(k) /\ TasksSound(k)
  BY DEF StoreInv
<1>2. TasksSound(k)'
  BY <1>1, TasksStay DEF TasksSound
<1>3. JobSound(k)'
  BY <1>1, PreparedStays DEF JobSound, Exists, Grows
<1> QED BY <1>2, <1>3

\* An appeal that was taken stays one of an adjudicated mandate.
LEMMA AppealsStay ==
    ASSUME StoreTypes, StoreInv, Grows, appealing' \subseteq appealing
    PROVE  \A a \in appealing' : AppealSound(a)'
<1> SUFFICES ASSUME NEW a \in appealing PROVE AppealSound(a)'
  OBVIOUS
<1>1. AppealSound(a) /\ a.mandate \in Mandates
  BY DEF StoreInv, StoreTypes, AppealRequests
<1> QED BY <1>1 DEF AppealSound, Grows

\* The processor knows what it knew, whatever the others did meanwhile.
LEMMA SeenStays ==
    ASSUME WorkerInv, Grows, Working, worker'.seen = worker.seen,
           worker'.job = worker.job
    PROVE  SeenSound'
<1>1. SeenSound /\ job \in JobKeys /\ job' = job
  BY DEF WorkerInv, SeenSound, job
<1>2. mandate \in Mandates /\ mandate' = mandate
  BY <1>1, KeyFacts DEF mandate
<1> QED BY <1>1, <1>2 DEF SeenSound, FinalVerdict, Grows

\* What the processor knows stays true while others only add to it.
LEMMA WorkerStays ==
    ASSUME StoreTypes, WorkerInv, Grows, SameCases, worker' = worker
    PROVE  WorkerInv'
<1>1. BatchSound'
  <2>1. \A i \in DOMAIN worker.batch : worker.batch[i] \in JobKeys
    BY DEF StoreTypes, Worker
  <2> QED BY <2>1 DEF WorkerInv, BatchSound, Grows
<1>2. Working' => SeenSound'
  BY SeenStays DEF Working
<1>3. LabelSound'
  <2>1. CASE ~Working
    BY <2>1 DEF WorkerInv, LabelSound, LabelNeeds, Working, OnAdjudication
  <2>2. CASE Working
    <3>1. job \in JobKeys /\ mandate \in Mandates /\ job' = job
          /\ mandate' = mandate
      BY <2>2, KeyFacts DEF WorkerInv, SeenSound, job, mandate
    <3>2. LabelSound
      BY DEF WorkerInv
    <3>3. /\ documents'[mandate].genlayerTransactionId
                = documents[mandate].genlayerTransactionId
          /\ documents[mandate].acceptedJudgmentHash # NoHash =>
                documents'[mandate].acceptedJudgmentHash # NoHash
          /\ documents[mandate].judgmentHash # NoHash =>
                documents'[mandate].judgmentHash # NoHash
          /\ genlayer[mandate].status # "NONE" =>
                genlayer'[mandate].status # "NONE"
          /\ FinalVerdict(mandate, worker.read.verdict) =>
                FinalVerdict(mandate, worker.read.verdict)'
          /\ Effect(job) => Effect(job)'
      BY <3>1 DEF Grows, SameCases, FinalVerdict
    <3> QED BY <3>1, <3>2, <3>3 DEF LabelSound, LabelNeeds, Is
  <2> QED BY <2>1, <2>2
<1> QED BY <1>1, <1>2, <1>3 DEF WorkerInv

(***************************************************************************)
(* The processor's writes.                                                 *)
(***************************************************************************)

\* A step that writes neither documents nor jobs nor tasks.
LEMMA QuietStep ==
    ASSUME SystemInv, UNCHANGED <<baseVars, documents, jobs, tasks, genlayer>>,
           appealing' \subseteq appealing
    PROVE  Grows /\ SameCases /\ StoreInv'
<1>1. Grows /\ SameCases
  BY BaseStands DEF Grows, SameCases, Exists
<1>2. \A m \in Mandates : MandateSound(m)'
  BY BaseStands DEF SystemInv, StoreInv, MandateSound, Delivered, Judged,
                    FinalVerdict, AheadOfNothing, KnownOnBase
<1> QED BY <1>1, <1>2, QueueStays, AppealsStay DEF SystemInv, StoreInv

\* tasks' holds what tasks holds and sound tasks of k.
TasksGrow(k) ==
    /\ tasks' \in [JobKeys -> Seq(Task)]
    /\ \A n \in JobKeys :
          /\ Len(tasks[n]) <= Len(tasks'[n])
          /\ tasks'[n] # <<>> =>
                \/ tasks[n] # <<>>
                \/ n = k /\ k.type \in BaseTypes
          /\ \A i \in DOMAIN tasks'[n] : TaskSound(n, tasks'[n][i])

\* Tasks that nobody touched have grown by nothing.
LEMMA TasksSame ==
    ASSUME StoreTypes, StoreInv, tasks' = tasks, NEW k
    PROVE  TasksGrow(k)
<1>1. \A n \in JobKeys : Len(tasks[n]) \in Nat
  BY DEF StoreTypes
<1> QED BY <1>1 DEF StoreTypes, StoreInv, TasksSound, TasksGrow

\* One job is written, and perhaps calls are sent for it.
LEMMA QueueWrite ==
    ASSUME SystemInv, UNCHANGED <<baseVars, documents, genlayer>>,
           appealing' \subseteq appealing,
           NEW k \in JobKeys, NEW v \in Job, SetJob(k, v), TasksGrow(k),
           v.status # "ABSENT", v.task <= Len(tasks'[k]), Prepared(k),
           v.status = "COMPLETED" /\ k.type \in BaseTypes => Effect(k)
    PROVE  /\ Grows /\ SameCases /\ StoreInv'
           /\ jobs' \in [JobKeys -> Job]
<1>0. StoreTypes /\ StoreInv
  BY DEF SystemInv
<1>1. /\ jobs' \in [JobKeys -> Job]
      /\ jobs'[k] = v
      /\ \A n \in JobKeys : n # k => jobs'[n] = jobs[n]
  BY <1>0 DEF StoreTypes, SetJob
<1>2. Grows /\ SameCases
  BY <1>1, BaseStands DEF Grows, SameCases, Exists
<1>3. \A m \in Mandates : MandateSound(m)'
  BY BaseStands DEF SystemInv, StoreInv, MandateSound, Delivered, Judged,
                    FinalVerdict, AheadOfNothing, KnownOnBase
<1>4. ASSUME NEW n \in JobKeys PROVE JobSound(n)' /\ TasksSound(n)'
  <2>1. TasksSound(n)'
    BY <1>0, <1>2, TasksStay DEF TasksSound, TasksGrow
  <2>2. JobSound(n) /\ Len(tasks[n]) <= Len(tasks'[n])
        /\ (tasks'[n] # <<>> =>
              tasks[n] # <<>> \/ (n = k /\ k.type \in BaseTypes))
    BY <1>0 DEF StoreInv, TasksGrow
  <2>3. CASE n = k
    <3>1. Prepared(n)'
      BY <1>2, <2>3, PreparedStays
    <3>2. /\ jobs'[n] = v /\ Exists(n)'
          /\ tasks'[n] # <<>> => n.type \in BaseTypes
      BY <1>1, <2>2, <2>3 DEF Exists, JobSound
    <3>3. v.status = "COMPLETED" /\ n.type \in BaseTypes => Effect(n)'
      BY <1>2, <2>3 DEF Grows
    <3> QED BY <2>1, <2>3, <3>1, <3>2, <3>3 DEF JobSound
  <2>4. CASE n # k
    <3>1. jobs'[n] = jobs[n] /\ jobs[n] \in Job
      BY <1>0, <1>1, <2>4 DEF StoreTypes
    <3>2. Len(tasks[n]) \in Nat /\ Len(tasks'[n]) \in Nat
      BY <1>0 DEF StoreTypes, TasksGrow
    <3>3. Exists(n)' => Prepared(n)'
      BY <1>2, <2>2, <3>1, PreparedStays DEF JobSound, Exists
    <3>4. jobs'[n].status = "COMPLETED" /\ n.type \in BaseTypes => Effect(n)'
      BY <1>2, <2>2, <3>1 DEF JobSound, Grows
    <3>5. jobs'[n].task <= Len(tasks'[n])
      BY <2>2, <3>1, <3>2 DEF JobSound, Job
    <3>6. tasks'[n] # <<>> => Exists(n)' /\ n.type \in BaseTypes
      BY <2>2, <2>4, <3>1 DEF JobSound, Exists
    <3> QED BY <2>1, <3>3, <3>4, <3>5, <3>6 DEF JobSound
  <2> QED BY <2>1, <2>3, <2>4
<1> QED BY <1>0, <1>1, <1>2, <1>3, <1>4, AppealsStay DEF StoreInv

\* What a write of the document of m may change.
DocumentKeeps(m, document) ==
    LET old == documents[m] IN
    /\ document \in Document
    /\ \/ document.genlayerTransactionId = old.genlayerTransactionId
       \/ /\ old.genlayerTransactionId = NoHash
          /\ document.genlayerTransactionId \in genlayer[m].transactions
    /\ old.acceptedJudgmentHash # NoHash =>
          document.acceptedJudgmentHash # NoHash
    /\ \/ document.judgmentHash = old.judgmentHash
       \/ /\ document.judgmentHash # NoHash
          /\ FinalVerdict(m, document.judgmentHash)
    /\ old.intents["SUBMIT_DELIVERY"].actor # NoActor =>
          /\ document.deliveryHash = old.deliveryHash
          /\ document.intents["SUBMIT_DELIVERY"].actor # NoActor
    /\ document.intents["SUBMIT_DELIVERY"].actor # NoActor =>
          document.deliveryHash \in DeliveryHashes
    /\ mandates[m].status \in KnownOnBase(document.status)

\* A write that keeps what a document stands for keeps what is known of
\* every mandate and every job.
LEMMA DocumentWrite ==
    ASSUME SystemInv, UNCHANGED <<baseVars, jobs, tasks, genlayer>>,
           NEW m \in Mandates, NEW document, DocumentKeeps(m, document),
           documents' = [documents EXCEPT ![m] = document],
           \A a \in appealing' : a \in appealing
    PROVE  /\ Grows /\ StoreInv'
           /\ documents' \in [Mandates -> Document]
           /\ document.genlayerTransactionId
                = documents[m].genlayerTransactionId => SameCases
<1>0. StoreTypes /\ StoreInv
  BY DEF SystemInv
<1>1. /\ documents' \in [Mandates -> Document]
      /\ documents'[m] = document
      /\ \A n \in Mandates : n # m => documents'[n] = documents[n]
  BY <1>0 DEF StoreTypes, DocumentKeeps
<1>2. NoHash \notin GenLayerTxs
  BY CourtTypesAssumption
<1>3. Grows
  BY <1>1, BaseStands DEF Grows, Exists, DocumentKeeps
<1>4. ASSUME NEW n \in Mandates PROVE MandateSound(n)'
  <2>1. MandateSound(n)
    BY <1>0 DEF StoreInv
  <2>2. CASE n # m
    <3>1. documents'[n] = documents[n]
      BY <1>1, <2>2
    <3> QED BY <2>1, <3>1, BaseStands
            DEF MandateSound, Delivered, Judged, FinalVerdict, AheadOfNothing,
                KnownOnBase
  <2>3. CASE n = m
    <3>1. Delivered(n)'
      BY <1>1, <2>1, <2>3, BaseStands
      DEF MandateSound, Delivered, DocumentKeeps
    <3>2. Judged(n)'
      BY <1>1, <2>1, <2>3, BaseStands
      DEF MandateSound, Judged, FinalVerdict, DocumentKeeps
    <3>3. AheadOfNothing(n)'
      BY <1>1, <2>3, BaseStands DEF AheadOfNothing, KnownOnBase, DocumentKeeps
    <3> QED BY <3>1, <3>2, <3>3 DEF MandateSound
  <2> QED BY <2>2, <2>3
<1>5. document.genlayerTransactionId
        = documents[m].genlayerTransactionId => SameCases
  BY <1>1 DEF SameCases
<1>6. StoreInv'
  BY <1>0, <1>3, <1>4, QueueStays, AppealsStay DEF StoreInv
<1> QED BY <1>1, <1>3, <1>5, <1>6

(***************************************************************************)
(* The processor's moves.                                                  *)
(***************************************************************************)

\* A job of the batch is one of the jobs.
LEMMA BatchFacts ==
    ASSUME StoreTypes, NEW i \in DOMAIN worker.batch
    PROVE  worker.batch[i] \in JobKeys
BY DEF StoreTypes, Worker

\* The start of a document that nobody has written.
LEMMA IdleTyped == Idle \in Worker /\ NoDocument \in Document
<1>1. NoIntent \in IntentType
  BY DEF NoIntent, IntentType
<1>2. NoDocument \in Document
  BY <1>1 DEF NoDocument, Document, DocumentStatus, Judgment
<1>3. NoCourtCase \in CourtCase
  BY DEF NoCourtCase, CourtCase, Judgment
<1>4. <<>> \in Seq(JobKeys) /\ "idle" \in Labels
  BY DEF Labels
<1> QED BY <1>2, <1>3, <1>4 DEF Idle, Worker

\* The next job, or the end of the pass: what was known is forgotten.
LEMMA NextJobSound ==
    ASSUME StoreTypes, WorkerInv, Grows, NextJob
    PROVE  worker' \in Worker /\ WorkerInv'
<1>1. CASE worker.batch = <<>>
  <2>1. worker' = Idle
    BY <1>1 DEF NextJob
  <2>2. Idle.batch = <<>> /\ Idle.at = "idle"
    BY DEF Idle
  <2> QED BY <2>1, <2>2, IdleTyped
          DEF WorkerInv, BatchSound, Working, LabelSound, LabelNeeds,
              OnAdjudication
<1>2. CASE worker.batch # <<>>
  <2>1. worker' = [Idle EXCEPT !.at = "next", !.batch = worker.batch,
                               !.submitted = worker.submitted]
    BY <1>2 DEF NextJob
  <2>2. /\ worker' \in Worker
        /\ worker'.at = "next" /\ worker'.batch = worker.batch
    BY <2>1, IdleTyped DEF StoreTypes, Worker, Labels
  <2>3. BatchSound'
    BY <2>2, BatchFacts DEF WorkerInv, BatchSound, Grows
  <2> QED BY <1>2, <2>2, <2>3
          DEF WorkerInv, Working, LabelSound, LabelNeeds, OnAdjudication
<1> QED BY <1>1, <1>2

\* The next step of the same job.
Moves(at) ==
    /\ worker' \in Worker
    /\ worker'.at = at
    /\ worker'.batch = worker.batch
    /\ worker'.job = worker.job

\* The processor goes on with its job, and knows what the next step needs.
LEMMA MoveSound ==
    ASSUME StoreTypes, WorkerInv, Grows, NEW at, Moves(at), SeenSound',
           LabelNeeds(at)'
    PROVE  WorkerInv'
<1>1. BatchSound'
  BY BatchFacts DEF WorkerInv, BatchSound, Grows, Moves
<1>2. LabelSound'
  BY DEF LabelSound, Moves
<1> QED BY <1>1, <1>2 DEF WorkerInv

\* The job at work while the pass is at one of its steps.
LEMMA WorkFacts ==
    ASSUME SystemInv, Working
    PROVE  /\ job \in JobKeys /\ mandate \in Mandates
           /\ Exists(job) /\ Prepared(job) /\ JobSound(job)
           /\ jobs[job] \in Job
           /\ documents[mandate] \in Document
           /\ genlayer[mandate] \in CourtCase
           /\ worker.seen \in Document /\ worker.read \in CourtCase
           /\ MandateSound(mandate)
           /\ SeenSound
           /\ job.type \notin AppealTypes => job = Key(mandate, job.type)
<1>1. SeenSound /\ job \in JobKeys /\ Exists(job)
  BY DEF SystemInv, WorkerInv, SeenSound
<1>2. /\ mandate \in Mandates
      /\ job.type \notin AppealTypes => job = Key(mandate, job.type)
  BY <1>1, KeyFacts DEF mandate
<1>3. JobSound(job) /\ MandateSound(mandate)
  BY <1>1, <1>2 DEF SystemInv, StoreInv
<1> QED BY <1>1, <1>2, <1>3 DEF JobSound, SystemInv, StoreTypes, Worker

\* Goto moves the processor within its job.
LEMMA GotoMoves ==
    ASSUME SystemInv, Working, Grows, NEW at \in Writing, Goto(at)
    PROVE  /\ Moves(at) /\ SeenSound'
           /\ job' = job /\ mandate' = mandate
           /\ worker'.seen = worker.seen /\ worker'.read = worker.read
<1>1. worker \in Worker /\ WorkerInv
  BY DEF SystemInv, StoreTypes
<1>2. /\ Moves(at)
      /\ worker'.seen = worker.seen /\ worker'.read = worker.read
  BY <1>1 DEF Goto, Moves, Worker, Labels
<1>3. job' = job /\ mandate' = mandate
  BY <1>2 DEF Moves, job, mandate
<1> QED BY <1>1, <1>2, <1>3, SeenStays DEF Moves

\* What a label says stays true while the job is the same.
LEMMA NeedsStay ==
    ASSUME WorkerInv, Working, Grows, SameCases, NEW at, LabelNeeds(at),
           worker'.job = worker.job, worker'.seen = worker.seen,
           worker'.read = worker.read, worker'.batch = worker.batch
    PROVE  LabelNeeds(at)'
<1>1. /\ job \in JobKeys /\ mandate \in Mandates /\ job' = job
      /\ mandate' = mandate
  BY KeyFacts DEF WorkerInv, SeenSound, job, mandate
<1>2. /\ documents'[mandate].genlayerTransactionId
            = documents[mandate].genlayerTransactionId
      /\ documents[mandate].acceptedJudgmentHash # NoHash =>
            documents'[mandate].acceptedJudgmentHash # NoHash
      /\ documents[mandate].judgmentHash # NoHash =>
            documents'[mandate].judgmentHash # NoHash
      /\ genlayer[mandate].status # "NONE" =>
            genlayer'[mandate].status # "NONE"
      /\ FinalVerdict(mandate, worker.read.verdict) =>
            FinalVerdict(mandate, worker.read.verdict)'
      /\ Effect(job) => Effect(job)'
  BY <1>1 DEF Grows, SameCases, FinalVerdict
<1> QED BY <1>1, <1>2 DEF LabelNeeds, Is

\* The processor leaves the chain, the handlers and GenLayer alone.
OwnStep == UNCHANGED <<baseVars, apiVars, documents, genlayer>>

\* A job is written, and the pass goes to the next job or to the next step.
LEMMA JobStep ==
    ASSUME SystemInv, Working, OwnStep, settlementCounter' \in Nat,
           NEW k \in JobKeys, NEW v \in Job, SetJob(k, v), TasksGrow(k),
           v.status # "ABSENT", v.task <= Len(tasks'[k]), Prepared(k),
           v.status = "COMPLETED" /\ k.type \in BaseTypes => Effect(k),
           \/ NextJob
           \/ \E at \in Writing : Goto(at) /\ LabelNeeds(at)
    PROVE  SystemInv'
<1>0. /\ StoreTypes /\ WorkerInv /\ ChainInv
      /\ UNCHANGED <<baseVars, documents, genlayer>>
      /\ appealing' = appealing /\ inserting' = inserting
  BY DEF SystemInv, OwnStep, apiVars
<1>1. Grows /\ SameCases /\ StoreInv' /\ jobs' \in [JobKeys -> Job]
  BY <1>0, QueueWrite
<1>2. worker' \in Worker /\ WorkerInv'
  <2>1. CASE NextJob
    BY <1>0, <1>1, <2>1, NextJobSound
  <2>2. ASSUME NEW at \in Writing, Goto(at), LabelNeeds(at)
        PROVE  worker' \in Worker /\ WorkerInv'
    <3>1. Moves(at) /\ SeenSound'
          /\ worker'.seen = worker.seen /\ worker'.read = worker.read
      BY <1>1, <2>2, GotoMoves
    <3>2. LabelNeeds(at)'
      BY <1>0, <1>1, <2>2, <3>1, NeedsStay DEF Moves
    <3> QED BY <1>0, <1>1, <3>1, <3>2, MoveSound DEF Moves
  <2> QED BY <2>1, <2>2
<1>3. ChainInv'
  BY <1>0, BaseStands
<1> QED BY <1>0, <1>1, <1>2, <1>3 DEF SystemInv, StoreTypes, TasksGrow

\* A step that changes the local state of the pass only.
LEMMA LocalStep ==
    ASSUME SystemInv, OwnStep, UNCHANGED <<jobs, settlementCounter, tasks>>,
           Grows /\ StoreInv' => worker' \in Worker /\ WorkerInv'
    PROVE  SystemInv'
<1>0. /\ StoreTypes /\ WorkerInv /\ ChainInv
      /\ UNCHANGED <<baseVars, documents, jobs, tasks, genlayer>>
      /\ appealing' = appealing /\ inserting' = inserting
  BY DEF SystemInv, OwnStep, apiVars
<1>1. Grows /\ StoreInv'
  BY <1>0, QuietStep
<1>2. ChainInv'
  BY <1>0, BaseStands
<1> QED BY <1>0, <1>1, <1>2 DEF SystemInv, StoreTypes, OwnStep

\* A job that is put off changes nothing that is stored.
LEMMA RescheduleSound ==
    ASSUME SystemInv, Aside, Reschedule
    PROVE  SystemInv'
<1>1. OwnStep /\ UNCHANGED <<jobs, settlementCounter, tasks>> /\ NextJob
  BY DEF Aside, Reschedule, OwnStep, databaseVars, worldVars
<1> QED BY <1>1, NextJobSound, LocalStep DEF SystemInv

\* The catch clause writes the job once more.
LEMMA FailSound ==
    ASSUME SystemInv, Working, OwnStep, settlementCounter' \in Nat,
           TasksGrow(job), NEW terminal, Fail(terminal)
    PROVE  SystemInv'
<1>1. PICK v, s : /\ v = [jobs[job] EXCEPT !.status = s,
                                           !.attempts = jobs[job].attempts + 1]
                  /\ s \in {"FAILED", "PENDING"}
                  /\ SetJob(job, v) /\ NextJob
  <2> DEFINE s == IF terminal \/ jobs[job].attempts + 1 >= MaxAttempts
                  THEN "FAILED" ELSE "PENDING"
             v == [jobs[job] EXCEPT !.status = s,
                                    !.attempts = jobs[job].attempts + 1]
  <2>1. s \in {"FAILED", "PENDING"}
    OBVIOUS
  <2>2. SetJob(job, v) /\ NextJob
    BY DEF Fail
  <2> HIDE DEF s
  <2>3. v = [jobs[job] EXCEPT !.status = s,
                              !.attempts = jobs[job].attempts + 1]
    OBVIOUS
  <2> HIDE DEF v
  <2> QED BY <2>1, <2>2, <2>3
<1>2. /\ job \in JobKeys /\ jobs[job] \in Job /\ Prepared(job)
      /\ jobs[job].task <= Len(tasks[job])
  BY WorkFacts DEF JobSound
<1>3. /\ v \in Job /\ v.status \in {"FAILED", "PENDING"}
      /\ v.task = jobs[job].task
  <2>1. jobs[job].attempts + 1 \in Nat /\ s \in JobStatus
    BY <1>1, <1>2 DEF Job, JobStatus, OpenStatus
  <2>2. v \in Job
    BY <1>1, <1>2, <2>1 DEF Job
  <2>3. v.status = s /\ v.task = jobs[job].task
    BY <1>1, <1>2 DEF Job
  <2> QED BY <1>1, <2>2, <2>3
<1>4. Len(tasks[job]) <= Len(tasks'[job])
      /\ Len(tasks[job]) \in Nat /\ Len(tasks'[job]) \in Nat
      /\ v.task \in Nat
  BY <1>2, <1>3 DEF TasksGrow, SystemInv, StoreTypes, Job
<1>5. v.task <= Len(tasks'[job])
  BY <1>2, <1>3, <1>4
<1> QED BY <1>1, <1>2, <1>3, <1>5, JobStep

\* A status is written to the job at work.
LEMMA UpdateSound ==
    ASSUME SystemInv, Aside, Working,
           NEW status \in JobStatus \ {"ABSENT"}, UpdateJob(status),
           status = "COMPLETED" /\ job.type \in BaseTypes => Effect(job),
           \/ NextJob
           \/ \E at \in Writing : Goto(at) /\ LabelNeeds(at)
    PROVE  SystemInv'
<1> DEFINE v == [jobs[job] EXCEPT !.status = status]
<1>1. /\ SetJob(job, v) /\ OwnStep /\ tasks' = tasks
      /\ settlementCounter' = settlementCounter
  BY DEF UpdateJob, WriteJobs, Aside, OwnStep, worldVars
<1>2. /\ job \in JobKeys /\ jobs[job] \in Job /\ Prepared(job)
      /\ jobs[job].task <= Len(tasks[job])
  BY WorkFacts DEF JobSound
<1>3. v \in Job /\ v.status = status /\ v.task = jobs[job].task
  BY <1>2 DEF Job
<1>4. TasksGrow(job) /\ settlementCounter' \in Nat
  BY <1>1, TasksSame DEF SystemInv, StoreTypes
<1> HIDE DEF v
<1> QED BY <1>1, <1>2, <1>3, <1>4, JobStep

(***************************************************************************)
(* The processor's steps, one by one.                                      *)
(***************************************************************************)

\* A pass starts with jobs that exist.
LEMMA StartSound ==
    ASSUME SystemInv, Aside, NEW batch \in Seq(OpenJobs) \ {<<>>},
           StartPass(batch)
    PROVE  SystemInv'
<1>1. OwnStep /\ UNCHANGED <<jobs, settlementCounter, tasks>>
  BY DEF Aside, StartPass, OwnStep, databaseVars, worldVars
<1>2. batch \in Seq(JobKeys) /\ \A i \in DOMAIN batch : Exists(batch[i])
  <2>1. OpenJobs \subseteq JobKeys /\ \A k \in OpenJobs : Exists(k)
    BY DEF OpenJobs, OpenStatus, Exists
  <2>2. \A i \in DOMAIN batch : batch[i] \in OpenJobs
    OBVIOUS
  <2>3. batch \in Seq(JobKeys)
    BY <2>1
  <2> QED BY <2>1, <2>2, <2>3
<1>3. worker' \in Worker /\ worker'.at = "next" /\ worker'.batch = batch
  BY <1>2, IdleTyped DEF StartPass, Worker, Labels
<1>4. WorkerInv'
  <2>1. BatchSound'
    BY <1>1, <1>2, <1>3 DEF BatchSound, Exists
  <2> QED BY <1>3, <2>1
          DEF WorkerInv, Working, LabelSound, LabelNeeds, OnAdjudication
<1> QED BY <1>1, <1>3, <1>4, LocalStep

\* The job and its document are read: they agree at that moment.
LEMMA TakeJobSound ==
    ASSUME SystemInv, Aside, TakeJob
    PROVE  SystemInv'
<1> DEFINE k == Head(worker.batch)
           document == documents[k.mandate]
<1>1. OwnStep /\ UNCHANGED <<jobs, settlementCounter, tasks>>
  BY DEF Aside, TakeJob, OwnStep, databaseVars, worldVars
<1>2. /\ StoreTypes /\ StoreInv /\ WorkerInv /\ worker \in Worker
      /\ worker.batch \in Seq(JobKeys) /\ worker.batch # <<>>
  BY DEF SystemInv, StoreTypes, Worker, WorkerInv, LabelSound, LabelNeeds,
         TakeJob, At
<1>3. /\ k \in JobKeys /\ Exists(k) /\ k.mandate \in Mandates
      /\ k = worker.batch[1]
  BY <1>2, KeyFacts DEF WorkerInv, BatchSound
<1>4. /\ JobSound(k) /\ Judged(k.mandate) /\ document \in Document
      /\ Prepared(k)
  BY <1>2, <1>3 DEF StoreInv, MandateSound, JobSound, StoreTypes
<1>5. /\ worker' = [worker EXCEPT !.at = "job", !.batch = Tail(worker.batch),
                                  !.job = k, !.seen = document]
      /\ Tail(worker.batch) \in Seq(JobKeys)
  BY <1>2 DEF TakeJob
<1>6. /\ worker' \in Worker /\ worker'.at = "job"
      /\ worker'.job = k /\ worker'.seen = document
      /\ worker'.batch = Tail(worker.batch)
  <2> HIDE DEF k, document
  <2> QED BY <1>2, <1>3, <1>4, <1>5 DEF Worker, Labels
<1>7. job' = k /\ mandate' = k.mandate
  BY <1>6 DEF job, mandate
<1>8. UNCHANGED <<baseVars, documents, genlayer, jobs>>
  BY <1>1 DEF OwnStep
<1> HIDE DEF k
<1>9. SeenSound'
  BY <1>3, <1>4, <1>6, <1>7, <1>8 DEF SeenSound, Judged, FinalVerdict, Exists
<1>10. LabelSound'
  BY <1>4, <1>6, <1>7, <1>8
  DEF LabelSound, LabelNeeds, Is, Prepared, OnAdjudication
<1>11. BatchSound'
  <2>1. \A i \in DOMAIN Tail(worker.batch) :
           i + 1 \in DOMAIN worker.batch
           /\ Tail(worker.batch)[i] = worker.batch[i + 1]
    BY <1>2, <1>5
  <2> QED BY <1>2, <1>6, <1>8, <2>1 DEF WorkerInv, BatchSound, Exists
<1> QED BY <1>1, <1>6, <1>9, <1>10, <1>11, LocalStep DEF WorkerInv

\* The adjudication is failed or delayed with the delivery.
LEMMA DeliverySound ==
    ASSUME SystemInv, Aside, BlockAdjudication \/ DelayAdjudication
    PROVE  SystemInv'
<1>1. Working /\ Is("GENLAYER_ADJUDICATION") /\ NextJob
  BY DEF BlockAdjudication, DelayAdjudication, Blocked, Waiting, At, Working
<1>2. PICK status \in {"FAILED", "WAITING_FOR_BASE_SUBMISSION"} :
         UpdateJob(status)
  BY DEF BlockAdjudication, DelayAdjudication
<1>3. status \in JobStatus \ {"ABSENT"} /\ status # "COMPLETED"
  BY DEF JobStatus, OpenStatus
<1> QED BY <1>1, <1>2, <1>3, UpdateSound

\* A task that is still pending is polled again later.
LEMMA PollPendingSound ==
    ASSUME SystemInv, Aside, PollPending
    PROVE  SystemInv'
BY RescheduleSound DEF PollPending

\* The ways into the catch clause that leave the tasks alone.
LEMMA FailureSound ==
    ASSUME SystemInv, Aside, Working, NEW terminal, Fail(terminal),
           UNCHANGED <<documents, settlementCounter, worldVars>>
    PROVE  SystemInv'
<1>1. /\ OwnStep /\ settlementCounter' \in Nat /\ tasks' = tasks
      /\ StoreTypes /\ StoreInv
  BY DEF SystemInv, StoreTypes, Aside, OwnStep, worldVars
<1> QED BY <1>1, TasksSame, FailSound

\* A pass that is about to write is at a job.
LEMMA WritingWorks == worker.at \in Writing => Working
BY DEF Writing, Working

\* A pass that has read a document is at a job.
LEMMA JobWorks == At("job") => Working
BY DEF At, Working

\* A reverted or cancelled task sends its job to the catch clause.
LEMMA PollFailureSound ==
    ASSUME SystemInv, Aside, PollFailure
    PROVE  SystemInv'
<1>1. /\ Working /\ Fail(FALSE)
      /\ UNCHANGED <<documents, settlementCounter, worldVars>>
  BY JobWorks DEF PollFailure, Ready, WriteJobs
<1> QED BY <1>1, FailureSound

\* So does a status that cannot be read,
LEMMA PollErrorSound ==
    ASSUME SystemInv, Aside, PollError
    PROVE  SystemInv'
<1>1. /\ Working /\ Fail(FALSE)
      /\ UNCHANGED <<documents, settlementCounter, worldVars>>
  BY JobWorks DEF PollError, Ready
<1> QED BY <1>1, FailureSound

\* ... a call to GenLayer that fails,
LEMMA GenLayerErrorSound ==
    ASSUME SystemInv, Aside, GenLayerError
    PROVE  SystemInv'
<1>1. /\ Working /\ Fail(FALSE)
      /\ UNCHANGED <<documents, settlementCounter, worldVars>>
  BY JobWorks DEF GenLayerError, Adjudicating, Unsent, Ready
<1> QED BY <1>1, FailureSound

\* ... a write that the database refuses,
LEMMA DatabaseErrorSound ==
    ASSUME SystemInv, Aside, DatabaseError
    PROVE  SystemInv'
<1>1. /\ Working /\ Fail(FALSE)
      /\ UNCHANGED <<documents, settlementCounter, worldVars>>
  BY WritingWorks DEF DatabaseError
<1> QED BY <1>1, FailureSound

\* ... an execution that was finalized without a judgment,
LEMMA ExecutionFailedSound ==
    ASSUME SystemInv, Aside, ExecutionFailed
    PROVE  SystemInv'
<1>1. /\ Working /\ Fail(FALSE)
      /\ UNCHANGED <<documents, settlementCounter, worldVars>>
  BY WritingWorks DEF ExecutionFailed, WriteJobs, At, Writing
<1> QED BY <1>1, FailureSound

\* ... and an appeal that GenLayer does not take.
LEMMA AppealRefusedSound ==
    ASSUME SystemInv, Aside, AppealRefused
    PROVE  SystemInv'
<1>1. /\ Working /\ Fail(FALSE)
      /\ UNCHANGED <<documents, settlementCounter, worldVars>>
  BY JobWorks DEF AppealRefused, Appealing, Unsent, Ready, WriteJobs
<1> QED BY <1>1, FailureSound

\* The steps that only pass on to the next job.
LEMMA WaitingSound ==
    ASSUME SystemInv, Aside, Defer \/ WaitForAppeal \/ NoProgress
    PROVE  SystemInv'
BY RescheduleSound DEF Defer, WaitForAppeal, NoProgress

\* The processor writes the document of the job and goes on.
LEMMA DocumentStep ==
    ASSUME SystemInv, Aside, Working, NEW document,
           DocumentKeeps(mandate, document),
           documents' = [documents EXCEPT ![mandate] = document],
           UNCHANGED <<jobs, settlementCounter, worldVars>>,
           Grows /\ StoreInv' => worker' \in Worker /\ WorkerInv'
    PROVE  SystemInv'
<1>0. /\ StoreTypes /\ ChainInv /\ mandate \in Mandates
      /\ UNCHANGED <<baseVars, jobs, tasks, genlayer>>
      /\ appealing' = appealing /\ inserting' = inserting
      /\ settlementCounter' = settlementCounter
  BY WorkFacts DEF SystemInv, Aside, apiVars, worldVars
<1>1. Grows /\ StoreInv' /\ documents' \in [Mandates -> Document]
  BY <1>0, DocumentWrite
<1>2. ChainInv'
  BY <1>0, BaseStands
<1> QED BY <1>0, <1>1, <1>2 DEF SystemInv, StoreTypes

\* A relay reports success: the call has left its mark on Base, and the
\* document follows it.
LEMMA PollSuccessSound ==
    ASSUME SystemInv, Aside, NEW hash \in BOOLEAN, PollSuccess(hash)
    PROVE  SystemInv'
<1> DEFINE old == documents[mandate]
           status == StatusAfter(job.type, old.status)
           sent == old.deliveryTransaction \/ (Is("SUBMIT_DELIVERY") /\ hash)
           document == [old EXCEPT !.status = status,
                                   !.deliveryTransaction = sent]
<1>1. At("job") /\ Working /\ Goto("complete") /\ Ready /\ Tracked
      /\ TaskStatus = "success"
      /\ UNCHANGED <<jobs, settlementCounter, worldVars>>
  BY JobWorks DEF PollSuccess, Ready
<1>2. /\ job \in JobKeys /\ mandate \in Mandates /\ old \in Document
      /\ JobSound(job) /\ MandateSound(mandate)
      /\ jobs[job] \in Job /\ TasksSound(job)
      /\ tasks[job] \in Seq(Task)
      /\ StoreTypes /\ Court!CourtInv
  BY <1>1, WorkFacts DEF SystemInv, StoreInv, StoreTypes, ChainInv
<1>3. /\ jobs[job].task \in DOMAIN tasks[job]
      /\ tasks[job] # <<>>
  BY <1>1, <1>2 DEF JobSound, Job, Tracked
<1>4. job.type \in BaseTypes /\ Effect(job)
  BY <1>1, <1>2, <1>3 DEF JobSound, TasksSound, TaskSound, TaskStatus
<1>5. documents' = [documents EXCEPT ![mandate] = document]
  BY <1>2 DEF PollSuccess, StoreTypes
<1>6. status \in DocumentStatus /\ sent \in BOOLEAN
  BY <1>2 DEF StatusAfter, Document, DocumentStatus
<1>7. /\ document \in Document
      /\ document.status = status
      /\ document.genlayerTransactionId = old.genlayerTransactionId
      /\ document.acceptedJudgmentHash = old.acceptedJudgmentHash
      /\ document.judgmentHash = old.judgmentHash
      /\ document.deliveryHash = old.deliveryHash
      /\ document.intents = old.intents
  <2> HIDE DEF old, status, sent
  <2> QED BY <1>2, <1>6 DEF Document
<1>8. mandates[mandate].status \in KnownOnBase(status)
  <2>1. /\ mandates[mandate].status \in Status
        /\ mandates[mandate].status \in KnownOnBase(old.status)
        /\ mandates[mandate].status
             \notin {"Offered", "UnderReview", "Finalized"}
    BY <1>2, ChainFacts DEF MandateSound, AheadOfNothing
  <2>2. job.mandate = mandate
    BY DEF mandate
  <2>3. CASE job.type = "CREATE_MANDATE"
    <3>1. mandates[mandate].status # "None"
      BY <1>2, <1>4, <2>2, <2>3, ChainFacts DEF Effect, SignedTypes
    <3> QED BY <2>1, <2>3, <3>1 DEF StatusAfter, KnownOnBase
  <2>4. CASE job.type = "ACCEPT_MANDATE"
    <3>1. /\ deposits[mandate].provider # NoActor
          /\ deposits[mandate].funded
      BY <1>2, <1>4, <2>2, <2>4
      DEF Effect, SignedTypes, SystemInv, ChainInv, Court!ProvidersFunded
    <3>2. mandates[mandate].status \notin {"None", "Funded", "Cancelled"}
      BY <1>2, <3>1, ChainFacts
    <3> QED BY <2>1, <2>4, <3>2 DEF StatusAfter, KnownOnBase, Status
  <2>5. CASE job.type = "SUBMIT_DELIVERY"
    <3>1. mandates[mandate].status \in {"Submitted", "Settled"}
      BY <1>2, <1>4, <2>2, <2>5, ChainFacts DEF Effect, SignedTypes
    <3> QED BY <2>5, <3>1 DEF StatusAfter, KnownOnBase
  <2>6. CASE job.type = "SETTLEMENT"
    <3>1. mandates[mandate].status = "Settled"
      BY <1>2, <1>4, <2>2, <2>6, ChainFacts DEF Effect, SignedTypes
    <3> QED BY <2>6, <3>1 DEF StatusAfter, KnownOnBase
  <2>7. CASE job.type \notin {"CREATE_MANDATE", "ACCEPT_MANDATE",
                              "SUBMIT_DELIVERY", "SETTLEMENT"}
    BY <2>1, <2>7 DEF StatusAfter
  <2> QED BY <2>3, <2>4, <2>5, <2>6, <2>7
<1>9. DocumentKeeps(mandate, document)
  <2> HIDE DEF document, status, sent
  <2> QED BY <1>2, <1>7, <1>8 DEF DocumentKeeps, MandateSound, Delivered
<1>10. ASSUME Grows, StoreInv' PROVE worker' \in Worker /\ WorkerInv'
  <2>1. Moves("complete") /\ SeenSound' /\ job' = job
    BY <1>1, <1>10, GotoMoves DEF Writing
  <2>2. LabelNeeds("complete")'
    BY <1>2, <1>4, <1>10, <2>1 DEF LabelNeeds, OnAdjudication, Grows
  <2> QED BY <1>2, <1>10, <2>1, <2>2, MoveSound DEF Moves, SystemInv
<1> HIDE DEF document
<1> QED BY <1>1, <1>5, <1>9, <1>10, DocumentStep

\* What the processor knows at the step it is at.
LEMMA KnownHere ==
    ASSUME SystemInv, NEW at, At(at)
    PROVE  LabelNeeds(at)
BY DEF SystemInv, WorkerInv, LabelSound, At

\* The jobs stay as they are while the pass goes on.
LEMMA StandingStep ==
    ASSUME SystemInv, Aside, Working,
           UNCHANGED <<documents, jobs, settlementCounter, worldVars>>,
           \/ NextJob
           \/ \E at \in Writing : Goto(at) /\ LabelNeeds(at)
    PROVE  SystemInv'
<1>1. /\ OwnStep /\ UNCHANGED <<jobs, settlementCounter, tasks>>
      /\ StoreTypes /\ WorkerInv
  BY DEF SystemInv, Aside, OwnStep, worldVars
<1>2. ASSUME Grows PROVE worker' \in Worker /\ WorkerInv'
  <2>1. CASE NextJob
    BY <1>1, <1>2, <2>1, NextJobSound
  <2>2. ASSUME NEW at \in Writing, Goto(at), LabelNeeds(at)
        PROVE  worker' \in Worker /\ WorkerInv'
    <3>1. Moves(at) /\ SeenSound'
          /\ worker'.seen = worker.seen /\ worker'.read = worker.read
      BY <1>2, <2>2, GotoMoves
    <3>2. SameCases
      BY <1>1 DEF OwnStep, SameCases
    <3>3. LabelNeeds(at)'
      BY <1>1, <1>2, <2>2, <3>1, <3>2, NeedsStay DEF Moves
    <3> QED BY <1>1, <1>2, <3>1, <3>3, MoveSound DEF Moves
  <2> QED BY <2>1, <2>2
<1> QED BY <1>1, <1>2, LocalStep

\* A job is inserted for what has become known.
LEMMA InsertSound ==
    ASSUME SystemInv, Aside, Working, WriteJobs,
           NEW k \in JobKeys, Insert(k, "PENDING"), Prepared(k),
           \/ NextJob
           \/ \E at \in Writing : Goto(at) /\ LabelNeeds(at)
    PROVE  SystemInv'
<1>1. /\ OwnStep /\ tasks' = tasks /\ settlementCounter' = settlementCounter
      /\ StoreTypes /\ StoreInv
  BY DEF SystemInv, WriteJobs, Aside, OwnStep, worldVars
<1>2. /\ NewJob("PENDING") \in Job
      /\ NewJob("PENDING").status = "PENDING"
      /\ NewJob("PENDING").task = 0
  BY DEF NewJob, NoJob, Job, JobStatus, OpenStatus
<1>3. TasksGrow(k) /\ settlementCounter' \in Nat
  BY <1>1, TasksSame DEF StoreTypes
<1>4. SetJob(k, NewJob("PENDING"))
  BY DEF Insert
<1>5. 0 <= Len(tasks'[k])
  BY <1>3 DEF TasksGrow
<1> QED BY <1>1, <1>2, <1>3, <1>4, <1>5, JobStep

\* A follow-up job is added where what it waits for is there.
LEMMA UpsertSound ==
    ASSUME SystemInv, Aside, Working, WriteJobs,
           NEW k \in JobKeys, Upsert(k), Prepared(k),
           \/ NextJob
           \/ \E at \in Writing : Goto(at) /\ LabelNeeds(at)
    PROVE  SystemInv'
<1>1. CASE Exists(k)
  BY <1>1, StandingStep DEF Upsert, WriteJobs
<1>2. CASE ~Exists(k)
  BY <1>2, InsertSound DEF Upsert
<1> QED BY <1>1, <1>2

\* A job is completed once its call has taken effect.
LEMMA CompleteJobSound ==
    ASSUME SystemInv, Aside, CompleteJob
    PROVE  SystemInv'
<1>1. /\ Working /\ UpdateJob("COMPLETED")
      /\ job.type \in BaseTypes /\ Effect(job)
  BY WritingWorks, KnownHere DEF CompleteJob, LabelNeeds, At, Writing
<1>2. \/ NextJob
      \/ Goto("follow") /\ (Is("SUBMIT_DELIVERY") \/ Is("RECORD_FINALIZED"))
  BY DEF CompleteJob
<1>3. Is("SUBMIT_DELIVERY") \/ Is("RECORD_FINALIZED") => LabelNeeds("follow")
  BY <1>1 DEF LabelNeeds, OnAdjudication
<1>4. "COMPLETED" \in JobStatus \ {"ABSENT"} /\ "follow" \in Writing
  BY DEF JobStatus, Writing
<1> QED BY <1>1, <1>2, <1>3, <1>4, UpdateSound

\* The delivery is on Base: the adjudication need not wait.
LEMMA WakeAdjudicationSound ==
    ASSUME SystemInv, Aside, WakeAdjudication
    PROVE  SystemInv'
<1> DEFINE k == Key(mandate, "GENLAYER_ADJUDICATION")
           v == [jobs[k] EXCEPT !.status = "PENDING"]
<1>1. Working /\ WriteJobs /\ NextJob
  BY WritingWorks DEF WakeAdjudication, At, Writing
<1>2. CASE UNCHANGED jobs
  BY <1>1, <1>2, StandingStep DEF WriteJobs
<1>3. CASE SetJob(k, v)
  <2>1. k \in JobKeys /\ k.type = "GENLAYER_ADJUDICATION"
    BY <1>1, WorkFacts, KeyInKeys DEF Key, Types, AppealTypes
  <2>2. /\ OwnStep /\ tasks' = tasks
        /\ settlementCounter' = settlementCounter
        /\ StoreTypes /\ StoreInv /\ JobSound(k) /\ jobs[k] \in Job
    BY <1>1, <2>1
    DEF SystemInv, StoreInv, StoreTypes, WriteJobs, Aside, OwnStep, worldVars
  <2>3. v \in Job /\ v.status = "PENDING" /\ v.task = jobs[k].task
    BY <2>2 DEF Job, JobStatus, OpenStatus
  <2>4. TasksGrow(k) /\ settlementCounter' \in Nat
    BY <2>2, TasksSame DEF StoreTypes
  <2>5. Prepared(k)
    BY <2>1 DEF Prepared
  <2>6. v.task <= Len(tasks'[k])
    BY <2>2, <2>3 DEF JobSound
  <2> HIDE DEF k, v
  <2> QED BY <1>1, <1>3, <2>1, <2>2, <2>3, <2>4, <2>5, <2>6, JobStep
<1> QED BY <1>2, <1>3 DEF WakeAdjudication

\* The settlement is enqueued when the final judgment is on Base.
LEMMA EnqueueSettlementSound ==
    ASSUME SystemInv, Aside, EnqueueSettlement
    PROVE  SystemInv'
<1> DEFINE k == Key(mandate, "SETTLEMENT")
<1>1. /\ Working /\ Is("RECORD_FINALIZED") /\ WriteJobs /\ NextJob
      /\ Upsert(k) /\ Effect(job)
  BY WritingWorks, KnownHere DEF EnqueueSettlement, LabelNeeds, At, Writing
<1>2. k \in JobKeys /\ k.type = "SETTLEMENT" /\ k.mandate = mandate
  BY <1>1, WorkFacts, KeyInKeys DEF Key, Types, BaseTypes, AppealTypes
<1>3. Prepared(k)
  <2>1. Prepared(job) /\ job.mandate = mandate
    BY <1>1, WorkFacts DEF mandate
  <2> QED BY <1>1, <1>2, <2>1 DEF Prepared, Effect, SignedTypes, Is
<1> HIDE DEF k
<1> QED BY <1>1, <1>2, <1>3, UpsertSound

\* The task of the job is remembered.
LEMMA RecordTaskSound ==
    ASSUME SystemInv, Aside, RecordTask
    PROVE  SystemInv'
<1> DEFINE v == [jobs[job] EXCEPT !.status = "SUBMITTED",
                                  !.task = Len(tasks[job])]
<1>1. Working /\ SetJob(job, v) /\ WriteJobs /\ NextJob
  BY WritingWorks DEF RecordTask, At, Writing
<1>2. /\ OwnStep /\ tasks' = tasks /\ settlementCounter' = settlementCounter
      /\ StoreTypes /\ StoreInv
  BY <1>1 DEF SystemInv, WriteJobs, Aside, OwnStep, worldVars
<1>3. job \in JobKeys /\ jobs[job] \in Job /\ Prepared(job)
      /\ Len(tasks[job]) \in Nat
  BY <1>1, <1>2, WorkFacts DEF StoreTypes
<1>4. v \in Job /\ v.status = "SUBMITTED" /\ v.task = Len(tasks[job])
  BY <1>3 DEF Job, JobStatus, OpenStatus
<1>5. TasksGrow(job) /\ settlementCounter' \in Nat
  BY <1>2, TasksSame DEF StoreTypes
<1>6. v.task <= Len(tasks'[job])
  BY <1>2, <1>3, <1>4
<1> HIDE DEF v
<1> QED BY <1>1, <1>2, <1>3, <1>4, <1>5, <1>6, JobStep

\* Once GenLayer has a case, its delivery is on Base.
LateStatus ==
    {"UNDER_REVIEW", "APPEAL_WINDOW", "APPEAL_PENDING", "APPEALED",
     "FINALIZED", "SETTLEMENT_PENDING"}

\* A status of the review allows what Base shows of a delivered mandate.
LEMMA LateKnown ==
    ASSUME SystemInv, NEW m \in Mandates, genlayer[m].status # "NONE",
           NEW status \in LateStatus
    PROVE  /\ mandates[m].status \in KnownOnBase(status)
           /\ status \in DocumentStatus
<1>1. Delivered(m)
  BY DEF SystemInv, StoreInv, MandateSound
<1>2. mandates[m].status \in {"Submitted", "Settled"}
  BY <1>1, ChainFacts DEF Delivered, SystemInv, ChainInv
<1> QED BY <1>2 DEF LateStatus, KnownOnBase, DocumentStatus

\* What the calls sent for the job say is sound.
LEMMA NextMessageSound ==
    ASSUME SystemInv, ForBase
    PROVE  /\ NewTask \in Task
           /\ \A task \in Task : task = NewTask => TaskSound(job, task)
<1>1. Working /\ SeenSound /\ LabelNeeds("job")
      /\ worker.seen \in Document
      /\ job.mandate = mandate
  BY JobWorks, WorkFacts, KnownHere DEF ForBase, Unsent, Ready, mandate
<1>2. settlementCounter \in Nat /\ courtNonce \in Nat /\ now \in Nat
  BY ChainTyped, CourtRelaysAssumption
  DEF SystemInv, ChainInv, ChainTypes, StoreTypes
<1>3. Until \in Nat
  BY <1>2, CourtRelaysAssumption, RelayQueueAssumption DEF Until
<1>4. PICK verdict \in Judgment :
        /\ verdict = IF Is("RECORD_ACCEPTED")
                        /\ worker.seen.acceptedJudgmentHash # NoHash
                     THEN worker.seen.acceptedJudgmentHash
                     ELSE worker.seen.judgmentHash
        /\ NextMessage.verdict = verdict
  BY <1>1 DEF Document, NextMessage, Message
<1>5. NextMessage \in TaskMessage
  <2>1. PICK read, nonce \in Nat : NextMessage = Message(read, nonce, verdict)
    BY <1>2, <1>4 DEF NextMessage
  <2> QED BY <1>3, <1>4, <2>1 DEF Message, TaskMessage
<1>6. MessageSound(job, NextMessage)
  BY <1>1, <1>4 DEF MessageSound, LabelNeeds, SeenSound, Is
<1>7. NewTask \in Task
  BY <1>5 DEF NewTask, Task, TaskState
<1>8. NewTask.state = "pending" /\ NewTask.message = NextMessage
  BY DEF NewTask
<1> QED BY <1>6, <1>7, <1>8 DEF TaskSound

\* Whether one relay takes the call, or both, or none, the tasks are sound.
LEMMA SendGrows ==
    ASSUME SystemInv, ForBase, NEW sent \in Nat,
           tasks' = [tasks EXCEPT ![job] = @ \o [i \in 1 .. sent |-> NewTask]]
    PROVE  TasksGrow(job)
<1> DEFINE extra == [i \in 1 .. sent |-> NewTask]
           old == tasks[job]
<1>1. /\ job \in JobKeys /\ tasks \in [JobKeys -> Seq(Task)]
      /\ job.type \in BaseTypes
      /\ \A k \in JobKeys : TasksSound(k)
  BY JobWorks, WorkFacts
  DEF ForBase, Unsent, Ready, SystemInv, StoreTypes, StoreInv
<1>2. NewTask \in Task /\ TaskSound(job, NewTask)
  BY NextMessageSound
<1>3. extra \in Seq(Task) /\ Len(extra) = sent /\ old \in Seq(Task)
  BY <1>1, <1>2
<1>4. /\ old \o extra \in Seq(Task)
      /\ Len(old \o extra) = Len(old) + sent
      /\ \A i \in 1 .. Len(old) : (old \o extra)[i] = old[i]
      /\ \A i \in Len(old) + 1 .. Len(old) + sent :
            (old \o extra)[i] = NewTask
  BY <1>3
<1>5. /\ tasks' \in [JobKeys -> Seq(Task)]
      /\ tasks'[job] = old \o extra
      /\ \A k \in JobKeys : k # job => tasks'[k] = tasks[k]
  BY <1>1, <1>4
<1> HIDE DEF extra, old
<1>6. ASSUME NEW k \in JobKeys, NEW i \in DOMAIN tasks'[k]
      PROVE  TaskSound(k, tasks'[k][i])
  <2>1. CASE k # job
    BY <1>1, <1>5, <1>6, <2>1 DEF TasksSound
  <2>2. CASE k = job
    <3>1. i \in 1 .. Len(old) + sent /\ Len(old) \in Nat
      BY <1>3, <1>4, <1>5, <1>6, <2>2
    <3>2. CASE i <= Len(old)
      <4>1. tasks'[k][i] = old[i] /\ i \in DOMAIN tasks[job]
        BY <1>3, <1>4, <1>5, <2>2, <3>1, <3>2 DEF old
      <4> QED BY <1>1, <2>2, <4>1 DEF TasksSound, old
    <3>3. CASE ~(i <= Len(old))
      BY <1>2, <1>4, <1>5, <2>2, <3>1, <3>3
    <3> QED BY <3>2, <3>3
  <2> QED BY <2>1, <2>2
<1>7. ASSUME NEW k \in JobKeys
      PROVE  /\ Len(tasks[k]) <= Len(tasks'[k])
             /\ tasks'[k] # <<>> =>
                  tasks[k] # <<>> \/ (k = job /\ job.type \in BaseTypes)
  <2>1. CASE k # job
    <3>1. Len(tasks[k]) \in Nat
      BY <1>1
    <3> QED BY <1>5, <2>1, <3>1
  <2>2. CASE k = job
    <3>1. Len(old) \in Nat
      BY <1>3
    <3> QED BY <1>1, <1>4, <1>5, <2>2, <3>1 DEF old
  <2> QED BY <2>1, <2>2
<1> QED BY <1>5, <1>6, <1>7 DEF TasksGrow

\* A relay has taken the call.
LEMMA SendCallSound ==
    ASSUME SystemInv, Aside, NEW sent \in Nat, SendCall(sent)
    PROVE  SystemInv'
<1> DEFINE at == IF Is("SETTLEMENT") THEN "attested" ELSE "sent"
<1>1. /\ Working /\ ForBase
      /\ tasks' = [tasks EXCEPT ![job] = @ \o [i \in 1 .. sent |-> NewTask]]
      /\ CountSettlement
      /\ worker' = [worker EXCEPT !.at = at, !.submitted = TRUE]
      /\ UNCHANGED <<baseVars, apiVars, documents, jobs, genlayer>>
  BY JobWorks DEF SendCall, Aside, ForBase, Unsent, Ready
<1>2. /\ StoreTypes /\ WorkerInv /\ ChainInv /\ worker \in Worker
      /\ appealing' = appealing /\ inserting' = inserting
  BY <1>1 DEF SystemInv, StoreTypes, apiVars
<1>3. /\ job \in JobKeys /\ jobs[job] \in Job /\ JobSound(job)
      /\ Prepared(job) /\ jobs[job].status # "ABSENT"
  BY <1>1, WorkFacts DEF Exists
<1>4. TasksGrow(job)
  BY <1>1, SendGrows
<1>5. settlementCounter' \in Nat
  BY <1>2 DEF SendCall, CountSettlement, StoreTypes
<1>6. SetJob(job, jobs[job])
  BY <1>1, <1>2 DEF SetJob, StoreTypes
<1>7. jobs[job].task <= Len(tasks'[job])
  <2>1. /\ Len(tasks[job]) \in Nat /\ Len(tasks'[job]) \in Nat
        /\ jobs[job].task \in Nat
    BY <1>2, <1>3, <1>4 DEF StoreTypes, TasksGrow, Job
  <2> QED BY <1>3, <1>4, <2>1 DEF TasksGrow, JobSound
<1>8. jobs[job].status = "COMPLETED" /\ job.type \in BaseTypes => Effect(job)
  BY <1>3 DEF JobSound
<1>9. Grows /\ SameCases /\ StoreInv' /\ jobs' \in [JobKeys -> Job]
  BY <1>1, <1>2, <1>3, <1>4, <1>6, <1>7, <1>8, QueueWrite
<1>10. worker' \in Worker /\ WorkerInv'
  <2>1. PICK to \in {"attested", "sent"} :
           /\ worker' = [worker EXCEPT !.at = to, !.submitted = TRUE]
           /\ to = "attested" => Is("SETTLEMENT")
    BY <1>1
  <2>2. /\ Moves(to) /\ worker'.seen = worker.seen
        /\ job' = job
    BY <1>2, <2>1 DEF Moves, Worker, Labels, Writing, job
  <2>3. SeenSound'
    BY <1>1, <1>2, <1>9, <2>2, SeenStays DEF Moves
  <2>4. LabelNeeds(to)'
    BY <2>1, <2>2 DEF LabelNeeds, OnAdjudication, Is
  <2> QED BY <1>2, <1>9, <2>2, <2>3, <2>4, MoveSound DEF Moves
<1>11. ChainInv'
  BY <1>1, <1>2, BaseStands
<1> QED BY <1>1, <1>2, <1>4, <1>5, <1>9, <1>10, <1>11
        DEF SystemInv, StoreTypes, TasksGrow

\* No relay answers; one may have taken the call.
LEMMA SendErrorSound ==
    ASSUME SystemInv, Aside, NEW sent \in Nat, NEW terminal,
           SendError(sent, terminal)
    PROVE  SystemInv'
<1>1. /\ Working /\ ForBase /\ OwnStep /\ Fail(terminal)
      /\ tasks' = [tasks EXCEPT ![job] = @ \o [i \in 1 .. sent |-> NewTask]]
      /\ CountSettlement
  BY JobWorks DEF SendError, Aside, OwnStep, ForBase, Unsent, Ready
<1>2. TasksGrow(job)
  BY <1>1, SendGrows
<1>3. settlementCounter' \in Nat
  BY <1>1 DEF CountSettlement, SystemInv, StoreTypes
<1> QED BY <1>1, <1>2, <1>3, FailSound

\* The processor writes a later stage of the document: nothing else of it, or
\* what it has learned from GenLayer.
LEMMA LateWrite ==
    ASSUME SystemInv, Aside, Working, genlayer[mandate].status # "NONE",
           NEW status \in LateStatus, NEW at \in Writing,
           WriteDocument([documents[mandate] EXCEPT !.status = status]),
           NextJob \/ (Goto(at) /\ LabelNeeds(at))
    PROVE  SystemInv'
<1> DEFINE old == documents[mandate]
           document == [old EXCEPT !.status = status]
<1>1. /\ mandate \in Mandates /\ old \in Document /\ MandateSound(mandate)
      /\ StoreTypes /\ WorkerInv
  BY WorkFacts DEF SystemInv
<1>2. /\ mandates[mandate].status \in KnownOnBase(status)
      /\ status \in DocumentStatus
  BY <1>1, LateKnown
<1>3. /\ document \in Document
      /\ document.status = status
      /\ document.genlayerTransactionId = old.genlayerTransactionId
      /\ document.acceptedJudgmentHash = old.acceptedJudgmentHash
      /\ document.judgmentHash = old.judgmentHash
      /\ document.deliveryHash = old.deliveryHash
      /\ document.intents = old.intents
  <2> HIDE DEF old
  <2> QED BY <1>1, <1>2 DEF Document
<1>4. /\ documents' = [documents EXCEPT ![mandate] = document]
      /\ UNCHANGED <<jobs, settlementCounter, worldVars>>
  BY DEF WriteDocument
<1> HIDE DEF document
<1>5. DocumentKeeps(mandate, document)
  BY <1>1, <1>2, <1>3 DEF DocumentKeeps, MandateSound, Delivered
<1>6. SameCases
  BY <1>1, <1>3, <1>4 DEF SameCases, StoreTypes
<1>7. ASSUME Grows PROVE worker' \in Worker /\ WorkerInv'
  <2>1. CASE NextJob
    BY <1>1, <1>7, <2>1, NextJobSound
  <2>2. CASE Goto(at) /\ LabelNeeds(at)
    <3>1. Moves(at) /\ SeenSound'
          /\ worker'.seen = worker.seen /\ worker'.read = worker.read
      BY <1>7, <2>2, GotoMoves
    <3>2. LabelNeeds(at)'
      BY <1>1, <1>6, <1>7, <2>2, <3>1, NeedsStay DEF Moves
    <3> QED BY <1>1, <1>7, <3>1, <3>2, MoveSound DEF Moves
  <2> QED BY <2>1, <2>2
<1> QED BY <1>4, <1>5, <1>7, DocumentStep

\* The document shows the settlement as pending once it is sent.
LEMMA RecordAttestationSound ==
    ASSUME SystemInv, Aside, RecordAttestation
    PROVE  SystemInv'
<1>1. /\ Working /\ Is("SETTLEMENT") /\ Goto("sent")
      /\ WriteDocument([documents[mandate] EXCEPT
                          !.status = "SETTLEMENT_PENDING"])
  BY WritingWorks, KnownHere DEF RecordAttestation, LabelNeeds, At, Writing
<1>2. /\ cases[mandate].finalized /\ Judged(mandate)
      /\ genlayer[mandate].status # "NONE"
  BY <1>1, WorkFacts DEF Prepared, Is, mandate, MandateSound, Judged,
                         FinalVerdict
<1>3. LabelNeeds("sent") /\ "sent" \in Writing
      /\ "SETTLEMENT_PENDING" \in LateStatus
  BY DEF LabelNeeds, OnAdjudication, Writing, LateStatus
<1> QED BY <1>1, <1>2, <1>3, LateWrite

\* The document shows the appeal that GenLayer has taken.
LEMMA RecordAppealedSound ==
    ASSUME SystemInv, Aside, RecordAppealed
    PROVE  SystemInv'
<1>1. /\ Working /\ NextJob /\ genlayer[mandate].status # "NONE"
      /\ WriteDocument([documents[mandate] EXCEPT !.status = "APPEALED"])
  BY WritingWorks, KnownHere DEF RecordAppealed, LabelNeeds, At, Writing
<1>2. "sent" \in Writing /\ "APPEALED" \in LateStatus
  BY DEF Writing, LateStatus
<1> QED BY <1>1, <1>2, LateWrite

(***************************************************************************)
(* The adjudication and the appeal.                                        *)
(***************************************************************************)

\* What a step may do to the cases of GenLayer.
CourtMoves ==
    /\ genlayer' \in [Mandates -> CourtCase]
    /\ \A m \in Mandates :
          /\ genlayer[m].transactions \subseteq genlayer'[m].transactions
          /\ genlayer[m].status # "NONE" => genlayer'[m].status # "NONE"
          /\ genlayer[m].status = "FINALIZED" =>
                /\ genlayer'[m].status = "FINALIZED"
                /\ genlayer'[m].verdict = genlayer[m].verdict
          /\ genlayer'[m].status # "NONE" => mandates[m].deliveryHash # NoHash
          /\ genlayer'[m].transactions # {} => genlayer'[m].status # "NONE"

\* A step that moves one case of GenLayer forward, and nothing else that is
\* stored, keeps the invariant.
LEMMA CourtStep ==
    ASSUME SystemInv, CourtMoves,
           UNCHANGED <<baseVars, apiVars, databaseVars, tasks>>,
           Grows /\ SameCases => worker' \in Worker /\ WorkerInv'
    PROVE  SystemInv'
<1>0. /\ StoreTypes /\ StoreInv /\ ChainInv
      /\ UNCHANGED <<baseVars, documents, jobs, settlementCounter, tasks>>
      /\ appealing' = appealing /\ inserting' = inserting
  BY DEF SystemInv, apiVars, databaseVars
<1>1. Grows /\ SameCases
  BY <1>0, BaseStands DEF Grows, SameCases, Exists, CourtMoves
<1>2. ASSUME NEW m \in Mandates PROVE MandateSound(m)'
  <2>1. MandateSound(m)
    BY <1>0 DEF StoreInv
  <2>2. Delivered(m)'
    BY <1>0, <2>1, BaseStands DEF MandateSound, Delivered, CourtMoves
  <2>3. Judged(m)'
    BY <1>0, <2>1, BaseStands
    DEF MandateSound, Judged, FinalVerdict, CourtMoves
  <2>4. AheadOfNothing(m)'
    BY <1>0, <2>1, BaseStands DEF MandateSound, AheadOfNothing, KnownOnBase
  <2> QED BY <2>2, <2>3, <2>4 DEF MandateSound
<1>3. StoreInv'
  BY <1>0, <1>1, <1>2, QueueStays, AppealsStay DEF StoreInv
<1>4. ChainInv'
  BY <1>0, BaseStands
<1> QED BY <1>0, <1>1, <1>3, <1>4 DEF SystemInv, StoreTypes, CourtMoves

\* GenLayer takes the case of a delivery that is on Base.
LEMMA SubmitAdjudicationSound ==
    ASSUME SystemInv, Aside, SubmitAdjudication
    PROVE  SystemInv'
<1> DEFINE fresh == {tx \in GenLayerTxs :
                        \A m \in Mandates : tx \notin genlayer[m].transactions}
           t == CHOOSE tx \in fresh : TRUE
<1>1. /\ Working /\ At("job") /\ ~Blocked /\ ~Waiting
      /\ Is("GENLAYER_ADJUDICATION")
      /\ worker.seen.genlayerTransactionId = NoHash
      /\ t \in GenLayerTxs
      /\ genlayer' = [genlayer EXCEPT
                        ![mandate].transactions = @ \cup {t},
                        ![mandate].status =
                            IF @ = "NONE" THEN "PENDING" ELSE @]
      /\ worker' = [worker EXCEPT !.at = "review",
                                  !.seen.genlayerTransactionId = t]
      /\ UNCHANGED <<baseVars, apiVars, databaseVars, tasks>>
  BY JobWorks DEF SubmitAdjudication, Adjudicating, Unsent, Ready, Submitted,
                  Aside
<1> HIDE DEF fresh, t
<1>2. /\ job \in JobKeys /\ mandate \in Mandates /\ SeenSound
      /\ genlayer[mandate] \in CourtCase
      /\ worker.seen \in Document
      /\ worker \in Worker
      /\ StoreTypes /\ StoreInv /\ WorkerInv
  BY <1>1, WorkFacts DEF SystemInv, StoreTypes
<1>3. t # NoHash
  BY <1>1, CourtTypesAssumption
<1>4. mandates[mandate].deliveryHash # NoHash
  <2> DEFINE k == Key(mandate, "SUBMIT_DELIVERY")
  <2>1. /\ k \in JobKeys /\ k.type = "SUBMIT_DELIVERY"
        /\ k.mandate = mandate
    BY <1>2, KeyInKeys DEF Key, Types, BaseTypes, AppealTypes
  <2>2. jobs[k].status = "COMPLETED"
    BY <1>1 DEF Waiting, Blocked, DeliveryJob
  <2>3. Effect(k)
    BY <1>2, <2>1, <2>2 DEF StoreInv, JobSound, BaseTypes
  <2> HIDE DEF k
  <2> QED BY <2>1, <2>3 DEF Effect, SignedTypes
<1>5. PICK case \in CourtCase :
        /\ case.transactions = genlayer[mandate].transactions \cup {t}
        /\ case.status = IF genlayer[mandate].status = "NONE"
                         THEN "PENDING" ELSE genlayer[mandate].status
        /\ case.verdict = genlayer[mandate].verdict
        /\ genlayer' = [genlayer EXCEPT ![mandate] = case]
  <2> DEFINE case == [genlayer[mandate] EXCEPT
                        !.transactions = @ \cup {t},
                        !.status = IF @ = "NONE" THEN "PENDING" ELSE @]
  <2>1. genlayer' = [genlayer EXCEPT ![mandate] = case]
    BY <1>1, <1>2 DEF StoreTypes
  <2>2. /\ case \in CourtCase
        /\ case.transactions = genlayer[mandate].transactions \cup {t}
        /\ case.status = IF genlayer[mandate].status = "NONE"
                         THEN "PENDING" ELSE genlayer[mandate].status
        /\ case.verdict = genlayer[mandate].verdict
    BY <1>1, <1>2 DEF CourtCase
  <2> HIDE DEF case
  <2> QED BY <2>1, <2>2
<1>6. /\ genlayer' \in [Mandates -> CourtCase]
      /\ genlayer'[mandate] = case
      /\ \A m \in Mandates : m # mandate => genlayer'[m] = genlayer[m]
      /\ \A m \in Mandates : Delivered(m) /\ Judged(m)
  BY <1>2, <1>5 DEF StoreTypes, StoreInv, MandateSound
<1>7. CourtMoves
  BY <1>2, <1>4, <1>5, <1>6 DEF CourtMoves, Delivered, Judged
<1>8. ASSUME Grows, SameCases PROVE worker' \in Worker /\ WorkerInv'
  <2>1. Moves("review") /\ worker'.read = worker.read
        /\ worker'.seen = [worker.seen EXCEPT !.genlayerTransactionId = t]
        /\ worker'.seen \in Document
        /\ job' = job /\ mandate' = mandate
    <3>1. worker'.seen = [worker.seen EXCEPT !.genlayerTransactionId = t]
      BY <1>1, <1>2 DEF Worker
    <3>2. worker'.seen \in Document
      BY <1>1, <1>2, <3>1 DEF Document
    <3>3. Moves("review") /\ worker'.read = worker.read
      BY <1>1, <1>2, <3>1, <3>2 DEF Moves, Worker, Labels, Writing
    <3> QED BY <3>1, <3>2, <3>3 DEF Moves, job, mandate
  <2>2. /\ worker'.seen.genlayerTransactionId = t
        /\ worker'.seen.judgmentHash = worker.seen.judgmentHash
    BY <1>2, <2>1 DEF Document
  <2>3. SeenSound'
    <3>1. t \in genlayer'[mandate].transactions
      BY <1>5, <1>6
    <3> QED BY <1>2, <1>8, <2>1, <2>2, <3>1
            DEF SeenSound, FinalVerdict, Grows
  <2>4. documents[mandate].genlayerTransactionId = NoHash
    BY <1>1, KnownHere DEF LabelNeeds
  <2>5. LabelNeeds("review")'
    BY <1>1, <1>2, <1>3, <1>8, <2>1, <2>2, <2>4
    DEF LabelNeeds, OnAdjudication, Is, SameCases
  <2> QED BY <1>2, <1>8, <2>1, <2>3, <2>5, MoveSound DEF Moves
<1> QED BY <1>1, <1>7, <1>8, CourtStep

\* The transaction is written to the document, once.
LEMMA RecordReviewSound ==
    ASSUME SystemInv, Aside, RecordReview
    PROVE  SystemInv'
<1> DEFINE old == documents[mandate]
           tx == worker.seen.genlayerTransactionId
           document == [old EXCEPT !.genlayerTransactionId = tx,
                                   !.status = "UNDER_REVIEW"]
<1>1. /\ Working /\ Goto("reviewing") /\ WriteDocument(document)
      /\ old.genlayerTransactionId = NoHash /\ tx # NoHash
      /\ Is("GENLAYER_ADJUDICATION")
  BY WritingWorks, KnownHere
  DEF RecordReview, LabelNeeds, OnAdjudication, At, Writing
<1>2. /\ mandate \in Mandates /\ old \in Document /\ MandateSound(mandate)
      /\ StoreTypes /\ WorkerInv /\ SeenSound
      /\ worker.seen \in Document
  BY <1>1, WorkFacts DEF SystemInv
<1>3. tx \in genlayer[mandate].transactions /\ tx \in GenLayerTxs
  BY <1>1, <1>2 DEF SeenSound, Document
<1>4. genlayer[mandate].status # "NONE"
  BY <1>2, <1>3 DEF MandateSound, Judged
<1>5. /\ mandates[mandate].status \in KnownOnBase("UNDER_REVIEW")
      /\ "UNDER_REVIEW" \in DocumentStatus
  BY <1>2, <1>4, LateKnown DEF LateStatus
<1>6. /\ document \in Document
      /\ document.status = "UNDER_REVIEW"
      /\ document.genlayerTransactionId = tx
      /\ document.acceptedJudgmentHash = old.acceptedJudgmentHash
      /\ document.judgmentHash = old.judgmentHash
      /\ document.deliveryHash = old.deliveryHash
      /\ document.intents = old.intents
  <2> HIDE DEF old, tx
  <2> QED BY <1>2, <1>3, <1>5 DEF Document
<1>7. /\ documents' = [documents EXCEPT ![mandate] = document]
      /\ UNCHANGED <<jobs, settlementCounter, worldVars>>
  BY <1>1 DEF WriteDocument
<1> HIDE DEF document
<1>8. DocumentKeeps(mandate, document)
  <2> HIDE DEF tx
  <2> QED BY <1>1, <1>2, <1>3, <1>5, <1>6
          DEF DocumentKeeps, MandateSound, Delivered
<1>9. ASSUME Grows PROVE worker' \in Worker /\ WorkerInv'
  <2>1. Moves("reviewing") /\ SeenSound' /\ job' = job /\ mandate' = mandate
    BY <1>1, <1>9, GotoMoves DEF Writing
  <2>2. documents'[mandate].genlayerTransactionId # NoHash
    BY <1>1, <1>2, <1>6, <1>7 DEF StoreTypes
  <2>3. LabelNeeds("reviewing")'
    BY <1>1, <2>1, <2>2 DEF LabelNeeds, OnAdjudication, Is
  <2> QED BY <1>2, <1>9, <2>1, <2>3, MoveSound DEF Moves
<1> HIDE DEF tx
<1> QED BY <1>1, <1>7, <1>8, <1>9, DocumentStep

\* The adjudication job is SUBMITTED after its document is written.
LEMMA RecordAdjudicationSound ==
    ASSUME SystemInv, Aside, RecordAdjudication
    PROVE  SystemInv'
<1>1. /\ Working /\ UpdateJob("SUBMITTED") /\ Goto("link")
      /\ LabelNeeds("reviewing")
  BY WritingWorks, KnownHere DEF RecordAdjudication, At, Writing
<1>2. LabelNeeds("link") /\ "link" \in Writing
      /\ "SUBMITTED" \in JobStatus \ {"ABSENT"}
  BY <1>1 DEF LabelNeeds, OnAdjudication, Writing, JobStatus, OpenStatus
<1> QED BY <1>1, <1>2, UpdateSound

\* The link is enqueued when the document holds the transaction.
LEMMA EnqueueLinkSound ==
    ASSUME SystemInv, Aside, EnqueueLink
    PROVE  SystemInv'
<1> DEFINE k == Key(mandate, "LINK_CASE")
<1>1. /\ Working /\ Insert(k, "PENDING") /\ WriteJobs /\ NextJob
      /\ documents[mandate].genlayerTransactionId # NoHash
  BY WritingWorks, KnownHere DEF EnqueueLink, LabelNeeds, At, Writing
<1>2. k \in JobKeys /\ k.type = "LINK_CASE" /\ k.mandate = mandate
  BY <1>1, WorkFacts, KeyInKeys DEF Key, Types, BaseTypes, AppealTypes
<1>3. Prepared(k)
  BY <1>1, <1>2 DEF Prepared
<1> HIDE DEF k
<1> QED BY <1>1, <1>2, <1>3, InsertSound

\* What GenLayer answers is kept: a final verdict is still the final one when
\* it is written.
LEMMA ReadProgressSound ==
    ASSUME SystemInv, Aside, ReadProgress
    PROVE  SystemInv'
<1>1. /\ Working /\ Is("GENLAYER_ADJUDICATION")
      /\ worker.seen.genlayerTransactionId # NoHash
      /\ worker' = [worker EXCEPT !.at = "progress",
                                  !.read = genlayer[mandate]]
      /\ OwnStep /\ UNCHANGED <<jobs, settlementCounter, tasks>>
  BY JobWorks DEF ReadProgress, Adjudicating, Unsent, Ready, Submitted, Aside,
                  OwnStep, databaseVars, worldVars
<1>2. /\ mandate \in Mandates /\ genlayer[mandate] \in CourtCase
      /\ StoreTypes /\ WorkerInv /\ worker \in Worker
  BY <1>1, WorkFacts DEF SystemInv, StoreTypes
<1>3. /\ Moves("progress") /\ worker'.seen = worker.seen
      /\ worker'.read = genlayer[mandate]
      /\ job' = job /\ mandate' = mandate
      /\ genlayer' = genlayer
  <2>1. /\ Moves("progress") /\ worker'.seen = worker.seen
        /\ worker'.read = genlayer[mandate]
    BY <1>1, <1>2 DEF Moves, Worker, Labels, Writing
  <2> QED BY <1>1, <2>1 DEF Moves, job, mandate, OwnStep
<1>4. ASSUME Grows PROVE WorkerInv'
  <2>1. SeenSound'
    BY <1>1, <1>2, <1>3, <1>4, SeenStays DEF Moves
  <2>2. LabelNeeds("progress")'
    BY <1>1, <1>3 DEF LabelNeeds, OnAdjudication, Is, FinalVerdict
  <2> QED BY <1>2, <1>3, <1>4, <2>1, <2>2, MoveSound
<1> QED BY <1>1, <1>3, <1>4, LocalStep DEF Moves

\* What the steps that write a judgment know.
LEMMA ProgressFacts ==
    ASSUME SystemInv, At("progress")
    PROVE  /\ Working /\ Is("GENLAYER_ADJUDICATION")
           /\ genlayer[mandate].status # "NONE"
           /\ worker.read.verdict \in Judgment
           /\ worker.read.status = "FINALIZED" =>
                FinalVerdict(mandate, worker.read.verdict)
           /\ mandate \in Mandates /\ documents[mandate] \in Document
           /\ MandateSound(mandate) /\ StoreTypes /\ WorkerInv
<1>1. Working /\ LabelNeeds("progress")
  BY WritingWorks, KnownHere DEF At, Writing
<1>2. /\ mandate \in Mandates /\ SeenSound /\ MandateSound(mandate)
      /\ worker.read \in CourtCase /\ documents[mandate] \in Document
  BY <1>1, WorkFacts
<1>3. genlayer[mandate].status # "NONE"
  BY <1>1, <1>2 DEF LabelNeeds, SeenSound, MandateSound, Judged
<1> QED BY <1>1, <1>2, <1>3
        DEF LabelNeeds, OnAdjudication, CourtCase, SystemInv

\* An accepted judgment goes into the document as it was read.
LEMMA RecordAcceptedJudgmentSound ==
    ASSUME SystemInv, Aside, RecordAcceptedJudgment
    PROVE  SystemInv'
<1> DEFINE old == documents[mandate]
           verdict == worker.read.verdict
           status == IF worker.seen.status = "APPEALED" THEN "APPEALED"
                                                        ELSE "APPEAL_WINDOW"
           document == [old EXCEPT !.acceptedJudgmentHash = verdict,
                                   !.status = status]
<1>1. /\ At("progress") /\ Goto("accepted") /\ WriteDocument(document)
      /\ verdict # NoHash
  BY DEF RecordAcceptedJudgment, Accepted
<1>2. /\ Working /\ Is("GENLAYER_ADJUDICATION") /\ verdict \in Judgment
      /\ genlayer[mandate].status # "NONE"
      /\ mandate \in Mandates /\ old \in Document /\ MandateSound(mandate)
      /\ StoreTypes /\ WorkerInv
  BY <1>1, ProgressFacts
<1>3. status \in LateStatus
  BY DEF LateStatus
<1> HIDE DEF status
<1>4. mandates[mandate].status \in KnownOnBase(status)
      /\ status \in DocumentStatus
  BY <1>2, <1>3, LateKnown
<1>5. /\ document \in Document
      /\ document.status = status
      /\ document.genlayerTransactionId = old.genlayerTransactionId
      /\ document.acceptedJudgmentHash = verdict
      /\ document.judgmentHash = old.judgmentHash
      /\ document.deliveryHash = old.deliveryHash
      /\ document.intents = old.intents
  <2> HIDE DEF old, verdict
  <2> QED BY <1>2, <1>4 DEF Document
<1>6. /\ documents' = [documents EXCEPT ![mandate] = document]
      /\ UNCHANGED <<jobs, settlementCounter, worldVars>>
  BY <1>1 DEF WriteDocument
<1> HIDE DEF document
<1>7. DocumentKeeps(mandate, document)
  BY <1>1, <1>2, <1>4, <1>5 DEF DocumentKeeps, MandateSound, Delivered
<1>8. ASSUME Grows PROVE worker' \in Worker /\ WorkerInv'
  <2>1. Moves("accepted") /\ SeenSound' /\ job' = job /\ mandate' = mandate
    BY <1>2, <1>8, GotoMoves, <1>1 DEF Writing
  <2>2. documents'[mandate].acceptedJudgmentHash # NoHash
    BY <1>1, <1>2, <1>5, <1>6 DEF StoreTypes
  <2>3. LabelNeeds("accepted")'
    BY <1>2, <2>1, <2>2 DEF LabelNeeds, OnAdjudication, Is
  <2> QED BY <1>2, <1>8, <2>1, <2>3, MoveSound DEF Moves
<1> QED BY <1>2, <1>6, <1>7, <1>8, DocumentStep

\* A final judgment that was read stays the one GenLayer finalized.
LEMMA RecordJudgmentSound ==
    ASSUME SystemInv, Aside, RecordJudgment
    PROVE  SystemInv'
<1> DEFINE old == documents[mandate]
           verdict == worker.read.verdict
           document == [old EXCEPT !.judgmentHash = verdict,
                                   !.status = "FINALIZED"]
<1>1. /\ At("progress") /\ Goto("judged") /\ WriteDocument(document)
      /\ verdict # NoHash /\ worker.read.status = "FINALIZED"
  BY DEF RecordJudgment
<1>2. /\ Working /\ Is("GENLAYER_ADJUDICATION") /\ verdict \in Judgment
      /\ genlayer[mandate].status # "NONE" /\ FinalVerdict(mandate, verdict)
      /\ mandate \in Mandates /\ old \in Document /\ MandateSound(mandate)
      /\ StoreTypes /\ WorkerInv
  BY <1>1, ProgressFacts
<1>3. mandates[mandate].status \in KnownOnBase("FINALIZED")
      /\ "FINALIZED" \in DocumentStatus
  BY <1>2, LateKnown DEF LateStatus
<1>4. /\ document \in Document
      /\ document.status = "FINALIZED"
      /\ document.genlayerTransactionId = old.genlayerTransactionId
      /\ document.acceptedJudgmentHash = old.acceptedJudgmentHash
      /\ document.judgmentHash = verdict
      /\ document.deliveryHash = old.deliveryHash
      /\ document.intents = old.intents
  <2> HIDE DEF old, verdict
  <2> QED BY <1>2, <1>3 DEF Document
<1>5. /\ documents' = [documents EXCEPT ![mandate] = document]
      /\ UNCHANGED <<jobs, settlementCounter, worldVars>>
  BY <1>1 DEF WriteDocument
<1> HIDE DEF document
<1>6. DocumentKeeps(mandate, document)
  BY <1>1, <1>2, <1>3, <1>4 DEF DocumentKeeps, MandateSound, Delivered
<1>7. ASSUME Grows PROVE worker' \in Worker /\ WorkerInv'
  <2>1. Moves("judged") /\ SeenSound' /\ job' = job /\ mandate' = mandate
    BY <1>2, <1>7, GotoMoves, <1>1 DEF Writing
  <2>2. documents'[mandate].judgmentHash # NoHash
    BY <1>1, <1>2, <1>4, <1>5 DEF StoreTypes
  <2>3. LabelNeeds("judged")'
    BY <1>2, <2>1, <2>2 DEF LabelNeeds, OnAdjudication, Is
  <2> QED BY <1>2, <1>7, <2>1, <2>3, MoveSound DEF Moves
<1> QED BY <1>2, <1>5, <1>6, <1>7, DocumentStep

\* The record of the accepted judgment is enqueued when there is one.
LEMMA EnqueueAcceptedSound ==
    ASSUME SystemInv, Aside, EnqueueAccepted
    PROVE  SystemInv'
<1> DEFINE k == Key(mandate, "RECORD_ACCEPTED")
<1>1. /\ Working /\ Upsert(k) /\ WriteJobs
      /\ \/ documents[mandate].acceptedJudgmentHash # NoHash
         \/ documents[mandate].judgmentHash # NoHash
      /\ \/ NextJob
         \/ Goto("finalize") /\ LabelNeeds("finalized")
  BY WritingWorks, KnownHere DEF EnqueueAccepted, LabelNeeds, At, Writing
<1>2. k \in JobKeys /\ k.type = "RECORD_ACCEPTED" /\ k.mandate = mandate
  BY <1>1, WorkFacts, KeyInKeys DEF Key, Types, BaseTypes, AppealTypes
<1>3. Prepared(k)
  BY <1>1, <1>2 DEF Prepared
<1>4. /\ LabelNeeds("finalized") => LabelNeeds("finalize")
      /\ "finalize" \in Writing
  BY DEF LabelNeeds, OnAdjudication, Writing
<1> HIDE DEF k
<1> QED BY <1>1, <1>2, <1>3, <1>4, UpsertSound

\* The adjudication is complete when its judgment is stored.
LEMMA CompleteAdjudicationSound ==
    ASSUME SystemInv, Aside, CompleteAdjudication
    PROVE  SystemInv'
<1>1. /\ Working /\ UpdateJob("COMPLETED") /\ Goto("finalized")
      /\ LabelNeeds("judged")
  BY WritingWorks, KnownHere DEF CompleteAdjudication, At, Writing
<1>2. LabelNeeds("finalized") /\ "finalized" \in Writing
      /\ "COMPLETED" \in JobStatus \ {"ABSENT"}
      /\ job.type \notin BaseTypes
  BY <1>1 DEF LabelNeeds, OnAdjudication, Writing, JobStatus, Is, BaseTypes
<1> QED BY <1>1, <1>2, UpdateSound

\* The record of the final judgment is enqueued when it is stored.
LEMMA EnqueueFinalizedSound ==
    ASSUME SystemInv, Aside, EnqueueFinalized
    PROVE  SystemInv'
<1> DEFINE k == Key(mandate, "RECORD_FINALIZED")
<1>1. /\ Working /\ Upsert(k) /\ WriteJobs /\ NextJob
      /\ documents[mandate].judgmentHash # NoHash
  BY WritingWorks, KnownHere DEF EnqueueFinalized, LabelNeeds, At, Writing
<1>2. k \in JobKeys /\ k.type = "RECORD_FINALIZED" /\ k.mandate = mandate
  BY <1>1, WorkFacts, KeyInKeys DEF Key, Types, BaseTypes, AppealTypes
<1>3. Prepared(k)
  BY <1>1, <1>2 DEF Prepared
<1> HIDE DEF k
<1> QED BY <1>1, <1>2, <1>3, UpsertSound

\* An appeal opens an accepted judgment again, never a final one.
LEMMA SubmitAppealSound ==
    ASSUME SystemInv, Aside, SubmitAppeal
    PROVE  SystemInv'
<1>1. /\ Working /\ Is("GENLAYER_APPEAL") /\ Goto("appealed")
      /\ genlayer[mandate].status = "ACCEPTED"
      /\ genlayer' = [genlayer EXCEPT ![mandate].status = "PENDING"]
      /\ UNCHANGED <<baseVars, apiVars, databaseVars, tasks>>
  BY JobWorks DEF SubmitAppeal, Appealing, Unsent, Ready, Aside
<1>2. /\ mandate \in Mandates /\ genlayer[mandate] \in CourtCase
      /\ StoreTypes /\ StoreInv /\ WorkerInv
  BY <1>1, WorkFacts DEF SystemInv
<1>3. /\ genlayer' \in [Mandates -> CourtCase]
      /\ genlayer'[mandate].status = "PENDING"
      /\ genlayer'[mandate].transactions = genlayer[mandate].transactions
      /\ \A m \in Mandates : m # mandate => genlayer'[m] = genlayer[m]
      /\ \A m \in Mandates : Delivered(m) /\ Judged(m)
  BY <1>1, <1>2 DEF StoreTypes, CourtCase, StoreInv, MandateSound
<1>4. CourtMoves
  BY <1>1, <1>2, <1>3 DEF CourtMoves, Delivered, Judged
<1>5. ASSUME Grows PROVE worker' \in Worker /\ WorkerInv'
  <2>1. Moves("appealed") /\ SeenSound' /\ job' = job /\ mandate' = mandate
    BY <1>1, <1>5, GotoMoves DEF Writing
  <2>2. LabelNeeds("appealed")'
    BY <1>1, <1>3, <2>1 DEF LabelNeeds, OnAdjudication, Is
  <2> QED BY <1>2, <1>5, <2>1, <2>2, MoveSound DEF Moves
<1> QED BY <1>1, <1>4, <1>5, CourtStep

\* An appeal job is complete when GenLayer has taken the appeal.
LEMMA CompleteAppealSound ==
    ASSUME SystemInv, Aside, CompleteAppeal
    PROVE  SystemInv'
<1>1. /\ Working /\ UpdateJob("COMPLETED") /\ Goto("appeal")
      /\ LabelNeeds("appealed")
  BY WritingWorks, KnownHere DEF CompleteAppeal, At, Writing
<1>2. LabelNeeds("appeal") /\ "appeal" \in Writing
      /\ "COMPLETED" \in JobStatus \ {"ABSENT"}
      /\ job.type \notin BaseTypes
  BY <1>1 DEF LabelNeeds, OnAdjudication, Writing, JobStatus, Is, BaseTypes
<1> QED BY <1>1, <1>2, UpdateSound

\* A step of a pass.
LEMMA WorkSound ==
    ASSUME SystemInv, Work
    PROVE  SystemInv'
<1>1. Aside /\ Follow
  BY DEF Work
<1>2. CASE \/ TakeJob \/ BlockAdjudication \/ DelayAdjudication
           \/ PollPending \/ PollFailure \/ PollSuccess(TRUE)
           \/ CompleteJob \/ WakeAdjudication \/ EnqueueSettlement
  BY <1>1, <1>2, TakeJobSound, DeliverySound, PollPendingSound,
     PollFailureSound, PollSuccessSound, CompleteJobSound,
     WakeAdjudicationSound, EnqueueSettlementSound
<1>3. CASE \/ Defer \/ SendCall(1) \/ RecordAttestation \/ RecordTask
           \/ SubmitAdjudication \/ RecordReview \/ RecordAdjudication
           \/ EnqueueLink \/ WaitForAppeal \/ ReadProgress \/ NoProgress
  BY <1>1, <1>3, WaitingSound, SendCallSound, RecordAttestationSound,
     RecordTaskSound, SubmitAdjudicationSound, RecordReviewSound,
     RecordAdjudicationSound, EnqueueLinkSound, ReadProgressSound
<1>4. CASE \/ RecordAcceptedJudgment \/ EnqueueAccepted \/ ExecutionFailed
           \/ RecordJudgment \/ CompleteAdjudication \/ EnqueueFinalized
           \/ SubmitAppeal \/ AppealRefused \/ CompleteAppeal
           \/ RecordAppealed
  BY <1>1, <1>4, RecordAcceptedJudgmentSound, EnqueueAcceptedSound,
     ExecutionFailedSound, RecordJudgmentSound, CompleteAdjudicationSound,
     EnqueueFinalizedSound, SubmitAppealSound, AppealRefusedSound,
     CompleteAppealSound, RecordAppealedSound
<1> QED BY <1>1, <1>2, <1>3, <1>4 DEF Follow

\* A step of a pass that another system fails.
LEMMA StumbleSound ==
    ASSUME SystemInv, Stumble
    PROVE  SystemInv'
BY PollErrorSound, PollSuccessSound, SendCallSound, SendErrorSound,
   GenLayerErrorSound, DatabaseErrorSound
DEF Stumble, GoWrong

(***************************************************************************)
(* The start of a pass.                                                    *)
(***************************************************************************)

\* Some of the jobs that are due, in some order.
LEMMA StartSomeSound ==
    ASSUME SystemInv, StartSome
    PROVE  SystemInv'
<1>1. PICK batch \in Batches : StartPass(batch) /\ Aside
  BY DEF StartSome
<1>2. PICK n \in 1 .. MaxDue :
        \E due \in kSubset(n, OpenJobs) : batch \in SetToSeqs(due)
  BY DEF Batches
<1>0. PICK due \in kSubset(n, OpenJobs) : batch \in SetToSeqs(due)
  BY <1>2
<1>3. due \subseteq OpenJobs /\ Cardinality(due) = n
  BY <1>0 DEF kSubset
<1>4. batch \in [1 .. n -> due]
  BY <1>0, <1>3 DEF SetToSeqs
<1>5. n \in Nat \ {0}
  BY RelayQueueAssumption
<1>6. batch \in Seq(OpenJobs) \ {<<>>}
  BY <1>3, <1>4, <1>5
<1> QED BY <1>1, <1>6, StartSound

\* A set of two is finite.
LEMMA PairFinite ==
    ASSUME NEW a, NEW b
    PROVE  IsFiniteSet({a, b})
<1>1. {a, b} = {a} \cup {b}
  OBVIOUS
<1>2. IsFiniteSet({a})
  BY FS_Singleton
<1>3. IsFiniteSet({a} \cup {b})
  BY <1>2, FS_AddElement
<1> QED BY <1>1, <1>3

\* There are finitely many jobs.
LEMMA FiniteJobs == IsFiniteSet(JobKeys)
<1> DEFINE roles == {"none", "principal", "provider"}
           codes == Mandates \X (Types \X roles)
           code == [k \in JobKeys |-> <<k.mandate, <<k.type, k.role>>>>]
<1>1. IsFiniteSet(roles)
  <2>1. roles = ({"none"} \cup {"principal"}) \cup {"provider"}
    OBVIOUS
  <2> HIDE DEF roles
  <2> QED BY <2>1, FS_Singleton, FS_AddElement
<1>2. IsFiniteSet(Types)
  <2>1. IsFiniteSet({"CREATE_MANDATE", "ACCEPT_MANDATE"})
    BY PairFinite
  <2>2. IsFiniteSet({"SUBMIT_DELIVERY", "LINK_CASE"})
    BY PairFinite
  <2>3. IsFiniteSet({"RECORD_ACCEPTED", "RECORD_APPEAL"})
    BY PairFinite
  <2>4. IsFiniteSet({"RECORD_FINALIZED", "SETTLEMENT"})
    BY PairFinite
  <2>5. IsFiniteSet({"GENLAYER_ADJUDICATION", "GENLAYER_APPEAL"})
    BY PairFinite
  <2>6. Types =
          ((({"CREATE_MANDATE", "ACCEPT_MANDATE"}
               \cup {"SUBMIT_DELIVERY", "LINK_CASE"})
              \cup {"RECORD_ACCEPTED", "RECORD_APPEAL"})
             \cup {"RECORD_FINALIZED", "SETTLEMENT"})
            \cup {"GENLAYER_ADJUDICATION", "GENLAYER_APPEAL"}
    BY DEF Types, BaseTypes
  <2> QED BY <2>1, <2>2, <2>3, <2>4, <2>5, <2>6, FS_Union
<1>3. IsFiniteSet(codes)
  BY <1>1, <1>2, FS_Product, CourtRelaysAssumption
<1>4. code \in Injection(JobKeys, codes)
  <2>1. \A k \in JobKeys :
           /\ k = [mandate |-> k.mandate, type |-> k.type, role |-> k.role]
           /\ k.mandate \in Mandates /\ k.type \in Types /\ k.role \in roles
    <3> SUFFICES ASSUME NEW k \in JobKeys
                 PROVE  /\ k = [mandate |-> k.mandate, type |-> k.type,
                                role |-> k.role]
                        /\ k.mandate \in Mandates /\ k.type \in Types
                        /\ k.role \in roles
      OBVIOUS
    <3>1. k.mandate \in Mandates /\ k.type \in Types
      BY KeyFacts
    <3>2. \/ k \in [mandate : Mandates, type : Types \ AppealTypes,
                    role : {"none"}]
          \/ k \in [mandate : Mandates, type : AppealTypes,
                    role : Appellants]
      BY DEF JobKeys
    <3> QED BY <3>1, <3>2, CourtDatabaseAssumption
  <2>2. code \in [JobKeys -> codes]
    BY <2>1
  <2>3. \A j, k \in JobKeys : code[j] = code[k] => j = k
    <3>1. ASSUME NEW j \in JobKeys, NEW k \in JobKeys, code[j] = code[k]
          PROVE  j.mandate = k.mandate /\ j.type = k.type /\ j.role = k.role
      BY <3>1
    <3> QED BY <2>1, <3>1
  <2> QED BY <2>2, <2>3 DEF Injection, IsInjective
<1> QED BY <1>3, <1>4, FS_Injection

\* A batch of all the jobs that are due lists them.
LEMMA OrderLists ==
    ASSUME NEW S, IsFiniteSet(S)
    PROVE  Lists(InSomeOrder(S), S)
<1>1. InSomeOrder(S) = (CHOOSE it : ListRun(it, S))[S]
  BY Zenon DEF InSomeOrder, FoldSet, MapThenFoldSet, ListRun, ListStep, Chosen
<1>2. PICK it : ListRun(it, S)
  BY ListRunExists
<1>3. ListRun(CHOOSE run : ListRun(run, S), S)
  BY <1>2, Zenon
<1> QED BY <1>1, <1>3, ListRunLists

\* A pass over all open jobs begins with jobs that exist.
LEMMA StartAllSound ==
    ASSUME SystemInv, StartAll
    PROVE  SystemInv'
<1> DEFINE batch == InSomeOrder(OpenJobs)
<1>1. OpenJobs # {} /\ StartPass(batch) /\ Aside
  BY DEF StartAll
<1>2. IsFiniteSet(OpenJobs)
  <2>1. OpenJobs \in SUBSET JobKeys
    BY DEF OpenJobs
  <2> QED BY <2>1, FiniteJobs, FS_Subset
<1>3. batch \in Seq(OpenJobs)
  BY <1>2, OrderLists DEF Lists
<1>4. batch # <<>>
  <2>1. DOMAIN batch # {}
    BY <1>1, <1>2, OrderLists DEF Lists
  <2> HIDE DEF batch
  <2> QED BY <2>1
<1> HIDE DEF batch
<1> QED BY <1>1, <1>3, <1>4, StartSound

(***************************************************************************)
(* Crashes and handlers.                                                   *)
(***************************************************************************)
LEMMA CrashSound ==
    ASSUME SystemInv, Crash
    PROVE  SystemInv'
<1>1. /\ OwnStep /\ UNCHANGED <<jobs, settlementCounter, tasks>>
      /\ worker' = Idle
  BY DEF Crash, OwnStep, databaseVars, worldVars
<1>2. Idle.batch = <<>> /\ Idle.at = "idle"
  BY DEF Idle
<1>3. worker' \in Worker /\ WorkerInv'
  BY <1>1, <1>2, IdleTyped
  DEF WorkerInv, BatchSound, Working, LabelSound, LabelNeeds, OnAdjudication
<1> QED BY <1>1, <1>3, LocalStep

\* A handler that stops has inserted some of its jobs and not the others.
LEMMA HandlerCrashSound ==
    ASSUME SystemInv, HandlerCrash
    PROVE  SystemInv'
<1>1. /\ UNCHANGED <<baseVars, documents, jobs, tasks, genlayer>>
      /\ worker' = worker /\ settlementCounter' = settlementCounter
      /\ appealing' = appealing /\ inserting' \subseteq inserting
  BY DEF HandlerCrash, StopHandler, databaseVars, worldVars
<1>2. StoreTypes /\ WorkerInv /\ ChainInv
  BY DEF SystemInv
<1>3. Grows /\ SameCases /\ StoreInv'
  BY <1>1, QuietStep
<1>4. WorkerInv'
  BY <1>1, <1>2, <1>3, WorkerStays
<1>5. ChainInv'
  BY <1>1, <1>2, BaseStands
<1> QED BY <1>1, <1>2, <1>3, <1>4, <1>5 DEF SystemInv, StoreTypes

\* What a handler signs for, and how it begins.
LEMMA IntentTyped ==
    ASSUME SystemInv, NEW actor \in Actors
    PROVE  /\ Intent(actor) \in IntentType
           /\ Intent(actor).actor = actor
           /\ actor # NoActor
<1>1. actorNonces[actor] \in Nat /\ now \in Nat
  BY ChainTyped, CourtRelaysAssumption DEF SystemInv, ChainInv, ChainTypes
<1>2. Until \in Nat
  BY <1>1, CourtRelaysAssumption, RelayQueueAssumption DEF Until
<1> QED BY <1>1, <1>2, CourtTypesAssumption DEF Intent, IntentType

\* A handler writes the document and leaves jobs to insert.
LEMMA BeginSound ==
    ASSUME SystemInv, NEW m \in Mandates, NEW document, NEW keys,
           DocumentKeeps(m, document),
           document.genlayerTransactionId = documents[m].genlayerTransactionId,
           Begin(m, document, keys), keys \in Seq(HandlerKeys) \ {<<>>},
           appealing' \subseteq appealing,
           UNCHANGED <<baseVars, worldVars, worker>>
    PROVE  SystemInv'
<1>1. /\ StoreTypes /\ WorkerInv /\ ChainInv
      /\ UNCHANGED <<baseVars, jobs, tasks, genlayer>>
      /\ settlementCounter' = settlementCounter /\ worker' = worker
      /\ documents' = [documents EXCEPT ![m] = document]
      /\ inserting' = inserting \cup {keys}
  BY DEF SystemInv, Begin, worldVars
<1>2. Grows /\ SameCases /\ StoreInv' /\ documents' \in [Mandates -> Document]
  BY <1>1, DocumentWrite
<1>3. WorkerInv'
  BY <1>1, <1>2, WorkerStays
<1>4. ChainInv'
  BY <1>1, BaseStands
<1> QED BY <1>1, <1>2, <1>3, <1>4 DEF SystemInv, StoreTypes

\* The jobs that handlers insert, one by one.
LEMMA HandlerKeyFacts ==
    ASSUME NEW m \in Mandates
    PROVE  /\ Key(m, "CREATE_MANDATE") \in HandlerKeys
           /\ Key(m, "ACCEPT_MANDATE") \in HandlerKeys
           /\ Key(m, "SUBMIT_DELIVERY") \in HandlerKeys
           /\ Key(m, "GENLAYER_ADJUDICATION") \in HandlerKeys
           /\ \A r \in Appellants :
                 /\ AppealKey(m, "GENLAYER_APPEAL", r) \in HandlerKeys
                 /\ AppealKey(m, "RECORD_APPEAL", r) \in HandlerKeys
<1>1. /\ \A type \in SignedTypes \cup {"GENLAYER_ADJUDICATION"} :
            Key(m, type) \in JobKeys /\ Key(m, type).type = type
  BY KeyInKeys DEF SignedTypes, Types, BaseTypes, AppealTypes, Key
<1>2. \A r \in Appellants, type \in AppealTypes :
         AppealKey(m, type, r) \in JobKeys /\ AppealKey(m, type, r).type = type
  BY DEF AppealKey, JobKeys
<1> QED BY <1>1, <1>2 DEF HandlerKeys, SignedTypes, AppealTypes

\* POST of a signed mandate.
LEMMA PostMandateSound ==
    ASSUME SystemInv, UNCHANGED <<baseVars, worldVars, worker>>,
           NEW m \in Mandates, PostMandate(m)
    PROVE  SystemInv'
<1> DEFINE old == documents[m]
           intent == Intent(Principal)
           document == [old EXCEPT !.status = "RELAY_PENDING",
                                   !.intents["CREATE_MANDATE"] = intent]
<1>1. Begin(m, document, <<Key(m, "CREATE_MANDATE")>>)
      /\ appealing' = appealing
  BY DEF PostMandate
<1>2. /\ old \in Document /\ intent \in IntentType /\ MandateSound(m)
      /\ mandates[m].status \in Status
  BY IntentTyped, CourtDatabaseAssumption, ChainFacts
  DEF SystemInv, StoreTypes, StoreInv, ChainInv
<1> HIDE DEF intent, old
<1>3. /\ document.status = "RELAY_PENDING"
      /\ document.genlayerTransactionId = old.genlayerTransactionId
      /\ document.acceptedJudgmentHash = old.acceptedJudgmentHash
      /\ document.judgmentHash = old.judgmentHash
      /\ document.deliveryHash = old.deliveryHash
      /\ document.intents
           = [old.intents EXCEPT !["CREATE_MANDATE"] = intent]
  BY <1>2 DEF Document
<1>4. /\ document.intents \in [SignedTypes -> IntentType]
      /\ document.intents["SUBMIT_DELIVERY"] = old.intents["SUBMIT_DELIVERY"]
  BY <1>2, <1>3 DEF Document, SignedTypes
<1>5. document \in Document
  <2>1. "RELAY_PENDING" \in DocumentStatus
    BY DEF DocumentStatus
  <2> QED BY <1>2, <1>3, <1>4, <2>1 DEF Document
<1>6. mandates[m].status \in KnownOnBase("RELAY_PENDING")
  BY <1>2 DEF KnownOnBase
<1>7. <<Key(m, "CREATE_MANDATE")>> \in Seq(HandlerKeys) \ {<<>>}
  BY HandlerKeyFacts
<1> HIDE DEF document
<1>8. DocumentKeeps(m, document)
  BY <1>2, <1>3, <1>4, <1>5, <1>6
  DEF DocumentKeeps, MandateSound, Delivered, old
<1> QED BY <1>1, <1>3, <1>7, <1>8, BeginSound DEF old

\* POST of a signed acceptance.
LEMMA PostAcceptanceSound ==
    ASSUME SystemInv, UNCHANGED <<baseVars, worldVars, worker>>,
           NEW m \in Mandates, PostAcceptance(m)
    PROVE  SystemInv'
<1> DEFINE old == documents[m]
           intent == Intent(Provider)
           document == [old EXCEPT !.status = "ACCEPT_RELAY_PENDING",
                                   !.intents["ACCEPT_MANDATE"] = intent]
<1>1. /\ Begin(m, document, <<Key(m, "ACCEPT_MANDATE")>>)
      /\ appealing' = appealing /\ old.status = "OPEN"
  BY DEF PostAcceptance
<1>2. /\ old \in Document /\ intent \in IntentType /\ MandateSound(m)
      /\ mandates[m].status \in KnownOnBase(old.status)
  BY IntentTyped, CourtDatabaseAssumption
  DEF SystemInv, StoreTypes, StoreInv, MandateSound, AheadOfNothing
<1> HIDE DEF intent, old
<1>3. /\ document.status = "ACCEPT_RELAY_PENDING"
      /\ document.genlayerTransactionId = old.genlayerTransactionId
      /\ document.acceptedJudgmentHash = old.acceptedJudgmentHash
      /\ document.judgmentHash = old.judgmentHash
      /\ document.deliveryHash = old.deliveryHash
      /\ document.intents
           = [old.intents EXCEPT !["ACCEPT_MANDATE"] = intent]
  BY <1>2 DEF Document
<1>4. /\ document.intents \in [SignedTypes -> IntentType]
      /\ document.intents["SUBMIT_DELIVERY"] = old.intents["SUBMIT_DELIVERY"]
  BY <1>2, <1>3 DEF Document, SignedTypes
<1>5. document \in Document
  <2>1. "ACCEPT_RELAY_PENDING" \in DocumentStatus
    BY DEF DocumentStatus
  <2> QED BY <1>2, <1>3, <1>4, <2>1 DEF Document
<1>6. mandates[m].status \in KnownOnBase("ACCEPT_RELAY_PENDING")
  BY <1>1, <1>2 DEF KnownOnBase
<1>7. <<Key(m, "ACCEPT_MANDATE")>> \in Seq(HandlerKeys) \ {<<>>}
  BY HandlerKeyFacts
<1> HIDE DEF document
<1>8. DocumentKeeps(m, document)
  BY <1>2, <1>3, <1>4, <1>5, <1>6
  DEF DocumentKeeps, MandateSound, Delivered, old
<1> QED BY <1>1, <1>3, <1>7, <1>8, BeginSound DEF old

\* A delivery is requested once, so its hash is never replaced.
LEMMA PostDeliverySound ==
    ASSUME SystemInv, UNCHANGED <<baseVars, worldVars, worker>>,
           NEW m \in Mandates, NEW hash \in DeliveryHashes,
           PostDelivery(m, hash)
    PROVE  SystemInv'
<1> DEFINE old == documents[m]
           intent == Intent(Provider)
           keys == <<Key(m, "SUBMIT_DELIVERY"), Key(m, "GENLAYER_ADJUDICATION")>>
           document == [old EXCEPT !.status = "DELIVERY_RELAY_PENDING",
                                   !.deliveryHash = hash,
                                   !.intents["SUBMIT_DELIVERY"] = intent]
<1>1. /\ Begin(m, document, keys)
      /\ appealing' = appealing /\ old.status = "ACTIVE"
      /\ old.intents["SUBMIT_DELIVERY"].actor = NoActor
  BY DEF PostDelivery, NotRequested, NoIntent
<1>2. /\ old \in Document /\ intent \in IntentType /\ MandateSound(m)
      /\ mandates[m].status \in KnownOnBase(old.status)
      /\ intent.actor # NoActor
  BY IntentTyped, CourtDatabaseAssumption
  DEF SystemInv, StoreTypes, StoreInv, MandateSound, AheadOfNothing
<1> HIDE DEF intent, old
<1>3. /\ document.status = "DELIVERY_RELAY_PENDING"
      /\ document.genlayerTransactionId = old.genlayerTransactionId
      /\ document.acceptedJudgmentHash = old.acceptedJudgmentHash
      /\ document.judgmentHash = old.judgmentHash
      /\ document.deliveryHash = hash
      /\ document.intents
           = [old.intents EXCEPT !["SUBMIT_DELIVERY"] = intent]
  BY <1>2 DEF Document
<1>4. /\ document.intents \in [SignedTypes -> IntentType]
      /\ document.intents["SUBMIT_DELIVERY"] = intent
  BY <1>2, <1>3 DEF Document, SignedTypes
<1>5. document \in Document
  <2>1. "DELIVERY_RELAY_PENDING" \in DocumentStatus
    BY DEF DocumentStatus
  <2> QED BY <1>2, <1>3, <1>4, <2>1 DEF Document
<1>6. mandates[m].status \in KnownOnBase("DELIVERY_RELAY_PENDING")
  BY <1>1, <1>2 DEF KnownOnBase
<1>7. keys \in Seq(HandlerKeys) \ {<<>>}
  BY HandlerKeyFacts
<1> HIDE DEF document, keys
<1>8. DocumentKeeps(m, document)
  BY <1>1, <1>2, <1>3, <1>4, <1>5, <1>6 DEF DocumentKeeps, old
<1> QED BY <1>1, <1>3, <1>7, <1>8, BeginSound DEF old

\* An appeal is taken once the case is with GenLayer ...
LEMMA CheckAppealSound ==
    ASSUME SystemInv, UNCHANGED <<baseVars, worldVars, worker>>,
           NEW a \in AppealRequests, CheckAppeal(a)
    PROVE  SystemInv'
<1>1. /\ UNCHANGED <<baseVars, documents, jobs, tasks, genlayer>>
      /\ worker' = worker /\ settlementCounter' = settlementCounter
      /\ appealing' = appealing \cup {a} /\ inserting' = inserting
      /\ documents[a.mandate].genlayerTransactionId # NoHash
  BY DEF CheckAppeal, databaseVars, worldVars
<1>2. StoreTypes /\ StoreInv /\ WorkerInv /\ ChainInv
  BY DEF SystemInv
<1>3. Grows /\ SameCases
  BY <1>1, BaseStands DEF Grows, SameCases, Exists
<1>4. \A m \in Mandates : MandateSound(m)'
  BY <1>1, <1>2, BaseStands
  DEF StoreInv, MandateSound, Delivered, Judged, FinalVerdict,
      AheadOfNothing, KnownOnBase
<1>5. \A b \in appealing' : AppealSound(b)'
  BY <1>1, <1>2 DEF StoreInv, AppealSound
<1>6. StoreInv'
  BY <1>1, <1>2, <1>3, <1>4, <1>5, QueueStays DEF StoreInv
<1>7. WorkerInv' /\ ChainInv'
  BY <1>1, <1>2, <1>3, WorkerStays, BaseStands
<1> QED BY <1>1, <1>2, <1>6, <1>7 DEF SystemInv, StoreTypes

\* ... and written later, when the delivery is still on Base.
LEMMA PostAppealSound ==
    ASSUME SystemInv, UNCHANGED <<baseVars, worldVars, worker>>,
           NEW a \in AppealRequests, PostAppeal(a)
    PROVE  SystemInv'
<1> DEFINE m == a.mandate
           old == documents[m]
           appeals == old.appeals \cup {a.role}
           keys == <<AppealKey(m, "GENLAYER_APPEAL", a.role),
                     AppealKey(m, "RECORD_APPEAL", a.role)>>
           document == [old EXCEPT !.status = "APPEAL_PENDING",
                                   !.appeals = appeals]
<1>1. m \in Mandates /\ a.role \in Appellants /\ a \in appealing
  BY DEF AppealRequests, PostAppeal
<1>2. Begin(m, document, keys) /\ appealing' \subseteq appealing
  BY DEF PostAppeal
<1>3. /\ old \in Document /\ MandateSound(m) /\ AppealSound(a)
      /\ appeals \subseteq Appellants
  BY <1>1 DEF SystemInv, StoreTypes, StoreInv, Document
<1>4. genlayer[m].status # "NONE"
  BY <1>3 DEF AppealSound, MandateSound, Judged
<1>5. /\ mandates[m].status \in KnownOnBase("APPEAL_PENDING")
      /\ "APPEAL_PENDING" \in DocumentStatus
  BY <1>1, <1>4, LateKnown DEF LateStatus
<1>6. keys \in Seq(HandlerKeys) \ {<<>>}
  BY <1>1, HandlerKeyFacts
<1> HIDE DEF m, old, appeals, keys
<1>7. /\ document \in Document
      /\ document.status = "APPEAL_PENDING"
      /\ document.genlayerTransactionId = old.genlayerTransactionId
      /\ document.acceptedJudgmentHash = old.acceptedJudgmentHash
      /\ document.judgmentHash = old.judgmentHash
      /\ document.deliveryHash = old.deliveryHash
      /\ document.intents = old.intents
  BY <1>3, <1>5 DEF Document
<1> HIDE DEF document
<1>8. DocumentKeeps(m, document)
  BY <1>3, <1>5, <1>7 DEF DocumentKeeps, MandateSound, Delivered, old
<1> QED BY <1>1, <1>2, <1>6, <1>7, <1>8, BeginSound DEF old

\* A handler inserts a job: nothing is needed for it but the document.
LEMMA InsertJobSound ==
    ASSUME SystemInv, UNCHANGED <<baseVars, worldVars, worker>>,
           NEW keys \in inserting, InsertJob(keys)
    PROVE  SystemInv'
<1> DEFINE k == Head(keys)
           status == IF k.type = "GENLAYER_ADJUDICATION"
                     THEN "WAITING_FOR_BASE_SUBMISSION" ELSE "PENDING"
           v == NewJob(status)
<1>1. /\ StoreTypes /\ StoreInv /\ WorkerInv /\ ChainInv
      /\ UNCHANGED <<baseVars, documents, tasks, genlayer>>
      /\ settlementCounter' = settlementCounter /\ worker' = worker
      /\ appealing' = appealing
      /\ SetJob(k, v)
      /\ inserting' = (inserting \ {keys}) \cup
                         (IF Len(keys) > 1 THEN {Tail(keys)} ELSE {})
  BY DEF SystemInv, InsertJob, Insert, worldVars
<1>2. keys \in Seq(HandlerKeys) /\ keys # <<>>
  BY <1>1 DEF StoreTypes
<1>3. k \in HandlerKeys
  BY <1>2
<1>4. inserting' \subseteq Seq(HandlerKeys) \ {<<>>}
  <2>1. Tail(keys) \in Seq(HandlerKeys) /\ Len(Tail(keys)) = Len(keys) - 1
        /\ Len(keys) \in Nat
    BY <1>2
  <2>2. Len(keys) > 1 => Len(Tail(keys)) # 0
    BY <2>1
  <2>3. Len(keys) > 1 => Tail(keys) # <<>>
    BY <2>2
  <2> QED BY <1>1, <2>1, <2>3 DEF StoreTypes
<1>5. k \in JobKeys /\ Prepared(k)
  BY <1>3 DEF HandlerKeys, Prepared, SignedTypes, AppealTypes
<1> HIDE DEF k
<1>6. status \in {"PENDING", "WAITING_FOR_BASE_SUBMISSION"}
  OBVIOUS
<1> HIDE DEF status
<1>7. v \in Job /\ v.status = status /\ v.task = 0
  BY <1>6 DEF NewJob, NoJob, Job, JobStatus, OpenStatus
<1> HIDE DEF v
<1>8. TasksGrow(k)
  BY <1>1, TasksSame
<1>9. 0 <= Len(tasks'[k])
  BY <1>5, <1>8 DEF TasksGrow
<1>10. Grows /\ SameCases /\ StoreInv' /\ jobs' \in [JobKeys -> Job]
  BY <1>1, <1>5, <1>6, <1>7, <1>8, <1>9, QueueWrite
<1>11. WorkerInv' /\ ChainInv'
  BY <1>1, <1>10, WorkerStays, BaseStands
<1> QED BY <1>1, <1>4, <1>10, <1>11 DEF SystemInv, StoreTypes

\* Every step of a handler keeps the invariant.
LEMMA RequestSound ==
    ASSUME SystemInv, Request
    PROVE  SystemInv'
<1>1. Handler /\ UNCHANGED <<baseVars, worldVars, worker>>
  BY DEF Request
<1>2. CASE \E m \in Mandates :
             \/ PostMandate(m)
             \/ PostAcceptance(m)
             \/ \E hash \in DeliveryHashes : PostDelivery(m, hash)
  BY <1>1, <1>2, PostMandateSound, PostAcceptanceSound, PostDeliverySound
<1>3. CASE \E a \in AppealRequests : CheckAppeal(a) \/ PostAppeal(a)
  BY <1>1, <1>3, CheckAppealSound, PostAppealSound
<1>4. CASE \E keys \in inserting : InsertJob(keys)
  BY <1>1, <1>4, InsertJobSound
<1> QED BY <1>1, <1>2, <1>3, <1>4 DEF Handler

(***************************************************************************)
(* The relays, GenLayer and the chain.                                     *)
(***************************************************************************)

\* A transaction on Base leaves everything off the chain sound, if the
\* delivery, the transaction and the final verdict it writes are the ones the
\* document and GenLayer hold.
LEMMA ChainMoves ==
    ASSUME SystemInv, [Court!Next]_(Court!vars),
           UNCHANGED <<databaseVars, genlayer>>,
           \A m \in Mandates :
              mandates'[m].deliveryHash # mandates[m].deliveryHash =>
                /\ mandates'[m].deliveryHash = documents[m].deliveryHash
                /\ documents[m].intents["SUBMIT_DELIVERY"].actor # NoActor,
           \A m \in Mandates :
              cases'[m].genlayerTransactionId # cases[m].genlayerTransactionId
                => cases'[m].genlayerTransactionId
                     = documents[m].genlayerTransactionId,
           \A m \in Mandates :
              cases'[m].finalized /\ ~cases[m].finalized =>
                FinalVerdict(m, cases'[m].finalizedVerdictHash)
    PROVE  /\ ChainInv' /\ Grows /\ SameCases
           /\ \A m \in Mandates : MandateSound(m)'
<1>1. /\ StoreTypes /\ StoreInv /\ ChainInv
      /\ UNCHANGED <<documents, jobs, settlementCounter, genlayer>>
  BY DEF SystemInv, databaseVars
<1>2. ChainInv' /\ \A m \in Mandates : Court!MarksKept(m)
  BY <1>1, ChainInvStep
<1>3. ChainTypes /\ ChainTypes'
  <2>1. ChainTypes
    BY <1>1, ChainTyped DEF ChainInv
  <2>2. Court!CourtInv'
    BY <1>2 DEF ChainInv
  <2>3. (Court!CourtInv => ChainTypes)'
    BY ChainTyped, PTL
  <2> QED BY <2>1, <2>2, <2>3
<1>4. ASSUME NEW k \in JobKeys, Effect(k) PROVE Effect(k)'
  <2>1. k.mandate \in Mandates /\ Court!MarksKept(k.mandate)
    BY <1>2, KeyFacts
  <2>2. /\ deposits[k.mandate].funded => deposits'[k.mandate].funded
        /\ deposits[k.mandate].provider # NoActor =>
              deposits'[k.mandate].provider # NoActor
        /\ mandates[k.mandate].deliveryHash # NoHash =>
              mandates'[k.mandate].deliveryHash # NoHash
        /\ settled[k.mandate] => settled'[k.mandate]
    BY <2>1 DEF Court!MarksKept, Court!MandateMarks, Court!DepositMarks
  <2>3. /\ Linked(k.mandate) => Linked(k.mandate)'
        /\ cases[k.mandate].acceptedVerdictHash # NoHash =>
              cases'[k.mandate].acceptedVerdictHash # NoHash
        /\ cases[k.mandate].principalAppealHash # NoHash =>
              cases'[k.mandate].principalAppealHash # NoHash
        /\ cases[k.mandate].providerAppealHash # NoHash =>
              cases'[k.mandate].providerAppealHash # NoHash
        /\ cases[k.mandate].finalized => cases'[k.mandate].finalized
    BY <2>1 DEF Court!MarksKept, Court!CaseMarks, Linked
  <2> QED BY <1>4, <2>2, <2>3 DEF Effect
<1>5. Grows /\ SameCases
  <2>1. \A m \in Mandates : cases[m].finalized => cases'[m].finalized
    BY <1>2 DEF Court!MarksKept, Court!CaseMarks
  <2> QED BY <1>1, <1>4, <2>1 DEF Grows, SameCases, Exists
<1>6. ASSUME NEW m \in Mandates PROVE MandateSound(m)'
  <2>1. MandateSound(m) /\ Court!MarksKept(m)
    BY <1>1, <1>2 DEF StoreInv
  <2>2. Delivered(m)'
    <3>1. mandates[m].deliveryHash # NoHash =>
            mandates'[m].deliveryHash = mandates[m].deliveryHash
      BY <2>1 DEF Court!MarksKept, Court!MandateMarks
    <3> QED BY <1>1, <2>1, <3>1 DEF MandateSound, Delivered
  <2>3. Judged(m)'
    <3>1. cases[m].finalized => cases'[m] = cases[m]
      BY <2>1 DEF Court!MarksKept, Court!CaseMarks
    <3> QED BY <1>1, <2>1, <3>1 DEF MandateSound, Judged, FinalVerdict
  <2>4. AheadOfNothing(m)'
    <3>1. /\ mandates[m].status \in KnownOnBase(documents[m].status)
          /\ mandates[m].status \in Status /\ mandates'[m].status \in Status
      BY <1>3, <2>1 DEF MandateSound, AheadOfNothing, ChainTypes, Mandate
    <3>2. Court!MandateMarks(mandates[m], mandates'[m])
      BY <2>1 DEF Court!MarksKept
    <3>3. mandates'[m].status \in KnownOnBase(documents[m].status)
      BY <3>1, <3>2 DEF Court!MandateMarks, KnownOnBase
    <3> QED BY <1>1, <3>3 DEF AheadOfNothing, KnownOnBase
  <2> QED BY <2>2, <2>3, <2>4 DEF MandateSound
<1> QED BY <1>2, <1>5, <1>6

\* The end of a task leaves the other tasks and its message alone.
LEMMA EndTaskFacts ==
    ASSUME StoreTypes, NEW k \in JobKeys, NEW i \in DOMAIN tasks[k],
           NEW state \in TaskState, EndTask(k, i, state)
    PROVE  /\ tasks' \in [JobKeys -> Seq(Task)]
           /\ \A n \in JobKeys :
                 /\ Len(tasks'[n]) = Len(tasks[n])
                 /\ DOMAIN tasks'[n] = DOMAIN tasks[n]
                 /\ tasks'[n] # <<>> <=> tasks[n] # <<>>
                 /\ \A j \in DOMAIN tasks[n] :
                       /\ tasks'[n][j].message = tasks[n][j].message
                       /\ tasks'[n][j].state =
                            IF n = k /\ j = i THEN state ELSE tasks[n][j].state
<1> DEFINE task == [tasks[k][i] EXCEPT !.state = state]
           list == [tasks[k] EXCEPT ![i] = task]
<1>1. tasks \in [JobKeys -> Seq(Task)] /\ tasks[k] \in Seq(Task)
      /\ tasks[k][i] \in Task
  BY DEF StoreTypes
<1>2. /\ task \in Task /\ task.state = state
      /\ task.message = tasks[k][i].message
  BY <1>1 DEF Task
<1>3. tasks' = [tasks EXCEPT ![k] = list]
  BY <1>1 DEF EndTask
<1> HIDE DEF task
<1>4. /\ list \in Seq(Task) /\ Len(list) = Len(tasks[k])
      /\ DOMAIN list = DOMAIN tasks[k]
      /\ list[i] = task
      /\ \A j \in DOMAIN tasks[k] : j # i => list[j] = tasks[k][j]
  BY <1>1, <1>2
<1> HIDE DEF list
<1>5. /\ tasks' \in [JobKeys -> Seq(Task)]
      /\ tasks'[k] = list
      /\ \A n \in JobKeys : n # k => tasks'[n] = tasks[n]
  BY <1>1, <1>3, <1>4
<1>6. ASSUME NEW n \in JobKeys
      PROVE  /\ Len(tasks'[n]) = Len(tasks[n])
             /\ DOMAIN tasks'[n] = DOMAIN tasks[n]
             /\ \A j \in DOMAIN tasks[n] :
                   /\ tasks'[n][j].message = tasks[n][j].message
                   /\ tasks'[n][j].state =
                        IF n = k /\ j = i THEN state ELSE tasks[n][j].state
  BY <1>2, <1>4, <1>5
<1>7. ASSUME NEW n \in JobKeys PROVE tasks'[n] # <<>> <=> tasks[n] # <<>>
  <2>1. /\ tasks'[n] \in Seq(Task) /\ tasks[n] \in Seq(Task)
        /\ Len(tasks'[n]) = Len(tasks[n])
    BY <1>1, <1>5, <1>6
  <2> QED BY <2>1
<1> QED BY <1>5, <1>6, <1>7

\* A task ends, and a successful one with the effect of its call.
LEMMA EndTaskSound ==
    ASSUME SystemInv, ChainInv', Grows, SameCases,
           \A m \in Mandates : MandateSound(m)',
           UNCHANGED <<databaseVars, apiVars, worker>>,
           NEW k \in JobKeys, NEW i \in DOMAIN tasks[k],
           NEW state \in TaskState, EndTask(k, i, state),
           state = "success" => Effect(k)'
    PROVE  SystemInv'
<1>1. /\ StoreTypes /\ StoreInv /\ WorkerInv
      /\ UNCHANGED <<documents, jobs, settlementCounter, genlayer, worker>>
      /\ appealing' = appealing /\ inserting' = inserting
  BY DEF SystemInv, databaseVars, apiVars, EndTask
<1>2. /\ tasks' \in [JobKeys -> Seq(Task)]
      /\ \A n \in JobKeys :
            /\ Len(tasks'[n]) = Len(tasks[n])
            /\ DOMAIN tasks'[n] = DOMAIN tasks[n]
            /\ tasks'[n] # <<>> <=> tasks[n] # <<>>
            /\ \A j \in DOMAIN tasks[n] :
                  /\ tasks'[n][j].message = tasks[n][j].message
                  /\ tasks'[n][j].state =
                       IF n = k /\ j = i THEN state ELSE tasks[n][j].state
  BY <1>1, EndTaskFacts
<1>3. ASSUME NEW n \in JobKeys PROVE JobSound(n)' /\ TasksSound(n)'
  <2>1. JobSound(n) /\ TasksSound(n) /\ n.mandate \in Mandates
    BY <1>1, KeyFacts DEF StoreInv
  <2>2. ASSUME NEW j \in DOMAIN tasks'[n] PROVE TaskSound(n, tasks[n][j])'
    <3>1. /\ j \in DOMAIN tasks[n] /\ TaskSound(n, tasks[n][j])
          /\ tasks'[n][j].message = tasks[n][j].message
          /\ tasks'[n][j].state =
               IF n = k /\ j = i THEN state ELSE tasks[n][j].state
      BY <1>2, <2>1 DEF TasksSound
    <3>2. MessageSound(n, tasks[n][j].message)'
      BY <1>1, <2>1, <3>1 DEF TaskSound, MessageSound, FinalVerdict
    <3>3. tasks'[n][j].state = "success" => Effect(n)'
      BY <3>1 DEF TaskSound, Grows
    <3> QED BY <3>2, <3>3 DEF TaskSound
  <2>3. JobSound(n)'
    BY <1>1, <1>2, <2>1, PreparedStays DEF JobSound, Exists, Grows
  <2> QED BY <2>2, <2>3 DEF TasksSound
<1>4. StoreInv'
  BY <1>1, <1>3, AppealsStay DEF StoreInv
<1>5. WorkerInv'
  BY <1>1, WorkerStays
<1> QED BY <1>1, <1>2, <1>4, <1>5 DEF SystemInv, StoreTypes

\* A task lands.
LEMMA ExecuteTaskSound ==
    ASSUME SystemInv, UNCHANGED <<databaseVars, apiVars, worker>>,
           NEW k \in JobKeys, NEW i \in DOMAIN tasks[k], ExecuteTask(k, i)
    PROVE  SystemInv' /\ Court!Next
<1> DEFINE message == tasks[k][i].message
<1>1. /\ Call(k, message) /\ EndTask(k, i, "success")
      /\ UNCHANGED <<databaseVars, genlayer>>
  BY DEF ExecuteTask, EndTask
<1>2. /\ StoreTypes /\ StoreInv /\ ChainInv
      /\ JobSound(k) /\ TaskSound(k, tasks[k][i])
      /\ tasks[k][i] \in Task
  BY DEF SystemInv, StoreTypes, StoreInv, TasksSound
<1>3. message \in TaskMessage /\ MessageSound(k, message) /\ Exists(k)
  <2>1. tasks[k] # <<>>
    BY <1>2 DEF StoreTypes
  <2> QED BY <1>2, <2>1 DEF Task, TaskSound, JobSound
<1> HIDE DEF message
<1>4. CallEffect(k, message)
  BY <1>1, <1>2, <1>3, CallLands
<1>5. ASSUME NEW m \in Mandates, cases'[m].finalized, ~cases[m].finalized
      PROVE  FinalVerdict(m, cases'[m].finalizedVerdictHash)
  <2>1. /\ k = Key(m, "RECORD_FINALIZED")
        /\ cases'[m].finalizedVerdictHash = message.verdict
    BY <1>4, <1>5 DEF CallEffect
  <2>2. k.type = "RECORD_FINALIZED" /\ k.mandate = m
    BY <2>1 DEF Key
  <2> QED BY <1>3, <2>1, <2>2 DEF MessageSound
<1>6. /\ ChainInv' /\ Grows /\ SameCases
      /\ \A m \in Mandates : MandateSound(m)'
  BY <1>1, <1>4, <1>5, ChainMoves DEF CallEffect
<1>7. Effect(k)' /\ "success" \in TaskState
  BY <1>4 DEF CallEffect, TaskState
<1>8. SystemInv'
  BY <1>1, <1>6, <1>7, EndTaskSound
<1> QED BY <1>4, <1>8 DEF CallEffect

\* The chain stands still.
LEMMA StandingChain ==
    ASSUME SystemInv, UNCHANGED <<baseVars, databaseVars, genlayer>>
    PROVE  /\ ChainInv' /\ Grows /\ SameCases
           /\ \A m \in Mandates : MandateSound(m)'
<1>1. [Court!Next]_(Court!vars) /\ mandates' = mandates /\ cases' = cases
  BY BaseStands
<1> QED BY <1>1, ChainMoves

\* A task ends without its call.
LEMMA DropTaskSound ==
    ASSUME SystemInv, UNCHANGED <<databaseVars, apiVars, worker>>,
           NEW k \in JobKeys, NEW i \in DOMAIN tasks[k],
           RevertTask(k, i) \/ CancelTask(k, i)
    PROVE  SystemInv' /\ UNCHANGED baseVars
<1>1. PICK state \in {"reverted", "cancelled"} :
        EndTask(k, i, state) /\ UNCHANGED baseVars
  BY DEF RevertTask, CancelTask
<1>2. UNCHANGED <<databaseVars, genlayer>>
  BY <1>1 DEF EndTask
<1>3. /\ ChainInv' /\ Grows /\ SameCases
      /\ \A m \in Mandates : MandateSound(m)'
  BY <1>1, <1>2, StandingChain
<1>4. state \in TaskState /\ state # "success"
  BY DEF TaskState
<1> QED BY <1>1, <1>3, <1>4, EndTaskSound

\* A task that lands executes a call of the contracts or reverts; either way
\* the contracts take a step of their own specification.
LEMMA LandSound ==
    ASSUME SystemInv, Land
    PROVE  SystemInv' /\ [Court!Next]_(Court!vars)
<1>1. PICK k \in JobKeys : \E i \in DOMAIN tasks[k] :
        ExecuteTask(k, i) \/ RevertTask(k, i)
  BY DEF Land, SentTasks
<1>2. PICK i \in DOMAIN tasks[k] : ExecuteTask(k, i) \/ RevertTask(k, i)
  BY <1>1
<1>3. UNCHANGED <<databaseVars, apiVars, worker>>
  BY DEF Land
<1>4. CASE ExecuteTask(k, i)
  BY <1>3, <1>4, ExecuteTaskSound
<1>5. CASE RevertTask(k, i)
  BY <1>3, <1>5, DropTaskSound, BaseStands
<1> QED BY <1>2, <1>4, <1>5

\* A relay that cancels a task leaves Base alone.
LEMMA CancelSound ==
    ASSUME SystemInv, Cancel
    PROVE  SystemInv' /\ UNCHANGED baseVars
<1>1. PICK k \in JobKeys : \E i \in DOMAIN tasks[k] : CancelTask(k, i)
  BY DEF Cancel, SentTasks
<1>2. UNCHANGED <<databaseVars, apiVars, worker>>
  BY DEF Cancel
<1> QED BY <1>1, <1>2, DropTaskSound

\* GenLayer moves its case on: never back from final.
LEMMA JudgeSound ==
    ASSUME SystemInv, UNCHANGED <<databaseVars, apiVars, worker>>,
           NEW m \in Mandates, NEW v \in Judgment,
           Judge(m, v) \/ FinalizeJudgment(m)
    PROVE  SystemInv' /\ UNCHANGED baseVars
<1>1. /\ StoreTypes /\ StoreInv /\ WorkerInv
      /\ genlayer \in [Mandates -> CourtCase]
      /\ UNCHANGED <<baseVars, apiVars, databaseVars, tasks>>
      /\ worker' = worker
  BY DEF SystemInv, StoreTypes, Judge, FinalizeJudgment
<1>2. /\ genlayer[m].status \in {"PENDING", "ACCEPTED"}
      /\ genlayer' \in [Mandates -> CourtCase]
      /\ genlayer'[m].status \in {"ACCEPTED", "FINALIZED"}
      /\ genlayer'[m].transactions = genlayer[m].transactions
      /\ \A n \in Mandates : n # m => genlayer'[n] = genlayer[n]
  BY <1>1 DEF Judge, FinalizeJudgment, CourtCase
<1>3. \A n \in Mandates : Delivered(n) /\ Judged(n)
  BY <1>1 DEF StoreInv, MandateSound
<1>4. CourtMoves
  BY <1>2, <1>3 DEF CourtMoves, Delivered, Judged
<1>5. Grows /\ SameCases => worker' \in Worker /\ WorkerInv'
  BY <1>1, WorkerStays DEF StoreTypes
<1> QED BY <1>1, <1>4, <1>5, CourtStep

\* GenLayer's court judges and finalizes within what is known of it.
LEMMA CourtOfGenLayerSound ==
    ASSUME SystemInv, CourtOfGenLayer \/ FailedExecution
    PROVE  SystemInv' /\ UNCHANGED baseVars
<1>1. PICK m \in Mandates : \E v \in Judgment :
         Judge(m, v) \/ FinalizeJudgment(m)
  BY DEF CourtOfGenLayer, FailedExecution, Judgment
<1>2. UNCHANGED <<databaseVars, apiVars, worker>>
  BY DEF CourtOfGenLayer, FailedExecution
<1> QED BY <1>1, <1>2, JudgeSound

\* What happens on Base without the relays.
LEMMA OnBaseIsCourt ==
    ASSUME ChainInv, OnBase
    PROVE  /\ Court!Next /\ cases' = cases
           /\ \A m \in Mandates :
                 mandates'[m].deliveryHash = mandates[m].deliveryHash
<1>0. mandates \in [Mandates -> Mandate]
  BY ChainTyped DEF ChainInv, ChainTypes
<1>1. ASSUME NEW link \in Base!Links, Base!WireAdapter(link)
      PROVE  /\ Court!Next /\ cases' = cases /\ mandates' = mandates
  BY <1>1
  DEF Base!WireAdapter, Base!SetLink, Base!Links, Base!escrowVars,
      Base!registryVars,
      Court!Next, Court!WireAdapter, Court!SetLink, Court!Links,
      Court!escrowVars, Court!registryVars
<1>2. ASSUME Base!WireEscrow
      PROVE  /\ Court!Next /\ cases' = cases /\ mandates' = mandates
  BY <1>2
  DEF Base!WireEscrow, Base!SetRegistry, Base!Links, Base!adapterVars,
      Base!registryVars,
      Court!Next, Court!WireEscrow, Court!SetRegistry, Court!Links,
      Court!adapterVars, Court!registryVars
<1>3. ASSUME NEW m \in Mandates, Base!MarkExpired(m)
      PROVE  /\ Court!Next /\ cases' = cases
             /\ \A n \in Mandates :
                   mandates'[n].deliveryHash = mandates[n].deliveryHash
  <2>1. Court!MarkExpired(m)
    BY <1>3
    DEF Base!MarkExpired, Base!RegisterExpiry, Base!Refund, Base!Expired,
        Base!PayOut, Base!Holders, Base!Refundable, Base!adapterVars,
        Court!MarkExpired, Court!RegisterExpiry, Court!Refund, Court!Expired,
        Court!PayOut, Court!Holders, Court!Refundable, Court!adapterVars
  <2>2. Court!Next
    BY <2>1 DEF Court!Next, Court!Transaction
  <2>3. cases' = cases
    BY <2>1 DEF Court!MarkExpired
  <2> QED BY <1>0, <2>1, <2>2, <2>3
          DEF Court!MarkExpired, Court!RegisterExpiry, Mandate
<1>4. ASSUME Base!Tick
      PROVE  /\ Court!Next /\ cases' = cases /\ mandates' = mandates
  BY <1>4
  DEF Base!Tick, Base!escrowVars, Base!registryVars, Base!adapterVars,
      Court!Next, Court!Tick, Court!escrowVars, Court!registryVars,
      Court!adapterVars
<1>5. Links = Base!Links
  BY DEF Links, Base!Links
<1> QED BY <1>1, <1>2, <1>3, <1>4, <1>5 DEF OnBase

\* Time, deployment and expiry are steps of the contracts.
LEMMA OnBaseSound ==
    ASSUME SystemInv, OnBase
    PROVE  SystemInv' /\ Court!Next
<1>1. /\ StoreTypes /\ StoreInv /\ WorkerInv /\ ChainInv
      /\ UNCHANGED <<documents, jobs, settlementCounter, tasks, genlayer>>
      /\ UNCHANGED <<databaseVars, genlayer>>
      /\ appealing' = appealing /\ inserting' = inserting
      /\ worker' = worker
  BY DEF SystemInv, OnBase, queueVars, databaseVars, apiVars, worldVars
<1>2. /\ Court!Next /\ cases' = cases
      /\ \A m \in Mandates :
            mandates'[m].deliveryHash = mandates[m].deliveryHash
  BY <1>1, OnBaseIsCourt
<1>3. /\ ChainInv' /\ Grows /\ SameCases
      /\ \A m \in Mandates : MandateSound(m)'
  BY <1>1, <1>2, ChainMoves
<1>4. StoreInv'
  BY <1>1, <1>3, QueueStays, AppealsStay DEF StoreInv
<1>5. WorkerInv'
  BY <1>1, <1>3, WorkerStays
<1> QED BY <1>1, <1>2, <1>3, <1>4, <1>5 DEF SystemInv, StoreTypes

(***************************************************************************)
(* The theorems.                                                           *)
(***************************************************************************)

\* Every step of the processor's passes is off the chain.
LEMMA OffChain ==
    ASSUME Next, ~Land, ~OnBase
    PROVE  UNCHANGED baseVars
<1>1. Aside => UNCHANGED baseVars
  BY DEF Aside
<1>2. Cancel => UNCHANGED baseVars
  BY DEF Cancel, CancelTask
<1>3. CourtOfGenLayer \/ FailedExecution => UNCHANGED baseVars
  BY DEF CourtOfGenLayer, FailedExecution, Judge, FinalizeJudgment
<1>4. Crash \/ HandlerCrash \/ Request => UNCHANGED baseVars
  BY DEF Crash, HandlerCrash, Request
<1> QED BY <1>1, <1>2, <1>3, <1>4
        DEF Next, Work, StartSome, StartAll, Stumble

\* The initial states of the contracts are the same by either name.
LEMMA InitIsCourt == Init => Court!Init
BY DEF Init, Base!Init, Base!EscrowInit, Base!RegistryInit,
       Base!DisputeInit, Base!AdapterInit, Base!NoDeposit, Base!NoPayout,
       Base!NoMandate, Base!NoCase,
       Court!Init, Court!EscrowInit, Court!RegistryInit, Court!DisputeInit,
       Court!AdapterInit, Court!NoDeposit, Court!NoPayout, Court!NoMandate,
       Court!NoCase

\* The initial states.
LEMMA InitSound == Init => SystemInv
<1> SUFFICES ASSUME Init PROVE SystemInv
  OBVIOUS
<1>1. Court!Init
  BY InitIsCourt
<1>2. ChainInv
  <2>1. Court!TypeOK
    BY <1>1, Court!InitTypes, CourtAssumptions
  <2>2. Court!CourtInv
    BY <1>1, <2>1, Court!BooksInit, Court!BooksAreInv, CourtAssumptions
  <2>3. Court!ProvidersFunded
    BY <1>1
    DEF Court!Init, Court!EscrowInit, Court!NoDeposit, Court!ProvidersFunded
  <2> QED BY <2>2, <2>3 DEF ChainInv
<1>3. /\ documents = [m \in Mandates |-> NoDocument]
      /\ jobs = [k \in JobKeys |-> NoJob]
      /\ settlementCounter = 0
      /\ inserting = {} /\ appealing = {}
      /\ tasks = [k \in JobKeys |-> <<>>]
      /\ genlayer = [m \in Mandates |-> NoCourtCase]
      /\ worker = Idle
  BY DEF Init, DatabaseInit, ApiInit, WorldInit
<1>4. StoreTypes
  <2>1. NoJob \in Job
    BY DEF NoJob, Job, JobStatus
  <2>2. NoCourtCase \in CourtCase
    BY DEF NoCourtCase, CourtCase, Judgment
  <2>3. <<>> \in Seq(Task)
    OBVIOUS
  <2> QED BY <1>3, <2>1, <2>2, <2>3, IdleTyped DEF StoreTypes
<1>5. ASSUME NEW m \in Mandates PROVE MandateSound(m)
  <2>1. /\ mandates[m].deliveryHash = NoHash /\ mandates[m].status = "None"
        /\ cases[m].genlayerTransactionId = NoHash /\ ~cases[m].finalized
    BY <1>1 DEF Court!Init, Court!RegistryInit, Court!DisputeInit,
                Court!NoMandate, Court!NoCase
  <2>2. /\ documents[m].intents["SUBMIT_DELIVERY"].actor = NoActor
        /\ documents[m].genlayerTransactionId = NoHash
        /\ documents[m].judgmentHash = NoHash
        /\ documents[m].status = "NONE"
    BY <1>3 DEF NoDocument, NoIntent, SignedTypes
  <2>3. genlayer[m].status = "NONE" /\ genlayer[m].transactions = {}
    BY <1>3 DEF NoCourtCase
  <2> QED BY <2>1, <2>2, <2>3
          DEF MandateSound, Delivered, Judged, AheadOfNothing, KnownOnBase,
              Status
<1>6. ASSUME NEW k \in JobKeys PROVE JobSound(k) /\ TasksSound(k)
  <2>1. jobs[k].status = "ABSENT" /\ jobs[k].task = 0 /\ tasks[k] = <<>>
    BY <1>3 DEF NoJob
  <2>2. Len(tasks[k]) = 0 /\ DOMAIN tasks[k] = {}
    BY <2>1
  <2> QED BY <2>1, <2>2 DEF JobSound, TasksSound, Exists
<1>7. StoreInv
  BY <1>3, <1>5, <1>6 DEF StoreInv
<1>8. WorkerInv
  <2>1. worker.batch = <<>> /\ worker.at = "idle"
    BY <1>3 DEF Idle
  <2> QED BY <2>1 DEF WorkerInv, BatchSound, Working, LabelSound, LabelNeeds,
                      OnAdjudication
<1> QED BY <1>2, <1>4, <1>7, <1>8 DEF SystemInv

\* Every step keeps the invariant, and is a step of the contracts or leaves
\* them alone.
LEMMA NextSound ==
    ASSUME SystemInv, [Next]_vars
    PROVE  SystemInv' /\ [Court!Next]_(Court!vars)
<1>1. CASE Land
  BY <1>1, LandSound
<1>2. CASE OnBase
  BY <1>2, OnBaseSound
<1>3. CASE Next /\ ~Land /\ ~OnBase
  <2>1. [Court!Next]_(Court!vars)
    BY <1>3, OffChain, BaseStands
  <2>2. SystemInv'
    BY <1>3, WorkSound, StartSomeSound, StartAllSound, StumbleSound,
       CrashSound, RequestSound, HandlerCrashSound, CancelSound,
       CourtOfGenLayerSound
    DEF Next
  <2> QED BY <2>1, <2>2
<1>4. CASE UNCHANGED vars
  <2>1. /\ OwnStep /\ UNCHANGED <<jobs, settlementCounter, tasks>>
        /\ worker' = worker /\ UNCHANGED baseVars
    BY <1>4 DEF vars, queueVars, databaseVars, worldVars, OwnStep
  <2>2. WorkerInv' /\ worker' \in Worker
    BY <2>1, QuietStep, WorkerStays DEF SystemInv, StoreTypes, OwnStep, apiVars
  <2>3. SystemInv'
    BY <2>1, <2>2, LocalStep
  <2> QED BY <2>1, <2>3, BaseStands
<1> QED BY <1>1, <1>2, <1>3, <1>4

\* The invariant: documents, jobs, tasks, GenLayer's cases and the local state
\* of the pass fit each other and the chain, whatever is lost, repeated,
\* reordered or crashes.
THEOREM SystemInvariant == Spec => []SystemInv
BY InitSound, NextSound, PTL DEF Spec

\* The whole system drives the contracts only by transactions they offer: it
\* implements their specification, so every theorem about the contracts holds
\* under the relays, the processor and the handlers.
THEOREM ImplementsCourt == Spec => Court!Spec
BY InitIsCourt, SystemInvariant, NextSound, PTL DEF Spec, Court!Spec

\* The escrow covers what it owes, and each finished mandate was paid out
\* once as its end says, in the whole system.
THEOREM SystemKeepsFunds ==
    Spec => [](Court!EscrowSolvent /\ Court!PayoutMatchesOutcome)
<1>1. Court!Spec => []Court!EscrowSolvent
  BY Court!EscrowSolventAlways, CourtAssumptions
<1>2. Court!Spec => []Court!PayoutMatchesOutcome
  BY Court!PayoutMatchesOutcomeAlways, CourtAssumptions
<1> QED BY <1>1, <1>2, ImplementsCourt, PTL

\* The whole system implements the promise of MandatePromise to the two parties
\* of every mandate, whatever the service, its relays and GenLayer do.
THEOREM SystemKeepsPromise == Spec => Court!PromiseKept
<1>1. Court!Spec => Court!PromiseKept
  BY Court!PromiseRefined, CourtAssumptions
<1> QED BY <1>1, ImplementsCourt, PTL

\* In the whole system a delivered mandate leaves that status by a judgment only.
THEOREM SystemLeavesByJudgment == Spec => Court!DeliveredLeavesByJudgment
<1>1. Court!Spec => Court!DeliveredLeavesByJudgment
  BY Court!DeliveredLeavesByJudgmentAlways, CourtAssumptions
<1> QED BY <1>1, ImplementsCourt, PTL

\* No guard of the contracts can refuse the release of a deposit that is due, in
\* whatever state the service has left them.
THEOREM SystemReleasesDeposits == Spec => []Court!ReleaseNeverRefused
<1>1. Court!Spec => []Court!ReleaseNeverRefused
  BY Court!ReleaseNeverRefusedAlways, CourtAssumptions
<1> QED BY <1>1, ImplementsCourt, PTL

\* A job is COMPLETED only if one of the calls sent for it has taken effect.
THEOREM CompletedHasEffectAlways == Spec => []CompletedHasEffect
<1>1. SystemInv => CompletedHasEffect
  BY DEF SystemInv, StoreInv, JobSound, CompletedHasEffect
<1> QED BY <1>1, SystemInvariant, PTL

\* The API never shows a stage that the contracts have not reached.
THEOREM DocumentNotAheadOfBaseAlways == Spec => []DocumentNotAheadOfBase
<1>1. SystemInv => DocumentNotAheadOfBase
  BY DEF SystemInv, StoreInv, MandateSound, AheadOfNothing,
         DocumentNotAheadOfBase
<1> QED BY <1>1, SystemInvariant, PTL

\* GenLayer is asked about deliveries on Base, and the chain links the case to
\* the transaction of the document.
LEMMA LinkedOnce == SystemInv => CaseLinkedOnce
BY DEF SystemInv, StoreInv, MandateSound, Delivered, Judged, CaseLinkedOnce

\* GenLayer is asked about deliveries on Base only, and the chain links a
\* case to no transaction but the one in the document.
THEOREM CaseLinkedOnceAlways == Spec => []CaseLinkedOnce
BY LinkedOnce, SystemInvariant, PTL

\* A case that is final on Base is final on GenLayer, with the same verdict,
\* for a transaction of the case and the delivery that was judged.
LEMMA UnderFinality == SystemInv => SettledUnderFinality
<1> SUFFICES ASSUME SystemInv, NEW m \in Mandates, cases[m].finalized
             PROVE  /\ genlayer[m].status = "FINALIZED"
                    /\ genlayer[m].verdict = cases[m].finalizedVerdictHash
                    /\ cases[m].genlayerTransactionId
                         \in genlayer[m].transactions
                    /\ mandates[m].deliveryHash = documents[m].deliveryHash
  BY DEF SettledUnderFinality
<1>1. Delivered(m) /\ Judged(m)
  BY DEF SystemInv, StoreInv, MandateSound
<1>2. cases[m].genlayerTransactionId # NoHash
  BY ChainFacts DEF SystemInv, ChainInv
<1> QED BY <1>1, <1>2 DEF Delivered, Judged, FinalVerdict

\* Money moves only on a judgment that GenLayer finalized, for the delivery
\* it judged.
THEOREM SettledUnderFinalityAlways == Spec => []SettledUnderFinality
BY UnderFinality, SystemInvariant, PTL

\* A settlement never overtakes the records it rests on.
LEMMA FollowsRecords == SystemInv => SettlementFollowsRecords
<1> SUFFICES ASSUME SystemInv, NEW m \in Mandates,
                    tasks[Key(m, "SETTLEMENT")] # <<>>
             PROVE  /\ cases[m].finalized
                    /\ \A i \in DOMAIN tasks[Key(m, "SETTLEMENT")] :
                          tasks[Key(m, "SETTLEMENT")][i].message.verdict
                            = cases[m].finalizedVerdictHash
  BY DEF SettlementFollowsRecords
<1> DEFINE k == Key(m, "SETTLEMENT")
<1>1. k \in JobKeys /\ k.type = "SETTLEMENT" /\ k.mandate = m
  BY KeyInKeys DEF Key, Types, BaseTypes, AppealTypes
<1> HIDE DEF k
<1>2. JobSound(k) /\ TasksSound(k) /\ Judged(m)
  BY <1>1 DEF SystemInv, StoreInv, MandateSound
<1>3. cases[m].finalized
  BY <1>1, <1>2 DEF JobSound, Prepared, k
<1>4. ASSUME NEW i \in DOMAIN tasks[k]
      PROVE  tasks[k][i].message.verdict = cases[m].finalizedVerdictHash
  BY <1>1, <1>2, <1>3
  DEF TasksSound, TaskSound, MessageSound, Judged, FinalVerdict
<1> QED BY <1>3, <1>4 DEF k

\* Everything a run under failures checks, at once.
THEOREM QueueInvAlways == Spec => []QueueInv
<1>1. SystemInv => QueueInv
  <2>1. SystemInv => CompletedHasEffect /\ DocumentNotAheadOfBase
    BY DEF SystemInv, StoreInv, JobSound, CompletedHasEffect, MandateSound,
           AheadOfNothing, DocumentNotAheadOfBase
  <2> QED BY <2>1, LinkedOnce, UnderFinality, FollowsRecords DEF QueueInv
<1> QED BY <1>1, SystemInvariant, PTL

(***************************************************************************)
(* Types, and the bound on the attempts of a job.  A failure of a job that *)
(* has become final opens it again, so the bound rests on the passes: a    *)
(* job is in the batch of a pass once, and was open when the pass began.   *)
(***************************************************************************)
Unspent(k) == jobs[k].attempts < MaxAttempts

BatchUnspent ==
    \A i \in DOMAIN worker.batch :
        /\ Unspent(worker.batch[i])
        /\ \A j \in DOMAIN worker.batch :
              worker.batch[i] = worker.batch[j] => i = j

JobUnspent ==
    Working =>
      /\ Unspent(job)
      /\ \A i \in DOMAIN worker.batch : worker.batch[i] # job

Budgeted ==
    /\ \A k \in JobKeys : /\ jobs[k].attempts <= MaxAttempts
                          /\ jobs[k].status \in OpenStatus => Unspent(k)
    /\ BatchUnspent
    /\ JobUnspent

\* A step that counts no attempt.
JobsCalm ==
    \A k \in JobKeys :
        /\ jobs'[k].attempts <= jobs[k].attempts
        /\ jobs'[k].status \in OpenStatus => jobs'[k].attempts < MaxAttempts

\* A step that stays at the job, or leaves it for the rest of the batch or for
\* the end of the pass.
WorkerCalm ==
    \/ worker'.batch = <<>> /\ ~Working'
    \/ worker'.batch = worker.batch /\ ~Working'
    \/ worker'.batch = worker.batch /\ Working /\ job' = job

\* The types of the jobs and of the pass, in the form the bound needs them.
LEMMA BudgetTypes ==
    ASSUME SystemInv
    PROVE  /\ jobs \in [JobKeys -> Job]
           /\ \A k \in JobKeys : jobs[k].attempts \in Nat
           /\ \A i \in DOMAIN worker.batch : worker.batch[i] \in JobKeys
           /\ MaxAttempts \in Nat \ {0}
           /\ Working => job \in JobKeys /\ jobs[job] \in Job
<1>1. StoreTypes /\ jobs \in [JobKeys -> Job]
  BY DEF SystemInv, StoreTypes
<1>2. \A k \in JobKeys : jobs[k].attempts \in Nat
  BY <1>1 DEF Job
<1>3. \A i \in DOMAIN worker.batch : worker.batch[i] \in JobKeys
  BY <1>1, BatchFacts
<1>4. Working => job \in JobKeys /\ jobs[job] \in Job
  BY WorkFacts
<1> QED BY <1>1, <1>2, <1>3, <1>4, RelayQueueAssumption

\* A step that counts no attempt and stays with its batch keeps the bound.
LEMMA CalmStep ==
    ASSUME SystemInv, SystemInv', Budgeted, JobsCalm, WorkerCalm
    PROVE  Budgeted'
<1>1. /\ \A k \in JobKeys : jobs[k].attempts \in Nat
      /\ \A k \in JobKeys : jobs'[k].attempts \in Nat
      /\ \A i \in DOMAIN worker.batch : worker.batch[i] \in JobKeys
      /\ MaxAttempts \in Nat
      /\ Working => job \in JobKeys
  <2>1. (\A k \in JobKeys : jobs[k].attempts \in Nat)'
    BY BudgetTypes, PTL
  <2> QED BY <2>1, BudgetTypes
<1>2. \A k \in JobKeys : Unspent(k) => Unspent(k)'
  BY <1>1 DEF JobsCalm, Unspent
<1>3. ASSUME NEW k \in JobKeys
      PROVE  /\ jobs'[k].attempts <= MaxAttempts
             /\ jobs'[k].status \in OpenStatus => Unspent(k)'
  BY <1>1 DEF JobsCalm, Budgeted, Unspent
<1>4. BatchUnspent'
  <2>1. CASE worker'.batch = <<>>
    BY <2>1 DEF BatchUnspent
  <2>2. CASE worker'.batch = worker.batch
    BY <1>1, <1>2, <2>2 DEF Budgeted, BatchUnspent
  <2> QED BY <2>1, <2>2 DEF WorkerCalm
<1>5. JobUnspent'
  <2>1. CASE ~Working'
    BY <2>1 DEF JobUnspent
  <2>2. CASE worker'.batch = worker.batch /\ Working /\ job' = job
    BY <1>1, <1>2, <2>2 DEF Budgeted, JobUnspent
  <2> QED BY <2>1, <2>2 DEF WorkerCalm
<1> QED BY <1>3, <1>4, <1>5 DEF Budgeted

\* Jobs that nobody writes stay within the bound.
LEMMA StandingCalm ==
    ASSUME SystemInv, Budgeted, jobs' = jobs
    PROVE  JobsCalm
<1>1. \A k \in JobKeys : jobs[k].attempts \in Nat
  BY DEF SystemInv, StoreTypes, Job
<1> QED BY <1>1 DEF JobsCalm, Budgeted, Unspent

\* A job that is written keeps its attempts, and was open or at work; or it is
\* a new one.
LEMMA WriteCalm ==
    ASSUME SystemInv, Budgeted, NEW k \in JobKeys, NEW v, SetJob(k, v),
           \/ v.attempts = jobs[k].attempts /\ Unspent(k)
           \/ v.attempts = 0
    PROVE  JobsCalm
<1>1. /\ jobs \in [JobKeys -> Job]
      /\ \A n \in JobKeys : jobs[n].attempts \in Nat
      /\ MaxAttempts \in Nat \ {0}
  BY RelayQueueAssumption DEF SystemInv, StoreTypes, Job
<1>2. jobs'[k] = v /\ \A n \in JobKeys : n # k => jobs'[n] = jobs[n]
  BY <1>1 DEF SetJob
<1>3. v.attempts <= jobs[k].attempts /\ v.attempts < MaxAttempts
  BY <1>1 DEF Unspent
<1> QED BY <1>1, <1>2, <1>3 DEF JobsCalm, Budgeted, Unspent

\* A job that is inserted has no attempts.
LEMMA InsertCalm ==
    ASSUME SystemInv, Budgeted, NEW k \in JobKeys, NEW status,
           Insert(k, status)
    PROVE  JobsCalm
<1>1. NewJob(status).attempts = 0
  BY DEF NewJob, NoJob
<1> QED BY <1>1, WriteCalm DEF Insert

\* So has one that is added unless it exists.
LEMMA UpsertCalm ==
    ASSUME SystemInv, Budgeted, NEW k \in JobKeys, Upsert(k)
    PROVE  JobsCalm
BY InsertCalm, StandingCalm DEF Upsert

\* A new status of the job at work counts no attempt.
LEMMA UpdateCalm ==
    ASSUME SystemInv, Budgeted, Working, NEW status, UpdateJob(status)
    PROVE  JobsCalm
<1> DEFINE v == [jobs[job] EXCEPT !.status = status]
<1>1. job \in JobKeys /\ jobs[job] \in Job /\ Unspent(job) /\ SetJob(job, v)
  BY WorkFacts DEF Budgeted, JobUnspent, UpdateJob
<1>2. v.attempts = jobs[job].attempts
  BY <1>1 DEF Job
<1> HIDE DEF v
<1> QED BY <1>1, <1>2, WriteCalm

\* The processor leaves a job for the rest of its batch or for the end.
LEMMA NextJobCalm ==
    ASSUME SystemInv, NextJob
    PROVE  WorkerCalm
<1>1. CASE worker.batch = <<>>
  BY <1>1 DEF NextJob, Idle, WorkerCalm, Working
<1>2. CASE worker.batch # <<>>
  <2>1. worker' = [Idle EXCEPT !.at = "next", !.batch = worker.batch,
                               !.submitted = worker.submitted]
    BY <1>2 DEF NextJob
  <2>2. worker'.at = "next" /\ worker'.batch = worker.batch
    BY <2>1, IdleTyped DEF Worker
  <2> QED BY <2>2 DEF WorkerCalm, Working
<1> QED BY <1>1, <1>2

\* Within a job the batch stays.
LEMMA GotoCalm ==
    ASSUME SystemInv, Working, NEW at, Goto(at)
    PROVE  WorkerCalm
<1>1. worker \in Worker
  BY DEF SystemInv, StoreTypes
<1> QED BY <1>1 DEF Goto, Worker, WorkerCalm, job

\* A failure counts one attempt, and the last one is final.
LEMMA FailBudgeted ==
    ASSUME SystemInv, SystemInv', Budgeted, Working, NEW terminal,
           Fail(terminal)
    PROVE  Budgeted'
<1> DEFINE n == jobs[job].attempts + 1
<1>1. /\ jobs \in [JobKeys -> Job]
      /\ \A k \in JobKeys : jobs[k].attempts \in Nat
      /\ \A i \in DOMAIN worker.batch : worker.batch[i] \in JobKeys
      /\ MaxAttempts \in Nat \ {0}
      /\ job \in JobKeys
      /\ jobs[job] \in Job
  BY BudgetTypes
<1>2. /\ Unspent(job)
      /\ \A i \in DOMAIN worker.batch : worker.batch[i] # job
  BY DEF Budgeted, JobUnspent
<1>3. n <= MaxAttempts
  BY <1>1, <1>2 DEF Unspent
<1>4. /\ jobs'[job].attempts = n
      /\ jobs'[job].status \in OpenStatus => ~(n >= MaxAttempts)
      /\ \A k \in JobKeys : k # job => jobs'[k] = jobs[k]
  <2>1. jobs' = [jobs EXCEPT ![job] =
                   [jobs[job] EXCEPT
                      !.status = IF terminal \/ n >= MaxAttempts
                                 THEN "FAILED" ELSE "PENDING",
                      !.attempts = n]]
    BY DEF Fail, SetJob
  <2> HIDE DEF n
  <2>2. jobs'[job] = [jobs[job] EXCEPT
                        !.status = IF terminal \/ n >= MaxAttempts
                                   THEN "FAILED" ELSE "PENDING",
                        !.attempts = n]
    BY <1>1, <2>1
  <2>3. /\ jobs'[job].attempts = n
        /\ jobs'[job].status = IF terminal \/ n >= MaxAttempts
                               THEN "FAILED" ELSE "PENDING"
    BY <1>1, <2>2 DEF Job
  <2>4. "FAILED" \notin OpenStatus
    BY DEF OpenStatus
  <2> QED BY <1>1, <2>1, <2>3, <2>4
<1>5. WorkerCalm /\ ~Working'
  <2>1. NextJob
    BY DEF Fail
  <2>2. worker'.at \in {"idle", "next"}
    BY <2>1, IdleTyped DEF NextJob, Idle
  <2> QED BY <2>1, <2>2, NextJobCalm DEF Working
<1>6. \A k \in JobKeys : /\ jobs'[k].attempts <= MaxAttempts
                         /\ jobs'[k].status \in OpenStatus => Unspent(k)'
  <2> SUFFICES ASSUME NEW k \in JobKeys
               PROVE  /\ jobs'[k].attempts <= MaxAttempts
                      /\ jobs'[k].status \in OpenStatus => Unspent(k)'
    OBVIOUS
  <2>1. CASE k = job
    BY <1>1, <1>3, <1>4, <2>1 DEF Unspent
  <2>2. CASE k # job
    BY <1>4, <2>2 DEF Budgeted, Unspent
  <2> QED BY <2>1, <2>2
<1>7. BatchUnspent'
  <2>1. CASE worker'.batch = <<>>
    BY <2>1 DEF BatchUnspent
  <2>2. CASE worker'.batch = worker.batch
    BY <1>1, <1>2, <1>4, <2>2 DEF Budgeted, BatchUnspent, Unspent
  <2> QED BY <1>5, <2>1, <2>2 DEF WorkerCalm
<1>8. JobUnspent'
  BY <1>5 DEF JobUnspent
<1> QED BY <1>6, <1>7, <1>8 DEF Budgeted

\* A pass begins with open jobs, each one once.
LEMMA StartBudgeted ==
    ASSUME SystemInv, SystemInv', Budgeted, NEW batch, StartPass(batch),
           Lists(batch, OpenJobs) \/ batch \in Batches
    PROVE  Budgeted'
<1>1. /\ jobs' = jobs /\ worker'.at = "next" /\ worker'.batch = batch
  BY IdleTyped DEF StartPass, databaseVars, Worker
<1>2. /\ \A i \in DOMAIN batch : batch[i] \in OpenJobs
      /\ \A i, j \in DOMAIN batch : batch[i] = batch[j] => i = j
  <2>1. CASE Lists(batch, OpenJobs)
    BY <2>1 DEF Lists
  <2>2. CASE batch \in Batches
    <3>1. PICK n \in 1 .. MaxDue :
            \E due \in kSubset(n, OpenJobs) : batch \in SetToSeqs(due)
      BY <2>2 DEF Batches
    <3>2. PICK due \in kSubset(n, OpenJobs) : batch \in SetToSeqs(due)
      BY <3>1
    <3> QED BY <3>2 DEF kSubset, SetToSeqs
  <2> QED BY <2>1, <2>2
<1>3. \A k \in OpenJobs : Unspent(k)
  BY DEF OpenJobs, Budgeted
<1> QED BY <1>1, <1>2, <1>3
        DEF Budgeted, BatchUnspent, JobUnspent, Working, Unspent

\* The first job of the batch is open and occurs nowhere else in it.
LEMMA TakeJobBudgeted ==
    ASSUME SystemInv, Budgeted, TakeJob
    PROVE  Budgeted'
<1> DEFINE k == Head(worker.batch)
<1>1. /\ worker \in Worker /\ worker.batch \in Seq(JobKeys)
      /\ worker.batch # <<>>
  BY DEF SystemInv, StoreTypes, Worker, WorkerInv, LabelSound, LabelNeeds,
         TakeJob, At
<1>2. /\ jobs' = jobs /\ worker'.batch = Tail(worker.batch) /\ job' = k
  BY <1>1 DEF TakeJob, databaseVars, Worker, job
<1>3. /\ k = worker.batch[1] /\ 1 \in DOMAIN worker.batch
      /\ \A i \in DOMAIN Tail(worker.batch) :
            /\ i + 1 \in DOMAIN worker.batch
            /\ i + 1 # 1
            /\ Tail(worker.batch)[i] = worker.batch[i + 1]
            /\ \A j \in DOMAIN Tail(worker.batch) : i + 1 = j + 1 => i = j
  BY <1>1
<1> HIDE DEF k
<1>4. BatchUnspent'
  BY <1>2, <1>3 DEF Budgeted, BatchUnspent, Unspent
<1>5. JobUnspent'
  BY <1>2, <1>3 DEF Budgeted, BatchUnspent, JobUnspent, Unspent
<1> QED BY <1>2, <1>4, <1>5 DEF Budgeted, Unspent

\* The steps of a pass that leave the jobs alone.
LEMMA LookingCalm ==
    ASSUME SystemInv, Budgeted,
           \/ PollPending \/ PollSuccess(TRUE) \/ PollSuccess(FALSE)
           \/ Defer \/ WaitForAppeal \/ NoProgress
           \/ SendCall(1) \/ SendCall(2) \/ SubmitAdjudication
           \/ ReadProgress \/ SubmitAppeal
           \/ RecordAttestation \/ RecordReview
           \/ RecordAcceptedJudgment \/ RecordJudgment \/ RecordAppealed
    PROVE  JobsCalm /\ WorkerCalm
<1>1. worker \in Worker
  BY DEF SystemInv, StoreTypes
<1>2. CASE PollPending \/ Defer \/ WaitForAppeal \/ NoProgress
  BY <1>2, StandingCalm, NextJobCalm
  DEF PollPending, Defer, WaitForAppeal, NoProgress, Reschedule, databaseVars
<1>3. CASE PollSuccess(TRUE) \/ PollSuccess(FALSE)
  BY <1>3, StandingCalm, GotoCalm, JobWorks DEF PollSuccess, Ready
<1>4. CASE SendCall(1) \/ SendCall(2)
  <2>1. Working /\ jobs' = jobs
    BY <1>4, JobWorks DEF SendCall, ForBase, Unsent, Ready
  <2>2. worker'.batch = worker.batch /\ worker'.job = worker.job
    BY <1>1, <1>4 DEF SendCall, Worker
  <2> QED BY <2>1, <2>2, StandingCalm DEF WorkerCalm, job
<1>5. CASE SubmitAdjudication \/ ReadProgress
  <2>1. Working /\ jobs' = jobs
    BY <1>5, JobWorks
    DEF SubmitAdjudication, ReadProgress, Adjudicating, Unsent, Ready,
        databaseVars
  <2>2. worker'.batch = worker.batch /\ worker'.job = worker.job
    BY <1>1, <1>5 DEF SubmitAdjudication, ReadProgress, Worker
  <2> QED BY <2>1, <2>2, StandingCalm DEF WorkerCalm, job
<1>6. CASE SubmitAppeal
  BY <1>6, StandingCalm, GotoCalm, JobWorks
  DEF SubmitAppeal, Appealing, Unsent, Ready, databaseVars
<1>7. CASE \/ RecordAttestation \/ RecordReview
           \/ RecordAcceptedJudgment \/ RecordJudgment
  BY <1>7, StandingCalm, GotoCalm, WritingWorks
  DEF RecordAttestation, RecordReview, RecordAcceptedJudgment,
      RecordJudgment, WriteDocument, At, Writing
<1>8. CASE RecordAppealed
  BY <1>8, StandingCalm, NextJobCalm DEF RecordAppealed, WriteDocument
<1> QED BY <1>2, <1>3, <1>4, <1>5, <1>6, <1>7, <1>8

\* The steps of a pass that write a job and count no attempt.
LEMMA WritingCalm ==
    ASSUME SystemInv, Budgeted,
           \/ BlockAdjudication \/ DelayAdjudication
           \/ CompleteJob \/ WakeAdjudication \/ EnqueueSettlement
           \/ RecordTask \/ RecordAdjudication \/ EnqueueLink
           \/ EnqueueAccepted \/ CompleteAdjudication \/ EnqueueFinalized
           \/ CompleteAppeal
    PROVE  JobsCalm /\ WorkerCalm
<1>1. CASE BlockAdjudication \/ DelayAdjudication
  BY <1>1, UpdateCalm, NextJobCalm, JobWorks
  DEF BlockAdjudication, DelayAdjudication
<1>2. CASE CompleteJob \/ RecordAdjudication \/ CompleteAdjudication
           \/ CompleteAppeal
  BY <1>2, UpdateCalm, NextJobCalm, GotoCalm, WritingWorks
  DEF CompleteJob, RecordAdjudication, CompleteAdjudication, CompleteAppeal,
      At, Writing
<1>3. CASE \/ EnqueueSettlement \/ EnqueueLink \/ EnqueueAccepted
           \/ EnqueueFinalized
  <2>1. Working /\ mandate \in Mandates
    BY <1>3, WorkFacts, WritingWorks
    DEF EnqueueSettlement, EnqueueLink, EnqueueAccepted, EnqueueFinalized,
        At, Writing
  <2>2. /\ Key(mandate, "SETTLEMENT") \in JobKeys
        /\ Key(mandate, "LINK_CASE") \in JobKeys
        /\ Key(mandate, "RECORD_ACCEPTED") \in JobKeys
        /\ Key(mandate, "RECORD_FINALIZED") \in JobKeys
    BY <2>1, KeyInKeys DEF Types, BaseTypes, AppealTypes
  <2>3. JobsCalm
    BY <1>3, <2>2, UpsertCalm, InsertCalm
    DEF EnqueueSettlement, EnqueueLink, EnqueueAccepted, EnqueueFinalized
  <2>4. WorkerCalm
    BY <1>3, <2>1, NextJobCalm, GotoCalm
    DEF EnqueueSettlement, EnqueueLink, EnqueueAccepted, EnqueueFinalized
  <2> QED BY <2>3, <2>4
<1>4. CASE WakeAdjudication
  <2> DEFINE k == Key(mandate, "GENLAYER_ADJUDICATION")
             v == [jobs[k] EXCEPT !.status = "PENDING"]
  <2>1. Working /\ NextJob
    BY <1>4, WritingWorks DEF WakeAdjudication, At, Writing
  <2>2. k \in JobKeys
    BY <2>1, WorkFacts, KeyInKeys DEF Types, AppealTypes
  <2>3. CASE UNCHANGED jobs
    BY <2>1, <2>3, StandingCalm, NextJobCalm
  <2>4. CASE jobs[k].status = "WAITING_FOR_BASE_SUBMISSION" /\ SetJob(k, v)
    <3>1. v.attempts = jobs[k].attempts /\ Unspent(k)
      BY <2>2, <2>4
      DEF Budgeted, OpenStatus, SystemInv, StoreTypes, Job
    <3> HIDE DEF k, v
    <3> QED BY <2>1, <2>2, <2>4, <3>1, WriteCalm, NextJobCalm
  <2> QED BY <1>4, <2>3, <2>4 DEF WakeAdjudication
<1>5. CASE RecordTask
  <2> DEFINE v == [jobs[job] EXCEPT !.status = "SUBMITTED",
                                    !.task = Len(tasks[job])]
  <2>1. Working /\ NextJob /\ SetJob(job, v)
    BY <1>5, WritingWorks DEF RecordTask, At, Writing
  <2>2. job \in JobKeys /\ jobs[job] \in Job /\ Unspent(job)
    BY <2>1, WorkFacts DEF Budgeted, JobUnspent
  <2>3. v.attempts = jobs[job].attempts
    BY <2>2 DEF Job
  <2> HIDE DEF v
  <2> QED BY <2>1, <2>2, <2>3, WriteCalm, NextJobCalm
<1> QED BY <1>1, <1>2, <1>3, <1>4, <1>5

\* The ways into the catch clause.
LEMMA CaughtIsFail ==
    ASSUME \/ PollFailure \/ PollError \/ GenLayerError \/ DatabaseError
           \/ ExecutionFailed \/ AppealRefused
           \/ SendError(0, TRUE) \/ SendError(0, FALSE) \/ SendError(1, FALSE)
    PROVE  Working /\ (Fail(TRUE) \/ Fail(FALSE))
BY JobWorks, WritingWorks
DEF PollFailure, PollError, GenLayerError, DatabaseError, ExecutionFailed,
    AppealRefused, SendError, ForBase, Adjudicating, Appealing, Unsent, Ready,
    At, Writing

\* What the rest of the system does to the jobs and to the pass.
LEMMA OthersCalm ==
    ASSUME SystemInv, Budgeted,
           \/ Crash \/ HandlerCrash \/ Request \/ Land \/ Cancel
           \/ CourtOfGenLayer \/ FailedExecution \/ OnBase \/ UNCHANGED vars
    PROVE  JobsCalm /\ WorkerCalm
<1>1. \/ worker' = worker
      \/ worker' = Idle
  BY DEF Crash, HandlerCrash, Request, Land, Cancel, CourtOfGenLayer,
         FailedExecution, OnBase, queueVars, vars
<1>2. WorkerCalm
  BY <1>1 DEF WorkerCalm, Working, Idle, job
<1>3. CASE Request
  <2>1. CASE jobs' = jobs
    BY <1>2, <2>1, StandingCalm
  <2>2. CASE \E keys \in inserting : InsertJob(keys)
    <3>1. PICK keys \in inserting : InsertJob(keys)
      BY <2>2
    <3>2. Head(keys) \in JobKeys
      <4>1. keys \in Seq(HandlerKeys) /\ keys # <<>>
        BY DEF SystemInv, StoreTypes
      <4>2. Head(keys) \in HandlerKeys
        BY <4>1
      <4> QED BY <4>2 DEF HandlerKeys
    <3> QED BY <1>2, <3>1, <3>2, InsertCalm DEF InsertJob
  <2> QED BY <1>3, <2>1, <2>2
          DEF Request, Handler, PostMandate, PostAcceptance, PostDelivery,
              CheckAppeal, PostAppeal, Begin, databaseVars
<1>4. CASE ~Request
  <2>1. jobs' = jobs
    BY <1>4
    DEF Crash, HandlerCrash, StopHandler, Land, Cancel, CourtOfGenLayer,
        FailedExecution, OnBase, queueVars, vars, databaseVars
  <2> QED BY <1>2, <2>1, StandingCalm
<1> QED BY <1>2, <1>3, <1>4

\* Every step of the system keeps the bound on the attempts.
LEMMA NextBudgeted ==
    ASSUME SystemInv, SystemInv', Budgeted, [Next]_vars
    PROVE  Budgeted'
<1>1. CASE Work
  <2>1. CASE TakeJob
    BY <2>1, TakeJobBudgeted
  <2>2. CASE PollFailure \/ ExecutionFailed \/ AppealRefused
    BY <2>2, CaughtIsFail, FailBudgeted
  <2>3. CASE ~(TakeJob \/ PollFailure \/ ExecutionFailed \/ AppealRefused)
    BY <1>1, <2>3, LookingCalm, WritingCalm, CalmStep DEF Work, Follow
  <2> QED BY <2>1, <2>2, <2>3
<1>2. CASE Stumble
  <2>1. CASE PollSuccess(FALSE) \/ SendCall(2)
    BY <2>1, LookingCalm, CalmStep
  <2>2. CASE ~(PollSuccess(FALSE) \/ SendCall(2))
    BY <1>2, <2>2, CaughtIsFail, FailBudgeted DEF Stumble, GoWrong
  <2> QED BY <2>1, <2>2
<1>3. CASE StartSome
  BY <1>3, StartBudgeted DEF StartSome
<1>4. CASE StartAll
  <2>1. OpenJobs \in SUBSET JobKeys
    BY DEF OpenJobs
  <2>2. IsFiniteSet(OpenJobs)
    BY <2>1, FiniteJobs, FS_Subset
  <2>3. Lists(InSomeOrder(OpenJobs), OpenJobs)
    BY <2>2, OrderLists
  <2> QED BY <1>4, <2>3, StartBudgeted DEF StartAll
<1>5. CASE \/ Crash \/ HandlerCrash \/ Request \/ Land \/ Cancel
           \/ CourtOfGenLayer \/ FailedExecution \/ OnBase \/ UNCHANGED vars
  BY <1>5, OthersCalm, CalmStep
<1> QED BY <1>1, <1>2, <1>3, <1>4, <1>5 DEF Next

\* No job has been tried at the start.
LEMMA InitBudgeted == Init => Budgeted
<1> SUFFICES ASSUME Init PROVE Budgeted
  OBVIOUS
<1>1. /\ \A k \in JobKeys : jobs[k].attempts = 0
      /\ worker.batch = <<>> /\ ~Working
  BY DEF Init, DatabaseInit, NoJob, Idle, Working
<1>2. MaxAttempts \in Nat \ {0}
  BY RelayQueueAssumption
<1> QED BY <1>1, <1>2 DEF Budgeted, BatchUnspent, JobUnspent, Unspent

\* Every variable has its type; no job is tried more than MaxAttempts times.
THEOREM QueueTypeCorrect == Spec => []TypeOK
<1>1. SystemInv /\ Budgeted => TypeOK
  <2> SUFFICES ASSUME SystemInv, Budgeted PROVE TypeOK
    OBVIOUS
  <2>1. Base!TypeOK
    BY DEF SystemInv, ChainInv, Court!CourtInv, Court!TypeOK,
           Court!EscrowTypeOK, Court!RegistryTypeOK, Court!DisputeTypeOK,
           Court!AdapterTypeOK, Court!Status, Court!Mandate, Court!Deposit,
           Court!CaseRecord, Court!Holders, Court!Links,
           Base!TypeOK, Base!EscrowTypeOK, Base!RegistryTypeOK,
           Base!DisputeTypeOK, Base!AdapterTypeOK, Base!Status, Base!Mandate,
           Base!Deposit, Base!CaseRecord, Base!Holders, Base!Links
  <2>2. ASSUME NEW m \in Mandates
        PROVE  /\ documents[m].status \in DocumentStatus
               /\ documents[m].appeals \subseteq Appellants
               /\ documents[m].genlayerTransactionId
                    \in GenLayerTxs \cup {NoHash}
               /\ documents[m].judgmentHash \in Verdicts \cup {NoHash}
    BY DEF SystemInv, StoreTypes, Document, Judgment
  <2>3. jobs \in [JobKeys -> [status : JobStatus, attempts : 0 .. MaxAttempts,
                              task : Nat]]
    <3>1. ASSUME NEW k \in JobKeys
          PROVE  jobs[k] \in [status : JobStatus,
                              attempts : 0 .. MaxAttempts, task : Nat]
      <4>1. jobs[k] \in Job /\ jobs[k].attempts <= MaxAttempts
            /\ MaxAttempts \in Nat
        BY RelayQueueAssumption DEF SystemInv, StoreTypes, Budgeted
      <4> QED BY <4>1 DEF Job
    <3> QED BY <3>1 DEF SystemInv, StoreTypes
  <2>4. ASSUME NEW k \in JobKeys
        PROVE  /\ jobs[k].task <= Len(tasks[k])
               /\ \A i \in DOMAIN tasks[k] : tasks[k][i].state \in TaskState
    <3>1. jobs[k].task <= Len(tasks[k]) /\ tasks[k] \in Seq(Task)
      BY DEF SystemInv, StoreTypes, StoreInv, JobSound
    <3>2. \A i \in DOMAIN tasks[k] : tasks[k][i] \in Task
      BY <3>1
    <3> QED BY <3>1, <3>2 DEF Task
  <2>5. worker.batch \in Seq(JobKeys)
    BY DEF SystemInv, StoreTypes, Worker
  <2> QED BY <2>1, <2>2, <2>3, <2>4, <2>5 DEF TypeOK
<1> QED BY <1>1, InitBudgeted, SystemInvariant, NextBudgeted, PTL DEF Spec
=============================================================================
