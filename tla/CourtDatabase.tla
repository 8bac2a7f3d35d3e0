--------------------------- MODULE CourtDatabase ---------------------------
(***************************************************************************)
(* What the web application keeps in MongoDB about a mandate: its document *)
(* and its relay jobs.  Every write is one updateOne or insertOne on one   *)
(* document; there are no transactions across documents.                   *)
(***************************************************************************)
EXTENDS SettlementAdapter, SequencesExt

CONSTANTS
    Principal,           \* the wallet that creates the mandates
    Provider,            \* the wallet that accepts them
    TermsOf,             \* mandate -> the terms it is posted with
    Appellants           \* the roles that may appeal in the model

\* A mandate is open to anyone or assigned to the provider of the model.
ASSUME CourtDatabaseAssumption ==
    /\ Principal \in Actors
    /\ Provider \in Actors
    /\ TermsOf \in [Mandates -> Terms]
    /\ \A m \in Mandates : TermsOf[m].provider \in {NoActor, Provider}
    /\ Appellants \subseteq {"principal", "provider"}

VARIABLES
    documents,           \* the mandates collection
    jobs,                \* the relayJobs collection, by what a job is for
    settlementCounter    \* the settlementNonce document of counters

databaseVars == <<documents, jobs, settlementCounter>>

BaseTypes ==
    {"CREATE_MANDATE", "ACCEPT_MANDATE", "SUBMIT_DELIVERY", "LINK_CASE",
     "RECORD_ACCEPTED", "RECORD_APPEAL", "RECORD_FINALIZED", "SETTLEMENT"}

AppealTypes == {"GENLAYER_APPEAL", "RECORD_APPEAL"}

Types == BaseTypes \cup {"GENLAYER_ADJUDICATION", "GENLAYER_APPEAL"}

\* role is of interest to appeals only; a mandate has at most one job of a kind.
JobKeys ==
    [mandate : Mandates, type : Types \ AppealTypes, role : {"none"}]
      \cup [mandate : Mandates, type : AppealTypes, role : Appellants]

Key(m, type) == [mandate |-> m, type |-> type, role |-> "none"]
AppealKey(m, type, r) == [mandate |-> m, type |-> type, role |-> r]

SignedTypes == {"CREATE_MANDATE", "ACCEPT_MANDATE", "SUBMIT_DELIVERY"}

\* What a party signed, less what follows from the action and the mandate.
NoIntent == [actor |-> NoActor, nonce |-> 0, deadline |-> 0]

NoDocument ==
    [status |-> "NONE",
     intents |-> [t \in SignedTypes |-> NoIntent],
     deliveryHash |-> NoHash, deliveryTransaction |-> FALSE,
     genlayerTransactionId |-> NoHash, acceptedJudgmentHash |-> NoHash,
     judgmentHash |-> NoHash, appeals |-> {}]

DocumentStatus ==
    {"NONE", "RELAY_PENDING", "OPEN", "ACCEPT_RELAY_PENDING", "ACTIVE",
     "DELIVERY_RELAY_PENDING", "SUBMITTED", "UNDER_REVIEW", "APPEAL_WINDOW",
     "APPEAL_PENDING", "APPEALED", "FINALIZED", "SETTLEMENT_PENDING",
     "SETTLED"}

NoJob == [status |-> "ABSENT", attempts |-> 0, task |-> 0]
NewJob(status) == [NoJob EXCEPT !.status = status]

OpenStatus == {"PENDING", "SUBMITTED", "WAITING_FOR_BASE_SUBMISSION"}
JobStatus == OpenStatus \cup {"ABSENT", "COMPLETED", "FAILED"}

DatabaseInit ==
    /\ documents = [m \in Mandates |-> NoDocument]
    /\ jobs = [k \in JobKeys |-> NoJob]
    /\ settlementCounter = 0

Exists(k) == jobs[k].status # "ABSENT"

SetJob(k, job) == jobs' = [jobs EXCEPT ![k] = job]

Insert(k, status) == SetJob(k, NewJob(status))

\* updateOne with $setOnInsert and upsert.
Upsert(k) == IF Exists(k) THEN UNCHANGED jobs ELSE Insert(k, "PENDING")

=============================================================================
