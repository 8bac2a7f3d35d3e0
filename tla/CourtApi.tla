------------------------------ MODULE CourtApi ------------------------------
(***************************************************************************)
(* The API handlers that change a mandate: create, accept, deliver and     *)
(* appeal.  A handler writes the document of the mandate and then inserts  *)
(* its relay jobs, one write after the other, while the processor and      *)
(* other handlers run; it may stop between any two writes.                 *)
(***************************************************************************)
EXTENDS CourtDatabase

CONSTANTS
    Lifetime,            \* how long signed messages are valid, 3600 s
    MaxTime              \* the last time of the model

VARIABLES
    inserting,           \* for each handler at work, the jobs it still inserts
    appealing            \* appeals that have passed the handler's checks

apiVars == <<inserting, appealing>>

AppealRequests == [mandate : Mandates, role : Appellants]

ApiInit == inserting = {} /\ appealing = {}

\* now + 3600, within the time of the model.
Until == IF now + Lifetime < MaxTime THEN now + Lifetime ELSE MaxTime

\* The handler verifies that the intent carries the wallet's current nonce.
Intent(actor) ==
    [actor |-> actor, nonce |-> actorNonces[actor], deadline |-> Until]

\* Bound of the model: a signed call is requested once for a mandate.  The
\* check of the status and the update that follows it are then one step.
NotRequested(m, type) == documents[m].intents[type] = NoIntent

Begin(m, document, keys) ==
    /\ documents' = [documents EXCEPT ![m] = document]
    /\ inserting' = inserting \cup {keys}
    /\ UNCHANGED <<jobs, settlementCounter>>

\* The service is configured with the addresses of the deployed contracts.
PostMandate(m) ==
    /\ escrowRegistry
    /\ NotRequested(m, "CREATE_MANDATE")
    /\ Begin(m, [documents[m] EXCEPT
                   !.status = "RELAY_PENDING",
                   !.intents["CREATE_MANDATE"] = Intent(Principal)],
             <<Key(m, "CREATE_MANDATE")>>)
    /\ UNCHANGED appealing

PostAcceptance(m) ==
    /\ documents[m].status = "OPEN"
    /\ NotRequested(m, "ACCEPT_MANDATE")
    /\ Begin(m, [documents[m] EXCEPT
                   !.status = "ACCEPT_RELAY_PENDING",
                   !.intents["ACCEPT_MANDATE"] = Intent(Provider)],
             <<Key(m, "ACCEPT_MANDATE")>>)
    /\ UNCHANGED appealing

PostDelivery(m, hash) ==
    /\ documents[m].status = "ACTIVE"
    /\ now <= TermsOf[m].deliveryDeadline
    /\ NotRequested(m, "SUBMIT_DELIVERY")
    /\ Begin(m, [documents[m] EXCEPT
                   !.status = "DELIVERY_RELAY_PENDING",
                   !.deliveryHash = hash,
                   !.intents["SUBMIT_DELIVERY"] = Intent(Provider)],
             <<Key(m, "SUBMIT_DELIVERY"), Key(m, "GENLAYER_ADJUDICATION")>>)
    /\ UNCHANGED appealing

\* The appeal handler reads the document and checks it ...
CheckAppeal(a) ==
    LET document == documents[a.mandate] IN
    /\ a \notin appealing
    /\ document.genlayerTransactionId # NoHash
    /\ document.status \notin {"SETTLEMENT_PENDING", "SETTLED"}
    /\ a.role \notin document.appeals
    /\ appealing' = appealing \cup {a}
    /\ UNCHANGED <<databaseVars, inserting>>

\* ... and later writes it, whatever the document has become since.
PostAppeal(a) ==
    /\ a \in appealing
    /\ appealing' = appealing \ {a}
    /\ Begin(a.mandate,
             [documents[a.mandate] EXCEPT
                !.status = "APPEAL_PENDING",
                !.appeals = @ \cup {a.role}],
             <<AppealKey(a.mandate, "GENLAYER_APPEAL", a.role),
               AppealKey(a.mandate, "RECORD_APPEAL", a.role)>>)

InsertJob(keys) ==
    /\ keys \in inserting
    /\ Insert(Head(keys), IF Head(keys).type = "GENLAYER_ADJUDICATION"
                          THEN "WAITING_FOR_BASE_SUBMISSION" ELSE "PENDING")
    /\ inserting' = (inserting \ {keys}) \cup
                      (IF Len(keys) > 1 THEN {Tail(keys)} ELSE {})
    /\ UNCHANGED <<documents, settlementCounter, appealing>>

\* The handler's invocation ends; the client sees an error.  One that ends
\* before its first write is an appeal that stays in "appealing".
StopHandler ==
    /\ \E keys \in inserting : inserting' = inserting \ {keys}
    /\ UNCHANGED <<databaseVars, appealing>>

Handler ==
    \/ \E m \in Mandates :
          \/ PostMandate(m)
          \/ PostAcceptance(m)
          \/ \E hash \in DeliveryHashes : PostDelivery(m, hash)
    \/ \E a \in AppealRequests : CheckAppeal(a) \/ PostAppeal(a)
    \/ \E keys \in inserting : InsertJob(keys)

=============================================================================
