-------------------------- MODULE MandateRegistry --------------------------
(***************************************************************************)
(* MandateRegistry.sol: the lifecycle of a mandate and the sequential      *)
(* nonces that consume an actor's signed intent and the court's            *)
(* authorization of it.  The parts of each call that touch the escrow are  *)
(* in MandateEscrow; BaseCourt puts the two together into transactions.    *)
(* policyHash is committed to together with mandateHash and never read, so *)
(* one value stands for both.                                              *)
(***************************************************************************)
EXTENDS CourtTypes

VARIABLES
    mandates,        \* mandate -> Mandate
    actorNonces,     \* wallet -> next nonce
    courtNonce       \* next nonce of the court

registryVars == <<mandates, actorNonces, courtNonce>>

NoMandate ==
    [principal |-> NoActor, provider |-> NoActor, mandateHash |-> NoHash,
     deliveryHash |-> NoHash, amount |-> 0, acceptanceDeadline |-> 0,
     deliveryDeadline |-> 0, status |-> "None"]

Mandate ==
    [principal : Actors \cup {NoActor}, provider : Actors \cup {NoActor},
     mandateHash : MandateHashes \cup {NoHash},
     deliveryHash : DeliveryHashes \cup {NoHash}, amount : Nat,
     acceptanceDeadline : Nat, deliveryDeadline : Nat, status : Status]

RegistryTypeOK ==
    /\ mandates \in [Mandates -> Mandate]
    /\ actorNonces \in [Actors -> Nat]
    /\ courtNonce \in Nat

RegistryInit ==
    /\ mandates = [m \in Mandates |-> NoMandate]
    /\ actorNonces = [a \in Actors |-> 0]
    /\ courtNonce = 0

\* Mutant of Authorize: the nonce of the court is compared and not used up.
AuthorizeKeepingCourtNonce(auth) ==
    /\ auth.deadline >= now
    /\ auth.nonce = actorNonces[auth.actor]
    /\ auth.courtNonce = courtNonce
    /\ actorNonces' = [actorNonces EXCEPT ![auth.actor] = @ + 1]
    /\ UNCHANGED courtNonce

\* _authorize: neither message has expired and both carry the next nonces,
\* which the call uses up.
Authorize(auth) ==
    /\ auth.deadline >= now
    /\ auth.nonce = actorNonces[auth.actor]
    /\ auth.courtNonce = courtNonce
    /\ actorNonces' = [actorNonces EXCEPT ![auth.actor] = @ + 1]
    /\ courtNonce' = courtNonce + 1

ValidTerms(t) ==
    /\ t.amount # 0
    /\ t.acceptanceDeadline > now
    /\ t.deliveryDeadline > t.acceptanceDeadline

RegisterMandate(auth, t) ==
    LET m == auth.mandateId IN
    /\ mandates[m].status = "None"
    /\ ValidTerms(t)
    /\ Authorize(auth)
    /\ mandates' = [mandates EXCEPT ![m] =
                      [principal          |-> auth.actor,
                       provider           |-> t.provider,
                       mandateHash        |-> t.mandateHash,
                       deliveryHash       |-> NoHash,
                       amount             |-> t.amount,
                       acceptanceDeadline |-> t.acceptanceDeadline,
                       deliveryDeadline   |-> t.deliveryDeadline,
                       status             |-> "Funded"]]

RegisterAcceptance(auth) ==
    LET m == auth.mandateId IN
    /\ mandates[m].status = "Funded"
    /\ now <= mandates[m].acceptanceDeadline
    /\ mandates[m].provider \in {NoActor, auth.actor}
    /\ Authorize(auth)
    /\ mandates' = [mandates EXCEPT ![m].provider = auth.actor,
                                    ![m].status = "Active"]

RegisterDelivery(auth, hash) ==
    LET m == auth.mandateId IN
    /\ mandates[m].status = "Active"
    /\ mandates[m].provider = auth.actor
    /\ now <= mandates[m].deliveryDeadline
    /\ Authorize(auth)
    /\ mandates' = [mandates EXCEPT ![m].deliveryHash = hash,
                                    ![m].status = "Submitted"]

\* Mutant of RegisterCancellation: delivered work can still be cancelled.
RegisterLateCancellation(auth) ==
    LET m == auth.mandateId IN
    /\ mandates[m].principal = auth.actor
    /\ mandates[m].status \in {"Funded", "Submitted"}
    /\ Authorize(auth)
    /\ mandates' = [mandates EXCEPT ![m].status = "Cancelled"]

RegisterCancellation(auth) ==
    LET m == auth.mandateId IN
    /\ mandates[m].principal = auth.actor
    /\ mandates[m].status = "Funded"
    /\ Authorize(auth)
    /\ mandates' = [mandates EXCEPT ![m].status = "Cancelled"]

\* Mutant of Expired: an undecided delivery expires like an undelivered one.
ExpiredUndecided(mandate) ==
    \/ mandate.status = "Funded" /\ now > mandate.acceptanceDeadline
    \/ mandate.status \in {"Active", "Submitted"}
       /\ now > mandate.deliveryDeadline

Expired(mandate) ==
    \/ mandate.status = "Funded" /\ now > mandate.acceptanceDeadline
    \/ mandate.status = "Active" /\ now > mandate.deliveryDeadline

\* Anyone may call markExpired; it needs no signature.
RegisterExpiry(m) ==
    /\ Expired(mandates[m])
    /\ mandates' = [mandates EXCEPT ![m].status = "Expired"]
    /\ UNCHANGED <<actorNonces, courtNonce>>

\* Called by the escrow only.
SetStatus(m, status) ==
    /\ mandates[m].status # "None"
    /\ mandates' = [mandates EXCEPT ![m].status = status]
    /\ UNCHANGED <<actorNonces, courtNonce>>

=============================================================================
