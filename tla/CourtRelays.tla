---------------------------- MODULE CourtRelays ----------------------------
(***************************************************************************)
(* What the processor hands its work to: the relays, which bring a call to *)
(* the contracts on Base some time later, in any order, perhaps never, and *)
(* GenLayer, which judges the case.  The calls are the ones base-relay.ts  *)
(* encodes; their effect is that of the contracts, by BaseCourt.           *)
(***************************************************************************)
EXTENDS CourtApi

CONSTANTS
    Balances, MaxNonce, SettlementNonces,    \* of BaseCourt
    GroundsOf                                \* role -> grounds it appeals on

\* The bounds of BaseCourt; the contracts refuse an appeal without grounds.
ASSUME CourtRelaysAssumption ==
    /\ Balances \in [Holders -> Nat]
    /\ Balances[EscrowAccount] = 0
    /\ MaxTime \in Nat
    /\ MaxNonce \in Nat
    /\ SettlementNonces \subseteq Nat
    /\ IsFiniteSet(Mandates) /\ IsFiniteSet(Actors)
    /\ GroundsOf \in [Appellants -> Grounds]

VARIABLES
    tasks,               \* job -> the calls sent for it, each one a task
    genlayer             \* mandate -> the court case on GenLayer

worldVars == <<tasks, genlayer>>

baseVars == <<now, escrowVars, registryVars, cases, adapterVars>>

Base == INSTANCE BaseCourt

\* What a call takes from the moment it is sent; the rest is in the document
\* and does not change.
Message(courtNonceRead, nonce, verdict) ==
    [courtNonce |-> courtNonceRead, nonce |-> nonce, verdict |-> verdict,
     deadline |-> Until]

TaskState == {"pending", "success", "reverted", "cancelled"}

NoCourtCase == [transactions |-> {}, status |-> "NONE", verdict |-> NoHash]

WorldInit ==
    /\ tasks = [k \in JobKeys |-> <<>>]
    /\ genlayer = [m \in Mandates |-> NoCourtCase]

Authorization(m, type, message) ==
    LET intent == documents[m].intents[type] IN
    [mandateId |-> m, actor |-> intent.actor, nonce |-> intent.nonce,
     courtNonce |-> message.courtNonce, deadline |-> intent.deadline]

FinalJudgment(m, message) ==
    [mandateId |-> m, mandateHash |-> TermsOf[m].mandateHash,
     deliveryHash |-> documents[m].deliveryHash,
     genlayerTransactionId |-> documents[m].genlayerTransactionId,
     verdictHash |-> message.verdict,
     providerBps |-> SettlementBps[message.verdict],
     nonce |-> message.nonce, deadline |-> message.deadline]

SignedCall(m, type, message) ==
    LET auth == Authorization(m, type, message) IN
    /\ auth \in Base!Authorizations(m)
    /\ \/ type = "CREATE_MANDATE" /\ Base!CreateMandate(auth, TermsOf[m])
       \/ type = "ACCEPT_MANDATE" /\ Base!AcceptMandate(auth)
       \/ type = "SUBMIT_DELIVERY"
          /\ Base!SubmitDelivery(auth, documents[m].deliveryHash)

RecordCall(k, message) ==
    LET m == k.mandate IN
    /\ \/ k.type = "LINK_CASE"
          /\ LinkCase(m, documents[m].genlayerTransactionId)
       \/ k.type = "RECORD_ACCEPTED" /\ RecordAccepted(m, message.verdict)
       \/ k.type = "RECORD_APPEAL" /\ k.role = "principal"
          /\ RecordPrincipalAppeal(m, GroundsOf[k.role])
       \/ k.type = "RECORD_APPEAL" /\ k.role = "provider"
          /\ RecordProviderAppeal(m, GroundsOf[k.role])
       \/ k.type = "RECORD_FINALIZED" /\ RecordFinalized(m, message.verdict)
    /\ UNCHANGED <<now, escrowVars, registryVars, adapterVars>>

\* The call of a job, as a transaction on Base.
Call(k, message) ==
    \/ k.type \in SignedTypes /\ SignedCall(k.mandate, k.type, message)
    \/ RecordCall(k, message)
    \/ k.type = "SETTLEMENT"
       /\ FinalJudgment(k.mandate, message) \in Base!FinalJudgments(k.mandate)
       /\ Base!ExecuteFinalJudgment(FinalJudgment(k.mandate, message))

Pending(k, i) == tasks[k][i].state = "pending"

EndTask(k, i, state) ==
    /\ tasks' = [tasks EXCEPT ![k][i].state = state]
    /\ UNCHANGED genlayer

\* A task lands on Base: its call takes effect, or reverts if a guard of the
\* contracts refuses it.
ExecuteTask(k, i) ==
    /\ Pending(k, i)
    /\ Call(k, tasks[k][i].message)
    /\ EndTask(k, i, "success")

RevertTask(k, i) ==
    /\ Pending(k, i)
    /\ ~ENABLED Call(k, tasks[k][i].message)
    /\ EndTask(k, i, "reverted")
    /\ UNCHANGED baseVars

\* The relay gives a task up without sending it.
CancelTask(k, i) ==
    /\ Pending(k, i)
    /\ EndTask(k, i, "cancelled")
    /\ UNCHANGED baseVars

\* GenLayer accepts a judgment, which an appeal can reopen, and finalizes it;
\* an execution that fails has none.
Judge(m, verdict) ==
    /\ genlayer[m].status = "PENDING"
    /\ genlayer' = [genlayer EXCEPT ![m].status = "ACCEPTED",
                                    ![m].verdict = verdict]
    /\ UNCHANGED <<tasks, baseVars>>

FinalizeJudgment(m) ==
    /\ genlayer[m].status = "ACCEPTED"
    /\ genlayer' = [genlayer EXCEPT ![m].status = "FINALIZED"]
    /\ UNCHANGED <<tasks, baseVars>>

=============================================================================
