----------------------------- MODULE RelayQueue -----------------------------
(***************************************************************************)
(* One pass of the processor after the other over the relay jobs, together *)
(* with the API handlers, the relays, GenLayer and the contracts on Base.  *)
(* Passes do not overlap: ProcessorLease.  A step of the processor is what *)
(* it does up to and including one write or one call to another system;    *)
(* between two steps everything else may move, and the pass may crash.     *)
(***************************************************************************)
EXTENDS CourtRelays

CONSTANTS
    MaxDue,              \* bound on the due jobs of a pass; 0: all jobs are due
    MaxAttempts,         \* failures after which a job is FAILED, 8
    MaxFaults,           \* bound on the failures of other systems
    MaxCrashes           \* bound on invocations that stop half way

ASSUME RelayQueueAssumption ==
    /\ Lifetime \in Nat
    /\ MaxDue \in Nat
    /\ MaxAttempts \in Nat \ {0}
    /\ MaxFaults \in Nat
    /\ MaxCrashes \in Nat

VARIABLES
    worker,              \* the local state of the pass
    faults,              \* failures of other systems so far
    crashes              \* invocations stopped so far

budgets == <<faults, crashes>>
queueVars == <<databaseVars, apiVars, worldVars, worker, budgets>>
vars == <<baseVars, queueVars>>

\* at: the next step; batch: the jobs still to process, after the one at work;
\* seen: its mandate as read at the start; read: what another system answered.
Idle ==
    [at |-> "idle", batch |-> <<>>, job |-> Key(CHOOSE m \in Mandates : TRUE, "SETTLEMENT"),
     seen |-> NoDocument, read |-> NoCourtCase, submitted |-> FALSE]

Init ==
    /\ Base!Init
    /\ DatabaseInit
    /\ ApiInit
    /\ WorldInit
    /\ worker = Idle
    /\ faults = 0
    /\ crashes = 0

(***************************************************************************)
(* Frames of the processor's steps.                                        *)
(***************************************************************************)
job == worker.job
mandate == job.mandate

At(label) == worker.at = label
Goto(label) == worker' = [worker EXCEPT !.at = label]
Is(type) == job.type = type

\* The next job of the pass, or its end.
NextJob ==
    worker' = IF worker.batch = <<>>
              THEN Idle
              ELSE [Idle EXCEPT !.at = "next", !.batch = worker.batch,
                                !.submitted = worker.submitted]

Fault == faults < MaxFaults /\ faults' = faults + 1

WriteJobs == UNCHANGED <<documents, settlementCounter, worldVars, faults>>

WriteDocument(document) ==
    /\ documents' = [documents EXCEPT ![mandate] = document]
    /\ UNCHANGED <<jobs, settlementCounter, worldVars, faults>>

UpdateJob(status) ==
    /\ SetJob(job, [jobs[job] EXCEPT !.status = status])
    /\ WriteJobs

\* nextAttemptAt moves on and nothing else.
Reschedule ==
    /\ NextJob
    /\ UNCHANGED <<databaseVars, worldVars, faults>>

\* Mutant of Fail: the attempts are counted and never compared.
FailUncapped(terminal) ==
    /\ SetJob(job, [jobs[job] EXCEPT
                      !.status = IF terminal THEN "FAILED" ELSE "PENDING",
                      !.attempts = @ + 1])
    /\ NextJob

\* The catch clause.  An error is terminal by its text.
Fail(terminal) ==
    LET attempts == jobs[job].attempts + 1 IN
    /\ SetJob(job, [jobs[job] EXCEPT
                      !.status = IF terminal \/ attempts >= MaxAttempts
                                 THEN "FAILED" ELSE "PENDING",
                      !.attempts = attempts])
    /\ NextJob

(***************************************************************************)
(* A pass.                                                                 *)
(***************************************************************************)
OpenJobs == {k \in JobKeys : jobs[k].status \in OpenStatus}

\* Time is abstract here, so any of the open jobs may be due, and created in
\* any order: nextAttemptAt and createdAt come from the clocks of the instances.
StartPass(batch) ==
    /\ At("idle")
    /\ worker' = [Idle EXCEPT !.at = "next", !.batch = batch]
    /\ UNCHANGED <<databaseVars, worldVars, faults>>

Batches ==
    UNION {SetToSeqs(due) : due \in UNION {kSubset(n, OpenJobs) :
                                             n \in 1 .. MaxDue}}

\* The document is read again for each job.  The job is the one read at the
\* start of the pass; only the pass itself changes it meanwhile, and only the
\* nextAttemptAt and status that wake an adjudication, which are not read.
TakeJob ==
    /\ At("next")
    /\ LET k == Head(worker.batch) IN
       worker' = [worker EXCEPT !.at = "job",
                                !.batch = Tail(@),
                                !.job = k,
                                !.seen = documents[k.mandate]]
    /\ UNCHANGED <<databaseVars, worldVars, faults>>

(***************************************************************************)
(* The adjudication waits for the delivery on Base.                        *)
(***************************************************************************)
DeliveryJob == jobs[Key(mandate, "SUBMIT_DELIVERY")]

Blocked == Is("GENLAYER_ADJUDICATION") /\ DeliveryJob.status = "FAILED"

\* Mutant of Waiting: a delivery that a relay has taken counts as delivered.
WaitingUntilSent ==
    /\ Is("GENLAYER_ADJUDICATION")
    /\ DeliveryJob.status \notin {"FAILED", "COMPLETED", "SUBMITTED"}

Waiting ==
    /\ Is("GENLAYER_ADJUDICATION")
    /\ DeliveryJob.status # "FAILED"
    /\ \/ DeliveryJob.status # "COMPLETED"
       \/ ~worker.seen.deliveryTransaction

Ready == At("job") /\ ~Blocked /\ ~Waiting

BlockAdjudication ==
    /\ At("job") /\ Blocked
    /\ UpdateJob("FAILED")
    /\ NextJob

DelayAdjudication ==
    /\ At("job") /\ Waiting
    /\ UpdateJob("WAITING_FOR_BASE_SUBMISSION")
    /\ NextJob

(***************************************************************************)
(* A job whose task is with a relay is polled.                             *)
(***************************************************************************)
Tracked == jobs[job].status = "SUBMITTED" /\ jobs[job].task # 0

\* Mutant of TaskStatus: every terminal state is taken for success.
TerminalIsSuccess ==
    IF tasks[job][jobs[job].task].state = "pending" THEN "pending"
                                                    ELSE "success"

TaskStatus == tasks[job][jobs[job].task].state

StatusAfter(type, status) ==
    CASE type = "CREATE_MANDATE" -> "OPEN"
      [] type = "ACCEPT_MANDATE" -> "ACTIVE"
      [] type = "SUBMIT_DELIVERY" -> "SUBMITTED"
      [] type = "SETTLEMENT" -> "SETTLED"
      [] OTHER -> status

PollPending ==
    /\ Ready /\ Tracked
    /\ TaskStatus = "pending"
    /\ Reschedule

\* The status cannot be read.
PollError ==
    /\ Ready /\ Tracked
    /\ Fail(FALSE)
    /\ Fault
    /\ UNCHANGED <<documents, settlementCounter, worldVars>>

PollFailure ==
    /\ Ready /\ Tracked
    /\ TaskStatus \in {"reverted", "cancelled"}
    /\ Fail(FALSE)
    /\ WriteJobs

\* Mutant of PollSuccess: the hash of a delivery is not kept.
PollSuccessForgettingHash(hash) ==
    /\ Ready /\ Tracked
    /\ TaskStatus = "success"
    /\ documents' = [documents EXCEPT
                       ![mandate].status = StatusAfter(job.type, @)]
    /\ Goto("complete")
    /\ IF hash THEN UNCHANGED faults ELSE Fault
    /\ UNCHANGED <<jobs, settlementCounter, worldVars>>

\* A status may come without the hash of the transaction.
PollSuccess(hash) ==
    /\ Ready /\ Tracked
    /\ TaskStatus = "success"
    /\ documents' = [documents EXCEPT
                       ![mandate].status = StatusAfter(job.type, @),
                       ![mandate].deliveryTransaction =
                          @ \/ (Is("SUBMIT_DELIVERY") /\ hash)]
    /\ Goto("complete")
    /\ IF hash THEN UNCHANGED faults ELSE Fault
    /\ UNCHANGED <<jobs, settlementCounter, worldVars>>

\* Mutant of CompleteJob: nothing follows the record of the final judgment.
CompleteWithoutSettlement ==
    /\ At("complete")
    /\ UpdateJob("COMPLETED")
    /\ IF Is("SUBMIT_DELIVERY") THEN Goto("follow") ELSE NextJob

CompleteJob ==
    /\ At("complete")
    /\ UpdateJob("COMPLETED")
    /\ IF Is("SUBMIT_DELIVERY") \/ Is("RECORD_FINALIZED")
       THEN Goto("follow") ELSE NextJob

WakeAdjudication ==
    LET k == Key(mandate, "GENLAYER_ADJUDICATION") IN
    /\ At("follow") /\ Is("SUBMIT_DELIVERY")
    /\ IF jobs[k].status = "WAITING_FOR_BASE_SUBMISSION"
       THEN SetJob(k, [jobs[k] EXCEPT !.status = "PENDING"])
       ELSE UNCHANGED jobs
    /\ WriteJobs
    /\ NextJob

EnqueueSettlement ==
    /\ At("follow") /\ Is("RECORD_FINALIZED")
    /\ Upsert(Key(mandate, "SETTLEMENT"))
    /\ WriteJobs
    /\ NextJob

(***************************************************************************)
(* A job for Base is sent: one per pass.                                   *)
(***************************************************************************)
Unsent == Ready /\ ~Tracked
ForBase == Unsent /\ job.type \in BaseTypes

Defer ==
    /\ ForBase /\ worker.submitted
    /\ Reschedule

\* The message carries the court's nonce as read now, or a fresh settlement
\* nonce; the verdict is the one the mandate was read with.
NextMessage ==
    Message(IF job.type \in SignedTypes THEN courtNonce ELSE 0,
            IF Is("SETTLEMENT") THEN settlementCounter + 1 ELSE 0,
            IF Is("RECORD_ACCEPTED")
               /\ worker.seen.acceptedJudgmentHash # NoHash
            THEN worker.seen.acceptedJudgmentHash
            ELSE worker.seen.judgmentHash)

CountSettlement ==
    settlementCounter' = settlementCounter + IF Is("SETTLEMENT") THEN 1 ELSE 0

NewTask == [state |-> "pending", message |-> NextMessage]

\* A relay takes the call.  When 1Shot fails after it has taken it, Gelato is
\* given the same call and only that task is remembered.
SendCall(sent) ==
    /\ ForBase /\ ~worker.submitted
    /\ tasks' = [tasks EXCEPT ![job] = @ \o [i \in 1 .. sent |-> NewTask]]
    /\ CountSettlement
    /\ worker' = [worker EXCEPT
                    !.at = IF Is("SETTLEMENT") THEN "attested" ELSE "sent",
                    !.submitted = TRUE]
    /\ IF sent = 1 THEN UNCHANGED faults ELSE Fault
    /\ UNCHANGED <<documents, jobs, genlayer>>

\* Neither relay answers; 1Shot may have taken the call.  The error is terminal
\* when the relays refuse the call for its signature or its authorization.
SendError(sent, terminal) ==
    /\ ForBase /\ ~worker.submitted
    /\ tasks' = [tasks EXCEPT ![job] = @ \o [i \in 1 .. sent |-> NewTask]]
    /\ CountSettlement
    /\ Fail(terminal)
    /\ Fault
    /\ UNCHANGED <<documents, genlayer>>

\* Mutant of RecordAttestation: the settlement is shown before it is made.
RecordSettledWhenSent ==
    /\ At("attested")
    /\ WriteDocument([documents[mandate] EXCEPT !.status = "SETTLED"])
    /\ Goto("sent")

RecordAttestation ==
    /\ At("attested")
    /\ WriteDocument([documents[mandate] EXCEPT
                        !.status = "SETTLEMENT_PENDING"])
    /\ Goto("sent")

RecordTask ==
    /\ At("sent")
    /\ SetJob(job, [jobs[job] EXCEPT !.status = "SUBMITTED",
                                     !.task = Len(tasks[job])])
    /\ WriteJobs
    /\ NextJob

(***************************************************************************)
(* The adjudication: submitted to GenLayer once, then followed.            *)
(***************************************************************************)
Adjudicating == Unsent /\ Is("GENLAYER_ADJUDICATION")
Submitted == worker.seen.genlayerTransactionId # NoHash

GenLayerError ==
    /\ \/ Adjudicating
       \/ Unsent /\ Is("GENLAYER_APPEAL")
    /\ Fail(FALSE)
    /\ Fault
    /\ UNCHANGED <<documents, settlementCounter, worldVars>>

\* submit_case returns the case it has when it is called again for it.  Each
\* call is a transaction of its own; GenLayerTxs has one for every call that a
\* run's crashes and failures allow, so that none is held back.
SubmitAdjudication ==
    LET fresh == {tx \in GenLayerTxs :
                    \A m \in Mandates : tx \notin genlayer[m].transactions}
        tx == CHOOSE t \in fresh : TRUE
    IN
    /\ Adjudicating /\ ~Submitted
    /\ fresh # {}
    /\ genlayer' = [genlayer EXCEPT
                      ![mandate].transactions = @ \cup {tx},
                      ![mandate].status = IF @ = "NONE" THEN "PENDING" ELSE @]
    /\ worker' = [worker EXCEPT !.at = "review",
                                !.seen.genlayerTransactionId = tx]
    /\ UNCHANGED <<databaseVars, tasks, faults>>

RecordReview ==
    /\ At("review")
    /\ WriteDocument([documents[mandate] EXCEPT
          !.genlayerTransactionId = worker.seen.genlayerTransactionId,
          !.status = "UNDER_REVIEW"])
    /\ Goto("reviewing")

RecordAdjudication ==
    /\ At("reviewing")
    /\ UpdateJob("SUBMITTED")
    /\ Goto("link")

EnqueueLink ==
    /\ At("link")
    /\ Insert(Key(mandate, "LINK_CASE"), "PENDING")
    /\ WriteJobs
    /\ NextJob

\* Mutant of AppealUnsent: the document alone says that an appeal is coming.
AppealUnsentByStatus == worker.seen.status = "APPEAL_PENDING"

AppealUnsent ==
    /\ worker.seen.status = "APPEAL_PENDING"
    /\ \E r \in Appellants :
          jobs[AppealKey(mandate, "GENLAYER_APPEAL", r)].status
            \in {"PENDING", "SUBMITTED"}

WaitForAppeal ==
    /\ Adjudicating /\ Submitted
    /\ AppealUnsent
    /\ Reschedule

ReadProgress ==
    /\ Adjudicating /\ Submitted
    /\ ~AppealUnsent
    /\ worker' = [worker EXCEPT !.at = "progress",
                                !.read = genlayer[mandate]]
    /\ UNCHANGED <<databaseVars, worldVars, faults>>

Accepted ==
    /\ worker.read.status = "ACCEPTED"
    /\ worker.read.verdict # NoHash
    /\ worker.seen.acceptedJudgmentHash = NoHash

NoProgress ==
    /\ At("progress")
    /\ worker.read.status # "FINALIZED" /\ ~Accepted
    /\ Reschedule

RecordAcceptedJudgment ==
    /\ At("progress") /\ Accepted
    /\ WriteDocument([documents[mandate] EXCEPT
          !.acceptedJudgmentHash = worker.read.verdict,
          !.status = IF worker.seen.status = "APPEALED" THEN "APPEALED"
                                                         ELSE "APPEAL_WINDOW"])
    /\ Goto("accepted")

EnqueueAccepted ==
    /\ At("accepted") \/ At("finalized")
    /\ Upsert(Key(mandate, "RECORD_ACCEPTED"))
    /\ WriteJobs
    /\ IF At("accepted") THEN NextJob ELSE Goto("finalize")

\* The execution was finalized without a judgment.
ExecutionFailed ==
    /\ At("progress")
    /\ worker.read.status = "FINALIZED" /\ worker.read.verdict = NoHash
    /\ Fail(FALSE)
    /\ WriteJobs

\* Mutant of RecordJudgment: an accepted judgment is taken for a final one.
RecordAnyJudgment ==
    /\ At("progress")
    /\ worker.read.verdict # NoHash
    /\ WriteDocument([documents[mandate] EXCEPT
                        !.judgmentHash = worker.read.verdict,
                        !.status = "FINALIZED"])
    /\ Goto("judged")

RecordJudgment ==
    /\ At("progress")
    /\ worker.read.status = "FINALIZED" /\ worker.read.verdict # NoHash
    /\ WriteDocument([documents[mandate] EXCEPT
                        !.judgmentHash = worker.read.verdict,
                        !.status = "FINALIZED"])
    /\ Goto("judged")

CompleteAdjudication ==
    /\ At("judged")
    /\ UpdateJob("COMPLETED")
    /\ Goto("finalized")

EnqueueFinalized ==
    /\ At("finalize")
    /\ Upsert(Key(mandate, "RECORD_FINALIZED"))
    /\ WriteJobs
    /\ NextJob

(***************************************************************************)
(* An appeal.                                                              *)
(***************************************************************************)
Appealing == Unsent /\ Is("GENLAYER_APPEAL")

\* canAppeal: an accepted judgment that is not final.
SubmitAppeal ==
    /\ Appealing
    /\ genlayer[mandate].status = "ACCEPTED"
    /\ genlayer' = [genlayer EXCEPT ![mandate].status = "PENDING"]
    /\ Goto("appealed")
    /\ UNCHANGED <<databaseVars, tasks, faults>>

AppealRefused ==
    /\ Appealing
    /\ genlayer[mandate].status # "ACCEPTED"
    /\ Fail(FALSE)
    /\ WriteJobs

CompleteAppeal ==
    /\ At("appealed")
    /\ UpdateJob("COMPLETED")
    /\ Goto("appeal")

RecordAppealed ==
    /\ At("appeal")
    /\ WriteDocument([documents[mandate] EXCEPT !.status = "APPEALED"])
    /\ NextJob

\* The database refuses a write in the middle of a job and then takes the one
\* of the catch clause, which opens the job again whatever it has become.
Writing ==
    {"complete", "follow", "attested", "sent", "review", "reviewing", "link",
     "progress", "accepted", "judged", "finalized", "finalize", "appealed",
     "appeal"}

DatabaseError ==
    /\ worker.at \in Writing
    /\ Fail(FALSE)
    /\ Fault
    /\ UNCHANGED <<documents, settlementCounter, worldVars>>

(***************************************************************************)
(* The system.                                                             *)
(***************************************************************************)
Follow ==
    \/ TakeJob
    \/ BlockAdjudication \/ DelayAdjudication
    \/ PollPending \/ PollFailure \/ PollSuccess(TRUE)
    \/ CompleteJob \/ WakeAdjudication \/ EnqueueSettlement
    \/ Defer \/ SendCall(1) \/ RecordAttestation \/ RecordTask
    \/ SubmitAdjudication \/ RecordReview \/ RecordAdjudication \/ EnqueueLink
    \/ WaitForAppeal \/ ReadProgress \/ NoProgress
    \/ RecordAcceptedJudgment \/ EnqueueAccepted \/ ExecutionFailed
    \/ RecordJudgment \/ CompleteAdjudication \/ EnqueueFinalized
    \/ SubmitAppeal \/ AppealRefused \/ CompleteAppeal \/ RecordAppealed

GoWrong ==
    \/ PollError \/ PollSuccess(FALSE)
    \/ SendCall(2)
    \/ SendError(0, TRUE) \/ SendError(0, FALSE) \/ SendError(1, FALSE)
    \/ GenLayerError \/ DatabaseError

Aside == UNCHANGED <<baseVars, apiVars, crashes>>

Work == Follow /\ Aside
StartSome == (\E batch \in Batches : StartPass(batch)) /\ Aside

\* A batch of all the jobs that are due, in some order.
InSomeOrder(due) == FoldSet(LAMBDA k, batch : <<k>> \o batch, <<>>, due)

StartAll ==
    /\ MaxDue = 0 /\ OpenJobs # {}
    /\ StartPass(InSomeOrder(OpenJobs))
    /\ Aside

Stumble == GoWrong /\ Aside

\* Nothing of the pass survives but what it has written.
Crash ==
    /\ ~At("idle")
    /\ crashes < MaxCrashes
    /\ crashes' = crashes + 1
    /\ worker' = Idle
    /\ UNCHANGED <<baseVars, databaseVars, apiVars, worldVars, faults>>

HandlerCrash ==
    /\ crashes < MaxCrashes
    /\ crashes' = crashes + 1
    /\ StopHandler
    /\ UNCHANGED <<baseVars, worldVars, worker, faults>>

Request == Handler /\ UNCHANGED <<baseVars, worldVars, worker, budgets>>
Insertion == (\E keys \in inserting : InsertJob(keys))
             /\ UNCHANGED <<baseVars, worldVars, worker, budgets>>

SentTasks == UNION {{<<k, i>> : i \in DOMAIN tasks[k]} : k \in JobKeys}

Land ==
    /\ \E s \in SentTasks : ExecuteTask(s[1], s[2]) \/ RevertTask(s[1], s[2])
    /\ UNCHANGED <<databaseVars, apiVars, worker, budgets>>

Cancel ==
    /\ \E s \in SentTasks : CancelTask(s[1], s[2])
    /\ Fault
    /\ UNCHANGED <<databaseVars, apiVars, worker, crashes>>

CourtOfGenLayer ==
    /\ \E m \in Mandates : \/ \E v \in Verdicts : Judge(m, v)
                           \/ FinalizeJudgment(m)
    /\ UNCHANGED <<databaseVars, apiVars, worker, budgets>>

FailedExecution ==
    /\ \E m \in Mandates : Judge(m, NoHash)
    /\ Fault
    /\ UNCHANGED <<databaseVars, apiVars, worker, crashes>>

\* What happens on Base without the relays: deployment, time, and expiry,
\* which anyone may mark.
OnBase ==
    /\ \/ \E link \in Links : Base!WireAdapter(link)
       \/ Base!WireEscrow
       \/ \E m \in Mandates : Base!MarkExpired(m)
       \/ Base!Tick
    /\ UNCHANGED queueVars

Next ==
    \/ Work \/ StartSome \/ StartAll \/ Stumble \/ Crash
    \/ Request \/ HandlerCrash
    \/ Land \/ Cancel \/ CourtOfGenLayer \/ FailedExecution \/ OnBase

Spec == Init /\ [][Next]_vars

(***************************************************************************)
(* Properties.                                                             *)
(***************************************************************************)

\* Every variable has its type; the contracts' variables theirs.
TypeOK ==
    /\ Base!TypeOK
    /\ \A m \in Mandates :
          /\ documents[m].status \in DocumentStatus
          /\ documents[m].appeals \subseteq Appellants
          /\ documents[m].genlayerTransactionId \in GenLayerTxs \cup {NoHash}
          /\ documents[m].judgmentHash \in Verdicts \cup {NoHash}
    /\ jobs \in [JobKeys -> [status : JobStatus, attempts : 0 .. MaxAttempts,
                             task : Nat]]
    /\ \A k \in JobKeys :
          /\ jobs[k].task <= Len(tasks[k])
          /\ \A i \in DOMAIN tasks[k] : tasks[k][i].state \in TaskState
    /\ worker.batch \in Seq(JobKeys)

\* Which statuses of the contract a status of the document allows.
KnownOnBase(status) ==
    CASE status \in {"NONE", "RELAY_PENDING"} -> Status
      [] status \in {"OPEN", "ACCEPT_RELAY_PENDING"} -> Status \ {"None"}
      [] status \in {"ACTIVE", "DELIVERY_RELAY_PENDING"} ->
           {"Active", "Submitted", "Settled", "Expired"}
      [] status = "SETTLED" -> {"Settled"}
      [] OTHER -> {"Submitted", "Settled"}

\* The document may be behind the chain but is never ahead of it: no lost,
\* repeated or reordered call, and no crash, makes the API show a stage that
\* the contracts have not reached.
DocumentNotAheadOfBase ==
    \A m \in Mandates : mandates[m].status \in KnownOnBase(documents[m].status)

\* Money moves only on a judgment that GenLayer finalized, for the delivery it
\* judged, whatever an appeal changed in between (README, "Core Invariants" 8
\* and 9).
SettledUnderFinality ==
    \A m \in Mandates :
        cases[m].finalized =>
          /\ genlayer[m].status = "FINALIZED"
          /\ genlayer[m].verdict = cases[m].finalizedVerdictHash
          /\ cases[m].genlayerTransactionId \in genlayer[m].transactions
          /\ mandates[m].deliveryHash = documents[m].deliveryHash

\* GenLayer is asked about deliveries that are on Base only, and the chain
\* links the case to the transaction the document knows, although a pass that
\* crashed may have submitted the case before.
CaseLinkedOnce ==
    \A m \in Mandates :
        /\ genlayer[m].status # "NONE" =>
              /\ mandates[m].deliveryHash # NoHash
              /\ mandates[m].deliveryHash = documents[m].deliveryHash
        /\ documents[m].genlayerTransactionId # NoHash =>
              documents[m].genlayerTransactionId \in genlayer[m].transactions
        /\ cases[m].genlayerTransactionId
              \in {NoHash, documents[m].genlayerTransactionId}

\* A settlement is attested only when the case is final on Base, so it never
\* overtakes the records it rests on.
SettlementFollowsRecords ==
    \A m \in Mandates :
        tasks[Key(m, "SETTLEMENT")] # <<>> =>
          /\ cases[m].finalized
          /\ \A i \in DOMAIN tasks[Key(m, "SETTLEMENT")] :
                tasks[Key(m, "SETTLEMENT")][i].message.verdict
                  = cases[m].finalizedVerdictHash

\* The mark a call leaves on Base.
Effect(k) ==
    LET m == k.mandate IN
    \/ k.type = "CREATE_MANDATE" /\ deposits[m].funded
    \/ k.type = "ACCEPT_MANDATE" /\ deposits[m].provider # NoActor
    \/ k.type = "SUBMIT_DELIVERY" /\ mandates[m].deliveryHash # NoHash
    \/ k.type = "LINK_CASE" /\ Linked(m)
    \/ k.type = "RECORD_ACCEPTED" /\ cases[m].acceptedVerdictHash # NoHash
    \/ k.type = "RECORD_APPEAL" /\ k.role = "principal"
       /\ cases[m].principalAppealHash # NoHash
    \/ k.type = "RECORD_APPEAL" /\ k.role # "principal"
       /\ cases[m].providerAppealHash # NoHash
    \/ k.type = "RECORD_FINALIZED" /\ cases[m].finalized
    \/ k.type = "SETTLEMENT" /\ settled[m]

\* A job is COMPLETED only if one of the calls sent for it has taken effect,
\* although a job forgets the tasks of its earlier attempts and the one it
\* remembers may have been refused because an earlier one was not.
CompletedHasEffect ==
    \A k \in JobKeys :
        jobs[k].status = "COMPLETED" /\ k.type \in BaseTypes => Effect(k)

\* What a run under failures checks of everything above at once.
QueueInv ==
    /\ DocumentNotAheadOfBase
    /\ CompletedHasEffect
    /\ SettledUnderFinality
    /\ CaseLinkedOnce
    /\ SettlementFollowsRecords

\* Failures of the lifecycle that an operator can see.
Reported(m) ==
    \E k \in JobKeys : /\ k.mandate = m
                        /\ k.type \notin AppealTypes
                        /\ jobs[k].status = "FAILED"

(***************************************************************************)
(* Fairness.  Operations are polled and the cron runs, so passes go on and  *)
(* every open job is due again and again (the longest delay is 15 minutes); *)
(* a pass, a handler, the relays and GenLayer do not stop half way.         *)
(***************************************************************************)
Fairness ==
    /\ WF_vars(Work)
    /\ SF_vars(StartAll)
    /\ WF_vars(Insertion)
    /\ WF_vars(Land)
    /\ WF_vars(CourtOfGenLayer)

FairSpec == Spec /\ Fairness

\* Once GenLayer has finalized a case, the deposit is settled or a job of the
\* mandate is FAILED: no judgment is lost without a trace.
FinalJudgmentAnswered ==
    \A m \in Mandates :
        genlayer[m].status = "FINALIZED" ~>
          mandates[m].status = "Settled" \/ Reported(m)

\* A delivery that is on Base comes before GenLayer or a job of the mandate is
\* FAILED.  A status without a transaction hash breaks this: nothing supplies
\* the hash later, and the adjudication waits for ever.
DeliveryAnswered ==
    \A m \in Mandates :
        mandates[m].status = "Submitted" ~>
          genlayer[m].status # "NONE" \/ Reported(m)

\* An appeal that was taken is submitted to GenLayer or fails for good, and the
\* adjudication that waits for it does not wait for ever.
AppealAnswered ==
    \A a \in AppealRequests :
        a.role \in documents[a.mandate].appeals ~>
          /\ jobs[AppealKey(a.mandate, "GENLAYER_APPEAL", a.role)].status
                \in {"COMPLETED", "FAILED"}
          /\ jobs[Key(a.mandate, "GENLAYER_ADJUDICATION")].status
                \in {"COMPLETED", "FAILED"}

=============================================================================
