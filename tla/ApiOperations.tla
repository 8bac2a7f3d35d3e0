--------------------------- MODULE ApiOperations ---------------------------
(***************************************************************************)
(* The signed requests of the API as their clients make them.  A command   *)
(* (of the CLI, of an MCP tool, of a program that uses the SDK) prepares a *)
(* request, signs what the API returns and submits it under an idempotency *)
(* key; when it hears nothing it may try again, while the handler of the   *)
(* first try still runs.  The handlers read the document and the nonce,    *)
(* begin an operation, write the document and insert the jobs, in this     *)
(* order, and may stop between any two steps.  The processor sends what    *)
(* the document holds when it gets to the job.  A creation may name its    *)
(* mandate, and is then written over the document that is there.           *)
(*                                                                         *)
(* Deadlines, faults of the relays and the court are in RelayQueue; here   *)
(* several requests of a kind meet, which RelayQueue leaves out.           *)
(***************************************************************************)
EXTENDS Naturals, FiniteSets, Sequences, SequencesExt

CONSTANTS
    Agents, NoAgent,
    Mandates, NoMandate,
    Manifests, NoManifest,
    Commands,                \* what a client wants done once
    MaxTries,                \* command -> how often it is tried
    ReuseKeys,               \* a later try sends the key of the first
    MaxSends,                \* sends of a job before it is FAILED, 8
    Starts,                  \* how far a mandate may be at the start
    Wants                    \* command -> what it may ask for

Attempts == UNION {{c} \X (1 .. MaxTries[c]) : c \in Commands}
NoAttempt == <<NoAgent, 0>>
CallKinds == {"create", "accept", "deliver"}

Roles == {"principal", "provider"}

CommandOf(k, mandates, providers, manifests) ==
    [kind : {k}, agent : Agents, mandate : mandates, provider : providers,
     manifest : manifests]

\* A creation may name its mandate, also one that exists, and its provider.
CreateCommand ==
    CommandOf("create", Mandates \cup {NoMandate}, Agents \cup {NoAgent},
              {NoManifest})
AcceptCommand == CommandOf("accept", Mandates, {NoAgent}, {NoManifest})
DeliverCommand == CommandOf("deliver", Mandates, {NoAgent}, Manifests)
AppealCommand == CommandOf("appeal", Mandates, {NoAgent}, {NoManifest})
AnyCommand ==
    CreateCommand \cup AcceptCommand \cup DeliverCommand \cup AppealCommand

\* An open mandate may have been assigned to a provider.
AnyStart ==
    [stage : {"new"}, principal : {NoAgent}, provider : {NoAgent}]
    \cup [stage : {"open"}, principal : Agents, provider : Agents \cup {NoAgent}]
    \cup [stage : {"active", "judged", "settling"}, principal : Agents,
          provider : Agents]
Undrafted == [stage |-> "new", principal |-> NoAgent, provider |-> NoAgent]

ASSUME OperationsAssumption ==
    /\ NoAgent \notin Agents /\ NoAgent \notin Commands
    /\ NoMandate \notin Mandates /\ NoManifest \notin Manifests
    /\ MaxTries \in [Commands -> Nat] /\ MaxSends \in Nat \ {0}
    /\ ReuseKeys \in BOOLEAN
    /\ Starts \subseteq AnyStart
    /\ Wants \in [Commands -> SUBSET AnyCommand]

VARIABLES
    docs,            \* the mandates collection
    operations,      \* the operations collection, by the try that stored it
    jobs,            \* the relayJobs collection: the call of an operation
    genlayer,        \* the GenLayer job of a delivery or an appeal
    deliveries,      \* the deliveries with jobs, in the order of createdAt
    chain,           \* the mandates on Base
    nonces,          \* actorNonces on Base
    command,         \* what each command asks for
    req,             \* the signed request of each try
    pc               \* where the handler of each try is

server == <<docs, operations, jobs, genlayer, deliveries>>
base == <<chain, nonces>>
client == <<command, req, pc>>
vars == <<docs, operations, jobs, genlayer, deliveries, chain, nonces,
          command, req, pc>>

NoCommand == [kind |-> "none", agent |-> NoAgent, mandate |-> NoMandate,
              provider |-> NoAgent, manifest |-> NoManifest]
\* The handler of an appeal finds the role of the appellant.
NoRequest == [mandate |-> NoMandate, nonce |-> 0, role |-> "none"]
NoCall == [status |-> "ABSENT", sends |-> 0, sent |-> NoAttempt,
           call |-> "none", noted |-> FALSE]

Kind(a) == command[a[1]].kind
Agent(a) == command[a[1]].agent
Manifest(a) == command[a[1]].manifest
Provider(a) == command[a[1]].provider
Target(a) == req[a].mandate

\* Mutant of KeyOf: every request draws a key of its own.
FreshKey(a) == a

\* The CLI draws a key for each run; a caller of MCP or the SDK may send again
\* the key it used before.
KeyOf(a) == IF ReuseKeys THEN <<a[1], 1>> ELSE a

StartStatus(stage) ==
    CASE stage = "new" -> "NONE" [] stage = "open" -> "OPEN"
      [] stage = "active" -> "ACTIVE" [] stage = "judged" -> "APPEAL_WINDOW"
      [] stage = "settling" -> "SETTLEMENT_PENDING"

StartStage(stage) ==
    CASE stage = "new" -> "None" [] stage = "open" -> "Funded"
      [] stage = "active" -> "Active" [] OTHER -> "Submitted"

StartDoc(s) ==
    [status |-> StartStatus(s.stage), principal |-> s.principal,
     provider |-> s.provider, auth |-> [k \in CallKinds |-> NoAttempt],
     prepared |-> NoManifest, judged |-> s.stage \in {"judged", "settling"},
     appeals |-> {}]
StartOn(s) ==
    [stage |-> StartStage(s.stage), provider |-> s.provider, appeals |-> {}]

Init ==
    /\ \E first \in Mandates, start \in Starts :
          /\ docs = [m \in Mandates |->
                       StartDoc(IF m = first THEN start ELSE Undrafted)]
          /\ chain = [m \in Mandates |->
                       StartOn(IF m = first THEN start ELSE Undrafted)]
    /\ operations = {}
    /\ jobs = [a \in Attempts |-> NoCall]
    /\ genlayer = [a \in Attempts |-> "ABSENT"]
    /\ deliveries = <<>>
    /\ nonces = [g \in Agents |-> 0]
    /\ command = [c \in Commands |-> NoCommand]
    /\ req = [a \in Attempts |-> NoRequest]
    /\ pc = [a \in Attempts |-> "idle"]

(***************************************************************************)
(* The clients.                                                            *)
(***************************************************************************)

Give(c) ==
    /\ command[c] = NoCommand
    /\ \E want \in Wants[c] : command' = [command EXCEPT ![c] = want]
    /\ UNCHANGED <<server, base, req, pc>>

\* The principal comes first: an agent that is both appeals as principal.
RoleIn(agent, d) ==
    IF d.principal = agent THEN "principal"
    ELSE IF d.provider = agent THEN "provider" ELSE "none"

\* What a handler requires of the document, in the preparation and again when
\* the signed request arrives.  A creation requires nothing of it.
AcceptAllowed(agent, d) == d.status = "OPEN" /\ d.provider \in {NoAgent, agent}
DeliverAllowed(agent, d) == d.status = "ACTIVE" /\ d.provider = agent
AppealAllowed(agent, d) ==
    /\ RoleIn(agent, d) \in Roles
    /\ d.judged
    /\ d.status \notin {"SETTLEMENT_PENDING", "SETTLED", "CANCELLED", "EXPIRED"}
    /\ \A appeal \in d.appeals : appeal.role # RoleIn(agent, d)

Allowed(a, d) ==
    /\ Kind(a) = "accept" => AcceptAllowed(Agent(a), d)
    /\ Kind(a) = "deliver" => DeliverAllowed(Agent(a), d)
    /\ Kind(a) = "appeal" => AppealAllowed(Agent(a), d)

\* The next try starts when the one before was refused or its client stopped
\* waiting: a crash, a time-out or a lost answer, at any moment.
Startable(a) ==
    /\ pc[a] = "idle"
    /\ command[a[1]] # NoCommand
    /\ a[2] > 1 => pc[<<a[1], a[2] - 1>>] # "idle"

\* The answer to a preparation is the typed data, which the client signs.
TypedData(a, m) ==
    /\ pc' = [pc EXCEPT ![a] = "prepared"]
    /\ req' = [req EXCEPT ![a] = [@ EXCEPT !.mandate = m,
                                           !.nonce = nonces[Agent(a)]]]
    /\ UNCHANGED <<operations, jobs, genlayer, deliveries, base, command>>

Drafted(agent, d) == [d EXCEPT !.status = "DRAFT", !.principal = agent]

\* The mandate of a creation is the one it names, or a minted one.  It is
\* drafted if there is no document yet; a document that is there stays.
PrepareCreate(a) ==
    /\ Startable(a) /\ Kind(a) = "create"
    /\ \E m \in Mandates :
          LET fresh == docs[m].status = "NONE" IN
          /\ IF command[a[1]].mandate = NoMandate
             THEN fresh ELSE m = command[a[1]].mandate
          /\ docs' = IF fresh
                     THEN [docs EXCEPT ![m] = Drafted(Agent(a), @)] ELSE docs
          /\ TypedData(a, m)

Prepares(a, k) ==
    /\ Startable(a) /\ Kind(a) = k
    /\ Allowed(a, docs[command[a[1]].mandate])

\* Also POST claim and the tool prepare_claim.
PrepareAccept(a) ==
    /\ Prepares(a, "accept")
    /\ TypedData(a, command[a[1]].mandate)
    /\ UNCHANGED docs

\* The snapshots of this manifest that are there are used again.
ReuseSnapshots(a) ==
    /\ Prepares(a, "deliver")
    /\ docs[command[a[1]].mandate].prepared = Manifest(a)
    /\ TypedData(a, command[a[1]].mandate)
    /\ UNCHANGED docs

\* New ones take their time; they are stored whatever has become of the mandate
\* meanwhile.
PrepareDeliver(a) ==
    /\ Prepares(a, "deliver")
    /\ docs[command[a[1]].mandate].prepared # Manifest(a)
    /\ pc' = [pc EXCEPT ![a] = "snapshots"]
    /\ UNCHANGED <<server, base, command, req>>

StoreSnapshots(a) ==
    /\ pc[a] = "snapshots"
    /\ docs' = [docs EXCEPT ![command[a[1]].mandate].prepared = Manifest(a)]
    /\ TypedData(a, command[a[1]].mandate)

PrepareAppeal(a) ==
    /\ Prepares(a, "appeal")
    /\ TypedData(a, command[a[1]].mandate)
    /\ UNCHANGED docs

Refuse(a) ==
    /\ Startable(a) /\ Kind(a) # "create"
    /\ ~Allowed(a, docs[command[a[1]].mandate])
    /\ pc' = [pc EXCEPT ![a] = "refused"]
    /\ UNCHANGED <<server, base, command, req>>

Prepare(a) ==
    \/ PrepareCreate(a) \/ PrepareAccept(a) \/ PrepareDeliver(a)
    \/ ReuseSnapshots(a) \/ StoreSnapshots(a) \/ PrepareAppeal(a)
    \/ Refuse(a)

\* A program that kept the signed body sends it again, under the same key.
Resend(a) ==
    /\ pc[a] = "stopped"
    /\ pc' = [pc EXCEPT ![a] = "prepared"]
    /\ UNCHANGED <<server, base, command, req>>

(***************************************************************************)
(* The handler of a signed request.                                        *)
(***************************************************************************)

Move(a, from, to) == pc[a] = from /\ pc' = [pc EXCEPT ![a] = to]

Valid(a) ==
    /\ Allowed(a, docs[Target(a)])
    /\ Kind(a) = "deliver" => docs[Target(a)].prepared = Manifest(a)
    /\ nonces[Agent(a)] = req[a].nonce

\* The document and the chain's nonce are read, the signature is checked.  The
\* role of an appellant is the one of this reading.
Verify(a) ==
    /\ pc[a] = "prepared"
    /\ Move(a, "prepared", IF Valid(a) THEN "verified" ELSE "refused")
    /\ req' = IF Kind(a) = "appeal"
              THEN [req EXCEPT ![a].role = RoleIn(Agent(a), docs[Target(a)])]
              ELSE req
    /\ UNCHANGED <<server, base, command>>

SameKey(a) == {b \in operations : KeyOf(b) = KeyOf(a)}

\* beginOperation looks for the key.  Two preparations differ in nonce or
\* deadline, so only the same body has the fingerprint that is stored.
Lookup(a) ==
    /\ \/ SameKey(a) = {} /\ Move(a, "verified", "looked")
       \/ a \in SameKey(a) /\ Move(a, "verified", "answered")
       \/ SameKey(a) \notin {{}, {a}} /\ Move(a, "verified", "refused")
    /\ UNCHANGED <<server, base, command, req>>

\* ... and inserts the operation; the unique index turns a second insert into
\* the answer of the first, whose fingerprint is not compared.
InsertOperation(a) ==
    /\ IF SameKey(a) = {}
       THEN /\ Move(a, "looked", "begun")
            /\ operations' = operations \cup {a}
       ELSE Move(a, "looked", "answered") /\ UNCHANGED operations
    /\ UNCHANGED <<docs, jobs, genlayer, deliveries, base, command, req>>

\* Mutant of Claimed: the acceptance is written without the filter.
ClaimedAlways(a, d) == TRUE

\* The filter of the acceptance; the other kinds write whatever they find.
Claimed(a, d) == Kind(a) = "accept" => AcceptAllowed(Agent(a), d)

\* A creation is written over whatever document has its id.
Created(a, d) ==
    [d EXCEPT !.status = "RELAY_PENDING", !.auth["create"] = a,
              !.principal = Agent(a), !.provider = Provider(a)]
Accepted(a, d) ==
    [d EXCEPT !.status = "ACCEPT_RELAY_PENDING", !.auth["accept"] = a,
              !.provider = Agent(a)]
Delivered(a, d) ==
    [d EXCEPT !.status = "DELIVERY_RELAY_PENDING", !.auth["deliver"] = a,
              !.prepared = NoManifest]
Appealed(a, d) ==
    [d EXCEPT !.status = "APPEAL_PENDING",
              !.appeals = @ \cup {[by |-> a, role |-> req[a].role]}]

Written(a, d) ==
    CASE Kind(a) = "create" -> Created(a, d)
      [] Kind(a) = "accept" -> Accepted(a, d)
      [] Kind(a) = "deliver" -> Delivered(a, d)
      [] Kind(a) = "appeal" -> Appealed(a, d)

WriteDocument(a) ==
    /\ pc[a] = "begun"
    /\ IF Claimed(a, docs[Target(a)])
       THEN /\ Move(a, "begun", "written")
            /\ docs' = [docs EXCEPT ![Target(a)] = Written(a, @)]
       ELSE Move(a, "begun", "refused") /\ UNCHANGED docs
    /\ UNCHANGED <<operations, jobs, genlayer, deliveries, base, command,
                   req>>

\* An appeal has a job for GenLayer, which is inserted before the one for Base.
EnqueueAppeal(a) ==
    /\ Move(a, "written", "queued") /\ Kind(a) = "appeal"
    /\ genlayer' = [genlayer EXCEPT ![a] = "PENDING"]
    /\ UNCHANGED <<docs, operations, jobs, deliveries, base, command, req>>

Enqueue(a) ==
    /\ pc[a] \in {"written", "queued"}
    /\ Kind(a) = "appeal" <=> pc[a] = "queued"
    /\ pc' = [pc EXCEPT ![a] = "answered"]
    /\ jobs' = [jobs EXCEPT ![a].status = "PENDING"]
    /\ IF Kind(a) = "deliver"
       THEN /\ genlayer' = [genlayer EXCEPT ![a] = "WAITING"]
            /\ deliveries' = Append(deliveries, a)
       ELSE UNCHANGED <<genlayer, deliveries>>
    /\ UNCHANGED <<docs, operations, base, command, req>>

\* The invocation of the handler ends; the client sees an error or a time-out.
Stop(a) ==
    /\ pc[a] \in {"verified", "looked", "begun", "written", "queued"}
    /\ pc' = [pc EXCEPT ![a] = "stopped"]
    /\ UNCHANGED <<server, base, command, req>>

(***************************************************************************)
(* The processor and Base.                                                 *)
(***************************************************************************)

\* The call is built from the document as it is now; an appeal is found by id.
Send(a) ==
    /\ jobs[a].status = "PENDING"
    /\ jobs' = [jobs EXCEPT
         ![a] = [status |-> "SUBMITTED", sends |-> @.sends + 1,
                 call |-> "pending", noted |-> FALSE,
                 sent |-> IF Kind(a) = "appeal" THEN a
                          ELSE docs[Target(a)].auth[Kind(a)]]]
    /\ UNCHANGED <<docs, operations, genlayer, deliveries, base, client>>

\* The guards of createMandate, acceptMandate, submitDelivery, recordAppeal.
Executes(b) ==
    LET on == chain[Target(b)]
        current == nonces[Agent(b)] = req[b].nonce IN
    CASE Kind(b) = "create" -> on.stage = "None" /\ current
      [] Kind(b) = "accept" ->
            on.stage = "Funded" /\ on.provider \in {NoAgent, Agent(b)} /\ current
      [] Kind(b) = "deliver" ->
            on.stage = "Active" /\ on.provider = Agent(b) /\ current
      [] Kind(b) = "appeal" -> req[b].role \notin on.appeals

After(b, on) ==
    CASE Kind(b) = "create" ->
            [on EXCEPT !.stage = "Funded", !.provider = Provider(b)]
      [] Kind(b) = "accept" ->
            [on EXCEPT !.stage = "Active", !.provider = Agent(b)]
      [] Kind(b) = "deliver" -> [on EXCEPT !.stage = "Submitted"]
      [] Kind(b) = "appeal" -> [on EXCEPT !.appeals = @ \cup {req[b].role}]

Execute(a) ==
    /\ jobs[a].call = "pending"
    /\ LET b == jobs[a].sent IN
       /\ Executes(b)
       /\ jobs' = [jobs EXCEPT ![a].call = "executed"]
       /\ chain' = [chain EXCEPT ![Target(b)] = After(b, @)]
       /\ nonces' = IF Kind(b) = "appeal" THEN nonces
                    ELSE [nonces EXCEPT ![Agent(b)] = @ + 1]
    /\ UNCHANGED <<docs, operations, genlayer, deliveries, client>>

\* A guard refuses the call; an appeal also if its case is not linked yet or is
\* finalized.
Revert(a) ==
    /\ jobs[a].call = "pending"
    /\ Kind(a) = "appeal" \/ ~Executes(jobs[a].sent)
    /\ jobs' = [jobs EXCEPT ![a].call = "reverted"]
    /\ UNCHANGED <<docs, operations, genlayer, deliveries, base, client>>

StatusAfter(k, status) ==
    CASE k = "create" -> "OPEN" [] k = "accept" -> "ACTIVE"
      [] k = "deliver" -> "SUBMITTED" [] k = "appeal" -> status

\* Mutant of Note: any task that ended counts as done.
NoteAnyEnd(a) ==
    /\ jobs[a].status = "SUBMITTED"
    /\ jobs[a].call \in {"executed", "reverted"}
    /\ jobs' = [jobs EXCEPT ![a].noted = TRUE]
    /\ docs' = [docs EXCEPT ![Target(a)].status = StatusAfter(Kind(a), @)]
    /\ UNCHANGED <<operations, genlayer, deliveries, base, client>>

\* The processor polls a task that succeeded and writes the status, once more
\* if it is killed before it completes the job.
Note(a) ==
    /\ jobs[a].status = "SUBMITTED"
    /\ jobs[a].call = "executed"
    /\ jobs' = [jobs EXCEPT ![a].noted = TRUE]
    /\ docs' = [docs EXCEPT ![Target(a)].status = StatusAfter(Kind(a), @)]
    /\ UNCHANGED <<operations, genlayer, deliveries, base, client>>

Finish(a) ==
    /\ jobs[a].status = "SUBMITTED" /\ jobs[a].noted
    /\ jobs' = [jobs EXCEPT ![a].status = "COMPLETED"]
    /\ UNCHANGED <<docs, operations, genlayer, deliveries, base, client>>

\* Mutant of Retry: one send too many.
RetryOneMore(a) ==
    /\ jobs[a].call = "reverted" /\ jobs[a].status = "SUBMITTED"
    /\ jobs' = [jobs EXCEPT ![a].status =
                  IF jobs[a].sends > MaxSends THEN "FAILED" ELSE "PENDING"]
    /\ UNCHANGED <<docs, operations, genlayer, deliveries, base, client>>

Retry(a) ==
    /\ jobs[a].call = "reverted" /\ jobs[a].status = "SUBMITTED"
    /\ jobs' = [jobs EXCEPT ![a].status =
                  IF jobs[a].sends >= MaxSends
                  THEN "FAILED" ELSE "PENDING"]
    /\ UNCHANGED <<docs, operations, genlayer, deliveries, base, client>>

Deliveries(m) == SelectSeq(deliveries, LAMBDA a : Target(a) = m)

\* The adjudication of a mandate looks at its latest delivery job, and submits
\* the case unless that was done before.
Adjudicate(a) ==
    /\ genlayer[a] = "WAITING"
    /\ LET latest == jobs[Last(Deliveries(Target(a)))].status
           d == docs[Target(a)] IN
       \/ /\ latest = "COMPLETED"
          /\ genlayer' = [genlayer EXCEPT ![a] = "SUBMITTED"]
          /\ docs' = IF d.judged THEN docs
                     ELSE [docs EXCEPT ![Target(a)] =
                             [@ EXCEPT !.judged = TRUE,
                                       !.status = "UNDER_REVIEW"]]
       \/ /\ latest = "FAILED"
          /\ genlayer' = [genlayer EXCEPT ![a] = "FAILED"]
          /\ UNCHANGED docs
    /\ UNCHANGED <<operations, jobs, deliveries, base, client>>

\* The appeal is sent to GenLayer and the document marked, unless the processor
\* is killed before that or GenLayer refuses the appeal to the end.
AppealJudgment(a) ==
    /\ genlayer[a] = "PENDING"
    /\ genlayer' = [genlayer EXCEPT ![a] = "ENDED"]
    /\ docs' \in {docs, [docs EXCEPT ![Target(a)].status = "APPEALED"]}
    /\ UNCHANGED <<operations, jobs, deliveries, base, client>>

Process(a) ==
    Send(a) \/ Execute(a) \/ Revert(a) \/ Note(a) \/ Finish(a) \/ Retry(a)
    \/ Adjudicate(a) \/ AppealJudgment(a)
Handle(a) ==
    Verify(a) \/ Lookup(a) \/ InsertOperation(a) \/ WriteDocument(a)
    \/ EnqueueAppeal(a) \/ Enqueue(a)

Next ==
    \/ \E c \in Commands : Give(c)
    \/ \E a \in Attempts :
          Prepare(a) \/ Resend(a) \/ Handle(a) \/ Stop(a) \/ Process(a)

Spec == Init /\ [][Next]_vars

(***************************************************************************)
(* Properties.                                                             *)
(***************************************************************************)

PC == {"idle", "snapshots", "prepared", "verified", "looked", "begun",
       "written", "queued", "answered", "refused", "stopped"}

\* Every variable has its type.
TypeOK ==
    /\ operations \subseteq Attempts
    /\ pc \in [Attempts -> PC]
    /\ nonces \in [Agents -> Nat]
    /\ \A a \in Attempts :
          /\ jobs[a].status \in
                {"ABSENT", "PENDING", "SUBMITTED", "COMPLETED", "FAILED"}
          /\ jobs[a].sends \in 0 .. MaxSends
          /\ jobs[a].sent \in Attempts \cup {NoAttempt}
    /\ genlayer \in
          [Attempts -> {"ABSENT", "WAITING", "PENDING", "SUBMITTED",
                        "ENDED", "FAILED"}]
    /\ deliveries \in Seq(Attempts)

\* What a command asked for takes effect on Base at most once, however often it
\* is tried under its key, and although a try may prepare a mandate of its own:
\* no wallet is charged twice for one command.
CarriedOncePerCommand ==
    \A a, b \in Attempts :
        /\ a[1] = b[1]
        /\ jobs[a].call = "executed" /\ jobs[b].call = "executed"
        => a = b

\* A creation of m was begun that Base did not carry out.
Overwritten(m) ==
    \E c \in operations :
        /\ Kind(c) = "create" /\ Target(c) = m
        /\ \A a \in Attempts :
              jobs[a].call = "executed" => jobs[a].sent # c

\* Two agents never both get a job for the acceptance of one mandate, although
\* each was checked against an older document and the status OPEN is written
\* again when the processor was killed; unless a creation that Base will not
\* carry out was written over the document.
OneClaimant ==
    \A a, b \in Attempts :
        /\ Kind(a) = "accept" /\ Kind(b) = "accept" /\ Target(a) = Target(b)
        /\ jobs[a].status # "ABSENT" /\ jobs[b].status # "ABSENT"
        => Agent(a) = Agent(b) \/ Overwritten(Target(a))

\* Base takes each stage of a mandate once, and one appeal of each role: of
\* two deliveries of one provider, sent under one nonce, or two appeals that
\* both passed the handler's check, only one is ever reported as completed.
CompletedOncePerStage ==
    \A a, b \in Attempts :
        /\ Kind(a) = Kind(b) /\ Target(a) = Target(b)
        /\ Kind(a) = "appeal" => req[a].role = req[b].role
        /\ jobs[a].status = "COMPLETED" /\ jobs[b].status = "COMPLETED"
        => a = b

=============================================================================
