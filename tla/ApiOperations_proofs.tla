------------------------ MODULE ApiOperations_proofs ------------------------
(***************************************************************************)
(* What ApiOperations promises, for every number of agents, mandates,      *)
(* commands, tries and sends.  ApiInv is the inductive invariant: what is  *)
(* known of a request from its preparation to its completed job.           *)
(***************************************************************************)
EXTENDS ApiOperations, TLAPS

AllKinds == CallKinds \cup {"appeal"}

DocStatus == {"NONE", "DRAFT", "RELAY_PENDING", "OPEN", "ACCEPT_RELAY_PENDING",
              "ACTIVE", "DELIVERY_RELAY_PENDING", "SUBMITTED", "UNDER_REVIEW",
              "APPEAL_WINDOW", "APPEAL_PENDING", "APPEALED",
              "SETTLEMENT_PENDING"}
AnyRole == Roles \cup {"none"}
Docs == [status : DocStatus, principal : Agents \cup {NoAgent},
         provider : Agents \cup {NoAgent},
         auth : [CallKinds -> Attempts \cup {NoAttempt}],
         prepared : Manifests \cup {NoManifest},
         judged : BOOLEAN,
         appeals : SUBSET [by : Attempts, role : AnyRole]]
OnBase == [stage : {"None", "Funded", "Active", "Submitted"},
           provider : Agents \cup {NoAgent}, appeals : SUBSET AnyRole]
Calls == [status : {"ABSENT", "PENDING", "SUBMITTED", "COMPLETED", "FAILED"},
          sends : 0 .. MaxSends, sent : Attempts \cup {NoAttempt},
          call : {"none", "pending", "executed", "reverted"}, noted : BOOLEAN]
Requests == [mandate : Mandates \cup {NoMandate}, nonce : Nat, role : AnyRole]
Courts == {"ABSENT", "WAITING", "PENDING", "SUBMITTED", "ENDED", "FAILED"}

Types ==
    /\ operations \subseteq Attempts
    /\ pc \in [Attempts -> PC]
    /\ nonces \in [Agents -> Nat]
    /\ jobs \in [Attempts -> Calls]
    /\ genlayer \in [Attempts -> Courts]
    /\ deliveries \in Seq(Attempts)
    /\ docs \in [Mandates -> Docs]
    /\ chain \in [Mandates -> OnBase]
    /\ command \in [Commands -> AnyCommand \cup {NoCommand}]
    /\ req \in [Attempts -> Requests]

\* A request that was signed, and that the server may still act on or has
\* begun an operation for.
Known(a) ==
    pc[a] \notin {"idle", "snapshots", "refused"} \/ a \in operations

\* It is for a mandate, and of a command that was given.
RequestSound(a) ==
    /\ a \in operations => pc[a] \notin {"idle", "snapshots"}
    /\ pc[a] # "idle" => command[a[1]] \in AnyCommand
    /\ pc[a] = "snapshots" => Kind(a) = "deliver"
    /\ Known(a) => req[a].mandate \in Mandates

\* The handler that inserted an operation goes on with it, and only an
\* operation that was answered has a job for Base.
OperationSound(a) ==
    /\ pc[a] \in {"begun", "written", "queued"} => a \in operations
    /\ jobs[a].status # "ABSENT" => a \in operations /\ pc[a] = "answered"
    /\ genlayer[a] # "ABSENT" => a \in operations

\* No operation has the key of another.
OneOperationPerKey ==
    \A a, b \in operations : KeyOf(a) = KeyOf(b) => a = b

\* A document holds, for each kind, the request of that kind that wrote it
\* last, and holds one for every job.
AuthSound(m, k) ==
    LET b == docs[m].auth[k] IN
    b # NoAttempt =>
        /\ b \in operations /\ Kind(b) = k /\ Target(b) = m
        /\ pc[b] # "begun"
AuthThere(a) ==
    /\ jobs[a].status # "ABSENT" \/ pc[a] = "written"
    /\ Kind(a) # "appeal"
    => docs[Target(a)].auth[Kind(a)] # NoAttempt

\* A job has a call that is sent anew until it executes or has failed, and its
\* outcome is noted only when it executed.
JobSound(a) ==
    /\ jobs[a].status = "ABSENT" => jobs[a] = NoCall
    /\ jobs[a].status = "PENDING" => jobs[a].sends < MaxSends
    /\ jobs[a].status = "COMPLETED" => jobs[a].call = "executed"
    /\ jobs[a].noted => jobs[a].call = "executed"
    /\ jobs[a].call = "pending" => jobs[a].status = "SUBMITTED"
    /\ jobs[a].call = "executed" => jobs[a].status \in {"SUBMITTED", "COMPLETED"}

\* The call that is sent does what its job is for, and was written before.
SentSound(a) ==
    LET b == jobs[a].sent IN
    jobs[a].call # "none" =>
        /\ b \in operations /\ Kind(b) = Kind(a) /\ Target(b) = Target(a)
        /\ Kind(a) = "appeal" => b = a
        /\ pc[b] # "begun"

\* What Base shows once a call of a kind has executed.
Past(a, on) ==
    /\ Kind(a) = "create" => on.stage # "None"
    /\ Kind(a) = "accept" => on.stage \in {"Active", "Submitted"}
    /\ Kind(a) = "deliver" => on.stage = "Submitted"
    /\ Kind(a) = "appeal" => req[a].role \in on.appeals

ExecutedSound(a) == jobs[a].call = "executed" => Past(a, chain[Target(a)])

Same(a, b) ==
    /\ Kind(a) = Kind(b) /\ Target(a) = Target(b)
    /\ Kind(a) = "appeal" => req[a].role = req[b].role

ExecutedOnce ==
    \A a, b \in Attempts :
        /\ Same(a, b)
        /\ jobs[a].call = "executed" /\ jobs[b].call = "executed"
        => a = b

\* A mandate is open to acceptances only when Base has it.
OpenFunded ==
    \A m \in Mandates : docs[m].status = "OPEN" => chain[m].stage # "None"

\* An acceptance that was written holds its mandate, unless a creation that
\* Base never carries out was written over it.
Holds(a) ==
    Kind(a) = "accept" /\ (jobs[a].status # "ABSENT" \/ pc[a] = "written")
ClaimHeld(a) ==
    Holds(a) =>
        /\ chain[Target(a)].stage # "None"
        /\ docs[Target(a)].provider = Agent(a) \/ Overwritten(Target(a))

\* What is known of the documents and of the calls.
Recorded ==
    /\ \A m \in Mandates, k \in CallKinds : AuthSound(m, k)
    /\ \A a \in Attempts : AuthThere(a)
    /\ \A a \in Attempts : JobSound(a)
    /\ \A a \in Attempts : SentSound(a)
    /\ \A a \in Attempts : ExecutedSound(a)
    /\ ExecutedOnce
    /\ OpenFunded
    /\ \A a \in Attempts : ClaimHeld(a)

ApiInv ==
    /\ Types
    /\ \A a \in Attempts : RequestSound(a)
    /\ \A a \in Attempts : OperationSound(a)
    /\ OneOperationPerKey
    /\ Recorded

-----------------------------------------------------------------------------

\* A try belongs to a command, and is not the mark of no try.
LEMMA AttemptParts == ASSUME NEW a \in Attempts
                      PROVE  a[1] \in Commands /\ a # NoAttempt
<1>1. PICK c \in Commands : a \in {c} \X (1 .. MaxTries[c])
  BY DEF Attempts
<1>2. a[1] = c
  BY <1>1
<1>3. c # NoAgent
  BY OperationsAssumption
<1> QED BY <1>2, <1>3 DEF NoAttempt

\* What a command asks for is a kind of request of an agent, and for a mandate
\* unless it is a creation.
LEMMA GivenParts == ASSUME NEW w \in AnyCommand
                    PROVE  /\ w.kind \in AllKinds /\ w.agent \in Agents
                           /\ w.kind # "create" => w.mandate \in Mandates
                           /\ w.mandate \in Mandates \cup {NoMandate}
                           /\ w.provider \in Agents \cup {NoAgent}
                           /\ w.manifest \in Manifests \cup {NoManifest}
                           /\ w # NoCommand
<1>1. /\ w.kind \in AllKinds /\ w.agent \in Agents
      /\ w.kind # "create" => w.mandate \in Mandates
      /\ w.mandate \in Mandates \cup {NoMandate}
      /\ w.provider \in Agents \cup {NoAgent}
      /\ w.manifest \in Manifests \cup {NoManifest}
  BY DEF AnyCommand, CreateCommand, AcceptCommand, DeliverCommand,
         AppealCommand, CommandOf, AllKinds, CallKinds
<1>2. w.kind # "none"
  BY <1>1 DEF AllKinds, CallKinds
<1> QED BY <1>1, <1>2 DEF NoCommand

\* Every start of a mandate is a document and a state of Base, open only if
\* Base has it.
LEMMA StartParts == ASSUME NEW s \in AnyStart
                    PROVE  /\ StartDoc(s) \in Docs /\ StartOn(s) \in OnBase
                           /\ \A k \in CallKinds :
                                 StartDoc(s).auth[k] = NoAttempt
                           /\ StartDoc(s).status = "OPEN" =>
                                 StartOn(s).stage # "None"
<1>1. /\ s.stage \in {"new", "open", "active", "judged", "settling"}
      /\ s.principal \in Agents \cup {NoAgent}
      /\ s.provider \in Agents \cup {NoAgent}
  BY DEF AnyStart
<1>2. /\ StartStatus(s.stage) \in DocStatus
      /\ StartStage(s.stage) \in {"None", "Funded", "Active", "Submitted"}
      /\ StartStatus(s.stage) = "OPEN" => StartStage(s.stage) # "None"
  BY <1>1 DEF StartStatus, StartStage, DocStatus
<1>3. /\ StartDoc(s).status = StartStatus(s.stage)
      /\ StartOn(s).stage = StartStage(s.stage)
      /\ \A k \in CallKinds : StartDoc(s).auth[k] = NoAttempt
  BY DEF StartDoc, StartOn
<1>4. StartDoc(s) \in Docs
  BY <1>1, <1>2 DEF StartDoc, Docs
<1>5. StartOn(s) \in OnBase
  BY <1>1, <1>2 DEF StartOn, OnBase
<1> QED BY <1>2, <1>3, <1>4, <1>5

\* The initial states satisfy the invariant.
LEMMA Initially == Init => ApiInv
<1> SUFFICES ASSUME Init PROVE ApiInv
  OBVIOUS
<1>1. NoCall \in Calls
  BY OperationsAssumption DEF NoCall, Calls
<1>2. \A a \in Attempts :
         /\ pc[a] = "idle" /\ a \notin operations /\ jobs[a] = NoCall
         /\ genlayer[a] = "ABSENT"
  BY DEF Init
<1>3. /\ docs \in [Mandates -> Docs] /\ chain \in [Mandates -> OnBase]
      /\ \A m \in Mandates, k \in CallKinds : docs[m].auth[k] = NoAttempt
      /\ OpenFunded
  <2>1. PICK first \in Mandates, start \in Starts :
           /\ docs = [m \in Mandates |->
                        StartDoc(IF m = first THEN start ELSE Undrafted)]
           /\ chain = [m \in Mandates |->
                        StartOn(IF m = first THEN start ELSE Undrafted)]
    BY DEF Init
  <2>2. start \in AnyStart /\ Undrafted \in AnyStart
    BY OperationsAssumption DEF AnyStart, Undrafted
  <2>3. \A m \in Mandates : (IF m = first THEN start ELSE Undrafted) \in AnyStart
    BY <2>2
  <2> QED BY <2>1, <2>3, StartParts DEF OpenFunded
<1>4. Types
  <2>1. /\ operations \subseteq Attempts
        /\ pc \in [Attempts -> PC]
        /\ nonces \in [Agents -> Nat]
    BY DEF Init, PC
  <2>2. jobs \in [Attempts -> Calls]
    BY <1>1 DEF Init
  <2>3. genlayer \in [Attempts -> Courts] /\ deliveries \in Seq(Attempts)
    BY DEF Init, Courts
  <2>4. command \in [Commands -> AnyCommand \cup {NoCommand}]
    BY DEF Init
  <2>5. req \in [Attempts -> Requests]
    BY DEF Init, NoRequest, Requests, AnyRole
  <2> QED BY <1>3, <2>1, <2>2, <2>3, <2>4, <2>5 DEF Types
<1>5. \A a \in Attempts :
         /\ jobs[a].status = "ABSENT" /\ jobs[a].call = "none"
         /\ ~jobs[a].noted /\ ~Known(a)
  BY <1>2 DEF NoCall, Known
<1>6. ASSUME NEW a \in Attempts
      PROVE  /\ RequestSound(a) /\ OperationSound(a)
             /\ JobSound(a) /\ AuthThere(a) /\ SentSound(a) /\ ExecutedSound(a)
             /\ ClaimHeld(a)
  <2>1. RequestSound(a) /\ OperationSound(a)
    BY <1>2, <1>5 DEF RequestSound, OperationSound
  <2>2. JobSound(a)
    BY <1>2, <1>5 DEF JobSound
  <2>3. AuthThere(a) /\ ClaimHeld(a)
    BY <1>2, <1>5 DEF AuthThere, ClaimHeld, Holds
  <2>4. SentSound(a) /\ ExecutedSound(a)
    BY <1>5 DEF SentSound, ExecutedSound
  <2> QED BY <2>1, <2>2, <2>3, <2>4
<1>7. ExecutedOnce
  BY <1>2 DEF ExecutedOnce, NoCall
<1>8. OneOperationPerKey
  BY DEF Init, OneOperationPerKey
<1>9. \A m \in Mandates, k \in CallKinds : AuthSound(m, k)
  BY <1>3 DEF AuthSound
<1> QED BY <1>3, <1>4, <1>6, <1>7, <1>8, <1>9 DEF ApiInv, Recorded

-----------------------------------------------------------------------------

\* Nobody signs or settles a command that was not given.
LEMMA KnownHas ==
    ASSUME ApiInv, NEW a \in Attempts, Known(a)
    PROVE  /\ pc[a] # "idle" /\ command[a[1]] \in AnyCommand
           /\ Kind(a) \in AllKinds /\ Agent(a) \in Agents
           /\ Target(a) \in Mandates
           /\ Provider(a) \in Agents \cup {NoAgent}
<1>1. RequestSound(a)
  BY DEF ApiInv
<1>2. pc[a] # "idle" /\ command[a[1]] \in AnyCommand
      /\ req[a].mandate \in Mandates
  BY <1>1 DEF RequestSound, Known
<1> QED BY <1>2, GivenParts DEF Kind, Agent, Target, Provider

\* What is called or adjudicated has an operation.
LEMMA JobsKnown ==
    ASSUME ApiInv, NEW a \in Attempts
    PROVE  /\ jobs[a] \in Calls
           /\ a \in operations => Known(a)
           /\ pc[a] \in {"begun", "written", "queued"} => a \in operations
           /\ jobs[a].status # "ABSENT" => a \in operations
           /\ jobs[a].call # "none" => jobs[a].status # "ABSENT"
           /\ genlayer[a] # "ABSENT" => a \in operations
<1>1. OperationSound(a) /\ JobSound(a) /\ jobs[a] \in Calls
  BY DEF ApiInv, Recorded, Types
<1> QED BY <1>1 DEF OperationSound, JobSound, Known, NoCall

\* What an operation asks for stays.
RequestsStay ==
    \A b \in operations :
        /\ Kind(b)' = Kind(b) /\ Agent(b)' = Agent(b)
        /\ Target(b)' = Target(b)
        /\ jobs[b].status # "ABSENT" => req'[b].role = req[b].role

\* Two jobs that executed are for the same thing only if they were before.
LEMMA SameStays ==
    ASSUME ApiInv, RequestsStay, NEW a \in Attempts, NEW b \in Attempts,
           jobs[a].status # "ABSENT", jobs[b].status # "ABSENT"
    PROVE  /\ Same(a, b)' <=> Same(a, b)
           /\ \A on : Past(a, on)' <=> Past(a, on)
<1>1. a \in operations /\ b \in operations
  BY JobsKnown
<1>2. /\ Kind(a)' = Kind(a) /\ Kind(b)' = Kind(b)
      /\ Target(a)' = Target(a) /\ Target(b)' = Target(b)
      /\ req'[a].role = req[a].role /\ req'[b].role = req[b].role
  BY <1>1 DEF RequestsStay
<1> QED BY <1>2 DEF Same, Past

\* Neither the documents' requests nor the calls are touched by a step that
\* changes no job and nothing on Base.
LEMMA QuietStep ==
    ASSUME ApiInv, RequestsStay, operations \subseteq operations',
           jobs' = jobs, chain' = chain,
           \A b \in operations : pc'[b] = "begun" => pc[b] = "begun",
           \A b \in Attempts : pc'[b] = "written" => pc[b] = "written",
           \A m \in Mandates :
              /\ docs'[m].auth = docs[m].auth
              /\ docs'[m].provider = docs[m].provider
              /\ docs'[m].status = "OPEN" => docs[m].status = "OPEN"
    PROVE  Recorded'
<1>1. operations \subseteq Attempts
  BY DEF ApiInv, Types
<1>2. ASSUME NEW m \in Mandates, NEW k \in CallKinds
      PROVE  AuthSound(m, k)'
  <2>1. AuthSound(m, k)
    BY DEF ApiInv, Recorded
  <2> QED BY <1>1, <2>1 DEF AuthSound, RequestsStay
<1>3. ASSUME NEW b \in Attempts
      PROVE  /\ AuthThere(b)' /\ JobSound(b)' /\ SentSound(b)'
             /\ ExecutedSound(b)' /\ ClaimHeld(b)'
  <2>1. /\ AuthThere(b) /\ JobSound(b) /\ SentSound(b) /\ ExecutedSound(b)
        /\ ClaimHeld(b)
    BY DEF ApiInv, Recorded
  <2>2. CASE b \in operations
    <3>1. /\ Kind(b)' = Kind(b) /\ Agent(b)' = Agent(b)
          /\ Target(b)' = Target(b) /\ Target(b) \in Mandates
          /\ Kind(b) \in AllKinds
      BY <2>2, KnownHas, JobsKnown DEF RequestsStay
    <3>2. AuthThere(b)'
      BY <2>1, <3>1 DEF AuthThere
    <3>3. JobSound(b)'
      BY <2>1 DEF JobSound
    <3>4. SentSound(b)'
      BY <1>1, <2>1, <3>1 DEF SentSound, RequestsStay
    <3>5. ExecutedSound(b)'
      <4>1. SUFFICES ASSUME jobs[b].call = "executed"
                     PROVE  Past(b, chain[Target(b)])'
        BY DEF ExecutedSound
      <4>2. Past(b, chain[Target(b)]) /\ jobs[b].status # "ABSENT"
        BY <2>1, <4>1, JobsKnown DEF ExecutedSound
      <4>3. req'[b].role = req[b].role
        BY <2>2, <4>2 DEF RequestsStay
      <4> QED BY <3>1, <4>2, <4>3 DEF Past
    <3>6. ClaimHeld(b)'
      <4>1. SUFFICES ASSUME Holds(b)'
                     PROVE  /\ chain'[Target(b)'].stage # "None"
                            /\ \/ docs'[Target(b)'].provider = Agent(b)'
                               \/ Overwritten(Target(b))'
        BY DEF ClaimHeld
      <4>2. Holds(b)
        BY <3>1, <4>1 DEF Holds
      <4>3. Overwritten(Target(b)) => Overwritten(Target(b))'
        <5>1. SUFFICES ASSUME Overwritten(Target(b))
                       PROVE  Overwritten(Target(b))'
          OBVIOUS
        <5>2. PICK c \in operations :
                 /\ Kind(c) = "create" /\ Target(c) = Target(b)
                 /\ \A a \in Attempts :
                       jobs[a].call = "executed" => jobs[a].sent # c
          BY <5>1 DEF Overwritten
        <5>3. /\ Kind(c)' = "create" /\ Target(c)' = Target(b)'
              /\ c \in operations'
          BY <3>1, <5>2 DEF RequestsStay
        <5> QED BY <5>2, <5>3 DEF Overwritten
      <4> QED BY <2>1, <3>1, <4>2, <4>3 DEF ClaimHeld
    <3> QED BY <3>2, <3>3, <3>4, <3>5, <3>6
  <2>3. CASE b \notin operations
    <3>1. jobs[b].status = "ABSENT" /\ pc[b] # "written"
          /\ jobs[b].call = "none"
      BY <2>3, JobsKnown
    <3> QED BY <2>1, <3>1
        DEF AuthThere, JobSound, SentSound, ExecutedSound, ClaimHeld, Holds
  <2> QED BY <2>2, <2>3
<1>4. ExecutedOnce'
  <2>1. \A a, b \in Attempts :
           jobs[a].call = "executed" /\ jobs[b].call = "executed" =>
              (Same(a, b)' <=> Same(a, b))
    BY SameStays, JobsKnown
  <2> QED BY <2>1 DEF ApiInv, Recorded, ExecutedOnce
<1>5. OpenFunded'
  BY DEF ApiInv, Recorded, OpenFunded
<1> QED BY <1>2, <1>3, <1>4, <1>5 DEF Recorded

\* A handler, or the client before it, moves on without inserting anything: the
\* documents keep their requests and their providers.
LEMMA HandlerStep ==
    ASSUME ApiInv, UNCHANGED <<operations, jobs, genlayer, deliveries, base,
                               command>>,
           NEW a \in Attempts,
           NEW p \in PC \ {"idle", "begun", "written", "queued"},
           pc' = [pc EXCEPT ![a] = p], pc[a] # "answered",
           command[a[1]] \in AnyCommand,
           p = "snapshots" => a \notin operations /\ Kind(a) = "deliver",
           NEW r \in Requests, req' = [req EXCEPT ![a] = r],
           a \in operations => r.mandate = req[a].mandate,
           p \in {"snapshots", "refused"} \/ r.mandate \in Mandates,
           docs' \in [Mandates -> Docs],
           \A m \in Mandates :
              /\ docs'[m].auth = docs[m].auth
              /\ docs'[m].provider = docs[m].provider
              /\ docs'[m].status = "OPEN" => docs[m].status = "OPEN"
    PROVE  ApiInv'
<1>1. /\ operations' = operations /\ jobs' = jobs /\ genlayer' = genlayer
      /\ deliveries' = deliveries /\ chain' = chain /\ nonces' = nonces
      /\ command' = command
  BY DEF base
<1>2. operations \subseteq Attempts
  BY DEF ApiInv, Types
<1>3. /\ \A b \in Attempts : pc'[b] = IF b = a THEN p ELSE pc[b]
      /\ \A b \in Attempts : req'[b] = IF b = a THEN r ELSE req[b]
  BY DEF ApiInv, Types
<1>4. Types'
  <2>1. pc' \in [Attempts -> PC] /\ req' \in [Attempts -> Requests]
    BY DEF ApiInv, Types
  <2> QED BY <1>1, <2>1 DEF ApiInv, Types
<1>5. \A b \in Attempts : /\ Kind(b)' = Kind(b) /\ Agent(b)' = Agent(b)
                          /\ b # a => Target(b)' = Target(b)
  BY <1>1, <1>3 DEF Kind, Agent, Target
<1>6. a \in operations => /\ Target(a)' = Target(a)
                          /\ jobs[a].status = "ABSENT"
                          /\ Target(a) \in Mandates
  <2>1. jobs[a].status = "ABSENT"
    BY DEF ApiInv, OperationSound
  <2>2. a \in operations => Target(a) \in Mandates
    BY KnownHas, JobsKnown
  <2> QED BY <1>3, <2>1, <2>2 DEF Target
<1>7. RequestsStay
  BY <1>2, <1>3, <1>5, <1>6 DEF RequestsStay
<1>8. ASSUME NEW b \in Attempts
      PROVE  RequestSound(b)' /\ OperationSound(b)'
  <2>1. RequestSound(b) /\ OperationSound(b)
    BY DEF ApiInv
  <2>2. RequestSound(b)'
    <3>1. CASE b # a
      BY <1>1, <1>3, <1>5, <2>1, <3>1 DEF RequestSound, Known
    <3>2. CASE b = a
      <4>1. a \in operations => r.mandate \in Mandates
        BY <1>6 DEF Target
      <4>2. pc'[a] = p /\ req'[a] = r /\ Kind(a)' = Kind(a)
        BY <1>3, <1>5
      <4>3. p # "idle" /\ (p = "snapshots" => a \notin operations)
        OBVIOUS
      <4> QED BY <1>1, <3>2, <4>1, <4>2, <4>3 DEF RequestSound, Known
    <3> QED BY <3>1, <3>2
  <2>3. OperationSound(b)'
    BY <1>1, <1>3, <2>1 DEF OperationSound
  <2> QED BY <2>2, <2>3
<1>9. OneOperationPerKey'
  BY <1>1 DEF ApiInv, OneOperationPerKey, KeyOf
<1>10. Recorded'
  <2>1. /\ \A b \in operations : pc'[b] = "begun" => pc[b] = "begun"
        /\ \A b \in Attempts : pc'[b] = "written" => pc[b] = "written"
    BY <1>2, <1>3
  <2> QED BY <1>1, <1>7, <2>1, QuietStep
<1> QED BY <1>4, <1>8, <1>9, <1>10 DEF ApiInv

\* A command is given once.
LEMMA GiveStep == ASSUME ApiInv, NEW c \in Commands, Give(c) PROVE ApiInv'
<1>1. /\ docs' = docs /\ operations' = operations /\ jobs' = jobs
      /\ genlayer' = genlayer /\ deliveries' = deliveries
      /\ chain' = chain /\ nonces' = nonces /\ req' = req /\ pc' = pc
  BY DEF Give, server, base
<1>2. PICK want \in AnyCommand : command' = [command EXCEPT ![c] = want]
  BY OperationsAssumption DEF Give
<1>3. Types'
  BY <1>1, <1>2 DEF ApiInv, Types
<1>4. ASSUME NEW a \in Attempts, pc[a] # "idle"
      PROVE  command'[a[1]] = command[a[1]]
  <2>1. command[a[1]] \in AnyCommand
    BY <1>4 DEF ApiInv, RequestSound
  <2>2. a[1] # c
    BY <2>1, GivenParts DEF Give
  <2> QED BY <1>2, <2>2, AttemptParts DEF ApiInv, Types
<1>5. \A a \in Attempts : pc[a] # "idle" =>
         /\ Kind(a)' = Kind(a) /\ Agent(a)' = Agent(a) /\ Target(a)' = Target(a)
  BY <1>1, <1>4 DEF Kind, Agent, Target
<1>6. operations \subseteq Attempts /\ \A a \in operations : pc[a] # "idle"
  BY KnownHas, JobsKnown DEF ApiInv, Types
<1>7. ASSUME NEW a \in Attempts
      PROVE  RequestSound(a)' /\ OperationSound(a)'
  <2>1. RequestSound(a) /\ OperationSound(a)
    BY DEF ApiInv
  <2>2. RequestSound(a)'
    <3>1. pc[a] # "idle" => command'[a[1]] = command[a[1]]
      BY <1>4
    <3> QED BY <1>1, <1>5, <2>1, <3>1 DEF RequestSound, Known
  <2> QED BY <1>1, <2>1, <2>2 DEF OperationSound
<1>8. OneOperationPerKey'
  BY <1>1 DEF ApiInv, OneOperationPerKey, KeyOf
<1>9. RequestsStay
  BY <1>1, <1>5, <1>6 DEF RequestsStay
<1>10. Recorded'
  BY <1>1, <1>9, QuietStep
<1> QED BY <1>3, <1>7, <1>8, <1>10 DEF ApiInv

-----------------------------------------------------------------------------

\* What a try that may start is given.
LEMMA StartableHas ==
    ASSUME ApiInv, NEW a \in Attempts, Startable(a)
    PROVE  /\ pc[a] = "idle" /\ a \notin operations
           /\ command[a[1]] \in AnyCommand
           /\ Agent(a) \in Agents
           /\ Kind(a) # "create" => command[a[1]].mandate \in Mandates
<1>1. pc[a] = "idle" /\ command[a[1]] # NoCommand
  BY DEF Startable
<1>2. command[a[1]] \in AnyCommand
  BY <1>1, AttemptParts DEF ApiInv, Types
<1>3. a \notin operations
  BY <1>1, KnownHas, JobsKnown
<1> QED BY <1>1, <1>2, <1>3, GivenParts DEF Agent, Kind

\* The answer to a preparation is for a mandate.
LEMMA PreparedStep ==
    ASSUME ApiInv, NEW a \in Attempts, NEW m \in Mandates,
           pc[a] \in {"idle", "snapshots"}, a \notin operations,
           command[a[1]] \in AnyCommand, TypedData(a, m),
           docs' \in [Mandates -> Docs],
           \A n \in Mandates :
              /\ docs'[n].auth = docs[n].auth
              /\ docs'[n].provider = docs[n].provider
              /\ docs'[n].status = "OPEN" => docs[n].status = "OPEN"
    PROVE  ApiInv'
<1> DEFINE r == [req[a] EXCEPT !.mandate = m, !.nonce = nonces[Agent(a)]]
<1>1. /\ UNCHANGED <<operations, jobs, genlayer, deliveries, base, command>>
      /\ pc' = [pc EXCEPT ![a] = "prepared"]
      /\ req' = [req EXCEPT ![a] = r]
  BY DEF TypedData
<1>2. Agent(a) \in Agents
  BY GivenParts DEF Agent
<1>3. r \in Requests /\ r.mandate = m
  <2>1. req[a] \in Requests /\ nonces[Agent(a)] \in Nat
    BY <1>2 DEF ApiInv, Types
  <2> QED BY <2>1 DEF Requests
<1> HIDE DEF r
<1>4. "prepared" \in PC \ {"idle", "begun", "written", "queued"}
  BY DEF PC
<1> QED BY <1>1, <1>3, <1>4, HandlerStep

\* A request that is refused, or waits for its snapshots, has not been signed.
LEMMA WaitStep ==
    ASSUME ApiInv, NEW a \in Attempts, pc[a] # "answered",
           command[a[1]] \in AnyCommand,
           NEW p \in PC \ {"idle", "begun", "written", "queued"},
           p = "snapshots" => a \notin operations /\ Kind(a) = "deliver",
           p \notin {"snapshots", "refused"} => Known(a),
           pc' = [pc EXCEPT ![a] = p],
           UNCHANGED <<server, base, command, req>>
    PROVE  ApiInv'
<1>1. /\ UNCHANGED <<operations, jobs, genlayer, deliveries, base, command>>
      /\ docs' = docs /\ req' = req
  BY DEF server
<1>2. /\ req' = [req EXCEPT ![a] = req[a]] /\ req[a] \in Requests
      /\ docs' \in [Mandates -> Docs]
  BY <1>1 DEF ApiInv, Types
<1>3. p \in {"snapshots", "refused"} \/ req[a].mandate \in Mandates
  BY KnownHas DEF Target
<1> QED BY <1>1, <1>2, <1>3, HandlerStep

\* A preparation drafts a mandate, stores the manifest of a delivery, or leaves
\* the documents alone.
LEMMA PrepareStep == ASSUME ApiInv, NEW a \in Attempts, Prepare(a) PROVE ApiInv'
<1>1. docs \in [Mandates -> Docs]
  BY DEF ApiInv, Types
<1>2. CASE PrepareCreate(a)
  <2>1. PICK m \in Mandates :
           /\ \/ docs' = docs
              \/ docs' = [docs EXCEPT ![m] = Drafted(Agent(a), @)]
           /\ TypedData(a, m)
    BY <1>2 DEF PrepareCreate
  <2>2. /\ pc[a] = "idle" /\ a \notin operations
        /\ command[a[1]] \in AnyCommand /\ Agent(a) \in Agents
    BY <1>2, StartableHas DEF PrepareCreate
  <2>3. /\ docs' \in [Mandates -> Docs]
        /\ \A n \in Mandates :
              /\ docs'[n].auth = docs[n].auth
              /\ docs'[n].provider = docs[n].provider
              /\ docs'[n].status = "OPEN" => docs[n].status = "OPEN"
    <3>1. CASE docs' = docs
      BY <1>1, <3>1
    <3>2. CASE docs' = [docs EXCEPT ![m] = Drafted(Agent(a), @)]
      <4> DEFINE d == Drafted(Agent(a), docs[m])
      <4>1. /\ d \in Docs /\ d.auth = docs[m].auth
            /\ d.provider = docs[m].provider /\ d.status = "DRAFT"
        BY <1>1, <2>2 DEF Docs, DocStatus, Drafted
      <4>2. docs' = [docs EXCEPT ![m] = d]
        BY <3>2
      <4> HIDE DEF d
      <4> QED BY <1>1, <4>1, <4>2
    <3> QED BY <2>1, <3>1, <3>2
  <2> QED BY <2>1, <2>2, <2>3, PreparedStep
<1>3. ASSUME Prepares(a, Kind(a)), Kind(a) # "create",
             TypedData(a, command[a[1]].mandate), docs' = docs
      PROVE  ApiInv'
  <2>1. /\ pc[a] = "idle" /\ a \notin operations
        /\ command[a[1]] \in AnyCommand /\ command[a[1]].mandate \in Mandates
    BY <1>3, StartableHas DEF Prepares
  <2> QED BY <1>1, <1>3, <2>1, PreparedStep
<1>4. CASE PrepareAccept(a)
  BY <1>3, <1>4 DEF PrepareAccept, Prepares
<1>5. CASE PrepareAppeal(a)
  BY <1>3, <1>5 DEF PrepareAppeal, Prepares
<1>6. CASE PrepareDeliver(a)
  <2>1. /\ Startable(a) /\ Kind(a) = "deliver"
        /\ pc' = [pc EXCEPT ![a] = "snapshots"]
        /\ UNCHANGED <<server, base, command, req>>
    BY <1>6 DEF PrepareDeliver, Prepares
  <2>2. "snapshots" \in PC \ {"idle", "begun", "written", "queued"}
    BY DEF PC
  <2> QED BY <2>1, <2>2, StartableHas, WaitStep
<1>7. CASE StoreSnapshots(a)
  <2> DEFINE m == command[a[1]].mandate
             d == [docs[m] EXCEPT !.prepared = Manifest(a)]
  <2>1. /\ pc[a] = "snapshots" /\ TypedData(a, m)
        /\ docs' = [docs EXCEPT ![m] = d]
    BY <1>7 DEF StoreSnapshots
  <2>2. /\ Kind(a) = "deliver" /\ command[a[1]] \in AnyCommand
        /\ a \notin operations
    BY <2>1 DEF ApiInv, RequestSound
  <2>3. m \in Mandates /\ Manifest(a) \in Manifests \cup {NoManifest}
    BY <2>2, GivenParts DEF Kind, Manifest
  <2>4. /\ d \in Docs /\ d.auth = docs[m].auth
        /\ d.provider = docs[m].provider /\ d.status = docs[m].status
    BY <1>1, <2>3 DEF Docs
  <2> HIDE DEF m, d
  <2>5. /\ docs' \in [Mandates -> Docs]
        /\ \A n \in Mandates :
              /\ docs'[n].auth = docs[n].auth
              /\ docs'[n].provider = docs[n].provider
              /\ docs'[n].status = "OPEN" => docs[n].status = "OPEN"
    BY <1>1, <2>1, <2>3, <2>4
  <2> QED BY <2>1, <2>2, <2>3, <2>5, PreparedStep
<1>8. CASE Refuse(a)
  <2>1. /\ Startable(a) /\ pc' = [pc EXCEPT ![a] = "refused"]
        /\ UNCHANGED <<server, base, command, req>>
    BY <1>8 DEF Refuse
  <2>2. "refused" \in PC \ {"idle", "begun", "written", "queued"}
    BY DEF PC
  <2> QED BY <2>1, <2>2, StartableHas, WaitStep
<1>9. CASE ReuseSnapshots(a)
  BY <1>3, <1>9 DEF ReuseSnapshots, Prepares
<1> QED BY <1>2, <1>4, <1>5, <1>6, <1>7, <1>8, <1>9 DEF Prepare

\* A signed request that moves on inserts nothing.
LEMMA MoveStep ==
    ASSUME ApiInv, NEW a \in Attempts,
           pc[a] \notin {"idle", "snapshots", "refused", "answered"},
           NEW p \in PC \ {"idle", "snapshots", "begun", "written", "queued"},
           pc' = [pc EXCEPT ![a] = p],
           UNCHANGED <<server, base, command, req>>
    PROVE  ApiInv'
<1>1. Known(a)
  BY DEF Known
<1> QED BY <1>1, KnownHas, WaitStep

\* What a client sends again is signed.
LEMMA ClientStep ==
    ASSUME ApiInv, NEW a \in Attempts, Resend(a) \/ Stop(a) PROVE ApiInv'
<1>1. \E p \in {"prepared", "stopped"} :
         /\ pc[a] \notin {"idle", "snapshots", "refused", "answered"}
         /\ pc' = [pc EXCEPT ![a] = p]
         /\ UNCHANGED <<server, base, command, req>>
  BY DEF Resend, Stop
<1>2. {"prepared", "stopped"} \subseteq
         PC \ {"idle", "snapshots", "begun", "written", "queued"}
  BY DEF PC
<1> QED BY <1>1, <1>2, MoveStep

\* The handler finds the role of an appellant, and the operation of its key.
LEMMA CheckStep ==
    ASSUME ApiInv, NEW a \in Attempts, Verify(a) \/ Lookup(a) PROVE ApiInv'
<1>1. {"verified", "refused", "looked", "answered"} \subseteq
         PC \ {"idle", "snapshots", "begun", "written", "queued"}
  BY DEF PC
<1>2. CASE Lookup(a)
  <2>1. /\ pc[a] = "verified"
        /\ \E p \in {"refused", "looked", "answered"} :
              pc' = [pc EXCEPT ![a] = p]
        /\ UNCHANGED <<server, base, command, req>>
    BY <1>2 DEF Lookup, Move
  <2> QED BY <1>1, <2>1, MoveStep
<1>3. CASE Verify(a)
  <2>1. /\ pc[a] = "prepared"
        /\ UNCHANGED <<server, base, command>>
        /\ \E p \in {"verified", "refused"} : pc' = [pc EXCEPT ![a] = p]
        /\ \/ req' = req
           \/ req' = [req EXCEPT ![a].role =
                                    RoleIn(Agent(a), docs[Target(a)])]
    BY <1>3 DEF Verify, Move
  <2>2. PICK p \in {"verified", "refused"} : pc' = [pc EXCEPT ![a] = p]
    BY <2>1
  <2>3. /\ command[a[1]] \in AnyCommand /\ req[a].mandate \in Mandates
        /\ req[a] \in Requests
    BY <2>1, KnownHas DEF Known, Target, ApiInv, Types
  <2>4. RoleIn(Agent(a), docs[Target(a)]) \in AnyRole
    BY DEF RoleIn, AnyRole, Roles
  <2>5. PICK r \in Requests : /\ req' = [req EXCEPT ![a] = r]
                              /\ r.mandate = req[a].mandate
    <3>1. CASE req' = req
      <4>1. req' = [req EXCEPT ![a] = req[a]]
        BY <3>1 DEF ApiInv, Types
      <4> QED BY <2>3, <4>1
    <3>2. CASE req' = [req EXCEPT ![a].role = RoleIn(Agent(a), docs[Target(a)])]
      <4> DEFINE r == [req[a] EXCEPT !.role = RoleIn(Agent(a), docs[Target(a)])]
      <4>1. req' = [req EXCEPT ![a] = r]
        BY <3>2
      <4>2. r \in Requests /\ r.mandate = req[a].mandate
        BY <2>3, <2>4 DEF Requests
      <4> QED BY <4>1, <4>2
    <3> QED BY <2>1, <3>1, <3>2
  <2>6. /\ UNCHANGED <<operations, jobs, genlayer, deliveries, base, command>>
        /\ docs' = docs /\ docs' \in [Mandates -> Docs]
    BY <2>1 DEF server, ApiInv, Types
  <2>7. p \in PC \ {"idle", "begun", "written", "queued"} /\ p # "snapshots"
    BY <1>1
  <2> QED BY <2>1, <2>2, <2>3, <2>5, <2>6, <2>7, HandlerStep
<1> QED BY <1>2, <1>3

-----------------------------------------------------------------------------

\* The unique index keeps a second operation of a key out.
LEMMA InsertStep ==
    ASSUME ApiInv, NEW a \in Attempts, InsertOperation(a) PROVE ApiInv'
<1>1. CASE SameKey(a) = {}
  <2>1. /\ docs' = docs /\ operations' = operations \cup {a} /\ jobs' = jobs
        /\ genlayer' = genlayer /\ deliveries' = deliveries
        /\ chain' = chain /\ nonces' = nonces /\ command' = command
        /\ req' = req /\ pc[a] = "looked" /\ pc' = [pc EXCEPT ![a] = "begun"]
    BY <1>1 DEF InsertOperation, Move, base
  <2>2. operations \subseteq Attempts /\ a \notin operations
    BY <1>1 DEF SameKey, ApiInv, Types
  <2>3. \A b \in Attempts : pc'[b] = IF b = a THEN "begun" ELSE pc[b]
    BY <2>1 DEF ApiInv, Types
  <2>4. Types'
    <3>1. pc' \in [Attempts -> PC]
      BY <2>1 DEF ApiInv, Types, PC
    <3>2. operations' \subseteq Attempts
      BY <2>1, <2>2
    <3> QED BY <2>1, <3>1, <3>2 DEF ApiInv, Types
  <2>5. \A b \in Attempts : /\ Kind(b)' = Kind(b) /\ Agent(b)' = Agent(b)
                            /\ Target(b)' = Target(b)
    BY <2>1 DEF Kind, Agent, Target
  <2>6. ASSUME NEW b \in Attempts
        PROVE  RequestSound(b)' /\ OperationSound(b)'
    <3>1. RequestSound(b) /\ OperationSound(b) /\ (b = a => Known(b))
      BY <2>1 DEF ApiInv, Known
    <3> QED BY <2>1, <2>3, <2>5, <3>1 DEF RequestSound, OperationSound, Known
  <2>7. OneOperationPerKey'
    <3>1. \A b \in operations : KeyOf(b) # KeyOf(a)
      BY <1>1 DEF SameKey
    <3> QED BY <2>1, <3>1 DEF ApiInv, OneOperationPerKey, KeyOf
  <2>8. RequestsStay
    BY <2>1, <2>2, <2>5 DEF RequestsStay
  <2>9. Recorded'
    <3>1. /\ \A b \in operations : pc'[b] = "begun" => pc[b] = "begun"
          /\ \A b \in Attempts : pc'[b] = "written" => pc[b] = "written"
      BY <2>2, <2>3
    <3> QED BY <2>1, <2>8, <3>1, QuietStep
  <2> QED BY <2>4, <2>6, <2>7, <2>9 DEF ApiInv
<1>2. CASE SameKey(a) # {}
  <2>1. /\ pc[a] = "looked" /\ pc' = [pc EXCEPT ![a] = "answered"]
        /\ UNCHANGED <<server, base, command, req>>
    BY <1>2 DEF InsertOperation, Move, server
  <2>2. "answered" \in PC \ {"idle", "snapshots", "begun", "written", "queued"}
    BY DEF PC
  <2> QED BY <2>1, <2>2, MoveStep
<1> QED BY <1>1, <1>2

\* A handler leaves a document that holds its request, and is not open.
LEMMA WrittenDocument ==
    ASSUME NEW a \in Attempts, NEW o \in Docs, req[a] \in Requests,
           Kind(a) \in AllKinds, Agent(a) \in Agents,
           Provider(a) \in Agents \cup {NoAgent}
    PROVE  /\ Written(a, o) \in Docs
           /\ Written(a, o).status # "OPEN"
           /\ \A k \in CallKinds :
                 Written(a, o).auth[k] = IF k = Kind(a) THEN a ELSE o.auth[k]
           /\ Kind(a) = "accept" => Written(a, o).provider = Agent(a)
           /\ Kind(a) \notin {"create", "accept"} =>
                 Written(a, o).provider = o.provider
<1>1. /\ o.auth \in [CallKinds -> Attempts \cup {NoAttempt}]
      /\ o.appeals \in SUBSET [by : Attempts, role : AnyRole]
      /\ o = [status |-> o.status, principal |-> o.principal,
              provider |-> o.provider, auth |-> o.auth,
              prepared |-> o.prepared, judged |-> o.judged,
              appeals |-> o.appeals]
      /\ o.principal \in Agents \cup {NoAgent}
      /\ o.provider \in Agents \cup {NoAgent}
      /\ o.prepared \in Manifests \cup {NoManifest}
      /\ o.judged \in BOOLEAN
  BY DEF Docs
<1>2. ASSUME NEW k \in CallKinds
      PROVE  /\ [o.auth EXCEPT ![k] = a] \in
                   [CallKinds -> Attempts \cup {NoAttempt}]
             /\ \A j \in CallKinds :
                   [o.auth EXCEPT ![k] = a][j] = IF j = k THEN a ELSE o.auth[j]
  BY <1>1
<1>3. "create" \in CallKinds /\ "accept" \in CallKinds /\ "deliver" \in CallKinds
  BY DEF CallKinds
<1>4. CASE Kind(a) = "create"
  <2>1. Written(a, o) =
           [status |-> "RELAY_PENDING", principal |-> Agent(a),
            provider |-> Provider(a),
            auth |-> [o.auth EXCEPT !["create"] = a],
            prepared |-> o.prepared, judged |-> o.judged,
            appeals |-> o.appeals]
    BY <1>1, <1>4 DEF Written, Created
  <2> QED BY <1>1, <1>2, <1>3, <1>4, <2>1 DEF Docs, DocStatus
<1>5. CASE Kind(a) = "accept"
  <2>1. Written(a, o) =
           [status |-> "ACCEPT_RELAY_PENDING", principal |-> o.principal,
            provider |-> Agent(a),
            auth |-> [o.auth EXCEPT !["accept"] = a],
            prepared |-> o.prepared, judged |-> o.judged,
            appeals |-> o.appeals]
    BY <1>1, <1>5 DEF Written, Accepted
  <2> QED BY <1>1, <1>2, <1>3, <1>5, <2>1 DEF Docs, DocStatus
<1>6. CASE Kind(a) = "deliver"
  <2>1. Written(a, o) =
           [status |-> "DELIVERY_RELAY_PENDING", principal |-> o.principal,
            provider |-> o.provider,
            auth |-> [o.auth EXCEPT !["deliver"] = a],
            prepared |-> NoManifest, judged |-> o.judged,
            appeals |-> o.appeals]
    BY <1>1, <1>6 DEF Written, Delivered
  <2> QED BY <1>1, <1>2, <1>3, <1>6, <2>1 DEF Docs, DocStatus
<1>7. CASE Kind(a) = "appeal"
  <2> DEFINE s == o.appeals \cup {[by |-> a, role |-> req[a].role]}
  <2>1. Written(a, o) =
           [status |-> "APPEAL_PENDING", principal |-> o.principal,
            provider |-> o.provider, auth |-> o.auth,
            prepared |-> o.prepared, judged |-> o.judged, appeals |-> s]
    BY <1>1, <1>7 DEF Written, Appealed
  <2>2. "appeal" \notin CallKinds
    BY DEF CallKinds
  <2>3. s \in SUBSET [by : Attempts, role : AnyRole]
    BY <1>1 DEF Requests
  <2> HIDE DEF s
  <2> QED BY <1>1, <1>7, <2>1, <2>2, <2>3 DEF Docs, DocStatus
<1> QED BY <1>4, <1>5, <1>6, <1>7 DEF AllKinds, CallKinds

\* What is written over a document: a claim holds its mandate, and a creation
\* that was not sent yet is one that Base has not carried out.
LEMMA ClaimWritten ==
    ASSUME ApiInv, NEW a \in operations, pc[a] = "begun",
           UNCHANGED <<operations, jobs, base, command, req>>,
           Claimed(a, docs[Target(a)]),
           \A b \in Attempts : pc'[b] = IF b = a THEN "written" ELSE pc[b],
           NEW d, \A m \in Mandates :
                     docs'[m] = IF m = Target(a) THEN d ELSE docs[m],
           Kind(a) = "accept" => d.provider = Agent(a),
           Kind(a) \notin {"create", "accept"} =>
              d.provider = docs[Target(a)].provider,
           NEW b \in Attempts
    PROVE  ClaimHeld(b)'
<1>1. /\ operations' = operations /\ jobs' = jobs /\ chain' = chain
      /\ command' = command /\ req' = req /\ operations \subseteq Attempts
  BY DEF base, ApiInv, Types
<1>2. \A c \in Attempts : /\ Kind(c)' = Kind(c) /\ Agent(c)' = Agent(c)
                          /\ Target(c)' = Target(c)
  BY <1>1 DEF Kind, Agent, Target
<1>3. Overwritten(Target(b)) => Overwritten(Target(b))'
  BY <1>1, <1>2 DEF Overwritten
<1>4. Target(a) \in Mandates /\ Agent(a) \in Agents
  BY <1>1, KnownHas, JobsKnown
<1>5. SUFFICES ASSUME Holds(b)'
               PROVE  /\ chain[Target(b)].stage # "None"
                      /\ \/ docs'[Target(b)].provider = Agent(b)
                         \/ Overwritten(Target(b))'
  BY <1>1, <1>2 DEF ClaimHeld
<1>6. CASE b = a
  <2>1. Kind(a) = "accept"
    BY <1>2, <1>5, <1>6 DEF Holds
  <2>2. AcceptAllowed(Agent(a), docs[Target(a)])
    BY <2>1 DEF Claimed
  <2>3. chain[Target(a)].stage # "None"
    BY <1>4, <2>2 DEF AcceptAllowed, ApiInv, Recorded, OpenFunded
  <2> QED BY <1>4, <1>6, <2>1, <2>3
<1>7. CASE b # a
  <2>1. Holds(b)
    BY <1>1, <1>2, <1>5, <1>7 DEF Holds
  <2>2. /\ chain[Target(b)].stage # "None"
        /\ docs[Target(b)].provider = Agent(b) \/ Overwritten(Target(b))
    BY <2>1 DEF ApiInv, Recorded, ClaimHeld
  <2>3. b \in operations
    BY <2>1, JobsKnown DEF Holds
  <2>4. Target(b) \in Mandates /\ Agent(b) \in Agents
    BY <2>3, KnownHas, JobsKnown
  <2>5. CASE Target(b) # Target(a) \/ Kind(a) \notin {"create", "accept"}
    BY <1>3, <1>4, <2>2, <2>4, <2>5
  <2>6. CASE Target(b) = Target(a) /\ Kind(a) = "accept"
    <3>1. docs[Target(a)].provider \in {NoAgent, Agent(a)}
      BY <2>6 DEF Claimed, AcceptAllowed
    <3>2. docs'[Target(b)].provider = Agent(a)
      BY <2>4, <2>6
    <3>3. NoAgent \notin Agents
      BY OperationsAssumption
    <3> QED BY <1>3, <2>2, <2>4, <2>6, <3>1, <3>2, <3>3
  <2>7. CASE Target(b) = Target(a) /\ Kind(a) = "create"
    <3>1. ASSUME NEW c \in Attempts, jobs[c].call = "executed"
          PROVE  jobs[c].sent # a
      BY <3>1 DEF ApiInv, Recorded, SentSound
    <3>2. Overwritten(Target(b))'
      BY <1>1, <1>2, <2>7, <3>1 DEF Overwritten
    <3> QED BY <2>2, <3>2
  <2> QED BY <2>5, <2>6, <2>7
<1> QED BY <1>6, <1>7

\* A document that is written names the request that wrote it.
LEMMA WriteStep ==
    ASSUME ApiInv, NEW a \in Attempts, WriteDocument(a)
    PROVE  ApiInv'
<1>1. CASE Claimed(a, docs[Target(a)])
  <2> DEFINE d == Written(a, docs[Target(a)])
  <2>1. /\ operations' = operations /\ jobs' = jobs
        /\ genlayer' = genlayer /\ deliveries' = deliveries
        /\ chain' = chain /\ nonces' = nonces /\ command' = command
        /\ req' = req /\ pc[a] = "begun" /\ pc' = [pc EXCEPT ![a] = "written"]
        /\ docs' = [docs EXCEPT ![Target(a)] = d]
    BY <1>1 DEF WriteDocument, Move, base
  <2>2. a \in operations /\ operations \subseteq Attempts
    BY <2>1, JobsKnown DEF ApiInv, Types
  <2>3. /\ Kind(a) \in AllKinds /\ Agent(a) \in Agents
        /\ Target(a) \in Mandates /\ Provider(a) \in Agents \cup {NoAgent}
    BY <2>2, KnownHas, JobsKnown
  <2>4. /\ d \in Docs /\ d.status # "OPEN"
        /\ \A k \in CallKinds :
              d.auth[k] = IF k = Kind(a) THEN a ELSE docs[Target(a)].auth[k]
        /\ Kind(a) = "accept" => d.provider = Agent(a)
        /\ Kind(a) \notin {"create", "accept"} =>
              d.provider = docs[Target(a)].provider
    <3>1. docs[Target(a)] \in Docs /\ req[a] \in Requests
      BY <2>3 DEF ApiInv, Types
    <3> QED BY <2>2, <2>3, <3>1, WrittenDocument
  <2> HIDE DEF d
  <2>5. /\ \A b \in Attempts : pc'[b] = IF b = a THEN "written" ELSE pc[b]
        /\ \A m \in Mandates : docs'[m] = IF m = Target(a) THEN d ELSE docs[m]
    BY <2>1 DEF ApiInv, Types
  <2>6. \A b \in Attempts : /\ Kind(b)' = Kind(b) /\ Agent(b)' = Agent(b)
                            /\ Target(b)' = Target(b)
    BY <2>1 DEF Kind, Agent, Target
  <2>7. Types'
    <3>1. pc' \in [Attempts -> PC] /\ docs' \in [Mandates -> Docs]
      BY <2>1, <2>4 DEF ApiInv, Types, PC
    <3> QED BY <2>1, <3>1 DEF ApiInv, Types
  <2>8. ASSUME NEW b \in Attempts
        PROVE  RequestSound(b)' /\ OperationSound(b)'
    <3>1. RequestSound(b) /\ OperationSound(b) /\ (b = a => Known(b))
      BY <2>2, JobsKnown DEF ApiInv
    <3> QED BY <2>1, <2>2, <2>5, <2>6, <3>1
        DEF RequestSound, OperationSound, Known
  <2>9. OneOperationPerKey'
    BY <2>1 DEF ApiInv, OneOperationPerKey, KeyOf
  <2>10. ASSUME NEW m \in Mandates, NEW k \in CallKinds
         PROVE  AuthSound(m, k)'
    <3>1. AuthSound(m, k)
      BY DEF ApiInv, Recorded
    <3>2. \/ m = Target(a) /\ k = Kind(a) /\ docs'[m].auth[k] = a
          \/ docs'[m].auth[k] = docs[m].auth[k]
      BY <2>4, <2>5
    <3>3. CASE docs'[m].auth[k] = docs[m].auth[k]
      BY <2>1, <2>2, <2>5, <2>6, <3>1, <3>3 DEF AuthSound
    <3>4. CASE m = Target(a) /\ k = Kind(a) /\ docs'[m].auth[k] = a
      BY <2>1, <2>2, <2>5, <2>6, <3>4 DEF AuthSound
    <3> QED BY <3>2, <3>3, <3>4
  <2>11. ASSUME NEW b \in Attempts
         PROVE  /\ AuthThere(b)' /\ JobSound(b)'
                /\ SentSound(b)' /\ ExecutedSound(b)' /\ ClaimHeld(b)'
    <3>1. AuthThere(b) /\ JobSound(b) /\ SentSound(b) /\ ExecutedSound(b)
      BY DEF ApiInv, Recorded
    <3>2. AuthThere(b)'
      <4>1. b \notin operations => jobs[b].status = "ABSENT" /\ b # a
        BY <2>2, JobsKnown
      <4>2. /\ b \notin operations => pc[b] # "written"
            /\ b \in operations /\ Kind(b) # "appeal" =>
                  Kind(b) \in CallKinds /\ Target(b) \in Mandates
        BY KnownHas, JobsKnown DEF AllKinds
      <4>3. a # NoAttempt
        BY AttemptParts
      <4> QED BY <2>1, <2>4, <2>5, <2>6, <3>1, <4>1, <4>2, <4>3 DEF AuthThere
    <3>3. JobSound(b)'
      BY <2>1, <3>1 DEF JobSound
    <3>4. SentSound(b)'
      BY <2>1, <2>2, <2>5, <2>6, <3>1 DEF SentSound
    <3>5. ExecutedSound(b)'
      BY <2>1, <2>6, <3>1 DEF ExecutedSound, Past
    <3>6. ClaimHeld(b)'
      BY <1>1, <2>1, <2>2, <2>4, <2>5, ClaimWritten DEF base
    <3> QED BY <3>2, <3>3, <3>4, <3>5, <3>6
  <2>12. ExecutedOnce'
    BY <2>1, <2>6 DEF ApiInv, Recorded, ExecutedOnce, Same
  <2>13. OpenFunded'
    BY <2>1, <2>4, <2>5 DEF ApiInv, Recorded, OpenFunded
  <2> QED BY <2>7, <2>8, <2>9, <2>10, <2>11, <2>12, <2>13 DEF ApiInv, Recorded
<1>2. CASE ~Claimed(a, docs[Target(a)])
  <2>1. /\ pc[a] = "begun" /\ pc' = [pc EXCEPT ![a] = "refused"]
        /\ UNCHANGED <<server, base, command, req>>
    BY <1>2 DEF WriteDocument, Move, server
  <2>2. "refused" \in PC \ {"idle", "snapshots", "begun", "written", "queued"}
    BY DEF PC
  <2> QED BY <2>1, <2>2, MoveStep
<1> QED BY <1>1, <1>2

\* What is noted of a GenLayer job touches neither the requests nor the calls.
LEMMA CourtStep ==
    ASSUME ApiInv, NEW a \in operations,
           UNCHANGED <<operations, jobs, deliveries, base, command, req>>,
           NEW g \in Courts, genlayer' = [genlayer EXCEPT ![a] = g],
           pc' \in [Attempts -> PC],
           \A b \in Attempts :
              pc'[b] # pc[b] => pc[b] = "written" /\ pc'[b] = "queued",
           docs' \in [Mandates -> Docs],
           \A m \in Mandates :
              /\ docs'[m].auth = docs[m].auth
              /\ docs'[m].provider = docs[m].provider
              /\ docs'[m].status = "OPEN" => docs[m].status = "OPEN"
    PROVE  ApiInv'
<1>1. /\ operations' = operations /\ jobs' = jobs
      /\ deliveries' = deliveries /\ chain' = chain /\ nonces' = nonces
      /\ command' = command /\ req' = req /\ operations \subseteq Attempts
  BY DEF base, ApiInv, Types
<1>2. Types'
  BY <1>1 DEF ApiInv, Types
<1>3. \A b \in Attempts : /\ Kind(b)' = Kind(b) /\ Agent(b)' = Agent(b)
                          /\ Target(b)' = Target(b)
  BY <1>1 DEF Kind, Agent, Target
<1>4. ASSUME NEW b \in Attempts
      PROVE  RequestSound(b)' /\ OperationSound(b)'
  <2>1. RequestSound(b) /\ OperationSound(b)
    BY DEF ApiInv
  <2>2. genlayer'[b] # "ABSENT" => genlayer[b] # "ABSENT" \/ b = a
    BY DEF ApiInv, Types
  <2>3. pc'[b] = pc[b] \/ (pc[b] = "written" /\ pc'[b] = "queued")
    OBVIOUS
  <2> QED BY <1>1, <1>3, <2>1, <2>2, <2>3
      DEF RequestSound, OperationSound, Known
<1>5. OneOperationPerKey'
  BY <1>1 DEF ApiInv, OneOperationPerKey, KeyOf
<1>6. RequestsStay
  BY <1>1, <1>3 DEF RequestsStay
<1>7. Recorded'
  <2>1. /\ \A b \in operations : pc'[b] = "begun" => pc[b] = "begun"
        /\ \A b \in Attempts : pc'[b] = "written" => pc[b] = "written"
    BY <1>1
  <2> QED BY <1>1, <1>6, <2>1, QuietStep
<1> QED BY <1>2, <1>4, <1>5, <1>7 DEF ApiInv

\* The GenLayer job of an appeal is inserted before the one for Base.
LEMMA EnqueueAppealStep ==
    ASSUME ApiInv, NEW a \in Attempts, EnqueueAppeal(a) PROVE ApiInv'
<1>1. /\ pc[a] = "written" /\ pc' = [pc EXCEPT ![a] = "queued"]
      /\ genlayer' = [genlayer EXCEPT ![a] = "PENDING"]
      /\ UNCHANGED <<docs, operations, jobs, deliveries, base, command, req>>
  BY DEF EnqueueAppeal, Move
<1>2. a \in operations /\ docs \in [Mandates -> Docs] /\ "PENDING" \in Courts
  BY <1>1, JobsKnown DEF ApiInv, Types, Courts
<1>3. /\ pc' \in [Attempts -> PC]
      /\ \A b \in Attempts :
            pc'[b] # pc[b] => pc[b] = "written" /\ pc'[b] = "queued"
  BY <1>1 DEF ApiInv, Types, PC
<1> QED BY <1>1, <1>2, <1>3, CourtStep

\* The job of a written operation is inserted, and the request answered.
LEMMA EnqueueStep == ASSUME ApiInv, NEW a \in Attempts, Enqueue(a) PROVE ApiInv'
<1>1. /\ docs' = docs /\ operations' = operations
      /\ jobs' = [jobs EXCEPT ![a].status = "PENDING"]
      /\ chain' = chain /\ nonces' = nonces /\ command' = command
      /\ req' = req /\ pc[a] \in {"written", "queued"}
      /\ pc[a] = "queued" => Kind(a) = "appeal"
      /\ pc' = [pc EXCEPT ![a] = "answered"]
      /\ \/ /\ genlayer' = [genlayer EXCEPT ![a] = "WAITING"]
            /\ deliveries' = Append(deliveries, a)
         \/ genlayer' = genlayer /\ deliveries' = deliveries
  BY DEF Enqueue, base
<1>2. /\ a \in operations /\ operations \subseteq Attempts
      /\ jobs[a] = NoCall /\ jobs \in [Attempts -> Calls]
  BY <1>1 DEF ApiInv, Recorded, Types, OperationSound, JobSound
<1> DEFINE j == [jobs[a] EXCEPT !.status = "PENDING"]
<1>3. jobs' = [jobs EXCEPT ![a] = j]
  BY <1>1
<1>4. /\ j \in Calls /\ j.status = "PENDING" /\ j.sends < MaxSends
      /\ j.call = "none" /\ ~j.noted
  <2>1. jobs[a] \in Calls
    BY <1>2
  <2>2. j \in Calls /\ j.status = "PENDING"
    BY <2>1 DEF Calls
  <2>3. /\ j.sends = jobs[a].sends /\ j.call = jobs[a].call
        /\ j.noted = jobs[a].noted
    BY <2>1 DEF Calls
  <2>4. jobs[a].sends = 0 /\ jobs[a].call = "none" /\ ~jobs[a].noted
    BY <1>2 DEF NoCall
  <2> QED BY <2>2, <2>3, <2>4, OperationsAssumption
<1> HIDE DEF j
<1>5. \A b \in Attempts :
         /\ pc'[b] = IF b = a THEN "answered" ELSE pc[b]
         /\ jobs'[b] = IF b = a THEN j ELSE jobs[b]
  BY <1>1, <1>3 DEF ApiInv, Types
<1>6. \A b \in Attempts : /\ Kind(b)' = Kind(b) /\ Agent(b)' = Agent(b)
                          /\ Target(b)' = Target(b)
  BY <1>1 DEF Kind, Agent, Target
<1>7. Types'
  <2>1. pc' \in [Attempts -> PC]
    BY <1>1 DEF ApiInv, Types, PC
  <2>2. jobs' \in [Attempts -> Calls]
    BY <1>2, <1>3, <1>4
  <2>3. genlayer' \in [Attempts -> Courts]
    BY <1>1 DEF ApiInv, Types, Courts
  <2>4. deliveries' \in Seq(Attempts)
    <3>1. deliveries \in Seq(Attempts)
      BY DEF ApiInv, Types
    <3>2. Append(deliveries, a) \in Seq(Attempts)
      BY <3>1
    <3> QED BY <1>1, <3>1, <3>2
  <2> QED BY <1>1, <2>1, <2>2, <2>3, <2>4 DEF ApiInv, Types
<1>8. ASSUME NEW b \in Attempts
      PROVE  RequestSound(b)' /\ OperationSound(b)'
  <2>1. RequestSound(b) /\ OperationSound(b) /\ (b = a => Known(b))
    BY <1>2, JobsKnown DEF ApiInv
  <2>2. genlayer'[b] # "ABSENT" => genlayer[b] # "ABSENT" \/ b = a
    BY <1>1 DEF ApiInv, Types
  <2> QED BY <1>1, <1>2, <1>4, <1>5, <1>6, <2>1, <2>2
      DEF RequestSound, OperationSound, Known
<1>9. OneOperationPerKey'
  BY <1>1 DEF ApiInv, OneOperationPerKey, KeyOf
<1>10. ASSUME NEW m \in Mandates, NEW k \in CallKinds
       PROVE  AuthSound(m, k)'
  <2>1. AuthSound(m, k)
    BY DEF ApiInv, Recorded
  <2> QED BY <1>1, <1>2, <1>5, <1>6, <2>1 DEF AuthSound
<1>11. jobs[a].call = "none" /\ jobs[a].status = "ABSENT"
  BY <1>2 DEF NoCall
<1>12. ASSUME NEW b \in Attempts
       PROVE  /\ AuthThere(b)' /\ JobSound(b)' /\ SentSound(b)'
              /\ ExecutedSound(b)' /\ ClaimHeld(b)'
  <2>1. /\ AuthThere(b) /\ JobSound(b) /\ SentSound(b) /\ ExecutedSound(b)
        /\ ClaimHeld(b)
    BY DEF ApiInv, Recorded
  <2>2. AuthThere(b)'
    BY <1>1, <1>5, <1>6, <2>1 DEF AuthThere
  <2>3. JobSound(b)'
    BY <1>4, <1>5, <2>1 DEF JobSound
  <2>4. SentSound(b)'
    BY <1>1, <1>2, <1>4, <1>5, <1>6, <2>1 DEF SentSound
  <2>5. ExecutedSound(b)'
    BY <1>1, <1>4, <1>5, <1>6, <2>1 DEF ExecutedSound, Past
  <2>6. ClaimHeld(b)'
    <3>1. Holds(b)' => Holds(b)
      BY <1>1, <1>5, <1>6 DEF Holds
    <3>2. Overwritten(Target(b)) => Overwritten(Target(b))'
      <4>1. \A c \in Attempts :
               jobs'[c].call = "executed" =>
                  /\ jobs[c].call = "executed"
                  /\ jobs'[c].sent = jobs[c].sent
        BY <1>4, <1>5
      <4> QED BY <1>1, <1>2, <1>6, <4>1 DEF Overwritten
    <3> QED BY <1>1, <1>6, <2>1, <3>1, <3>2 DEF ClaimHeld
  <2> QED BY <2>2, <2>3, <2>4, <2>5, <2>6
<1>13. ExecutedOnce'
  BY <1>1, <1>4, <1>5, <1>6 DEF ApiInv, Recorded, ExecutedOnce, Same
<1>14. OpenFunded'
  BY <1>1 DEF ApiInv, Recorded, OpenFunded
<1> QED BY <1>7, <1>8, <1>9, <1>10, <1>12, <1>13, <1>14 DEF ApiInv, Recorded

-----------------------------------------------------------------------------

\* Of a call that moves on, only what Base shows of it remains to be said.
LEMMA CallMoves ==
    ASSUME ApiInv, NEW a \in Attempts, NEW j \in Calls,
           jobs[a].status # "ABSENT", j.status # "ABSENT",
           jobs' = [jobs EXCEPT ![a] = j],
           UNCHANGED <<operations, genlayer, deliveries, client>>,
           docs' \in [Mandates -> Docs],
           \A m \in Mandates :
              /\ docs'[m].auth = docs[m].auth
              /\ docs'[m].provider = docs[m].provider,
           chain' \in [Mandates -> OnBase], nonces' \in [Agents -> Nat],
           \A m \in Mandates :
              chain[m].stage # "None" => chain'[m].stage # "None",
           \A c \in operations :
              /\ Kind(c) = "create" /\ chain[Target(c)].stage # "None"
              /\ \A b \in Attempts :
                    jobs[b].call = "executed" => jobs[b].sent # c
              => \A b \in Attempts :
                    jobs'[b].call = "executed" => jobs'[b].sent # c,
           JobSound(a)', SentSound(a)',
           \A b \in Attempts : ExecutedSound(b)', ExecutedOnce', OpenFunded'
    PROVE  ApiInv'
<1>1. /\ operations' = operations /\ operations \subseteq Attempts
      /\ genlayer' = genlayer /\ deliveries' = deliveries
      /\ command' = command /\ req' = req /\ pc' = pc
  BY DEF client, ApiInv, Types
<1>2. \A b \in Attempts : jobs'[b] = IF b = a THEN j ELSE jobs[b]
  BY DEF ApiInv, Types
<1>3. \A b \in Attempts : /\ Kind(b)' = Kind(b) /\ Agent(b)' = Agent(b)
                          /\ Target(b)' = Target(b)
  BY <1>1 DEF Kind, Agent, Target
<1>4. Types'
  <2>1. jobs' \in [Attempts -> Calls]
    BY DEF ApiInv, Types
  <2> QED BY <1>1, <2>1 DEF ApiInv, Types
<1>5. ASSUME NEW b \in Attempts
      PROVE  RequestSound(b)' /\ OperationSound(b)'
  <2>1. RequestSound(b) /\ OperationSound(b)
    BY DEF ApiInv
  <2>2. RequestSound(b)'
    BY <1>1, <1>3, <2>1 DEF RequestSound, Known
  <2>3. OperationSound(b)'
    BY <1>1, <1>2, <2>1 DEF OperationSound
  <2> QED BY <2>2, <2>3
<1>6. OneOperationPerKey'
  BY <1>1 DEF ApiInv, OneOperationPerKey, KeyOf
<1>7. ASSUME NEW m \in Mandates, NEW k \in CallKinds
      PROVE  AuthSound(m, k)'
  <2>1. AuthSound(m, k)
    BY DEF ApiInv, Recorded
  <2> QED BY <1>1, <1>3, <2>1 DEF AuthSound
<1>8. ASSUME NEW b \in Attempts
      PROVE  AuthThere(b)' /\ JobSound(b)' /\ SentSound(b)' /\ ClaimHeld(b)'
  <2>1. AuthThere(b) /\ JobSound(b) /\ SentSound(b) /\ ClaimHeld(b)
    BY DEF ApiInv, Recorded
  <2>2. AuthThere(b)'
    <3>1. b \notin operations => jobs[b].status = "ABSENT" /\ pc[b] # "written"
      BY JobsKnown
    <3>2. b \in operations /\ Kind(b) # "appeal" =>
             Kind(b) \in CallKinds /\ Target(b) \in Mandates
      BY KnownHas, JobsKnown DEF AllKinds
    <3> QED BY <1>1, <1>2, <1>3, <2>1, <3>1, <3>2, JobsKnown DEF AuthThere
  <2>3. JobSound(b)'
    BY <1>2, <2>1 DEF JobSound
  <2>4. SentSound(b)'
    BY <1>1, <1>2, <1>3, <2>1 DEF SentSound
  <2>5. ClaimHeld(b)'
    <3>1. SUFFICES ASSUME Holds(b)'
                   PROVE  /\ chain'[Target(b)].stage # "None"
                          /\ \/ docs'[Target(b)].provider = Agent(b)
                             \/ Overwritten(Target(b))'
      BY <1>3 DEF ClaimHeld
    <3>2. Holds(b)
      BY <1>1, <1>2, <1>3, <3>1 DEF Holds
    <3>3. /\ chain[Target(b)].stage # "None"
          /\ docs[Target(b)].provider = Agent(b) \/ Overwritten(Target(b))
      BY <2>1, <3>2 DEF ClaimHeld
    <3>4. Target(b) \in Mandates
      BY <3>2, KnownHas, JobsKnown DEF Holds
    <3>5. Overwritten(Target(b)) => Overwritten(Target(b))'
      BY <1>1, <1>3, <3>3 DEF Overwritten
    <3> QED BY <3>3, <3>4, <3>5
  <2> QED BY <2>2, <2>3, <2>4, <2>5
<1> QED BY <1>4, <1>5, <1>6, <1>7, <1>8 DEF ApiInv, Recorded

\* A call that neither was nor is executed leaves Base to what it shows.
LEMMA BaseStays ==
    ASSUME ApiInv, NEW a \in Attempts, NEW j \in Calls,
           jobs' = [jobs EXCEPT ![a] = j],
           j.call = "executed" =>
              jobs[a].call = "executed" /\ j.sent = jobs[a].sent,
           UNCHANGED <<base, client>>
    PROVE  /\ chain' \in [Mandates -> OnBase] /\ nonces' \in [Agents -> Nat]
           /\ \A m \in Mandates :
                 chain[m].stage # "None" => chain'[m].stage # "None"
           /\ \A c \in operations :
                 /\ Kind(c) = "create" /\ chain[Target(c)].stage # "None"
                 /\ \A b \in Attempts :
                       jobs[b].call = "executed" => jobs[b].sent # c
                 => \A b \in Attempts :
                       jobs'[b].call = "executed" => jobs'[b].sent # c
           /\ \A b \in Attempts : ExecutedSound(b)'
           /\ ExecutedOnce'
<1>1. /\ chain' = chain /\ nonces' = nonces /\ command' = command /\ req' = req
  BY DEF client, base
<1>2. \A b \in Attempts : jobs'[b].call = "executed" =>
         jobs[b].call = "executed" /\ jobs'[b].sent = jobs[b].sent
  BY DEF ApiInv, Types
<1>3. \A b \in Attempts : /\ Kind(b)' = Kind(b) /\ Agent(b)' = Agent(b)
                          /\ Target(b)' = Target(b)
  BY <1>1 DEF Kind, Agent, Target
<1>4. chain' \in [Mandates -> OnBase] /\ nonces' \in [Agents -> Nat]
  BY <1>1 DEF ApiInv, Types
<1>5. \A b \in Attempts : ExecutedSound(b)'
  BY <1>1, <1>2, <1>3 DEF ApiInv, Recorded, ExecutedSound, Past
<1>6. ExecutedOnce'
  BY <1>1, <1>2, <1>3 DEF ApiInv, Recorded, ExecutedOnce, Same
<1> QED BY <1>1, <1>2, <1>4, <1>5, <1>6

\* A call that waits or ended in vain leaves all that is known of the others.
LEMMA JobStep ==
    ASSUME ApiInv, NEW a \in Attempts, NEW j \in Calls,
           jobs[a].status # "ABSENT", j.status # "ABSENT",
           jobs' = [jobs EXCEPT ![a] = j],
           j.call = "executed" =>
              jobs[a].call = "executed" /\ j.sent = jobs[a].sent,
           UNCHANGED <<docs, operations, genlayer, deliveries, base, client>>,
           JobSound(a)', SentSound(a)'
    PROVE  ApiInv'
<1>1. /\ docs' = docs /\ docs' \in [Mandates -> Docs] /\ chain' = chain
  BY DEF ApiInv, Types, base
<1>2. OpenFunded'
  BY <1>1 DEF ApiInv, Recorded, OpenFunded
<1> QED BY <1>1, <1>2, BaseStays, CallMoves

\* A call that is sent asks for what its job is for.
LEMMA SendStep == ASSUME ApiInv, NEW a \in Attempts, Send(a) PROVE ApiInv'
<1> DEFINE b == IF Kind(a) = "appeal" THEN a ELSE docs[Target(a)].auth[Kind(a)]
           j == [status |-> "SUBMITTED", sends |-> jobs[a].sends + 1,
                 call |-> "pending", noted |-> FALSE, sent |-> b]
<1>1. /\ jobs[a].status = "PENDING" /\ jobs' = [jobs EXCEPT ![a] = j]
      /\ UNCHANGED <<docs, operations, genlayer, deliveries, base, client>>
  BY DEF Send
<1>2. /\ a \in operations /\ jobs[a] \in Calls /\ operations \subseteq Attempts
      /\ pc[a] = "answered"
  BY <1>1, JobsKnown DEF ApiInv, Types, OperationSound
<1>3. /\ b \in operations /\ Kind(b) = Kind(a) /\ Target(b) = Target(a)
      /\ pc[b] # "begun"
  <2>1. CASE Kind(a) = "appeal"
    BY <1>2, <2>1
  <2>2. CASE Kind(a) # "appeal"
    <3>1. Kind(a) \in CallKinds /\ Target(a) \in Mandates
      BY <1>2, <2>2, KnownHas, JobsKnown DEF AllKinds
    <3>2. AuthThere(a) /\ AuthSound(Target(a), Kind(a))
      BY <3>1 DEF ApiInv, Recorded
    <3>3. docs[Target(a)].auth[Kind(a)] # NoAttempt
      BY <1>1, <2>2, <3>2 DEF AuthThere
    <3> QED BY <2>2, <3>2, <3>3 DEF AuthSound
  <2> QED BY <2>1, <2>2
<1>4. Kind(a) = "appeal" => b = a
  OBVIOUS
<1> HIDE DEF b
<1>5. jobs[a].sends < MaxSends
  BY <1>1 DEF ApiInv, Recorded, JobSound
<1>6. j \in Calls
  BY <1>2, <1>3, <1>5, OperationsAssumption DEF Calls
<1>7. /\ j.status = "SUBMITTED" /\ j.call = "pending" /\ j.sent = b /\ ~j.noted
      /\ j.status # "ABSENT" /\ j.call # "executed"
  OBVIOUS
<1> HIDE DEF j
<1>8. jobs'[a] = j
  BY <1>1 DEF ApiInv, Types
<1>9. JobSound(a)'
  BY <1>7, <1>8 DEF JobSound
<1>10. SentSound(a)'
  <2>1. /\ command' = command /\ req' = req /\ operations' = operations
        /\ pc' = pc
    BY <1>1 DEF client
  <2>2. jobs'[a].sent = b
    BY <1>7, <1>8
  <2>3. \A c \in Attempts : Kind(c)' = Kind(c) /\ Target(c)' = Target(c)
    BY <2>1 DEF Kind, Target
  <2> QED BY <1>2, <1>3, <1>4, <2>1, <2>2, <2>3 DEF SentSound
<1>11. jobs[a].status # "ABSENT"
  BY <1>1
<1> QED BY <1>1, <1>6, <1>7, <1>9, <1>10, <1>11, JobStep

\* Base takes a call only where no call of its kind was taken, and then shows
\* it; a mandate that Base has stays there.
LEMMA CallAdvances ==
    ASSUME NEW b, NEW on \in OnBase, Kind(b) \in AllKinds, Agent(b) \in Agents,
           Target(b) \in Mandates, Provider(b) \in Agents \cup {NoAgent},
           req[b].role \in AnyRole,
           on = chain[Target(b)], Executes(b)
    PROVE  /\ After(b, on) \in OnBase
           /\ Past(b, After(b, on)) /\ ~Past(b, on)
           /\ \A c \in Attempts : Past(c, on) => Past(c, After(b, on))
           /\ on.stage # "None" => After(b, on).stage # "None"
           /\ Kind(b) = "create" => on.stage = "None"
<1>1. on = [stage |-> on.stage, provider |-> on.provider,
            appeals |-> on.appeals]
  BY DEF OnBase
<1>2. /\ on.stage \in {"None", "Funded", "Active", "Submitted"}
      /\ on.provider \in Agents \cup {NoAgent}
      /\ on.appeals \in SUBSET AnyRole
  BY DEF OnBase
<1>3. CASE Kind(b) = "create"
  <2>1. /\ After(b, on) = [stage |-> "Funded", provider |-> Provider(b),
                           appeals |-> on.appeals]
        /\ on.stage = "None"
    BY <1>1, <1>3 DEF After, Executes
  <2> QED BY <1>2, <1>3, <2>1 DEF OnBase, Past
<1>4. CASE Kind(b) = "accept"
  <2>1. /\ After(b, on) = [stage |-> "Active", provider |-> Agent(b),
                           appeals |-> on.appeals]
        /\ on.stage = "Funded"
    BY <1>1, <1>4 DEF After, Executes
  <2> QED BY <1>2, <1>4, <2>1 DEF OnBase, Past
<1>5. CASE Kind(b) = "deliver"
  <2>1. /\ After(b, on) = [stage |-> "Submitted", provider |-> on.provider,
                           appeals |-> on.appeals]
        /\ on.stage = "Active"
    BY <1>1, <1>5 DEF After, Executes
  <2> QED BY <1>2, <1>5, <2>1 DEF OnBase, Past
<1>6. CASE Kind(b) = "appeal"
  <2>1. /\ After(b, on) = [stage |-> on.stage, provider |-> on.provider,
                           appeals |-> on.appeals \cup {req[b].role}]
        /\ req[b].role \notin on.appeals
    BY <1>1, <1>6 DEF After, Executes
  <2> QED BY <1>2, <1>6, <2>1 DEF OnBase, Past
<1> QED BY <1>3, <1>4, <1>5, <1>6 DEF AllKinds, CallKinds

\* A call that executes was the first of its kind for its mandate, and no
\* creation that was written over a mandate Base has.
LEMMA ExecuteStep ==
    ASSUME ApiInv, NEW a \in Attempts, Execute(a) PROVE ApiInv'
<1> DEFINE b == jobs[a].sent
           j == [jobs[a] EXCEPT !.call = "executed"]
           on == chain[Target(b)]
<1>1. /\ jobs[a].call = "pending" /\ Executes(b)
      /\ jobs' = [jobs EXCEPT ![a] = j]
      /\ chain' = [chain EXCEPT ![Target(b)] = After(b, on)]
      /\ nonces' = IF Kind(b) = "appeal" THEN nonces
                   ELSE [nonces EXCEPT ![Agent(b)] = @ + 1]
      /\ UNCHANGED <<docs, operations, genlayer, deliveries, client>>
  BY DEF Execute
<1>2. /\ jobs[a].status = "SUBMITTED" /\ a \in operations
      /\ jobs[a] \in Calls /\ operations \subseteq Attempts /\ ~jobs[a].noted
  BY <1>1, JobsKnown DEF ApiInv, Recorded, JobSound, Types
<1>3. /\ b \in operations /\ Kind(b) = Kind(a) /\ Target(b) = Target(a)
      /\ Kind(a) = "appeal" => b = a
      /\ pc[b] # "begun"
  BY <1>1 DEF ApiInv, Recorded, SentSound
<1>4. /\ Kind(b) \in AllKinds /\ Agent(b) \in Agents /\ Target(b) \in Mandates
      /\ Provider(b) \in Agents \cup {NoAgent} /\ req[b].role \in AnyRole
  <2>1. req[b] \in Requests
    BY <1>2, <1>3 DEF ApiInv, Types
  <2> QED BY <1>2, <1>3, <2>1, KnownHas, JobsKnown DEF Requests
<1>5. /\ \A c \in Attempts : /\ Kind(c)' = Kind(c) /\ Agent(c)' = Agent(c)
                             /\ Target(c)' = Target(c)
      /\ req' = req /\ pc' = pc /\ operations' = operations
  BY <1>1 DEF client, Kind, Agent, Target
<1>6. /\ j \in Calls /\ j.status = "SUBMITTED" /\ j.call = "executed"
      /\ j.sent = b /\ j.status # "ABSENT"
  BY <1>2 DEF Calls
<1>7. on \in OnBase
  BY <1>4 DEF ApiInv, Types
<1> HIDE DEF b, j, on
<1>8. /\ After(b, on) \in OnBase
      /\ Past(b, After(b, on)) /\ ~Past(b, on)
      /\ \A c \in Attempts : Past(c, on) => Past(c, After(b, on))
      /\ on.stage # "None" => After(b, on).stage # "None"
      /\ Kind(b) = "create" => on.stage = "None"
  BY <1>1, <1>4, <1>7, CallAdvances DEF on
<1>9. chain' \in [Mandates -> OnBase]
  BY <1>1, <1>8 DEF ApiInv, Types
<1>10. nonces' \in [Agents -> Nat]
  BY <1>1, <1>4 DEF ApiInv, Types
<1>11. \A m \in Mandates : chain'[m] = IF m = Target(b) THEN After(b, on)
                                                        ELSE chain[m]
  BY <1>1 DEF ApiInv, Types
<1>12. \A m \in Mandates : chain[m].stage # "None" => chain'[m].stage # "None"
  BY <1>8, <1>11 DEF on
<1>13. \A c \in Attempts : jobs'[c] = IF c = a THEN j ELSE jobs[c]
  BY <1>1 DEF ApiInv, Types
<1>14. Past(a, After(b, on)) /\ ~Past(a, on)
  BY <1>3, <1>8 DEF Past
<1>15. ASSUME NEW c \in Attempts
       PROVE  ExecutedSound(c)'
  <2>1. ExecutedSound(c)
    BY DEF ApiInv, Recorded
  <2>2. jobs[c].call = "executed" => Target(c) \in Mandates
    BY KnownHas, JobsKnown
  <2>3. SUFFICES ASSUME jobs'[c].call = "executed"
                 PROVE  Past(c, chain'[Target(c)])
    BY <1>5 DEF ExecutedSound, Past
  <2>4. CASE c = a
    BY <1>3, <1>4, <1>11, <1>14, <2>4
  <2>5. CASE c # a /\ Target(c) = Target(b)
    BY <1>4, <1>8, <1>11, <1>13, <2>1, <2>3, <2>5 DEF ExecutedSound, on
  <2>6. CASE c # a /\ Target(c) # Target(b)
    BY <1>11, <1>13, <2>1, <2>2, <2>3, <2>6 DEF ExecutedSound
  <2> QED BY <2>4, <2>5, <2>6
<1>16. ExecutedOnce'
  <2>1. ASSUME NEW c \in Attempts, jobs[c].call = "executed"
        PROVE  ~Same(a, c) /\ ~Same(c, a)
    <3>1. Past(c, chain[Target(c)])
      BY <2>1 DEF ApiInv, Recorded, ExecutedSound
    <3> QED BY <1>3, <1>14, <3>1 DEF Same, Past, on
  <2>2. \A c, d \in Attempts : Same(c, d)' <=> Same(c, d)
    BY <1>5 DEF Same
  <2> QED BY <1>13, <2>1, <2>2 DEF ApiInv, Recorded, ExecutedOnce
<1>17. ASSUME NEW c \in operations, Kind(c) = "create",
              chain[Target(c)].stage # "None",
              \A e \in Attempts : jobs[e].call = "executed" => jobs[e].sent # c,
              NEW e \in Attempts, jobs'[e].call = "executed"
       PROVE  jobs'[e].sent # c
  <2>1. b # c
    BY <1>8, <1>17 DEF on
  <2> QED BY <1>6, <1>13, <1>17, <2>1
<1>18. JobSound(a)' /\ SentSound(a)'
  <2>1. JobSound(a)'
    BY <1>6, <1>13 DEF JobSound
  <2>2. SentSound(a)'
    BY <1>2, <1>3, <1>5, <1>6, <1>13 DEF SentSound
  <2> QED BY <2>1, <2>2
<1>19. OpenFunded'
  BY <1>1, <1>12 DEF ApiInv, Recorded, OpenFunded
<1>20. docs' = docs /\ docs' \in [Mandates -> Docs] /\ jobs[a].status # "ABSENT"
  BY <1>1, <1>2 DEF ApiInv, Types
<1> QED BY <1>1, <1>6, <1>9, <1>10, <1>12, <1>15, <1>16, <1>17, <1>18, <1>19,
           <1>20, CallMoves

\* A call that is refused, completed or sent anew.
LEMMA OutcomeStep ==
    ASSUME ApiInv, NEW a \in Attempts, Revert(a) \/ Finish(a) \/ Retry(a)
    PROVE  ApiInv'
<1>1. jobs[a] \in Calls /\ JobSound(a) /\ SentSound(a) /\ operations \subseteq Attempts
  BY DEF ApiInv, Recorded, Types
<1>2. ASSUME NEW j \in Calls, jobs' = [jobs EXCEPT ![a] = j],
             jobs[a].call # "none", jobs[a].status # "ABSENT",
             j.status # "ABSENT", j.call # "none", j.sent = jobs[a].sent,
             j.call = "executed" => jobs[a].call = "executed",
             j.status = "PENDING" => j.sends < MaxSends,
             j.status = "COMPLETED" => j.call = "executed",
             j.noted => j.call = "executed",
             j.call = "pending" => j.status = "SUBMITTED",
             j.call = "executed" => j.status \in {"SUBMITTED", "COMPLETED"},
             UNCHANGED <<docs, operations, genlayer, deliveries, base, client>>
      PROVE  ApiInv'
  <2>1. jobs'[a] = j
    BY <1>2 DEF ApiInv, Types
  <2>2. JobSound(a)'
    BY <1>2, <2>1 DEF JobSound
  <2>3. SentSound(a)'
    <3>1. /\ command' = command /\ req' = req /\ operations' = operations
          /\ pc' = pc
      BY <1>2 DEF client
    <3>2. \A c \in Attempts : Kind(c)' = Kind(c) /\ Target(c)' = Target(c)
      BY <3>1 DEF Kind, Target
    <3> QED BY <1>1, <1>2, <2>1, <3>1, <3>2 DEF SentSound
  <2> QED BY <1>2, <2>2, <2>3, JobStep
<1>3. CASE Revert(a)
  <2> DEFINE j == [jobs[a] EXCEPT !.call = "reverted"]
  <2>1. /\ jobs[a].call = "pending" /\ jobs' = [jobs EXCEPT ![a] = j]
        /\ UNCHANGED <<docs, operations, genlayer, deliveries, base, client>>
    BY <1>3 DEF Revert
  <2>2. jobs[a].status = "SUBMITTED" /\ ~jobs[a].noted
    BY <1>1, <2>1 DEF JobSound
  <2>3. /\ j \in Calls /\ j.status = "SUBMITTED" /\ j.call = "reverted"
        /\ j.sent = jobs[a].sent /\ ~j.noted
    BY <1>1, <2>2 DEF Calls
  <2> HIDE DEF j
  <2> QED BY <1>2, <2>1, <2>2, <2>3
<1>4. CASE Finish(a)
  <2> DEFINE j == [jobs[a] EXCEPT !.status = "COMPLETED"]
  <2>1. /\ jobs[a].status = "SUBMITTED" /\ jobs[a].noted
        /\ jobs' = [jobs EXCEPT ![a] = j]
        /\ UNCHANGED <<docs, operations, genlayer, deliveries, base, client>>
    BY <1>4 DEF Finish
  <2>2. jobs[a].call = "executed"
    BY <1>1, <2>1 DEF JobSound
  <2>3. /\ j \in Calls /\ j.status = "COMPLETED" /\ j.call = "executed"
        /\ j.sent = jobs[a].sent
    BY <1>1, <2>2 DEF Calls
  <2> HIDE DEF j
  <2> QED BY <1>2, <2>1, <2>2, <2>3
<1>5. CASE Retry(a)
  <2> DEFINE j == [jobs[a] EXCEPT !.status =
                      IF jobs[a].sends >= MaxSends THEN "FAILED" ELSE "PENDING"]
  <2>1. /\ jobs[a].call = "reverted" /\ jobs[a].status = "SUBMITTED"
        /\ jobs' = [jobs EXCEPT ![a] = j]
        /\ UNCHANGED <<docs, operations, genlayer, deliveries, base, client>>
    BY <1>5 DEF Retry
  <2>2. ~jobs[a].noted
    BY <1>1, <2>1 DEF JobSound
  <2>3. /\ j \in Calls /\ j.status \in {"PENDING", "FAILED"}
        /\ j.call = "reverted" /\ j.sent = jobs[a].sent /\ ~j.noted
        /\ j.status = "PENDING" => j.sends < MaxSends
    BY <1>1, <2>1, <2>2, OperationsAssumption DEF Calls
  <2> HIDE DEF j
  <2> QED BY <1>2, <2>1, <2>2, <2>3
<1> QED BY <1>3, <1>4, <1>5

\* The status of a document follows a call that executed: it is open once Base
\* has the mandate.
LEMMA NoteStep == ASSUME ApiInv, NEW a \in Attempts, Note(a) PROVE ApiInv'
<1> DEFINE j == [jobs[a] EXCEPT !.noted = TRUE]
           d == [docs[Target(a)] EXCEPT !.status = StatusAfter(Kind(a), @)]
<1>1. /\ jobs[a].status = "SUBMITTED" /\ jobs[a].call = "executed"
      /\ jobs' = [jobs EXCEPT ![a] = j]
      /\ docs' = [docs EXCEPT ![Target(a)] = d]
      /\ UNCHANGED <<operations, genlayer, deliveries, base, client>>
  BY DEF Note
<1>2. /\ a \in operations /\ jobs[a] \in Calls
      /\ docs \in [Mandates -> Docs] /\ jobs \in [Attempts -> Calls]
      /\ SentSound(a) /\ operations \subseteq Attempts
  BY <1>1, JobsKnown DEF ApiInv, Recorded, Types
<1>3. Target(a) \in Mandates /\ Kind(a) \in AllKinds
  BY <1>2, KnownHas, JobsKnown
<1>4. /\ j \in Calls /\ j.status = "SUBMITTED" /\ j.call = "executed"
      /\ j.sent = jobs[a].sent /\ j.status # "ABSENT"
  BY <1>1, <1>2 DEF Calls
<1>5. /\ d \in Docs /\ d.auth = docs[Target(a)].auth
      /\ d.provider = docs[Target(a)].provider
      /\ d.status = "OPEN" =>
            Kind(a) = "create" \/ docs[Target(a)].status = "OPEN"
  <2> DEFINE s == StatusAfter(Kind(a), docs[Target(a)].status)
  <2>1. docs[Target(a)] \in Docs
    BY <1>2, <1>3
  <2>2. docs[Target(a)].status \in DocStatus
    BY <2>1 DEF Docs
  <2>3. /\ s \in DocStatus
        /\ s = "OPEN" => Kind(a) = "create" \/ docs[Target(a)].status = "OPEN"
    BY <1>3, <2>2 DEF StatusAfter, DocStatus, AllKinds, CallKinds
  <2>4. d = [docs[Target(a)] EXCEPT !.status = s]
    OBVIOUS
  <2> HIDE DEF s
  <2> QED BY <2>1, <2>3, <2>4 DEF Docs
<1> HIDE DEF j, d
<1>6. /\ jobs'[a] = j
      /\ \A m \in Mandates : docs'[m] = IF m = Target(a) THEN d ELSE docs[m]
      /\ docs' \in [Mandates -> Docs]
  BY <1>1, <1>2, <1>5
<1>7. /\ chain' = chain /\ command' = command /\ req' = req /\ pc' = pc
      /\ operations' = operations
  BY <1>1 DEF base, client
<1>8. OpenFunded'
  <2>1. Kind(a) = "create" => chain[Target(a)].stage # "None"
    BY <1>1 DEF ApiInv, Recorded, ExecutedSound, Past
  <2> QED BY <1>5, <1>6, <1>7, <2>1 DEF ApiInv, Recorded, OpenFunded
<1>9. JobSound(a)'
  BY <1>4, <1>6 DEF JobSound
<1>10. SentSound(a)'
  <2>1. \A c \in Attempts : Kind(c)' = Kind(c) /\ Target(c)' = Target(c)
    BY <1>7 DEF Kind, Target
  <2> QED BY <1>1, <1>2, <1>4, <1>6, <1>7, <2>1 DEF SentSound
<1>11. /\ \A m \in Mandates :
             /\ docs'[m].auth = docs[m].auth
             /\ docs'[m].provider = docs[m].provider
       /\ jobs[a].status # "ABSENT"
  BY <1>1, <1>5, <1>6
<1> QED BY <1>1, <1>4, <1>6, <1>8, <1>9, <1>10, <1>11, BaseStays, CallMoves

\* What GenLayer answers changes the status of a document at most.
LEMMA JudgmentStep ==
    ASSUME ApiInv, NEW a \in Attempts, Adjudicate(a) \/ AppealJudgment(a)
    PROVE  ApiInv'
<1> DEFINE o == docs[Target(a)]
<1>1. /\ genlayer[a] # "ABSENT" /\ pc' = pc
      /\ UNCHANGED <<operations, jobs, deliveries, base, command, req>>
      /\ \E g \in {"SUBMITTED", "FAILED", "ENDED"} :
            genlayer' = [genlayer EXCEPT ![a] = g]
      /\ \/ docs' = docs
         \/ docs' = [docs EXCEPT ![Target(a)] =
                        [o EXCEPT !.judged = TRUE, !.status = "UNDER_REVIEW"]]
         \/ docs' = [docs EXCEPT ![Target(a)] = [o EXCEPT !.status = "APPEALED"]]
  BY DEF Adjudicate, AppealJudgment, client
<1>2. /\ a \in operations /\ operations \subseteq Attempts
      /\ docs \in [Mandates -> Docs] /\ pc \in [Attempts -> PC]
  BY <1>1, JobsKnown DEF ApiInv, Types
<1>3. Target(a) \in Mandates
  BY <1>2, KnownHas, JobsKnown
<1>4. {"SUBMITTED", "FAILED", "ENDED"} \subseteq Courts
  BY DEF Courts
<1>5. /\ docs' \in [Mandates -> Docs]
      /\ \A m \in Mandates :
            /\ docs'[m].auth = docs[m].auth
            /\ docs'[m].provider = docs[m].provider
            /\ docs'[m].status = "OPEN" => docs[m].status = "OPEN"
  <2>1. ASSUME NEW d \in Docs, docs' = [docs EXCEPT ![Target(a)] = d],
               d.auth = o.auth, d.provider = o.provider, d.status # "OPEN"
        PROVE  /\ docs' \in [Mandates -> Docs]
               /\ \A m \in Mandates :
                     /\ docs'[m].auth = docs[m].auth
                     /\ docs'[m].provider = docs[m].provider
                     /\ docs'[m].status = "OPEN" => docs[m].status = "OPEN"
    BY <1>2, <1>3, <2>1
  <2>2. o \in Docs
    BY <1>2, <1>3
  <2> HIDE DEF o
  <2>3. CASE docs' = [docs EXCEPT ![Target(a)] =
                         [o EXCEPT !.judged = TRUE, !.status = "UNDER_REVIEW"]]
    <3> DEFINE d == [o EXCEPT !.judged = TRUE, !.status = "UNDER_REVIEW"]
    <3>1. /\ d \in Docs /\ d.auth = o.auth /\ d.provider = o.provider
          /\ d.status # "OPEN"
      BY <2>2 DEF Docs, DocStatus
    <3> QED BY <2>1, <2>3, <3>1
  <2>4. CASE docs' = [docs EXCEPT ![Target(a)] = [o EXCEPT !.status = "APPEALED"]]
    <3> DEFINE d == [o EXCEPT !.status = "APPEALED"]
    <3>1. /\ d \in Docs /\ d.auth = o.auth /\ d.provider = o.provider
          /\ d.status # "OPEN"
      BY <2>2 DEF Docs, DocStatus
    <3> QED BY <2>1, <2>4, <3>1
  <2> QED BY <1>1, <1>2, <2>3, <2>4
<1>6. pc' \in [Attempts -> PC] /\ \A b \in Attempts : pc'[b] = pc[b]
  BY <1>1, <1>2
<1> QED BY <1>1, <1>2, <1>4, <1>5, <1>6, CourtStep

\* A step that changes nothing keeps the invariant.
LEMMA Stutter == ASSUME ApiInv, UNCHANGED vars PROVE ApiInv'
<1>1. /\ docs' = docs /\ operations' = operations /\ jobs' = jobs
      /\ genlayer' = genlayer /\ deliveries' = deliveries
      /\ chain' = chain /\ nonces' = nonces /\ command' = command
      /\ req' = req /\ pc' = pc
  BY DEF vars
<1>2. \A b \in Attempts : /\ Kind(b)' = Kind(b) /\ Agent(b)' = Agent(b)
                          /\ Target(b)' = Target(b)
  BY <1>1 DEF Kind, Agent, Target
<1>3. Types' /\ OneOperationPerKey'
  BY <1>1 DEF ApiInv, Types, OneOperationPerKey, KeyOf
<1>4. \A b \in Attempts : RequestSound(b)' /\ OperationSound(b)'
  BY <1>1, <1>2 DEF ApiInv, RequestSound, OperationSound, Known
<1>5. RequestsStay
  BY <1>1, <1>2 DEF ApiInv, Types, RequestsStay
<1>6. Recorded'
  BY <1>1, <1>5, QuietStep
<1> QED BY <1>3, <1>4, <1>6 DEF ApiInv

\* ApiInv is inductive.
THEOREM ApiInvariant == Spec => []ApiInv
<1>1. ApiInv /\ [Next]_vars => ApiInv'
  <2> SUFFICES ASSUME ApiInv, [Next]_vars PROVE ApiInv'
    OBVIOUS
  <2>1. ASSUME NEW c \in Commands, Give(c) PROVE ApiInv'
    BY <2>1, GiveStep
  <2>2. ASSUME NEW a \in Attempts, Prepare(a) PROVE ApiInv'
    BY <2>2, PrepareStep
  <2>3. ASSUME NEW a \in Attempts, Resend(a) \/ Stop(a) PROVE ApiInv'
    BY <2>3, ClientStep
  <2>4. ASSUME NEW a \in Attempts, Handle(a) PROVE ApiInv'
    <3>1. CASE Verify(a) \/ Lookup(a)
      BY <3>1, CheckStep
    <3>2. CASE InsertOperation(a)
      BY <3>2, InsertStep
    <3>3. CASE WriteDocument(a)
      BY <3>3, WriteStep
    <3>4. CASE EnqueueAppeal(a)
      BY <3>4, EnqueueAppealStep
    <3>5. CASE Enqueue(a)
      BY <3>5, EnqueueStep
    <3> QED BY <2>4, <3>1, <3>2, <3>3, <3>4, <3>5 DEF Handle
  <2>5. ASSUME NEW a \in Attempts, Process(a) PROVE ApiInv'
    <3>1. CASE Send(a)
      BY <3>1, SendStep
    <3>2. CASE Execute(a)
      BY <3>2, ExecuteStep
    <3>3. CASE Revert(a) \/ Finish(a) \/ Retry(a)
      BY <3>3, OutcomeStep
    <3>4. CASE Note(a)
      BY <3>4, NoteStep
    <3>5. CASE Adjudicate(a) \/ AppealJudgment(a)
      BY <3>5, JudgmentStep
    <3> QED BY <2>5, <3>1, <3>2, <3>3, <3>4, <3>5 DEF Process
  <2>6. CASE UNCHANGED vars
    BY <2>6, Stutter
  <2> QED BY <2>1, <2>2, <2>3, <2>4, <2>5, <2>6 DEF Next
<1> QED BY Initially, <1>1, PTL DEF Spec

-----------------------------------------------------------------------------

\* Every variable has its type, and no job is sent more often than MaxSends
\* allows.
THEOREM ApiTypeCorrect == Spec => []TypeOK
<1>1. ApiInv => TypeOK
  <2>1. ApiInv => \A a \in Attempts : jobs[a] \in Calls
    BY DEF ApiInv, Types
  <2> QED BY <2>1 DEF ApiInv, Types, TypeOK, Calls, Courts
<1> QED BY <1>1, ApiInvariant, PTL

\* Under one key, whatever a command asked for takes effect on Base at most
\* once, however often its client tries again and each try prepares anew.
THEOREM CarriedOnceAlways ==
    ASSUME ReuseKeys PROVE Spec => []CarriedOncePerCommand
<1>1. ASSUME ApiInv PROVE CarriedOncePerCommand
  <2> SUFFICES ASSUME NEW a \in Attempts, NEW b \in Attempts, a[1] = b[1],
                      jobs[a].call = "executed", jobs[b].call = "executed"
               PROVE  a = b
    BY DEF CarriedOncePerCommand
  <2>1. a \in operations /\ b \in operations
    BY <1>1, JobsKnown
  <2>2. KeyOf(a) = KeyOf(b)
    BY DEF KeyOf
  <2> QED BY <1>1, <2>1, <2>2 DEF ApiInv, OneOperationPerKey
<1>2. ApiInv => CarriedOncePerCommand
  BY <1>1
<1> QED BY <1>2, ApiInvariant, PTL

\* Two agents get jobs for the acceptance of one mandate only after a creation
\* that Base never carries out was written over its document: the filter of the
\* write keeps a second one out, and OPEN is written again only over a document
\* that keeps its provider.
THEOREM OneClaimantAlways == Spec => []OneClaimant
<1>1. ASSUME ApiInv PROVE OneClaimant
  <2> SUFFICES ASSUME NEW a \in Attempts, NEW b \in Attempts,
                      Kind(a) = "accept", Kind(b) = "accept",
                      Target(a) = Target(b),
                      jobs[a].status # "ABSENT", jobs[b].status # "ABSENT",
                      ~Overwritten(Target(a))
               PROVE  Agent(a) = Agent(b)
    BY DEF OneClaimant
  <2>1. ClaimHeld(a) /\ ClaimHeld(b)
    BY <1>1 DEF ApiInv, Recorded
  <2>2. /\ docs[Target(a)].provider = Agent(a)
        /\ docs[Target(b)].provider = Agent(b)
    BY <2>1 DEF ClaimHeld, Holds
  <2> QED BY <2>2
<1>2. ApiInv => OneClaimant
  BY <1>1
<1> QED BY <1>2, ApiInvariant, PTL

\* Of two jobs for one stage of a mandate, or for an appeal of one role, only
\* one is ever completed.
THEOREM CompletedOnceAlways == Spec => []CompletedOncePerStage
<1>1. ASSUME ApiInv PROVE CompletedOncePerStage
  <2>1. \A a \in Attempts :
           jobs[a].status = "COMPLETED" => jobs[a].call = "executed"
    BY <1>1 DEF ApiInv, Recorded, JobSound
  <2> QED BY <1>1, <2>1
      DEF ApiInv, Recorded, ExecutedOnce, Same, CompletedOncePerStage
<1>2. ApiInv => CompletedOncePerStage
  BY <1>1
<1> QED BY <1>2, ApiInvariant, PTL

=============================================================================
