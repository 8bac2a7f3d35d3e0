# Mandate Court: TLA+ verification project

Mandate Court holds a principal's USDC in escrow on Base until a provider's
delivery has been judged by a court on GenLayer, and then splits the deposit as
the judgment says. A web application takes signed requests, stores them in
MongoDB, and a serverless processor carries them, one relay job after the
other, to Base and to GenLayer.

This directory holds TLA+ modules translated from the source, the TLC
configurations that check them on small instances, and TLAPS proofs for every
value of the constants.

    tlc -config MCBaseCourt.cfg MCBaseCourt.tla
    tlapm BaseCourt_proofs.tla

Section 3 says what is checked, section 4 what is proved.

## 1. The system

| Component | State | Operations | What makes it correct |
| --- | --- | --- | --- |
| `MandateRegistry.sol` | mandates, `actorNonces`, `courtNonce` | createMandate, acceptMandate, submitDelivery, cancelMandate, markExpired, setStatus (escrow only) | commitments are set once; every nonce pays for one step; delivered work cannot be taken back |
| `MandateEscrow.sol` | deposits, the USDC it holds | setRegistry, fund, bindProvider (registry), settle (adapter), refund (registry) | solvent; a deposit leaves once; status and deposit agree |
| `DisputeRegistry.sol` | one case record per mandate | linkCase, recordAccepted, recordAppeal, recordFinalized | a finalized case never changes |
| `SettlementAdapter.sol` | links, `settled`, `usedNonces` | the three setters, executeFinalJudgment | pays only a finalized judgment of the committed delivery, once |
| Processor lease (`lib/db.ts`) | one lease document | acquire, release | passes never overlap; a dead owner blocks briefly |
| Processor (`api/internal/process`) | `relayJobs`, mandate documents, the settlement counter | one branch per job type | documents never ahead of the chain; nothing is lost |
| API handlers (`api/v1/...`) | mandate documents, `relayJobs`, `operations` | create, accept, deliver, appeal | the jobs inserted match the document; a command takes effect once |
| Relays 1Shot and Gelato (`lib/base-relay.ts`) | external tasks | submit, status | each call acts at most once |
| GenLayer and its client (`lib/genlayer.ts`) | external transactions and the stored case | submit_case, progress, appeal | only a finalized execution counts |
| Adjudicator (`mandate_adjudicator.py`) and evidence snapshots | cases; pages the court fetches | submit_case, get_case | what passes is proven; the settlement follows the weights; a final judgment stays |
| Webhooks (`lib/webhooks.ts`) | `webhookJobs`, the agent's secret | announce, send, mark | an event is handled once, and each ends |
| Challenges, agents, API keys | `challenges`, `agents`, `apiKeys` | challenge, redeem, revoke | one agent per wallet |
| Docket (`api/v1/docket`) | none | one page | a walk misses nothing |
| MCP server (`packages/mcp-server`) | the client of the session, calls in progress | dispatch, one function per tool | answers every request, acts for one agent |
| Live scripts and gate (`scripts/live`, `scripts/gates/verify-lifecycle.ts`) | `state.json`, the deliverable repository | seven steps, the gate | delivers what it published; the gate tells paid from unpaid |

Interaction: a handler writes the mandate document and inserts jobs. A pass of
the processor (cron, workflow, or any client that polls an operation) takes the
lease, selects due jobs and makes one call or write after the other. A relay
brings the call to Base later. A later pass polls the task, updates document
and job, and enqueues what follows: SUBMIT_DELIVERY wakes
GENLAYER_ADJUDICATION, which enqueues LINK_CASE, RECORD_ACCEPTED and
RECORD_FINALIZED; the last of these, when it is on Base, enqueues SETTLEMENT.

What is hard: there is no transaction across two documents, and an invocation
may end after any write; calls land late, twice, in another order, or never; a
failed poll sends a job again; nonces are read before the call that uses them
lands; appeals race the adjudication and the settlement; clients try again what
may still happen; pages change while a court reads them; clocks and deadlines
move; registry, escrow, dispute registry and adapter each keep a part of the
state of one mandate. `PROJECT.json` lists these hazards with the lines where
they bite and the properties that cover them.

## 2. The modules

    CourtTypes
      |- MandateEscrow ---.
      |- MandateRegistry --+- SettlementAdapter - BaseCourt ... implements MandatePromise
      '- DisputeRegistry -'         |
                                    '- CourtDatabase - CourtApi - CourtRelays - RelayQueue
    ProcessorLease                                     (RelayQueue: INSTANCE BaseCourt)
    ApiOperations     MandateAdjudicator     WebhookDelivery     LiveRun
    Credentials --.
    Docket -------'- AgentSession

The proofs about a module `M` are in `M_proofs`: BaseCourt, RelayQueue,
ApiOperations, MandateAdjudicator, WebhookDelivery, LiveRun and AgentSession
have one. The lease is proved about in the last part of `WebhookDelivery_proofs`,
which extends both modules: it is what lets that module, and RelayQueue, have one
pass at a time. `ProcessorLease` therefore has names of its own for what other
modules call `Init`, `Next`, `Spec` and `TypeOK`. `RelayQueue_proofs` uses the theorems of
`BaseCourt_proofs` through an INSTANCE. `FoldTheorems_proofs` has the lemmas about
sums over finite sets, listings and induction that four of them cite.

**CourtTypes, MandateEscrow, MandateRegistry, DisputeRegistry,
SettlementAdapter.** One module per contract: its storage as variables, one
operator per external function with every `require`-like guard as a conjunct. A
function of one contract that calls another is composed in `BaseCourt`, because
an Ethereum transaction is atomic: if the inner call reverts, so does the whole.
`Authorize` stands for `_authorize`: actor, both nonces and deadline; hashes and
signatures are abstracted to "the message names who signed it". Payload hashes
are not modelled separately: an authorization and its payload travel together.

**BaseCourt.** The four contracts together. `Authorizations(m)` and
`FinalJudgments(m)` are every message the parties and the court could have
signed within the bounds, old and new, so replays and reordering are always
possible. The court's wallet may send case records in any order: the contracts
have to hold without the service behaving well. `WireAdapter` and `WireEscrow`
are the deployment script (`deploy-base.sh:60-71`): the adapter's links in its
order, then the escrow's registry.

**MandatePromise.** What principal and provider are promised: a deposit is
taken once, is given back only while no work has been delivered, and after
delivery is paid out once, under the ruling that was fixed before. `PromiseKept`
maps it onto the contracts: stage from the registry's status, amount from the
escrow, ruling from the dispute registry, payments from all transfers so far.

**ProcessorLease.** `acquireProcessorLease` and `releaseProcessorLease`: an
invocation reads its own clock, then asks the database in a second step; the
platform kills it after `MaxDuration`; its clock may be off by `MaxSkew`.

**CourtDatabase, CourtApi, CourtRelays, RelayQueue.** The service. The processor
is a worker whose `at` names the next step; one step is what it does up to and
including one database write or one call to another system. Between any two
steps handlers, relays, GenLayer, Base and crashes may act. `seen` is the
mandate as it was read when the job was taken, which is what the code uses
later. The calls a relay brings to Base are the operators of `BaseCourt`
(`Base == INSTANCE BaseCourt`), so a stale nonce or an early record really
reverts.

| In the model | In the code |
| --- | --- |
| `worker.at` = "job" .. "appeal" | the place in the loop of `process/route.ts`, lines 37-192 |
| `Fail` | the catch clause, 193-198 |
| `SendCall(2)` | 1Shot took the call, failed to say so, Gelato got it too |
| `SendError(s, terminal)` | neither relay answered; `s` calls are on their way anyway |
| `tasks[k]` | every call ever sent for a job; `jobs[k].task` is the one it remembers |
| `inserting`, `appealing` | handlers between two of their writes |
| `genlayer[m]` | the GenLayer transaction that runs submit_case, and the case |

**ApiOperations.** What RelayQueue leaves out of the handlers: several requests
of one kind. A command prepares, signs and submits under an idempotency key; its
client may stop waiting and try again while the first handler still runs. The
handler steps are the awaits of the route: read, begin the operation, write the
document, insert the jobs, for GenLayer and for Base. Each may be the last. The
two appeals of a case and two deliveries of one mandate meet here, and so do two
creations of one mandate: `mandates/route.ts:40` takes the id that the request
names, and lines 106-110 write principal, provider and status over whatever
document is there, without looking at it. A processor that was killed between
document and job writes OPEN a second time, over a claim made in between.

**MandateAdjudicator.** `submit_case` from the manifest to the stored judgment:
which items are fetched, how excerpts are cut to a limit each and a limit for
all (a page past the second is fetched and hashed, but not retrieved; an error
page takes its part of it), which answers `_normalize_judgment` refuses, and how the settlement is computed.
The language model may answer anything. Pages change between the delivery, the
snapshot of the API (which is never read by the court) and every execution.

**WebhookDelivery.** `enqueueWebhook`, the sending half of a pass and a receiver
that follows docs/cli.md. Time is relative (the age of a stamp, the time until
the next attempt), which makes the state space finite without a bound on time.

**LiveRun.** The scripts 01 to 07 and `verify-lifecycle.ts`. A script is a few
steps, each up to one write of the state file, the repository or the court; any
script may stop there and any may be started instead of the next. The court may
record what did not happen, at most `MaxFaults` times: that is what the gate is
for.

**Credentials, Docket, AgentSession.** A session of the MCP server against the
collections it touches. Two calls may be between their steps at once;
`authenticate` is six steps, of which the last replaces the client that every
other call uses at its next step. That the court finds a challenge unused and
that it marks it used are two of them; each `authenticate` redeems the challenge
it asked for, so that the session never presents one twice. (Somebody who does,
at once, gets two keys of one agent: `auth.ts:32` and `:40` are two awaits.) The signed tools share one flow, of which
`accept` is modelled; what the handlers do with it is in ApiOperations.

### Abstractions

- `nextAttemptAt` and `createdAt` of jobs come from the clocks of many instances
  and decide only which open jobs a pass takes: any of them, in any order, at
  most `MaxDue` or all.
- In RelayQueue a mandate has at most one job of a kind, and each signed call is
  requested once per mandate (`NotRequested`); ApiOperations has the others.
- The terms of a mandate are fixed by `TermsOf`; preparation answers (428),
  DRAFT documents and the `claim` route change nothing RelayQueue follows.
- A handler that stops before its first write is a handler that never
  continues: an appeal may stay in `appealing` for ever.
- All GenLayer transactions submitted for one mandate concern the one case that
  submit_case stored first, and share its status. A case that cannot be read
  while a transaction is only accepted is no progress.
- An execution that fails on GenLayer is a judgment without a verdict.
- `DatabaseError` is one refused write in the middle of a job, followed by the
  successful write of the catch clause.
- One call to Base per pass (`baseRelaySubmitted`) is kept, and is all the
  serialization there is.
- `Tick` moves `block.timestamp`; deadlines signed by the service are `now +
  Lifetime` up to the last time of the model.
- In MandateAdjudicator a page is one of a few bodies, each of a length
  (`Chars`), and a hash the body it is of. `Total` is 10 instead of 10000.
- In LiveRun a file's hash names the data it was made from and where it was
  read; the earthquake catalogue gives any of a few collections, one of which
  the criteria refuse.
- In AgentSession an agent and a key are named by the request that made them.
  `Refused` is every answer of the court but the one the tool hopes for; time
  limits of a challenge are one of its causes.

## 3. What is checked

| Run | Question | Distinct states |
| --- | --- | --- |
| `court` | two mandates that share wallets, nonces, the token and the counter of settlements; appeals of one of them, time 0..3 | 141 thousand, up to symmetry of the mandates |
| `lease` | two invocations, durations 3, lease 6, skew 1, time 0..11 | 1.2 million |
| `queue` | one invocation stops between two writes, or deadlines pass; two GenLayer transactions | 467 thousand |
| `queue_faults` | one failure of a relay, GenLayer or the database anywhere, under fairness | 296 thousand |
| `queue_live` | the lifecycle goes on, with an appeal that may change the verdict | 159 thousand |
| `api` | two commands of any kinds, one of them tried twice, from five stages of the mandates | 1.4 million |
| `judge` | three terms, three manifests, any answer, one appeal | 49 thousand |
| `webhook` | two events, a new secret, a new deployment key, one crash | 95 thousand |
| `live` | the scripts with two detours, two mandates, one wrong record | 1.6 million |
| `session` | two concurrent requests of any tools, a docket of two mandates and pages of one | 453 thousand |
| `lost`, `judge_scores` | what the documentation says | violated, see 3.8 |

### 3.1 The contracts (`court`)

`PayoutMatchesOutcome`: all transfers of a mandate's life add up to one refund,
or to one split under the verdict its case was finalized with.
`OnlyJudgedWorkIsSettled`: the adapter never looks at the status of a mandate;
that only delivered work is settled follows from the delivery hash and the case.
`DeliveredLeavesByJudgment`: a delivered mandate is settled or stays.
`EscrowSolvent`: the escrow holds exactly the deposits not paid out.
`NonceAccounting`: the nonces of court and actors count the steps of all
mandates. `FundsNeverStranded`: when the protocol lets a deposit go, no guard of
another contract refuses it. `CourtInv`: the inductive invariant of section 4,
with types, `StatusMatchesDeposit` and `RecordsConsistent`. `PromiseKept`:
refinement.

### 3.2 The lease (`lease`)

`MutualExclusion`: two passes never overlap. `LeaseInv`: the invariant of section
4; the lease of a live pass is its own and is unexpired on every clock.
`TurnedAwayOnlyBriefly`: an invocation is refused only by a lease that was asked
for less than `LeaseMs` before on the two clocks, so an owner that was killed
costs a bounded time.

### 3.3 The service (`queue`, `queue_faults`, `queue_live`)

`DocumentNotAheadOfBase`: the API never shows a stage that the contracts have
not reached. `CompletedHasEffect`: a COMPLETED job's call took effect, although
jobs forget the tasks of earlier attempts. `CaseLinkedOnce`: a case submitted
twice is linked to the transaction that is followed. `SettledUnderFinality` and
`SettlementFollowsRecords`: the settlement rests on GenLayer's final verdict and
never overtakes the records on Base. `QueueInv` is their conjunction, checked
under failures. `FinalJudgmentAnswered`: a case that GenLayer finalized is
settled, or a job of its mandate is FAILED and so visible. `DeliveryAnswered`: a
delivery that is on Base comes before GenLayer, or a job fails; its relays report
the hash of what they carried, without which it would not hold (3.8). `AppealAnswered`:
an appeal is submitted or fails, and the adjudication that waits for it ends.

### 3.4 The API (`api`)

`CarriedOncePerCommand`: what a command asked for takes effect on Base once,
though each try of a creation may prepare a mandate of its own; it needs clients
that send their key again (`ReuseKeys`). `CompletedOncePerStage`: of two
deliveries signed under one nonce, or two appeals that both passed the check,
one is reported as completed. `OneClaimant`: two agents never both get a job for
the acceptance of one mandate, each of them checked against an older document.
It excepts mandates over whose document a creation was written that Base does
not carry out, because there the code does let a second agent in: the status
goes back to RELAY_PENDING, and to OPEN when a pass that was killed after it
wrote OPEN is repeated.
Four commands reach that (create, accept, create, accept); the two of this run
do not, and the theorem of 4.5 holds for any number.

Nothing is claimed of an operation without jobs, which the route reports as
COMPLETED, nor that a COMPLETED operation carried its own request rather than
another one that was written over it (3.8).

### 3.5 The judgment (`judge`)

`FulfilledMeansAllPassed`: no weights that halves add up to stand for a verdict.
`PassIsProven`: a criterion passes only on a source the court fetched itself and
that still has the committed hash. `RoundedForPrincipal`: rounding never pays
more than the exact half, and takes less than one basis point per partial
criterion. `FinalStays`: submitting again never replaces a final judgment.

### 3.6 Webhooks (`webhook`)

`HandledOnce`, `DeliveredWasHandled`, `EventEnds`: a receiver that deduplicates
handles what happened once; DELIVERED means handled; every stored event ends as
delivered or dead letter, whatever the receiver answers.

### 3.7 Agents and operators (`session`, `live`)

`OneIdentity`: however redemptions, swaps of the client and revocations
interleave, a wallet has one agent, a key names an agent of its wallet, and a
session accepts as that agent. `WalkSeesOpen`: a finished walk through the
docket has shown every mandate that was open throughout, but for one created in
the same millisecond as another. `RequestAnswered`: a request is answered once,
though another one waits for ever.

`ManifestServed`: the hash in a delivered manifest is of the bytes its pinned
commit serves, and the count is that commit's unless step 4 collected twice.
`GateSound`: the gate passes only runs that were paid exactly the award, in one
transaction, for a delivery that is served. `HonestRunPasses`: with an honest
court and a full award, the gate passes a settled run however often its scripts
were stopped, if the principal was funded once and one mandate was created.

### 3.8 Disagreements with the documentation

Two are runs of their own:

- `lost` (`process/route.ts:170`): the adjudication is COMPLETED before
  RECORD_FINALIZED is enqueued. A pass that stops in between is never repeated:
  the deposit stays in escrow and nothing is FAILED. README.md:952 says
  processing is eventually consistent.
- `judge_scores` (`mandate_adjudicator.py:214`): only a PASS needs fetched
  evidence; a PARTIAL without any pays half of its weight. The evidence skill
  (SKILL.md:23) says that it "scores nothing".

Others were met while modelling; the models contain the behaviour and no
property above claims the opposite:

- `process/route.ts:196`: a repeated call reverts and its job may end FAILED
  although the first one took effect; `process-queue.yml:9` calls the endpoint
  idempotent.
- `process/route.ts:73`: after a pass that stopped between document and job, a
  later pass writes an older stage over a newer one.
- `appeals/route.ts:36` writes by `_id` what was checked at line 22: an appeal
  may overwrite SETTLEMENT_PENDING; docs/cli.md:220 promises a 409. Two appeals
  of one party under two keys are both stored (line 26; docs/mcp.md:257 "one
  appeal").
- `operations.ts:11`: a signed command that runs again prepares another body, so
  its key is refused with 409; tools.ts:140 says it resumes. `cli/src/index.ts:41`
  and `02-create-mandate.ts:92` draw a new key per run; docs/cli.md:146 and the
  script's header say a retry resumes.
- `operations/[operationId]/route.ts:24`: an operation without jobs reads
  COMPLETED, although its handler stopped before it inserted them, or refused
  the request after the operation was stored.
- `mandates/route.ts:106`: a creation that names an existing mandate replaces its
  principal, provider and status in the document, whoever signed it and however
  far the mandate is. Base refuses the second creation, but the document stays.
- `deliver/route.ts:79`: a second delivery replaces the manifest of the first in
  the document; `process/route.ts:41`: the adjudication looks at the latest
  delivery job only, so both may fail although a delivery is on Base.
- `accept/route.ts:28`: an acceptance that fails for good keeps the mandate;
  docs/mcp.md:178 says the first valid one wins.
- `mandate_adjudicator.py:247`: a critical failure rules out FULFILLED and not
  the payment of the rest (provider SKILL.md:59 "gates on the entire award");
  :141 fetches 16 items of the 48 the skill allows; :335 refuses manifests and
  repeated criterion names that the API takes; :357 fetches again for an appeal
  (SKILL.md:25 "the locked record").
- `webhooks.ts:23` fixes the stamp at enqueueing, so that later retries fall out
  of the receiver's window (docs/cli.md:193); :18 reads the secret before the
  event is inserted (tools.ts:497).
- `processor-dependencies.ts:8`: a delivery that succeeded without a transaction
  hash waits for ever; `base-relay.ts:424` reads the hash as optional. The model
  has relays that report the hash.
- `process/route.ts:33`: ten open jobs that never end hold back younger ones.
- `verify-lifecycle.ts:117` fails an honest partial award, since the principal
  then holds its refund too, and passes one whose refund is missing; this is why
  `HonestRunPasses` speaks of full awards. `07-evidence.ts` lists the published
  artifacts of the run state, which differ from the delivered ones if step 5 ran
  again; step 5 after step 7 always fails; a second step 4 between 5 and 6 makes
  the manifest's count differ.
- `05-publish.ts:53`: the branch for "nothing to commit" is never taken. git
  prints that on stdout and the error text of `execFileSync` has stderr only, so
  a step 5 that runs again without new data stops there, pushed or not.
- `docket.ts:39` calls a mandate's acceptance window open and README.md:329 calls
  it one the agent can perform, though the query does not look at
  `acceptanceDeadline`; `docket/route.ts:16` passes over ties of `createdAt`.

### 3.9 Bounds, and why they are enough

- `court`: two mandates, because what they share is what could break: nonces,
  one pool of tokens, one counter of settlements. One verdict of half a deposit
  of 3 makes the division round. `MaxNonce` and `SettlementNonces` exceed what
  one lifecycle uses, so that a replayed or skipped nonce is visible; time 0..3
  lets both deadlines pass with a mandate on either side. `MCFewAppeals` lets
  one of the two cases be appealed: records of two cases share no variable.
  Mandates are symmetric: nothing orders them.
- The queue's runs have one mandate: jobs of different mandates meet only in the
  nonces, which `court` covers, and in the one call per pass, which several jobs
  of one mandate exercise as well. `MaxAttempts` is 1 or 2 instead of 8: with 2
  a job is sent again and then fails, which is all the counter decides.
  `MaxFaults` and `MaxCrashes` are 0 or 1, at every place; `MCOneTrouble` keeps
  the crash and the deadlines of `queue` in different behaviours. `GenLayerTxs`
  has two transactions wherever an invocation may stop or fail between submit_case
  and the write that remembers it, so that the case can be submitted again;
  `queue_live` has no such stop and needs one. `MaxDue` bounds
  the due jobs of a pass: with 1 each pass does one job, any one, and a longer
  pass does nothing that such passes do not, except to defer its second call to
  Base; with 0 every pass takes all open jobs and does defer.
- `api`: two commands, three tries. A race of the handlers is a race of two; the
  second try is what a retry is. `MaxSends` is 2 instead of 8.
- `judge`: weights 7 and 3, and 5 twice under one name, give odd halves. Three
  items are fetched of four, instead of 16 of more; a page is 2 long, an error
  page 1, an excerpt at most 2 and all of them 3, instead of 12000 and 64000: a
  second page is cut and a third one is past the total, unless one of those
  before it was an error.
- `webhook`: two events and one per pass make an event wait for an older one;
  backoff and window are 3 and 2 units, so that a retry can be too late.
- `live`: step 4 writes its three files one after the other; two detours reach every pair of repeated or skipped scripts;
  `MaxFaults` lets the court be wrong once.
- `session`: two requests, pages of one mandate and two creation times make a
  tie, a boundary and a mandate published in the middle of the walk.
- Deadlock is not checked: a settled mandate, an answered session or a run with
  its budgets spent really stops.

### 3.10 Fairness

- RelayQueue: `Work`, `Insertion`, `Land` and `CourtOfGenLayer` are weakly fair:
  a pass and a handler run to their end unless they crash, relays bring or
  refuse a call, and GenLayer finalizes. `StartAll` is strongly fair: it is
  disabled while a pass runs, and the longest delay of a job is fifteen minutes,
  so that a pass which takes every open job happens again and again as long as
  the workflow runs every five minutes.
- WebhookDelivery: `Select` is strongly fair for the same reason; announcing,
  sending, marking and the clock weakly.
- AgentSession: reading stdin, the steps of a call and the chain of writes are
  weakly fair, since a request to the court is answered or times out. A call that
  waits for an operation has none.
- Nothing is assumed of requests, of errors, of crashes, of the receiver or, in
  the queue, of the passing of time.

## 4. What is proved

The theorems hold for every value of the constants that satisfies the named
assumptions of the modules. Two of these are worth a word. Finiteness
(`FiniteCourt`, `DocketAssumption`, the criteria in `AdjudicatorAssumption`): an
identifier is 32 bytes, an address 20, a collection or a list of criteria a
finite one, and a sum over an infinite set has no value.
`CourtRelaysAssumption` repeats what BaseCourt assumes, so that it can be
instantiated.

### 4.1 Sums and induction (`FoldTheorems_proofs`)

The community operators for sums and listings are recursive functions on the
subsets of a set, chosen by an element each. `SubsetInduction` and
`NatSetInduction` state induction about a *set* of subsets or numbers, which the
provers can instantiate, where the library's theorems take an operator.
From them it follows that the recursion has a solution (`RunExists`), hence what
a sum is: an integer (`SumInt`), additive (`SumPlus`), monotonic (`SumLeq`),
changed by one term as much as the term (`SumOneTerm`), and the size of a set if
its terms are ones (`SumCount`); and that a listing of a finite set has exactly
its elements (`ListRunLists`). `LeastNatural` gives the smallest number of a set.

### 4.2 The contracts (`BaseCourt_proofs`)

- `TypeCorrect`; its arithmetic core is `ShareBound`: the provider's part is
  between 0 and the amount, and so no balance becomes negative.
- `CourtInvariant`: `CourtInv` is inductive. The invariants of 3.1 are not
  inductive alone: the adapter ignores the status, so one needs that a delivery
  hash marks exactly delivered or settled mandates, that a finalized case has a
  verdict and a link, and that the adapter's `settled` agrees with the registry
  (`RecordsConsistent`, `OnlyJudgedWorkIsSettled`). The proof is carried out for
  one mandate's `Books`; one lemma per transaction shows that the books of its
  own mandate are kept, and `BooksFrame` that the others are untouched.
  `StatusMatchesDepositAlways`, `PayoutMatchesOutcomeAlways` and
  `OnlyJudgedWorkIsSettledAlways` follow.
- `CommitmentsFrozenAlways`, `DeliveredLeavesByJudgmentAlways`,
  `FinalizedCaseFrozenAlways`: action properties, by the effects each step has
  (`StepEffects`) under `CourtInv`.
- `PromiseRefined`: every step of the contracts is a step of `MandatePromise`
  or stutters on it.
- `EscrowSolventAlways`: the escrow's balance is the sum of the deposits held.
  Every transfer moves one balance and one term of the sum by the same amount
  (`PayOutMoves`, `HeldChanges`).
- `NonceAccountingAlways`: each signed step adds one to the sum over the
  mandates and one to the nonce of its signer (`SignedStepAccounts`).
- `ReleaseNeverRefusedAlways`: where the protocol lets a deposit go, every guard
  of another contract holds: the adapter and the registry are wired in order
  (`WiredInOrder`), and the escrow holds what it pays because of solvency. This
  is the part of `FundsNeverStranded` that needs no ENABLED.

### 4.3 The service (`RelayQueue_proofs`)

`SystemInvariant` proves `SystemInv` inductive, for any number of mandates,
attempts, faults and crashes. Its parts:

- `ChainInv`: the contracts' `CourtInv`, with the theorems above taken over by
  `Court == INSTANCE BaseCourt_proofs`;
- `StoreInv`: per mandate, the delivery on Base is the one in the document, the
  document names a transaction of GenLayer's case and the verdict it finalized,
  and its status is not ahead of Base; per job, what it waited for is there
  before the job is (`Prepared`), every call that landed had its effect
  (`TaskSound`), and so has every completed job;
- `WorkerInv`: what the processor may rely on at each of its steps, though all
  else moves between them. `LabelNeeds` says it label by label; `SeenSound` says
  which of the fields it read earlier cannot have become wrong.

One lemma per step of the processor, the handlers, the relays and GenLayer shows
that it keeps the invariant; `BaseStands`, `PreparedStays`, `SeenStays` and
`WorkerStays` are the frames: what no step of another party takes away. All four
parts were checked by TLC on the four configurations of RelayQueue before they
were proved. From the invariant: `CompletedHasEffectAlways`,
`DocumentNotAheadOfBaseAlways`, `CaseLinkedOnceAlways`,
`SettledUnderFinalityAlways` and `QueueInvAlways`, the last with
`SettlementFollowsRecords`.

`ImplementsCourt` is the refinement: every step of the service with its relays
is a transaction of `BaseCourt` or leaves the contracts alone. So every theorem
of 4.2 is one about the service. Four are stated: `SystemKeepsFunds` (solvency and
correct payouts), `SystemLeavesByJudgment` (a delivered mandate leaves that status
by a judgment only), `SystemReleasesDeposits` (whatever the service has left
behind, no contract refuses the release of a deposit that is due), and
`SystemKeepsPromise`: a second refinement on top of the first, from the database,
the relays and GenLayer down to what the two parties are promised.

`QueueTypeCorrect` needs more than types: the catch clause writes `attempts + 1`
to a job whatever its status is, and may reopen one that has become final. That
`attempts` still stays within `MaxAttempts` rests on `Budgeted`: a job that is
open, in the batch or in work has attempts left, and a pass takes it once.

### 4.4 The lease (in `WebhookDelivery_proofs`)

For any invocations, lease, duration and skew with `MaxDuration + 2 * MaxSkew <
LeaseMs` (60 s and 120 s in the code, so a skew below 30 s) `LeaseInv` is
inductive, and from it follow `HolderIsProtectedAlways` and
`MutualExclusionAlways`. The invariant adds that an invocation read its clock
after it was started and lives at most `MaxDuration`, so that its lease outlives
it on every clock. `TurnedAwayOnlyBrieflyAlways` adds `LeaseOrigin`: a lease that
is held was written by an invocation that got it, from the time it had read.

### 4.5 The API (`ApiOperations_proofs`)

`ApiInvariant` proves `ApiInv`, for any agents, mandates, commands and tries. It
follows a request: whoever is past its preparation has a command and a target
(`RequestSound`); the handler that stored an operation goes on with it, and only
an answered operation has a job for Base (`OperationSound`); a key names one
operation (`OneOperationPerKey`). `Recorded` is what documents and calls then
know: what a document holds as signed came from an operation of that kind
(`AuthSound`) and is there for every job (`AuthThere`), whatever was written over
it; the call a job sends is of the job's kind and target (`SentSound`); what
executed, Base has (`ExecutedSound`), and of two calls for one stage at most one
executed (`ExecutedOnce`), because Base is then past the stage the other asks for
(`Past`). A document reads OPEN only once Base has the mandate (`OpenFunded`), so
that a later creation of it is one that Base does not carry out; that is why an
acceptance which was written either still holds its document or was overwritten
(`ClaimHeld`). From it `CompletedOnceAlways` and `OneClaimantAlways`.
`CarriedOnceAlways` assumes `ReuseKeys`: a client that draws a new key for a
retry may be charged twice, as 3.8 says.

### 4.6 The judgment (`MandateAdjudicator_proofs`)

`CourtSoundAlways`: each stored judgment has a finding for every criterion of the
locked terms, the settlement is the weight of what passed and half of what
passed in part, a PASS needs a provable source, and FULFILLED the whole weight. From it, for any number of
criteria and any weights that add up to `Total`: `FulfilledMeansAllPassedAlways`
(a weight that was halved or dropped leaves the sum below `Total`,
`TotalMeansAllPassed`), `RoundedForPrincipalAlways` (`RoundingBound` adds up what
each PARTIAL loses), `PassIsProvenAlways`, `FinalStaysAlways`.

### 4.7 Webhooks (`WebhookDelivery_proofs`)

`HookInvariant`: an event is of a fact that was announced, and no two are of one
fact; the receiver handled a fact as often as it has seen its event, which is at
most once; the batch holds different pending events; an answer that says yes is of an
event the receiver has seen. From it `HandledOnceAlways`,
`DeliveredWasHandledAlways`, and `HookTypeCorrect`, which needs that the backoff
is a number and that a batch is cut from a listing of the due events.

### 4.8 Agents and the docket (`AgentSession_proofs`)

`SessionHasOneIdentity`, for any requests, agents and mandates. `OneIdentity`
needs two strengthenings: the types, and `FoundIsOwn`: the agent that a running
`authenticate` has looked up is still an agent of its wallet when the key is
stored, because agents are only ever added and the unique index refuses the
second one.

`WalkSeesOpenAlways`, for any page size and docket: `WalkInv` says that a mandate
that stayed open and was not shown yet is older than the cursor, or shares its
creation time with another one. `CursorIsOldest` is what makes this inductive:
the new cursor is the smallest time of a page of the newest ones.

### 4.9 The live run (`LiveRun_proofs`)

`LiveInvariant` proves `LiveInv`, for any mandates, collections, amounts, number
of detours and faults of the court: the order in which the scripts are run,
stopped and run again is arbitrary. Neither `ManifestServed` nor `GateSound` is
inductive alone. What has to be added:

- `StepSound`: what a script has made sure of before the step it is at, since it
  may stop there and another script may have run before it goes on;
- `PublishedServed`: the hash that step 5 remembers is of what its pushed commit
  serves. It stays so because the repository only grows (`FilesGrow`), and step 6
  copies it into the manifest;
- `CountSound`: if the catalogue was collected once, the run's count and every
  commit agree on it, which is how a delivered count is its commit's;
- `CaseSound`: a case past its delivery has a manifest, is paid when it is
  settled and not before, and is wrong only by a fault of the court;
- `EscrowCovers`: the escrow holds `Amount` for each mandate of a
  finite set of locked ones, and no USDC is made or lost, so that a settlement can be paid;
- `ProviderHasPay`: with one mandate, the provider's balance is what it was paid.
  The gate compares balances, and `HonestRunPassesAlways` is about what it
  compares: with an honest court, one funding of the principal and a full award,
  the difference is the award and the escrow was taken from the principal.

`LiveTypeCorrect`, `ManifestServedAlways`, `GateSoundAlways` and
`HonestRunPassesAlways` follow. `LiveAssumption` says that no award rounds to
nothing: a mandate of `02-create-mandate.ts` has 2 000 000 units, so that one
basis point pays 200. TLC checked `LiveInv` on the instance of `live` before it
was proved.

### 4.10 Only model-checked

- All liveness: `FinalJudgmentAnswered`, `DeliveryAnswered`, `AppealAnswered`,
  `EventEnds`, `RequestAnswered`. The prover has no rules for fairness.
- `FundsNeverStranded`, which speaks of ENABLED. `ReleaseNeverRefusedAlways` is
  its state part, and `SystemReleasesDeposits` the same for the whole service.
- The two violated properties of 3.8 are counterexamples, not theorems.

Every other property of section 3, with the action properties and the
refinement, is stated by a theorem.

## 5. Not modelled

- `SignatureVerifier`, hashing, encryption: an authorization names its signer, a
  hash its preimage.
- The user interface, read-only views other than the docket, the SDK's readers,
  and the CLI beyond its keys: they keep no state of the protocol.
- The hosted A2A and MCP routes forward to the handlers; their discovery
  documents are data.
- Profile updates and identity links overwrite fields no rule reads.
- The other gates of `scripts/gates`, the rotation of secrets and the failover of
  RPC endpoints check or set one value each.
- Hazards without a property, with the reason in `PROJECT.json`: the ten-job
  limit of a pass, which no property of the code survives, and a CLI command run
  again under a new key. One is covered in part: the job of an appeal that fails
  although the appeal was heard harms no settlement, but nothing says that the
  job tells what happened. Nor does any property cover an operation that reads
  COMPLETED without jobs, or a delivery whose relay never reports a hash: the
  code has both (3.8). A mandate that `02-create-mandate.ts` created and forgot, and a
  bundle that `07-evidence.ts` committed and did not push, are states of LiveRun
  that an operator has to repair; no property excludes them.

## 6. Status

The models, their runs and the proofs of section 4 are done. What would say more:

1. `RelayQueue` and `ApiOperations` joined: several commands of one kind with the
   processor's own failures in between. Their product is beyond the bounds TLC
   finishes with; each has the other's part as a small environment.
2. The lease and the passes in one module, so that a pass is one of several
   invocations instead of the only one. Section 4.4 is the argument that allows
   the separation: passes never overlap, and a killed one is a crash of the pass.
3. A property of the order in which a pass takes its jobs, once the code gives
   one: today ten open jobs hold back younger ones (`process/route.ts:33`).
