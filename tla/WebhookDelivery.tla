-------------------------- MODULE WebhookDelivery --------------------------
(***************************************************************************)
(* Webhooks.  When the processor has completed a job it announces it to an *)
(* agent: it reads the agent, signs the event under the agent's secret or, *)
(* without one, under the deployment's, and inserts it.  A pass sends the  *)
(* oldest due events and marks each by its answer.  The receiver is the    *)
(* one of docs/cli.md: it refuses other secrets than those it keeps and    *)
(* stamps older than five minutes, and handles an event id once.           *)
(*                                                                         *)
(* Time is relative: age is the age of the stamp, due the time until the   *)
(* next attempt.  One unit is the five seconds of the backoff.             *)
(***************************************************************************)
EXTENDS Naturals, FiniteSets, Sequences, FiniteSetsExt

CONSTANTS
    Facts,           \* what is announced: a completed job to an agent
    MaxSecrets,      \* secrets the agent issues
    MaxKeys,         \* encryption keys the deployment has
    MaxBatch,        \* events of a pass, 10
    MaxAttempts,     \* 8
    MaxDelay,        \* the ceiling of the backoff, 15 minutes
    Tolerance,       \* the receiver's window, 5 minutes
    MaxCrashes       \* passes that stop half way

ASSUME WebhookAssumption ==
    /\ MaxSecrets \in Nat /\ MaxKeys \in Nat \ {0} /\ MaxBatch \in Nat \ {0}
    /\ MaxAttempts \in Nat \ {0} /\ MaxDelay \in Nat /\ Tolerance \in Nat
    /\ MaxCrashes \in Nat

VARIABLES
    announcing,      \* how far the announcement of a fact is
    signing,         \* the secret that was read for it
    secret,          \* the agent's latest secret, 0 before the first
    sealedUnder,     \* the key that encrypts it in the database
    key,             \* the deployment's key
    events,          \* webhookJobs in the order of createdAt
    batch,           \* the events the pass still has to send
    answered,        \* the receiver's answer to the first of them
    kept,            \* the secrets the receiver accepts
    handled,         \* how often the receiver has handled a fact
    seen,            \* the event ids it has handled
    crashes

agent == <<secret, sealedUnder>>
passing == <<batch, answered>>
receiver == <<kept, handled, seen>>
vars == <<announcing, signing, secret, sealedUnder, key, events, batch,
          answered, kept, handled, seen, crashes>>

Fallback == 0
Delay(n) == LET d == 2^n IN IF d < MaxDelay THEN d ELSE MaxDelay

Init ==
    /\ announcing = [f \in Facts |-> "open"]
    /\ signing = [f \in Facts |-> Fallback]
    /\ secret = Fallback /\ sealedUnder = 1 /\ key = 1
    /\ events = <<>> /\ batch = <<>> /\ answered = "none"
    /\ kept = {Fallback} /\ handled = [f \in Facts |-> 0] /\ seen = {}
    /\ crashes = 0

Idle == batch = <<>>
Announces == \E f \in Facts : announcing[f] \in {"completed", "read"}

Move(f, from, to) ==
    /\ announcing[f] = from
    /\ announcing' = [announcing EXCEPT ![f] = to]

\* The relay job of the fact is COMPLETED; it is not selected again.
Complete(f) ==
    /\ Idle /\ ~Announces
    /\ Move(f, "open", "completed")
    /\ UNCHANGED <<signing, agent, key, events, passing, receiver, crashes>>

\* enqueueWebhook reads the agent; a secret that another key encrypted cannot be
\* read, and the error is logged.
ReadAgent(f) ==
    /\ IF secret # Fallback /\ sealedUnder # key
       THEN Move(f, "completed", "lost") /\ UNCHANGED signing
       ELSE /\ Move(f, "completed", "read")
            /\ signing' = [signing EXCEPT ![f] = secret]
    /\ UNCHANGED <<agent, key, events, passing, receiver, crashes>>

\* ... and inserts the event with the signature it will always have.
Insert(f) ==
    /\ Move(f, "read", "announced")
    /\ events' = Append(events, [fact |-> f, secret |-> signing[f],
                                 status |-> "PENDING", attempts |-> 0,
                                 due |-> 0, age |-> 0])
    /\ UNCHANGED <<signing, agent, key, passing, receiver, crashes>>

\* POST webhook-secret; the receiver keeps the secrets it had.
IssueSecret ==
    /\ secret < MaxSecrets
    /\ secret' = secret + 1 /\ sealedUnder' = key
    /\ kept' = kept \cup {secret + 1}
    /\ UNCHANGED <<announcing, signing, key, events, passing, handled, seen,
                   crashes>>

\* ... until its queue has drained.
DropSecrets ==
    /\ \A i \in DOMAIN events : events[i].status # "PENDING"
    /\ kept' = {secret} /\ kept # {secret}
    /\ UNCHANGED <<announcing, signing, agent, key, events, passing, handled,
                   seen, crashes>>

\* The deployment gets another encryption key.
ChangeKey ==
    /\ key < MaxKeys /\ key' = key + 1
    /\ UNCHANGED <<announcing, signing, agent, events, passing, receiver,
                   crashes>>

(***************************************************************************)
(* A pass.                                                                 *)
(***************************************************************************)

Due == {i \in DOMAIN events : events[i].status = "PENDING" /\ events[i].due = 0}

Oldest(S) == {i \in S : Cardinality({j \in S : j < i}) < MaxBatch}

Select ==
    /\ Idle /\ ~Announces /\ Due # {}
    /\ batch' = [n \in 1 .. Cardinality(Oldest(Due)) |->
                   CHOOSE i \in Oldest(Due) :
                      Cardinality({j \in Oldest(Due) : j <= i}) = n]
    /\ UNCHANGED <<announcing, signing, agent, key, events, answered, receiver,
                   crashes>>

Accepts(e) == e.secret \in kept /\ e.age <= Tolerance

\* The receiver may be away, may refuse, and its answer may be lost.
Post ==
    /\ ~Idle /\ answered = "none"
    /\ LET i == Head(batch)
           e == events[i] IN
       \/ answered' = "failed" /\ UNCHANGED receiver
       \/ ~Accepts(e) /\ answered' = "refused" /\ UNCHANGED receiver
       \/ /\ Accepts(e)
          /\ answered' \in {"ok", "failed"}
          /\ seen' = seen \cup {i}
          /\ handled' = IF i \in seen THEN handled
                        ELSE [handled EXCEPT ![e.fact] = @ + 1]
          /\ UNCHANGED kept
    /\ UNCHANGED <<announcing, signing, agent, key, events, batch, crashes>>

\* Mutant of Delivered: any answer is a delivery.
AnyAnswer == answered \in {"ok", "refused"}

Delivered == answered = "ok"

\* Mutant of Failed: the event is tried for ever.
FailedForEver(e) ==
    [e EXCEPT !.attempts = (e.attempts + 1) % MaxAttempts,
              !.due = Delay(e.attempts + 1)]

\* Mutant of Failed: one attempt too many.
FailedLate(e) ==
    [e EXCEPT !.status = IF e.attempts >= MaxAttempts THEN "DEAD_LETTER"
                                                       ELSE "PENDING",
              !.attempts = e.attempts + 1, !.due = Delay(e.attempts + 1)]

Failed(e) ==
    [e EXCEPT !.status = IF e.attempts + 1 >= MaxAttempts THEN "DEAD_LETTER"
                                                           ELSE "PENDING",
              !.attempts = e.attempts + 1, !.due = Delay(e.attempts + 1)]

\* Mutant of Mark: a failed event is enqueued anew, with an id of its own.
MarkAnew ==
    /\ ~Idle /\ answered # "none"
    /\ LET i == Head(batch) IN
       events' = IF Delivered
                 THEN [events EXCEPT ![i].status = "DELIVERED"]
                 ELSE Append([events EXCEPT ![i].status = "DEAD_LETTER"],
                             Failed(events[i]))
    /\ batch' = Tail(batch) /\ answered' = "none"
    /\ UNCHANGED <<announcing, signing, agent, key, receiver, crashes>>

Mark ==
    /\ ~Idle /\ answered # "none"
    /\ LET i == Head(batch) IN
       events' = IF Delivered
                 THEN [events EXCEPT ![i].status = "DELIVERED"]
                 ELSE [events EXCEPT ![i] = Failed(@)]
    /\ batch' = Tail(batch) /\ answered' = "none"
    /\ UNCHANGED <<announcing, signing, agent, key, receiver, crashes>>

\* The platform stops the invocation: what was sent is not marked, what was to
\* be announced is not announced.
Crash ==
    /\ crashes < MaxCrashes /\ (~Idle \/ Announces)
    /\ crashes' = crashes + 1
    /\ announcing' = [f \in Facts |->
          IF announcing[f] \in {"completed", "read"} THEN "lost"
                                                     ELSE announcing[f]]
    /\ batch' = <<>> /\ answered' = "none"
    /\ UNCHANGED <<signing, agent, key, events, receiver>>

\* Time matters to the events that are waiting; ages beyond the window are one.
Tick ==
    /\ Idle
    /\ \E i \in DOMAIN events : events[i].status = "PENDING"
    /\ \E i \in DOMAIN events : events[i].due > 0 \/ events[i].age <= Tolerance
    /\ events' = [i \in DOMAIN events |->
          LET e == events[i] IN
          [e EXCEPT !.due = IF @ > 0 THEN @ - 1 ELSE 0,
                    !.age = IF @ <= Tolerance THEN @ + 1 ELSE @]]
    /\ UNCHANGED <<announcing, signing, agent, key, passing, receiver, crashes>>

Announce == \E f \in Facts : Complete(f) \/ ReadAgent(f) \/ Insert(f)

Next ==
    \/ Announce \/ IssueSecret \/ DropSecrets \/ ChangeKey
    \/ Select \/ Post \/ Mark \/ Crash \/ Tick

Spec == Init /\ [][Next]_vars

\* The cron starts passes again and again, and a pass goes on unless it crashes.
FairSpec == Spec /\ WF_vars(Announce) /\ WF_vars(Tick) /\ SF_vars(Select)
                 /\ WF_vars(Post) /\ WF_vars(Mark)

(***************************************************************************)
(* Properties.                                                             *)
(***************************************************************************)

\* Every variable has its type; the attempts of an event are counted up to the
\* limit and no further.
TypeOK ==
    /\ announcing \in
          [Facts -> {"open", "completed", "read", "announced", "lost"}]
    /\ signing \in [Facts -> 0 .. MaxSecrets]
    /\ secret \in 0 .. MaxSecrets /\ kept \subseteq 0 .. MaxSecrets
    /\ key \in 1 .. MaxKeys /\ sealedUnder \in 1 .. MaxKeys
    /\ \A i \in DOMAIN events :
          /\ events[i].status \in {"PENDING", "DELIVERED", "DEAD_LETTER"}
          /\ events[i].attempts \in 0 .. MaxAttempts
          /\ events[i].status = "PENDING" => events[i].attempts < MaxAttempts
    /\ batch \in Seq(DOMAIN events)
    /\ answered \in {"none", "ok", "failed", "refused"}

\* A receiver that deduplicates on the event id handles what happened once,
\* although lost answers and stopped passes send it again.
HandledOnce == \A f \in Facts : handled[f] <= 1

\* An event that is DELIVERED has been handled by its receiver: an answer that
\* refuses it, or none, never counts.
DeliveredWasHandled ==
    \A i \in DOMAIN events :
        events[i].status = "DELIVERED" => handled[events[i].fact] = 1

\* Every event that is stored is delivered in the end or becomes a dead letter,
\* whatever the receiver answers and however many older events are due.
EventEnds ==
    \A n \in 1 .. Cardinality(Facts) :
        Len(events) >= n ~>
            Len(events) >= n /\ events[n].status \in {"DELIVERED", "DEAD_LETTER"}

=============================================================================
