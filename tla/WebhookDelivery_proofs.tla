----------------------- MODULE WebhookDelivery_proofs -----------------------
(***************************************************************************)
(* Proofs about WebhookDelivery for any number of announcements, secrets,  *)
(* keys, attempts and crashes, and any batch, backoff and window.          *)
(*                                                                         *)
(* A pass of WebhookDelivery is never joined by a second one.  The last    *)
(* part proves what allows that, here and in RelayQueue: the lease of      *)
(* ProcessorLease, which a pass over jobs and events holds to its end, for *)
(* any number of invocations and any durations.                            *)
(***************************************************************************)
EXTENDS WebhookDelivery, ProcessorLease, FiniteSetTheorems, TLAPS

(***************************************************************************)
(* Types.                                                                  *)
(***************************************************************************)
Stage == {"open", "completed", "read", "announced", "lost"}

Event ==
    [fact : Facts, secret : 0 .. MaxSecrets,
     status : {"PENDING", "DELIVERED", "DEAD_LETTER"},
     attempts : 0 .. MaxAttempts, due : Nat, age : Nat]

HookTypes ==
    /\ announcing \in [Facts -> Stage]
    /\ signing \in [Facts -> 0 .. MaxSecrets]
    /\ secret \in 0 .. MaxSecrets /\ kept \subseteq 0 .. MaxSecrets
    /\ key \in 1 .. MaxKeys /\ sealedUnder \in 1 .. MaxKeys
    /\ events \in Seq(Event)
    /\ batch \in Seq(DOMAIN events)
    /\ answered \in {"none", "ok", "failed", "refused"}
    /\ handled \in [Facts -> Nat]
    /\ seen \subseteq DOMAIN events

(***************************************************************************)
(* The inductive invariant.  A fact is announced by one event, so that the *)
(* receiver, which counts event ids, counts facts; the events of a pass    *)
(* are pending and different, so that a failure is counted below the limit;*)
(* and only a receiver that has handled the event answers ok.              *)
(***************************************************************************)
EventSound(i) ==
    /\ events[i].status = "PENDING" => events[i].attempts < MaxAttempts
    /\ events[i].status = "DELIVERED" => i \in seen
    /\ announcing[events[i].fact] = "announced"

OneEventPerFact ==
    \A i, j \in DOMAIN events : events[i].fact = events[j].fact => i = j

HandledAsSeen ==
    \A f \in Facts :
        handled[f] = IF \E i \in seen : events[i].fact = f THEN 1 ELSE 0

BatchSound ==
    /\ \A n \in DOMAIN batch : events[batch[n]].status = "PENDING"
    /\ \A m, n \in DOMAIN batch : batch[m] = batch[n] => m = n

AnswerSound ==
    /\ answered # "none" => batch # <<>>
    /\ answered = "ok" => Head(batch) \in seen

HookInv ==
    /\ HookTypes
    /\ \A i \in DOMAIN events : EventSound(i)
    /\ OneEventPerFact
    /\ HandledAsSeen
    /\ BatchSound
    /\ AnswerSound

(***************************************************************************)
(* Numbers.                                                                *)
(***************************************************************************)

\* The backoff is a natural number: a power of two counts the subsets of a set.
LEMMA DelayNat == \A n \in Nat : Delay(n) \in Nat
<1> SUFFICES ASSUME NEW n \in Nat PROVE Delay(n) \in Nat
  OBVIOUS
<1>1. IsFiniteSet(1 .. n) /\ Cardinality(1 .. n) = n
  BY FS_Interval
<1>2. Cardinality(SUBSET (1 .. n)) = 2^n /\ IsFiniteSet(SUBSET (1 .. n))
  BY <1>1, FS_SUBSET
<1>3. 2^n \in Nat
  BY <1>2, FS_CardinalityType
<1> QED BY <1>3, WebhookAssumption DEF Delay

\* The rank of a member of a finite set of numbers.
Rank(S, i) == Cardinality({j \in S : j <= i})

\* Every number up to the size of the set is the rank of one of its members:
\* ranks differ, and there are as many as members.
LEMMA EveryRank ==
    ASSUME NEW S, S \subseteq Nat, IsFiniteSet(S),
           NEW n \in 1 .. Cardinality(S)
    PROVE  \E i \in S : Rank(S, i) = n
<1> DEFINE N == Cardinality(S)
           rank == [i \in S |-> Rank(S, i)]
<1>1. N \in Nat
  BY FS_CardinalityType
<1>2. ASSUME NEW i \in S
      PROVE  /\ {j \in S : j <= i} \in SUBSET S
             /\ IsFiniteSet({j \in S : j <= i})
             /\ Rank(S, i) \in 1 .. N
  <2> DEFINE below == {j \in S : j <= i}
  <2>1. below \in SUBSET S /\ i \in below
    OBVIOUS
  <2> HIDE DEF below
  <2>2. /\ IsFiniteSet(below) /\ Cardinality(below) <= N
        /\ Cardinality(below) \in Nat
    BY <2>1, FS_Subset, FS_CardinalityType
  <2>3. Cardinality(below) # 0
    BY <2>1, <2>2, FS_EmptySet
  <2>4. Cardinality(below) \in 1 .. N
    BY <1>1, <2>2, <2>3
  <2> QED BY <2>1, <2>2, <2>4 DEF below, Rank
<1>3. ASSUME NEW i \in S, NEW k \in S, i < k
      PROVE  Rank(S, i) # Rank(S, k)
  <2> DEFINE low == {j \in S : j <= i}
             high == {j \in S : j <= k}
  <2>1. low \in SUBSET high /\ k \in high /\ k \notin low
    <3>1. \A j \in S : j \in Int
      OBVIOUS
    <3>2. \A j \in S : j <= i => j <= k
      BY <1>3, <3>1
    <3>3. ~(k <= i) /\ k <= k
      BY <1>3, <3>1
    <3> QED BY <3>2, <3>3
  <2>2. IsFiniteSet(high)
    BY <1>2
  <2> HIDE DEF low, high
  <2>3. Cardinality(low) # Cardinality(high)
    BY <2>1, <2>2, FS_Subset
  <2> QED BY <2>3 DEF Rank, low, high
<1>4. rank \in Injection(S, 1 .. N)
  <2>1. rank \in [S -> 1 .. N]
    BY <1>2
  <2>2. ASSUME NEW i \in S, NEW k \in S, rank[i] = rank[k] PROVE i = k
    <3>1. ~(i < k) /\ ~(k < i)
      BY <1>3, <2>2
    <3> QED BY <3>1
  <2> HIDE DEF rank
  <2> QED BY <2>1, <2>2 DEF Injection, IsInjective
<1>5. IsFiniteSet(1 .. N) /\ Cardinality(1 .. N) = N
  BY <1>1, FS_Interval
<1>6. rank \in Surjection(S, 1 .. N)
  <2> HIDE DEF rank
  <2> QED BY <1>4, <1>5, FS_Injection
<1>7. \E i \in S : rank[i] = n
  <2> HIDE DEF rank
  <2> QED BY <1>6 DEF Surjection
<1> QED BY <1>7

(***************************************************************************)
(* Sequences.                                                              *)
(***************************************************************************)

\* A sequence over a set is one over every larger set.
LEMMA SeqGrows ==
    ASSUME NEW A, NEW B, A \subseteq B, NEW s \in Seq(A)
    PROVE  s \in Seq(B)
OBVIOUS

\* A function on 1 .. n is a sequence.
LEMMA FunctionIsSeq ==
    ASSUME NEW A, NEW n \in Nat, NEW s \in [1 .. n -> A]
    PROVE  s \in Seq(A)
OBVIOUS

(***************************************************************************)
(* The steps.                                                              *)
(***************************************************************************)

\* The first event of a pass.
LEMMA HeadFacts ==
    ASSUME HookInv, ~Idle
    PROVE  /\ Head(batch) \in DOMAIN events
           /\ events[Head(batch)] \in Event
           /\ events[Head(batch)].status = "PENDING"
           /\ EventSound(Head(batch))
<1>1. batch \in Seq(DOMAIN events) /\ batch # <<>>
  BY DEF HookInv, HookTypes, Idle
<1>2. 1 \in DOMAIN batch /\ Head(batch) = batch[1]
  BY <1>1
<1> QED BY <1>1, <1>2 DEF HookInv, HookTypes, BatchSound

\* How far an announcement is matters to no event but its own.
LEMMA MoveKeeps ==
    ASSUME HookInv, NEW f \in Facts, NEW from \in Stage, NEW to \in Stage,
           from # "announced", Move(f, from, to),
           signing' \in [Facts -> 0 .. MaxSecrets],
           UNCHANGED <<agent, key, events, passing, receiver>>
    PROVE  HookInv'
<1>1. announcing' = [announcing EXCEPT ![f] = to] /\ announcing[f] = from
  BY DEF Move
<1>2. HookTypes'
  BY <1>1 DEF HookInv, HookTypes, agent, passing, receiver
<1>3. \A i \in DOMAIN events : EventSound(i)'
  <2> SUFFICES ASSUME NEW i \in DOMAIN events PROVE EventSound(i)'
    OBVIOUS
  <2>1. EventSound(i) /\ events[i] \in Event /\ announcing \in [Facts -> Stage]
    BY DEF HookInv, HookTypes
  <2> QED BY <1>1, <2>1 DEF EventSound, Event, receiver
<1> QED BY <1>2, <1>3 DEF HookInv, OneEventPerFact, HandledAsSeen, BatchSound,
                          AnswerSound, passing, receiver

\* The relay job is complete; the agent is read.
LEMMA AnnounceKeeps ==
    ASSUME HookInv, NEW f \in Facts, Complete(f) \/ ReadAgent(f)
    PROVE  HookInv'
<1>1. CASE Complete(f)
  BY <1>1, MoveKeeps DEF Complete, HookInv, HookTypes, Stage
<1>2. CASE ReadAgent(f)
  <2>1. signing' \in [Facts -> 0 .. MaxSecrets]
    BY <1>2 DEF ReadAgent, HookInv, HookTypes
  <2>2. Move(f, "completed", "lost") \/ Move(f, "completed", "read")
    BY <1>2 DEF ReadAgent
  <2> QED BY <1>2, <2>1, <2>2, MoveKeeps DEF ReadAgent, Stage
<1> QED BY <1>1, <1>2

\* The event of a fact is stored once: its announcement is over then.
LEMMA InsertKeeps ==
    ASSUME HookInv, NEW f \in Facts, Insert(f)
    PROVE  HookInv'
<1> DEFINE e == [fact |-> f, secret |-> signing[f], status |-> "PENDING",
                 attempts |-> 0, due |-> 0, age |-> 0]
           n == Len(events) + 1
<1>1. /\ announcing[f] = "read"
      /\ announcing' = [announcing EXCEPT ![f] = "announced"]
      /\ events' = Append(events, e)
      /\ UNCHANGED <<signing, secret, sealedUnder, key, batch, answered, kept,
                     handled, seen>>
  BY DEF Insert, Move, agent, passing, receiver
<1>2. e \in Event /\ e.fact = f /\ e.status = "PENDING" /\ e.attempts = 0
  BY WebhookAssumption DEF Event, HookInv, HookTypes
<1> HIDE DEF e
<1>3. /\ events \in Seq(Event) /\ Len(events) \in Nat
      /\ DOMAIN events = 1 .. Len(events)
  BY DEF HookInv, HookTypes
<1>4. /\ events' \in Seq(Event) /\ DOMAIN events' = 1 .. n
      /\ events'[n] = e
      /\ \A i \in DOMAIN events : events'[i] = events[i]
      /\ DOMAIN events \subseteq DOMAIN events'
  BY <1>1, <1>2, <1>3
<1>5. \A i \in DOMAIN events' : i # n => i \in DOMAIN events
  BY <1>3, <1>4
<1> HIDE DEF n
<1>6. HookTypes'
  <2>1. batch \in Seq(DOMAIN events')
    <3>1. batch \in Seq(DOMAIN events)
      BY DEF HookInv, HookTypes
    <3>2. DOMAIN events \subseteq DOMAIN events'
      BY <1>4
    <3> QED BY <3>1, <3>2, SeqGrows
  <2> QED BY <1>1, <1>4, <2>1 DEF HookInv, HookTypes, Stage
<1>7. \A i \in DOMAIN events : events[i].fact # f /\ events[i] \in Event
  BY <1>1, <1>3 DEF HookInv, EventSound
<1>8. ASSUME NEW i \in DOMAIN events' PROVE EventSound(i)'
  <2>1. CASE i = n
    BY <1>1, <1>2, <1>4, <2>1, WebhookAssumption
    DEF EventSound, HookInv, HookTypes
  <2>2. CASE i # n
    BY <1>1, <1>4, <1>5, <1>7, <2>2 DEF EventSound, HookInv, HookTypes, Event
  <2> QED BY <2>1, <2>2
<1>9. OneEventPerFact'
  BY <1>2, <1>4, <1>5, <1>7 DEF OneEventPerFact, HookInv
<1>10. HandledAsSeen'
  <2>1. \A i \in seen : events'[i].fact = events[i].fact
    BY <1>4 DEF HookInv, HookTypes
  <2>2. handled' = handled /\ seen' = seen
    BY <1>1
  <2> QED BY <2>1, <2>2 DEF HookInv, HandledAsSeen
<1>11. BatchSound'
  <2>1. \A m \in DOMAIN batch : batch[m] \in DOMAIN events
    BY DEF HookInv, HookTypes
  <2> QED BY <1>1, <1>4, <2>1 DEF BatchSound, HookInv
<1>12. AnswerSound'
  BY <1>1 DEF AnswerSound, HookInv
<1> QED BY <1>6, <1>8, <1>9, <1>10, <1>11, <1>12 DEF HookInv

\* Secrets and keys come and go; what was stored stays signed as it was.
LEMMA SecretsKeep ==
    ASSUME HookInv, IssueSecret \/ DropSecrets \/ ChangeKey
    PROVE  HookInv'
<1>1. UNCHANGED <<announcing, signing, events, batch, answered, handled, seen>>
  BY DEF IssueSecret, DropSecrets, ChangeKey, agent, passing, receiver
<1>2. /\ secret \in 0 .. MaxSecrets /\ kept \subseteq 0 .. MaxSecrets
      /\ key \in 1 .. MaxKeys /\ sealedUnder \in 1 .. MaxKeys
      /\ MaxSecrets \in Nat /\ MaxKeys \in Nat
  BY WebhookAssumption DEF HookInv, HookTypes
<1>3. /\ secret' \in 0 .. MaxSecrets /\ kept' \subseteq 0 .. MaxSecrets
      /\ key' \in 1 .. MaxKeys /\ sealedUnder' \in 1 .. MaxKeys
  <2>1. CASE IssueSecret
    <3>1. secret + 1 \in 0 .. MaxSecrets
      BY <1>2, <2>1 DEF IssueSecret
    <3> QED BY <1>2, <2>1, <3>1 DEF IssueSecret
  <2>2. CASE DropSecrets
    BY <1>2, <2>2 DEF DropSecrets, agent
  <2>3. CASE ChangeKey
    <3>1. key + 1 \in 1 .. MaxKeys
      BY <1>2, <2>3 DEF ChangeKey
    <3> QED BY <1>2, <2>3, <3>1 DEF ChangeKey, agent, receiver
  <2> QED BY <2>1, <2>2, <2>3
<1> QED BY <1>1, <1>3 DEF HookInv, HookTypes, EventSound, OneEventPerFact,
                          HandledAsSeen, BatchSound, AnswerSound

\* A pass takes due events, each one once.
LEMMA SelectKeeps ==
    ASSUME HookInv, Select
    PROVE  HookInv'
<1> DEFINE S == Oldest(Due)
           N == Cardinality(S)
<1>1. S \subseteq DOMAIN events /\ \A i \in S : events[i].status = "PENDING"
  BY DEF Oldest, Due
<1>2. S \subseteq Nat /\ IsFiniteSet(S)
  <2>1. events \in Seq(Event) /\ Len(events) \in Nat
    BY DEF HookInv, HookTypes
  <2>2. DOMAIN events = 1 .. Len(events) /\ IsFiniteSet(1 .. Len(events))
    BY <2>1, FS_Interval
  <2> QED BY <1>1, <2>2, FS_Subset
<1>3. batch' = [n \in 1 .. N |-> CHOOSE i \in S : Rank(S, i) = n]
  BY DEF Select, Rank
<1> HIDE DEF S
<1>4. N \in Nat
  BY <1>2, FS_CardinalityType
<1>5. ASSUME NEW n \in 1 .. N PROVE batch'[n] \in S /\ Rank(S, batch'[n]) = n
  <2>1. \E i \in S : Rank(S, i) = n
    BY <1>2, EveryRank
  <2>2. batch'[n] = CHOOSE i \in S : Rank(S, i) = n
    BY <1>3
  <2> QED BY <2>1, <2>2
<1>6. batch' \in [1 .. N -> DOMAIN events]
  BY <1>1, <1>3, <1>5
<1> HIDE DEF N
<1>7. batch' \in Seq(DOMAIN events) /\ DOMAIN batch' = 1 .. N
  BY <1>4, <1>6
<1>8. /\ Idle
      /\ UNCHANGED <<announcing, signing, secret, sealedUnder, key, events,
                     answered, kept, handled, seen>>
  BY DEF Select, agent, receiver
<1>9. answered = "none"
  BY <1>8 DEF HookInv, AnswerSound, Idle
<1>10. BatchSound'
  BY <1>1, <1>5, <1>7, <1>8 DEF BatchSound
<1>11. HookTypes'
  BY <1>7, <1>8 DEF HookInv, HookTypes
<1> QED BY <1>8, <1>9, <1>10, <1>11
        DEF HookInv, EventSound, OneEventPerFact, HandledAsSeen, AnswerSound

\* The receiver handles an event at most once.
LEMMA PostKeeps ==
    ASSUME HookInv, Post
    PROVE  HookInv'
<1> DEFINE i == Head(batch)
           e == events[i]
<1>1. /\ ~Idle /\ answered = "none"
      /\ UNCHANGED <<announcing, signing, secret, sealedUnder, key, events,
                     batch>>
  BY DEF Post, agent
<1>2. i \in DOMAIN events /\ e \in Event /\ batch # <<>>
  BY <1>1, HeadFacts DEF Idle
<1>3. CASE UNCHANGED receiver /\ answered' \in {"failed", "refused"}
  BY <1>1, <1>2, <1>3
  DEF HookInv, HookTypes, EventSound, OneEventPerFact, HandledAsSeen,
      BatchSound, AnswerSound, receiver
<1>4. CASE /\ answered' \in {"ok", "failed"}
           /\ seen' = seen \cup {i}
           /\ handled' = IF i \in seen THEN handled
                         ELSE [handled EXCEPT ![e.fact] = @ + 1]
           /\ UNCHANGED kept
  <2>1. e.fact \in Facts /\ handled \in [Facts -> Nat]
    BY <1>2 DEF Event, HookInv, HookTypes
  <2>2. i \notin seen => ~\E j \in seen : events[j].fact = e.fact
    BY <1>2 DEF HookInv, OneEventPerFact, HookTypes
  <2> HIDE DEF i, e
  <2>3. ASSUME NEW f \in Facts
        PROVE  handled'[f] = IF \E j \in seen' : events[j].fact = f
                             THEN 1 ELSE 0
    <3>1. handled[f] = IF \E j \in seen : events[j].fact = f THEN 1 ELSE 0
      BY DEF HookInv, HandledAsSeen
    <3>2. CASE i \in seen
      <4>1. seen' = seen /\ handled' = handled
        BY <1>4, <3>2
      <4> QED BY <3>1, <4>1
    <3>3. CASE i \notin seen /\ f = e.fact
      <4>1. handled[f] = 0
        BY <2>2, <3>1, <3>3
      <4>2. handled'[f] = 1
        BY <1>4, <2>1, <3>3, <4>1
      <4>3. i \in seen' /\ events[i].fact = f
        BY <1>4, <3>3 DEF e
      <4> QED BY <4>2, <4>3
    <3>4. CASE i \notin seen /\ f # e.fact
      <4>1. handled'[f] = handled[f]
        BY <1>4, <2>1, <3>4
      <4>2. (\E j \in seen' : events[j].fact = f)
               <=> \E j \in seen : events[j].fact = f
        BY <1>4, <3>4 DEF e
      <4> QED BY <3>1, <4>1, <4>2
    <3> QED BY <3>2, <3>3, <3>4
  <2>4. HandledAsSeen'
    BY <1>1, <2>3 DEF HandledAsSeen
  <2>5. handled' \in [Facts -> Nat]
    BY <1>4, <2>1
  <2>6. HookTypes'
    BY <1>1, <1>2, <1>4, <2>5 DEF HookInv, HookTypes
  <2>7. \A j \in DOMAIN events : EventSound(j)'
    BY <1>1, <1>4 DEF HookInv, EventSound
  <2>8. AnswerSound'
    BY <1>1, <1>2, <1>4 DEF AnswerSound, i
  <2> QED BY <1>1, <2>4, <2>6, <2>7, <2>8
          DEF HookInv, OneEventPerFact, BatchSound
<1> QED BY <1>3, <1>4 DEF Post

\* A pending event that fails is tried again or given up at the limit.
LEMMA FailedFacts ==
    ASSUME NEW e \in Event, e.attempts < MaxAttempts
    PROVE  /\ Failed(e) \in Event
           /\ Failed(e).fact = e.fact
           /\ Failed(e).status # "DELIVERED"
           /\ Failed(e).status = "PENDING" =>
                 Failed(e).attempts < MaxAttempts
<1>1. e.attempts \in 0 .. MaxAttempts /\ MaxAttempts \in Nat
  BY WebhookAssumption DEF Event
<1>2. e.attempts + 1 \in 0 .. MaxAttempts /\ e.attempts + 1 \in Nat
  BY <1>1
<1>3. Delay(e.attempts + 1) \in Nat
  BY <1>2, DelayNat
<1> DEFINE status == IF e.attempts + 1 >= MaxAttempts THEN "DEAD_LETTER"
                                                  ELSE "PENDING"
           attempts == e.attempts + 1
           due == Delay(attempts)
<1>4. Failed(e) = [e EXCEPT !.status = status, !.attempts = attempts,
                            !.due = due]
  BY DEF Failed
<1>5. /\ status \in {"DEAD_LETTER", "PENDING"}
      /\ status = "PENDING" => attempts < MaxAttempts
  BY <1>1
<1>6. attempts \in 0 .. MaxAttempts /\ due \in Nat
  BY <1>2, <1>3
<1> HIDE DEF status, attempts, due
<1> QED BY <1>4, <1>5, <1>6 DEF Event

\* The first event of the pass is marked by its answer.
LEMMA MarkKeeps ==
    ASSUME HookInv, Mark
    PROVE  HookInv'
<1> DEFINE i == Head(batch)
           e == events[i]
           v == IF Delivered THEN [e EXCEPT !.status = "DELIVERED"]
                             ELSE Failed(e)
<1>1. /\ ~Idle /\ batch' = Tail(batch) /\ answered' = "none"
      /\ UNCHANGED <<announcing, signing, secret, sealedUnder, key, kept,
                     handled, seen>>
  BY DEF Mark, agent, receiver
<1>2. /\ i \in DOMAIN events /\ e \in Event
      /\ e.status = "PENDING" /\ EventSound(i)
  BY <1>1, HeadFacts
<1>3. /\ v \in Event /\ v.fact = e.fact
      /\ v.status = "DELIVERED" => i \in seen
      /\ v.status = "PENDING" => v.attempts < MaxAttempts
  <2>1. CASE Delivered
    <3>1. i \in seen
      BY <2>1 DEF HookInv, AnswerSound, Delivered
    <3> QED BY <1>2, <2>1, <3>1 DEF Event
  <2>2. CASE ~Delivered
    BY <1>2, <2>2, FailedFacts DEF EventSound
  <2> QED BY <2>1, <2>2
<1>4. events' = [events EXCEPT ![i] = v]
  BY DEF Mark
<1> HIDE DEF i, e, v
<1>5. /\ events \in Seq(Event) /\ batch \in Seq(DOMAIN events)
      /\ batch # <<>> /\ i = batch[1]
  BY <1>1 DEF HookInv, HookTypes, Idle, i
<1>6. /\ events' \in Seq(Event) /\ DOMAIN events' = DOMAIN events
      /\ events'[i] = v
      /\ \A j \in DOMAIN events : j # i => events'[j] = events[j]
      /\ \A j \in DOMAIN events : events'[j].fact = events[j].fact
  <2>1. /\ events' \in Seq(Event) /\ DOMAIN events' = DOMAIN events
        /\ events'[i] = v
        /\ \A j \in DOMAIN events : j # i => events'[j] = events[j]
    BY <1>2, <1>3, <1>4, <1>5
  <2> QED BY <1>3, <2>1 DEF e
<1>7. /\ Tail(batch) \in Seq(DOMAIN events)
      /\ 1 \in DOMAIN batch
      /\ \A n \in DOMAIN Tail(batch) :
            /\ n + 1 \in DOMAIN batch /\ n + 1 # 1
            /\ Tail(batch)[n] = batch[n + 1]
            /\ \A m \in DOMAIN Tail(batch) : m + 1 = n + 1 => m = n
  BY <1>5
<1>8. HookTypes'
  BY <1>1, <1>6, <1>7 DEF HookInv, HookTypes
<1>9. ASSUME NEW j \in DOMAIN events PROVE EventSound(j)'
  <2>1. CASE j = i
    BY <1>1, <1>2, <1>3, <1>6, <2>1 DEF EventSound, e
  <2>2. CASE j # i
    BY <1>1, <1>6, <2>2 DEF EventSound, HookInv
  <2> QED BY <2>1, <2>2
<1>10. OneEventPerFact'
  BY <1>6 DEF HookInv, OneEventPerFact
<1>11. HandledAsSeen'
  <2>1. \A j \in seen : events'[j].fact = events[j].fact
    BY <1>6 DEF HookInv, HookTypes
  <2> QED BY <1>1, <2>1 DEF HookInv, HandledAsSeen
<1>12. BatchSound'
  <2>1. \A n \in DOMAIN batch : batch[n] \in DOMAIN events
    BY <1>5
  <2>2. \A n \in DOMAIN Tail(batch) :
           Tail(batch)[n] # i /\ Tail(batch)[n] \in DOMAIN events
    BY <1>5, <1>7, <2>1 DEF HookInv, BatchSound
  <2>3. \A n \in DOMAIN Tail(batch) :
           events'[Tail(batch)[n]].status = "PENDING"
    BY <1>6, <1>7, <2>2 DEF HookInv, BatchSound
  <2>4. \A m, n \in DOMAIN Tail(batch) :
           Tail(batch)[m] = Tail(batch)[n] => m = n
    BY <1>7 DEF HookInv, BatchSound
  <2> QED BY <1>1, <2>3, <2>4 DEF BatchSound
<1>13. AnswerSound'
  BY <1>1 DEF AnswerSound
<1> QED BY <1>6, <1>8, <1>9, <1>10, <1>11, <1>12, <1>13 DEF HookInv

\* What a crash forgets was never stored.
LEMMA CrashKeeps ==
    ASSUME HookInv, Crash
    PROVE  HookInv'
<1>1. /\ announcing' = [f \in Facts |->
            IF announcing[f] \in {"completed", "read"} THEN "lost"
                                                       ELSE announcing[f]]
      /\ batch' = <<>> /\ answered' = "none"
      /\ UNCHANGED <<signing, secret, sealedUnder, key, events, kept, handled,
                     seen>>
  BY DEF Crash, agent, receiver
<1>2. HookTypes'
  BY <1>1 DEF HookInv, HookTypes, Stage
<1>3. \A i \in DOMAIN events : EventSound(i)'
  <2> SUFFICES ASSUME NEW i \in DOMAIN events PROVE EventSound(i)'
    OBVIOUS
  <2>1. EventSound(i) /\ events[i] \in Event
    BY DEF HookInv, HookTypes
  <2> QED BY <1>1, <2>1 DEF EventSound, Event
<1> QED BY <1>1, <1>2, <1>3
        DEF HookInv, OneEventPerFact, HandledAsSeen, BatchSound, AnswerSound

\* Time changes nothing but due times and ages.
LEMMA TickKeeps ==
    ASSUME HookInv, Tick
    PROVE  HookInv'
<1>1. /\ Idle
      /\ UNCHANGED <<announcing, signing, secret, sealedUnder, key, batch,
                     answered, kept, handled, seen>>
  BY DEF Tick, agent, passing, receiver
<1>2. events' = [i \in DOMAIN events |->
          [events[i] EXCEPT !.due = IF @ > 0 THEN @ - 1 ELSE 0,
                            !.age = IF @ <= Tolerance THEN @ + 1 ELSE @]]
  BY DEF Tick
<1>3. /\ events \in Seq(Event) /\ Len(events) \in Nat
      /\ DOMAIN events = 1 .. Len(events)
  BY DEF HookInv, HookTypes
<1>4. ASSUME NEW i \in DOMAIN events
      PROVE  /\ events'[i] \in Event
             /\ events'[i].fact = events[i].fact
             /\ events'[i].status = events[i].status
             /\ events'[i].attempts = events[i].attempts
  <2>1. events[i] \in Event
    BY <1>3
  <2>2. /\ (IF events[i].due > 0 THEN events[i].due - 1 ELSE 0) \in Nat
        /\ (IF events[i].age <= Tolerance THEN events[i].age + 1
                                          ELSE events[i].age) \in Nat
    BY <2>1 DEF Event
  <2> QED BY <1>2, <2>1, <2>2 DEF Event
<1>5. DOMAIN events' = DOMAIN events /\ events' \in Seq(Event)
  <2>1. events' \in [1 .. Len(events) -> Event]
    BY <1>2, <1>3, <1>4
  <2>2. DOMAIN events' = DOMAIN events
    BY <1>2
  <2> QED BY <1>3, <2>1, <2>2, FunctionIsSeq
<1>6. HookTypes'
  BY <1>1, <1>5 DEF HookInv, HookTypes
<1>7. \A i \in DOMAIN events : EventSound(i)'
  BY <1>1, <1>4 DEF HookInv, EventSound
<1>8. OneEventPerFact' /\ HandledAsSeen'
  <2>1. \A i \in seen : events'[i].fact = events[i].fact
    BY <1>4 DEF HookInv, HookTypes
  <2>2. HandledAsSeen'
    BY <1>1, <2>1 DEF HookInv, HandledAsSeen
  <2>3. OneEventPerFact'
    BY <1>4, <1>5 DEF HookInv, OneEventPerFact
  <2> QED BY <2>2, <2>3
<1>9. BatchSound' /\ AnswerSound'
  BY <1>1 DEF HookInv, BatchSound, AnswerSound, Idle
<1> QED BY <1>5, <1>6, <1>7, <1>8, <1>9 DEF HookInv

\* Nothing is announced at the start.
LEMMA InitHook == Init => HookInv
<1> SUFFICES ASSUME Init PROVE HookInv
  OBVIOUS
<1>1. events = <<>> /\ batch = <<>> /\ DOMAIN events = {}
  BY DEF Init
<1>2. events \in Seq(Event) /\ batch \in Seq(DOMAIN events)
  BY <1>1
<1>3. HookTypes
  BY <1>2, WebhookAssumption DEF Init, HookTypes, Stage, Fallback
<1> QED BY <1>1, <1>3
        DEF Init, HookInv, OneEventPerFact, HandledAsSeen, BatchSound,
            AnswerSound

\* Every step of the announcements, of the passes, of the receiver and of time
\* keeps the invariant.
LEMMA NextHook == HookInv /\ [Next]_vars => HookInv'
<1> SUFFICES ASSUME HookInv, [Next]_vars PROVE HookInv'
  OBVIOUS
<1>1. CASE Announce
  BY <1>1, AnnounceKeeps, InsertKeeps DEF Announce
<1>2. CASE IssueSecret \/ DropSecrets \/ ChangeKey
  BY <1>2, SecretsKeep
<1>3. CASE Select \/ Post \/ Mark
  BY <1>3, SelectKeeps, PostKeeps, MarkKeeps
<1>4. CASE Crash \/ Tick
  BY <1>4, CrashKeeps, TickKeeps
<1>5. CASE UNCHANGED vars
  BY <1>5 DEF vars, HookInv, HookTypes, EventSound, OneEventPerFact,
              HandledAsSeen, BatchSound, AnswerSound
<1> QED BY <1>1, <1>2, <1>3, <1>4, <1>5 DEF Next

(***************************************************************************)
(* The theorems.                                                           *)
(***************************************************************************)

\* Announcements, stored events, the pass and the receiver fit each other.
THEOREM HookInvariant == Spec => []HookInv
BY InitHook, NextHook, PTL DEF Spec

\* Types; the attempts of an event end at the limit.
THEOREM HookTypeCorrect == Spec => []TypeOK
<1>1. HookInv => TypeOK
  <2> SUFFICES ASSUME HookInv PROVE TypeOK
    OBVIOUS
  <2>1. ASSUME NEW i \in DOMAIN events
        PROVE  /\ events[i].status \in {"PENDING", "DELIVERED", "DEAD_LETTER"}
               /\ events[i].attempts \in 0 .. MaxAttempts
               /\ events[i].status = "PENDING" =>
                     events[i].attempts < MaxAttempts
    <3>1. events[i] \in Event /\ EventSound(i)
      BY DEF HookInv, HookTypes
    <3> QED BY <3>1 DEF Event, EventSound
  <2> QED BY <2>1 DEF HookInv, HookTypes, TypeOK, Stage
<1> QED BY <1>1, HookInvariant, PTL

\* A receiver that deduplicates on the event id handles a fact once, whatever
\* is lost, repeated or crashes.
THEOREM HandledOnceAlways == Spec => []HandledOnce
<1>1. HookInv => HandledOnce
  BY DEF HookInv, HandledAsSeen, HandledOnce
<1> QED BY <1>1, HookInvariant, PTL

\* An event that is DELIVERED has been handled by its receiver.
THEOREM DeliveredWasHandledAlways == Spec => []DeliveredWasHandled
<1>1. ASSUME HookInv, NEW i \in DOMAIN events, events[i].status = "DELIVERED"
      PROVE  handled[events[i].fact] = 1
  <2>1. i \in seen /\ events[i] \in Event
    BY <1>1 DEF HookInv, HookTypes, EventSound
  <2>2. events[i].fact \in Facts
    BY <2>1 DEF Event
  <2> QED BY <1>1, <2>1, <2>2 DEF HookInv, HandledAsSeen
<1>2. HookInv => DeliveredWasHandled
  BY <1>1 DEF DeliveredWasHandled
<1> QED BY <1>2, HookInvariant, PTL

-----------------------------------------------------------------------------
(***************************************************************************)
(* Why one pass at a time: the lease.                                      *)
(***************************************************************************)

\* Nobody works and no lease is held at the start.
LEMMA LeaseStarts == LeaseInit => LeaseInv
BY LeaseAssumption
   DEF LeaseInit, LeaseInv, LeaseTypes, TimesConsistent, PC, Alive, Working

\* While an invocation works, its lease lies beyond what any clock reads.
LEMMA LeaseOutlives ==
    ASSUME LeaseInv, NEW i \in Invocations, Working(i)
    PROVE  /\ lease = Lease(i, readAt[i] + LeaseMs)
           /\ lease.held /\ lease.owner = i
           /\ lease.expiresAt = readAt[i] + LeaseMs
           /\ lease.expiresAt > now + MaxSkew
<1>1. /\ startedAt[i] \in Nat /\ now \in Nat /\ readAt[i] \in Int
      /\ skew[i] \in -MaxSkew .. MaxSkew
  BY DEF LeaseInv, LeaseTypes
<1>2. /\ now <= startedAt[i] + MaxDuration
      /\ startedAt[i] + skew[i] <= readAt[i]
  BY DEF LeaseInv, TimesConsistent, Working, Alive
<1>3. lease = Lease(i, readAt[i] + LeaseMs)
  BY DEF LeaseInv
<1>4. readAt[i] + LeaseMs > now + MaxSkew
  BY <1>1, <1>2, LeaseAssumption
<1> QED BY <1>3, <1>4 DEF Lease

\* So no one else can take it.
LEMMA NotFree ==
    ASSUME LeaseInv, NEW i \in Invocations, NEW j \in Invocations,
           Working(i), pc[j] = "asking"
    PROVE  ~Free(j)
<1>1. /\ now \in Nat /\ readAt[j] \in Int
      /\ skew[j] \in -MaxSkew .. MaxSkew
      /\ readAt[j] <= now + skew[j]
  BY DEF LeaseInv, LeaseTypes, TimesConsistent
<1>2. readAt[j] <= now + MaxSkew
  BY <1>1, LeaseAssumption
<1>3. lease.held /\ lease.expiresAt > now + MaxSkew
      /\ lease.expiresAt = readAt[i] + LeaseMs
  BY LeaseOutlives
<1>4. readAt[i] \in Int
  BY DEF LeaseInv, LeaseTypes
<1> QED BY <1>1, <1>2, <1>3, <1>4, LeaseAssumption DEF Free

\* Every step keeps the types.
LEMMA LeaseKeepsTypes == LeaseInv /\ [LeaseNext]_leaseVars => LeaseTypes'
<1> SUFFICES ASSUME LeaseInv, [LeaseNext]_leaseVars PROVE LeaseTypes'
  OBVIOUS
<1> USE DEF LeaseInv, LeaseTypes, PC, Goto
<1>1. ASSUME NEW i \in Invocations, Start(i) PROVE LeaseTypes'
  <2>1. PICK s \in -MaxSkew .. MaxSkew : skew' = [skew EXCEPT ![i] = s]
    BY <1>1 DEF Start
  <2>2. skew' \in [Invocations -> -MaxSkew .. MaxSkew]
    BY <2>1
  <2>3. /\ pc' \in [Invocations -> PC]
        /\ startedAt' \in [Invocations -> Nat]
    BY <1>1 DEF Start
  <2> QED BY <1>1, <2>2, <2>3 DEF Start
<1>2. ASSUME NEW i \in Invocations, ReadClock(i) PROVE LeaseTypes'
  <2>1. now + skew[i] \in Int
    BY LeaseAssumption
  <2>2. /\ pc' \in [Invocations -> PC]
        /\ readAt' \in [Invocations -> Int]
    BY <1>2, <2>1 DEF ReadClock
  <2> QED BY <1>2, <2>2 DEF ReadClock
<1>3. ASSUME NEW i \in Invocations, Acquire(i) PROVE LeaseTypes'
  <2>1. readAt[i] + LeaseMs \in Int
    BY LeaseAssumption
  <2>2. lease' = [held |-> TRUE, owner |-> i,
                  expiresAt |-> readAt[i] + LeaseMs]
    BY <1>3 DEF Acquire, Lease
  <2>3. lease' \in [held : {TRUE}, owner : Invocations, expiresAt : Int]
    BY <2>1, <2>2
  <2>4. pc' \in [Invocations -> PC]
    BY <1>3 DEF Acquire
  <2> QED BY <1>3, <2>3, <2>4 DEF Acquire
<1>4. ASSUME NEW i \in Invocations, Release(i) PROVE LeaseTypes'
  <2>1. pc' \in [Invocations -> PC]
    BY <1>4 DEF Release
  <2>2. lease' = NoLease \/ lease' = lease
    BY <1>4 DEF Release
  <2> QED BY <1>4, <2>1, <2>2 DEF Release
<1>5. ASSUME NEW i \in Invocations, Skip(i) \/ FinishPass(i) \/ Kill(i)
      PROVE  LeaseTypes'
  <2>1. pc' \in [Invocations -> PC]
    BY <1>5 DEF Skip, FinishPass, Kill
  <2>2. UNCHANGED <<now, startedAt, skew, readAt, lease>>
    BY <1>5 DEF Skip, FinishPass, Kill
  <2> QED BY <2>1, <2>2
<1>6. CASE Elapse
  <2>1. now' \in Nat
    BY <1>6 DEF Elapse
  <2>2. UNCHANGED <<pc, startedAt, skew, readAt, lease>>
    BY <1>6 DEF Elapse
  <2> QED BY <2>1, <2>2
<1>7. CASE UNCHANGED leaseVars
  <2>1. UNCHANGED <<now, pc, startedAt, skew, readAt, lease>>
    BY <1>7 DEF leaseVars
  <2> QED BY <2>1
<1> QED BY <1>1, <1>2, <1>3, <1>4, <1>5, <1>6, <1>7 DEF LeaseNext, Step

\* The clock an invocation read and its age stay within its limits, because time
\* does not pass maxDuration while it is alive.
LEMMA LeaseKeepsTimes == LeaseInv /\ [LeaseNext]_leaseVars => TimesConsistent'
<1> SUFFICES ASSUME LeaseInv, [LeaseNext]_leaseVars, NEW k \in Invocations
             PROVE  TimesConsistent!(k)'
  BY DEF TimesConsistent
<1>0. /\ now \in Nat /\ startedAt \in [Invocations -> Nat]
      /\ pc \in [Invocations -> PC]
      /\ skew \in [Invocations -> -MaxSkew .. MaxSkew]
      /\ readAt \in [Invocations -> Int]
      /\ skew[k] \in Int
      /\ TimesConsistent!(k)
  BY LeaseAssumption DEF LeaseInv, LeaseTypes, TimesConsistent
<1> USE DEF Goto, Alive
<1>1. ASSUME NEW i \in Invocations, Start(i) PROVE TimesConsistent!(k)'
  BY <1>0, <1>1, LeaseAssumption DEF Start
<1>2. ASSUME NEW i \in Invocations, ReadClock(i) PROVE TimesConsistent!(k)'
  BY <1>0, <1>2 DEF ReadClock
<1>3. ASSUME NEW i \in Invocations,
             Acquire(i) \/ Skip(i) \/ FinishPass(i) \/ Release(i) \/ Kill(i)
      PROVE  TimesConsistent!(k)'
  BY <1>0, <1>3 DEF Acquire, Skip, FinishPass, Release, Kill
<1>4. CASE Elapse
  BY <1>0, <1>4, LeaseAssumption DEF Elapse
<1>5. CASE UNCHANGED leaseVars
  BY <1>0, <1>5 DEF leaseVars
<1> QED BY <1>1, <1>2, <1>3, <1>4, <1>5 DEF LeaseNext, Step

\* The invariant is inductive: an invocation at work keeps the lease it wrote,
\* since nobody else finds it free and nobody else's release removes it.
LEMMA LeaseKeepsInv == LeaseInv /\ [LeaseNext]_leaseVars => LeaseInv'
<1> SUFFICES ASSUME LeaseInv, [LeaseNext]_leaseVars,
                    NEW k \in Invocations, Working(k)'
             PROVE  lease' = Lease(k, readAt'[k] + LeaseMs)
  BY LeaseKeepsTypes, LeaseKeepsTimes DEF LeaseInv
<1>0. /\ pc \in [Invocations -> PC]
      /\ readAt \in [Invocations -> Int]
      /\ \A i \in Invocations :
           Working(i) => lease = Lease(i, readAt[i] + LeaseMs)
  BY DEF LeaseInv, LeaseTypes
<1> USE DEF Goto
<1>1. ASSUME NEW i \in Invocations, Start(i) \/ ReadClock(i)
      PROVE  lease' = Lease(k, readAt'[k] + LeaseMs)
  BY <1>0, <1>1 DEF Start, ReadClock, Working
<1>2. ASSUME NEW i \in Invocations, Acquire(i)
      PROVE  lease' = Lease(k, readAt'[k] + LeaseMs)
  <2>1. ~Working(k)
    BY <1>2, NotFree DEF Acquire
  <2>2. k = i
    BY <1>0, <1>2, <2>1 DEF Acquire, Working
  <2> QED BY <1>2, <2>2 DEF Acquire
<1>3. ASSUME NEW i \in Invocations, Release(i)
      PROVE  lease' = Lease(k, readAt'[k] + LeaseMs)
  <2>1. Working(k) /\ k # i
    BY <1>0, <1>3 DEF Release, Working
  <2>2. lease.owner = k
    BY <2>1, LeaseOutlives
  <2>3. lease' = lease /\ readAt' = readAt
    BY <1>3, <2>1, <2>2 DEF Release
  <2> QED BY <1>0, <2>1, <2>3
<1>4. ASSUME NEW i \in Invocations, Skip(i) \/ FinishPass(i) \/ Kill(i)
      PROVE  lease' = Lease(k, readAt'[k] + LeaseMs)
  BY <1>0, <1>4 DEF Skip, FinishPass, Kill, Working
<1>5. CASE Elapse \/ UNCHANGED leaseVars
  BY <1>0, <1>5 DEF Elapse, leaseVars, Working
<1> QED BY <1>1, <1>2, <1>3, <1>4, <1>5 DEF LeaseNext, Step

\* Types, times and the lease document stay consistent (apps/web/lib/db.ts).
THEOREM LeaseInvariant == LeaseSpec => []LeaseInv
<1> QED BY LeaseStarts, LeaseKeepsInv, PTL DEF LeaseSpec

\* Whoever processes the queue owns an unexpired lease, on every clock.
THEOREM HolderIsProtectedAlways == LeaseSpec => []HolderIsProtected
<1>1. LeaseInv => HolderIsProtected
  BY LeaseOutlives DEF HolderIsProtected
<1> QED BY <1>1, LeaseInvariant, PTL

\* Passes of the processor never overlap, for any number of invocations, as
\* long as maxDuration plus twice the clock error is below the lease.
THEOREM MutualExclusionAlways == LeaseSpec => []MutualExclusion
<1>1. LeaseInv => MutualExclusion
  <2> SUFFICES ASSUME LeaseInv, NEW i \in Invocations, NEW j \in Invocations,
                      Working(i), Working(j)
               PROVE  i = j
    BY DEF MutualExclusion
  <2> QED BY LeaseOutlives
<1> QED BY <1>1, LeaseInvariant, PTL

(***************************************************************************)
(* How long a lease can keep others out.                                   *)
(***************************************************************************)

\* The lease is always one that its owner asked for, by a clock that is not
\* ahead by more than MaxSkew; the owner never reads its clock again.
LeaseOrigin ==
    lease.held =>
        /\ lease.owner \in Invocations
        /\ pc[lease.owner] \in {"processing", "releasing", "done", "killed"}
        /\ lease.expiresAt = readAt[lease.owner] + LeaseMs
        /\ readAt[lease.owner] <= now + MaxSkew

\* Nothing but the owner's acquisition writes a lease, and time only grows.
LEMMA LeaseKeepsOrigin ==
    LeaseInv /\ LeaseOrigin /\ [LeaseNext]_leaseVars => LeaseOrigin'
<1> SUFFICES ASSUME LeaseInv, LeaseOrigin, [LeaseNext]_leaseVars
             PROVE  LeaseOrigin'
  OBVIOUS
<1>0. /\ now \in Nat /\ pc \in [Invocations -> PC]
      /\ readAt \in [Invocations -> Int]
  BY DEF LeaseInv, LeaseTypes
<1> USE DEF Goto
<1>1. ASSUME NEW i \in Invocations, Start(i) \/ ReadClock(i)
      PROVE  LeaseOrigin'
  <2>1. pc[i] \in {"idle", "started"} /\ lease' = lease /\ now' = now
    BY <1>1 DEF Start, ReadClock
  <2>2. \A j \in Invocations : j # i => pc'[j] = pc[j] /\ readAt'[j] = readAt[j]
    BY <1>0, <1>1 DEF Start, ReadClock
  <2> QED BY <2>1, <2>2 DEF LeaseOrigin
<1>2. ASSUME NEW i \in Invocations, Acquire(i)
      PROVE  LeaseOrigin'
  <2>1. readAt[i] <= now + MaxSkew
    <3>1. readAt[i] <= now + skew[i] /\ skew[i] \in -MaxSkew .. MaxSkew
      BY <1>2 DEF Acquire, LeaseInv, LeaseTypes, TimesConsistent
    <3> QED BY <1>0, <3>1, LeaseAssumption
  <2>2. lease'.owner = i /\ lease'.expiresAt = readAt[i] + LeaseMs
    BY <1>2 DEF Acquire, Lease
  <2>3. pc'[i] = "processing" /\ readAt' = readAt /\ now' = now
    BY <1>0, <1>2 DEF Acquire
  <2> QED BY <2>1, <2>2, <2>3 DEF LeaseOrigin
<1>3. ASSUME NEW i \in Invocations,
             Skip(i) \/ FinishPass(i) \/ Release(i) \/ Kill(i)
      PROVE  LeaseOrigin'
  <2>1. readAt' = readAt /\ now' = now
    BY <1>3 DEF Skip, FinishPass, Release, Kill
  <2>2. lease' = lease \/ lease' = NoLease
    BY <1>3 DEF Skip, FinishPass, Release, Kill
  <2>3. ASSUME NEW j \in Invocations,
               pc[j] \in {"processing", "releasing", "done", "killed"}
        PROVE  pc'[j] \in {"processing", "releasing", "done", "killed"}
    BY <1>0, <1>3, <2>3 DEF Skip, FinishPass, Release, Kill
  <2> QED BY <2>1, <2>2, <2>3 DEF LeaseOrigin, NoLease
<1>4. CASE Elapse
  <2>1. now' = now + 1 /\ UNCHANGED <<pc, readAt, lease>>
    BY <1>4 DEF Elapse
  <2>2. lease.held => readAt[lease.owner] \in Int
    BY <1>0 DEF LeaseOrigin
  <2> QED BY <1>0, <2>1, <2>2, LeaseAssumption DEF LeaseOrigin
<1>5. CASE UNCHANGED leaseVars
  BY <1>5 DEF leaseVars, LeaseOrigin
<1> QED BY <1>1, <1>2, <1>3, <1>4, <1>5 DEF LeaseNext, Step

\* An invocation is turned away only by a lease that was asked for less than
\* LeaseMs before, up to the errors of both clocks: what a killed owner leaves
\* behind costs a bounded time.
THEOREM TurnedAwayOnlyBrieflyAlways == LeaseSpec => TurnedAwayOnlyBriefly
<1>1. LeaseInit => LeaseOrigin
  BY DEF LeaseInit, LeaseOrigin, NoLease
<1>2. ASSUME LeaseInv, LeaseOrigin, NEW i \in Invocations, Skip(i)
      PROVE  /\ lease.held
             /\ readAt[lease.owner] <= now + MaxSkew
             /\ readAt[i] - readAt[lease.owner] < LeaseMs
  <2>1. lease.held /\ ~(lease.expiresAt <= readAt[i])
    BY <1>2 DEF Skip, Free
  <2>2. readAt[i] \in Int /\ readAt[lease.owner] \in Int
    BY <1>2, <2>1 DEF LeaseOrigin, LeaseInv, LeaseTypes
  <2> QED BY <1>2, <2>1, <2>2, LeaseAssumption DEF LeaseOrigin
<1>3. LeaseInv /\ LeaseOrigin /\ [LeaseNext]_leaseVars =>
         [\A i \in Invocations :
            Skip(i) => /\ lease.held
                       /\ readAt[lease.owner] <= now + MaxSkew
                       /\ readAt[i] - readAt[lease.owner] < LeaseMs]_leaseVars
  BY <1>2
<1> QED BY <1>1, <1>3, LeaseKeepsOrigin, LeaseInvariant, PTL
        DEF LeaseSpec, TurnedAwayOnlyBriefly

=============================================================================
