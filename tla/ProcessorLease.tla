--------------------------- MODULE ProcessorLease ---------------------------
(***************************************************************************)
(* The lease that serializes the protocol processor.  Every run of the     *)
(* processor is a serverless invocation (the cron endpoint, or a poll of   *)
(* an operation) with a fresh owner id: it reads its own clock, asks the   *)
(* database for the lease, processes if it got it and releases it in a     *)
(* finally block.  The platform ends an invocation after MaxDuration; an   *)
(* invocation that is ended does not release.  Each instance reads a clock *)
(* that may be off by MaxSkew.                                             *)
(***************************************************************************)
EXTENDS Integers

CONSTANTS
    Invocations,     \* invocations of the processor, one owner id each
    MaxDuration,     \* maxDuration of the routes, 60 s
    LeaseMs,         \* PROCESSOR_LEASE_MS, 120 s
    MaxSkew,         \* largest error of an instance's clock
    MaxTime          \* bound of the model on time

\* The lease outlives any invocation that holds it, on every clock.
ASSUME LeaseAssumption ==
    /\ MaxDuration \in Nat
    /\ LeaseMs \in Nat
    /\ MaxSkew \in Nat
    /\ MaxTime \in Nat
    /\ MaxDuration + 2 * MaxSkew < LeaseMs

VARIABLES
    now,             \* real time
    pc,              \* invocation -> where it is
    startedAt,       \* invocation -> when the platform started it
    skew,            \* invocation -> the error of its clock
    readAt,          \* invocation -> the time it read before asking
    lease            \* the lease document, or NoLease

leaseVars == <<now, pc, startedAt, skew, readAt, lease>>

NoLease == [held |-> FALSE]

Lease(owner, expiresAt) ==
    [held |-> TRUE, owner |-> owner, expiresAt |-> expiresAt]

Alive == {"started", "asking", "processing", "releasing"}

LeaseInit ==
    /\ now = 0
    /\ pc = [i \in Invocations |-> "idle"]
    /\ startedAt = [i \in Invocations |-> 0]
    /\ skew = [i \in Invocations |-> 0]
    /\ readAt = [i \in Invocations |-> 0]
    /\ lease = NoLease

Goto(i, from, to) ==
    /\ pc[i] = from
    /\ pc' = [pc EXCEPT ![i] = to]

Start(i) ==
    /\ Goto(i, "idle", "started")
    /\ startedAt' = [startedAt EXCEPT ![i] = now]
    /\ \E s \in -MaxSkew .. MaxSkew : skew' = [skew EXCEPT ![i] = s]
    /\ UNCHANGED <<now, readAt, lease>>

\* "const now = new Date()", before the request to the database is sent.
ReadClock(i) ==
    /\ Goto(i, "started", "asking")
    /\ readAt' = [readAt EXCEPT ![i] = now + skew[i]]
    /\ UNCHANGED <<now, startedAt, skew, lease>>

\* Mutant of Free: the lease is taken over whoever holds it.
FreeAlways(i) == TRUE

\* The filter of findOneAndUpdate: no document, or one that has expired.
Free(i) == lease.held => lease.expiresAt <= readAt[i]

\* Mutants of Acquire: the lease lasts as long as an invocation may, with no
\* allowance for the clocks, or far longer than it has to.
AcquireForDuration(i) ==
    /\ Goto(i, "asking", "processing")
    /\ Free(i)
    /\ lease' = Lease(i, readAt[i] + MaxDuration)
    /\ UNCHANGED <<now, startedAt, skew, readAt>>

AcquireTwiceAsLong(i) ==
    /\ Goto(i, "asking", "processing")
    /\ Free(i)
    /\ lease' = Lease(i, readAt[i] + 2 * LeaseMs)
    /\ UNCHANGED <<now, startedAt, skew, readAt>>

Acquire(i) ==
    /\ Goto(i, "asking", "processing")
    /\ Free(i)
    /\ lease' = Lease(i, readAt[i] + LeaseMs)
    /\ UNCHANGED <<now, startedAt, skew, readAt>>

\* The filter misses the document, the upsert collides with it on the unique
\* name, and the duplicate key error becomes "lease held".
Skip(i) ==
    /\ Goto(i, "asking", "skipped")
    /\ ~Free(i)
    /\ UNCHANGED <<now, startedAt, skew, readAt, lease>>

\* The pass over the queue is over, normally or by an exception.
FinishPass(i) ==
    /\ Goto(i, "processing", "releasing")
    /\ UNCHANGED <<now, startedAt, skew, readAt, lease>>

\* deleteOne({ name, owner }): only the invocation's own lease.
Release(i) ==
    /\ Goto(i, "releasing", "done")
    /\ lease' = IF lease.held /\ lease.owner = i THEN NoLease ELSE lease
    /\ UNCHANGED <<now, startedAt, skew, readAt>>

\* A crash, or the platform's limit: nothing of the finally block runs.
Kill(i) ==
    /\ pc[i] \in Alive
    /\ pc' = [pc EXCEPT ![i] = "killed"]
    /\ UNCHANGED <<now, startedAt, skew, readAt, lease>>

\* Time does not pass the limit of an invocation that is still alive.
Elapse ==
    /\ now < MaxTime
    /\ \A i \in Invocations : pc[i] \in Alive => now < startedAt[i] + MaxDuration
    /\ now' = now + 1
    /\ UNCHANGED <<pc, startedAt, skew, readAt, lease>>

Step(i) ==
    \/ Start(i) \/ ReadClock(i) \/ Acquire(i) \/ Skip(i)
    \/ FinishPass(i) \/ Release(i) \/ Kill(i)

LeaseNext == Elapse \/ \E i \in Invocations : Step(i)

LeaseSpec == LeaseInit /\ [][LeaseNext]_leaseVars

(***************************************************************************)
(* Properties.                                                             *)
(***************************************************************************)

PC == {"idle", "started", "asking", "processing", "releasing",
       "skipped", "done", "killed"}

\* Every variable has its type.
LeaseTypes ==
    /\ now \in Nat
    /\ pc \in [Invocations -> PC]
    /\ startedAt \in [Invocations -> Nat]
    /\ skew \in [Invocations -> -MaxSkew .. MaxSkew]
    /\ readAt \in [Invocations -> Int]
    /\ lease \in {NoLease} \cup
         [held : {TRUE}, owner : Invocations, expiresAt : Int]

Working(i) == pc[i] \in {"processing", "releasing"}

\* Two passes over the queue never overlap, although the lease is only a time
\* stamp that each instance compares with its own clock and a killed holder
\* never gives it back.
MutualExclusion ==
    \A i, j \in Invocations : Working(i) /\ Working(j) => i = j

\* Whoever is at work still owns the lease, and it has not run out on any
\* instance's clock: no other invocation can take it or release it.
HolderIsProtected ==
    \A i \in Invocations :
        Working(i) =>
          /\ lease.held
          /\ lease.owner = i
          /\ lease.expiresAt > now + MaxSkew

\* How an invocation's own times relate to real time.
TimesConsistent ==
    \A i \in Invocations :
        /\ pc[i] \in Alive => /\ startedAt[i] <= now
                              /\ now <= startedAt[i] + MaxDuration
        /\ pc[i] \in {"asking", "processing", "releasing"} =>
              /\ startedAt[i] + skew[i] <= readAt[i]
              /\ readAt[i] <= now + skew[i]

\* The inductive invariant: while someone works the lease document is the one
\* it wrote.
LeaseInv ==
    /\ LeaseTypes
    /\ TimesConsistent
    /\ \A i \in Invocations :
          Working(i) => lease = Lease(i, readAt[i] + LeaseMs)

\* A crash costs the queue a bounded time: an invocation is turned away only
\* while the lease it met is younger than LeaseMs, up to both clocks' errors.
TurnedAwayOnlyBriefly ==
    [][\A i \in Invocations :
         Skip(i) => /\ lease.held
                    /\ readAt[lease.owner] <= now + MaxSkew
                    /\ readAt[i] - readAt[lease.owner] < LeaseMs]_leaseVars

=============================================================================
