------------------------------- MODULE Docket -------------------------------
(***************************************************************************)
(* The open docket.  A page holds the newest mandates created before the   *)
(* cursor; the next cursor is the creation time of its last mandate, as    *)
(* long as there was one more than the page holds.  An agent walks the     *)
(* docket page by page while mandates are published and taken.             *)
(***************************************************************************)
EXTENDS Naturals, FiniteSets

CONSTANTS
    Mandates,
    Limit,           \* mandates of a page
    Times            \* creation times, 1..Times

ASSUME DocketAssumption ==
    IsFiniteSet(Mandates) /\ Limit \in Nat \ {0} /\ Times \in Nat

VARIABLES
    mandate,         \* status, creation time and provider of every mandate
    walk             \* the cursor, what was shown, what stayed on the docket

docket == <<mandate, walk>>

NoProvider == "no provider"
Unlimited == Times + 1
Start == [cursor |-> Unlimited, shown |-> {}, stayed |-> {}, at |-> "none"]

InitDocket ==
    /\ mandate \in [Mandates -> [status : {"DRAFT"}, createdAt : 1..Times,
                                 provider : {NoProvider}]]
    /\ walk = Start

OnDocket == {m \in Mandates : mandate[m].status = "OPEN"
                              /\ mandate[m].provider = NoProvider}

(* The escrow of a draft has been funded, in any order of their creation. *)
Publish(m) ==
    /\ mandate[m].status = "DRAFT"
    /\ mandate' = [mandate EXCEPT ![m].status = "OPEN"]
    /\ UNCHANGED walk

(* A provider takes it. *)
Take(m, provider) ==
    /\ m \in OnDocket
    /\ mandate' = [mandate EXCEPT ![m].status = "ACCEPT_RELAY_PENDING",
                                  ![m].provider = provider]
    /\ walk' = [walk EXCEPT !.stayed = @ \ {m}]

Rows == {m \in OnDocket : mandate[m].createdAt < walk.cursor}

(* The first rows of the sort, which leaves equal times in any order. *)
IsPage(page) ==
    /\ Cardinality(page) = IF Cardinality(Rows) > Limit THEN Limit
                                                         ELSE Cardinality(Rows)
    /\ \A m \in page, n \in Rows \ page : mandate[m].createdAt >= mandate[n].createdAt

(* Mutant: the row that was read to see whether there is more. *)
CursorOfExtraRow(page) ==
    CHOOSE t \in 1..Times :
      /\ \E m \in Rows \ page : mandate[m].createdAt = t
      /\ \A m \in Rows \ page : mandate[m].createdAt <= t

CursorAfter(page) ==
    CHOOSE t \in 1..Times :
      /\ \E m \in page : mandate[m].createdAt = t
      /\ \A m \in page : mandate[m].createdAt >= t

(* GET /docket, with the cursor of the page before. *)
ShowPage ==
    /\ walk.at # "end"
    /\ \E page \in SUBSET Rows :
         /\ IsPage(page)
         /\ walk' = [cursor |-> IF page = Rows THEN walk.cursor ELSE CursorAfter(page),
                     shown  |-> walk.shown \cup page,
                     stayed |-> IF walk.at = "none" THEN OnDocket ELSE walk.stayed,
                     at     |-> IF page = Rows THEN "end" ELSE "page"]
    /\ UNCHANGED mandate
=============================================================================
