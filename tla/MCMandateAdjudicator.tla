------------------------ MODULE MCMandateAdjudicator ------------------------
(***************************************************************************)
(* Small instances of MandateAdjudicator for TLC.                          *)
(***************************************************************************)
EXTENDS MandateAdjudicator

CONSTANTS c1, c2, u1, u2, missing

Criterion(id, weight, critical) ==
    [id |-> id, weight |-> weight, critical |-> critical]

Mandate(criteria, allow) ==
    [criteria |-> criteria, allowPartialSettlement |-> allow]

\* Odd weights, so that halves are rounded; critical or not; one name twice.
MCTerms ==
    {Mandate(<<Criterion("A", 7, crit), Criterion("B", 3, FALSE)>>, crit) :
        crit \in BOOLEAN}
      \cup {Mandate(<<Criterion("A", 5, TRUE), Criterion("A", 5, FALSE)>>, TRUE)}

Item(id, url, sha256) == [id |-> id, url |-> url, sha256 |-> sha256]

\* Whole pages that fill the total with the second of them, which is cut; an
\* error page is shorter.
MCChars == (c1 :> 2) @@ (missing :> 1)

\* Two items with one name; two names, and a hash that no page ever had; more
\* items than are fetched, of which the third may be past the total.
MCManifests ==
    {[artifacts |-> <<Item("a", u1, c1)>>, evidence |-> <<Item("a", u2, c1)>>],
     [artifacts |-> <<Item("a", u1, c1)>>, evidence |-> <<Item("e", u2, c2)>>],
     [artifacts |-> <<Item("a", u1, c1), Item("b", u1, c1)>>,
      evidence |-> <<Item("e", u2, c1), Item("f", u2, c1)>>]}

=============================================================================
