-------------------------- MODULE MCApiOperations --------------------------
(***************************************************************************)
(* A small instance of ApiOperations for TLC: one command that is tried    *)
(* again under its key, and another one.  Agents, mandates and manifests   *)
(* are interchangeable, and every property is an invariant.                *)
(***************************************************************************)
EXTENDS ApiOperations

CONSTANTS c1, c2

MCTries == [c \in Commands |-> IF c = c1 THEN 2 ELSE 1]

\* A mandate that is there has a provider other than its principal, or none.
MCStarts == {s \in AnyStart : s.stage # "new" => s.principal # s.provider}

\* A creation may assign its mandate to another agent.  One of the first
\* command mints the mandate, one of the second names it.
MCWants == [c \in Commands |->
    {w \in AnyCommand :
        w.kind = "create" =>
            /\ w.provider # w.agent
            /\ c = c1 <=> w.mandate = NoMandate}]

Symmetry ==
    Permutations(Agents) \cup Permutations(Mandates) \cup Permutations(Manifests)

=============================================================================
