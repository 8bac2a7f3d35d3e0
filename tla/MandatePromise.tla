--------------------------- MODULE MandatePromise ---------------------------
(***************************************************************************)
(* What the contracts promise the two parties of a mandate, without        *)
(* contracts, signatures, nonces or time.  A deposit is taken once, and    *)
(* leaves custody once: back to the principal while no work has been       *)
(* delivered, or split under the one ruling of the court afterwards.       *)
(***************************************************************************)
EXTENDS Integers

CONSTANTS
    Mandates,
    Amounts,         \* amounts a mandate may be funded with
    Rulings, NoRuling,
    ProviderPart,    \* ruling -> the provider's part, out of Whole
    Whole

VARIABLES
    stage,           \* mandate -> where its deposit is
    amount,          \* mandate -> what was deposited
    ruling,          \* mandate -> the final ruling, if there is one
    paid             \* mandate -> what each party has received

promiseVars == <<stage, amount, ruling, paid>>

Nothing == [provider |-> 0, principal |-> 0]

Init ==
    /\ stage = [m \in Mandates |-> "empty"]
    /\ amount = [m \in Mandates |-> 0]
    /\ ruling = [m \in Mandates |-> NoRuling]
    /\ paid = [m \in Mandates |-> Nothing]

Move(m, from, to) ==
    /\ stage[m] = from
    /\ stage' = [stage EXCEPT ![m] = to]

TakeDeposit(m) ==
    /\ Move(m, "empty", "held")
    /\ \E a \in Amounts : amount' = [amount EXCEPT ![m] = a]
    /\ UNCHANGED <<ruling, paid>>

Deliver(m) ==
    /\ Move(m, "held", "delivered")
    /\ UNCHANGED <<amount, ruling, paid>>

Rule(m) ==
    /\ ruling[m] = NoRuling
    /\ \E r \in Rulings : ruling' = [ruling EXCEPT ![m] = r]
    /\ UNCHANGED <<stage, amount, paid>>

GiveBack(m) ==
    /\ Move(m, "held", "returned")
    /\ paid' = [paid EXCEPT ![m] = [provider |-> 0, principal |-> amount[m]]]
    /\ UNCHANGED <<amount, ruling>>

Enforce(m) ==
    LET part == (amount[m] * ProviderPart[ruling[m]]) \div Whole IN
    /\ ruling[m] # NoRuling
    /\ Move(m, "delivered", "enforced")
    /\ paid' = [paid EXCEPT ![m] =
                  [provider |-> part, principal |-> amount[m] - part]]
    /\ UNCHANGED <<amount, ruling>>

Next ==
    \E m \in Mandates :
        TakeDeposit(m) \/ Deliver(m) \/ Rule(m) \/ GiveBack(m) \/ Enforce(m)

Spec == Init /\ [][Next]_promiseVars

=============================================================================
