---------------------------- MODULE Credentials ----------------------------
(***************************************************************************)
(* How the court knows an agent: a wallet redeems a challenge, which finds *)
(* or creates its agent and then stores a new API key.  The handler awaits *)
(* the database between these, so redemptions of one wallet interleave.    *)
(* An agent and a key are named by the redemption that created them.       *)
(***************************************************************************)
EXTENDS Naturals, FiniteSets

CONSTANTS
    Redemptions,     \* requests for a key, and the agents and keys they create
    Former,          \* the wallet's agent and key of an earlier session
    Stranger         \* another wallet's agent and key

VARIABLES
    challenge,       \* of every redemption: "none", "open", "used"
    agents,          \* the collection agents
    keys             \* the collection apiKeys

credentials == <<challenge, agents, keys>>

None == "none"
Own == "own wallet"
Other == "other wallet"

InitCredentials ==
    /\ challenge = [r \in Redemptions |-> "none"]
    /\ \E known \in {{[agentId |-> Stranger, wallet |-> Other]},
                    {[agentId |-> Stranger, wallet |-> Other],
                     [agentId |-> Former, wallet |-> Own]}} :
         /\ agents = known
         /\ keys = {[keyId |-> a.agentId, agentId |-> a.agentId, wallet |-> a.wallet,
                     revoked |-> FALSE] : a \in known}

AgentsOf(w) == {a \in agents : a.wallet = w}

(* There is an agent of that name and wallet. *)
Names(id, w) == \E a \in agents : a.agentId = id /\ a.wallet = w

(* What findOne answers for a wallet. *)
FoundFor(w, id) == IF AgentsOf(w) = {} THEN id = None ELSE Names(id, w)

(* The key a request presents, when the court knows it. *)
Presented(k) == {x \in keys : x.keyId = k /\ ~x.revoked}

CreateChallenge(r) ==
    /\ challenge[r] = "none"
    /\ challenge' = [challenge EXCEPT ![r] = "open"]
    /\ UNCHANGED <<agents, keys>>

(* verifyWalletChallenge finds the challenge unused and checks the         *)
(* signature,                                                              *)
VerifyWalletChallenge(r) ==
    /\ challenge[r] = "open"
    /\ UNCHANGED credentials

(* and marks it as used by its _id, whatever has become of it.             *)
UseChallenge(r) ==
    /\ challenge' = [challenge EXCEPT ![r] = "used"]
    /\ UNCHANGED <<agents, keys>>

(* Mutant: no unique index on the wallet. *)
InsertAgentUnindexed(r, w) ==
    /\ agents' = agents \cup {[agentId |-> r, wallet |-> w]}
    /\ UNCHANGED <<challenge, keys>>

(* ensureIndexes: a second agent of a wallet is refused. *)
InsertAgent(r, w) ==
    /\ AgentsOf(w) = {}
    /\ agents' = agents \cup {[agentId |-> r, wallet |-> w]}
    /\ UNCHANGED <<challenge, keys>>

InsertKey(r, id, w) ==
    /\ keys' = keys \cup {[keyId |-> r, agentId |-> id, wallet |-> w,
                           revoked |-> FALSE]}
    /\ UNCHANGED <<challenge, agents>>

(* DELETE: a live key of the same agent. *)
RevokeKey(presented, k) ==
    \E by \in Presented(presented), x \in Presented(k) :
      /\ x.agentId = by.agentId
      /\ keys' = (keys \ {x}) \cup {[x EXCEPT !.revoked = TRUE]}
      /\ UNCHANGED <<challenge, agents>>
=============================================================================
