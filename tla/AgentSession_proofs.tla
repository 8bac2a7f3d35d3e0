------------------------- MODULE AgentSession_proofs -------------------------
(***************************************************************************)
(* One agent per wallet, for any number of requests on stdin, of mandates  *)
(* and of agents, however the requests interleave.                         *)
(***************************************************************************)
EXTENDS AgentSession, FoldTheorems_proofs

(* Whatever may stand in the agentId of an agent, a key or a mandate. *)
Ids == Redemptions \cup Requests \cup {Former, Stranger}

Agents == [agentId : Ids, wallet : {Own, Other}]
Keys == [keyId : Ids, agentId : Ids, wallet : {Own, Other}, revoked : BOOLEAN]
Steps == {"unread", "begun", "signed", "verified", "redeemed", "looked up",
          "created", "prepared", "answer", "answered"}
Docketed == [Mandates -> [status : {"DRAFT", "OPEN", "ACCEPT_RELAY_PENDING"},
                          createdAt : 1..Times,
                          provider : Ids \cup {NoProvider}]]
Calls == [Requests -> [tool : Tools \cup {None}, step : Steps,
                       agentId : Ids \cup {None},
                       mandate : Mandates \cup {Nothing}]]

Types ==
    /\ agents \subseteq Agents
    /\ keys \subseteq Keys
    /\ mandate \in Docketed
    /\ call \in Calls

(* What authenticate found and carries to the key is an agent of the       *)
(* session's wallet: an agent is never deleted.                            *)
FoundIsOwn ==
    \A r \in Requests :
      call[r].step = "looked up" /\ call[r].agentId # None
        => Names(call[r].agentId, Own)

IdentityInv == Types /\ FoundIsOwn /\ OneIdentity

(* A session starts with at most one agent of its wallet and nothing taken. *)
LEMMA InitIdentity == Init => IdentityInv
<1> SUFFICES ASSUME Init PROVE IdentityInv
  OBVIOUS
<1>1. PICK known \in {{[agentId |-> Stranger, wallet |-> Other]},
                      {[agentId |-> Stranger, wallet |-> Other],
                       [agentId |-> Former, wallet |-> Own]}} :
         /\ agents = known
         /\ keys = {[keyId |-> a.agentId, agentId |-> a.agentId, wallet |-> a.wallet,
                     revoked |-> FALSE] : a \in known}
  BY DEF Init, InitCredentials
<1>2. \A a \in agents : /\ a \in Agents
                        /\ a = [agentId |-> Stranger, wallet |-> Other]
                           \/ a = [agentId |-> Former, wallet |-> Own]
  BY <1>1 DEF Ids, Agents
<1>9. \A k \in keys : k \in Keys /\ Names(k.agentId, k.wallet)
  <2> SUFFICES ASSUME NEW a \in agents, NEW k,
                      k = [keyId |-> a.agentId, agentId |-> a.agentId,
                           wallet |-> a.wallet, revoked |-> FALSE]
               PROVE  k \in Keys /\ Names(k.agentId, k.wallet)
    BY <1>1
  <2> QED BY <1>2 DEF Agents, Keys, Names
<1>3. mandate \in Docketed
  BY DEF Init, InitDocket, Docketed
<1>4. call \in Calls
  BY DEF Init, Calls, Steps
<1>5. FoundIsOwn
  BY DEF Init, FoundIsOwn
<1>6. \A a, b \in agents : a.wallet = b.wallet => a = b
  <2> SUFFICES ASSUME NEW a \in agents, NEW b \in agents, a.wallet = b.wallet
               PROVE  a = b
    OBVIOUS
  <2>1. Own # Other
    BY DEF Own, Other
  <2> QED BY <1>2, <2>1
<1>8. \A m \in Mandates : mandate[m].provider = NoProvider
  BY DEF Init, InitDocket
<1> QED BY <1>2, <1>3, <1>4, <1>5, <1>6, <1>8, <1>9
        DEF IdentityInv, Types, OneIdentity

(* A step that leaves agents, keys and mandates alone, and looks nobody up. *)
LEMMA OnlyCall ==
    ASSUME IdentityInv, UNCHANGED <<agents, keys, mandate>>,
           call' \in Calls,
           NEW r \in Requests, \A q \in Requests \ {r} : call'[q] = call[q],
           call'[r].step # "looked up"
    PROVE  IdentityInv'
<1>1. FoundIsOwn'
  BY DEF IdentityInv, FoundIsOwn, Names
<1> QED BY <1>1 DEF IdentityInv, Types, OneIdentity, Names

(* Ending a call leaves its record a record, at the step "answer". *)
LEMMA Finishes ==
    ASSUME Types, NEW r \in Requests, Finish(r)
    PROVE  /\ call' \in Calls
           /\ \A q \in Requests \ {r} : call'[q] = call[q]
           /\ call'[r].step = "answer"
BY DEF Types, Finish, Calls, Steps

(* So does moving a call to another step. *)
LEMMA Goes ==
    ASSUME Types, NEW r \in Requests, NEW s \in Steps, Goto(r, s)
    PROVE  /\ call' \in Calls
           /\ \A q \in Requests \ {r} : call'[q] = call[q]
           /\ call'[r].step = s /\ call'[r].agentId = call[r].agentId
BY DEF Types, Goto, Calls

(* The one step that creates an agent: the wallet has none. *)
LEMMA NewAgentIdentity ==
    ASSUME IdentityInv, NEW r \in Requests, NewAgent(r)
    PROVE  IdentityInv'
<1> DEFINE new == [agentId |-> r, wallet |-> Own]
<1>1. /\ AgentsOf(Own) = {}
      /\ agents' = agents \cup {new}
      /\ UNCHANGED <<keys, mandate>>
      /\ call' = [call EXCEPT ![r].agentId = r]
  BY DEF NewAgent, InsertAgent, docket
<1>2. new \in Agents /\ r \in Ids
  BY DEF Agents, Ids
<1>3. call' \in Calls
  BY <1>1, <1>2 DEF IdentityInv, Types, Calls
<1>4. Types'
  BY <1>1, <1>2, <1>3 DEF IdentityInv, Types, Keys, Docketed
<1>5. \A id, w : Names(id, w) => Names(id, w)'
  BY <1>1 DEF Names
<1>6. Names(r, Own)'
  <2>1. new \in agents' /\ new.agentId = r /\ new.wallet = Own
    BY <1>1
  <2> QED BY <2>1 DEF Names
<1>7. /\ call'[r].agentId = r
      /\ \A q \in Requests \ {r} : call'[q] = call[q]
  BY <1>1 DEF IdentityInv, Types, Calls
<1>8. FoundIsOwn'
  BY <1>5, <1>6, <1>7 DEF IdentityInv, FoundIsOwn
<1>9. \A a, b \in agents' : a.wallet = b.wallet => a = b
  BY <1>1 DEF IdentityInv, OneIdentity, AgentsOf
<1> QED BY <1>1, <1>4, <1>5, <1>8, <1>9 DEF IdentityInv, OneIdentity

(* The step that looks the wallet's agent up. *)
LEMMA FindAgentIdentity ==
    ASSUME IdentityInv, NEW r \in Requests, FindAgent(r)
    PROVE  IdentityInv'
<1>1. PICK id \in Redemptions \cup {Former, None} :
         /\ FoundFor(Own, id)
         /\ call' = [call EXCEPT ![r].step = "looked up", ![r].agentId = id]
  BY DEF FindAgent
<1>2. UNCHANGED <<agents, keys, mandate>>
  BY DEF FindAgent, credentials, docket
<1>3. id # None => Names(id, Own)
  BY <1>1 DEF FoundFor
<1>4. call' \in Calls
  <2>1. "looked up" \in Steps /\ id \in Ids \cup {None}
    BY DEF Steps, Ids
  <2> QED BY <1>1, <2>1 DEF IdentityInv, Types, Calls
<1>5. FoundIsOwn'
  BY <1>1, <1>2, <1>3 DEF IdentityInv, Types, FoundIsOwn, Names, Calls
<1> QED BY <1>2, <1>4, <1>5 DEF IdentityInv, Types, OneIdentity, Names

(* A stored key names the agent that was found. *)
LEMMA NewKeyIdentity ==
    ASSUME IdentityInv, NEW r \in Requests, NewKey(r)
    PROVE  IdentityInv'
<1> DEFINE id == call[r].agentId
<1>1. /\ call[r].step = "looked up" /\ id # None
      /\ keys' = keys \cup {[keyId |-> r, agentId |-> id, wallet |-> Own,
                             revoked |-> FALSE]}
      /\ UNCHANGED <<agents, mandate>> /\ Goto(r, "created")
  BY DEF NewKey, At, InsertKey, docket
<1>2. Names(id, Own) /\ id \in Ids
  BY <1>1 DEF IdentityInv, FoundIsOwn, Types, Calls
<1>3. /\ call' \in Calls
      /\ \A q \in Requests \ {r} : call'[q] = call[q]
      /\ call'[r].step = "created"
  BY <1>1, Goes DEF IdentityInv, Steps
<1>4. Types'
  <2>1. [keyId |-> r, agentId |-> id, wallet |-> Own, revoked |-> FALSE]
          \in Keys
    BY <1>2 DEF Ids, Keys
  <2> QED BY <1>1, <1>3, <2>1 DEF IdentityInv, Types
<1>5. FoundIsOwn'
  BY <1>1, <1>3 DEF IdentityInv, FoundIsOwn, Names
<1>6. \A k \in keys' : Names(k.agentId, k.wallet)
  <2> SUFFICES ASSUME NEW k \in keys' PROVE Names(k.agentId, k.wallet)
    OBVIOUS
  <2>1. CASE k \in keys
    BY <2>1 DEF IdentityInv, OneIdentity
  <2>2. CASE k = [keyId |-> r, agentId |-> id, wallet |-> Own, revoked |-> FALSE]
    <3>1. k.agentId = id /\ k.wallet = Own
      BY <2>2
    <3> QED BY <1>2, <3>1
  <2> QED BY <1>1, <2>1, <2>2
<1> QED BY <1>1, <1>4, <1>5, <1>6 DEF IdentityInv, OneIdentity, Names

(* A revoked key keeps its agent and its wallet. *)
LEMMA RevokeIdentity ==
    ASSUME IdentityInv, NEW r \in Requests, Revoke(r)
    PROVE  IdentityInv'
<1>1. PICK x \in keys : keys' = (keys \ {x}) \cup {[x EXCEPT !.revoked = TRUE]}
  BY DEF Revoke, RevokeKey, Presented
<1>2. UNCHANGED <<agents, mandate>> /\ Finish(r)
  BY DEF Revoke, RevokeKey, docket
<1>3. /\ call' \in Calls
      /\ \A q \in Requests \ {r} : call'[q] = call[q]
      /\ call'[r].step = "answer"
  BY <1>2, Finishes DEF IdentityInv
<1>4. x \in Keys
  BY DEF IdentityInv, Types
<1>5. /\ [x EXCEPT !.revoked = TRUE]
           \in Keys
      /\ [x EXCEPT !.revoked = TRUE].agentId = x.agentId
      /\ [x EXCEPT !.revoked = TRUE].wallet = x.wallet
  BY <1>4 DEF Agents, Keys, Docketed, Calls, Steps
<1>6. Types'
  BY <1>1, <1>2, <1>3, <1>5 DEF IdentityInv, Types
<1>7. FoundIsOwn'
  BY <1>2, <1>3 DEF IdentityInv, FoundIsOwn, Names
<1>8. \A k \in keys' : Names(k.agentId, k.wallet)
  BY <1>1, <1>5 DEF IdentityInv, OneIdentity
<1> QED BY <1>2, <1>6, <1>7, <1>8 DEF IdentityInv, OneIdentity, Names

(* A mandate is taken for an agent of the session's wallet, or a stranger. *)
LEMMA TakeIdentity ==
    ASSUME IdentityInv, NEW m \in Mandates, NEW p \in Ids,
           p # Stranger => Names(p, Own), Take(m, p),
           UNCHANGED <<agents, keys>>, FoundIsOwn',
           call' \in Calls
    PROVE  IdentityInv'
<1>1. mandate' = [mandate EXCEPT ![m].status = "ACCEPT_RELAY_PENDING",
                                 ![m].provider = p]
  BY DEF Take
<1>2. mandate' \in Docketed
  <2>1. mandate \in Docketed
    BY DEF IdentityInv, Types
  <2>2. [mandate[m] EXCEPT !.status = "ACCEPT_RELAY_PENDING", !.provider = p]
          \in [status : {"DRAFT", "OPEN", "ACCEPT_RELAY_PENDING"},
              createdAt : 1..Times, provider : Ids \cup {NoProvider}]
    BY <2>1 DEF Docketed
  <2> QED BY <1>1, <2>1, <2>2 DEF Docketed
<1>3. /\ mandate'[m].provider = p
      /\ \A n \in Mandates \ {m} : mandate'[n] = mandate[n]
  BY <1>1 DEF IdentityInv, Types, Docketed
<1>4. Types'
  BY <1>2 DEF IdentityInv, Types
<1>5. (\A n \in Mandates : mandate[n].provider \notin {NoProvider, Stranger}
                             => Names(mandate[n].provider, Own))'
  BY <1>3 DEF IdentityInv, OneIdentity, Names
<1> QED BY <1>4, <1>5 DEF IdentityInv, OneIdentity, Names

\* An acceptance that is submitted under a key is one of its wallet.
LEMMA SubmitIdentity ==
    ASSUME IdentityInv, NEW r \in Requests, SubmitAccept(r)
    PROVE  IdentityInv'
<1>1. PICK k \in Presented(apiKey) : k.wallet = Own /\ Take(call[r].mandate, k.agentId)
  BY DEF SubmitAccept
<1>2. UNCHANGED <<agents, keys>> /\ Finish(r)
  BY DEF SubmitAccept, credentials
<1>3. call[r].mandate \in Mandates
  BY <1>1 DEF Take, OnDocket
<1>4. k.agentId \in Ids /\ Names(k.agentId, Own)
  BY <1>1 DEF Presented, IdentityInv, Types, OneIdentity, Keys
<1>5. /\ call' \in Calls
      /\ \A q \in Requests \ {r} : call'[q] = call[q]
      /\ call'[r].step = "answer"
  BY <1>2, Finishes DEF IdentityInv
<1>6. FoundIsOwn'
  BY <1>2, <1>5 DEF IdentityInv, FoundIsOwn, Names
<1> QED BY <1>1, <1>2, <1>3, <1>4, <1>5, <1>6, TakeIdentity

(* The rest of the world publishes, and a stranger accepts. *)
LEMMA OthersIdentity == ASSUME IdentityInv, Others PROVE IdentityInv'
<1>1. PICK m \in Mandates : Publish(m) \/ Take(m, Stranger)
  BY DEF Others
<1>2. UNCHANGED <<agents, keys, call>>
  BY DEF Others, credentials
<1>3. FoundIsOwn'
  BY <1>2 DEF IdentityInv, FoundIsOwn, Names
<1>4. CASE Publish(m)
  <2>1. mandate' = [mandate EXCEPT ![m].status = "OPEN"]
    BY <1>4 DEF Publish
  <2>2. Types' /\ \A n \in Mandates : mandate'[n].provider = mandate[n].provider
    BY <1>2, <2>1 DEF IdentityInv, Types, Docketed
  <2> QED BY <1>2, <1>3, <2>2 DEF IdentityInv, OneIdentity, Names
<1>5. CASE Take(m, Stranger)
  BY <1>2, <1>3, <1>5, TakeIdentity DEF IdentityInv, Types, Ids
<1> QED BY <1>1, <1>4, <1>5

(* Every other step of a request moves it on and changes nothing else. *)
LEMMA QuietIdentity ==
    ASSUME IdentityInv, NEW r \in Requests,
           \/ \E tool \in Tools : Dispatch(r, tool)
           \/ Refused(r) \/ OperationEnds(r) \/ Challenge(r) \/ Redeem(r)
           \/ MarkUsed(r) \/ SetApiKey(r) \/ List(r) \/ PrepareAccept(r)
           \/ Answer(r)
    PROVE  IdentityInv'
<1>1. UNCHANGED <<agents, keys, mandate>>
  BY DEF Dispatch, Refused, OperationEnds, Challenge, CreateChallenge, Redeem,
         VerifyWalletChallenge, MarkUsed, UseChallenge, SetApiKey, List,
         ShowPage, PrepareAccept, Answer,
         credentials, docket
<1>2. CASE \E tool \in Tools : Dispatch(r, tool)
  <2>1. PICK tool \in Tools :
          call' = [call EXCEPT ![r].tool = tool, ![r].step = "begun"]
    BY <1>2 DEF Dispatch
  <2>2. /\ call' \in Calls
        /\ \A q \in Requests \ {r} : call'[q] = call[q]
        /\ call'[r].step = "begun"
    BY <2>1 DEF IdentityInv, Types, Calls, Steps
  <2> QED BY <1>1, <2>2, OnlyCall
<1>3. CASE Finish(r)
  BY <1>1, <1>3, Finishes, OnlyCall DEF IdentityInv
<1>4. ASSUME NEW s \in {"signed", "verified", "redeemed", "answered"}, Goto(r, s)
      PROVE  IdentityInv'
  BY <1>1, <1>4, Goes, OnlyCall DEF IdentityInv, Steps
<1>5. CASE PrepareAccept(r)
  <2>1. PICK k \in Presented(apiKey), m \in OnDocket :
          call' = [call EXCEPT ![r].step = "prepared", ![r].agentId = k.agentId,
                               ![r].mandate = m]
    BY <1>5 DEF PrepareAccept
  <2>2. k.agentId \in Ids /\ m \in Mandates
    BY <2>1 DEF Presented, OnDocket, IdentityInv, Types, Keys, Docketed
  <2>3. /\ call' \in Calls
        /\ \A q \in Requests \ {r} : call'[q] = call[q]
        /\ call'[r].step = "prepared"
    <3>1. call \in Calls /\ "prepared" \in Steps
      BY DEF IdentityInv, Types, Steps
    <3>2. call' \in Calls
      BY <2>1, <2>2, <3>1 DEF Calls
    <3> QED BY <2>1, <3>1, <3>2 DEF Calls
  <2> QED BY <1>1, <2>3, OnlyCall
<1>6. \/ \E tool \in Tools : Dispatch(r, tool)
      \/ Finish(r) \/ PrepareAccept(r)
      \/ \E s \in {"signed", "verified", "redeemed", "answered"} : Goto(r, s)
  BY DEF Refused, OperationEnds, Challenge, Redeem, MarkUsed, SetApiKey,
         List, Answer
<1> QED BY <1>2, <1>3, <1>4, <1>5, <1>6

(* No step gives a wallet a second agent, or a key of another's agent. *)
LEMMA NextIdentity == IdentityInv /\ [Next]_vars => IdentityInv'
<1> SUFFICES ASSUME IdentityInv, [Next]_vars PROVE IdentityInv'
  OBVIOUS
<1>1. CASE \E r \in Requests :
             \/ \E tool \in Tools : Dispatch(r, tool)
             \/ Handle(r) \/ Refused(r) \/ OperationEnds(r)
  BY <1>1, QuietIdentity, FindAgentIdentity, NewAgentIdentity, NewKeyIdentity,
     RevokeIdentity, SubmitIdentity DEF Handle
<1>2. CASE Write
  <2>1. UNCHANGED <<agents, keys, mandate, call>>
    BY <1>2 DEF Write, credentials, docket
  <2> QED BY <2>1 DEF IdentityInv, Types, FoundIsOwn, OneIdentity, Names
<1>3. CASE Others
  BY <1>3, OthersIdentity
<1>4. CASE UNCHANGED vars
  <2>1. UNCHANGED <<agents, keys, mandate, call>>
    BY <1>4 DEF vars, credentials, docket
  <2> QED BY <2>1 DEF IdentityInv, Types, FoundIsOwn, OneIdentity, Names
<1> QED BY <1>1, <1>2, <1>3, <1>4 DEF Next

(* OneIdentity holds whatever the requests on stdin are and however their  *)
(* steps interleave: a wallet has one agent, every key is of an agent of   *)
(* its wallet, and what a session accepts is accepted by that agent.       *)
(* (api-keys/route.ts, tools.ts)                                           *)
THEOREM SessionHasOneIdentity == Spec => []OneIdentity
<1>1. IdentityInv => OneIdentity
  BY DEF IdentityInv
<1> QED BY <1>1, InitIdentity, NextIdentity, PTL DEF Spec

-----------------------------------------------------------------------------
(***************************************************************************)
(* The walk of the docket.                                                 *)
(***************************************************************************)

Walks == [cursor : Nat, shown : SUBSET Mandates, stayed : SUBSET Mandates,
          at : {"none", "page", "end"}]

\* Another mandate was created at the same time.
Tied(m) == \E n \in Mandates \ {m} : mandate[n].createdAt = mandate[m].createdAt

\* What has stayed on the docket and was not shown is still to come.
Ahead(m) ==
    /\ walk.at # "end"
    /\ m \in OnDocket /\ mandate[m].createdAt < walk.cursor

WalkInv ==
    /\ walk \in Walks
    /\ walk.at = "none" => walk.cursor = Unlimited /\ walk.stayed = {}
    /\ \A m \in walk.stayed \ walk.shown : Tied(m) \/ Ahead(m)

\* A page that leaves rows out is not empty, and the cursor after it is the
\* creation time of its oldest row.
LEMMA CursorIsOldest ==
    ASSUME Types, NEW page \in SUBSET Rows, IsPage(page), page # Rows
    PROVE  /\ \E m \in page : mandate[m].createdAt = CursorAfter(page)
           /\ CursorAfter(page) \in 1..Times
<1> DEFINE T == {mandate[m].createdAt : m \in page}
<1>1. IsFiniteSet(Rows) /\ Rows \subseteq Mandates
  <2>1. Rows \subseteq Mandates
    BY DEF Rows, OnDocket
  <2> QED BY <2>1, FS_Subset, DocketAssumption
<1>2. page # {}
  <2>1. SUFFICES ASSUME page = {} PROVE FALSE
    OBVIOUS
  <2>2. Cardinality(page) = 0
    BY <2>1, FS_EmptySet
  <2>3. Cardinality(Rows) \in Nat /\ Limit \in Nat \ {0}
    BY <1>1, FS_CardinalityType, DocketAssumption
  <2>4. Cardinality(Rows) = 0
    BY <2>2, <2>3 DEF IsPage
  <2>5. Rows = {}
    BY <1>1, <2>4, FS_EmptySet
  <2> QED BY <2>1, <2>5
<1>3. \A m \in page : mandate[m].createdAt \in 1..Times
  BY <1>1 DEF Types, Docketed
<1>4. T \subseteq Nat /\ T # {} /\ T \subseteq 1..Times
  <2>1. Times \in Nat
    BY DocketAssumption
  <2> QED BY <1>2, <1>3, <2>1
<1>5. PICK t \in T : \A u \in T : t <= u
  <2> HIDE DEF T
  <2> QED BY <1>4, LeastNatural
<1>6. PICK m \in page : t = mandate[m].createdAt
  BY <1>5
<1>7. \A n \in page : mandate[n].createdAt >= t
  <2>1. Times \in Nat
    BY DocketAssumption
  <2> QED BY <1>3, <1>4, <1>5, <2>1
<1>8. t \in 1..Times
  BY <1>4
<1> HIDE DEF T
<1> QED BY <1>6, <1>7, <1>8 DEF CursorAfter

\* A page shows whatever is still to come and is not older than its last row,
\* but for rows that were created at the same time as that one.
LEMMA PageKeepsWalk ==
    ASSUME Types, WalkInv, ShowPage
    PROVE  WalkInv'
<1>1. PICK page \in SUBSET Rows :
         /\ IsPage(page)
         /\ walk' = [cursor |-> IF page = Rows THEN walk.cursor
                                               ELSE CursorAfter(page),
                     shown  |-> walk.shown \cup page,
                     stayed |-> IF walk.at = "none" THEN OnDocket
                                                    ELSE walk.stayed,
                     at     |-> IF page = Rows THEN "end" ELSE "page"]
  BY DEF ShowPage
<1>2. /\ mandate' = mandate /\ walk.at # "end" /\ walk \in Walks
      /\ OnDocket \subseteq Mandates /\ Rows \subseteq OnDocket
      /\ Times \in Nat
  BY DocketAssumption DEF ShowPage, WalkInv, OnDocket, Rows
<1>3. \A m \in Mandates : mandate[m].createdAt \in 1..Times
  BY DEF Types, Docketed
<1>4. /\ walk'.shown = walk.shown \cup page
      /\ walk'.stayed = IF walk.at = "none" THEN OnDocket ELSE walk.stayed
      /\ walk'.at = IF page = Rows THEN "end" ELSE "page"
      /\ walk'.cursor = IF page = Rows THEN walk.cursor ELSE CursorAfter(page)
  BY <1>1
<1>5. walk' \in Walks
  <2>1. walk'.cursor \in Nat
    BY <1>1, <1>2, <1>4, CursorIsOldest DEF Walks
  <2>2. walk'.shown \in SUBSET Mandates /\ walk'.stayed \in SUBSET Mandates
    BY <1>1, <1>2, <1>4 DEF Walks
  <2> QED BY <1>1, <1>4, <2>1, <2>2 DEF Walks
<1>6. ASSUME NEW m \in walk'.stayed, m \notin walk'.shown
      PROVE  Tied(m) \/ (m \in Rows /\ m \notin page)
  <2>1. m \notin page /\ m \notin walk.shown
    BY <1>4, <1>6
  <2>2. CASE walk.at = "none"
    <3>1. m \in OnDocket /\ walk.cursor = Unlimited
      BY <1>4, <1>6, <2>2 DEF WalkInv
    <3>2. mandate[m].createdAt < walk.cursor
      BY <1>2, <1>3, <3>1 DEF Unlimited
    <3> QED BY <2>1, <3>1, <3>2 DEF Rows
  <2>3. CASE walk.at # "none"
    <3>1. Tied(m) \/ Ahead(m)
      BY <1>4, <1>6, <2>1, <2>3 DEF WalkInv
    <3> QED BY <2>1, <3>1 DEF Ahead, Rows
  <2> QED BY <2>2, <2>3
<1>7. ASSUME NEW m \in walk'.stayed, m \notin walk'.shown
      PROVE  Tied(m)' \/ Ahead(m)'
  <2>1. CASE Tied(m)
    BY <1>2, <2>1 DEF Tied
  <2>2. CASE m \in Rows /\ m \notin page
    <3>1. page # Rows
      BY <2>2
    <3>2. PICK o \in page : /\ mandate[o].createdAt = CursorAfter(page)
                            /\ CursorAfter(page) \in 1..Times
      BY <1>1, <3>1, CursorIsOldest
    <3>3. mandate[o].createdAt >= mandate[m].createdAt
      BY <1>1, <2>2 DEF IsPage
    <3>4. o \in Mandates /\ m \in Mandates /\ m # o
      BY <1>1, <1>2, <2>2
    <3>5. CASE mandate[o].createdAt = mandate[m].createdAt
      BY <1>2, <3>4, <3>5 DEF Tied
    <3>6. CASE mandate[o].createdAt # mandate[m].createdAt
      <4>1. mandate[m].createdAt < CursorAfter(page)
        BY <1>2, <1>3, <3>2, <3>3, <3>4, <3>6
      <4>2. walk'.at # "end" /\ walk'.cursor = CursorAfter(page)
        BY <1>4, <3>1
      <4>3. m \in OnDocket'
        BY <1>2, <2>2 DEF OnDocket
      <4> QED BY <1>2, <4>1, <4>2, <4>3 DEF Ahead
    <3> QED BY <3>5, <3>6
  <2> QED BY <1>6, <1>7, <2>1, <2>2
<1>8. walk'.at # "none"
  BY <1>4
<1> QED BY <1>5, <1>7, <1>8 DEF WalkInv

\* A mandate that is published joins the docket; no other one moves.
LEMMA PublishKeepsWalk ==
    ASSUME Types, WalkInv, NEW m \in Mandates, Publish(m)
    PROVE  WalkInv'
<1>1. /\ mandate[m].status = "DRAFT" /\ walk' = walk
      /\ mandate' = [mandate EXCEPT ![m].status = "OPEN"]
  BY DEF Publish
<1>2. /\ \A n \in Mandates : mandate'[n].createdAt = mandate[n].createdAt
      /\ \A n \in Mandates : n # m => mandate'[n] = mandate[n]
  BY <1>1 DEF Types, Docketed
<1>3. m \notin OnDocket
  BY <1>1 DEF OnDocket
<1>4. \A n \in Mandates : Tied(n) => Tied(n)'
  BY <1>2 DEF Tied
<1>5. \A n \in Mandates : Ahead(n) => Ahead(n)'
  BY <1>1, <1>2, <1>3 DEF Ahead, OnDocket
<1>6. walk.stayed \subseteq Mandates
  BY DEF WalkInv, Walks
<1> QED BY <1>1, <1>4, <1>5, <1>6 DEF WalkInv

\* A mandate that is taken has not stayed.
LEMMA TakeKeepsWalk ==
    ASSUME Types, WalkInv, NEW m \in Mandates, NEW p, Take(m, p)
    PROVE  WalkInv'
<1>1. /\ walk' = [walk EXCEPT !.stayed = @ \ {m}]
      /\ mandate' = [mandate EXCEPT ![m].status = "ACCEPT_RELAY_PENDING",
                                    ![m].provider = p]
  BY DEF Take
<1>2. /\ \A n \in Mandates : mandate'[n].createdAt = mandate[n].createdAt
      /\ \A n \in Mandates : n # m => mandate'[n] = mandate[n]
  BY <1>1 DEF Types, Docketed
<1>3. /\ walk'.stayed = walk.stayed \ {m} /\ walk'.shown = walk.shown
      /\ walk'.cursor = walk.cursor /\ walk'.at = walk.at
      /\ walk' \in Walks /\ walk.stayed \subseteq Mandates
  BY <1>1 DEF WalkInv, Walks
<1>4. \A n \in Mandates : Tied(n) => Tied(n)'
  BY <1>2 DEF Tied
<1>5. \A n \in Mandates \ {m} : Ahead(n) => Ahead(n)'
  BY <1>2, <1>3 DEF Ahead, OnDocket
<1> QED BY <1>3, <1>4, <1>5 DEF WalkInv

\* Every step of the session keeps the walk on its way.
LEMMA NextWalk == IdentityInv /\ WalkInv /\ [Next]_vars => WalkInv'
<1> SUFFICES ASSUME IdentityInv, WalkInv, [Next]_vars PROVE WalkInv'
  OBVIOUS
<1>0. Types
  BY DEF IdentityInv
<1>1. ASSUME UNCHANGED docket PROVE WalkInv'
  <2>1. mandate' = mandate /\ walk' = walk
    BY <1>1 DEF docket
  <2> QED BY <2>1 DEF WalkInv, Tied, Ahead, OnDocket
<1>2. ASSUME NEW r \in Requests,
             \/ \E tool \in Tools : Dispatch(r, tool)
             \/ Handle(r) \/ Refused(r) \/ OperationEnds(r)
      PROVE  WalkInv'
  <2>1. CASE List(r)
    BY <1>0, <2>1, PageKeepsWalk DEF List
  <2>2. CASE SubmitAccept(r)
    <3>1. PICK k \in Presented(apiKey) : Take(call[r].mandate, k.agentId)
      BY <2>2 DEF SubmitAccept
    <3>2. call[r].mandate \in Mandates
      BY <3>1 DEF Take, OnDocket
    <3> QED BY <1>0, <3>1, <3>2, TakeKeepsWalk
  <2>3. CASE UNCHANGED docket
    BY <1>1, <2>3
  <2> QED BY <1>2, <2>1, <2>2, <2>3
          DEF Handle, Dispatch, Refused, OperationEnds, Challenge, Redeem,
              MarkUsed, FindAgent, NewAgent, NewKey, SetApiKey, Revoke,
              PrepareAccept, Answer
<1>3. CASE Write
  BY <1>1, <1>3 DEF Write
<1>4. CASE Others
  BY <1>0, <1>4, PublishKeepsWalk, TakeKeepsWalk DEF Others
<1>5. CASE UNCHANGED vars
  BY <1>1, <1>5 DEF vars
<1> QED BY <1>2, <1>3, <1>4, <1>5 DEF Next

\* An agent that walks the docket to its end has seen every mandate that was
\* open throughout, whatever is published or taken meanwhile, but for one that
\* was created at the very time of another (docket/route.ts).
THEOREM WalkSeesOpenAlways == Spec => []WalkSeesOpen
<1>1. Init => WalkInv
  <2> SUFFICES ASSUME Init PROVE WalkInv
    OBVIOUS
  <2>1. walk = [cursor |-> Unlimited, shown |-> {}, stayed |-> {},
                at |-> "none"]
    BY DEF Init, InitDocket, Start
  <2>2. Unlimited \in Nat
    BY DocketAssumption DEF Unlimited
  <2> QED BY <2>1, <2>2 DEF WalkInv, Walks
<1>2. WalkInv => WalkSeesOpen
  BY DEF WalkInv, Ahead, Tied, WalkSeesOpen
<1> QED BY <1>1, <1>2, InitIdentity, NextIdentity, NextWalk, PTL DEF Spec

=============================================================================
