---------------------------- MODULE AgentSession ----------------------------
(***************************************************************************)
(* An agent's MCP server, packages/mcp-server: requests come in on stdin   *)
(* and are handled concurrently, every tool with the client the session    *)
(* has at that moment; `authenticate` replaces the client.  Signed writes  *)
(* prepare, sign with the session's wallet and submit.  Answers go out     *)
(* through one chain of writes.                                            *)
(*                                                                         *)
(* The session talks to the court of Credentials and Docket.  Its key may  *)
(* be missing at first, or belong to another wallet than the one it signs  *)
(* with.                                                                   *)
(***************************************************************************)
EXTENDS Credentials, Docket, Sequences

CONSTANTS Stdin           \* the requests, in the order of their lines

VARIABLES
    apiKey,          \* of the session's client
    call,            \* what every request is and how far
    writeChain,      \* answers on their way to stdout
    written          \* how often stdout has got the answer of a request

session == <<apiKey, writeChain, written>>
vars == <<credentials, docket, apiKey, call, writeChain, written>>

Requests == {Stdin[i] : i \in DOMAIN Stdin}
Tools == {"authenticate", "revoke", "accept", "list", "wait"}
Nothing == "no mandate"

Init ==
    /\ InitCredentials /\ InitDocket
    /\ apiKey \in {None} \cup {k.keyId : k \in keys}
    /\ call = [r \in Requests |-> [tool |-> None, step |-> "unread",
                                   agentId |-> None, mandate |-> Nothing]]
    /\ writeChain = <<>> /\ written = [r \in Requests |-> 0]

At(r, tool, step) == call[r].tool = tool /\ call[r].step = step
Goto(r, step) == call' = [call EXCEPT ![r].step = step]
Finish(r) == call' = [call EXCEPT ![r] = [@ EXCEPT !.step = "answer", !.agentId = None,
                                                   !.mandate = Nothing]]

NextLine(r) ==
    \E i \in DOMAIN Stdin : /\ r = Stdin[i] /\ call[r].step = "unread"
                            /\ \A j \in 1..(i - 1) : call[Stdin[j]].step # "unread"

(* Mutant: one request after the other. *)
DispatchInTurn(r, tool) ==
    /\ NextLine(r)
    /\ \A q \in Requests : call[q].step \in {"unread", "answered"}
    /\ call' = [call EXCEPT ![r].tool = tool, ![r].step = "begun"]
    /\ UNCHANGED <<credentials, docket, session>>

(* A line of stdin. *)
Dispatch(r, tool) ==
    /\ NextLine(r)
    /\ call' = [call EXCEPT ![r].tool = tool, ![r].step = "begun"]
    /\ UNCHANGED <<credentials, docket, session>>

(* Any answer of the court but the expected one ends the tool with an      *)
(* error: a network fault, an expired challenge, a duplicate agent, 401... *)
Refused(r) ==
    /\ call[r].step \notin {"unread", "answer", "answered"}
    /\ Finish(r)
    /\ UNCHANGED <<credentials, docket, session>>

----------------------------------------------------------------------------
Challenge(r) ==
    /\ At(r, "authenticate", "begun") /\ CreateChallenge(r)
    /\ Goto(r, "signed")
    /\ UNCHANGED <<docket, session>>

Redeem(r) ==
    /\ At(r, "authenticate", "signed") /\ VerifyWalletChallenge(r)
    /\ Goto(r, "verified")
    /\ UNCHANGED <<docket, session>>

MarkUsed(r) ==
    /\ At(r, "authenticate", "verified") /\ UseChallenge(r)
    /\ Goto(r, "redeemed")
    /\ UNCHANGED <<docket, session>>

FindAgent(r) ==
    /\ At(r, "authenticate", "redeemed")
    /\ \E id \in Redemptions \cup {Former, None} :
         /\ FoundFor(Own, id)
         /\ call' = [call EXCEPT ![r].step = "looked up", ![r].agentId = id]
    /\ UNCHANGED <<credentials, docket, session>>

NewAgent(r) ==
    /\ At(r, "authenticate", "looked up") /\ call[r].agentId = None
    /\ InsertAgent(r, Own)
    /\ call' = [call EXCEPT ![r].agentId = r]
    /\ UNCHANGED <<docket, session>>

NewKey(r) ==
    /\ At(r, "authenticate", "looked up") /\ call[r].agentId # None
    /\ InsertKey(r, call[r].agentId, Own)
    /\ Goto(r, "created")
    /\ UNCHANGED <<docket, session>>

SetApiKey(r) ==
    /\ At(r, "authenticate", "created")
    /\ apiKey' = r /\ Finish(r)
    /\ UNCHANGED <<credentials, docket, writeChain, written>>

Revoke(r) ==
    /\ At(r, "revoke", "begun")
    /\ \E k \in Redemptions \cup {Former, Stranger} : RevokeKey(apiKey, k)
    /\ Finish(r)
    /\ UNCHANGED <<docket, session>>

(* A page of the docket; the answer carries the next cursor. *)
List(r) ==
    /\ At(r, "list", "begun") /\ ShowPage
    /\ Finish(r)
    /\ UNCHANGED <<credentials, session>>

(* accept_mandate: the court prepares typed data for the agent of the key, *)
PrepareAccept(r) ==
    /\ At(r, "accept", "begun")
    /\ \E k \in Presented(apiKey), m \in OnDocket :
         call' = [call EXCEPT ![r].step = "prepared", ![r].agentId = k.agentId,
                              ![r].mandate = m]
    /\ UNCHANGED <<credentials, docket, session>>

(* and takes the mandate for the agent of the key that submits, whose      *)
(* wallet must be the one that signed.                                     *)
SubmitAccept(r) ==
    /\ At(r, "accept", "prepared")
    /\ \E k \in Presented(apiKey) :
         k.wallet = Own /\ Take(call[r].mandate, k.agentId)
    /\ Finish(r)
    /\ UNCHANGED <<credentials, session>>

(* wait_for_operation: nobody says when. *)
OperationEnds(r) ==
    /\ At(r, "wait", "begun") /\ Finish(r)
    /\ UNCHANGED <<credentials, docket, session>>

(* dispatch hands the response to the chain ... *)
Answer(r) ==
    /\ call[r].step = "answer"
    /\ Goto(r, "answered")
    /\ writeChain' = Append(writeChain, r)
    /\ UNCHANGED <<credentials, docket, apiKey, written>>

(* ... which writes one at a time. *)
Write ==
    /\ writeChain # <<>>
    /\ written' = [written EXCEPT ![Head(writeChain)] = @ + 1]
    /\ writeChain' = Tail(writeChain)
    /\ UNCHANGED <<credentials, docket, apiKey, call>>

Handle(r) ==
    \/ Challenge(r) \/ Redeem(r) \/ MarkUsed(r) \/ FindAgent(r)
    \/ NewAgent(r) \/ NewKey(r) \/ SetApiKey(r) \/ Revoke(r) \/ List(r)
    \/ PrepareAccept(r) \/ SubmitAccept(r) \/ Answer(r)

(* Other principals publish, other providers accept. *)
Others ==
    /\ \E m \in Mandates : Publish(m) \/ Take(m, Stranger)
    /\ UNCHANGED <<credentials, call, session>>

Next ==
    \/ \E r \in Requests : \/ \E tool \in Tools : Dispatch(r, tool)
                           \/ Handle(r) \/ Refused(r) \/ OperationEnds(r)
    \/ Write \/ Others

(* stdin is read, and a request to the court is answered or times out; the *)
(* operation a call waits for may stay open as long as it likes.           *)
Fairness ==
    /\ \A r \in Requests :
         /\ WF_vars(\E tool \in Tools : Dispatch(r, tool))
         /\ WF_vars(Handle(r) \/ (call[r].tool # "wait" /\ Refused(r)))
    /\ WF_vars(Write)

Spec == Init /\ [][Next]_vars /\ Fairness

----------------------------------------------------------------------------
(* OneIdentity: whatever redemptions, swaps of the client and revocations  *)
(* interleave, a wallet has one agent, every key names an agent of its own *)
(* wallet, and a mandate taken by this session is taken by the one agent   *)
(* of the wallet that signed.  (api-keys/route.ts, tools.ts authenticate)  *)
OneIdentity ==
    /\ \A a, b \in agents : a.wallet = b.wallet => a = b
    /\ \A k \in keys : Names(k.agentId, k.wallet)
    /\ \A m \in Mandates : mandate[m].provider \notin {NoProvider, Stranger}
                            => Names(mandate[m].provider, Own)

(* WalkSeesOpen: a walk that has come to its end has shown every mandate   *)
(* that was on the docket throughout, but for one created at the same time *)
(* as another: the cursor passes over it when a page ends between the two. *)
(* (docket/route.ts)                                                       *)
WalkSeesOpen ==
    walk.at = "end" =>
      \A m \in walk.stayed \ walk.shown :
        \E n \in Mandates \ {m} : mandate[n].createdAt = mandate[m].createdAt

(* RequestAnswered: a request is answered, once, though another one waits  *)
(* for an operation that never ends.  (index.ts: "Requests are handled     *)
(* concurrently ... must not stall the rest of the session")               *)
RequestAnswered ==
    \A r \in Requests : []<>(call[r].tool = "wait" \/ written[r] = 1)
=============================================================================
