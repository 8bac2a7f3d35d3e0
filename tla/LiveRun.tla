------------------------------ MODULE LiveRun ------------------------------
(***************************************************************************)
(* The scripts of scripts/live: one mandate taken through the deployed     *)
(* court by hand, each step a script of its own that reads the state of    *)
(* the run from a file and merges what it found out into it.  A script     *)
(* may stop anywhere (an error, a timeout, ^C) and any script may be run   *)
(* again, in any order.  The gate verify-lifecycle then compares the case  *)
(* with what Base says of the money.                                       *)
(*                                                                         *)
(* The court is seen as the scripts see it: a status, a manifest, a        *)
(* judgment, a settlement.  It may be wrong: record a settlement that did  *)
(* not pay the award, or a judgment or receipts that do not hold.          *)
(***************************************************************************)
EXTENDS Naturals, Sequences, FiniteSets

CONSTANTS
    Mandates,        \* mandates the run may create
    Collections,     \* what the earthquake catalogue may answer
    Awards,          \* settlementBps a judgment may carry
    Amount,          \* the escrow of a mandate, 2 USDC
    Funding,         \* what step 1 sends the principal, 3 USDC
    Treasury,        \* what the court signer holds at first
    Enough,          \* records criterion C1 asks for, 40
    MaxDetours,      \* scripts started again or out of order
    MaxFaults        \* wrong records of the court

Points == 0..10000     \* of an award, in basis points

ASSUME LiveAssumption ==
    /\ Amount \in Nat \ {0} /\ Funding \in Nat /\ Amount <= Funding
    /\ Treasury \in Nat /\ Enough \in Nat /\ MaxDetours \in Nat
    /\ MaxFaults \in Nat /\ Awards \subseteq Points
    /\ Collections \subseteq [kept : Nat, linked : BOOLEAN, onDomain : BOOLEAN]
    \* an escrow has 2 000 000 units: no award of one basis point rounds to none
    /\ \A bps \in Awards : bps > 0 => (Amount * bps) \div 10000 > 0

VARIABLES
    state,           \* .runs/<run>/state.json
    step,            \* what the running script does next
    prepared,        \* the mandate step 2 has prepared
    dir,             \* the deliverable directory
    commits,         \* the trees committed in it
    pushed,          \* how many of them the repository serves
    court,           \* the case of every mandate
    usdc,            \* balances on Base
    gate,            \* what verify-lifecycle said last
    due,             \* the script whose turn it is
    detours, faults

files == <<dir, commits, pushed>>
bounds == <<due, detours, faults>>
vars == <<state, step, prepared, dir, commits, pushed, court, usdc, gate,
          due, detours, faults>>

None == "none"
Absent == [at |-> 0, kept |-> 0, written |-> 0]       \* no data yet
NoBundle == [award |-> 0, source |-> 0]

(* The bytes of a file differ between the directory and the published URL. *)
LocalHash(data) == [side |-> "local", data |-> data]
ServedHash(c) == [side |-> "served", data |-> commits[c].data]

Unpublished == [commit |-> 0, hash |-> LocalHash(Absent)]
Undelivered == [commit |-> 0, hash |-> LocalHash(Absent), count |-> 0]

Award(m) == (Amount * court[m].bps) \div 10000

(* A run starts with two generated wallets and nothing else. *)
Init ==
    /\ state = [keys |-> FALSE, mandate |-> None, count |-> 0,
                published |-> Unpublished, bundle |-> 0]
    /\ step = "idle" /\ prepared = None
    /\ dir = [data |-> Absent, bundle |-> NoBundle] /\ commits = <<>> /\ pushed = 0
    /\ court = [m \in Mandates |->
                  [status |-> "unknown", manifest |-> Undelivered, bps |-> 0,
                   proven |-> FALSE, paid |-> 0, receipts |-> FALSE]]
    /\ usdc = [signer |-> Treasury, principal |-> 0, provider |-> 0, escrow |-> 0]
    /\ gate = "unrun" /\ due = 1 /\ detours = 0 /\ faults = 0

(* saveState: what is on disk, overridden by the patch. *)
Saved(patch) == [k \in DOMAIN state |-> IF k \in DOMAIN patch THEN patch[k]
                                                             ELSE state[k]]
Save(patch) == state' = Saved(patch)

FirstStep == <<"fund", "prepare", "discover", "collect", "commit", "deliver",
               "bundle">>

(* The operator runs a script: the next one, or any other as a detour. *)
Start(k) ==
    /\ step = "idle"
    /\ IF k = due THEN due' = due + 1 /\ UNCHANGED detours
                  ELSE detours < MaxDetours /\ detours' = detours + 1 /\ UNCHANGED due
    /\ step' = FirstStep[k] /\ prepared' = None /\ gate' = "unrun"
    /\ UNCHANGED <<state, files, court, usdc, faults>>

(* A script throws, times out or is stopped between two of its steps. *)
Stop ==
    /\ step # "idle" /\ step' = "idle"
    /\ UNCHANGED <<state, prepared, files, court, usdc, gate, bounds>>

Does(at, then) ==
    /\ step = at /\ step' = then
    /\ UNCHANGED <<gate, bounds>>

----------------------------------------------------------------------------
(* Step 1: the principal is funded unless it can pay the escrow, then both *)
(* agents get a key and a profile.                                         *)
Fund ==
    /\ Does("fund", "register")
    /\ IF usdc.principal < Amount
         THEN /\ usdc.signer >= Funding
              /\ usdc' = [usdc EXCEPT !.signer = @ - Funding,
                                      !.principal = @ + Funding]
         ELSE UNCHANGED usdc
    /\ UNCHANGED <<state, prepared, files, court>>

RegisterAgents ==
    /\ Does("register", "idle")
    /\ Save([keys |-> TRUE])
    /\ UNCHANGED <<prepared, files, court, usdc>>

(* Step 2: a fresh idempotency key, so the court prepares a new mandate... *)
PrepareMandate(m) ==
    /\ Does("prepare", "submit")
    /\ state.keys /\ court[m].status = "unknown"
    /\ prepared' = m
    /\ UNCHANGED <<state, files, court, usdc>>

(* ... which exists once both signatures are submitted ...                 *)
SubmitMandate ==
    /\ Does("submit", "remember")
    /\ court' = [court EXCEPT ![prepared].status = "created"]
    /\ UNCHANGED <<state, prepared, files, usdc>>

(* ... and only then is remembered.                                        *)
RememberMandate ==
    /\ Does("remember", "idle")
    /\ Save([mandate |-> prepared])
    /\ UNCHANGED <<prepared, files, court, usdc>>

(* Step 3: the mandate must be on the open docket. *)
Discover ==
    /\ Does("discover", "accept")
    /\ state.mandate # None /\ court[state.mandate].status = "open"
    /\ UNCHANGED <<state, prepared, files, court, usdc>>

Accept ==
    /\ Does("accept", "accepting")
    /\ court[state.mandate].status = "open"
    /\ court' = [court EXCEPT ![state.mandate].status = "accepting"]
    /\ UNCHANGED <<state, prepared, files, usdc>>

(* waitForOperation: the operation must have completed. *)
AwaitOperation(at, from) ==
    /\ Does(at, "idle")
    /\ court[state.mandate].status \notin {at, from}
    /\ UNCHANGED <<state, prepared, files, court, usdc>>

(* Step 4: only complete records count, and the collection is refused      *)
(* without enough of them or with a source off the catalogue's domain.     *)
(* results.json is written first, then the other two files.                *)
(* Mutant: the number of records is not looked at. *)
AcceptableFewRecords(c) == c.linked /\ c.onDomain

Acceptable(c) == c.linked /\ c.kept >= Enough /\ c.onDomain

Collect(c) ==
    /\ Does("collect", "sources")
    /\ Acceptable(c)
    /\ dir' = [dir EXCEPT !.data = [at |-> @.at + 1, kept |-> c.kept,
                                    written |-> 1]]
    /\ UNCHANGED <<state, prepared, commits, pushed, court, usdc>>

WriteFile(at, then, n) ==
    /\ Does(at, then)
    /\ dir' = [dir EXCEPT !.data.written = n]
    /\ UNCHANGED <<state, prepared, commits, pushed, court, usdc>>

CountRecords ==
    /\ Does("count", "idle")
    /\ Save([count |-> dir.data.kept])
    /\ UNCHANGED <<prepared, files, court, usdc>>

----------------------------------------------------------------------------
(* Step 5: commit what the directory holds.  If nothing is new, git says   *)
(* so on stdout, which the error of execFileSync does not carry: the       *)
(* script ends there, as step 7 does. ...                                  *)
Commit ==
    /\ Does("commit", "push")
    /\ state.count # 0
    /\ commits # <<>> => commits[Len(commits)] # dir
    /\ commits' = Append(commits, dir)
    /\ UNCHANGED <<state, prepared, dir, pushed, court, usdc>>

Push(at, then) ==
    /\ Does(at, then)
    /\ pushed' = Len(commits)
    /\ UNCHANGED <<state, prepared, dir, commits, court, usdc>>

(* ... then hash what the pinned URLs serve.  A directory is not served,   *)
(* so with step 7's evidence/ in it the last file never arrives.           *)
(* Mutant: the hash of the local file. *)
ReadBackLocalFile ==
    /\ Does("read", "idle")
    /\ pushed = Len(commits) /\ commits[pushed].bundle = NoBundle
    /\ Save([published |-> [commit |-> pushed, hash |-> LocalHash(dir.data)]])
    /\ UNCHANGED <<prepared, files, court, usdc>>

ReadBack ==
    /\ Does("read", "idle")
    /\ pushed = Len(commits) /\ commits[pushed].bundle = NoBundle
    /\ Save([published |-> [commit |-> pushed, hash |-> ServedHash(pushed)]])
    /\ UNCHANGED <<prepared, files, court, usdc>>

(* Step 6: the manifest claims what the run state says. *)
Manifest == [commit |-> state.published.commit, hash |-> state.published.hash,
             count |-> state.count]

Deliver ==
    /\ Does("deliver", "delivering")
    /\ state.published # Unpublished
    /\ state.mandate # None /\ court[state.mandate].status = "active"
    /\ court' = [court EXCEPT ![state.mandate].status = "delivering",
                              ![state.mandate].manifest = Manifest]
    /\ UNCHANGED <<state, prepared, files, usdc>>

(* Step 7: the bundle needs a judgment, nothing more.  A bundle that was   *)
(* committed before stops at "nothing to commit".                          *)
WriteBundle ==
    /\ Does("bundle", "commitBundle")
    /\ state.mandate # None /\ state.published # Unpublished
    /\ court[state.mandate].status \in {"judged", "settled"}
    /\ dir' = [dir EXCEPT !.bundle = [award |-> Award(state.mandate),
                                      source |-> state.published.commit]]
    /\ UNCHANGED <<state, prepared, commits, pushed, court, usdc>>

CommitBundle ==
    /\ Does("commitBundle", "pushBundle")
    /\ commits[Len(commits)] # dir
    /\ commits' = Append(commits, dir)
    /\ UNCHANGED <<state, prepared, dir, pushed, court, usdc>>

RememberBundle ==
    /\ Does("rememberBundle", "idle")
    /\ Save([bundle |-> Len(commits)])
    /\ UNCHANGED <<prepared, files, court, usdc>>

Script ==
    \/ Fund \/ RegisterAgents
    \/ \E m \in Mandates : PrepareMandate(m)
    \/ SubmitMandate \/ RememberMandate
    \/ Discover \/ Accept \/ AwaitOperation("accepting", "open")
    \/ \E c \in Collections : Collect(c)
    \/ WriteFile("sources", "readme", 2) \/ WriteFile("readme", "count", 3)
    \/ CountRecords
    \/ Commit \/ Push("push", "read") \/ ReadBack
    \/ Deliver \/ AwaitOperation("delivering", "active")
    \/ WriteBundle \/ CommitBundle \/ Push("pushBundle", "rememberBundle")
    \/ RememberBundle

----------------------------------------------------------------------------
(* The deployed court, as far as a run sees it.  An operation whose relay  *)
(* fails leaves the mandate where it was.                                  *)
CourtStep(m, from, to) ==
    /\ court[m].status = from
    /\ court' = [court EXCEPT ![m].status = to]
    /\ UNCHANGED <<state, step, prepared, files, usdc, gate, bounds>>

LockEscrow(m) ==
    /\ court[m].status = "created" /\ usdc.principal >= Amount
    /\ court' = [court EXCEPT ![m].status = "open"]
    /\ usdc' = [usdc EXCEPT !.principal = @ - Amount, !.escrow = @ + Amount]
    /\ UNCHANGED <<state, step, prepared, files, gate, bounds>>

Blame(wrong) == /\ wrong => faults < MaxFaults
                /\ faults' = IF wrong THEN faults + 1 ELSE faults

Judge(m, bps, proven) ==
    /\ court[m].status = "delivered" /\ Blame(~proven)
    /\ court' = [court EXCEPT ![m].status = "judged", ![m].bps = bps,
                              ![m].proven = proven]
    /\ UNCHANGED <<state, step, prepared, files, usdc, gate, due, detours>>

(* The case is marked settled; this much went to the provider and back to  *)
(* the principal.                                                          *)
Settle(m, paid, refund, receipts) ==
    /\ court[m].status = "judged" /\ paid + refund <= Amount
    /\ Blame(paid # Award(m) \/ paid + refund # Amount \/ ~receipts)
    /\ court' = [court EXCEPT ![m].status = "settled", ![m].paid = paid,
                              ![m].receipts = receipts]
    /\ usdc' = [usdc EXCEPT !.escrow = @ - (paid + refund), !.provider = @ + paid,
                            !.principal = @ + refund]
    /\ UNCHANGED <<state, step, prepared, files, gate, due, detours>>

Court ==
    \E m \in Mandates :
      \/ LockEscrow(m)
      \/ CourtStep(m, "accepting", "active") \/ CourtStep(m, "accepting", "open")
      \/ CourtStep(m, "delivering", "delivered")
      \/ CourtStep(m, "delivering", "active")
      \/ \E bps \in Awards, proven \in BOOLEAN : Judge(m, bps, proven)
      \/ \E paid, refund \in 0..Amount, receipts \in BOOLEAN :
           Settle(m, paid, refund, receipts)

----------------------------------------------------------------------------
(* The gate.  Its four parts are those of verify-lifecycle.ts. *)
CaseSettled(m) == /\ court[m].status = "settled" /\ court[m].proven
                  /\ court[m].bps > 0
StagesConfirmed(m) == court[m].receipts
(* The transfers of the settlement and, no balance from before being       *)
(* saved, all the provider holds must be the award.                        *)
(* Mutant: transfer and balance are compared with each other only. *)
PaymentSeenAtBothEnds(m) == court[m].paid > 0 /\ usdc.provider = court[m].paid

PaymentProven(m) == court[m].paid = Award(m) /\ usdc.provider = Award(m)
(* Mutant: off by one. *)
EscrowTakenStrictly == usdc.principal < Funding - Amount

EscrowTaken == usdc.principal <= Funding - Amount

VerifyLifecycle ==
    /\ step = "idle" /\ state.mandate # None
    /\ gate' = IF /\ CaseSettled(state.mandate) /\ StagesConfirmed(state.mandate)
                  /\ PaymentProven(state.mandate) /\ EscrowTaken
                 THEN "pass" ELSE "fail"
    /\ UNCHANGED <<state, step, prepared, files, court, usdc, bounds>>

Next == (\E k \in 1..7 : Start(k)) \/ Stop \/ Script \/ Court \/ VerifyLifecycle

Spec == Init /\ [][Next]_vars

----------------------------------------------------------------------------
(* TypeOK: the variables have their types, and a count the run remembers   *)
(* is one that satisfies criterion C1.                                     *)
Data == [at : Nat, kept : Nat, written : 0..3]
Bytes == [side : {"local", "served"}, data : Data]

TypeOK ==
    /\ state \in [keys : BOOLEAN, mandate : Mandates \cup {None},
                  count : {0} \cup {n \in Nat : n >= Enough},
                  published : [commit : 0..Len(commits), hash : Bytes],
                  bundle : 0..Len(commits)]
    /\ prepared \in Mandates \cup {None}
    /\ dir \in [data : Data, bundle : [award : Nat, source : Nat]]
    /\ pushed \in 0..Len(commits)
    /\ \A m \in Mandates : court[m].paid + court[m].bps \in Nat
    /\ usdc \in [{"signer", "principal", "provider", "escrow"} -> Nat]
    /\ gate \in {"unrun", "pass", "fail"}
    /\ due \in 1..8 /\ detours \in 0..MaxDetours /\ faults \in 0..MaxFaults

(* ManifestServed: whatever was stopped and run again, the hash in a       *)
(* delivered manifest is of the bytes its pinned commit serves, and the    *)
(* count it claims is that commit's unless step 4 collected twice.         *)
(* (05-publish.ts, 06-deliver.ts)                                          *)
ManifestServed ==
    \A m \in Mandates : LET sent == court[m].manifest IN
        sent # Undelivered =>
          /\ sent.commit \in 1..pushed /\ sent.hash = ServedHash(sent.commit)
          /\ dir.data.at = 1 => sent.count = commits[sent.commit].data.kept

(* GateSound: when the gate passes, the mandate of the run was settled on  *)
(* a judgment of the contract that awards something, and the provider was  *)
(* paid exactly that award, in one transaction and for a delivery that is  *)
(* served.  (verify-lifecycle.ts: "A bug that marked a mandate settled     *)
(* without releasing funds would fail here.")                              *)
GateSound ==
    gate = "pass" => LET m == state.mandate IN
        /\ court[m].status = "settled" /\ court[m].proven
        /\ court[m].paid = (Amount * court[m].bps) \div 10000 /\ court[m].paid > 0
        /\ court[m].manifest.commit \in 1..pushed

(* HonestRunPasses: the gate passes a settled run with a full award and an *)
(* honest court, however often its scripts were stopped and run again, as  *)
(* long as the principal was funded once and one mandate was created.      *)
HonestRunPasses ==
    [][(/\ VerifyLifecycle /\ faults = 0 /\ usdc.signer = Treasury - Funding
        /\ Cardinality({m \in Mandates : court[m].status # "unknown"}) = 1
        /\ court[state.mandate].status = "settled"
        /\ court[state.mandate].bps = 10000)
       => gate' = "pass"]_vars

=============================================================================
