--------------------------- MODULE LiveRun_proofs ---------------------------
(***************************************************************************)
(* Proofs about LiveRun for any mandates, collections, amounts, detours    *)
(* and faults of the court.                                                *)
(***************************************************************************)
EXTENDS LiveRun, FiniteSetTheorems, TLAPS

Statuses == {"unknown", "created", "open", "accepting", "active",
             "delivering", "delivered", "judged", "settled"}
Steps == {"idle", "fund", "register", "prepare", "submit", "remember",
          "discover", "accept", "accepting", "collect", "sources", "readme", "count",
          "commit",
          "push", "read", "deliver", "delivering", "bundle", "commitBundle",
          "pushBundle", "rememberBundle"}
Accounts == {"signer", "principal", "provider", "escrow"}

Counts == {0} \cup {n \in Nat : n >= Enough}
Run == [keys : BOOLEAN, mandate : Mandates \cup {None}, count : Counts,
        published : [commit : Nat, hash : Bytes], bundle : Nat]
Tree == [data : Data, bundle : [award : Nat, source : Nat]]
Case == [status : Statuses,
         manifest : [commit : Nat, hash : Bytes, count : Nat],
         bps : Points, proven : BOOLEAN, paid : Nat, receipts : BOOLEAN]

Types ==
    /\ state \in Run
    /\ step \in Steps
    /\ prepared \in Mandates \cup {None}
    /\ dir \in Tree /\ commits \in Seq(Tree)
    /\ pushed \in 0..Len(commits) /\ state.bundle <= Len(commits)
    /\ court \in [Mandates -> Case]
    /\ usdc \in [Accounts -> Nat]
    /\ gate \in {"unrun", "pass", "fail"}
    /\ due \in 1..8 /\ detours \in 0..MaxDetours /\ faults \in 0..MaxFaults

\* What a script has made sure of before the step it is at.
StepSound ==
    /\ step = "submit" => prepared \in Mandates /\ court[prepared].status = "unknown"
    /\ step = "accept" => state.mandate # None
    /\ step \in {"sources", "readme", "count"} =>
          dir.data.at >= 1 /\ dir.data.kept >= Enough
    /\ step \in {"push", "read", "commitBundle"} => commits # <<>>
    /\ gate # "unrun" => step = "idle"

\* The gate passed with the mandate of the run.
GateOfRun == gate = "pass" => state.mandate \in Mandates

\* As long as the catalogue was collected once, the count of the run and every
\* commit agree on it.
CountSound ==
    /\ commits # <<>> \/ state.count # 0 => dir.data.at >= 1
    /\ dir.data.at = 1 =>
          /\ state.count \in {0, dir.data.kept}
          /\ commits # <<>> => state.count = dir.data.kept
          /\ \A i \in DOMAIN commits : commits[i].data.kept = dir.data.kept

\* What the run has published is served.
PublishedServed ==
    state.published # Unpublished =>
        /\ state.published.commit \in 1..pushed
        /\ state.published.hash = ServedHash(state.published.commit)

\* A case that got to a delivery has a manifest, pays when it is settled, and
\* is wrong only by a fault of the court.
CaseSound(m) ==
    /\ court[m].status \in {"delivering", "delivered", "judged", "settled"} =>
          court[m].manifest # Undelivered
    /\ court[m].bps \in Awards \cup {0}
    /\ court[m].status # "settled" => court[m].paid = 0
    /\ faults = 0 /\ court[m].status \in {"judged", "settled"} => court[m].proven
    /\ faults = 0 /\ court[m].status = "settled" =>
          court[m].receipts /\ court[m].paid = Award(m)

\* The escrow holds what it has locked, and no USDC is made or lost.
Locked == {m \in Mandates : court[m].status \notin {"unknown", "created", "settled"}}
EscrowCovers ==
    /\ IsFiniteSet(Locked) /\ usdc.escrow >= Amount * Cardinality(Locked)
    /\ usdc.signer + usdc.principal + usdc.provider + usdc.escrow = Treasury

\* The provider has what the only mandate of the run paid, if there is only one.
Known == {m \in Mandates : court[m].status # "unknown"}
ProviderHasPay ==
    /\ IsFiniteSet(Known)
    /\ \A m \in Mandates : Known \subseteq {m} => usdc.provider = court[m].paid

LiveInv ==
    /\ Types /\ StepSound /\ GateOfRun /\ CountSound /\ PublishedServed
    /\ \A m \in Mandates : CaseSound(m)
    /\ EscrowCovers /\ ProviderHasPay
    /\ ManifestServed /\ GateSound

-----------------------------------------------------------------------------
(***************************************************************************)
(* Frames: what a step leaves alone.                                       *)
(***************************************************************************)

\* The repository only grows, and what it serves stays as it is.
FilesGrow ==
    /\ pushed' \in Nat /\ pushed <= pushed'
    /\ \A i \in DOMAIN commits : commits'[i] = commits[i]
    /\ dir'.data.at = 1 /\ commits # <<>> => dir.data.at = 1

LEMMA AmountFacts ==
    /\ Amount \in Nat \ {0} /\ Funding \in Nat /\ Amount <= Funding
    /\ Treasury \in Nat
BY LiveAssumption

LEMMA FilesFacts ==
    ASSUME Types
    PROVE  /\ DOMAIN commits = 1..Len(commits) /\ Len(commits) \in Nat
           /\ pushed \in Nat /\ pushed <= Len(commits)
           /\ commits = <<>> <=> Len(commits) = 0
           /\ \A i \in 1..Len(commits) : commits[i] \in Tree
BY DEF Types

LEMMA SameFilesGrow ==
    ASSUME Types, UNCHANGED files PROVE FilesGrow
BY FilesFacts DEF files, FilesGrow

\* A manifest that is served stays served.
LEMMA ManifestsStay ==
    ASSUME LiveInv, FilesGrow,
           \A m \in Mandates : court'[m].manifest = court[m].manifest
    PROVE  ManifestServed'
<1> SUFFICES ASSUME NEW m \in Mandates, court'[m].manifest # Undelivered
             PROVE  /\ court'[m].manifest.commit \in 1..pushed'
                    /\ court'[m].manifest.hash
                          = [side |-> "served",
                             data |-> commits'[court'[m].manifest.commit].data]
                    /\ dir'.data.at = 1 =>
                          court'[m].manifest.count
                            = commits'[court'[m].manifest.commit].data.kept
  BY DEF ManifestServed, Undelivered, LocalHash, Absent, ServedHash
<1> DEFINE sent == court[m].manifest
<1>1. /\ sent.commit \in 1..pushed /\ sent.hash = ServedHash(sent.commit)
      /\ dir.data.at = 1 => sent.count = commits[sent.commit].data.kept
  BY DEF LiveInv, ManifestServed
<1>2. DOMAIN commits = 1..Len(commits) /\ pushed \in Nat /\ pushed <= Len(commits)
      /\ Len(commits) \in Nat
  BY FilesFacts DEF LiveInv
<1>3. sent.commit \in DOMAIN commits /\ commits # <<>>
  BY <1>1, <1>2
<1>4. commits'[sent.commit] = commits[sent.commit]
  BY <1>3 DEF FilesGrow
<1>5. pushed' \in Nat /\ pushed' >= pushed
  BY DEF FilesGrow
<1>6. court'[m].manifest = sent
  OBVIOUS
<1>7. sent.commit \in 1..pushed'
  BY <1>1, <1>2, <1>5
<1>8. sent.hash = [side |-> "served", data |-> commits'[sent.commit].data]
  BY <1>1, <1>4 DEF ServedHash
<1>9. dir'.data.at = 1 => sent.count = commits'[sent.commit].data.kept
  BY <1>1, <1>3, <1>4 DEF FilesGrow
<1> QED BY <1>6, <1>7, <1>8, <1>9

\* What was published stays served.
LEMMA PublishedStays ==
    ASSUME LiveInv, FilesGrow, state'.published = state.published
    PROVE  PublishedServed'
<1> SUFFICES ASSUME state.published # Unpublished
             PROVE  /\ state.published.commit \in 1..pushed'
                    /\ state.published.hash = ServedHash(state.published.commit)'
  BY DEF PublishedServed, Unpublished, LocalHash, Absent
<1>1. /\ state.published.commit \in 1..pushed
      /\ state.published.hash = ServedHash(state.published.commit)
  BY DEF LiveInv, PublishedServed
<1>2. DOMAIN commits = 1..Len(commits) /\ pushed \in Nat /\ pushed <= Len(commits)
      /\ Len(commits) \in Nat
  BY FilesFacts DEF LiveInv
<1>3. state.published.commit \in DOMAIN commits
  BY <1>1, <1>2
<1>4. commits'[state.published.commit] = commits[state.published.commit]
  BY <1>3 DEF FilesGrow
<1>5. pushed' \in Nat /\ pushed' >= pushed
  BY DEF FilesGrow
<1> QED BY <1>1, <1>2, <1>4, <1>5 DEF ServedHash

LEMMA CountStays ==
    ASSUME LiveInv, UNCHANGED files, state'.count = state.count
    PROVE  CountSound'
BY DEF LiveInv, CountSound, files

LEMMA CasesStay ==
    ASSUME LiveInv, UNCHANGED <<court, faults>>
    PROVE  \A m \in Mandates : CaseSound(m)'
BY DEF LiveInv, CaseSound, Undelivered, LocalHash, Absent, Award

LEMMA MoneyStays ==
    ASSUME LiveInv, UNCHANGED <<court, usdc>>
    PROVE  EscrowCovers' /\ ProviderHasPay'
BY DEF LiveInv, EscrowCovers, ProviderHasPay, Locked, Known

\* A step of a script that leaves court and money alone.
ScriptFrame == UNCHANGED <<court, usdc, gate, bounds>>

LEMMA ScriptStep ==
    ASSUME LiveInv, ScriptFrame, step # "idle",
           Types', StepSound', CountSound', PublishedServed', FilesGrow
    PROVE  LiveInv'
<1>1. gate' # "pass"
  BY DEF LiveInv, StepSound, ScriptFrame
<1>2. GateSound' /\ GateOfRun'
  BY <1>1 DEF GateSound, GateOfRun
<1>3. ManifestServed'
  BY ManifestsStay DEF ScriptFrame
<1>4. \A m \in Mandates : CaseSound(m)'
  BY CasesStay DEF ScriptFrame, bounds
<1>5. EscrowCovers' /\ ProviderHasPay'
  BY MoneyStays DEF ScriptFrame
<1> QED BY <1>2, <1>3, <1>4, <1>5 DEF LiveInv

-----------------------------------------------------------------------------
(***************************************************************************)
(* The scripts.                                                            *)
(***************************************************************************)

\* Saving a patch changes the fields it names.
LEMMA SaveFacts ==
    ASSUME Types, NEW patch, Save(patch)
    PROVE  /\ state' = [k \in DOMAIN state |->
                          IF k \in DOMAIN patch THEN patch[k] ELSE state[k]]
           /\ DOMAIN state = {"keys", "mandate", "count", "published", "bundle"}
BY DEF Types, Run, Save, Saved

LEMMA StartStep ==
    ASSUME LiveInv, NEW k \in 1..7, Start(k)
    PROVE  LiveInv'
<1>1. FirstStep[k] \in Steps \ {"submit", "accept", "sources", "readme",
                                "count", "push", "read", "commitBundle"}
  <2>1. k = 1 \/ k = 2 \/ k = 3 \/ k = 4 \/ k = 5 \/ k = 6 \/ k = 7
    OBVIOUS
  <2>2. /\ FirstStep[1] = "fund" /\ FirstStep[2] = "prepare"
        /\ FirstStep[3] = "discover" /\ FirstStep[4] = "collect"
        /\ FirstStep[5] = "commit" /\ FirstStep[6] = "deliver"
        /\ FirstStep[7] = "bundle"
    BY DEF FirstStep
  <2> QED BY <2>1, <2>2 DEF Steps
<1>2. /\ step' = FirstStep[k] /\ prepared' = None /\ gate' = "unrun"
      /\ UNCHANGED <<state, files, court, usdc, faults>>
  BY DEF Start
<1>3. Types'
  <2>1. due' \in 1..8 /\ detours' \in 0..MaxDetours
    <3>1. due \in 1..8 /\ detours \in 0..MaxDetours /\ MaxDetours \in Nat
      BY LiveAssumption DEF LiveInv, Types
    <3>2. CASE k = due
      BY <3>1, <3>2 DEF Start
    <3>3. CASE k # due
      BY <3>1, <3>3 DEF Start
    <3> QED BY <3>2, <3>3
  <2> QED BY <1>1, <1>2, <2>1 DEF LiveInv, Types, files
<1>4. StepSound'
  BY <1>1, <1>2 DEF StepSound
<1>5. CountSound' /\ PublishedServed' /\ ManifestServed'
  <2>1. FilesGrow
    BY <1>2, SameFilesGrow DEF LiveInv
  <2> QED BY <1>2, <2>1, CountStays, PublishedStays, ManifestsStay
<1>6. \A m \in Mandates : CaseSound(m)'
  BY <1>2, CasesStay
<1>7. EscrowCovers' /\ ProviderHasPay'
  BY <1>2, MoneyStays
<1>8. GateSound' /\ GateOfRun'
  BY <1>2 DEF GateSound, GateOfRun
<1> QED BY <1>3, <1>4, <1>5, <1>6, <1>7, <1>8 DEF LiveInv

LEMMA StopStep == ASSUME LiveInv, Stop PROVE LiveInv'
<1>1. step' = "idle" /\ ScriptFrame /\ step # "idle"
      /\ UNCHANGED <<state, prepared, files>>
  BY DEF Stop, ScriptFrame
<1>2. Types'
  BY <1>1 DEF LiveInv, Types, Steps, ScriptFrame, files, bounds
<1>3. StepSound'
  BY <1>1 DEF LiveInv, StepSound, files
<1>4. FilesGrow
  BY <1>1, SameFilesGrow DEF LiveInv
<1> QED BY <1>1, <1>2, <1>3, <1>4, CountStays, PublishedStays, ScriptStep

\* A step of a script that writes no file and moves no money.
LEMMA QuietScript ==
    ASSUME LiveInv, step # "idle", step' \in Steps, ScriptFrame, UNCHANGED files,
           state' \in Run, state'.bundle = state.bundle,
           prepared' \in Mandates \cup {None}, StepSound',
           state'.count = state.count, state'.published = state.published
    PROVE  LiveInv'
<1>1. Types'
  BY DEF LiveInv, Types, ScriptFrame, files, bounds
<1>2. FilesGrow
  BY SameFilesGrow DEF LiveInv
<1> QED BY <1>1, <1>2, CountStays, PublishedStays, ScriptStep

LEMMA RegisterStep == ASSUME LiveInv, RegisterAgents PROVE LiveInv'
<1>1. step = "register" /\ step' = "idle" /\ ScriptFrame
      /\ UNCHANGED <<prepared, files>>
  BY DEF RegisterAgents, Does, ScriptFrame
<1>2. state \in Run /\ prepared \in Mandates \cup {None}
  BY DEF LiveInv, Types
<1>3. state' = [state EXCEPT !.keys = TRUE]
  BY <1>2, SaveFacts DEF RegisterAgents, LiveInv, Run
<1>4. StepSound'
  BY <1>1 DEF StepSound
<1> QED BY <1>1, <1>2, <1>3, <1>4, QuietScript DEF Run, Steps

LEMMA PrepareStep ==
    ASSUME LiveInv, NEW m \in Mandates, PrepareMandate(m) PROVE LiveInv'
<1>1. step = "prepare" /\ step' = "submit" /\ prepared' = m /\ ScriptFrame
      /\ UNCHANGED <<state, files>> /\ court[m].status = "unknown"
  BY DEF PrepareMandate, Does, ScriptFrame
<1>2. state \in Run
  BY DEF LiveInv, Types
<1>3. StepSound'
  BY <1>1 DEF LiveInv, StepSound, ScriptFrame
<1> QED BY <1>1, <1>2, <1>3, QuietScript DEF Run, Steps

LEMMA RememberStep == ASSUME LiveInv, RememberMandate PROVE LiveInv'
<1>1. step = "remember" /\ step' = "idle" /\ ScriptFrame
      /\ UNCHANGED <<prepared, files>>
  BY DEF RememberMandate, Does, ScriptFrame
<1>2. state \in Run /\ prepared \in Mandates \cup {None}
  BY DEF LiveInv, Types
<1>3. state' = [state EXCEPT !.mandate = prepared]
  BY <1>2, SaveFacts DEF RememberMandate, LiveInv, Run
<1>4. StepSound'
  BY <1>1 DEF StepSound
<1> QED BY <1>1, <1>2, <1>3, <1>4, QuietScript DEF Run, Steps

LEMMA DiscoverStep == ASSUME LiveInv, Discover PROVE LiveInv'
<1>1. step = "discover" /\ step' = "accept" /\ ScriptFrame
      /\ UNCHANGED <<state, prepared, files>> /\ state.mandate # None
  BY DEF Discover, Does, ScriptFrame
<1>2. state \in Run /\ prepared \in Mandates \cup {None}
  BY DEF LiveInv, Types
<1>3. StepSound'
  BY <1>1 DEF LiveInv, StepSound, ScriptFrame
<1> QED BY <1>1, <1>2, <1>3, QuietScript DEF Run, Steps

LEMMA AwaitStep ==
    ASSUME LiveInv, NEW at \in {"accepting", "delivering"}, NEW from,
           AwaitOperation(at, from)
    PROVE  LiveInv'
<1>1. step = at /\ step' = "idle" /\ ScriptFrame
      /\ UNCHANGED <<state, prepared, files>>
  BY DEF AwaitOperation, Does, ScriptFrame
<1>2. state \in Run /\ prepared \in Mandates \cup {None}
  BY DEF LiveInv, Types
<1>3. StepSound'
  BY <1>1 DEF StepSound
<1> QED BY <1>1, <1>2, <1>3, QuietScript DEF Run, Steps

\* Writing a file of a collection that has enough records.
LEMMA DataWritten ==
    ASSUME LiveInv, step # "idle", step' \in {"sources", "readme", "count"},
           ScriptFrame, UNCHANGED <<state, prepared, commits, pushed>>,
           NEW data \in Data, dir' = [dir EXCEPT !.data = data],
           data.at >= dir.data.at, data.at >= 1, data.kept >= Enough,
           data.at = 1 /\ dir.data.at = 1 => data.kept = dir.data.kept
    PROVE  LiveInv'
<1>1. dir \in Tree /\ commits \in Seq(Tree) /\ state \in Run
      /\ pushed \in 0..Len(commits)
  BY DEF LiveInv, Types
<1>2. dir' \in Tree /\ dir'.data = data /\ dir.data \in Data
  BY <1>1 DEF Tree
<1>3. dir.data.at \in Nat /\ data.at \in Nat
  BY <1>2 DEF Data
<1>4. Types'
  BY <1>1, <1>2 DEF LiveInv, Types, Steps, ScriptFrame, bounds
<1>5. StepSound'
  BY <1>2 DEF LiveInv, StepSound, ScriptFrame
<1>6. CountSound'
  BY <1>1, <1>2, <1>3 DEF LiveInv, CountSound
<1>7. FilesGrow
  BY <1>1, <1>2, <1>3, FilesFacts DEF FilesGrow, LiveInv, CountSound
<1> QED BY <1>4, <1>5, <1>6, <1>7, PublishedStays, ScriptStep

LEMMA CollectStep ==
    ASSUME LiveInv, NEW c \in Collections, Collect(c) PROVE LiveInv'
<1> DEFINE data == [at |-> dir.data.at + 1, kept |-> c.kept, written |-> 1]
<1>1. /\ step = "collect" /\ step' = "sources" /\ ScriptFrame
      /\ UNCHANGED <<state, prepared, commits, pushed>>
      /\ dir' = [dir EXCEPT !.data = data]
      /\ c.kept \in Nat /\ c.kept >= Enough
  BY LiveAssumption DEF Collect, Does, ScriptFrame, Acceptable
<1>2. dir.data.at \in Nat
  BY DEF LiveInv, Types, Tree, Data
<1>3. /\ data \in Data /\ data.kept = c.kept
      /\ data.at = dir.data.at + 1
  BY <1>1, <1>2 DEF Data
<1> HIDE DEF data
<1>4. data.at >= dir.data.at /\ data.at >= 1
      /\ ~(data.at = 1 /\ dir.data.at = 1)
  BY <1>2, <1>3
<1> QED BY <1>1, <1>3, <1>4, DataWritten

LEMMA WriteFileStep ==
    ASSUME LiveInv, NEW at \in {"sources", "readme"},
           NEW then \in {"readme", "count"}, NEW n \in 1..3,
           WriteFile(at, then, n)
    PROVE  LiveInv'
<1> DEFINE data == [dir.data EXCEPT !.written = n]
<1>1. /\ step = at /\ step' = then /\ ScriptFrame
      /\ UNCHANGED <<state, prepared, commits, pushed>>
      /\ dir' = [dir EXCEPT !.data = data]
  BY DEF WriteFile, Does, ScriptFrame
<1>2. dir.data \in Data /\ dir.data.at >= 1 /\ dir.data.kept >= Enough
  BY <1>1 DEF LiveInv, Types, Tree, StepSound
<1>3. /\ data \in Data /\ data.kept = dir.data.kept
      /\ data.at = dir.data.at /\ dir.data.at \in Nat
  BY <1>2 DEF Data
<1> HIDE DEF data
<1> QED BY <1>1, <1>2, <1>3, DataWritten

LEMMA CountStep == ASSUME LiveInv, CountRecords PROVE LiveInv'
<1>1. step = "count" /\ step' = "idle" /\ ScriptFrame
      /\ UNCHANGED <<prepared, files>>
  BY DEF CountRecords, Does, ScriptFrame
<1>2. state \in Run /\ prepared \in Mandates \cup {None} /\ dir \in Tree
  BY DEF LiveInv, Types
<1>3. state' = [state EXCEPT !.count = dir.data.kept]
  BY <1>2, SaveFacts DEF CountRecords, LiveInv, Run
<1>4. dir.data.at >= 1 /\ dir.data.kept \in Counts
  BY <1>1, <1>2 DEF LiveInv, StepSound, Tree, Data, Counts
<1>5. Types'
  BY <1>1, <1>2, <1>3, <1>4 DEF LiveInv, Types, Run, Steps, ScriptFrame, files, bounds
<1>6. StepSound'
  BY <1>1 DEF StepSound
<1>7. CountSound'
  BY <1>1, <1>2, <1>3, <1>4 DEF LiveInv, CountSound, files, Run
<1>8. FilesGrow
  BY <1>1, SameFilesGrow DEF LiveInv
<1>9. state'.published = state.published
  BY <1>2, <1>3 DEF Run
<1> QED BY <1>1, <1>5, <1>6, <1>7, <1>8, <1>9, PublishedStays, ScriptStep

-----------------------------------------------------------------------------
(***************************************************************************)
(* The repository.                                                         *)
(***************************************************************************)

\* A commit adds the directory at the end.
LEMMA CommitGrows ==
    ASSUME NEW S, NEW old \in Seq(S), NEW tree \in S, NEW new,
           new = Append(old, tree)
    PROVE  /\ new \in Seq(S) /\ new # <<>>
           /\ Len(old) <= Len(new) /\ Len(new) \in Nat
           /\ \A i \in DOMAIN old : new[i] = old[i]
           /\ \A i \in DOMAIN new : new[i] = tree \/ i \in DOMAIN old
<1>1. /\ new \in Seq(S) /\ Len(new) = Len(old) + 1
      /\ DOMAIN new = 1..(Len(old) + 1)
      /\ new[Len(old) + 1] = tree
      /\ \A i \in 1..Len(old) : new[i] = old[i]
  OBVIOUS
<1>2. new # <<>>
  BY <1>1
<1> QED BY <1>1, <1>2

\* Committing the directory, when the count of the run is of its data.
LEMMA CommitsKeep ==
    ASSUME LiveInv, step # "idle", step' \in {"push", "pushBundle"}, ScriptFrame,
           UNCHANGED <<state, prepared, dir, pushed>>,
           commits' = Append(commits, dir),
           commits # <<>> \/ state.count # 0
    PROVE  LiveInv'
<1>1. /\ commits' \in Seq(Tree) /\ commits' # <<>>
      /\ Len(commits) <= Len(commits') /\ Len(commits') \in Nat
      /\ \A i \in DOMAIN commits : commits'[i] = commits[i]
      /\ \A i \in DOMAIN commits' : commits'[i] = dir \/ i \in DOMAIN commits
  BY CommitGrows DEF LiveInv, Types
<1>2. Len(commits) \in Nat /\ pushed \in 0..Len(commits) /\ state \in Run
  BY FilesFacts DEF LiveInv, Types
<1>3. state.bundle <= Len(commits) /\ state.bundle \in Nat
  BY DEF LiveInv, Types, Run
<1>0. pushed' = pushed /\ state' = state /\ dir' = dir
  OBVIOUS
<1>4. pushed' \in 0..Len(commits') /\ state'.bundle <= Len(commits')
  BY <1>0, <1>1, <1>2, <1>3
<1>5. Types'
  BY <1>1, <1>4 DEF LiveInv, Types, Steps, ScriptFrame, bounds
<1>6. StepSound'
  BY <1>1 DEF LiveInv, StepSound, ScriptFrame
<1>7. dir.data.at >= 1
  BY DEF LiveInv, CountSound
<1>8. dir.data.at = 1 => state.count = dir.data.kept
  BY DEF LiveInv, CountSound
<1>9. ASSUME dir.data.at = 1, NEW i \in DOMAIN commits'
      PROVE  commits'[i].data.kept = dir.data.kept
  BY <1>1, <1>9 DEF LiveInv, CountSound
<1>10. CountSound'
  BY <1>7, <1>8, <1>9 DEF CountSound
<1>11. FilesGrow
  <2>1. pushed' \in Nat /\ pushed <= pushed'
    BY <1>0, <1>2
  <2>2. dir'.data.at = 1 /\ commits # <<>> => dir.data.at = 1
    BY <1>0
  <2> QED BY <1>1, <2>1, <2>2 DEF FilesGrow
<1> QED BY <1>5, <1>6, <1>10, <1>11, PublishedStays, ScriptStep

LEMMA CommitStep == ASSUME LiveInv, Commit PROVE LiveInv'
<1>1. /\ step = "commit" /\ step' = "push" /\ ScriptFrame /\ state.count # 0
      /\ UNCHANGED <<state, prepared, dir, pushed>>
      /\ commits' = Append(commits, dir)
  BY DEF Commit, Does, ScriptFrame
<1> QED BY <1>1, CommitsKeep

LEMMA CommitBundleStep == ASSUME LiveInv, CommitBundle PROVE LiveInv'
<1>1. /\ step = "commitBundle" /\ step' = "pushBundle" /\ ScriptFrame
      /\ UNCHANGED <<state, prepared, dir, pushed>>
      /\ commits' = Append(commits, dir)
  BY DEF CommitBundle, Does, ScriptFrame
<1>2. commits # <<>>
  BY <1>1 DEF LiveInv, StepSound
<1> QED BY <1>1, <1>2, CommitsKeep

LEMMA PushStep ==
    ASSUME LiveInv, NEW at, NEW then, Push(at, then),
           \/ at = "push" /\ then = "read"
           \/ at = "pushBundle" /\ then = "rememberBundle"
    PROVE  LiveInv'
<1>1. /\ step = at /\ step' = then /\ ScriptFrame
      /\ UNCHANGED <<state, prepared, dir, commits>> /\ pushed' = Len(commits)
  BY DEF Push, Does, ScriptFrame
<1>2. \/ at = "push" /\ then = "read"
      \/ at = "pushBundle" /\ then = "rememberBundle"
  OBVIOUS
<1>3. Len(commits) \in Nat /\ pushed \in Nat /\ pushed <= Len(commits)
  BY FilesFacts DEF LiveInv
<1>4. Types'
  <2>1. step' \in Steps
    BY <1>1, <1>2 DEF Steps
  <2>2. pushed' \in 0..Len(commits)
    BY <1>1, <1>3
  <2> QED BY <1>1, <2>1, <2>2 DEF LiveInv, Types, ScriptFrame, bounds
<1>5. StepSound'
  BY <1>1, <1>2 DEF LiveInv, StepSound, ScriptFrame
<1>6. CountSound'
  BY <1>1 DEF LiveInv, CountSound
<1>7. FilesGrow
  BY <1>1, <1>3 DEF FilesGrow
<1>8. step # "idle"
  BY <1>1, <1>2
<1> QED BY <1>1, <1>4, <1>5, <1>6, <1>7, <1>8, PublishedStays, ScriptStep

LEMMA ReadBackStep == ASSUME LiveInv, ReadBack PROVE LiveInv'
<1>1. step = "read" /\ step' = "idle" /\ ScriptFrame
      /\ UNCHANGED <<prepared, files>> /\ pushed = Len(commits)
  BY DEF ReadBack, Does, ScriptFrame
<1>2. state \in Run /\ prepared \in Mandates \cup {None}
  BY DEF LiveInv, Types
<1>3. state' = [state EXCEPT !.published =
                   [commit |-> pushed, hash |-> ServedHash(pushed)]]
  BY <1>2, SaveFacts DEF ReadBack, LiveInv, Run
<1>4. commits # <<>>
  BY <1>1 DEF LiveInv, StepSound
<1>5. pushed \in 1..Len(commits) /\ pushed \in Nat
  BY <1>1, <1>4, FilesFacts DEF LiveInv
<1>6. ServedHash(pushed) \in Bytes
  <2>1. commits[pushed] \in Tree
    BY <1>5, FilesFacts DEF LiveInv
  <2> QED BY <2>1 DEF ServedHash, Bytes, Tree
<1>7. state'.published = [commit |-> pushed, hash |-> ServedHash(pushed)]
      /\ state'.bundle = state.bundle /\ state'.count = state.count
      /\ state' \in Run
  BY <1>2, <1>3, <1>5, <1>6 DEF Run
<1>8. Types'
  BY <1>1, <1>7 DEF LiveInv, Types, Steps, ScriptFrame, files, bounds
<1>9. StepSound'
  BY <1>1 DEF StepSound
<1>10. PublishedServed'
  BY <1>1, <1>5, <1>7 DEF PublishedServed, ServedHash, files
<1>11. FilesGrow
  BY <1>1, SameFilesGrow DEF LiveInv
<1> QED BY <1>1, <1>7, <1>8, <1>9, <1>10, <1>11, CountStays, ScriptStep

\* An award is a natural number.
LEMMA AwardNat ==
    ASSUME Types, NEW m \in Mandates
    PROVE  Award(m) \in Nat
<1>1. court[m].bps \in Nat /\ Amount \in Nat
  <2>1. court[m] \in Case
    BY DEF Types
  <2>2. court[m].bps \in Points
    BY <2>1 DEF Case
  <2>3. Points \subseteq Nat
    BY DEF Points
  <2> QED BY <2>2, <2>3, AmountFacts
<1>2. Amount * court[m].bps \in Nat
  BY <1>1
<1> QED BY <1>2 DEF Award

LEMMA WriteBundleStep == ASSUME LiveInv, WriteBundle PROVE LiveInv'
<1> DEFINE bundle == [award |-> Award(state.mandate),
                      source |-> state.published.commit]
<1>1. /\ step = "bundle" /\ step' = "commitBundle" /\ ScriptFrame
      /\ UNCHANGED <<state, prepared, commits, pushed>>
      /\ dir' = [dir EXCEPT !.bundle = bundle]
      /\ state.mandate # None /\ state.published # Unpublished
  BY DEF WriteBundle, Does, ScriptFrame
<1>2. state \in Run /\ dir \in Tree
  BY DEF LiveInv, Types
<1>3. bundle \in [award : Nat, source : Nat]
  <2>1. state.mandate \in Mandates /\ state.published.commit \in Nat
    BY <1>1, <1>2 DEF Run
  <2> QED BY <2>1, AwardNat DEF LiveInv
<1> HIDE DEF bundle
<1>4. dir' \in Tree /\ dir'.data = dir.data
  BY <1>1, <1>2, <1>3 DEF Tree
<1>5. commits # <<>>
  <2>1. state.published.commit \in 1..pushed
    BY <1>1 DEF LiveInv, PublishedServed
  <2> QED BY <2>1, FilesFacts DEF LiveInv
<1>6. Types'
  BY <1>1, <1>4 DEF LiveInv, Types, Steps, ScriptFrame, bounds
<1>7. StepSound'
  BY <1>1, <1>5 DEF LiveInv, StepSound, ScriptFrame
<1>8. CountSound'
  BY <1>1, <1>4 DEF LiveInv, CountSound
<1>9. FilesGrow
  BY <1>1, <1>4, FilesFacts DEF FilesGrow, LiveInv
<1> QED BY <1>1, <1>6, <1>7, <1>8, <1>9, PublishedStays, ScriptStep

LEMMA RememberBundleStep == ASSUME LiveInv, RememberBundle PROVE LiveInv'
<1>1. step = "rememberBundle" /\ step' = "idle" /\ ScriptFrame
      /\ UNCHANGED <<prepared, files>>
  BY DEF RememberBundle, Does, ScriptFrame
<1>2. state \in Run /\ prepared \in Mandates \cup {None} /\ Len(commits) \in Nat
  BY FilesFacts DEF LiveInv, Types
<1>3. state' = [state EXCEPT !.bundle = Len(commits)]
  BY <1>2, SaveFacts DEF RememberBundle, LiveInv, Run
<1>4. state' \in Run /\ state'.bundle = Len(commits)
      /\ state'.count = state.count /\ state'.published = state.published
  BY <1>2, <1>3 DEF Run
<1>5. Types'
  BY <1>1, <1>2, <1>4 DEF LiveInv, Types, Steps, ScriptFrame, files, bounds
<1>6. StepSound'
  BY <1>1 DEF StepSound
<1>7. FilesGrow
  BY <1>1, SameFilesGrow DEF LiveInv
<1> QED BY <1>1, <1>4, <1>5, <1>6, <1>7, CountStays, PublishedStays, ScriptStep

-----------------------------------------------------------------------------
(***************************************************************************)
(* The case and the money.                                                 *)
(***************************************************************************)

\* A step changes the case of one mandate.
Changes(m, c) == court' = [court EXCEPT ![m] = c]

LEMMA OneCase ==
    ASSUME Types, NEW m \in Mandates, NEW c \in Case, Changes(m, c)
    PROVE  /\ court' \in [Mandates -> Case] /\ court'[m] = c
           /\ \A n \in Mandates \ {m} : court'[n] = court[n]
BY DEF Types, Changes

LEMMA StatusCase ==
    ASSUME Types, NEW m \in Mandates, NEW to \in Statuses
    PROVE  LET c == [court[m] EXCEPT !.status = to] IN
           /\ c \in Case /\ c.status = to /\ c.manifest = court[m].manifest
           /\ c.bps = court[m].bps /\ c.proven = court[m].proven
           /\ c.paid = court[m].paid /\ c.receipts = court[m].receipts
<1>1. court[m] \in Case
  BY DEF Types
<1> QED BY <1>1 DEF Case

\* An award depends on the judgment alone.
LEMMA SameAward ==
    ASSUME NEW m, court'[m].bps = court[m].bps PROVE Award(m)' = Award(m)
BY DEF Award

\* What holds of a case moved on by the court or a script.
LEMMA MovedCase ==
    ASSUME LiveInv, NEW m \in Mandates, NEW to \in Statuses \ {"settled"},
           Changes(m, [court[m] EXCEPT !.status = to]), faults' = faults,
           court[m].status # "settled", to = "judged" => court[m].status = "judged",
           to \in {"delivering", "delivered", "judged"} =>
              court[m].status \in {"delivering", "delivered", "judged"}
    PROVE  CaseSound(m)'
<1> DEFINE c == [court[m] EXCEPT !.status = to]
<1>1. /\ c \in Case /\ c.status = to /\ c.manifest = court[m].manifest
      /\ c.bps = court[m].bps /\ c.proven = court[m].proven
      /\ c.paid = court[m].paid /\ c.receipts = court[m].receipts
  BY StatusCase DEF LiveInv
<1>2. court'[m] = c
  BY <1>1, OneCase DEF LiveInv
<1> HIDE DEF c
<1>3. CaseSound(m)
  BY DEF LiveInv
<1> QED BY <1>1, <1>2, <1>3 DEF CaseSound, Undelivered, LocalHash, Absent

\* Cases of which the escrow holds the money.
Outside == {"unknown", "created", "settled"}

LEMMA MoneyUntouched ==
    ASSUME LiveInv, NEW m \in Mandates, NEW c \in Case, Changes(m, c),
           court[m].status \notin Outside, c.status \notin Outside,
           c.paid = court[m].paid, usdc' = usdc
    PROVE  EscrowCovers' /\ ProviderHasPay'
<1>1. court'[m] = c /\ \A n \in Mandates \ {m} : court'[n] = court[n]
  BY OneCase DEF LiveInv
<1>2. Locked' = Locked /\ Known' = Known
  BY <1>1 DEF Locked, Known, Outside
<1>3. \A n \in Mandates : court'[n].paid = court[n].paid
  BY <1>1
<1>4. EscrowCovers'
  BY <1>2 DEF LiveInv, EscrowCovers
<1>5. ProviderHasPay'
  BY <1>2, <1>3 DEF LiveInv, ProviderHasPay
<1> QED BY <1>4, <1>5

\* A step of a script on one case.
LEMMA CaseScript ==
    ASSUME LiveInv, step # "idle", step' \in Steps,
           UNCHANGED <<state, prepared, files, usdc, gate, bounds>>,
           NEW m \in Mandates, NEW c \in Case, Changes(m, c),
           StepSound', CaseSound(m)', ManifestServed', EscrowCovers', ProviderHasPay'
    PROVE  LiveInv'
<1>1. court' \in [Mandates -> Case] /\ court'[m] = c
      /\ \A n \in Mandates \ {m} : court'[n] = court[n]
  BY OneCase DEF LiveInv
<1>2. Types'
  BY <1>1 DEF LiveInv, Types, files, bounds
<1>3. FilesGrow
  BY SameFilesGrow DEF LiveInv
<1>4. gate' # "pass"
  BY DEF LiveInv, StepSound
<1>5. GateSound' /\ GateOfRun'
  BY <1>4 DEF GateSound, GateOfRun
<1>6. ASSUME NEW n \in Mandates PROVE CaseSound(n)'
  <2>1. CASE n = m
    BY <2>1
  <2>2. CASE n # m
    <3>1. court'[n] = court[n] /\ CaseSound(n) /\ faults' = faults
      BY <1>1, <2>2 DEF LiveInv, bounds
    <3> QED BY <3>1, SameAward DEF CaseSound, Undelivered, LocalHash, Absent
  <2> QED BY <2>1, <2>2
<1>7. CountSound' /\ PublishedServed'
  BY <1>3, CountStays, PublishedStays
<1> QED BY <1>2, <1>5, <1>6, <1>7 DEF LiveInv

LEMMA SubmitStep == ASSUME LiveInv, SubmitMandate PROVE LiveInv'
<1> DEFINE m == prepared
           c == [court[m] EXCEPT !.status = "created"]
<1>1. step = "submit" /\ step' = "remember" /\ Changes(m, c)
      /\ UNCHANGED <<state, prepared, files, usdc, gate, bounds>>
  BY DEF SubmitMandate, Does, Changes
<1>2. m \in Mandates /\ court[m].status = "unknown"
  BY <1>1 DEF LiveInv, StepSound
<1>3. /\ c \in Case /\ c.status = "created" /\ c.manifest = court[m].manifest
      /\ c.paid = court[m].paid
  BY <1>2, StatusCase DEF LiveInv, Statuses
<1>4. court'[m] = c /\ \A n \in Mandates \ {m} : court'[n] = court[n]
  BY <1>1, <1>2, <1>3, OneCase DEF LiveInv
<1>5. StepSound'
  BY <1>1 DEF LiveInv, StepSound
<1>6. CaseSound(m)'
  BY <1>1, <1>2, MovedCase DEF Statuses, bounds
<1> HIDE DEF c
<1>7. ManifestServed'
  <2>1. \A n \in Mandates : court'[n].manifest = court[n].manifest
    BY <1>3, <1>4
  <2>2. FilesGrow
    BY <1>1, SameFilesGrow DEF LiveInv
  <2> QED BY <2>1, <2>2, ManifestsStay
<1>8. EscrowCovers'
  <2>1. Locked' = Locked
    BY <1>2, <1>3, <1>4 DEF Locked
  <2> QED BY <1>1, <2>1 DEF LiveInv, EscrowCovers
<1>9. ProviderHasPay'
  <2>1. Known' = Known \cup {m}
    BY <1>2, <1>3, <1>4 DEF Known
  <2>2. IsFiniteSet(Known')
    BY <2>1, FS_AddElement DEF LiveInv, ProviderHasPay
  <2>3. ASSUME NEW n \in Mandates, Known' \subseteq {n}
        PROVE  usdc'.provider = court'[n].paid
    <3>1. n = m /\ Known \subseteq {n}
      BY <2>1, <2>3
    <3>2. usdc.provider = court[m].paid
      BY <1>2, <3>1 DEF LiveInv, ProviderHasPay
    <3> QED BY <1>1, <1>3, <1>4, <3>1, <3>2
  <2> QED BY <2>2, <2>3 DEF ProviderHasPay
<1> QED BY <1>1, <1>2, <1>3, <1>5, <1>6, <1>7, <1>8, <1>9, CaseScript DEF Steps

LEMMA AcceptStep == ASSUME LiveInv, Accept PROVE LiveInv'
<1> DEFINE m == state.mandate
           c == [court[m] EXCEPT !.status = "accepting"]
<1>1. step = "accept" /\ step' = "accepting" /\ Changes(m, c)
      /\ UNCHANGED <<state, prepared, files, usdc, gate, bounds>>
      /\ court[m].status = "open"
  BY DEF Accept, Does, Changes
<1>2. m \in Mandates
  BY <1>1 DEF LiveInv, Types, Run, StepSound
<1>3. /\ c \in Case /\ c.status = "accepting" /\ c.manifest = court[m].manifest
      /\ c.paid = court[m].paid
  BY <1>2, StatusCase DEF LiveInv, Statuses
<1>4. court'[m] = c /\ \A n \in Mandates \ {m} : court'[n] = court[n]
  BY <1>1, <1>2, <1>3, OneCase DEF LiveInv
<1>5. StepSound'
  BY <1>1 DEF LiveInv, StepSound
<1>6. CaseSound(m)'
  BY <1>1, <1>2, MovedCase DEF Statuses, bounds
<1> HIDE DEF c
<1>7. ManifestServed'
  <2>1. \A n \in Mandates : court'[n].manifest = court[n].manifest
    BY <1>3, <1>4
  <2>2. FilesGrow
    BY <1>1, SameFilesGrow DEF LiveInv
  <2> QED BY <2>1, <2>2, ManifestsStay
<1>8. EscrowCovers' /\ ProviderHasPay'
  BY <1>1, <1>2, <1>3, MoneyUntouched DEF Outside
<1> QED BY <1>1, <1>2, <1>3, <1>5, <1>6, <1>7, <1>8, CaseScript DEF Steps

LEMMA DeliverStep == ASSUME LiveInv, Deliver PROVE LiveInv'
<1> DEFINE m == state.mandate
           c == [court[m] EXCEPT !.status = "delivering", !.manifest = Manifest]
<1>1. step = "deliver" /\ step' = "delivering"
      /\ UNCHANGED <<state, prepared, files, usdc, gate, bounds>>
      /\ m # None /\ court[m].status = "active" /\ state.published # Unpublished
      /\ court' = [court EXCEPT ![m].status = "delivering", ![m].manifest = Manifest]
  BY DEF Deliver, Does
<1>2. m \in Mandates /\ state \in Run /\ court \in [Mandates -> Case]
  BY <1>1 DEF LiveInv, Types, Run
<1>3. court[m] \in Case
  BY <1>2
<1>4. Manifest \in [commit : Nat, hash : Bytes, count : Nat]
      /\ Manifest.commit = state.published.commit
      /\ Manifest.hash = state.published.hash /\ Manifest.count = state.count
  BY <1>2 DEF Run, Counts, Manifest
<1>5. /\ c \in Case /\ c.status = "delivering" /\ c.manifest = Manifest
      /\ c.paid = court[m].paid /\ c.bps = court[m].bps
  BY <1>3, <1>4 DEF Case, Statuses
<1>6. Changes(m, c)
  BY <1>1, <1>2, <1>3 DEF Changes, Case
<1> HIDE DEF c
<1>7. court'[m] = c /\ \A n \in Mandates \ {m} : court'[n] = court[n]
  BY <1>2, <1>5, <1>6, OneCase DEF LiveInv
<1>8. StepSound'
  BY <1>1 DEF LiveInv, StepSound
<1>9. /\ state.published.commit \in 1..pushed
      /\ state.published.hash = ServedHash(state.published.commit)
  BY <1>1 DEF LiveInv, PublishedServed
<1>10. state.published.commit \in DOMAIN commits /\ commits # <<>>
       /\ state.published.commit # 0
  BY <1>9, FilesFacts DEF LiveInv
<1>11. CaseSound(m)'
  <2>1. court'[m].manifest # Undelivered
    BY <1>4, <1>5, <1>7, <1>10 DEF Undelivered
  <2>2. Undelivered' = Undelivered
    BY DEF Undelivered, LocalHash, Absent
  <2> QED BY <1>1, <1>2, <1>5, <1>7, <2>1, <2>2 DEF LiveInv, CaseSound
<1>12. ManifestServed'
  <2> SUFFICES ASSUME NEW n \in Mandates, court'[n].manifest # Undelivered
               PROVE  LET sent == court'[n].manifest IN
                      /\ sent.commit \in 1..pushed
                      /\ sent.hash = ServedHash(sent.commit)
                      /\ dir.data.at = 1
                            => sent.count = commits[sent.commit].data.kept
    BY <1>1 DEF ManifestServed, Undelivered, LocalHash, Absent, ServedHash, files
  <2>1. CASE n # m
    BY <1>7, <2>1 DEF LiveInv, ManifestServed
  <2>2. CASE n = m
    <3>1. dir.data.at = 1 => state.count = commits[state.published.commit].data.kept
      BY <1>10 DEF LiveInv, CountSound
    <3>2. court'[n].manifest = Manifest
      BY <1>5, <1>7, <2>2
    <3> QED BY <1>4, <1>9, <3>1, <3>2
  <2> QED BY <2>1, <2>2
<1>13. EscrowCovers' /\ ProviderHasPay'
  BY <1>1, <1>2, <1>5, <1>6, MoneyUntouched DEF Outside
<1> QED BY <1>1, <1>2, <1>5, <1>6, <1>8, <1>11, <1>12, <1>13, CaseScript DEF Steps

\* A transfer leaves natural balances if the new ones are.
LEMMA Transfer ==
    ASSUME NEW balance \in [Accounts -> Nat], NEW x \in Nat, NEW y \in Nat
    PROVE  /\ [balance EXCEPT !.signer = x, !.principal = y] \in [Accounts -> Nat]
           /\ [balance EXCEPT !.principal = x, !.escrow = y] \in [Accounts -> Nat]
           /\ \A z \in Nat : [balance EXCEPT !.escrow = x, !.provider = y,
                                            !.principal = z] \in [Accounts -> Nat]
BY DEF Accounts

\* The principal is funded: no USDC is made.
LEMMA FundStep == ASSUME LiveInv, Fund PROVE LiveInv'
<1>1. step = "fund" /\ step' = "register"
      /\ UNCHANGED <<state, prepared, files, court, gate, bounds>>
  BY DEF Fund, Does
<1>2. usdc \in [Accounts -> Nat]
  BY DEF LiveInv, Types
<1>3. /\ usdc' \in [Accounts -> Nat]
      /\ usdc'.escrow = usdc.escrow /\ usdc'.provider = usdc.provider
      /\ usdc'.signer + usdc'.principal = usdc.signer + usdc.principal
  <2>1. CASE usdc.principal < Amount
    <3>1. usdc.signer >= Funding
          /\ usdc' = [usdc EXCEPT !.signer = @ - Funding, !.principal = @ + Funding]
      BY <2>1 DEF Fund
    <3>2. usdc.signer \in Nat /\ usdc.principal \in Nat /\ Funding \in Nat
      BY <1>2, AmountFacts DEF Accounts
    <3>3. /\ usdc'.signer = usdc.signer - Funding
          /\ usdc'.principal = usdc.principal + Funding
          /\ usdc'.escrow = usdc.escrow /\ usdc'.provider = usdc.provider
          /\ DOMAIN usdc' = Accounts
      BY <1>2, <3>1 DEF Accounts
    <3>4. usdc.signer - Funding \in Nat
      BY <3>1, <3>2
    <3>5. usdc' \in [Accounts -> Nat]
      <4>1. usdc.principal + Funding \in Nat
        BY <3>2
      <4> QED BY <1>2, <3>1, <3>4, <4>1, Transfer
    <3> QED BY <3>2, <3>3, <3>5
  <2>2. CASE ~(usdc.principal < Amount)
    BY <1>2, <2>2 DEF Fund
  <2> QED BY <2>1, <2>2
<1>4. Types'
  BY <1>1, <1>3 DEF LiveInv, Types, Steps, files, bounds
<1>5. StepSound'
  BY <1>1 DEF LiveInv, StepSound
<1>6. CountSound' /\ PublishedServed' /\ ManifestServed'
  <2>1. FilesGrow
    BY <1>1, SameFilesGrow DEF LiveInv
  <2> QED BY <1>1, <2>1, CountStays, PublishedStays, ManifestsStay
<1>7. \A m \in Mandates : CaseSound(m)'
  BY <1>1, CasesStay DEF bounds
<1>8. EscrowCovers' /\ ProviderHasPay'
  <2>1. Locked' = Locked /\ Known' = Known
    BY <1>1 DEF Locked, Known
  <2>2. /\ usdc.signer \in Nat /\ usdc.principal \in Nat
        /\ usdc.provider \in Nat /\ usdc.escrow \in Nat
        /\ usdc'.signer \in Nat /\ usdc'.principal \in Nat
    BY <1>2, <1>3 DEF Accounts
  <2>3. usdc'.signer + usdc'.principal + usdc'.provider + usdc'.escrow = Treasury
    BY <1>3, <2>2 DEF LiveInv, EscrowCovers
  <2>4. EscrowCovers'
    BY <1>3, <2>1, <2>3 DEF LiveInv, EscrowCovers
  <2>5. ProviderHasPay'
    BY <1>1, <1>3, <2>1 DEF LiveInv, ProviderHasPay
  <2> QED BY <2>4, <2>5
<1>9. GateSound' /\ GateOfRun'
  BY <1>1 DEF LiveInv, StepSound, GateSound, GateOfRun
<1> QED BY <1>4, <1>5, <1>6, <1>7, <1>8, <1>9 DEF LiveInv

-----------------------------------------------------------------------------
(***************************************************************************)
(* The court.                                                              *)
(***************************************************************************)

\* A step of the court on one case that is not settled yet.
CourtFrame == UNCHANGED <<state, step, prepared, files, gate, due, detours>>

LEMMA CourtMoves ==
    ASSUME LiveInv, CourtFrame, NEW m \in Mandates, NEW c \in Case, Changes(m, c),
           court[m].status \notin {"unknown", "settled"},
           c.manifest = court[m].manifest,
           usdc' \in [Accounts -> Nat],
           faults' \in 0..MaxFaults, faults' = 0 => faults = 0,
           CaseSound(m)', EscrowCovers', ProviderHasPay'
    PROVE  LiveInv'
<1>1. court' \in [Mandates -> Case] /\ court'[m] = c
      /\ \A n \in Mandates \ {m} : court'[n] = court[n]
  BY OneCase DEF LiveInv
<1>2. Types'
  BY <1>1 DEF LiveInv, Types, CourtFrame, files
<1>3. StepSound'
  BY <1>1 DEF LiveInv, StepSound, CourtFrame, files
<1>4. FilesGrow
  BY SameFilesGrow DEF LiveInv, CourtFrame
<1>5. CountSound' /\ PublishedServed'
  BY <1>4, CountStays, PublishedStays DEF CourtFrame
<1>6. ASSUME NEW n \in Mandates PROVE CaseSound(n)'
  <2>1. CASE n = m
    BY <2>1
  <2>2. CASE n # m
    <3>1. court'[n] = court[n] /\ CaseSound(n)
      BY <1>1, <2>2 DEF LiveInv
    <3> QED BY <3>1, SameAward DEF CaseSound, Undelivered, LocalHash, Absent
  <2> QED BY <2>1, <2>2
<1>7. ManifestServed'
  <2>1. \A n \in Mandates : court'[n].manifest = court[n].manifest
    BY <1>1
  <2> QED BY <1>4, <2>1, ManifestsStay
<1>8. GateSound' /\ GateOfRun'
  <2> SUFFICES ASSUME gate = "pass"
               PROVE  /\ state.mandate \in Mandates
                      /\ court'[state.mandate] = court[state.mandate]
                      /\ GateSound /\ pushed' = pushed /\ state' = state
    BY DEF GateSound, GateOfRun, CourtFrame
  <2>1. state.mandate \in Mandates /\ GateSound
    BY DEF LiveInv, GateOfRun
  <2>2. state.mandate # m
    BY <2>1 DEF GateSound
  <2> QED BY <1>1, <2>1, <2>2 DEF CourtFrame, files
<1> QED BY <1>2, <1>3, <1>5, <1>6, <1>7, <1>8 DEF LiveInv

LEMMA CourtStepStep ==
    ASSUME LiveInv, NEW m \in Mandates, NEW from, NEW to, CourtStep(m, from, to),
           \/ from = "accepting" /\ to \in {"active", "open"}
           \/ from = "delivering" /\ to \in {"delivered", "active"}
    PROVE  LiveInv'
<1> DEFINE c == [court[m] EXCEPT !.status = to]
<1>1. CourtFrame /\ faults' = faults /\ usdc' = usdc /\ Changes(m, c)
      /\ court[m].status = from
  BY DEF CourtStep, CourtFrame, Changes, bounds
<1>2. to \in Statuses \ {"settled"} /\ to # "judged" /\ from # "settled"
      /\ from \notin Outside /\ to \notin Outside /\ from # "unknown"
      /\ (to = "delivered" => from = "delivering") /\ to # "delivering"
  BY DEF Statuses, Outside
<1>3. /\ c \in Case /\ c.status = to /\ c.manifest = court[m].manifest
      /\ c.paid = court[m].paid
  BY <1>2, StatusCase DEF LiveInv
<1>4. CaseSound(m)'
  BY <1>1, <1>2, MovedCase
<1> HIDE DEF c
<1>5. EscrowCovers' /\ ProviderHasPay'
  BY <1>1, <1>2, <1>3, MoneyUntouched
<1>6. usdc' \in [Accounts -> Nat] /\ faults' \in 0..MaxFaults
  BY <1>1 DEF LiveInv, Types
<1> QED BY <1>1, <1>2, <1>3, <1>4, <1>5, <1>6, CourtMoves

\* Blame counts what the court records wrong.
LEMMA BlameFacts ==
    ASSUME Types, NEW wrong \in BOOLEAN, Blame(wrong)
    PROVE  faults' \in 0..MaxFaults /\ (faults' = 0 => faults = 0 /\ ~wrong)
<1>1. faults \in 0..MaxFaults /\ MaxFaults \in Nat
  BY LiveAssumption DEF Types
<1>2. CASE wrong
  BY <1>1, <1>2 DEF Blame
<1>3. CASE ~wrong
  BY <1>1, <1>3 DEF Blame
<1> QED BY <1>2, <1>3

LEMMA JudgeStep ==
    ASSUME LiveInv, NEW m \in Mandates, NEW bps \in Awards, NEW proven \in BOOLEAN,
           Judge(m, bps, proven)
    PROVE  LiveInv'
<1> DEFINE c == [court[m] EXCEPT !.status = "judged", !.bps = bps, !.proven = proven]
<1>1. CourtFrame /\ usdc' = usdc /\ court[m].status = "delivered" /\ Blame(~proven)
      /\ court' = [court EXCEPT ![m].status = "judged", ![m].bps = bps,
                                ![m].proven = proven]
  BY DEF Judge, CourtFrame
<1>2. court[m] \in Case /\ court \in [Mandates -> Case] /\ bps \in Points
  BY LiveAssumption DEF LiveInv, Types
<1>3. /\ c \in Case /\ c.status = "judged" /\ c.manifest = court[m].manifest
      /\ c.paid = court[m].paid /\ c.bps = bps /\ c.proven = proven
  BY <1>2 DEF Case, Statuses
<1>4. Changes(m, c)
  BY <1>1, <1>2 DEF Changes, Case
<1> HIDE DEF c
<1>5. faults' \in 0..MaxFaults /\ (faults' = 0 => faults = 0 /\ proven)
  BY <1>1, BlameFacts DEF LiveInv
<1>6. CaseSound(m)'
  <2>1. court'[m] = c
    BY <1>3, <1>4, OneCase DEF LiveInv
  <2>2. CaseSound(m)
    BY DEF LiveInv
  <2> QED BY <1>1, <1>3, <1>5, <2>1, <2>2 DEF CaseSound, Undelivered, LocalHash, Absent
<1>7. EscrowCovers' /\ ProviderHasPay'
  BY <1>1, <1>3, <1>4, MoneyUntouched DEF Outside
<1>8. usdc' \in [Accounts -> Nat]
  BY <1>1 DEF LiveInv, Types
<1> QED BY <1>1, <1>3, <1>4, <1>5, <1>6, <1>7, <1>8, CourtMoves

\* One escrow more, one escrow less.
LEMMA EscrowArithmetic ==
    ASSUME NEW a \in Nat, NEW n \in Nat
    PROVE  /\ a * (n + 1) = a * n + a /\ a * n \in Nat
           /\ n > 0 => a * n = a * (n - 1) + a /\ a * (n - 1) \in Nat
OBVIOUS

LEMMA LockStep ==
    ASSUME LiveInv, NEW m \in Mandates, LockEscrow(m) PROVE LiveInv'
<1> DEFINE c == [court[m] EXCEPT !.status = "open"]
<1>1. CourtFrame /\ faults' = faults /\ Changes(m, c)
      /\ court[m].status = "created" /\ usdc.principal >= Amount
      /\ usdc' = [usdc EXCEPT !.principal = @ - Amount, !.escrow = @ + Amount]
  BY DEF LockEscrow, CourtFrame, Changes, bounds
<1>2. /\ c \in Case /\ c.status = "open" /\ c.manifest = court[m].manifest
      /\ c.paid = court[m].paid
  BY StatusCase DEF LiveInv, Statuses
<1>3. CaseSound(m)'
  BY <1>1, MovedCase DEF Statuses
<1> HIDE DEF c
<1>4. court'[m] = c /\ \A n \in Mandates \ {m} : court'[n] = court[n]
  BY <1>1, <1>2, OneCase DEF LiveInv
<1>5. /\ usdc \in [Accounts -> Nat] /\ faults \in 0..MaxFaults
      /\ Amount \in Nat /\ Treasury \in Nat
  BY AmountFacts DEF LiveInv, Types
<1>6. /\ usdc.signer \in Nat /\ usdc.principal \in Nat
      /\ usdc.provider \in Nat /\ usdc.escrow \in Nat
      /\ usdc'.principal = usdc.principal - Amount
      /\ usdc'.escrow = usdc.escrow + Amount
      /\ usdc'.signer = usdc.signer /\ usdc'.provider = usdc.provider
      /\ usdc.principal - Amount \in Nat
  BY <1>1, <1>5 DEF Accounts
<1>7. usdc' \in [Accounts -> Nat]
  <2>1. usdc.escrow + Amount \in Nat
    BY <1>5, <1>6
  <2> QED BY <1>1, <1>5, <1>6, <2>1, Transfer
<1>8. EscrowCovers'
  <2>1. Locked' = Locked \cup {m} /\ m \notin Locked
    BY <1>1, <1>2, <1>4 DEF Locked
  <2>2. IsFiniteSet(Locked) /\ usdc.escrow >= Amount * Cardinality(Locked)
        /\ usdc.signer + usdc.principal + usdc.provider + usdc.escrow = Treasury
    BY DEF LiveInv, EscrowCovers
  <2>3. /\ IsFiniteSet(Locked') /\ Cardinality(Locked') = Cardinality(Locked) + 1
        /\ Cardinality(Locked) \in Nat
    BY <2>1, <2>2, FS_AddElement, FS_CardinalityType
  <2>4. Amount * (Cardinality(Locked) + 1) = Amount * Cardinality(Locked) + Amount
        /\ Amount * Cardinality(Locked) \in Nat
    BY <1>5, <2>3, EscrowArithmetic
  <2>5. usdc'.escrow >= Amount * Cardinality(Locked')
    BY <1>5, <1>6, <2>2, <2>3, <2>4
  <2>6. usdc'.signer + usdc'.principal + usdc'.provider + usdc'.escrow = Treasury
    BY <1>5, <1>6, <2>2
  <2> QED BY <2>3, <2>5, <2>6 DEF EscrowCovers
<1>9. ProviderHasPay'
  <2>1. Known' = Known
    BY <1>1, <1>2, <1>4 DEF Known
  <2>2. \A n \in Mandates : court'[n].paid = court[n].paid
    BY <1>2, <1>4
  <2> QED BY <1>6, <2>1, <2>2 DEF LiveInv, ProviderHasPay
<1> QED BY <1>1, <1>2, <1>3, <1>5, <1>7, <1>8, <1>9, CourtMoves

LEMMA SettleStep ==
    ASSUME LiveInv, NEW m \in Mandates, NEW paid \in 0..Amount,
           NEW refund \in 0..Amount, NEW receipts \in BOOLEAN,
           Settle(m, paid, refund, receipts)
    PROVE  LiveInv'
<1> DEFINE c == [court[m] EXCEPT !.status = "settled", !.paid = paid,
                                 !.receipts = receipts]
           wrong == paid # Award(m) \/ paid + refund # Amount \/ ~receipts
           taken == paid + refund
<1>1. CourtFrame /\ court[m].status = "judged" /\ taken <= Amount /\ Blame(wrong)
      /\ court' = [court EXCEPT ![m].status = "settled", ![m].paid = paid,
                                ![m].receipts = receipts]
      /\ usdc' = [usdc EXCEPT !.escrow = @ - taken, !.provider = @ + paid,
                              !.principal = @ + refund]
  BY DEF Settle, CourtFrame
<1>2. /\ court[m] \in Case /\ court \in [Mandates -> Case] /\ Amount \in Nat
      /\ Treasury \in Nat /\ usdc \in [Accounts -> Nat]
      /\ paid \in Nat /\ refund \in Nat /\ taken \in Nat
  BY AmountFacts DEF LiveInv, Types
<1>3. /\ c \in Case /\ c.status = "settled" /\ c.manifest = court[m].manifest
      /\ c.paid = paid /\ c.receipts = receipts /\ c.bps = court[m].bps
      /\ c.proven = court[m].proven
  BY <1>2 DEF Case, Statuses
<1>4. Changes(m, c)
  BY <1>1, <1>2 DEF Changes, Case
<1> HIDE DEF c
<1>5. court'[m] = c /\ \A n \in Mandates \ {m} : court'[n] = court[n]
  BY <1>3, <1>4, OneCase DEF LiveInv
<1>6. faults' \in 0..MaxFaults /\ (faults' = 0 => faults = 0 /\ ~wrong)
  BY <1>1, BlameFacts DEF LiveInv
<1>7. CaseSound(m) /\ Award(m)' = Award(m)
  BY <1>3, <1>5, SameAward DEF LiveInv
<1>8. CaseSound(m)'
  BY <1>1, <1>3, <1>5, <1>6, <1>7 DEF CaseSound, Undelivered, LocalHash, Absent
<1> HIDE DEF wrong, taken
<1>9. /\ IsFiniteSet(Locked) /\ usdc.escrow >= Amount * Cardinality(Locked)
      /\ usdc.signer + usdc.principal + usdc.provider + usdc.escrow = Treasury
  BY DEF LiveInv, EscrowCovers
<1>10. /\ Locked' = Locked \ {m} /\ m \in Locked
       /\ IsFiniteSet(Locked') /\ Cardinality(Locked') = Cardinality(Locked) - 1
       /\ Cardinality(Locked) \in Nat /\ Cardinality(Locked) > 0
  <2>1. Locked' = Locked \ {m} /\ m \in Locked
    BY <1>1, <1>3, <1>5 DEF Locked
  <2>2. IsFiniteSet(Locked') /\ Cardinality(Locked') = Cardinality(Locked) - 1
        /\ Cardinality(Locked) \in Nat
    BY <1>9, <2>1, FS_RemoveElement, FS_CardinalityType
  <2>3. Cardinality(Locked) # 0
    BY <1>9, <2>1, FS_EmptySet
  <2> QED BY <2>1, <2>2, <2>3
<1>11. Amount * Cardinality(Locked) = Amount * (Cardinality(Locked) - 1) + Amount
       /\ Amount * (Cardinality(Locked) - 1) \in Nat
  BY <1>2, <1>10, EscrowArithmetic
<1>12. /\ usdc.signer \in Nat /\ usdc.principal \in Nat
       /\ usdc.provider \in Nat /\ usdc.escrow \in Nat
       /\ usdc'.escrow = usdc.escrow - taken /\ usdc'.provider = usdc.provider + paid
       /\ usdc'.principal = usdc.principal + refund /\ usdc'.signer = usdc.signer
  BY <1>1, <1>2 DEF Accounts
<1>13. usdc.escrow - taken >= Amount * (Cardinality(Locked) - 1)
       /\ usdc.escrow - taken \in Nat
  BY <1>1, <1>2, <1>9, <1>11, <1>12
<1>14. usdc' \in [Accounts -> Nat]
  <2>1. usdc.provider + paid \in Nat /\ usdc.principal + refund \in Nat
    BY <1>2, <1>12
  <2> QED BY <1>1, <1>2, <1>13, <2>1, Transfer
<1>15. EscrowCovers'
  <2>1. usdc'.signer + usdc'.principal + usdc'.provider + usdc'.escrow = Treasury
    BY <1>2, <1>9, <1>12 DEF taken
  <2>2. usdc'.escrow >= Amount * Cardinality(Locked')
    BY <1>10, <1>12, <1>13
  <2> QED BY <1>10, <2>1, <2>2 DEF EscrowCovers
<1>16. ProviderHasPay'
  <2>1. Known' = Known /\ m \in Known
    BY <1>1, <1>3, <1>5 DEF Known
  <2>2. IsFiniteSet(Known')
    BY <2>1 DEF LiveInv, ProviderHasPay
  <2>3. ASSUME NEW n \in Mandates, Known' \subseteq {n}
        PROVE  usdc'.provider = court'[n].paid
    <3>1. n = m /\ Known \subseteq {m}
      BY <2>1, <2>3
    <3>2. usdc.provider = 0
      BY <1>1, <1>7, <3>1 DEF LiveInv, ProviderHasPay, CaseSound
    <3> QED BY <1>2, <1>3, <1>5, <1>12, <3>1, <3>2
  <2> QED BY <2>2, <2>3 DEF ProviderHasPay
<1> QED BY <1>1, <1>3, <1>4, <1>6, <1>8, <1>14, <1>15, <1>16, CourtMoves

-----------------------------------------------------------------------------
(***************************************************************************)
(* The gate.                                                               *)
(***************************************************************************)

LEMMA GateStep == ASSUME LiveInv, VerifyLifecycle PROVE LiveInv'
<1> DEFINE m == state.mandate
<1>1. /\ step = "idle" /\ m # None
      /\ UNCHANGED <<state, step, prepared, files, court, usdc, bounds>>
      /\ gate' \in {"pass", "fail"}
      /\ gate' = "pass" => CaseSettled(m) /\ PaymentProven(m)
  BY DEF VerifyLifecycle
<1>2. m \in Mandates
  BY <1>1 DEF LiveInv, Types, Run
<1>3. Types'
  BY <1>1 DEF LiveInv, Types, files, bounds
<1>4. StepSound' /\ GateOfRun'
  BY <1>1, <1>2 DEF LiveInv, StepSound, GateOfRun, files
<1>5. CountSound' /\ PublishedServed' /\ ManifestServed'
  <2>1. FilesGrow
    BY <1>1, SameFilesGrow DEF LiveInv
  <2> QED BY <1>1, <2>1, CountStays, PublishedStays, ManifestsStay
<1>6. (\A n \in Mandates : CaseSound(n)') /\ EscrowCovers' /\ ProviderHasPay'
  BY <1>1, CasesStay, MoneyStays DEF bounds
<1>7. GateSound'
  <2> SUFFICES ASSUME gate' = "pass"
               PROVE  /\ court[m].status = "settled" /\ court[m].proven
                      /\ court[m].paid = (Amount * court[m].bps) \div 10000
                      /\ court[m].paid > 0
                      /\ court[m].manifest.commit \in 1..pushed
    BY <1>1 DEF GateSound, files
  <2>1. /\ court[m].status = "settled" /\ court[m].proven /\ court[m].bps > 0
        /\ court[m].paid = Award(m)
    BY <1>1 DEF CaseSettled, PaymentProven
  <2>2. CaseSound(m)
    BY <1>2 DEF LiveInv
  <2>3. Award(m) > 0
    <3>1. court[m].bps \in Awards
      BY <2>1, <2>2 DEF CaseSound
    <3> QED BY <2>1, <3>1, LiveAssumption DEF Award
  <2>4. court[m].manifest.commit \in 1..pushed
    BY <1>2, <2>1, <2>2 DEF LiveInv, CaseSound, ManifestServed
  <2> QED BY <2>1, <2>3, <2>4 DEF Award
<1> QED BY <1>3, <1>4, <1>5, <1>6, <1>7 DEF LiveInv

-----------------------------------------------------------------------------
(***************************************************************************)
(* The theorems.                                                           *)
(***************************************************************************)

LEMMA LiveInit == ASSUME Init PROVE LiveInv
<1>1. Types
  <2>1. state \in Run
    BY DEF Init, Run, Counts, Unpublished, LocalHash, Absent, Bytes, Data
  <2>2. dir \in Tree /\ commits \in Seq(Tree) /\ Len(commits) = 0
    BY DEF Init, Tree, Absent, NoBundle, Data
  <2>3. court \in [Mandates -> Case]
    <3>1. 0 \in Points /\ "unknown" \in Statuses
      BY DEF Points, Statuses
    <3>2. Undelivered \in [commit : Nat, hash : Bytes, count : Nat]
      BY DEF Undelivered, LocalHash, Absent, Bytes, Data
    <3> QED BY <3>1, <3>2 DEF Init, Case
  <2>4. usdc \in [Accounts -> Nat]
    BY AmountFacts DEF Init, Accounts
  <2>5. detours \in 0..MaxDetours /\ faults \in 0..MaxFaults /\ due \in 1..8
    BY LiveAssumption DEF Init
  <2>6. pushed \in 0..Len(commits) /\ state.bundle <= Len(commits)
    BY <2>2 DEF Init
  <2> QED BY <2>1, <2>2, <2>3, <2>4, <2>5, <2>6 DEF Init, Types, Steps
<1>2. StepSound /\ GateOfRun /\ GateSound
  BY DEF Init, StepSound, GateOfRun, GateSound
<1>3. CountSound
  BY DEF Init, CountSound, Absent
<1>4. PublishedServed /\ ManifestServed
  BY DEF Init, PublishedServed, ManifestServed
<1>5. \A m \in Mandates : CaseSound(m)
  BY DEF Init, CaseSound
<1>6. Locked = {} /\ Known = {}
  BY DEF Init, Locked, Known
<1>7. IsFiniteSet({}) /\ Cardinality({}) = 0
  BY FS_EmptySet
<1>8. EscrowCovers
  BY <1>6, <1>7, AmountFacts DEF Init, EscrowCovers
<1>9. ProviderHasPay
  BY <1>6, <1>7 DEF Init, ProviderHasPay
<1> QED BY <1>1, <1>2, <1>3, <1>4, <1>5, <1>8, <1>9 DEF LiveInv

LEMMA LiveStutter == ASSUME LiveInv, UNCHANGED vars PROVE LiveInv'
<1>1. FilesGrow
  BY SameFilesGrow DEF LiveInv, vars, files
<1>2. Types' /\ StepSound' /\ GateOfRun'
  BY DEF LiveInv, Types, StepSound, GateOfRun, vars
<1>3. CountSound' /\ PublishedServed' /\ ManifestServed'
  BY <1>1, CountStays, PublishedStays, ManifestsStay DEF vars, files
<1>4. (\A n \in Mandates : CaseSound(n)') /\ EscrowCovers' /\ ProviderHasPay'
  BY CasesStay, MoneyStays DEF vars
<1>5. GateSound'
  BY DEF LiveInv, GateSound, vars
<1> QED BY <1>2, <1>3, <1>4, <1>5 DEF LiveInv

LEMMA LiveNext == ASSUME LiveInv, [Next]_vars PROVE LiveInv'
<1>1. CASE \E k \in 1..7 : Start(k)
  BY <1>1, StartStep
<1>2. CASE Stop
  BY <1>2, StopStep
<1>3. CASE Script
  <2>1. CASE Fund \/ RegisterAgents \/ \E m \in Mandates : PrepareMandate(m)
    BY <2>1, FundStep, RegisterStep, PrepareStep
  <2>2. CASE SubmitMandate \/ RememberMandate \/ Discover \/ Accept
    BY <2>2, SubmitStep, RememberStep, DiscoverStep, AcceptStep
  <2>3. CASE AwaitOperation("accepting", "open") \/ AwaitOperation("delivering", "active")
    BY <2>3, AwaitStep
  <2>4. CASE \/ \E c \in Collections : Collect(c)
             \/ WriteFile("sources", "readme", 2)
             \/ WriteFile("readme", "count", 3)
             \/ CountRecords
    BY <2>4, CollectStep, WriteFileStep, CountStep
  <2>5. CASE Commit \/ ReadBack \/ Deliver \/ WriteBundle
    BY <2>5, CommitStep, ReadBackStep, DeliverStep, WriteBundleStep
  <2>6. CASE Push("push", "read") \/ Push("pushBundle", "rememberBundle")
    BY <2>6, PushStep
  <2>7. CASE CommitBundle \/ RememberBundle
    BY <2>7, CommitBundleStep, RememberBundleStep
  <2> QED BY <1>3, <2>1, <2>2, <2>3, <2>4, <2>5, <2>6, <2>7 DEF Script
<1>4. CASE Court
  <2>1. PICK m \in Mandates :
           \/ LockEscrow(m)
           \/ CourtStep(m, "accepting", "active") \/ CourtStep(m, "accepting", "open")
           \/ CourtStep(m, "delivering", "delivered")
           \/ CourtStep(m, "delivering", "active")
           \/ \E bps \in Awards, proven \in BOOLEAN : Judge(m, bps, proven)
           \/ \E paid, refund \in 0..Amount, receipts \in BOOLEAN :
                Settle(m, paid, refund, receipts)
    BY <1>4 DEF Court
  <2>2. CASE LockEscrow(m)
    BY <2>2, LockStep
  <2>3. CASE CourtStep(m, "accepting", "active") \/ CourtStep(m, "accepting", "open")
    BY <2>3, CourtStepStep
  <2>4. CASE \/ CourtStep(m, "delivering", "delivered")
             \/ CourtStep(m, "delivering", "active")
    BY <2>4, CourtStepStep
  <2>5. CASE \E bps \in Awards, proven \in BOOLEAN : Judge(m, bps, proven)
    BY <2>5, JudgeStep
  <2>6. CASE \E paid, refund \in 0..Amount, receipts \in BOOLEAN :
                Settle(m, paid, refund, receipts)
    BY <2>6, SettleStep
  <2> QED BY <2>1, <2>2, <2>3, <2>4, <2>5, <2>6
<1>5. CASE VerifyLifecycle
  BY <1>5, GateStep
<1>6. CASE UNCHANGED vars
  BY <1>6, LiveStutter
<1> QED BY <1>1, <1>2, <1>3, <1>4, <1>5, <1>6 DEF Next

\* LiveInv holds of every run, whatever is stopped, run again or recorded wrong.
THEOREM LiveInvariant == Spec => []LiveInv
<1>1. Init => LiveInv
  BY LiveInit
<1>2. LiveInv /\ [Next]_vars => LiveInv'
  BY LiveNext
<1> QED BY <1>1, <1>2, PTL DEF Spec

\* The state file, the repository and the balances keep their types, and a count
\* the run remembers satisfies criterion C1 (scripts/live/shared.ts).
THEOREM LiveTypeCorrect == Spec => []TypeOK
<1>1. LiveInv => TypeOK
  <2> SUFFICES ASSUME LiveInv PROVE TypeOK
    OBVIOUS
  <2>1. Types
    BY DEF LiveInv
  <2>2. state.published.commit \in 0..Len(commits)
    <3>1. CASE state.published = Unpublished
      BY <3>1, FilesFacts DEF LiveInv, Unpublished
    <3>2. CASE state.published # Unpublished
      BY <3>2, FilesFacts DEF LiveInv, PublishedServed
    <3> QED BY <3>1, <3>2
  <2>3. state \in Run /\ state.bundle \in 0..Len(commits)
    BY FilesFacts DEF LiveInv, Types, Run
  <2>4. state \in [keys : BOOLEAN, mandate : Mandates \cup {None},
                   count : {0} \cup {n \in Nat : n >= Enough},
                   published : [commit : 0..Len(commits), hash : Bytes],
                   bundle : 0..Len(commits)]
    BY <2>2, <2>3 DEF Run, Counts
  <2>5. \A m \in Mandates : court[m].paid + court[m].bps \in Nat
    <3> SUFFICES ASSUME NEW m \in Mandates PROVE court[m].paid + court[m].bps \in Nat
      OBVIOUS
    <3>1. court[m].paid \in Nat /\ court[m].bps \in Points
      BY <2>1 DEF Types, Case
    <3>2. Points \subseteq Nat
      BY DEF Points
    <3>3. court[m].bps \in Nat
      BY <3>1, <3>2
    <3> QED BY <3>1, <3>3
  <2> QED BY <2>1, <2>4, <2>5 DEF Types, TypeOK, Tree, Accounts
<1> QED BY <1>1, LiveInvariant, PTL

\* The hash of every delivered manifest is of the bytes its pinned commit serves,
\* and its count that commit's, however the scripts were run.
THEOREM ManifestServedAlways == Spec => []ManifestServed
<1>1. LiveInv => ManifestServed
  BY DEF LiveInv
<1> QED BY <1>1, LiveInvariant, PTL

\* The gate passes only a run whose provider was paid exactly the proven award for
\* a delivery that is served (verify-lifecycle.ts).
THEOREM GateSoundAlways == Spec => []GateSound
<1>1. LiveInv => GateSound
  BY DEF LiveInv
<1> QED BY <1>1, LiveInvariant, PTL

\* All of a full award is the escrow.
LEMMA FullAward == ASSUME NEW a \in Nat PROVE (a * 10000) \div 10000 = a
OBVIOUS

\* The gate passes a settled run with a full award and an honest court, as long as
\* the principal was funded once and one mandate was created (verify-lifecycle.ts).
THEOREM HonestRunPassesAlways == Spec => HonestRunPasses
<1>1. ASSUME LiveInv, VerifyLifecycle, faults = 0, usdc.signer = Treasury - Funding,
             Cardinality({m \in Mandates : court[m].status # "unknown"}) = 1,
             court[state.mandate].status = "settled",
             court[state.mandate].bps = 10000
      PROVE  gate' = "pass"
  <2> DEFINE m == state.mandate
  <2>1. m \in Mandates
    BY <1>1 DEF VerifyLifecycle, LiveInv, Types, Run
  <2>2. CaseSound(m)
    BY <1>1, <2>1 DEF LiveInv
  <2>3. Award(m) = Amount /\ Amount \in Nat
    BY <1>1, FullAward, AmountFacts DEF Award
  <2>4. CaseSettled(m) /\ StagesConfirmed(m) /\ court[m].paid = Amount
    BY <1>1, <2>2, <2>3 DEF CaseSound, CaseSettled, StagesConfirmed
  <2>5. Known \subseteq {m}
    <3>1. IsFiniteSet(Known) /\ Cardinality(Known) = 1 /\ m \in Known
      BY <1>1, <2>1 DEF LiveInv, ProviderHasPay, Known
    <3> QED BY <3>1, FS_Singleton
  <2>6. usdc.provider = Amount
    BY <1>1, <2>1, <2>4, <2>5 DEF LiveInv, ProviderHasPay
  <2>7. EscrowTaken
    <3>1. /\ usdc.signer \in Nat /\ usdc.principal \in Nat
          /\ usdc.provider \in Nat /\ usdc.escrow \in Nat
      BY <1>1 DEF LiveInv, Types, Accounts
    <3>2. usdc.signer + usdc.principal + usdc.provider + usdc.escrow = Treasury
      BY <1>1 DEF LiveInv, EscrowCovers
    <3> QED BY <1>1, <2>3, <2>6, <3>1, <3>2, AmountFacts DEF EscrowTaken
  <2>8. PaymentProven(m)
    BY <2>3, <2>4, <2>6 DEF PaymentProven
  <2> QED BY <1>1, <2>4, <2>7, <2>8 DEF VerifyLifecycle
<1>2. LiveInv /\ [Next]_vars =>
        [(/\ VerifyLifecycle /\ faults = 0 /\ usdc.signer = Treasury - Funding
          /\ Cardinality({m \in Mandates : court[m].status # "unknown"}) = 1
          /\ court[state.mandate].status = "settled"
          /\ court[state.mandate].bps = 10000)
         => gate' = "pass"]_vars
  BY <1>1
<1> QED BY <1>2, LiveInvariant, PTL DEF Spec, HonestRunPasses

=============================================================================
