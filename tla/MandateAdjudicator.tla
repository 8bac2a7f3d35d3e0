------------------------ MODULE MandateAdjudicator ------------------------
(***************************************************************************)
(* The court's contract on GenLayer, with the evidence it judges: what a   *)
(* provider publishes and the API snapshots, what the contract fetches     *)
(* anew, which verdicts of the language model it refuses and what it pays. *)
(* The model may answer anything; everything it is not refused is checked. *)
(*                                                                         *)
(* Total stands for 10000 basis points, and the lengths of pages are       *)
(* counted in units that keep the proportions of the limits.  GenLayer's   *)
(* rounds are external: a transaction is accepted, may be executed again   *)
(* by an appeal, and is final at last.                                     *)
(***************************************************************************)
EXTENDS Integers, FiniteSets, Sequences, FiniteSetsExt, SequencesExt

CONSTANTS
    Cases,
    Terms,           \* mandates: [criteria, allowPartialSettlement], the
                     \* criteria a sequence of [id, weight, critical]
    Total,           \* the sum of weights, 10000
    Contents,        \* bodies a URL may serve
    Missing,         \* what it serves when the page is gone (404)
    Chars,           \* how long each of them is
    Urls,
    Manifests,       \* deliveries: [artifacts, evidence], of [id, url, sha256]
    MaxFetched,      \* MAX_EVIDENCE_ITEMS, 16
    MaxSourceChars,  \* MAX_SOURCE_CHARS, 12000
    MaxTotalChars,   \* MAX_TOTAL_SOURCE_CHARS, 64000
    MaxItems,        \* items in MAX_MANIFEST_CHARS
    MaxAppeals       \* one for each party

Nothing == <<>>
Criteria(t) == DOMAIN t.criteria
Weight(t) == SumFunctionOnSet([c \in Criteria(t) |-> t.criteria[c].weight],
                              Criteria(t))

\* criterionSchema and mandateSchema.  They do not ask for different ids.
SchemaTakes(t) ==
    /\ t.criteria # <<>>
    /\ \A c \in Criteria(t) : t.criteria[c].weight \in Nat \ {0}
    /\ Weight(t) = Total

ASSUME AdjudicatorAssumption ==
    /\ Total \in Nat /\ MaxFetched \in Nat \ {0}
    /\ MaxItems \in Nat /\ MaxAppeals \in Nat
    /\ MaxSourceChars \in Nat \ {0} /\ MaxTotalChars \in Nat \ {0}
    /\ Missing \notin Contents
    /\ Chars \in [Contents \cup {Missing} -> Nat]
    /\ \A t \in Terms : SchemaTakes(t) /\ IsFiniteSet(Criteria(t))
    /\ \A f \in Manifests : f.artifacts # <<>> /\ f.evidence # <<>>

VARIABLES
    web,             \* what each URL serves
    terms,           \* the locked mandate of each case
    prepared,        \* deliveryPreparation: manifest and snapshots
    delivered,       \* the manifest and the snapshots committed by the delivery
    cases,           \* the contract's cases
    phase,           \* GenLayer's word on the transaction of a case
    appeals          \* rounds beyond the first

vars == <<web, terms, prepared, delivered, cases, phase, appeals>>

Init ==
    /\ web \in [Urls -> Contents]
    /\ terms \in [Cases -> Terms]
    /\ prepared = [k \in Cases |-> Nothing]
    /\ delivered = [k \in Cases |-> Nothing]
    /\ cases = [k \in Cases |-> Nothing]
    /\ phase = [k \in Cases |-> "none"]
    /\ appeals = [k \in Cases |-> 0]

\* A page is edited, removed or put back.
Publish(u) ==
    /\ \E c \in Contents \cup {Missing} : web' = [web EXCEPT ![u] = c]
    /\ UNCHANGED <<terms, prepared, delivered, cases, phase, appeals>>

Items(manifest) == manifest.artifacts \o manifest.evidence

\* snapshotManifest fetches every item; a difference of hashes is recorded, it
\* does not refuse the delivery.
Snapshots(manifest) ==
    [i \in DOMAIN Items(manifest) |->
        LET item == Items(manifest)[i] IN
        [body |-> web[item.url], matches |-> web[item.url] = item.sha256]]

\* The first request of a delivery; the same manifest keeps its snapshots.
Prepare(k) ==
    /\ delivered[k] = Nothing
    /\ \E manifest \in Manifests :
          /\ prepared[k] # Nothing => prepared[k].manifest # manifest
          /\ prepared' = [prepared EXCEPT ![k] =
                [manifest |-> manifest, snapshots |-> Snapshots(manifest)]]
    /\ UNCHANGED <<web, terms, delivered, cases, phase, appeals>>

\* The signed request commits to what was prepared.
Deliver(k) ==
    /\ delivered[k] = Nothing /\ prepared[k] # Nothing
    /\ delivered' = [delivered EXCEPT ![k] = prepared[k]]
    /\ prepared' = [prepared EXCEPT ![k] = Nothing]
    /\ UNCHANGED <<web, terms, cases, phase, appeals>>

(***************************************************************************)
(* The contract.                                                           *)
(***************************************************************************)

ValidMandate(t) ==
    /\ SchemaTakes(t)
    /\ \A c, d \in Criteria(t) :
          t.criteria[c].id = t.criteria[d].id => c = d

\* The checks of submit_case before anything is fetched.
Submittable(k) ==
    /\ delivered[k] # Nothing
    /\ ValidMandate(terms[k])
    /\ Len(Items(delivered[k].manifest)) <= MaxItems

\* What a page takes of the total while there is enough left.
Excerpt(page) == Min({Chars[page], MaxSourceChars})

\* An excerpt is cut to what is left of the total.  So the pages before the
\* i-th have left something exactly when their whole excerpts are less.
Left(pages, i) ==
    MaxTotalChars > SumFunctionOnSet(
        [j \in 1 .. (i - 1) |-> Excerpt(pages[j])], 1 .. (i - 1))

\* The page of an error has text as well, but counts as not retrieved.
Fetched(k) ==
    LET all == Items(delivered[k].manifest)
        taken == SubSeq(all, 1, Min({Len(all), MaxFetched}))
        pages == [i \in DOMAIN taken |-> web[taken[i].url]]
    IN [i \in DOMAIN taken |->
           [id |-> taken[i].id, body |-> pages[i],
            retrieved |-> /\ pages[i] # Missing
                          /\ Excerpt(pages[i]) > 0 /\ Left(pages, i),
            match |-> pages[i] = taken[i].sha256]]

Verdicts == {"FULFILLED", "PARTIALLY_FULFILLED", "BREACHED", "UNDETERMINED"}
Results == {"PASS", "FAIL", "PARTIAL", "UNVERIFIABLE"}

\* What the model may answer.  Of the references of a criterion it matters only
\* whether there are some that support it.
Answers(t) ==
    [verdict : Verdicts \cup {"OTHER"},
     results : [Criteria(t) -> Results \cup {"UNDECIDED"}],
     materialBreaches : BOOLEAN,
     settlementBps : {0, Total}]

With(answer, result) ==
    {c \in DOMAIN answer.results : answer.results[c] = result}

\* Mutant of PassedWeight: the settlement that the model asks for.
AskedWeight(t, answer) == answer.settlementBps

\* What a criterion adds: all of its weight, half of it, or nothing.
Award(t, answer, c) ==
    LET weight == t.criteria[c].weight IN
    CASE answer.results[c] = "PASS" -> weight
      [] answer.results[c] = "PARTIAL" -> weight \div 2
      [] OTHER -> 0

PassedWeight(t, answer) ==
    SumFunctionOnSet([c \in Criteria(t) |-> Award(t, answer, c)], Criteria(t))

CriticalFailure(t, answer) ==
    \E c \in With(answer, "FAIL") \cup With(answer, "UNVERIFIABLE") :
        t.criteria[c].critical

\* Mutant of Supports: a page that changed counts as well.
Answered(sources, refs) ==
    \A i \in DOMAIN sources : sources[i].id \in refs => sources[i].retrieved

\* Two items may have one name: then both have to be as they were.
Supports(sources, refs) ==
    \A i \in DOMAIN sources :
        sources[i].id \in refs => sources[i].retrieved /\ sources[i].match

Provable(sources) ==
    LET ids == {sources[i].id : i \in DOMAIN sources}
    IN \E refs \in (SUBSET ids) \ {{}} : Supports(sources, refs)

\* Mutant of Consistent: a verdict is taken as it is.
AnyVerdict(t, answer) == answer.verdict \in Verdicts

Consistent(t, answer) ==
    /\ answer.verdict \in Verdicts
    /\ answer.verdict = "PARTIALLY_FULFILLED" => t.allowPartialSettlement
    /\ answer.verdict = "FULFILLED" =>
          /\ PassedWeight(t, answer) = Total
          /\ ~CriticalFailure(t, answer)
    /\ answer.verdict = "BREACHED" =>
          \/ CriticalFailure(t, answer)
          \/ PassedWeight(t, answer) = 0
          \/ answer.materialBreaches

\* _normalize_judgment: what is not refused with an error.
Normalizes(t, answer, provable) ==
    /\ With(answer, "UNDECIDED") = {}
    /\ With(answer, "PASS") # {} => provable
    /\ Consistent(t, answer)

Judgment(t, answer, sources) ==
    [verdict |-> answer.verdict, results |-> answer.results,
     settlementBps |-> PassedWeight(t, answer), sources |-> sources]

\* leader_fn, as far as the validators agree with it.
Judge(k) ==
    /\ LET sources == Fetched(k)
           provable == Provable(sources) IN
       \E answer \in Answers(terms[k]) :
          /\ Normalizes(terms[k], answer, provable)
          /\ cases' = [cases EXCEPT
                ![k] = Judgment(terms[k], answer, sources)]
    /\ phase' = [phase EXCEPT ![k] = "accepted"]
    /\ UNCHANGED <<web, terms, prepared, delivered>>

\* Mutant of SubmitCase: a case that exists is judged again.
SubmitAgain(k) ==
    Submittable(k) /\ Judge(k) /\ UNCHANGED appeals

\* Every later submission is answered with the case that exists.
SubmitCase(k) ==
    cases[k] = Nothing /\ Submittable(k) /\ Judge(k) /\ UNCHANGED appeals

\* An appeal executes the accepted transaction again, from the state before.
Appeal(k) ==
    /\ phase[k] = "accepted" /\ appeals[k] < MaxAppeals
    /\ appeals' = [appeals EXCEPT ![k] = @ + 1]
    /\ Judge(k)

Finalize(k) ==
    /\ phase[k] = "accepted"
    /\ phase' = [phase EXCEPT ![k] = "final"]
    /\ UNCHANGED <<web, terms, prepared, delivered, cases, appeals>>

Next ==
    \/ \E u \in Urls : Publish(u)
    \/ \E k \in Cases :
          Prepare(k) \/ Deliver(k) \/ SubmitCase(k) \/ Appeal(k) \/ Finalize(k)

Spec == Init /\ [][Next]_vars

(***************************************************************************)
(* Properties.                                                             *)
(***************************************************************************)

Judged == {k \in Cases : cases[k] # Nothing}

\* A verdict of FULFILLED pays everything and leaves no criterion that did not
\* pass: no weight that halves add up to replaces one.
FulfilledMeansAllPassed ==
    \A k \in Judged : cases[k].verdict = "FULFILLED" =>
        /\ cases[k].settlementBps = Total
        /\ \A c \in Criteria(terms[k]) : cases[k].results[c] = "PASS"

\* A criterion passes only if a source proves it that the court itself fetched
\* and that still has the hash the provider committed to, whatever the page
\* serves now and whatever the model refers to.
PassIsProven ==
    \A k \in Judged : \A c \in Criteria(terms[k]) :
        cases[k].results[c] = "PASS" =>
            \E i \in DOMAIN cases[k].sources :
                cases[k].sources[i].retrieved /\ cases[k].sources[i].match

\* Twice what the findings are worth before any rounding.
TwiceExact(t, findings) ==
    SumFunctionOnSet(
        [c \in Criteria(t) |->
            CASE findings.results[c] = "PASS" -> 2 * t.criteria[c].weight
              [] findings.results[c] = "PARTIAL" -> t.criteria[c].weight
              [] OTHER -> 0],
        Criteria(t))

\* Rounding never pays more than the exact half of a partial criterion, and
\* takes less than one basis point from each: the settlement follows the
\* findings and not the number that the model asked for.
RoundedForPrincipal ==
    \A k \in Judged :
        LET lost == TwiceExact(terms[k], cases[k]) - 2 * cases[k].settlementBps
        IN lost \in 0 .. Cardinality(With(cases[k], "PARTIAL"))

\* A final judgment stays, however often the queue submits the case again and
\* whatever becomes of the evidence.
FinalStays ==
    [][\A k \in Cases : phase[k] = "final" => cases'[k] = cases[k]]_vars

(***************************************************************************)
(* What the documentation says and the code does not do.                   *)
(***************************************************************************)

\* Evidence that cannot be fetched or has another hash scores nothing.
UnprovenScoresNothing ==
    \A k \in Judged :
        cases[k].settlementBps > 0 =>
            \E i \in DOMAIN cases[k].sources :
                cases[k].sources[i].retrieved /\ cases[k].sources[i].match

=============================================================================
