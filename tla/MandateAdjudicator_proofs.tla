---------------------- MODULE MandateAdjudicator_proofs ----------------------
(***************************************************************************)
(* Proofs about MandateAdjudicator for any mandates the API takes, any     *)
(* pages and deliveries, any answer of the model and any number of         *)
(* appeals.  The sums over criteria are those of FoldTheorems_proofs.      *)
(***************************************************************************)
EXTENDS MandateAdjudicator, FoldTheorems_proofs, TLAPS

(***************************************************************************)
(* The inductive invariant: what _normalize_judgment has made sure of is   *)
(* still true of every case that is stored, since the terms are locked and *)
(* a case changes only by another judgment.                                *)
(***************************************************************************)
Findings(t) == [Criteria(t) -> Results \cup {"UNDECIDED"}]

JudgmentSound(t, judgment) ==
    /\ judgment.results \in Findings(t)
    /\ judgment.settlementBps = PassedWeight(t, judgment)
    /\ With(judgment, "PASS") # {} => Provable(judgment.sources)
    /\ judgment.verdict = "FULFILLED" => PassedWeight(t, judgment) = Total

CaseSound(k) ==
    /\ cases[k] # Nothing => JudgmentSound(terms[k], cases[k])
    /\ phase[k] # "none" => cases[k] # Nothing

CourtSound ==
    /\ terms \in [Cases -> Terms]
    /\ DOMAIN cases = Cases /\ DOMAIN phase = Cases
    /\ \A k \in Cases : CaseSound(k)

(***************************************************************************)
(* Sums over the criteria of a mandate.                                    *)
(***************************************************************************)

\* What the schema and the contract require of a mandate.
LEMMA TermsFacts ==
    ASSUME NEW t \in Terms
    PROVE  /\ IsFiniteSet(Criteria(t))
           /\ \A c \in Criteria(t) : t.criteria[c].weight \in Nat \ {0}
           /\ Weight(t) = Total
BY AdjudicatorAssumption DEF SchemaTakes

\* Half of a weight, rounded down, is less than the weight and misses the
\* exact half by less than one basis point.
LEMMA HalfFacts ==
    ASSUME NEW w \in Nat \ {0}
    PROVE  /\ w \div 2 \in Nat /\ w \div 2 < w
           /\ w - 2 * (w \div 2) \in 0 .. 1
OBVIOUS

\* A criterion adds at most its weight, and all of it only if it passed.
LEMMA AwardFacts ==
    ASSUME NEW t \in Terms, NEW findings, NEW c \in Criteria(t)
    PROVE  /\ Award(t, findings, c) \in Nat
           /\ Award(t, findings, c) <= t.criteria[c].weight
           /\ Award(t, findings, c) = t.criteria[c].weight
                => findings.results[c] = "PASS"
<1>1. t.criteria[c].weight \in Nat \ {0}
  BY TermsFacts
<1> QED BY <1>1, HalfFacts DEF Award

\* The settlement is the total only when every criterion passed: no weight
\* that halves add up to replaces one.
LEMMA TotalMeansAllPassed ==
    ASSUME NEW t \in Terms, NEW findings, PassedWeight(t, findings) = Total
    PROVE  \A c \in Criteria(t) : findings.results[c] = "PASS"
<1> DEFINE C == Criteria(t)
           award == [c \in C |-> Award(t, findings, c)]
           weight == [c \in C |-> t.criteria[c].weight]
<1>1. IsFiniteSet(C) /\ award \in [C -> Int] /\ weight \in [C -> Int]
  BY TermsFacts, AwardFacts
<1>2. \A c \in C : award[c] <= weight[c]
  BY AwardFacts
<1>3. SumFunctionOnSet(award, C) = SumFunctionOnSet(weight, C)
  BY TermsFacts DEF PassedWeight, Weight
<1>4. \A c \in C : award[c] = weight[c]
  <2> HIDE DEF C, award, weight
  <2> QED BY <1>1, <1>2, <1>3, SumLeq
<1> QED BY <1>4, AwardFacts

\* Rounding costs between nothing and one half basis point for each criterion
\* that is fulfilled in part.
LEMMA RoundingBound ==
    ASSUME NEW t \in Terms, NEW findings, findings.results \in Findings(t)
    PROVE  TwiceExact(t, findings) - 2 * PassedWeight(t, findings)
              \in 0 .. Cardinality(With(findings, "PARTIAL"))
<1> DEFINE C == Criteria(t)
           P == With(findings, "PARTIAL")
           award == [c \in C |-> Award(t, findings, c)]
           twice == [c \in C |-> award[c] + award[c]]
           exact == [c \in C |->
                        CASE findings.results[c] = "PASS" ->
                               2 * t.criteria[c].weight
                          [] findings.results[c] = "PARTIAL" ->
                               t.criteria[c].weight
                          [] OTHER -> 0]
           one == [c \in C |-> IF c \in P THEN 1 ELSE 0]
           above == [c \in C |-> twice[c] + one[c]]
<1>1. /\ IsFiniteSet(C)
      /\ \A c \in C : award[c] \in Nat
      /\ \A c \in C : t.criteria[c].weight \in Nat \ {0}
  BY TermsFacts, AwardFacts
<1>2. P \in SUBSET C /\ \A c \in C : c \in P <=> findings.results[c] = "PARTIAL"
  BY DEF With, Findings
<1>3. ASSUME NEW c \in C
      PROVE  /\ twice[c] \in Int /\ exact[c] \in Int /\ one[c] \in Int
             /\ above[c] \in Int
             /\ twice[c] <= exact[c] /\ exact[c] <= above[c]
  <2>1. t.criteria[c].weight \in Nat \ {0}
    BY <1>1
  <2>2. CASE findings.results[c] = "PASS"
    <3>1. c \notin P
      BY <1>2, <2>2
    <3> QED BY <2>1, <2>2, <3>1 DEF Award
  <2>3. CASE findings.results[c] = "PARTIAL"
    <3>1. c \in P
      BY <1>2, <2>3
    <3>2. award[c] = t.criteria[c].weight \div 2
      BY <2>3 DEF Award
    <3>3. exact[c] = t.criteria[c].weight
      BY <2>3
    <3> QED BY <2>1, <3>1, <3>2, <3>3, HalfFacts
  <2>4. CASE findings.results[c] \notin {"PASS", "PARTIAL"}
    <3>1. c \notin P
      BY <1>2, <2>4
    <3> QED BY <2>4, <3>1 DEF Award
  <2> QED BY <2>2, <2>3, <2>4
<1>4. /\ award \in [C -> Int] /\ twice \in [C -> Int] /\ exact \in [C -> Int]
      /\ one \in [C -> Int] /\ above \in [C -> Int]
  BY <1>1, <1>3
<1>5. /\ \A c \in C : twice[c] = award[c] + award[c]
      /\ \A c \in C : above[c] = twice[c] + one[c]
      /\ \A c \in C : one[c] = IF c \in P THEN 1 ELSE 0
  OBVIOUS
<1>6. /\ SumFunctionOnSet(award, C) = PassedWeight(t, findings)
      /\ SumFunctionOnSet(exact, C) = TwiceExact(t, findings)
  BY Zenon DEF PassedWeight, TwiceExact
<1> HIDE DEF C, P, award, twice, exact, one, above
<1>7. SumFunctionOnSet(twice, C)
         = SumFunctionOnSet(award, C) + SumFunctionOnSet(award, C)
  BY <1>1, <1>4, <1>5, SumPlus
<1>8. SumFunctionOnSet(above, C)
         = SumFunctionOnSet(twice, C) + SumFunctionOnSet(one, C)
  BY <1>1, <1>4, <1>5, SumPlus
<1>9. SumFunctionOnSet(one, C) = Cardinality(P)
  BY <1>1, <1>2, <1>4, <1>5, SumCount
<1>10. SumFunctionOnSet(twice, C) <= SumFunctionOnSet(exact, C)
  BY <1>1, <1>3, <1>4, SumLeq
<1>11. SumFunctionOnSet(exact, C) <= SumFunctionOnSet(above, C)
  BY <1>1, <1>3, <1>4, SumLeq
<1>12. /\ SumFunctionOnSet(award, C) \in Int
       /\ SumFunctionOnSet(exact, C) \in Int
       /\ SumFunctionOnSet(one, C) \in Int
  BY <1>1, <1>4, SumInt
<1>13. TwiceExact(t, findings) - 2 * PassedWeight(t, findings)
          \in 0 .. Cardinality(P)
  BY <1>6, <1>7, <1>8, <1>9, <1>10, <1>11, <1>12
<1> QED BY <1>13 DEF P

(***************************************************************************)
(* The steps.                                                              *)
(***************************************************************************)

\* A judgment that is stored is one that the contract did not refuse.
LEMMA NormalizedIsSound ==
    ASSUME NEW t, NEW answer \in Answers(t), NEW sources,
           Normalizes(t, answer, Provable(sources))
    PROVE  /\ JudgmentSound(t, Judgment(t, answer, sources))
           /\ Judgment(t, answer, sources) # Nothing
<1> DEFINE judgment == Judgment(t, answer, sources)
<1>1. /\ judgment.results = answer.results
      /\ judgment.verdict = answer.verdict
      /\ judgment.settlementBps = PassedWeight(t, answer)
      /\ judgment.sources = sources
  BY DEF Judgment
<1>2. answer.results \in Findings(t)
  BY DEF Answers, Findings
<1>3. \A result : With(judgment, result) = With(answer, result)
  BY <1>1 DEF With
<1>4. PassedWeight(t, judgment) = PassedWeight(t, answer)
  BY <1>1, Zenon DEF PassedWeight, Award
<1>5. judgment # Nothing
  BY DEF Judgment, Nothing
<1> HIDE DEF judgment
<1>6. JudgmentSound(t, judgment)
  BY <1>1, <1>2, <1>3, <1>4 DEF JudgmentSound, Normalizes, Consistent
<1> QED BY <1>5, <1>6 DEF judgment

\* An execution of the court replaces one case by a sound one.
LEMMA JudgeSound ==
    ASSUME CourtSound, NEW k \in Cases, Judge(k)
    PROVE  CourtSound'
<1>1. PICK answer \in Answers(terms[k]) :
         /\ Normalizes(terms[k], answer, Provable(Fetched(k)))
         /\ cases' = [cases EXCEPT
               ![k] = Judgment(terms[k], answer, Fetched(k))]
  BY DEF Judge
<1>2. terms' = terms /\ phase' = [phase EXCEPT ![k] = "accepted"]
  BY DEF Judge
<1>3. /\ JudgmentSound(terms[k], cases'[k]) /\ cases'[k] # Nothing
      /\ \A n \in Cases \ {k} : cases'[n] = cases[n] /\ phase'[n] = phase[n]
  BY <1>1, <1>2, NormalizedIsSound DEF CourtSound
<1>4. ASSUME NEW n \in Cases PROVE CaseSound(n)'
  <2>1. CASE n = k
    BY <1>2, <1>3, <2>1 DEF CaseSound
  <2>2. CASE n # k
    BY <1>2, <1>3, <2>2 DEF CaseSound, CourtSound
  <2> QED BY <2>1, <2>2
<1> QED BY <1>1, <1>2, <1>4 DEF CourtSound

\* No case exists at the start.
LEMMA InitSound == Init => CourtSound
BY DEF Init, CourtSound, CaseSound, Nothing

\* Every step of the evidence, of the API and of the court keeps the cases
\* sound.
LEMMA NextSound == CourtSound /\ [Next]_vars => CourtSound'
<1> SUFFICES ASSUME CourtSound, [Next]_vars PROVE CourtSound'
  OBVIOUS
<1>1. CASE UNCHANGED <<terms, cases, phase>>
  BY <1>1 DEF CourtSound, CaseSound
<1>2. ASSUME NEW u \in Urls, Publish(u) PROVE CourtSound'
  BY <1>1, <1>2 DEF Publish
<1>3. ASSUME NEW k \in Cases, Prepare(k) \/ Deliver(k) PROVE CourtSound'
  BY <1>1, <1>3 DEF Prepare, Deliver
<1>4. ASSUME NEW k \in Cases, SubmitCase(k) \/ Appeal(k) PROVE CourtSound'
  BY <1>4, JudgeSound DEF SubmitCase, Appeal
<1>5. ASSUME NEW k \in Cases, Finalize(k) PROVE CourtSound'
  BY <1>5 DEF Finalize, CourtSound, CaseSound
<1> QED BY <1>1, <1>2, <1>3, <1>4, <1>5 DEF Next, vars

\* Every stored judgment is one that the contract's checks let through.
THEOREM CourtSoundAlways == Spec => []CourtSound
BY InitSound, NextSound, PTL DEF Spec

(***************************************************************************)
(* The properties.                                                         *)
(***************************************************************************)

\* A verdict of FULFILLED pays everything and every criterion passed.
THEOREM FulfilledMeansAllPassedAlways == Spec => []FulfilledMeansAllPassed
<1>1. CourtSound => FulfilledMeansAllPassed
  BY TotalMeansAllPassed
  DEF CourtSound, CaseSound, JudgmentSound, FulfilledMeansAllPassed, Judged
<1> QED BY <1>1, CourtSoundAlways, PTL

\* A criterion passes only on a source the court fetched itself and that has
\* the hash the provider committed to.
THEOREM PassIsProvenAlways == Spec => []PassIsProven
<1>1. ASSUME NEW sources, Provable(sources)
      PROVE  \E i \in DOMAIN sources :
                sources[i].retrieved /\ sources[i].match
  <2>1. PICK refs \in (SUBSET {sources[i].id : i \in DOMAIN sources}) \ {{}} :
                Supports(sources, refs)
    BY <1>1 DEF Provable
  <2> QED BY <2>1 DEF Supports
<1>2. ASSUME CourtSound, NEW k \in Judged, NEW c \in Criteria(terms[k]),
             cases[k].results[c] = "PASS"
      PROVE  \E i \in DOMAIN cases[k].sources :
                cases[k].sources[i].retrieved /\ cases[k].sources[i].match
  <2>1. JudgmentSound(terms[k], cases[k])
    BY <1>2 DEF CourtSound, CaseSound, Judged
  <2>2. c \in With(cases[k], "PASS")
    BY <1>2, <2>1 DEF JudgmentSound, Findings, With
  <2> QED BY <1>1, <2>1, <2>2 DEF JudgmentSound
<1>3. CourtSound => PassIsProven
  BY <1>2 DEF PassIsProven
<1> QED BY <1>3, CourtSoundAlways, PTL

\* The settlement is what the findings are worth, short of the rounding of
\* half weights, and never more.
THEOREM RoundedForPrincipalAlways == Spec => []RoundedForPrincipal
<1>1. ASSUME CourtSound, NEW k \in Judged
      PROVE  TwiceExact(terms[k], cases[k]) - 2 * cases[k].settlementBps
                \in 0 .. Cardinality(With(cases[k], "PARTIAL"))
  <2>1. terms[k] \in Terms /\ JudgmentSound(terms[k], cases[k])
    BY <1>1 DEF CourtSound, CaseSound, Judged
  <2> QED BY <2>1, RoundingBound DEF JudgmentSound
<1>2. CourtSound => RoundedForPrincipal
  BY <1>1 DEF RoundedForPrincipal
<1> QED BY <1>2, CourtSoundAlways, PTL

\* A final judgment stays, however often the case is submitted again.
THEOREM FinalStaysAlways == Spec => FinalStays
<1>1. ASSUME CourtSound, [Next]_vars, NEW k \in Cases, phase[k] = "final"
      PROVE  cases'[k] = cases[k]
  <2>1. cases[k] # Nothing
    BY <1>1 DEF CourtSound, CaseSound
  <2>2. ASSUME NEW n \in Cases, n # k, Judge(n) PROVE cases'[k] = cases[k]
    BY <2>2 DEF Judge
  <2>3. ASSUME NEW n \in Cases, SubmitCase(n) \/ Appeal(n)
        PROVE  cases'[k] = cases[k]
    <3>1. n # k /\ Judge(n)
      BY <1>1, <2>1, <2>3 DEF SubmitCase, Appeal
    <3> QED BY <2>2, <3>1
  <2> QED BY <1>1, <2>3
          DEF Next, Publish, Prepare, Deliver, Finalize, vars
<1>2. CourtSound /\ [Next]_vars
        => [\A k \in Cases : phase[k] = "final" => cases'[k] = cases[k]]_vars
  BY <1>1
<1> QED BY <1>2, CourtSoundAlways, PTL DEF Spec, FinalStays

=============================================================================
