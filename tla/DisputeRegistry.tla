-------------------------- MODULE DisputeRegistry --------------------------
(***************************************************************************)
(* DisputeRegistry.sol: what the court's wallet records of each case.  It  *)
(* trusts the court for the order and the content of the calls: it does    *)
(* not know the mandate, the parties or the GenLayer transaction.          *)
(***************************************************************************)
EXTENDS CourtTypes

VARIABLE cases       \* mandate -> CaseRecord

NoCase ==
    [genlayerTransactionId |-> NoHash, acceptedVerdictHash |-> NoHash,
     finalizedVerdictHash |-> NoHash, principalAppealHash |-> NoHash,
     providerAppealHash |-> NoHash, finalized |-> FALSE]

\* principalAppealed and providerAppealed are "the appeal hash is set", since
\* recordAppeal refuses empty grounds and sets both at once.
CaseRecord ==
    [genlayerTransactionId : GenLayerTxs \cup {NoHash},
     acceptedVerdictHash   : Verdicts \cup {NoHash},
     finalizedVerdictHash  : Verdicts \cup {NoHash},
     principalAppealHash   : Grounds \cup {NoHash},
     providerAppealHash    : Grounds \cup {NoHash},
     finalized             : BOOLEAN]

DisputeTypeOK == cases \in [Mandates -> CaseRecord]

DisputeInit == cases = [m \in Mandates |-> NoCase]

Linked(m) == cases[m].genlayerTransactionId # NoHash

LinkCase(m, tx) ==
    /\ ~Linked(m)
    /\ cases' = [cases EXCEPT ![m].genlayerTransactionId = tx]

RecordAccepted(m, verdict) ==
    /\ Linked(m)
    /\ ~cases[m].finalized
    /\ cases' = [cases EXCEPT ![m].acceptedVerdictHash = verdict]

RecordPrincipalAppeal(m, grounds) ==
    /\ Linked(m)
    /\ ~cases[m].finalized
    /\ cases[m].principalAppealHash = NoHash
    /\ cases' = [cases EXCEPT ![m].principalAppealHash = grounds]

RecordProviderAppeal(m, grounds) ==
    /\ Linked(m)
    /\ ~cases[m].finalized
    /\ cases[m].providerAppealHash = NoHash
    /\ cases' = [cases EXCEPT ![m].providerAppealHash = grounds]

\* Mutant of RecordFinalized: a case is finalized that was never linked.
RecordFinalizedUnlinked(m, verdict) ==
    /\ ~cases[m].finalized
    /\ cases' = [cases EXCEPT ![m].finalized = TRUE,
                              ![m].finalizedVerdictHash = verdict]

RecordFinalized(m, verdict) ==
    /\ Linked(m)
    /\ ~cases[m].finalized
    /\ cases' = [cases EXCEPT ![m].finalized = TRUE,
                              ![m].finalizedVerdictHash = verdict]

=============================================================================
