------------------------------- MODULE Score -------------------------------
(***************************************************************************)
(* The scoring of a campaign: solinv-mutate/src/score.rs, and the triage   *)
(* `solinv mutate exclude' adds to the plan between one `mutate score' and *)
(* the next.  The results are whatever a campaign wrote; a user rules      *)
(* mutants equivalent, one at a time and in any order, and takes the gate  *)
(* again.  A score is kept as the pair killed and denominator, and         *)
(* compared with min_score without rounding.                               *)
(***************************************************************************)
EXTENDS Naturals, FiniteSets

CONSTANTS
    Ids,                   \* the mutant ids of the plan
    ExpectedKiller,        \* MutantResult::expected_killer
    Detectors,
    MinKilled, MinOf,      \* min_score is MinKilled / MinOf
    MinReached             \* KillCriterion::min_reached

NoEvidence == {"not_reached", "build_failed", "harness_error"}
Outcomes == {"survived"} \cup NoEvidence

ASSUME ScoreAssumption ==
    /\ IsFiniteSet(Ids)
    /\ ExpectedKiller \in [Ids -> Detectors]
    /\ Detectors \cap Outcomes = {}
    /\ MinKilled \in Nat /\ MinOf \in Nat \ {0} /\ MinReached \in Nat

VARIABLES
    results,      \* results.json: an outcome for each mutant, or its killer
    equivalent    \* Campaign::equivalent

vars == <<results, equivalent>>

-----------------------------------------------------------------------------
Killed(S) == {m \in S : results[m] \in Detectors}
Survived(S) == {m \in S : results[m] = "survived"}

\* Score::tally over the results of the mutants in S.
Tally(S) ==
    [killed |-> Cardinality(Killed(S)),
     byExpected |-> Cardinality({m \in Killed(S) : results[m] = ExpectedKiller[m]}),
     survived |-> Cardinality(Survived(S)),
     denominator |-> Cardinality(Killed(S)) + Cardinality(Survived(S))]

\* Only an exclusion that names a survivor is honoured.
Excluded == {m \in equivalent : results[m] = "survived"}

Scored == Ids \ Excluded

\* score >= min_score; a score of no mutants counts as 0.
Reaches(s) ==
    IF s.denominator = 0 THEN MinKilled = 0
    ELSE s.killed * MinOf >= MinKilled * s.denominator

EvaluateScoreFirst(s) ==
    IF Reaches(s) THEN "PASS"
    ELSE IF s.denominator < MinReached THEN "INCONCLUSIVE" ELSE "FAIL"

\* KillCriterion::evaluate.
Evaluate(s) ==
    IF s.denominator < MinReached THEN "INCONCLUSIVE"
    ELSE IF Reaches(s) THEN "PASS" ELSE "FAIL"

RawScore == Tally(Ids)
AdjustedScore == Tally(Scored)
Gate == Evaluate(AdjustedScore)

-----------------------------------------------------------------------------
Init ==
    /\ results \in [Ids -> Detectors \cup Outcomes]
    /\ equivalent = {}

\* `mutate exclude': any id of the plan, whatever its result.
Exclude == \E m \in Ids :
    /\ equivalent' = equivalent \cup {m}
    /\ UNCHANGED results

Next == Exclude
Spec == Init /\ [][Next]_vars

-----------------------------------------------------------------------------
(* Properties.                                                             *)

\* The results stay as the campaign wrote them, and triage is of the plan.
TypeOK ==
    /\ results \in [Ids -> Detectors \cup Outcomes]
    /\ equivalent \subseteq Ids

\* No exclusion takes a kill out of the score, and none lowers the score: it
\* is the raw score with survivors taken from the denominator.
ExclusionsKeepKills ==
    /\ AdjustedScore.killed = RawScore.killed
    /\ AdjustedScore.byExpected = RawScore.byExpected
    /\ AdjustedScore.killed * RawScore.denominator
          >= RawScore.killed * AdjustedScore.denominator

\* Ruling mutants equivalent never makes an inconclusive campaign conclusive,
\* nor a passed one failed.
TriageNeverConcludes ==
    [][/\ Gate = "INCONCLUSIVE" => Gate' = "INCONCLUSIVE"
       /\ Gate = "PASS" => Gate' # "FAIL"]_vars

\* A verdict rests on a mutant that was put to the detectors.  score.rs:219:
\* "`denominator >= min_reached >= 1` here, so a score exists."
VerdictNeedsEvidence == Gate # "INCONCLUSIVE" => AdjustedScore.denominator >= 1

=============================================================================
