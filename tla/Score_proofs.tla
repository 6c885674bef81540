---------------------------- MODULE Score_proofs ----------------------------
(***************************************************************************)
(* Theorems about Score, for every plan, every outcome of a campaign and   *)
(* every criterion.                                                        *)
(***************************************************************************)
EXTENDS Score, FiniteSetTheorems, TLAPS

LEMMA TypesStep == TypeOK /\ [Next]_vars => TypeOK'
BY DEF TypeOK, Next, Exclude, vars

\* The results are never rewritten, and triage only names mutants of the plan.
THEOREM TypesAlways == Spec => []TypeOK
<1>1. Init => TypeOK
  BY DEF Init, TypeOK
<1> QED BY <1>1, TypesStep, PTL DEF Spec

-----------------------------------------------------------------------------
(* Counting.                                                               *)

LEMMA Counted ==
    ASSUME NEW S \in SUBSET Ids
    PROVE  IsFiniteSet(S) /\ Cardinality(S) \in Nat
BY ScoreAssumption, FS_Subset, FS_CardinalityType

LEMMA CountedMore ==
    ASSUME NEW S \in SUBSET Ids, NEW T \in SUBSET S
    PROVE  Cardinality(T) <= Cardinality(S)
BY Counted, FS_Subset

LEMMA TimesMore ==
    ASSUME NEW a \in Nat, NEW b \in Nat, NEW c \in Nat, b <= c
    PROVE  a * b <= a * c
<1>1. PICK d \in Nat : c = b + d
  <2>1. c - b \in Nat /\ c = b + (c - b)
    OBVIOUS
  <2> QED BY <2>1
<1>2. a * d \in Nat /\ a * c = a * b + a * d
  BY <1>1
<1> QED BY <1>2

\* An exclusion takes survivors, and only survivors, out of the score.
LEMMA KilledStay ==
    /\ Killed(Scored) = Killed(Ids)
    /\ {m \in Killed(Scored) : results[m] = ExpectedKiller[m]}
           = {m \in Killed(Ids) : results[m] = ExpectedKiller[m]}
<1>1. Killed(Scored) = Killed(Ids)
  BY ScoreAssumption DEF Killed, Scored, Excluded, Outcomes
<1> QED BY <1>1

-----------------------------------------------------------------------------
\* Whatever is ruled equivalent, the adjusted score counts every kill of the
\* raw one and is not below it.
THEOREM ExclusionsKeepKillsAlways == Spec => []ExclusionsKeepKills
<1>1. ExclusionsKeepKills
  <2> DEFINE killed == Cardinality(Killed(Ids))
             before == Cardinality(Survived(Ids))
             after == Cardinality(Survived(Scored))
  <2>1. killed \in Nat /\ before \in Nat /\ after \in Nat /\ after <= before
    <3>1. /\ Killed(Ids) \in SUBSET Ids /\ Survived(Ids) \in SUBSET Ids
          /\ Survived(Scored) \in SUBSET Survived(Ids)
      BY DEF Killed, Survived, Scored
    <3>2. Survived(Scored) \in SUBSET Ids
      BY <3>1
    <3> QED BY <3>1, <3>2, Counted, CountedMore
  <2>2. /\ RawScore.killed = killed /\ AdjustedScore.killed = killed
        /\ RawScore.byExpected = AdjustedScore.byExpected
        /\ RawScore.denominator = killed + before
        /\ AdjustedScore.denominator = killed + after
    BY KilledStay DEF RawScore, AdjustedScore, Tally
  <2> HIDE DEF killed, before, after
  <2>3. killed * (killed + after) <= killed * (killed + before)
    BY <2>1, TimesMore
  <2> QED BY <2>1, <2>2, <2>3 DEF ExclusionsKeepKills
<1> QED BY <1>1, PTL

\* The gate after a triage of the same results.
LEMMA TriageStep ==
    ASSUME Next
    PROVE  /\ AdjustedScore'.killed = AdjustedScore.killed
           /\ AdjustedScore'.denominator <= AdjustedScore.denominator
           /\ AdjustedScore.killed \in Nat
           /\ AdjustedScore.denominator \in Nat /\ AdjustedScore'.denominator \in Nat
           /\ AdjustedScore.killed <= AdjustedScore'.denominator
<1> DEFINE killed == Cardinality(Killed(Ids))
           before == Cardinality(Survived(Scored))
           after == Cardinality(Survived(Scored)')
<1>1. results' = results /\ Scored' \subseteq Scored
  BY DEF Next, Exclude, Scored, Excluded
<1>2. Killed(Ids)' = Killed(Ids) /\ Killed(Scored)' = Killed(Ids)'
  <2>1. Killed(Ids)' = Killed(Ids)
    BY <1>1 DEF Killed
  <2>2. Killed(Scored)' = Killed(Ids)'
    BY ScoreAssumption DEF Killed, Scored, Excluded, Outcomes
  <2> QED BY <2>1, <2>2
<1>3. killed \in Nat /\ before \in Nat /\ after \in Nat /\ after <= before
  <2>1. /\ Killed(Ids) \in SUBSET Ids /\ Survived(Scored) \in SUBSET Ids
        /\ Survived(Scored)' \in SUBSET Survived(Scored)
    BY <1>1 DEF Killed, Survived, Scored
  <2>2. Survived(Scored)' \in SUBSET Ids
    BY <2>1
  <2> QED BY <2>1, <2>2, Counted, CountedMore
<1>4. AdjustedScore.killed = killed /\ AdjustedScore.denominator = killed + before
  BY KilledStay DEF AdjustedScore, Tally
<1>5. AdjustedScore'.killed = killed /\ AdjustedScore'.denominator = killed + after
  BY <1>2 DEF AdjustedScore, Tally
<1> HIDE DEF killed, before, after
<1> QED BY <1>3, <1>4, <1>5

\* A score that reaches the bar reaches it with fewer survivors.
LEMMA ReachesFewer ==
    ASSUME NEW s, NEW t, Reaches(s),
           s.killed \in Nat, s.denominator \in Nat, t.denominator \in Nat,
           t.killed = s.killed, t.denominator <= s.denominator,
           s.killed <= t.denominator
    PROVE  Reaches(t)
<1>1. MinKilled \in Nat /\ MinOf \in Nat \ {0}
  BY ScoreAssumption
<1>2. CASE s.denominator = 0
  BY <1>1, <1>2 DEF Reaches
<1>3. CASE s.denominator # 0 /\ t.denominator = 0
  <2>1. s.killed = 0
    BY <1>3
  <2>2. s.killed * MinOf = 0
    BY <2>1, <1>1
  <2>3. 0 >= MinKilled * s.denominator
    BY <1>3, <2>2 DEF Reaches
  <2>4. MinKilled = 0
    <3>1. s.denominator >= 1 /\ 1 \in Nat
      BY <1>3
    <3>2. MinKilled * 1 <= MinKilled * s.denominator
      BY <1>1, <3>1, TimesMore
    <3> QED BY <1>1, <2>3, <3>2
  <2> QED BY <1>3, <2>4 DEF Reaches
<1>4. CASE s.denominator # 0 /\ t.denominator # 0
  <2>1. MinKilled * t.denominator <= MinKilled * s.denominator
    BY <1>1, TimesMore
  <2>2. s.killed * MinOf >= MinKilled * s.denominator
    BY <1>4 DEF Reaches
  <2>3. /\ s.killed * MinOf \in Nat /\ MinKilled * s.denominator \in Nat
        /\ MinKilled * t.denominator \in Nat
    BY <1>1
  <2>4. s.killed * MinOf >= MinKilled * t.denominator
    BY <2>1, <2>2, <2>3
  <2> QED BY <1>4, <2>4 DEF Reaches
<1> QED BY <1>2, <1>3, <1>4

\* However mutants are ruled equivalent, no campaign that learnt nothing comes
\* to a verdict by it, and none that passed comes to fail.
THEOREM TriageNeverConcludesAlways == Spec => TriageNeverConcludes
<1> DEFINE s == AdjustedScore
           Kept == /\ Gate = "INCONCLUSIVE" => Gate' = "INCONCLUSIVE"
                   /\ Gate = "PASS" => Gate' # "FAIL"
<1>1. ASSUME Next PROVE Kept
  <2>1. /\ s'.killed = s.killed /\ s'.denominator <= s.denominator
        /\ s.killed \in Nat /\ s.denominator \in Nat /\ s'.denominator \in Nat
        /\ s.killed <= s'.denominator
    BY <1>1, TriageStep
  <2>2. Gate = Evaluate(s) /\ Gate' = Evaluate(s')
    BY DEF Gate, Evaluate, Reaches
  <2>3. MinReached \in Nat
    BY ScoreAssumption
  <2> HIDE DEF s
  <2>4. ASSUME Gate = "INCONCLUSIVE" PROVE Gate' = "INCONCLUSIVE"
    <3>1. s.denominator < MinReached
      BY <2>2, <2>4 DEF Evaluate
    <3>2. s'.denominator < MinReached
      BY <2>1, <2>3, <3>1
    <3> QED BY <2>2, <3>2 DEF Evaluate
  <2>5. ASSUME Gate = "PASS" PROVE Gate' # "FAIL"
    <3>1. Reaches(s)
      BY <2>2, <2>5 DEF Evaluate
    <3>2. Reaches(s')
      BY <2>1, <3>1, ReachesFewer
    <3> QED BY <2>2, <3>2 DEF Evaluate
  <2> QED BY <2>4, <2>5
<1>2. [Next]_vars => [Kept]_vars
  BY <1>1
<1> QED BY <1>2, PTL DEF Spec, TriageNeverConcludes

\* With a bar of at least one reached mutant, which the comment at
\* score.rs:219 takes for granted, there is a score behind every verdict.
THEOREM VerdictNeedsEvidenceAlways ==
    ASSUME MinReached >= 1
    PROVE  Spec => []VerdictNeedsEvidence
<1>1. VerdictNeedsEvidence
  <2>1. AdjustedScore.denominator \in Nat
    <3>1. Killed(Scored) \in SUBSET Ids /\ Survived(Scored) \in SUBSET Ids
      BY DEF Killed, Survived, Scored
    <3> QED BY <3>1, Counted DEF AdjustedScore, Tally
  <2>2. MinReached \in Nat
    BY ScoreAssumption
  <2>3. Gate # "INCONCLUSIVE" => ~(AdjustedScore.denominator < MinReached)
    BY DEF Gate, Evaluate
  <2> HIDE DEF AdjustedScore
  <2> QED BY <2>1, <2>2, <2>3 DEF VerdictNeedsEvidence
<1> QED BY <1>1, PTL

=============================================================================
