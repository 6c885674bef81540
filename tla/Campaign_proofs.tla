--------------------------- MODULE Campaign_proofs ---------------------------
(***************************************************************************)
(* Theorems about Campaign, for every plan, every program and any number   *)
(* of crashes and reruns.                                                  *)
(***************************************************************************)
EXTENDS Campaign, SequenceTheorems, FiniteSetTheorems, TLAPS

\* A module a mutation is in, as a fact about the files.
Own(f, text) == \A m \in text : FileOf[m] = f

\* Each file holds mutations of its own, and so does the copy of it.
OwnFiles ==
    /\ \A f \in Files : Own(f, source[f])
    /\ pc \in {"apply", "build", "restore"} =>
          \A text \in orig : Own(FileOf[Current], text)

\* While a mutant is being tried, its file carries it and nothing else ...
Patched == pc \in {"build", "restore"} => source[FileOf[Current]] = {Current}

\* ... and from its build to its run, so does the deployed program.
Alone(program, m) == {n \in program : FileOf[n] = FileOf[m]} = {m}
Deployed == pc \in {"restore", "run"} => Alone(so, Current)

Log == [fired : SUBSET Detectors, reached : SUBSET Ixs]
Verdict == [outcome : Outcome, by : Detectors \cup {Nobody}]

TrialInv == TypeOK /\ OwnFiles /\ Patched /\ Deployed /\ TriedItsMutant

-----------------------------------------------------------------------------
LEMMA CurrentIsMutant ==
    ASSUME TypeOK, next <= Len(Plan)
    PROVE  Current \in Mutants /\ FileOf[Current] \in Files
BY CampaignAssumption DEF TypeOK, Current

\* Writing an outcome down keeps the results and the position typed.
LEMMA Written ==
    ASSUME TypeOK, next <= Len(Plan),
           NEW o \in Verdict,
           NEW program \in SUBSET Mutants,
           NEW executed \in SUBSET Ixs,
           Write(o, program, executed)
    PROVE  /\ results' \in Seq(Result) /\ next' \in 1..(Len(Plan) + 1) /\ pc' = "save"
           /\ Results' = Results \cup {Entry(o, program, executed)}
           /\ Len(results') = Len(results) + 1
           /\ \A i \in DOMAIN results' :
                results'[i].mutant = IF i \in DOMAIN results THEN results[i].mutant ELSE Current
<1> DEFINE r == Entry(o, program, executed)
<1>1. r \in Result /\ r.mutant = Current
  BY CurrentIsMutant DEF Result, Entry, Verdict
<1>2. results' = Append(results, r) /\ next' = next + 1 /\ pc' = "save"
  BY DEF Write
<1>3. results \in Seq(Result) /\ next \in 1..(Len(Plan) + 1) /\ Len(Plan) \in Nat
  BY CampaignAssumption DEF TypeOK
<1> HIDE DEF r
<1>4. results' \in Seq(Result) /\ Len(results') = Len(results) + 1
  BY <1>1, <1>2, <1>3
<1>5. \A i \in 1..Len(results) : results'[i] = results[i]
  BY <1>1, <1>2, <1>3
<1>6. results'[Len(results) + 1] = r
  BY <1>1, <1>2, <1>3
<1>7. DOMAIN results' = 1..(Len(results) + 1) /\ DOMAIN results = 1..Len(results)
      /\ Len(results) \in Nat
  BY <1>3, <1>4
<1>8. Results' = Results \cup {r}
  BY <1>5, <1>6, <1>7 DEF Results
<1>9. \A i \in DOMAIN results' :
        results'[i].mutant = IF i \in DOMAIN results THEN results[i].mutant ELSE Current
  BY <1>1, <1>5, <1>6, <1>7
<1>10. next' \in 1..(Len(Plan) + 1)
  BY <1>2, <1>3
<1> QED BY <1>2, <1>4, <1>8, <1>9, <1>10 DEF r

LEMMA TripsTyped ==
    ASSUME NEW program \in SUBSET Mutants
    PROVE  Trips(program) \subseteq Detectors
BY CampaignAssumption DEF Trips

\* A log is typed, and a typed program's log fires detectors.
LEMMA LogTyped ==
    ASSUME NEW program \in SUBSET Mutants, NEW log \in Logs(program)
    PROVE  /\ log \in Log
           /\ log.fired \subseteq Trips(program)
<1>1. Trips(program) \subseteq Detectors
  BY TripsTyped
<1>2. CASE log = Silence
  BY <1>2 DEF Silence, Log
<1>3. CASE log # Silence
  <2>1. PICK F \in SUBSET Trips(program), R \in SUBSET Ixs :
          log = [fired |-> F, reached |-> R]
    BY <1>3 DEF Logs
  <2> QED BY <1>1, <2>1 DEF Log
<1> QED BY <1>2, <1>3

LEMMA FirstIsIn ==
    ASSUME NEW S \in SUBSET Detectors, S # {}
    PROVE  FirstSorted(S) \in S
BY CampaignAssumption DEF FirstSorted

\* What Classify says, and whom it credits.
LEMMA Classified ==
    ASSUME TypeOK, NEW m,
           NEW score \in Log,
           NEW reach \in Log
    PROVE  /\ Classify(m, score, reach) \in Verdict
           /\ Classify(m, score, reach).outcome = "killed" =>
                Classify(m, score, reach).by \in Added(score)
<1>1. Added(score) \in SUBSET Detectors
  BY DEF Added, Log
<1>2. CASE Added(score) # {}
  <2>1. FirstSorted(Added(score)) \in Added(score)
    BY <1>1, <1>2, FirstIsIn
  <2> QED BY <1>1, <1>2, <2>1 DEF Classify, Outcome, Verdict
<1>3. CASE Added(score) = {}
  BY <1>3 DEF Classify, Outcome, Unjudged, Verdict
<1> QED BY <1>2, <1>3

-----------------------------------------------------------------------------
(* What each step of the script preserves.                                 *)

LEMMA WrittenTrial ==
    ASSUME TrialInv, next <= Len(Plan), pc \in {"apply", "build", "run"},
           NEW o \in Verdict,
           NEW program \in SUBSET Mutants,
           NEW executed \in SUBSET Ixs,
           o.outcome # "build_failed" => Alone(program, Current),
           Write(o, program, executed),
           source' \in [Files -> SUBSET Mutants],
           \A f \in Files : Own(f, source'[f]),
           UNCHANGED <<so, orig, baseline, closed, unshown, crashes, reruns>>
    PROVE  TrialInv'
<1>1. /\ results' \in Seq(Result) /\ next' \in 1..(Len(Plan) + 1) /\ pc' = "save"
      /\ Results' = Results \cup {Entry(o, program, executed)}
  BY Written DEF TrialInv
<1>2. TypeOK'
  BY <1>1 DEF TrialInv, TypeOK
<1>3. TriedItsMutant'
  BY <1>1 DEF TrialInv, TriedItsMutant, Alone, Entry
<1> QED BY <1>1, <1>2, <1>3 DEF TrialInv, OwnFiles, Patched, Deployed, Own

\* Restoring puts back a text of the file's own.
LEMMA Restored ==
    ASSUME TrialInv, pc \in {"apply", "build", "restore"}, Restore
    PROVE  source' \in [Files -> SUBSET Mutants] /\ \A f \in Files : Own(f, source'[f])
<1>1. Current \in Mutants /\ FileOf[Current] \in Files
  BY CurrentIsMutant DEF TrialInv, TypeOK
<1>2. PICK text \in orig : source' = [source EXCEPT ![FileOf[Current]] = text]
  BY DEF Restore
<1> QED BY <1>1, <1>2 DEF TrialInv, TypeOK, OwnFiles, Own

LEMMA BuildFailedTrial ==
    ASSUME TrialInv, pc \in {"apply", "build"}, WriteBuildFailed,
           UNCHANGED <<so, orig, baseline, closed, unshown, crashes, reruns>>
    PROVE  TrialInv'
<1> DEFINE o == Unjudged("build_failed")
<1>1. o \in Verdict /\ o.outcome = "build_failed"
  BY DEF Unjudged, Outcome, Verdict
<1>2. next <= Len(Plan)
  BY DEF TrialInv, TypeOK
<1>3. source' \in [Files -> SUBSET Mutants] /\ \A f \in Files : Own(f, source'[f])
  BY Restored DEF WriteBuildFailed
<1>4. Write(o, {}, {})
  BY DEF WriteBuildFailed
<1>5. {} \in SUBSET Mutants /\ {} \in SUBSET Ixs
  OBVIOUS
<1> HIDE DEF o
<1> QED BY <1>1, <1>2, <1>3, <1>4, <1>5, WrittenTrial

LEMMA BuildTrial ==
    ASSUME TrialInv, BuildMutant
    PROVE  TrialInv'
<1>0. pc = "build"
  BY DEF BuildMutant
<1>1. CASE Compiles(Contents)
  <2>1. /\ pc' = "restore" /\ so' = Contents
        /\ UNCHANGED <<source, next, results, orig, baseline, closed, unshown, crashes, reruns>>
    BY <1>1 DEF BuildMutant, counters
  <2>2. Contents \subseteq Mutants
    BY DEF Contents, TrialInv, TypeOK
  <2>3. Current \in Mutants /\ FileOf[Current] \in Files
    BY <1>0, CurrentIsMutant DEF TrialInv, TypeOK
  <2>4. source[FileOf[Current]] = {Current}
    BY <1>0 DEF TrialInv, Patched
  <2>5. Alone(Contents, Current)
    <3>1. \A n \in Contents : FileOf[n] = FileOf[Current] => n = Current
      BY <2>4 DEF Contents, TrialInv, OwnFiles, Own
    <3>2. Current \in Contents
      BY <2>3, <2>4 DEF Contents
    <3> QED BY <3>1, <3>2 DEF Alone
  <2>6. Current' = Current
    BY <2>1 DEF Current
  <2>7. TypeOK'
    BY <1>0, <2>1, <2>2 DEF TrialInv, TypeOK
  <2>8. OwnFiles' /\ Patched' /\ Deployed'
    BY <1>0, <2>1, <2>4, <2>5, <2>6 DEF TrialInv, OwnFiles, Own, Patched, Deployed
  <2>9. TriedItsMutant'
    BY <2>1 DEF TrialInv, TriedItsMutant, Results
  <2> QED BY <2>7, <2>8, <2>9 DEF TrialInv
<1>2. CASE ~Compiles(Contents)
  BY <1>0, <1>2, BuildFailedTrial DEF BuildMutant, counters
<1> QED BY <1>1, <1>2

LEMMA ApplyTrial ==
    ASSUME TrialInv, ApplyMutant
    PROVE  TrialInv'
<1>0. pc = "apply"
  BY DEF ApplyMutant
<1>1. CASE source[FileOf[Current]] = {}
  <2>1. /\ pc' = "build" /\ source' = [source EXCEPT ![FileOf[Current]] = {Current}]
        /\ UNCHANGED <<so, orig, next, baseline, results, closed, unshown, crashes, reruns>>
    BY <1>1 DEF ApplyMutant, counters
  <2>2. Current \in Mutants /\ FileOf[Current] \in Files
    BY <1>0, CurrentIsMutant DEF TrialInv, TypeOK
  <2>3. Current' = Current
    BY <2>1 DEF Current
  <2>4. TypeOK'
    BY <1>0, <2>1, <2>2 DEF TrialInv, TypeOK
  <2>5. OwnFiles' /\ Patched' /\ Deployed'
    BY <1>0, <2>1, <2>2, <2>3 DEF TrialInv, TypeOK, OwnFiles, Own, Patched, Deployed
  <2>6. TriedItsMutant'
    BY <2>1 DEF TrialInv, TriedItsMutant, Results
  <2> QED BY <2>4, <2>5, <2>6 DEF TrialInv
<1>2. CASE source[FileOf[Current]] # {}
  BY <1>0, <1>2, BuildFailedTrial DEF ApplyMutant, counters
<1> QED BY <1>1, <1>2

LEMMA RunTrial ==
    ASSUME TrialInv, RunMutant
    PROVE  TrialInv'
<1>1. PICK score \in Logs(so), reach \in Logs(so) :
        /\ pc = "run"
        /\ Write(Classify(Current, score, reach), so, score.reached \cup reach.reached)
        /\ UNCHANGED <<source, so, orig, baseline, closed, unshown, crashes, reruns>>
  BY DEF RunMutant, counters
<1>2. so \in SUBSET Mutants /\ next <= Len(Plan)
  BY <1>1 DEF TrialInv, TypeOK
<1>3. /\ score \in Log
      /\ reach \in Log
  BY <1>2, LogTyped
<1>4. Classify(Current, score, reach) \in Verdict
  BY <1>3, Classified DEF TrialInv
<1>5. score.reached \cup reach.reached \in SUBSET Ixs
  BY <1>3 DEF Log
<1>6. Alone(so, Current)
  BY <1>1 DEF TrialInv, Deployed
<1>7. source' \in [Files -> SUBSET Mutants] /\ \A f \in Files : Own(f, source'[f])
  BY <1>1 DEF TrialInv, TypeOK, OwnFiles, Own
<1> HIDE DEF TrialInv
<1> QED BY <1>1, <1>2, <1>3, <1>4, <1>5, <1>6, <1>7, WrittenTrial

LEMMA RestoreTrial ==
    ASSUME TrialInv, RestoreSource
    PROVE  TrialInv'
<1>1. /\ pc = "restore" /\ Restore /\ pc' = "run"
      /\ UNCHANGED <<so, orig, next, baseline, results, closed, unshown, crashes, reruns>>
  BY DEF RestoreSource, counters
<1>2. source' \in [Files -> SUBSET Mutants] /\ \A f \in Files : Own(f, source'[f])
  BY <1>1, Restored
<1>3. Current' = Current /\ Results' = Results
  BY <1>1 DEF Current, Results
<1>4. TypeOK'
  BY <1>1, <1>2 DEF TrialInv, TypeOK
<1> QED BY <1>1, <1>2, <1>3, <1>4
        DEF TrialInv, OwnFiles, Own, Patched, Deployed, TriedItsMutant

LEMMA OtherTrial ==
    ASSUME TrialInv,
           \/ BuildBaseline \/ RunBaseline \/ SaveSource \/ Close
           \/ Crash \/ Rerun \/ UNCHANGED vars
    PROVE  TrialInv'
<1>1. CASE BuildBaseline
  <2>1. Contents \subseteq Mutants
    BY DEF Contents, TrialInv, TypeOK
  <2> QED BY <1>1, <2>1 DEF BuildBaseline, counters, TrialInv, TypeOK, OwnFiles, Own,
          Patched, Deployed, TriedItsMutant, Results
<1>2. CASE RunBaseline
  <2>1. PICK reach \in Logs(so), score \in Logs(so) :
          /\ pc = "baseline"
          /\ IF reach.reached = {}
             THEN pc' = "refused" /\ UNCHANGED <<next, baseline, results, closed, unshown>>
             ELSE /\ pc' = "save" /\ next' = 1 /\ baseline' = score.fired
                  /\ results' = <<>> /\ closed' = FALSE
                  /\ unshown' = Trips(so) \ score.fired
          /\ UNCHANGED <<source, so, orig, crashes, reruns>>
    BY <1>2 DEF RunBaseline, counters
  <2>2. score.fired \in SUBSET Detectors /\ Trips(so) \subseteq Detectors
    BY LogTyped, TripsTyped DEF TrialInv, TypeOK, Log
  <2>3. Len(Plan) \in Nat
    BY CampaignAssumption
  <2>4. CASE reach.reached = {}
    BY <2>1, <2>4 DEF TrialInv, TypeOK, OwnFiles, Own, Patched, Deployed,
       TriedItsMutant, Results
  <2>5. CASE reach.reached # {}
    <3>1. results' = <<>> /\ Results' = {}
      BY <2>1, <2>5 DEF Results
    <3>2. <<>> \in Seq(Result)
      OBVIOUS
    <3>3. results' \in Seq(Result) /\ next' \in 1..(Len(Plan) + 1)
      BY <2>1, <2>3, <2>5, <3>1, <3>2
    <3>4. TypeOK'
      BY <2>1, <2>2, <2>5, <3>3 DEF TrialInv, TypeOK
    <3> QED BY <2>1, <2>5, <3>1, <3>4 DEF TrialInv, OwnFiles, Own,
            Patched, Deployed, TriedItsMutant
  <2> QED BY <2>4, <2>5
<1>3. CASE SaveSource
  <2>1. Current \in Mutants /\ FileOf[Current] \in Files
    BY <1>3, CurrentIsMutant DEF SaveSource, TrialInv
  <2>2. Current' = Current /\ Results' = Results
    BY <1>3 DEF SaveSource, Current, Results
  <2>3. source[FileOf[Current]] \in SUBSET Mutants
    BY <2>1 DEF TrialInv, TypeOK
  <2> QED BY <1>3, <2>1, <2>2, <2>3 DEF SaveSource, counters, TrialInv, TypeOK,
          OwnFiles, Own, Patched, Deployed, TriedItsMutant
<1>4. CASE Close
  BY <1>4 DEF Close, runState, counters, TrialInv, TypeOK, OwnFiles, Own, Patched,
     Deployed, TriedItsMutant, Results
<1>5. CASE Crash \/ Rerun
  BY <1>5 DEF Crash, Rerun, TrialInv, TypeOK, OwnFiles, Own, Patched, Deployed,
     TriedItsMutant, Results
<1>6. CASE UNCHANGED vars
  <2>1. UNCHANGED <<source, so, orig, next, baseline, pc, results, closed, unshown>>
        /\ UNCHANGED <<crashes, reruns>>
    BY <1>6 DEF vars, runState
  <2>2. Current' = Current /\ Results' = Results
    BY <2>1 DEF Current, Results
  <2>3. TypeOK'
    BY <2>1 DEF TrialInv, TypeOK
  <2> QED BY <2>1, <2>2, <2>3 DEF TrialInv, OwnFiles, Own, Patched, Deployed, TriedItsMutant
<1> QED BY <1>1, <1>2, <1>3, <1>4, <1>5, <1>6

LEMMA TrialInit == Init => TrialInv
<1> SUFFICES ASSUME Init PROVE TrialInv
  OBVIOUS
<1>1. results = <<>> /\ Results = {}
  BY DEF Init, Results
<1>2. Len(Plan) \in Nat /\ <<>> \in Seq(Result)
  BY CampaignAssumption
<1>3. results \in Seq(Result)
  BY <1>1, <1>2
<1>4. next \in 1..(Len(Plan) + 1)
  BY <1>2 DEF Init
<1>5. TypeOK
  BY <1>3, <1>4 DEF Init, TypeOK
<1> QED BY <1>1, <1>5 DEF Init, TrialInv, OwnFiles, Own, Patched, Deployed,
        TriedItsMutant

LEMMA TrialNext == TrialInv /\ [Next]_vars => TrialInv'
<1> SUFFICES ASSUME TrialInv, [Next]_vars PROVE TrialInv'
  OBVIOUS
<1> QED BY ApplyTrial, BuildTrial, RestoreTrial, RunTrial, OtherTrial
        DEF Next, Script, Over

\* Every variable keeps its type, and the script never restores a file that
\* it has not saved.
THEOREM TypesAlways == Spec => []TypeOK
<1>1. TrialInv => TypeOK
  BY DEF TrialInv
<1> QED BY <1>1, TrialInit, TrialNext, PTL DEF Spec

\* Whatever was killed and started again, an outcome was read off a program
\* that carries the mutant and no other mutation of its file.
THEOREM TriedItsMutantAlways == Spec => []TriedItsMutant
<1>1. TrialInv => TriedItsMutant
  BY DEF TrialInv
<1> QED BY <1>1, TrialInit, TrialNext, PTL DEF Spec

-----------------------------------------------------------------------------
(* results.json is written in the order of the plan.                       *)

Running == pc \in {"save", "apply", "build", "restore", "run"}

\* So far the results are of the mutants up to the current one.
InOrder ==
    Running => /\ ~closed
              /\ Len(results) = next - 1
              /\ \A i \in DOMAIN results : results[i].mutant = Plan[i]

OrderInv == TypeOK /\ InOrder /\ OnlyCompleteIsScored

LEMMA WrittenInOrder ==
    ASSUME OrderInv, next <= Len(Plan), pc \in {"apply", "build", "run"},
           NEW o \in Verdict, NEW program \in SUBSET Mutants,
           NEW executed \in SUBSET Ixs,
           Write(o, program, executed),
           UNCHANGED closed
    PROVE  InOrder' /\ OnlyCompleteIsScored'
<1>1. /\ Len(results') = Len(results) + 1 /\ results' \in Seq(Result)
      /\ \A i \in DOMAIN results' :
           results'[i].mutant = IF i \in DOMAIN results THEN results[i].mutant ELSE Current
  BY Written DEF OrderInv
<1>2. next' = next + 1
  BY DEF Write
<1>3. results \in Seq(Result) /\ next \in Nat /\ ~closed /\ Len(results) = next - 1
  BY CampaignAssumption DEF OrderInv, TypeOK, InOrder, Running
<1>4. DOMAIN results' = 1..next /\ DOMAIN results = 1..(next - 1)
  BY <1>1, <1>3
<1>5. ASSUME NEW i \in DOMAIN results' PROVE results'[i].mutant = Plan[i]
  <2>1. CASE i \in DOMAIN results
    BY <1>1, <2>1 DEF OrderInv, InOrder, Running
  <2>2. CASE i \notin DOMAIN results
    <3>1. i = next
      BY <1>3, <1>4, <2>2
    <3> QED BY <1>1, <2>2, <3>1 DEF Current
  <2> QED BY <2>1, <2>2
<1> QED BY <1>1, <1>2, <1>3, <1>5 DEF InOrder, OnlyCompleteIsScored

LEMMA BuildFailedInOrder ==
    ASSUME OrderInv, pc \in {"apply", "build"}, WriteBuildFailed, UNCHANGED closed
    PROVE  InOrder' /\ OnlyCompleteIsScored'
<1> DEFINE o == Unjudged("build_failed")
<1>1. o \in Verdict
  BY DEF Unjudged, Outcome, Verdict
<1>2. next <= Len(Plan)
  BY DEF OrderInv, TypeOK
<1>3. Write(o, {}, {})
  BY DEF WriteBuildFailed
<1>4. {} \in SUBSET Mutants /\ {} \in SUBSET Ixs
  OBVIOUS
<1> HIDE DEF o
<1> QED BY <1>1, <1>2, <1>3, <1>4, WrittenInOrder

LEMMA RunInOrder ==
    ASSUME OrderInv, RunMutant
    PROVE  InOrder' /\ OnlyCompleteIsScored'
<1>1. PICK score \in Logs(so), reach \in Logs(so) :
        /\ pc = "run"
        /\ Write(Classify(Current, score, reach), so, score.reached \cup reach.reached)
        /\ UNCHANGED closed
  BY DEF RunMutant
<1>2. so \in SUBSET Mutants /\ next <= Len(Plan)
  BY <1>1 DEF OrderInv, TypeOK
<1>3. score \in Log /\ reach \in Log
  BY <1>2, LogTyped
<1>4. Classify(Current, score, reach) \in Verdict
  BY <1>3, Classified DEF OrderInv
<1>5. score.reached \cup reach.reached \in SUBSET Ixs
  BY <1>3 DEF Log
<1> HIDE DEF OrderInv
<1> QED BY <1>1, <1>2, <1>3, <1>4, <1>5, WrittenInOrder

LEMMA CloseInOrder ==
    ASSUME OrderInv, Close
    PROVE  InOrder' /\ OnlyCompleteIsScored'
<1>1. pc = "save" /\ next > Len(Plan) /\ pc' = "done" /\ UNCHANGED results
  BY DEF Close
<1>2. next = Len(Plan) + 1 /\ Len(Plan) \in Nat /\ Plan \in Seq(Mutants)
  BY <1>1, CampaignAssumption DEF OrderInv, TypeOK
<1>3. /\ Len(results) = Len(Plan) /\ results \in Seq(Result)
      /\ \A i \in DOMAIN results : results[i].mutant = Plan[i]
  BY <1>1, <1>2 DEF OrderInv, TypeOK, InOrder, Running
<1>4. DOMAIN results = 1..Len(Plan) /\ DOMAIN Plan = 1..Len(Plan)
  BY <1>2, <1>3
<1>5. Plan = [i \in 1..Len(Plan) |-> Plan[i]]
  BY <1>2
<1>6. [i \in DOMAIN results |-> results[i].mutant] = Plan
  BY <1>3, <1>4, <1>5
<1> QED BY <1>1, <1>6 DEF InOrder, Running, OnlyCompleteIsScored

LEMMA OrderNext ==
    ASSUME OrderInv, TypeOK', [Next]_vars
    PROVE  OrderInv'
<1>1. CASE BuildBaseline \/ Crash \/ Rerun \/ UNCHANGED vars
  BY <1>1 DEF BuildBaseline, Crash, Rerun, vars, runState, OrderInv, InOrder, Running,
     OnlyCompleteIsScored
<1>2. CASE RunBaseline
  <2>1. \/ pc' = "refused" /\ UNCHANGED <<results, closed>>
        \/ next' = 1 /\ results' = <<>> /\ closed' = FALSE
    BY <1>2 DEF RunBaseline
  <2>2. CASE pc' = "refused" /\ UNCHANGED <<results, closed>>
    BY <2>2 DEF OrderInv, InOrder, Running, OnlyCompleteIsScored
  <2>3. CASE next' = 1 /\ results' = <<>> /\ closed' = FALSE
    BY <2>3 DEF OrderInv, InOrder, OnlyCompleteIsScored
  <2> QED BY <2>1, <2>2, <2>3
<1>3. CASE SaveSource \/ RestoreSource
  BY <1>3 DEF SaveSource, RestoreSource, OrderInv, InOrder, Running, OnlyCompleteIsScored
<1>4. CASE ApplyMutant
  <2>1. CASE source[FileOf[Current]] = {}
    BY <1>4, <2>1 DEF ApplyMutant, OrderInv, InOrder, Running, OnlyCompleteIsScored
  <2> QED BY <1>4, <2>1, BuildFailedInOrder DEF ApplyMutant, OrderInv
<1>5. CASE BuildMutant
  <2>1. CASE Compiles(Contents)
    BY <1>5, <2>1 DEF BuildMutant, OrderInv, InOrder, Running, OnlyCompleteIsScored
  <2> QED BY <1>5, <2>1, BuildFailedInOrder DEF BuildMutant, OrderInv
<1>6. CASE RunMutant
  BY <1>6, RunInOrder DEF OrderInv
<1>7. CASE Close
  BY <1>7, CloseInOrder DEF OrderInv
<1> QED BY <1>1, <1>2, <1>3, <1>4, <1>5, <1>6, <1>7 DEF Next, Script, Over

\* A results file that parses has one result for each mutant of the plan, in
\* its order: a campaign that was killed is never scored.
THEOREM OnlyCompleteAlways == Spec => []OnlyCompleteIsScored
<1>1. Init => OrderInv
  <2>1. Init => TypeOK
    BY TrialInit DEF TrialInv
  <2> QED BY <2>1 DEF Init, OrderInv, InOrder, Running, OnlyCompleteIsScored
<1>2. TypeOK' /\ OrderInv /\ [Next]_vars => OrderInv'
  BY OrderNext
<1>3. OrderInv => OnlyCompleteIsScored
  BY DEF OrderInv
<1> QED BY <1>1, <1>2, <1>3, TypesAlways, PTL DEF Spec

-----------------------------------------------------------------------------
(* A kill is the mutation's own doing, or what the baseline's one run did  *)
(* not show: whatever else was in the tree was in the baseline's program.  *)

\* What the program of the baseline trips, shown or not.
Known == baseline \cup unshown

Clean(text) == \A m \in text : Planted[m] \subseteq Known
AtMostCurrent(text) == \A m \in text : m = Current \/ Planted[m] \subseteq Known

Subtracted ==
    /\ pc = "baseline" => so = Contents
    /\ Running => Native \subseteq Known
    /\ pc \in {"save", "apply", "run"} => \A f \in Files : Clean(source[f])
    /\ pc \in {"build", "restore"} => \A f \in Files : AtMostCurrent(source[f])
    /\ pc \in {"apply", "build", "restore"} => \A text \in orig : Clean(text)
    /\ pc \in {"restore", "run"} => AtMostCurrent(so)

KillInv == TypeOK /\ Subtracted /\ KillsAddDefects

LEMMA WrittenKill ==
    ASSUME KillInv, next <= Len(Plan), pc \in {"apply", "build", "run"},
           NEW o \in Verdict, NEW program \in SUBSET Mutants,
           NEW executed \in SUBSET Ixs,
           Write(o, program, executed),
           o.outcome = "killed" => o.by \in (Planted[Current] \ Native) \cup unshown,
           \A f \in Files : Clean(source'[f]),
           UNCHANGED <<baseline, unshown>>
    PROVE  Subtracted' /\ KillsAddDefects'
<1>1. Results' = Results \cup {Entry(o, program, executed)} /\ pc' = "save"
  BY Written DEF KillInv
<1>2. KillsAddDefects'
  BY <1>1 DEF KillInv, KillsAddDefects, ResultsOf, Entry
<1>3. Subtracted'
  BY <1>1 DEF KillInv, Subtracted, Running, Clean, Known
<1> QED BY <1>2, <1>3

\* What Restore puts back was clean when it was saved.
LEMMA RestoredClean ==
    ASSUME KillInv, pc \in {"apply", "build", "restore"}, Restore,
           pc \in {"build", "restore"} =>
               \A f \in Files \ {FileOf[Current]} : Clean(source[f])
    PROVE  \A f \in Files : Clean(source'[f])
<1>1. Current \in Mutants /\ FileOf[Current] \in Files
  BY CurrentIsMutant DEF KillInv, TypeOK
<1>2. PICK text \in orig : source' = [source EXCEPT ![FileOf[Current]] = text]
  BY DEF Restore
<1>3. Clean(text)
  BY DEF KillInv, Subtracted
<1>4. source \in [Files -> SUBSET Mutants]
  BY DEF KillInv, TypeOK
<1>5. \A f \in Files \ {FileOf[Current]} : Clean(source[f])
  BY DEF KillInv, Subtracted
<1> QED BY <1>1, <1>2, <1>3, <1>4, <1>5

\* A mutation is in a file of its own, so the others are clean of it.
LEMMA OthersClean ==
    ASSUME KillInv, OwnFiles, pc \in {"build", "restore"}
    PROVE  \A f \in Files \ {FileOf[Current]} : Clean(source[f])
BY DEF KillInv, Subtracted, OwnFiles, Own, Clean, AtMostCurrent

LEMMA BuildFailedKill ==
    ASSUME KillInv, OwnFiles, pc \in {"apply", "build"}, WriteBuildFailed,
           UNCHANGED <<baseline, unshown>>
    PROVE  Subtracted' /\ KillsAddDefects'
<1> DEFINE o == Unjudged("build_failed")
<1>1. o \in Verdict /\ o.outcome # "killed"
  BY DEF Unjudged, Outcome, Verdict
<1>2. next <= Len(Plan)
  BY DEF KillInv, TypeOK
<1>3. Write(o, {}, {}) /\ Restore
  BY DEF WriteBuildFailed
<1>4. {} \in SUBSET Mutants /\ {} \in SUBSET Ixs
  OBVIOUS
<1>5. \A f \in Files : Clean(source'[f])
  BY <1>3, OthersClean, RestoredClean
<1> HIDE DEF o
<1> QED BY <1>1, <1>2, <1>3, <1>4, <1>5, WrittenKill

LEMMA RunKill ==
    ASSUME KillInv, RunMutant
    PROVE  Subtracted' /\ KillsAddDefects'
<1>1. PICK score \in Logs(so), reach \in Logs(so) :
        /\ pc = "run"
        /\ Write(Classify(Current, score, reach), so, score.reached \cup reach.reached)
        /\ UNCHANGED <<source, so, orig, baseline, closed, unshown, crashes, reruns>>
  BY DEF RunMutant, counters
<1> DEFINE o == Classify(Current, score, reach)
<1>2. so \in SUBSET Mutants /\ next <= Len(Plan)
  BY <1>1 DEF KillInv, TypeOK
<1>3. score \in Log /\ reach \in Log /\ score.fired \subseteq Trips(so)
  BY <1>2, LogTyped
<1>4. o \in Verdict /\ (o.outcome = "killed" => o.by \in Added(score))
  BY <1>3, Classified DEF KillInv
<1>5. score.reached \cup reach.reached \in SUBSET Ixs
  BY <1>3 DEF Log
<1>6. Added(score) \subseteq (Planted[Current] \ Native) \cup unshown
  <2>1. Native \subseteq Known /\ AtMostCurrent(so)
    BY <1>1 DEF KillInv, Subtracted, Running
  <2> QED BY <1>3, <2>1 DEF Added, Trips, AtMostCurrent, Known
<1>7. \A f \in Files : Clean(source'[f])
  BY <1>1 DEF KillInv, Subtracted, Clean, Known
<1>8. Write(o, so, score.reached \cup reach.reached) /\ UNCHANGED <<baseline, unshown>>
  BY <1>1
<1> HIDE DEF o
<1> QED BY <1>1, <1>2, <1>3, <1>4, <1>5, <1>6, <1>7, <1>8, WrittenKill

LEMMA BaselineKill ==
    ASSUME KillInv, RunBaseline
    PROVE  Subtracted' /\ KillsAddDefects'
<1>1. PICK reach \in Logs(so), score \in Logs(so) :
        /\ pc = "baseline"
        /\ IF reach.reached = {}
           THEN pc' = "refused" /\ UNCHANGED <<next, baseline, results, closed, unshown>>
           ELSE /\ pc' = "save" /\ next' = 1 /\ baseline' = score.fired
                /\ results' = <<>> /\ closed' = FALSE
                /\ unshown' = Trips(so) \ score.fired
        /\ UNCHANGED <<source, so, orig, crashes, reruns>>
  BY DEF RunBaseline, counters
<1>2. CASE reach.reached = {}
  BY <1>1, <1>2 DEF KillInv, Subtracted, Running, KillsAddDefects, ResultsOf, Results
<1>3. CASE reach.reached # {}
  <2>1. Known' = Trips(so) /\ so = Contents
    BY <1>1, <1>3, LogTyped DEF KillInv, TypeOK, Subtracted, Known
  <2>2. Native \subseteq Known' /\ \A m \in Contents : Planted[m] \subseteq Known'
    BY <2>1 DEF Trips
  <2>3. Subtracted'
    BY <1>1, <1>3, <2>2 DEF Subtracted, Running, Clean, Contents
  <2>4. Results' = {}
    BY <1>1, <1>3 DEF Results
  <2> QED BY <2>3, <2>4 DEF KillsAddDefects, ResultsOf
<1> QED BY <1>2, <1>3

LEMMA ApplyKill ==
    ASSUME KillInv, OwnFiles, ApplyMutant
    PROVE  Subtracted' /\ KillsAddDefects'
<1>0. pc = "apply"
  BY DEF ApplyMutant
<1>1. CASE source[FileOf[Current]] = {}
  <2>1. /\ pc' = "build" /\ source' = [source EXCEPT ![FileOf[Current]] = {Current}]
        /\ UNCHANGED <<so, orig, next, baseline, results, closed, unshown, crashes, reruns>>
    BY <1>1 DEF ApplyMutant, counters
  <2>2. source \in [Files -> SUBSET Mutants]
    BY DEF KillInv, TypeOK
  <2>3. Current' = Current /\ Results' = Results
    BY <2>1 DEF Current, Results
  <2>4. \A f \in Files : \A m \in source'[f] : m = Current \/ Planted[m] \subseteq Known
    BY <1>0, <2>1, <2>2 DEF KillInv, Subtracted, Clean
  <2>5. Subtracted'
    BY <1>0, <2>1, <2>3, <2>4 DEF KillInv, Subtracted, Running, Clean, AtMostCurrent, Known
  <2> QED BY <2>1, <2>3, <2>5 DEF KillInv, KillsAddDefects, ResultsOf
<1>2. CASE source[FileOf[Current]] # {}
  BY <1>0, <1>2, BuildFailedKill DEF ApplyMutant
<1> QED BY <1>1, <1>2

LEMMA BuildKill ==
    ASSUME KillInv, OwnFiles, BuildMutant
    PROVE  Subtracted' /\ KillsAddDefects'
<1>0. pc = "build"
  BY DEF BuildMutant
<1>1. CASE Compiles(Contents)
  <2>1. /\ pc' = "restore" /\ so' = Contents
        /\ UNCHANGED <<source, next, results, orig, baseline, closed, unshown, crashes, reruns>>
    BY <1>1 DEF BuildMutant, counters
  <2>2. AtMostCurrent(Contents)
    BY <1>0 DEF KillInv, Subtracted, AtMostCurrent, Contents
  <2>3. Current' = Current /\ Results' = Results
    BY <2>1 DEF Current, Results
  <2>4. Subtracted'
    BY <1>0, <2>1, <2>2, <2>3 DEF KillInv, Subtracted, Running, Clean, AtMostCurrent, Known
  <2> QED BY <2>1, <2>3, <2>4 DEF KillInv, KillsAddDefects, ResultsOf
<1>2. CASE ~Compiles(Contents)
  BY <1>0, <1>2, BuildFailedKill DEF BuildMutant
<1> QED BY <1>1, <1>2

LEMMA RestoreKill ==
    ASSUME KillInv, OwnFiles, RestoreSource
    PROVE  Subtracted' /\ KillsAddDefects'
<1>1. /\ pc = "restore" /\ Restore /\ pc' = "run"
      /\ UNCHANGED <<so, orig, next, baseline, results, closed, unshown, crashes, reruns>>
  BY DEF RestoreSource, counters
<1>2. \A f \in Files : Clean(source'[f])
  BY <1>1, OthersClean, RestoredClean
<1>3. Current' = Current /\ Results' = Results
  BY <1>1 DEF Current, Results
<1>4. Subtracted'
  BY <1>1, <1>2, <1>3 DEF KillInv, Subtracted, Running, Clean, AtMostCurrent, Known
<1> QED BY <1>1, <1>3, <1>4 DEF KillInv, KillsAddDefects, ResultsOf

LEMMA OtherKill ==
    ASSUME KillInv,
           \/ BuildBaseline \/ SaveSource \/ Close \/ Crash \/ Rerun
           \/ UNCHANGED vars
    PROVE  Subtracted' /\ KillsAddDefects'
<1>1. Results' = Results /\ unshown' = unshown
  BY DEF BuildBaseline, SaveSource, Close, Crash, Rerun, vars, runState, Results
<1>2. KillsAddDefects'
  BY <1>1 DEF KillInv, KillsAddDefects, ResultsOf
<1>3. CASE BuildBaseline
  BY <1>2, <1>3 DEF BuildBaseline, Subtracted, Running, Contents
<1>4. CASE SaveSource
  <2>1. Current \in Mutants /\ FileOf[Current] \in Files
    BY <1>4, CurrentIsMutant DEF SaveSource, KillInv
  <2> QED BY <1>2, <1>4, <2>1 DEF SaveSource, KillInv, Subtracted, Running, Clean, Known
<1>5. CASE Close \/ Crash \/ Rerun
  BY <1>2, <1>5 DEF Close, Crash, Rerun, Subtracted, Running
<1>6. CASE UNCHANGED vars
  BY <1>2, <1>6 DEF vars, runState, KillInv, Subtracted, Running, Clean, AtMostCurrent, Known,
     Contents, Current
<1> QED BY <1>3, <1>4, <1>5, <1>6

LEMMA KillNext ==
    ASSUME KillInv, OwnFiles, [Next]_vars
    PROVE  Subtracted' /\ KillsAddDefects'
BY ApplyKill, BuildKill, RestoreKill, RunKill, BaselineKill, OtherKill
   DEF Next, Script, Over

\* Whatever the runs fail to show, a detector is credited with a kill only if
\* the mutation trips it and the unmutated program does not, or if the one
\* scoring run of the baseline did not show it: also with the mutations in the
\* tree that a killed campaign left.
THEOREM KillsAddDefectsAlways == Spec => []KillsAddDefects
<1>1. Init => Subtracted /\ KillsAddDefects
  BY DEF Init, Subtracted, Running, KillsAddDefects, ResultsOf, Results
<1>2. /\ TrialInv /\ TrialInv' /\ Subtracted /\ KillsAddDefects /\ [Next]_vars
      => Subtracted' /\ KillsAddDefects'
  BY KillNext DEF TrialInv, KillInv
<1>3. Init => TrialInv
  BY TrialInit
<1>4. TrialInv /\ [Next]_vars => TrialInv'
  BY TrialNext
<1> QED BY <1>1, <1>2, <1>3, <1>4, PTL DEF Spec
-----------------------------------------------------------------------------
(* The campaign implements Verdicts: each step of the script writes one      *)
(* verdict, begins afresh, publishes, or leaves results.json alone.          *)

Bar == [i \in DOMAIN results |-> VerdictOf(results[i])]
ReportInv == OrderInv /\ TrialInv /\ Subtracted /\ KillsAddDefects

\* A sequence with one element more, as a function.
LEMMA AppendIs ==
    ASSUME NEW S, NEW s \in Seq(S), NEW e \in S
    PROVE  Append(s, e) = [i \in 1..(Len(s) + 1) |-> Append(s, e)[i]]
<1>1. Append(s, e) \in Seq(S) /\ Len(Append(s, e)) = Len(s) + 1
  BY AppendProperties
<1> DEFINE t == Append(s, e)
<1>2. t \in Seq(S) /\ Len(t) = Len(s) + 1
  BY <1>1
<1> HIDE DEF t
<1>3. t = [i \in 1..Len(t) |-> t[i]]
  BY <1>2, LenProperties
<1> QED BY <1>2, <1>3 DEF t

\* A verdict Verdicts allows for a mutant.
LEMMA SoundVerdict ==
    ASSUME NEW m, NEW o \in Verdict, NEW program, NEW executed, m = Current,
           o.outcome = "killed" => o.by \in (Planted[m] \ Native) \cup unshown,
           o.outcome # "killed" => o.by = Nobody, m \in Mutants
    PROVE  VerdictOf(Entry(o, program, executed)) \in V!Sound(m)
<1>1. VerdictOf(Entry(o, program, executed)) = [mutant |-> m, outcome |-> o.outcome, by |-> o.by]
  BY DEF VerdictOf, Entry
<1>2. o.outcome \in Outcome
  BY DEF Verdict
<1>3. CASE o.outcome = "killed"
  BY <1>1, <1>3 DEF V!Sound
<1>4. CASE o.outcome # "killed"
  BY <1>1, <1>2, <1>4 DEF V!Sound, V!Spared, Outcome
<1> QED BY <1>3, <1>4

\* Writing an outcome down judges the next mutant.
LEMMA WriteJudges ==
    ASSUME ReportInv, next <= Len(Plan), pc \in {"apply", "build", "run"},
           NEW o \in Verdict, NEW program \in SUBSET Mutants, NEW executed \in SUBSET Ixs,
           Write(o, program, executed), UNCHANGED <<closed, unshown>>,
           o.outcome = "killed" => o.by \in (Planted[Current] \ Native) \cup unshown,
           o.outcome # "killed" => o.by = Nobody
    PROVE  V!Judge
<1> DEFINE v == VerdictOf(Entry(o, program, executed))
<1>1. results \in Seq(Result) /\ ~closed /\ Len(results) = next - 1 /\ next \in Nat
  BY CampaignAssumption DEF ReportInv, OrderInv, TypeOK, InOrder, Running
<1>2. Current \in Mutants /\ v \in V!Sound(Plan[next])
  BY CurrentIsMutant, SoundVerdict DEF ReportInv, OrderInv, Current
<1>3. results' = Append(results, Entry(o, program, executed))
  BY DEF Write
<1>4. Entry(o, program, executed) \in Result
  BY <1>2 DEF Entry, Result, Verdict
<1>5. DOMAIN results = 1..Len(results) /\ DOMAIN results' = 1..(Len(results) + 1)
  BY <1>1, <1>3, <1>4
<1>6. \A i \in DOMAIN results : results'[i] = results[i]
  BY <1>1, <1>3, <1>4, <1>5
<1>7. results'[Len(results) + 1] = Entry(o, program, executed)
  BY <1>1, <1>3, <1>4
<1>8. Bar \in Seq({VerdictOf(r) : r \in Result}) /\ Len(Bar) = Len(results)
  BY <1>1, <1>5 DEF Bar
<1>9. Bar' = Append(Bar, v)
  <2>1. Bar' = [i \in 1..(Len(results) + 1) |-> VerdictOf(results'[i])]
    BY <1>5 DEF Bar, VerdictOf
  <2>2. ASSUME NEW i \in 1..(Len(results) + 1)
        PROVE  VerdictOf(results'[i]) = Append(Bar, v)[i]
    <3>1. CASE i \in DOMAIN results
      BY <1>5, <1>6, <1>8, <3>1 DEF Bar
    <3>2. CASE i \notin DOMAIN results
      BY <1>1, <1>5, <1>7, <1>8, <3>2
    <3> QED BY <3>1, <3>2
  <2>3. Append(Bar, v) = [i \in 1..(Len(results) + 1) |-> Append(Bar, v)[i]]
    BY <1>4, <1>8, AppendIs
  <2> QED BY <2>1, <2>2, <2>3
<1>10. Len(Bar) + 1 = next /\ Len(Bar) < Len(Plan)
  BY <1>1, <1>8, CampaignAssumption
<1> HIDE DEF v
<1>11. ~closed /\ closed' = closed /\ unshown' = unshown
  BY <1>1
<1>12. \E w \in V!Sound(Plan[Len(Bar) + 1]) : Bar' = Append(Bar, w)
  BY <1>2, <1>9, <1>10
<1> QED BY <1>10, <1>11, <1>12 DEF V!Judge, Bar

LEMMA BuildFailedJudges ==
    ASSUME ReportInv, pc \in {"apply", "build"}, WriteBuildFailed, UNCHANGED <<closed, unshown>>
    PROVE  V!Judge
<1> DEFINE o == Unjudged("build_failed")
<1>1. o \in Verdict /\ o.outcome # "killed" /\ o.by = Nobody
  BY DEF Unjudged, Outcome, Verdict
<1>2. next <= Len(Plan)
  BY DEF ReportInv, OrderInv, TypeOK
<1>3. Write(o, {}, {})
  BY DEF WriteBuildFailed
<1>4. {} \in SUBSET Mutants /\ {} \in SUBSET Ixs
  OBVIOUS
<1> HIDE DEF o
<1> QED BY <1>1, <1>2, <1>3, <1>4, WriteJudges

LEMMA RunJudges ==
    ASSUME ReportInv, RunMutant
    PROVE  V!Judge
<1>1. PICK score \in Logs(so), reach \in Logs(so) :
        /\ pc = "run"
        /\ Write(Classify(Current, score, reach), so, score.reached \cup reach.reached)
        /\ UNCHANGED <<source, so, orig, baseline, closed, unshown, crashes, reruns>>
  BY DEF RunMutant, counters
<1> DEFINE o == Classify(Current, score, reach)
<1>2. so \in SUBSET Mutants /\ next <= Len(Plan) /\ TypeOK
  BY <1>1 DEF ReportInv, OrderInv, TypeOK
<1>3. score \in Log /\ reach \in Log /\ score.fired \subseteq Trips(so)
  BY <1>2, LogTyped
<1>4. o \in Verdict /\ (o.outcome = "killed" => o.by \in Added(score))
  BY <1>2, <1>3, Classified
<1>5. o.outcome # "killed" => o.by = Nobody
  BY DEF Classify, Unjudged
<1>6. score.reached \cup reach.reached \in SUBSET Ixs
  BY <1>3 DEF Log
<1>7. Added(score) \subseteq (Planted[Current] \ Native) \cup unshown
  <2>1. Native \subseteq Known /\ AtMostCurrent(so)
    BY <1>1 DEF ReportInv, Subtracted, Running
  <2> QED BY <1>3, <2>1 DEF Added, Trips, AtMostCurrent, Known
<1>8. Write(o, so, score.reached \cup reach.reached) /\ UNCHANGED <<closed, unshown>>
  BY <1>1
<1> HIDE DEF o
<1> QED BY <1>1, <1>2, <1>4, <1>5, <1>6, <1>7, <1>8, WriteJudges

LEMMA ClosePublishes ==
    ASSUME ReportInv, Close
    PROVE  V!Publish
<1>1. pc = "save" /\ next > Len(Plan) /\ closed' = TRUE /\ UNCHANGED <<results, unshown>>
  BY DEF Close, runState
<1>2. next = Len(Plan) + 1 /\ Len(Plan) \in Nat
  BY <1>1, CampaignAssumption DEF ReportInv, OrderInv, TypeOK
<1>3. results \in Seq(Result) /\ Len(results) = Len(Plan) /\ ~closed
  BY <1>1, <1>2 DEF ReportInv, OrderInv, TypeOK, InOrder, Running
<1>4. Len(Bar) = Len(results) /\ Bar' = Bar
  BY <1>1, <1>3 DEF Bar
<1> QED BY <1>1, <1>3, <1>4 DEF V!Publish, Bar

LEMMA StepJudges ==
    ASSUME ReportInv, [Next]_vars
    PROVE  [V!Next]_<<Bar, closed, unshown>>
<1>1. CASE UNCHANGED <<results, closed, unshown>>
  BY <1>1 DEF Bar
<1>2. CASE RunBaseline
  <2>1. \/ UNCHANGED <<results, closed, unshown>>
        \/ results' = <<>> /\ closed' = FALSE /\ unshown' \in SUBSET Detectors
    BY <1>2, TripsTyped DEF RunBaseline, ReportInv, OrderInv, TypeOK
  <2>2. CASE results' = <<>> /\ closed' = FALSE /\ unshown' \in SUBSET Detectors
    BY <2>2 DEF Bar, V!Next, V!Begin
  <2> QED BY <1>1, <2>1, <2>2
<1>3. CASE ApplyMutant \/ BuildMutant
  <2>1. \/ UNCHANGED <<results, closed, unshown>>
        \/ pc \in {"apply", "build"} /\ WriteBuildFailed /\ UNCHANGED <<closed, unshown>>
    BY <1>3 DEF ApplyMutant, BuildMutant
  <2> QED BY <1>1, <2>1, BuildFailedJudges DEF V!Next
<1>4. CASE RunMutant
  BY <1>4, RunJudges DEF V!Next
<1>5. CASE Close
  BY <1>5, ClosePublishes DEF V!Next
<1>6. CASE BuildBaseline \/ SaveSource \/ RestoreSource \/ Crash \/ Rerun \/ Over \/ UNCHANGED vars
  BY <1>1, <1>6 DEF BuildBaseline, SaveSource, RestoreSource, Crash, Rerun, Over, vars
<1> QED BY <1>2, <1>3, <1>4, <1>5, <1>6 DEF Next, Script

\* Whatever the plan, however often it is killed and whatever its runs fail to
\* show, a campaign does what Verdicts promises.
THEOREM ImplementsVerdicts == Spec => KeepsVerdicts
<1>1. Init => V!Init
  BY DEF Init, V!Init
<1>2. Init => ReportInv
  <2>1. Init => TrialInv
    BY TrialInit
  <2> QED BY <2>1 DEF Init, ReportInv, OrderInv, TrialInv, InOrder, Running, OnlyCompleteIsScored,
         Subtracted, KillsAddDefects, ResultsOf, Results
<1>3. ReportInv /\ [Next]_vars => ReportInv'
  <2> SUFFICES ASSUME ReportInv, [Next]_vars PROVE ReportInv'
    OBVIOUS
  <2>1. TrialInv'
    BY TrialNext DEF ReportInv
  <2>2. OrderInv'
    BY <2>1, OrderNext DEF ReportInv, TrialInv
  <2>3. Subtracted' /\ KillsAddDefects'
    BY KillNext DEF ReportInv, TrialInv, KillInv
  <2> QED BY <2>1, <2>2, <2>3 DEF ReportInv
<1>4. ReportInv /\ [Next]_vars => [V!Next]_<<Bar, closed, unshown>>
  BY StepJudges
<1> QED BY <1>1, <1>2, <1>3, <1>4, PTL DEF Spec, KeepsVerdicts, V!Spec, Bar

-----------------------------------------------------------------------------
(* What an outcome other than a kill is evidence of.  It takes nothing of  *)
(* the runs: they may be silent, or show only part of what they reach.     *)

EvidenceOf(r) ==
    /\ r.outcome \in {"survived", "not_reached"} => r.executed # {}
    /\ r.outcome = "not_reached" =>
          EnclosingFn[r.mutant] # NoFn /\ EnclosingFn[r.mutant] \notin r.executed

EvidenceInv == TypeOK /\ \A r \in Results : EvidenceOf(r)

\* An entry written from a pair of logs is evidence of what it says.
LEMMA ClassifiedOnEvidence ==
    ASSUME NEW score, NEW reach, NEW program,
           NEW r, r = Entry(Classify(Current, score, reach), program,
                            score.reached \cup reach.reached)
    PROVE  EvidenceOf(r)
<1> DEFINE o == Classify(Current, score, reach)
           L == score.reached \cup reach.reached
<1>1. r.outcome = o.outcome /\ r.executed = L /\ r.mutant = Current
  BY DEF Entry
<1>2. o.outcome \in {"survived", "not_reached"} => L # {}
  BY DEF Classify, Unjudged, Ledger
<1>3. o.outcome = "not_reached" => EnclosingFn[Current] \notin {NoFn} \cup L
  BY DEF Classify, Unjudged, Ledger
<1> HIDE DEF o, L
<1> QED BY <1>1, <1>2, <1>3 DEF EvidenceOf

LEMMA RunOnEvidence ==
    ASSUME EvidenceInv, RunMutant, TypeOK'
    PROVE  EvidenceInv'
<1>1. PICK score \in Logs(so), reach \in Logs(so) :
        /\ pc = "run"
        /\ Write(Classify(Current, score, reach), so, score.reached \cup reach.reached)
  BY DEF RunMutant
<1>2. so \in SUBSET Mutants /\ next <= Len(Plan)
  BY <1>1 DEF EvidenceInv, TypeOK
<1>3. score \in Log /\ reach \in Log
  BY <1>2, LogTyped
<1>4. Classify(Current, score, reach) \in Verdict
  BY <1>3, Classified DEF EvidenceInv
<1>5. score.reached \cup reach.reached \in SUBSET Ixs
  BY <1>3 DEF Log
<1> DEFINE r == Entry(Classify(Current, score, reach), so, score.reached \cup reach.reached)
<1>6. Results' = Results \cup {r}
  BY <1>1, <1>2, <1>4, <1>5, Written DEF EvidenceInv
<1>7. EvidenceOf(r)
  BY ClassifiedOnEvidence
<1> HIDE DEF r
<1> QED BY <1>6, <1>7 DEF EvidenceInv, EvidenceOf

LEMMA BuildFailedOnEvidence ==
    ASSUME EvidenceInv, WriteBuildFailed, pc \in {"apply", "build"}, TypeOK'
    PROVE  EvidenceInv'
<1> DEFINE o == Unjudged("build_failed")
           r == Entry(o, {}, {})
<1>1. o \in Verdict /\ Write(o, {}, {}) /\ next <= Len(Plan)
  BY DEF WriteBuildFailed, Unjudged, Outcome, Verdict, EvidenceInv, TypeOK
<1>2. {} \in SUBSET Mutants /\ {} \in SUBSET Ixs
  OBVIOUS
<1>3. r.outcome = "build_failed"
  BY DEF Entry, Unjudged
<1> HIDE DEF o
<1>4. Results' = Results \cup {r}
  BY <1>1, <1>2, Written DEF EvidenceInv
<1> HIDE DEF r
<1> QED BY <1>3, <1>4 DEF EvidenceInv, EvidenceOf

LEMMA EvidenceNext ==
    ASSUME EvidenceInv, TypeOK', [Next]_vars
    PROVE  EvidenceInv'
<1>1. CASE RunMutant
  BY <1>1, RunOnEvidence
<1>2. CASE ApplyMutant \/ BuildMutant
  <2>1. pc \in {"apply", "build"} /\ (WriteBuildFailed \/ results' = results)
    BY <1>2 DEF ApplyMutant, BuildMutant
  <2>2. CASE results' = results
    BY <2>2 DEF EvidenceInv, EvidenceOf, Results
  <2> QED BY <2>1, <2>2, BuildFailedOnEvidence
<1>3. CASE RunBaseline
  <2>1. results' = <<>> \/ results' = results
    BY <1>3 DEF RunBaseline
  <2> QED BY <2>1 DEF EvidenceInv, EvidenceOf, Results
<1>4. CASE \/ BuildBaseline \/ SaveSource \/ RestoreSource \/ Close
           \/ Crash \/ Rerun \/ Over \/ UNCHANGED vars
  <2>1. results' = results
    BY <1>4 DEF BuildBaseline, SaveSource, RestoreSource, Close, Crash, Rerun, Over, vars
  <2> QED BY <2>1 DEF EvidenceInv, EvidenceOf, Results
<1> QED BY <1>1, <1>2, <1>3, <1>4 DEF Next, Script

LEMMA EvidenceAlways == Spec => []EvidenceInv
<1>1. Init => EvidenceInv
  <2>1. Init => TypeOK
    BY TrialInit DEF TrialInv
  <2>2. Init => Results = {}
    BY DEF Init, Results
  <2> QED BY <2>1, <2>2 DEF EvidenceInv
<1>2. TypeOK /\ TypeOK' /\ EvidenceInv /\ [Next]_vars => EvidenceInv'
  BY EvidenceNext
<1> QED BY <1>1, <1>2, TypesAlways, PTL DEF Spec

\* Two silent runs are never taken for a survivor, nor for code that was not
\* reached.
THEOREM SilenceIsNoEvidenceAlways == Spec => []SilenceIsNoEvidence
<1>1. EvidenceInv => SilenceIsNoEvidence
  BY DEF EvidenceInv, EvidenceOf, SilenceIsNoEvidence, ResultsOf
<1> QED BY <1>1, EvidenceAlways, PTL

-----------------------------------------------------------------------------
(* What the script leaves in the tree.                                     *)

Single(text) == \A m, n \in text : m = n

\* The files that will be dirty once the mutant being tried is taken out.
Left ==
    {f \in Files : IF Trying /\ f = FileOf[Current] THEN orig # {{}} ELSE source[f] # {}}

LeftInv ==
    /\ TypeOK
    /\ \A f \in Files : Single(source[f])
    /\ pc = "apply" => orig = {source[FileOf[Current]]}
    /\ pc \in {"build", "restore"} => orig = {{}}
    /\ Cardinality(Left) <= crashes

\* Putting the copy back leaves the files that were going to be left.
LEMMA RestoreLeaves ==
    ASSUME LeftInv, Trying, Restore, pc' \in {"save", "run"}
    PROVE  Left' = Left /\ \A f \in Files : Single(source'[f])
<1>1. FileOf[Current] \in Files
  BY CurrentIsMutant DEF LeftInv, TypeOK, Trying
<1>2. PICK text \in orig : source' = [source EXCEPT ![FileOf[Current]] = text]
  BY DEF Restore
<1>3. orig = {text} /\ Single(text)
  <2>1. CASE pc = "apply"
    BY <1>1, <1>2, <2>1 DEF LeftInv
  <2>2. CASE pc \in {"build", "restore"}
    BY <1>2, <2>2 DEF LeftInv, Single
  <2> QED BY <2>1, <2>2 DEF Trying
<1>4. ~Trying'
  BY DEF Trying
<1>5. \A f \in Files : source'[f] = IF f = FileOf[Current] THEN text ELSE source[f]
  BY <1>2 DEF LeftInv, TypeOK
<1>6. Left' = {f \in Files : source'[f] # {}}
  BY <1>4 DEF Left
<1>7. Left = {f \in Files : IF f = FileOf[Current] THEN text # {} ELSE source[f] # {}}
  BY <1>3 DEF Left
<1> QED BY <1>3, <1>5, <1>6, <1>7 DEF LeftInv

LEMMA SaveLeaves ==
    ASSUME LeftInv, SaveSource, TypeOK'
    PROVE  LeftInv'
<1>1. Current' = Current /\ pc = "save" /\ pc' = "apply" /\ source' = source
      /\ orig' = {source[FileOf[Current]]} /\ crashes' = crashes
  BY DEF SaveSource, Current, counters
<1>2. Left' = Left
  BY <1>1 DEF Left, Trying
<1> QED BY <1>1, <1>2 DEF LeftInv

LEMMA ApplyLeaves ==
    ASSUME LeftInv, ApplyMutant, TypeOK'
    PROVE  LeftInv'
<1>1. pc = "apply" /\ orig' = orig /\ crashes' = crashes
  BY DEF ApplyMutant, counters
<1>2. FileOf[Current] \in Files
  BY <1>1, CurrentIsMutant DEF LeftInv, TypeOK
<1>3. CASE source[FileOf[Current]] = {}
  <2>1. pc' = "build" /\ source' = [source EXCEPT ![FileOf[Current]] = {Current}]
        /\ Current' = Current
    BY <1>3 DEF ApplyMutant, Current
  <2>2. \A f \in Files : source'[f] = IF f = FileOf[Current] THEN {Current} ELSE source[f]
    BY <2>1 DEF LeftInv, TypeOK
  <2>3. Left' = Left
    BY <1>1, <2>1, <2>2 DEF Left, Trying
  <2>4. orig = {{}}
    BY <1>1, <1>3 DEF LeftInv
  <2>5. \A f \in Files : Single(source'[f])
    BY <2>2 DEF LeftInv, Single
  <2> QED BY <1>1, <2>1, <2>3, <2>4, <2>5 DEF LeftInv
<1>4. CASE source[FileOf[Current]] # {}
  <2>1. Restore /\ pc' = "save"
    BY <1>4 DEF ApplyMutant, WriteBuildFailed, Write
  <2>2. Left' = Left /\ \A f \in Files : Single(source'[f])
    BY <1>1, <2>1, RestoreLeaves DEF Trying
  <2> QED BY <1>1, <2>1, <2>2 DEF LeftInv
<1> QED BY <1>3, <1>4

LEMMA BuildLeaves ==
    ASSUME LeftInv, BuildMutant, TypeOK'
    PROVE  LeftInv'
<1>1. pc = "build" /\ orig' = orig /\ crashes' = crashes
  BY DEF BuildMutant, counters
<1>2. CASE Compiles(Contents)
  <2>1. pc' = "restore" /\ source' = source /\ Current' = Current
    BY <1>2 DEF BuildMutant, Current
  <2>2. Left' = Left
    BY <1>1, <2>1 DEF Left, Trying
  <2> QED BY <1>1, <2>1, <2>2 DEF LeftInv
<1>3. CASE ~Compiles(Contents)
  <2>1. Restore /\ pc' = "save"
    BY <1>3 DEF BuildMutant, WriteBuildFailed, Write
  <2>2. Left' = Left /\ \A f \in Files : Single(source'[f])
    BY <1>1, <2>1, RestoreLeaves DEF Trying
  <2> QED BY <1>1, <2>1, <2>2 DEF LeftInv
<1> QED BY <1>2, <1>3

\* A script that is killed leaves at most the file it was trying a mutant in.
LEMMA CrashLeaves ==
    ASSUME IsFiniteSet(Files), LeftInv, Crash, TypeOK'
    PROVE  LeftInv'
<1>1. pc' = "idle" /\ source' = source /\ crashes' = crashes + 1
  BY DEF Crash
<1>2. Left' = {f \in Files : source[f] # {}}
  BY <1>1 DEF Left, Trying
<1>3. Left' \subseteq Left \cup {FileOf[Current]}
  BY <1>2 DEF Left
<1>4. IsFiniteSet(Left) /\ Cardinality(Left) \in Nat
  BY FS_Subset, FS_CardinalityType DEF Left
<1>5. IsFiniteSet(Left \cup {FileOf[Current]})
      /\ Cardinality(Left \cup {FileOf[Current]}) <= Cardinality(Left) + 1
  BY <1>4, FS_AddElement
<1>6. Cardinality(Left') <= Cardinality(Left) + 1
      /\ Cardinality(Left') \in Nat
  BY <1>3, <1>4, <1>5, FS_Subset, FS_CardinalityType
<1>7. Cardinality(Left') <= crashes'
  BY <1>1, <1>4, <1>6 DEF LeftInv, TypeOK
<1> QED BY <1>1, <1>7 DEF LeftInv

\* A step that is neither leaves the files as they were, and no mutant is being
\* tried before it or after it.
LEMMA OthersLeave ==
    ASSUME LeftInv, TypeOK',
           \/ BuildBaseline \/ RunBaseline \/ RunMutant \/ Close \/ Rerun
    PROVE  LeftInv'
<1>1. source' = source /\ crashes' = crashes /\ ~Trying /\ ~Trying'
  BY DEF BuildBaseline, RunBaseline, RunMutant, Close, Rerun, Write, Trying,
         runState, counters
<1>2. Left' = Left
  BY <1>1 DEF Left
<1> QED BY <1>1, <1>2 DEF LeftInv, Trying

LEMMA RestoreSourceLeaves ==
    ASSUME LeftInv, RestoreSource, TypeOK'
    PROVE  LeftInv'
<1>1. pc = "restore" /\ pc' = "run" /\ Restore /\ crashes' = crashes
  BY DEF RestoreSource, counters
<1>2. Left' = Left /\ \A f \in Files : Single(source'[f])
  BY <1>1, RestoreLeaves DEF Trying
<1> QED BY <1>1, <1>2 DEF LeftInv

LEMMA LeftNext ==
    ASSUME IsFiniteSet(Files), LeftInv, TypeOK', [Next]_vars
    PROVE  LeftInv'
<1>1. CASE Over \/ UNCHANGED vars
  BY <1>1 DEF Over, vars, runState, LeftInv, Left, Trying, Current
<1> QED BY <1>1, SaveLeaves, ApplyLeaves, BuildLeaves, CrashLeaves, OthersLeave,
           RestoreSourceLeaves DEF Next, Script

\* While no mutant is being tried, a file is as the plan has it, but for one
\* mutation in one file for each time the script was killed.
THEOREM OneLeftoverPerCrashAlways ==
    ASSUME IsFiniteSet(Files)
    PROVE  Spec => []OneLeftoverPerCrash
<1>1. Init => LeftInv
  <2>1. Init => TypeOK
    BY TrialInit DEF TrialInv
  <2>2. Init => Left = {}
    BY DEF Init, Left, Trying
  <2>3. Init => Cardinality(Left) <= crashes
    <3>1. Init => crashes = 0
      BY DEF Init
    <3> QED BY <2>2, <3>1, FS_EmptySet
  <2> QED BY <2>1, <2>3 DEF Init, LeftInv, Single
<1>2. TypeOK' /\ LeftInv /\ [Next]_vars => LeftInv'
  BY LeftNext
<1>3. LeftInv => OneLeftoverPerCrash
  <2> SUFFICES ASSUME LeftInv PROVE OneLeftoverPerCrash
    OBVIOUS
  <2>1. ~Trying => Dirty = Left
    BY DEF Dirty, Left
  <2>2. ASSUME NEW f \in Dirty PROVE Cardinality(source[f]) = 1
    <3>1. PICK m \in source[f] : TRUE
      BY <2>2 DEF Dirty
    <3>2. source[f] = {m}
      BY <2>2, <3>1 DEF LeftInv, Single, Dirty
    <3> QED BY <3>2, FS_Singleton
  <2> QED BY <2>1, <2>2 DEF LeftInv, OneLeftoverPerCrash
<1> QED BY <1>1, <1>2, <1>3, TypesAlways, PTL DEF Spec

=============================================================================
