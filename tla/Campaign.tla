------------------------------ MODULE Campaign ------------------------------
(***************************************************************************)
(* A mutation campaign: scripts/run_mutation_campaign.sh over a plan of    *)
(* solinv-mutate, on one working tree.                                     *)
(*                                                                         *)
(* The script builds and runs the unmutated program once, then, mutant by  *)
(* mutant, saves the file, patches it, builds, restores the file, runs the *)
(* program twice and writes down an outcome.  It can be killed between any *)
(* two of these and started again on the tree it left.                     *)
(*                                                                         *)
(* A file is known by the mutations its text carries, so {} is the text    *)
(* the plan was cut from, and a digest tells any two texts apart.  A       *)
(* program is the set of the mutations in the files it was built from.     *)
(***************************************************************************)
EXTENDS Naturals, Sequences, FiniteSets

CONSTANTS
    Mutants, Files, Detectors,
    Plan,            \* the mutants of the plan, in its order
    FileOf,          \* Mutant::file
    EnclosingFn,     \* Mutant::enclosing_fn, or NoFn
    NoFn, Nobody,
    Rank,            \* where `sort' puts a detector's name
    Ixs,             \* the names the harness records instructions under
    Uncompilable,    \* mutants that break the build
    Planted,         \* Planted[m]: the detectors that a program with m trips
    Native,          \* the detectors that the unmutated program trips
    Faults,          \* what may go wrong: "silent" and "partial" runs
    MaxCrashes, MaxReruns

Fault == {"silent", "partial"}

ASSUME CampaignAssumption ==
    /\ Plan \in Seq(Mutants)
    /\ FileOf \in [Mutants -> Files]
    /\ \A S \in SUBSET Detectors :
          S # {} => \E d \in S : \A e \in S : Rank[d] <= Rank[e]
    /\ Planted \in [Mutants -> SUBSET Detectors]
    /\ Native \subseteq Detectors
    /\ Faults \subseteq Fault
    /\ Nobody \notin Detectors

VARIABLES
    source,    \* the files of the working tree
    so,        \* the deployed program: what `cargo build-sbf' built last
    orig,      \* $WORK/orig.rs: the text in it, as a singleton; {}: no file
    pc,        \* where the script is
    next,      \* position in IDS
    baseline,  \* $WORK/baseline-detectors.txt
    results,   \* the objects written to results.json
    closed,    \* has results.json its closing bracket?
    unshown,   \* history: what the program of the baseline trips and its one
               \* scoring run did not show
    crashes, reruns

runState == <<source, so, orig, next, baseline>>
counters == <<crashes, reruns>>
vars == <<runState, pc, results, closed, unshown, crashes, reruns>>

Contents == UNION {source[f] : f \in Files}
Compiles(program) == program \cap Uncompilable = {}

-----------------------------------------------------------------------------
(* One `crucible run' of a program: what its log shows.                    *)

Trips(program) == Native \cup UNION {Planted[m] : m \in program}

Silence == [fired |-> {}, reached |-> {}]

Logs(program) ==
    {[fired |-> F, reached |-> R] :
        F \in IF "partial" \in Faults THEN SUBSET Trips(program)
              ELSE {Trips(program)},
        R \in SUBSET Ixs}
    \cup {l \in {Silence} : "silent" \in Faults}

\* `sort -u | head -1'.
FirstSorted(S) == CHOOSE d \in S : \A e \in S : Rank[d] <= Rank[e]

\* Mutant: violations of the baseline are credited too.
CreditAny(score) == score.fired

\* A violation the baseline lacks.
Added(score) == score.fired \ baseline

\* The union of both ledgers.
Ledger(score, reach) == score.reached \cup reach.reached

Unjudged(o) == [outcome |-> o, by |-> Nobody]

\* The classification of a mutant from the logs of its two runs.
Classify(m, score, reach) ==
    IF Added(score) # {} THEN [outcome |-> "killed", by |-> FirstSorted(Added(score))]
    ELSE IF Ledger(score, reach) = {} THEN Unjudged("harness_error")
    ELSE IF EnclosingFn[m] \notin {NoFn} \cup Ledger(score, reach)
    THEN Unjudged("not_reached")
    ELSE Unjudged("survived")

-----------------------------------------------------------------------------
Init ==
    /\ source = [f \in Files |-> {}]
    /\ so = {} /\ orig = {}
    /\ pc = "idle" /\ next = 1 /\ baseline = {}
    /\ results = <<>> /\ closed = FALSE /\ unshown = {}
    /\ crashes = 0 /\ reruns = 0

BuildBaseline ==
    /\ pc = "idle"
    /\ IF Compiles(Contents)
       THEN pc' = "baseline" /\ so' = Contents
       ELSE pc' = "refused" /\ UNCHANGED so
    /\ UNCHANGED <<source, orig, next, baseline, results, closed, unshown, counters>>

\* The reachability run must record an instruction; the scoring run gives the
\* detectors that fire anyway.  results.json is begun.
RunBaseline == \E reach, score \in Logs(so) :
    /\ pc = "baseline"
    /\ IF reach.reached = {}
       THEN pc' = "refused" /\ UNCHANGED <<next, baseline, results, closed, unshown>>
       ELSE /\ pc' = "save" /\ next' = 1 /\ baseline' = score.fired
            /\ results' = <<>> /\ closed' = FALSE
            /\ unshown' = Trips(so) \ score.fired
    /\ UNCHANGED <<source, so, orig, counters>>

Current == Plan[next]

SaveSource ==
    /\ pc = "save" /\ next <= Len(Plan)
    /\ orig' = {source[FileOf[Current]]}
    /\ pc' = "apply"
    /\ UNCHANGED <<source, so, next, baseline, results, closed, unshown, counters>>

\* Mutant: the copy is never put back.
RestoreNothing == UNCHANGED source

Restore == \E text \in orig : source' = [source EXCEPT ![FileOf[Current]] = text]

\* What is written for the current mutant.  The last two fields are history:
\* the program that was run and the instructions both runs recorded.
Entry(o, program, executed) ==
    [mutant |-> Current, outcome |-> o.outcome, by |-> o.by,
     program |-> program, executed |-> executed]

\* Write the outcome down and go on to the next mutant.
Write(o, program, executed) ==
    /\ results' = Append(results, Entry(o, program, executed))
    /\ next' = next + 1
    /\ pc' = "save"

WriteBuildFailed == Restore /\ Write(Unjudged("build_failed"), {}, {})

\* Mutant: the digest is not compared.
ApplyAnyway ==
    /\ pc = "apply"
    /\ pc' = "build"
    /\ source' = [source EXCEPT ![FileOf[Current]] = @ \cup {Current}]
    /\ UNCHANGED <<so, orig, next, baseline, results, closed, unshown, counters>>

\* Mutant: a patch that is refused is tried again.
RetryApply ==
    /\ pc = "apply"
    /\ IF source[FileOf[Current]] = {}
       THEN /\ pc' = "build"
            /\ source' = [source EXCEPT ![FileOf[Current]] = {Current}]
       ELSE Restore /\ pc' = "save"
    /\ UNCHANGED <<so, orig, next, baseline, results, closed, unshown, counters>>

\* `mutate apply' patches a file only if it is the one the plan was cut from.
ApplyMutant ==
    /\ pc = "apply"
    /\ IF source[FileOf[Current]] = {}
       THEN /\ pc' = "build"
            /\ source' = [source EXCEPT ![FileOf[Current]] = {Current}]
            /\ UNCHANGED <<next, results>>
       ELSE WriteBuildFailed
    /\ UNCHANGED <<so, orig, baseline, closed, unshown, counters>>

BuildMutant ==
    /\ pc = "build"
    /\ IF Compiles(Contents)
       THEN /\ pc' = "restore" /\ so' = Contents
            /\ UNCHANGED <<source, next, results>>
       ELSE WriteBuildFailed /\ UNCHANGED so
    /\ UNCHANGED <<orig, baseline, closed, unshown, counters>>

RestoreSource ==
    /\ pc = "restore"
    /\ Restore
    /\ pc' = "run"
    /\ UNCHANGED <<so, orig, next, baseline, results, closed, unshown, counters>>

RunMutant == \E score, reach \in Logs(so) :
    /\ pc = "run"
    /\ Write(Classify(Current, score, reach), so, score.reached \cup reach.reached)
    /\ UNCHANGED <<source, so, orig, baseline, closed, unshown, counters>>

\* Mutant: the last mutant is forgotten.
CloseEarly ==
    /\ pc = "save" /\ next >= Len(Plan)
    /\ pc' = "done" /\ closed' = TRUE
    /\ UNCHANGED <<runState, results, unshown, counters>>

Close ==
    /\ pc = "save" /\ next > Len(Plan)
    /\ pc' = "done" /\ closed' = TRUE
    /\ UNCHANGED <<runState, results, unshown, counters>>

Script ==
    \/ BuildBaseline \/ RunBaseline \/ SaveSource \/ ApplyMutant
    \/ BuildMutant \/ RestoreSource \/ RunMutant \/ Close

\* The script is killed.  Its work directory goes; the tree, the deployed
\* program and results.json stay as they are.
Crash ==
    /\ crashes < MaxCrashes /\ pc \notin {"idle", "refused", "done"}
    /\ crashes' = crashes + 1
    /\ pc' = "idle" /\ orig' = {} /\ baseline' = {}
    /\ UNCHANGED <<source, so, next, results, closed, unshown, reruns>>

Rerun ==
    /\ reruns < MaxReruns /\ pc \in {"refused", "done"}
    /\ reruns' = reruns + 1
    /\ pc' = "idle" /\ orig' = {} /\ baseline' = {}
    /\ UNCHANGED <<source, so, next, results, closed, unshown, crashes>>

\* The script is over and nobody starts it again.
Over == pc \in {"refused", "done"} /\ UNCHANGED vars

Next == Script \/ Crash \/ Rerun \/ Over

Spec == Init /\ [][Next]_vars

\* The script is straight-line, and `--timeout' ends every run.
FairSpec == Spec /\ WF_vars(Script)

-----------------------------------------------------------------------------
(* Properties.                                                             *)

Results == {results[i] : i \in DOMAIN results}
ResultsOf(outcome) == {r \in Results : r.outcome = outcome}

Outcome == {"killed", "survived", "not_reached", "build_failed", "harness_error"}

Result ==
    [mutant : Mutants, outcome : Outcome, by : Detectors \cup {Nobody},
     program : SUBSET Mutants, executed : SUBSET Ixs]

\* Every variable keeps its type; between save and write the script is at a
\* mutant of the plan.
TypeOK ==
    /\ source \in [Files -> SUBSET Mutants]
    /\ so \subseteq Mutants
    /\ orig \subseteq SUBSET Mutants
    /\ pc \in {"idle", "baseline", "save", "apply", "build", "restore", "run",
               "refused", "done"}
    /\ next \in 1..(Len(Plan) + 1)
    /\ baseline \subseteq Detectors /\ unshown \subseteq Detectors
    /\ results \in Seq(Result)
    /\ closed \in BOOLEAN
    /\ crashes \in Nat /\ reruns \in Nat
    /\ pc \in {"apply", "build", "restore", "run"} =>
          next <= Len(Plan) /\ \E text \in SUBSET Mutants : orig = {text}

\* An outcome other than build_failed was read off a program that carries the
\* mutant, and no other mutation of its file: however often the script was
\* killed with a patched file in the tree and started again.
TriedItsMutant ==
    \A r \in Results : r.outcome # "build_failed" =>
        {m \in r.program : FileOf[m] = FileOf[r.mutant]} = {r.mutant}

\* A detector is credited with a kill only if the mutation trips it and the
\* unmutated program does not, or if the scoring run of the baseline did not
\* show it: what it did show is no kill, whatever lay in the tree and however
\* little the mutant's own runs show.
KillsAddDefects ==
    \A r \in ResultsOf("killed") :
        r.by \in (Planted[r.mutant] \ Native) \cup unshown

\* What the script's comment says of every kill: the mutation added it.
KillsAreTheMutants ==
    \A r \in ResultsOf("killed") : r.by \in Planted[r.mutant] \ Native

\* Two silent runs are no evidence about the detectors.
SilenceIsNoEvidence ==
    \A r \in ResultsOf("survived") \cup ResultsOf("not_reached") : r.executed # {}

\* What `mutate score' can parse has one result for each mutant of the plan.
OnlyCompleteIsScored ==
    closed => [i \in DOMAIN results |-> results[i].mutant] = Plan

Dirty == {f \in Files : source[f] # {}}
Trying == pc \in {"apply", "build", "restore"}

\* While no mutant is being tried, the files are those the plan was cut from,
\* but for one mutation in one file for each time the script was killed.
OneLeftoverPerCrash ==
    /\ ~Trying => Cardinality(Dirty) <= crashes
    /\ \A f \in Dirty : Cardinality(source[f]) = 1

\* The script ends, on the whole plan or by refusing to start.
CampaignEnds == <>(pc \in {"done", "refused"})

VerdictOf(r) == [mutant |-> r.mutant, outcome |-> r.outcome, by |-> r.by]

V == INSTANCE Verdicts WITH
        Adds      <- [m \in Mutants |-> Planted[m] \ Native],
        verdicts  <- [i \in DOMAIN results |-> VerdictOf(results[i])],
        published <- closed,
        missed    <- unshown

\* Over all its crashes and reruns the campaign does what Verdicts promises: a
\* verdict is written once, in its turn, and a kill is the mutant's own or one
\* the baseline did not show.
KeepsVerdicts == V!Spec

=============================================================================
