---------------------------- MODULE Differential ----------------------------
(***************************************************************************)
(* A differential harness: amm-diff/src/main.rs over the comparisons of    *)
(* solinv-fuzz/src/differential.rs.  A process drives a program and its    *)
(* rewrite with the same actions and probes, on accounts of their own,     *)
(* compares what they wrote, decided and cost, and writes at most one      *)
(* report (evidence.rs).  Processes follow one another on one disk; in     *)
(* between programs are rebuilt.  In the end somebody reads the report, or *)
(* what became of it on the way (Disclosure).                              *)
(***************************************************************************)
EXTENDS Disclosure, FiniteSets

CONSTANTS
    PairSeq,             \* the labels of diff_pairs(), in its order
    Offset,              \* DiffAccountPair::anchor_offset, pino_offset
    BodySize,            \* DiffAccountPair::body_size
    Setup,               \* the accounts the fixture creates
    Amounts,             \* the inputs of action_swap
    ProbeSeq,            \* the inputs of probe_actions
    Exec(_, _, _, _),    \* what a program of a side does to accounts
    Holds(_, _),         \* whether the product of a pool is not below the first
    Targets,             \* the programs and rewrites the .so files may be of
    Later,               \* per side, what a later build, or a clean, leaves there
    Equivalent,          \* the pairs of programs that behave alike
    Builds,              \* toolchains
    Faults,              \* the sends that may fail: <<"action" or "probe", side>>
    MaxActions, MaxIterations, MaxProcesses, MaxRebuilds, MaxEdits

Sides == {"anchor", "pinocchio"}
Variants == {"smoke", "parity", "pool", "tokens", "product", "cost"}
Pairs == {PairSeq[i] : i \in DOMAIN PairSeq}
NoCode == "empty"

ASSUME DifferentialAssumption ==
    /\ PairSeq \in Seq(Pairs) /\ Len(PairSeq) >= 1
    /\ ProbeSeq \in Seq({ProbeSeq[i] : i \in DOMAIN ProbeSeq})
    /\ \A s \in Sides, q \in Pairs :
         /\ Setup[s][q] \in Seq(Seq(Nat)) /\ Len(Setup[s][q]) <= 1
         /\ Offset[s][q] \in Nat /\ BodySize[q] \in Nat
    /\ \A t \in Targets : t = [s \in Sides |-> t[s]] /\ NoCode \notin {t[s] : s \in Sides}
    /\ Faults \subseteq {"action", "probe"} \X Sides
    /\ \A n \in {MaxActions, MaxIterations, MaxProcesses, MaxRebuilds, MaxEdits} : n \in Nat

VARIABLES
    disk,         \* the .so files
    rebuilds,
    proc,         \* the process: its number, variant, build, options, programs
    emitted,      \* EMITTED: the Once of evidence.rs
    accts,        \* the accounts of the runtime
    pc,
    acted, iters,
    run,          \* ProbeRun
    pending,      \* the report being written
    found,        \* what fuzz_assert! said in this iteration
    lost,         \* an action of this iteration was sent on one side only
    json,     \* the files at the prefix: absent or cut short, or a document
    reports,      \* every report written, with the programs that were running
    copy          \* the reader's: whose report, its bytes now, and the edits

vars == <<disk, rebuilds, proc, emitted, accts, pc, acted, iters, run, pending,
          found, lost, json, reports, copy>>

-----------------------------------------------------------------------------
(* differential.rs.                                                        *)

SideResult(o) ==
    IF o.ok THEN [ok |-> TRUE, code |-> <<>>, reason |-> <<>>]
    ELSE IF o.code # <<>>
      THEN [ok |-> FALSE, code |-> o.code, reason |-> <<[form |-> "custom", text |-> o.code]>>]
      ELSE [ok |-> FALSE, code |-> <<>>,
            reason |-> <<[form |-> "builtin", text |-> <<o.variant, proc.build>>]>>]

SameResult(a, p) == a = p

ParityDivergence(label, a, p) ==
    IF SameResult(SideResult(a), SideResult(p)) THEN <<>>
    ELSE <<[kind |-> "parity", label |-> label,
            left |-> SideResult(a), right |-> SideResult(p)]>>

\* A regression takes a figure on both sides.
Regression(label, a, p) ==
    IF a.cu # <<>> /\ p.cu # <<>> /\ p.cu[1] > a.cu[1]
    THEN <<[kind |-> "cu", label |-> label, left |-> a.cu, right |-> p.cu]>>
    ELSE <<>>

SendFailed(probe) == \E s \in Sides : probe.result[s] = <<>>

\* read_pair_bodies: an account that is absent or short has no body.
BodyOf(s, q, acct) ==
    IF acct = <<>> \/ Len(acct[1]) < Offset[s][q] + BodySize[q] THEN <<>>
    ELSE <<SubSeq(acct[1], Offset[s][q] + 1, Offset[s][q] + BodySize[q])>>

\* A mutant of Body: it is read from the first byte of the account.
BodyFromStart(s, q) ==
    IF BodyOf(s, q, accts[s][q]) = <<>> THEN <<>>
    ELSE <<SubSeq(accts[s][q][1], 1, BodySize[q])>>

Body(s, q) == BodyOf(s, q, accts[s][q])

Differ(q) ==
    Body("anchor", q) # <<>> /\ Body("pinocchio", q) # <<>>
        /\ Body("anchor", q) # Body("pinocchio", q)

\* check_pair_equivalent on a pair that differs: the first byte that does.
BodyDivergence(q) ==
    LET a == Body("anchor", q)[1]
        p == Body("pinocchio", q)[1]
        first == CHOOSE i \in 1..BodySize[q] :
                     a[i] # p[i] /\ \A j \in 1..(i - 1) : a[j] = p[j]
    IN  <<[kind |-> "body", label |-> q, byte |-> first, left |-> a[first], right |-> p[first]]>>

\* The first pair of some, in the order declared, that differs.
FirstDivergence(some) ==
    LET at == {i \in DOMAIN PairSeq : PairSeq[i] \in some /\ Differ(PairSeq[i])}
    IN  IF at = {} THEN <<>>
        ELSE BodyDivergence(PairSeq[CHOOSE i \in at : \A j \in at : i <= j])

-----------------------------------------------------------------------------
(* The harness.                                                            *)

NoRun == [pre |-> Setup, probes |-> <<>>]
Process(n, v, b, inl) ==
    [number |-> n, variant |-> v, build |-> b, inline |-> inl, loaded |-> disk]

Init ==
    /\ disk \in Targets
    /\ rebuilds = 0
    /\ \E v \in Variants, b \in Builds, inl \in BOOLEAN : proc = Process(1, v, b, inl)
    /\ emitted = FALSE /\ accts = Setup /\ pc = "loop"
    /\ acted = 0 /\ iters = 1
    /\ run = NoRun /\ pending = <<>> /\ found = <<>> /\ lost = FALSE
    /\ json = <<>> /\ reports = {} /\ copy = <<>>

environment == <<disk, rebuilds, proc, reports, copy>>
files == <<emitted, json>>

\* The sides whose send fails: none, unless sends may fail at that place.
Lost(place) == SUBSET {s \in Sides : <<place, s>> \in Faults}

Outcome(s, amount) == Exec(s, proc.loaded[s], accts[s], amount)

\* fuzz_assert!(false, ..) ends the iteration.
Fail(what) == found' = what /\ pc' = "over"

\* action_swap: a send that fails counts as a swap that did not succeed.
FuzzAction ==
    /\ pc = "loop" /\ acted < MaxActions
    /\ \E amount \in Amounts, gone \in Lost("action") :
         /\ accts' = [s \in Sides |-> IF s \in gone THEN accts[s] ELSE Outcome(s, amount).post]
         /\ lost' = (lost \/ gone # {})
    /\ acted' = acted + 1
    /\ pc' = CASE proc.variant \in {"smoke", "pool", "tokens"} -> "pairs"
               [] proc.variant = "product"                     -> "product"
               [] OTHER                                        -> "begin"
    /\ UNCHANGED <<environment, files, iters, run, pending, found>>

Compared ==
    CASE proc.variant = "smoke"  -> Pairs
      [] proc.variant = "pool"   -> {PairSeq[1]}
      [] proc.variant = "tokens" -> Pairs \ {PairSeq[1]}

\* check_all_pairs, check_pool_equivalent, check_token_accounts_equivalent.
CheckPairs ==
    /\ pc = "pairs"
    /\ IF FirstDivergence(Compared) # <<>> THEN Fail(FirstDivergence(Compared))
       ELSE /\ pc' = IF proc.variant = "smoke" THEN "product" ELSE "clean"
            /\ UNCHANGED found
    /\ UNCHANGED <<environment, files, accts, acted, iters, run, pending, lost>>

\* check_constant_product, of each side's own pool.
CheckProduct ==
    /\ pc = "product"
    /\ IF \E s \in Sides : ~Holds(s, accts[s]) THEN Fail(<<[kind |-> "product"]>>)
       ELSE /\ pc' = IF proc.variant = "smoke" THEN "begin" ELSE "clean"
            /\ UNCHANGED found
    /\ UNCHANGED <<environment, files, accts, acted, iters, run, pending, lost>>

\* Mutant: the state a report starts from is left as the last run found it.
KeepPreState == run' = [run EXCEPT !.probes = <<>>]

\* snapshot_pre_state, before the first probe is sent.
SnapshotPreState == run' = [pre |-> accts, probes |-> <<>>]

BeginProbes ==
    /\ pc = "begin"
    /\ SnapshotPreState
    /\ pc' = "probe"
    /\ UNCHANGED <<environment, files, accts, acted, iters, pending, found, lost>>

\* One probe of probe_actions, sent to the program and then to its rewrite.
SendProbe ==
    /\ pc = "probe" /\ Len(run.probes) < Len(ProbeSeq)
    /\ LET amount == ProbeSeq[Len(run.probes) + 1]
       IN \E gone \in Lost("probe") :
            /\ run' = [run EXCEPT !.probes = Append(@,
                  [amount |-> amount,
                   result |-> [s \in Sides |->
                       IF s \in gone THEN <<>> ELSE <<Outcome(s, amount)>>]])]
            /\ accts' = [s \in Sides |->
                  IF s \in gone THEN accts[s] ELSE Outcome(s, amount).post]
    /\ UNCHANGED <<environment, files, pc, acted, iters, pending, found, lost>>

\* Mutant: a probe that was not sent is left to the comparisons to skip.
CheckNothing ==
    /\ pc = "probe" /\ Len(run.probes) = Len(ProbeSeq)
    /\ pc' = IF proc.variant = "cost" THEN "cost" ELSE "parity"
    /\ UNCHANGED <<environment, files, accts, acted, iters, run, pending, found, lost>>

\* check_probe_evidence.
CheckEvidence ==
    /\ pc = "probe" /\ Len(run.probes) = Len(ProbeSeq)
    /\ IF \E i \in DOMAIN run.probes : SendFailed(run.probes[i])
       THEN Fail(<<[kind |-> "no evidence"]>>)
       ELSE /\ pc' = IF proc.variant = "cost" THEN "cost" ELSE "parity"
            /\ UNCHANGED found
    /\ UNCHANGED <<environment, files, accts, acted, iters, run, pending, lost>>

-----------------------------------------------------------------------------
(* The report.                                                             *)

Label(i) == <<"swap", i>>

\* Probes without both results are passed over.
Outcomes(i) == [s \in Sides |-> run.probes[i].result[s][1]]
ParityAt(i) ==
    IF SendFailed(run.probes[i]) THEN <<>>
    ELSE ParityDivergence(Label(i), Outcomes(i)["anchor"], Outcomes(i)["pinocchio"])
RegressionAt(i) ==
    IF SendFailed(run.probes[i]) THEN <<>>
    ELSE Regression(Label(i), Outcomes(i)["anchor"], Outcomes(i)["pinocchio"])

\* What was said of the first probe of which something was.
FirstFinding(says) ==
    LET at == {i \in DOMAIN says : says[i] # <<>>}
    IN  IF at = {} THEN <<>> ELSE says[CHOOSE i \in at : \A j \in at : i <= j]

Artifact(bytes) == IF proc.inline THEN ArtifactInline(bytes) ELSE ArtifactDigest(bytes)

\* A flattening of pairs: the anchor's item, then the rewrite's.
BothSides(of) ==
    [k \in 1..(2 * Len(of["anchor"])) |->
        of[IF k % 2 = 1 THEN "anchor" ELSE "pinocchio"][(k + 1) \div 2]]

ProgramItem(i, s) == [side |-> s, code |-> Artifact(disk[s])]
AccountItem(i, s) ==
    [label |-> <<"account", s, PairSeq[i]>>, present |-> run.pre[s][PairSeq[i]] # <<>>,
     pre |-> Artifact(IF run.pre[s][PairSeq[i]] # <<>> THEN run.pre[s][PairSeq[i]][1] ELSE <<>>),
     meta |-> <<"owner, lamports, executable, rent epoch">>]

\* The accounts that are there, in their order.
Kept(items) ==
    LET kept[n \in 0..Len(items)] ==
          IF n = 0 THEN <<>>
          ELSE IF items[n].present THEN Append(kept[n - 1], items[n]) ELSE kept[n - 1]
    IN  kept[Len(items)]

ActionItem(i, s) ==
    [label |-> <<"action", i, s>>, target |-> <<s>>, data |-> <<run.probes[i].amount>>,
     signers |-> {"fee_payer", "user"}]

\* build_report.  The programs are read off the disk as it is now.
BuildReport(d) ==
    [tool |-> proc.build,
     claim |-> [schema |-> SCHEMA_VERSION,
                bundle |-> [programs |-> BothSides([s \in Sides |-> <<ProgramItem(1, s)>>]),
                            accounts |-> Kept(
                                BothSides([s \in Sides |-> [i \in DOMAIN PairSeq |-> AccountItem(i, s)]])),
                            features |-> TRUE,
                            actions |-> BothSides([s \in Sides |-> [i \in DOMAIN run.probes |-> ActionItem(i, s)]]),
                            context |-> <<[runtime |-> TRUE, clock |-> <<0>>,
                                policy |-> [verified |-> FALSE, keys |-> {}]]>>],
                divergences |-> d]]

\* A finding is emitted before it is asserted: once per process.
Conclude(d) ==
    /\ IF d = <<>> THEN pc' = "clean" /\ UNCHANGED <<found, pending>>
       ELSE IF emitted THEN Fail(d) /\ UNCHANGED pending
       ELSE pc' = "json" /\ pending' = <<BuildReport(d)>> /\ UNCHANGED found
    /\ UNCHANGED <<environment, files, accts, acted, iters, run, lost>>

CheckParity == pc = "parity" /\ Conclude(FirstFinding([i \in DOMAIN run.probes |-> ParityAt(i)]))
CheckCost == pc = "cost" /\ Conclude(FirstFinding([i \in DOMAIN run.probes |-> RegressionAt(i)]))

\* A write leaves the document, or an error: the old file, or part of the new.
Written(old, new) == {new, old, <<>>}

\* emit: the Once is spent whatever becomes of the report.  The page that is
\* written after the JSON is a rendering of the same report.
EmitJson ==
    /\ pc = "json"
    /\ json' \in Written(json, CanonicalJson(pending[1]))
    /\ emitted' = TRUE
    /\ pc' = "assert"
    /\ reports' = reports \cup {[report |-> pending[1], ran |-> proc.loaded]}
    /\ UNCHANGED <<disk, rebuilds, proc, copy, accts, acted, iters, run, pending, found, lost>>

FuzzAssert ==
    /\ pc = "assert"
    /\ Fail(pending[1].claim.divergences) /\ pending' = <<>>
    /\ UNCHANGED <<environment, files, accts, acted, iters, run, lost>>

-----------------------------------------------------------------------------
(* The loop of the fuzzer, and the world around it.                        *)

\* The body returns, and its ProbeRun with it.
EndBody ==
    /\ pc = "clean" /\ pc' = "loop" /\ run' = NoRun
    /\ UNCHANGED <<environment, files, accts, acted, iters, pending, found, lost>>

NewIteration ==
    /\ pc \in {"loop", "over"} /\ iters < MaxIterations
    /\ iters' = iters + 1 /\ acted' = 0 /\ accts' = Setup /\ pc' = "loop"
    /\ run' = NoRun /\ found' = <<>> /\ lost' = FALSE
    /\ UNCHANGED <<environment, files, pending>>

\* The campaign ends, or is killed at any step: what it held in memory is gone.
Stop ==
    /\ pc # "stopped" /\ pc' = "stopped"
    /\ emitted' = FALSE /\ accts' = Setup /\ acted' = 0 /\ iters' = 1
    /\ run' = NoRun /\ pending' = <<>> /\ found' = <<>> /\ lost' = FALSE
    /\ UNCHANGED <<environment, json>>

\* Another process of the same test, by any toolchain, from setup().
Restart ==
    /\ pc = "stopped" /\ copy = <<>> /\ proc.number < MaxProcesses
    /\ \A s \in Sides : disk[s] # NoCode
    /\ \E b \in Builds : proc' = Process(proc.number + 1, proc.variant, b, proc.inline)
    /\ pc' = "loop"
    /\ UNCHANGED <<disk, rebuilds, files, accts, acted, iters, run, pending, found, lost,
                   reports, copy>>

\* Somebody rebuilds a program, or cleans its build directory.
Rebuild ==
    /\ rebuilds < MaxRebuilds /\ copy = <<>>
    /\ \E s \in Sides : \E b \in Later[s] \ {disk[s]} :
         disk' = [disk EXCEPT ![s] = b]
    /\ rebuilds' = rebuilds + 1
    /\ UNCHANGED <<proc, reports, copy, files, accts, pc, acted, iters, run, pending, found, lost>>

\* Somebody takes the JSON away.
Take ==
    /\ pc = "stopped" /\ copy = <<>> /\ json # <<>>
    /\ copy' = <<[of |-> json[1], doc |-> json, edits |-> 0]>>
    /\ UNCHANGED <<disk, rebuilds, proc, reports, files, accts, pc, acted, iters, run, pending,
                   found, lost>>

\* What may become of an artifact on the way: its text is cut, is of other
\* bytes, or is stripped.
Damaged(a, other) ==
    {ArtifactDigest(a.names), [a EXCEPT !.text = <<>>]}
        \cup (IF IsCarried(a) THEN {[a EXCEPT !.text = <<other>>]} ELSE {})

EditedBundles(b) ==
    (UNION {{[b EXCEPT !.programs[i].code = a] : a \in Damaged(b.programs[i].code, NoCode)} :
               i \in DOMAIN b.programs})
      \cup (UNION {{[b EXCEPT !.accounts[i].pre = a] : a \in Damaged(b.accounts[i].pre, Append(b.accounts[i].pre.names, 0))} :
               i \in DOMAIN b.accounts})
      \cup {[b EXCEPT !.accounts[i].meta = <<>>] : i \in DOMAIN b.accounts}
      \cup {[b EXCEPT !.actions[i].data = <<>>] : i \in DOMAIN b.actions}
      \cup {[b EXCEPT !.programs = SubSeq(@, 1, 1)], [b EXCEPT !.accounts = <<>>],
            [b EXCEPT !.actions = <<>>], [b EXCEPT !.features = FALSE], [b EXCEPT !.context = <<>>]}
      \cup {[b EXCEPT !.context = <<[c EXCEPT !.clock = <<>>]>>] : c \in {b.context[i] : i \in DOMAIN b.context}}
      \cup {[b EXCEPT !.context = <<[c EXCEPT !.policy.verified = TRUE]>>] :
               c \in {b.context[i] : i \in DOMAIN b.context}}

\* A report is cut short, re-serialized by another tool or schema, or loses a
\* part of its bundle, on its way to a reader.
Edit ==
    /\ copy # <<>> /\ copy[1].edits < MaxEdits /\ copy[1].doc # <<>>
    /\ \E doc \in {<<>>, <<[copy[1].doc[1] EXCEPT !.tool = "another"]>>,
                   <<[copy[1].doc[1] EXCEPT !.claim.schema = SCHEMA_VERSION + 1]>>}
                  \cup {<<[copy[1].doc[1] EXCEPT !.claim.bundle = b]>> :
                            b \in EditedBundles(copy[1].doc[1].claim.bundle)} :
         copy' = <<[of |-> copy[1].of, doc |-> doc, edits |-> copy[1].edits + 1]>>
    /\ UNCHANGED <<disk, rebuilds, proc, reports, files, accts, pc, acted, iters, run, pending,
                   found, lost>>

Harness ==
    \/ FuzzAction \/ CheckPairs \/ CheckProduct
    \/ BeginProbes \/ SendProbe \/ CheckEvidence
    \/ CheckParity \/ CheckCost \/ EmitJson \/ FuzzAssert
    \/ EndBody \/ NewIteration

Next == Harness \/ Stop \/ Restart \/ Rebuild \/ Take \/ Edit
Spec == Init /\ [][Next]_vars

-----------------------------------------------------------------------------
(* What the proofs take of the programs.                                   *)

Spent == Amounts \cup {ProbeSeq[i] : i \in DOMAIN ProbeSeq}
Programs(s) == {t[s] : t \in Targets} \cup Later[s]
AccountStates == [Pairs -> {acct \in Seq(Seq(Nat)) : Len(acct) <= 1}]

\* The programs of a side keep its accounts among A[s].
Closed(A) ==
    \A s \in Sides :
        /\ A[s] \subseteq AccountStates
        /\ Setup[s] \in A[s]
        /\ \A p \in Programs(s), at \in A[s], n \in Spent : Exec(s, p, at, n).post \in A[s]

\* What it means that programs a and p behave alike: they start in accounts
\* that are related, answer related accounts alike and at no higher cost,
\* leave them related, and the bodies of related accounts are the same.
Alike(a, p, R) ==
    /\ <<Setup["anchor"], Setup["pinocchio"]>> \in R
    /\ \A at \in R, n \in Spent :
         LET l == Exec("anchor", a, at[1], n)
             r == Exec("pinocchio", p, at[2], n)
         IN  /\ l.ok = r.ok
             /\ ~l.ok => l.code = r.code /\ (l.code = <<>> => l.variant = r.variant)
             /\ Regression(<<>>, l, r) = <<>>
             /\ <<l.post, r.post>> \in R
    /\ \A at \in R, q \in Pairs :
         LET l == BodyOf("anchor", q, at[1][q])
             r == BodyOf("pinocchio", q, at[2][q])
         IN  l = <<>> \/ r = <<>> \/ l = r

-----------------------------------------------------------------------------
(* Properties.                                                             *)

\* Programs that behave alike are never said to diverge, by any comparison and
\* wherever their accounts keep the body, as long as every action was sent to
\* both; a probe that was not is reported as no evidence.
NoFalseDivergence ==
    (found # <<>> /\ ~lost /\ <<proc.loaded["anchor"], proc.loaded["pinocchio"]>> \in Equivalent)
        => found[1].kind \in {"no evidence", "product"}

\* What the programs of `ran' make of the accounts `pre', probe after probe,
\* every send going through; and what they answer.
Course(ran, pre, amounts) ==
    LET at[i \in 0..Len(amounts)] ==
          IF i = 0 THEN pre
          ELSE [s \in Sides |-> Exec(s, ran[s], at[i - 1][s], amounts[i]).post]
    IN  at

Faithful(ran, pre, amounts) ==
    LET at == Course(ran, pre, amounts)
    IN  [i \in DOMAIN amounts |->
            [s \in Sides |-> Exec(s, ran[s], at[i - 1][s], amounts[i])]]

\* A body that ends without a report had nothing to report: the comparisons of
\* its variant come out even on what the programs do when every probe is sent.
CleanMeansAgreed ==
    pc = "clean" =>
        LET out == Faithful(proc.loaded, run.pre, ProbeSeq)
        IN  /\ proc.variant \in {"smoke", "parity"} =>
                 \A i \in DOMAIN out : SideResult(out[i]["anchor"]) = SideResult(out[i]["pinocchio"])
            /\ proc.variant = "cost" =>
                 \A i \in DOMAIN out : Regression(Label(i), out[i]["anchor"], out[i]["pinocchio"]) = <<>>
            /\ proc.variant = "pool" => ~Differ(PairSeq[1])
            /\ proc.variant = "tokens" => \A q \in Pairs \ {PairSeq[1]} : ~Differ(q)

-----------------------------------------------------------------------------
(* What a reader has: everything below is of the bytes of a bundle.         *)

CarriedProgram(b, s) ==
    LET i == CHOOSE j \in DOMAIN b.programs : b.programs[j].side = s
    IN  Bytes(b.programs[i].code)[1]

CarriedAccounts(b, s) ==
    [q \in Pairs |->
        LET i == {j \in DOMAIN b.accounts : b.accounts[j].label = <<"account", s, q>>}
        IN  IF i = {} THEN <<>> ELSE Bytes(b.accounts[CHOOSE j \in i : TRUE].pre)]

\* Re-execution of the actions of a bundle, in their order, on its accounts:
\* what they make of them, and what they answer.
Redone(b, i, at) ==
    LET s == b.actions[i].target[1]
    IN  Exec(s, CarriedProgram(b, s), at[s], b.actions[i].data[1])

Replay(b) ==
    LET at[i \in 0..Len(b.actions)] ==
          IF i = 0 THEN [s \in Sides |-> CarriedAccounts(b, s)]
          ELSE [at[i - 1] EXCEPT ![b.actions[i].target[1]] = Redone(b, i, at[i - 1]).post]
    IN  at

Replayed(b) ==
    LET at == Replay(b)
    IN  [i \in DOMAIN b.actions |-> Redone(b, i, at[i - 1])]

\* The finding without what a build has put into it.
Unbuilt(result) ==
    [result EXCEPT !.reason = IF @ = <<>> THEN <<>> ELSE <<[form |-> @[1].form, text |-> @[1].text[1]]>>]
Plain(d) ==
    IF d.kind = "parity"
    THEN [kind |-> d.kind, label |-> d.label, left |-> Unbuilt(d.left), right |-> Unbuilt(d.right)]
    ELSE d
Finding(r) ==
    [bundle |-> r.claim.bundle,
     divergences |-> [i \in DOMAIN r.claim.divergences |-> Plain(r.claim.divergences[i])]]

\* A report that is graded InputsCarried, of programs that are still those that
\* ran, is enough to find the same fault again, at the same probe.
ReportReplays ==
    \A e \in reports :
        LET b == e.report.claim.bundle
            d == e.report.claim.divergences[1]
            out == Replayed(b)
            again(i) == IF d.kind = "cu" THEN Regression(Label(i), out[2 * i - 1], out[2 * i])
                        ELSE ParityDivergence(Label(i), out[2 * i - 1], out[2 * i])
        IN  (Completeness(b) = "InputsCarried" /\ \A s \in Sides : CarriedProgram(b, s) = e.ran[s])
              => /\ IsFault(d) /\ HasFault(e.report)
                 /\ \E i \in 1..(Len(b.actions) \div 2) :
                      /\ again(i) # <<>> /\ Plain(again(i)[1]) = Plain(d)
                      /\ \A j \in 1..(i - 1) : again(j) = <<>>

\* Two toolchains that find the same publish the same digest of the claim, if
\* one of the reports calls it portable.
PortableNamesFinding ==
    \A e, f \in reports :
        (Finding(e.report) = Finding(f.report) /\ ClaimDigestIsPortable(e.report))
            => ClaimDigest(e.report) = ClaimDigest(f.report)

\* What a reader makes of the bytes: a report, or nothing.
Accepted == IF copy = <<>> THEN <<>> ELSE FromJson(copy[1].doc)

\* Everything a replay takes can be had from the bundle.
Recoverable(b) ==
    /\ Len(b.programs) >= 2 /\ \A i \in DOMAIN b.programs : Bytes(b.programs[i].code) # <<>>
    /\ b.accounts # <<>>
    /\ \A i \in DOMAIN b.accounts : Bytes(b.accounts[i].pre) # <<>> /\ b.accounts[i].meta # <<>>
    /\ b.actions # <<>>
    /\ \A i \in DOMAIN b.actions : b.actions[i].target # <<>> /\ b.actions[i].data # <<>>
    /\ b.features
    /\ b.context # <<>> /\ b.context[1].runtime /\ b.context[1].clock # <<>>
    /\ b.context[1].policy.verified =>
         \A i \in DOMAIN b.actions : b.actions[i].signers \subseteq b.context[1].policy.keys

\* Whatever was done to a report on its way, it is graded InputsCarried if and
\* only if all its inputs can be had from it; otherwise the page lists a gap,
\* and bytes that are not what they are said to be are never graded anything
\* but Corrupt.
GradeIsJustified ==
    Accepted # <<>> =>
        LET b == Accepted[1].claim.bundle
            page == Markdown(Accepted[1])
        IN  /\ (page.grade = "InputsCarried") = Recoverable(b)
            /\ (page.gaps = {}) = Recoverable(b)
            /\ (page.grade = "Corrupt") =
                 \/ \E i \in DOMAIN b.programs :
                       IsCarried(b.programs[i].code) /\ Bytes(b.programs[i].code) = <<>>
                 \/ \E i \in DOMAIN b.accounts :
                       IsCarried(b.accounts[i].pre) /\ Bytes(b.accounts[i].pre) = <<>>

\* A report that a reader takes for whole holds, under each name, the bytes its
\* process put there: a cut or changed program or account never passes.
DamageNeverCarried ==
    (Accepted # <<>> /\ Completeness(Accepted[1].claim.bundle) = "InputsCarried") =>
        LET b == Accepted[1].claim.bundle
            first == copy[1].of.claim.bundle
        IN  /\ \A i \in DOMAIN b.programs : b.programs[i].code.text = first.programs[i].code.text
            /\ \A i \in DOMAIN b.accounts : \E j \in DOMAIN first.accounts :
                 /\ b.accounts[i].label = first.accounts[j].label
                 /\ b.accounts[i].pre.text = first.accounts[j].pre.text

=============================================================================
