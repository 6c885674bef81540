# solinv, modelled

solinv finds missing account checks in Solana programs. It has three parts
that have to be right for its reports to mean anything:

- **detectors** (`crates/solinv-core`), which tamper with the accounts of an
  instruction inside a fuzzing loop and report a program that accepts it. A
  detector that reports a program which does make the check, or that leaves the
  ledger changed for the detector after it, poisons everything downstream;
- **mutation campaigns** (`crates/solinv-mutate` and
  `scripts/run_mutation_campaign.sh`), which plant bugs in a program's source,
  rebuild it, run the detectors and score them. A campaign that scores the wrong
  program, or reads silence as a finding, says something false about the
  detectors;
- **comparisons** of two programs: of what they do (`solinv-fuzz`, differential
  harnesses, and the report of `solinv-disclose` a finding travels in) and of
  what they check (`solinv diff`, `crates/solinv-static`). A comparison that is
  silent about a difference says that there is none.

This directory holds TLA+ models of the three, of the example programs and
harnesses the repository demonstrates them on, the TLC runs that check the
models, and TLAPS proofs of what matters most about the first two. What is left
out, and why, is under "Not modelled".

## Inventory

| part | state | operations | meets the others through |
|---|---|---|---|
| detectors, `solinv-core/src/invariants/*` | none of their own: they save accounts, write fakes, send, hash, assert and restore | one `check` each, called in the order of the harness's body | the ledger of the `TestContext`, the thread-local first violation, the reachability ledger |
| reachability ledger, `reachability.rs` | one set per process | `record_ix_reached`, `is_ix_reached` | detectors and harness actions write it; the campaign reads the lines it prints |
| harness declarations, `solinv-fuzz/src/capability.rs` | the `InstructionSpec`s of a fixture | read only | detectors |
| specs from an IDL, `solinv-fuzz/src/idl.rs` | a cache per process | `SpecBuilder::build`, `infer_from_state`, `infer_candidates` | an IDL and the accounts after `setup()` in, declarations out |
| crucible, the victim program, litesvm (outside the repository) | accounts, violation, iteration snapshot | actions, sends, `write_account` | detectors |
| trace, `trace.rs`, and the walker of `cpi_reentrancy.rs` | a stack | call tree of a log, annotation of a re-entry | the log of a transaction |
| mutants, `solinv-mutate/src/mutant.rs`, `operator.rs` | a plan (JSON) | `generate`, `enclosing_fn`, `apply` | the campaign, by id and by digest |
| campaign, `run_mutation_campaign.sh` | source tree, deployed program, saved copy, baseline, `results.json` | baseline, save, apply, build, restore, run twice, classify, write, close | `mutate apply` in, logs of the detectors in, results out |
| score and triage, `score.rs`, `mutate exclude`/`score` of `solinv-cli` | results and the plan's exclusions | tally, evaluate, exclude | results in, verdict out |
| differential, `solinv-fuzz/src/differential.rs` and `amm-diff` | two ledgers, a run of probes, one report per process | send to both, compare bodies, outcomes and cost | disclosure |
| disclosure, `solinv-disclose` | a report under construction, a report in someone's hands | completeness, integrity, two digests | differential |
| static diff, `solinv-static/src/{source,diff,idl_diff,legacy,native}.rs` | none | compare the checks of two versions of a program, by source, by IDL, or by the text of a native one | `solinv diff`, the GitHub action |
| escrow-demo | two programs, two harnesses, a committed campaign | every instruction, every test | all of the detectors, mutants, specs from an IDL |
| pinocchio-bench-fuzz | seven planted programs with their acceptance harnesses | every action, every check | two of the detectors, checks of its own |
| bytepoke, field schemas, state coverage, corpus, cheat codes, scripts, action | I/O, placeholders, reporting | | |

What is hard:

- **sequences on shared state.** A body makes dozens of attempts one after the
  other on one ledger, none of which may be visible to the next. Early returns,
  accounts that a send creates or closes, a fake at an address that is also
  real, keys that occur twice in an instruction: each has been the bug of some
  attempt (the issue numbers are in the comments of the code).
- **crash and restart.** The campaign patches the user's source in place; a
  differential process is killed between finding and reporting, and its successor
  may be of another toolchain, or meet a program that was rebuilt.
- **silence.** A run that never started looks like a run that found nothing, and
  there are two runs per mutant and one of the baseline. Two sides that both
  failed to send agree.
- **joins by name.** Violations are joined to mutants through a log, functions
  to instructions through a name, the checks of one version to those of the next
  through the names of instructions, slots and variables, all of which are renamed.
- **stale notes.** A harness compares the accounts of now with what it noted before
  a send that may have failed.
- **triage after the fact.** Mutants are ruled equivalent once the score is seen.
- **damage on the way.** A report is re-serialized, cut and edited before it is read.

What makes each part correct:

- detectors: no false accusation; the ledger is as before after each attempt;
- reachability ledger: what it names was executed;
- trace and walker: the re-entry reported is the first, none is missed, the tree
  is that of the invocations;
- campaign: an outcome is of the mutant it names; a credited kill is the
  mutation's doing; what was not tried is not scored; silence is not evidence;
  the script ends; together, the promise of `Verdicts`;
- score: an exclusion never removes a kill, never lowers the score, never turns
  an inconclusive campaign into a verdict; a verdict has evidence;
- specs from an IDL: the detectors say what they say with specs written by hand;
- differential: equal programs do not diverge, and a clean body is a statement
  about what the programs do, not about what was sent;
- disclosure: a report is graded by what a reader can get from it, replays to the
  fault it states, and is not made better by damage;
- static diff: what the runtime no longer checks is reported, what fails a build
  is really gone, and a guess never fails one;
- examples: each planted bug is found by the test it was planted for, and by
  no other; a mutant is killed exactly where it makes a difference.

## Modules

| module | models | theorems |
|---|---|---|
| `Ledger` | accounts and the helpers of `util.rs` | |
| `Victim` | what the detectors act on: declared instructions, a program that makes any subset of the checks they look for, the runtime | |
| `Detectors` | the eleven detectors and the loop around them; extends the two above | `Detectors_proofs` |
| `Reentry` | the log of a transaction, `parse_cpi_events` and `detect_reentry`, `build_tree` and `annotate` | `Reentry_proofs` |
| `Verdicts` | what a campaign promises the reader of `results.json` | |
| `Campaign` | `run_mutation_campaign.sh`, `mutant.rs` apply; implements `Verdicts` | `Campaign_proofs` |
| `Score` | `score.rs`, `mutate exclude` | `Score_proofs` |
| `Disclosure` | `repro.rs`, `divergence.rs`, `report.rs` | |
| `Differential` | `differential.rs`, `amm-diff` and `evidence.rs`; extends `Disclosure` | `Differential_proofs` |
| `Source` | an Anchor program as `source.rs` reads it, and what the runtime checks of it | |
| `SourceDiff` | `diff.rs`; extends `Source` | |
| `IdlDiff` | `idl_diff.rs`, `legacy.rs`, and what `anchor build` writes; extends `SourceDiff` | |
| `Upgrade` | the edits between two versions; extends `IdlDiff` | `Upgrade_proofs` |
| `Native` | `native.rs` over programs made of statements | |
| `Rewrite` | the edits of a native program, and what it checks when it runs; extends `Native` | |
| `Escrow` | the two programs of `escrow-demo` and the runtime | |
| `IdlSpecs` | `idl.rs`; extends `Escrow` | |
| `Mutants` | `operator.rs` and `mutant.rs` generate | |
| `EscrowHarness` | the harnesses of `escrow-demo`; composes `Escrow`, `IdlSpecs` and `Mutants` | `EscrowHarness_proofs` |
| `Planted` | the planted programs of `pinocchio-bench-fuzz` | |
| `Bench` | their harnesses; extends `Planted` | `Bench_proofs` |
| `MC…` | small instances, shared by the `.cfg` files | |

### Ledger, Victim, Detectors

An account keeps its owner, its discriminator, the context it is bound to (user,
market, epoch) and one value for the rest of its data and its lamports.
`hash_accounts` is the accounts themselves, so it is taken to be free of
collisions.

One step of `Detectors` is one attempt of one detector: save, write the fake,
send, hash, assert, restore, clean up. The process has one thread, so nothing
happens between these, and the choices inside a step are the program's and the
runtime's: `Victim!Sends` gives every outcome of a transaction under a program
that makes the checks of `enforced` and no others, the rejections with and without a
fee among them. The early returns of `check` and `run_attempt` are in
`Skip`; the configuration findings of `check_sets` are `Malformed`. A harness is
the instructions its fixture lists, the detectors its body calls (`chain`) and the sets it gives `check_sets`.
Attempts of different detectors are taken in the order of the body, those of one
detector in any order. `FuzzAction` is the fixture's action between bodies,
`NewIteration` the snapshot restore, which keeps the reachability ledger.

`params` (the `harness`, and `enforced`, the checks the program makes) are chosen in
`Init` and never change: a run checks every harness of the fixture against every program at once.

What the detectors compute from logs (`cpi_reentrancy.rs`, see `Reentry`), from rent
(`realloc_race.rs`), from compute units (`cu_dos.rs`) and from fields
(`unchecked_math.rs`, `precondition_skip.rs`) is abstract: the canonical
instruction is faulty or not, or its values break a declared guard or invariant.
The four kinds of `unchecked_math.rs` are told apart (`Violated`): a relation has to hold
before the send to be broken by it, a bound is looked for in what the send left alone, and a sum or an order
compares before with after.

### Reentry

What `CpiReentrancy` of `Detectors` leaves abstract, the reading of a log. The
runtime writes invocations, names, costs and returns, a line at a time, and may
lose any line; after the first loss a line may still get through, because a shorter one may
fit (`Emit`). Then two readers go through the log, one line a step: `Walk`, under
every allowlist of `Allowlists`, and `Build`. Lines are records and the parser
is what `Walk` and `Build` look at: a line that is not an event changes neither.
The arena of `build_tree` is kept as it is built, with a frame's parent in place
of its lists of children. `after` and `begun` in a line are
history, for the proofs: what was open and how much had begun once it was
written.
A failing invocation fails the ones around it.

### Campaign

A file's text is the set of mutations in it, and the text the plan was cut from
is `{}`; the FNV digest of `mutant.rs` tells any two texts apart. A program is
the set of the mutations in the files it was built from. Each action is a step
of the script between two external commands: `BuildBaseline`, `RunBaseline`,
`SaveSource` (`cp`), `ApplyMutant` (`mutate apply`, which refuses a file of
another digest), `BuildMutant`, `RestoreSource`, `RunMutant` (both runs, the
classification and the result), `Close` (the closing bracket). `Crash` kills the
script between any two of them: the tree, the deployed program and
`results.json` stay, the work directory goes. `Rerun` starts it again.

A run's log shows whether it started, the detectors that fired and the
instructions recorded. `Faults` says what may go wrong: `"silent"`, a run that
shows nothing; `"partial"`, a run that shows some of what the program trips (a
timed fuzz run). Without faults a run shows all of it. `unshown` is history: what the
baseline's program trips and its run did not show.

`Verdicts` is the promise without the script: a list of verdicts, one a mutant in
the order of the plan, each judged once, a kill only by a detector the mutant adds or the
one run of the baseline missed, and
a file that is published when every mutant has been judged. `Campaign!V` maps
`results` and `closed` onto it, `KeepsVerdicts` says that the script implements it; everything else, the tree, the builds, the two runs, the
kills of the script, is a stutter, and a restarted script is `Begin`.

### Score

The results are any function from the mutants to a killer or another outcome;
`Exclude` rules one mutant of the plan equivalent, in any order and whatever its
result. The score is kept as a pair of counts and compared with `min_score`, a
fraction, without rounding. The program divides in `f64`; a correctly rounded
quotient is monotone, and equal fractions round to equal numbers, so the comparison can differ
only when the two are within rounding of each other, which counts of mutants and
a decimal criterion are not. `per_invariant` and the Markdown are not modelled.

### Disclosure, Differential

A process of `amm-diff` is one test (`variant`) under one toolchain (`build`), with
the two programs it loaded. `FuzzAction` sends a swap to both sides and `CheckPairs`,
`CheckProduct`, `BeginProbes`, `SendProbe`, `CheckEvidence`, `CheckParity` and
`CheckCost` are the body, one comparison a step; `Conclude`, `EmitJson` and
`FuzzAssert` are what becomes of a finding, which is written once per process
(`emitted`) before it ends the iteration. `Stop` kills the process at any step, `Restart` starts
another, perhaps by another toolchain, `Rebuild` changes a `.so` on the disk, and a write may
leave the old file, an empty one or the new one. `Take` and `Edit` are a reader's copy and
what happens to it: a field dropped, bytes cut or exchanged, text that no longer
decodes. `Exec`, what a program does, is a constant: `MCDifferential` has nine pairs,
equal, dearer, refusing by another code or by a builtin error, more lenient, writing other
bytes, draining, and closing an account.

`Disclosure` keeps of an artifact what it names, whether it is carried, and what
its text decodes to; SHA-256 is taken to be injective. An `Option` is the empty tuple
or a tuple of one. The four fields of an account's metadata are one. The Markdown
page is the grade and the gaps it prints. `SOLINV_REPORT` is set; accounts an action
declares are those of `diff_pairs()`; the digests of instruction data are left out.

### Source, SourceDiff, IdlDiff, Upgrade

A version is a function from instruction names to instructions: slots by path, each with
its type and the attributes `source.rs` reads, and the bag of checks of the handler. Names are
numbers, in the order strings are compared. Every slot and instruction has an `id` that is
not in the source and that no operator of the code reads: it says what is the
same account whatever it is called. `HeldAt` and `Enforced` of `Source` are what the
runtime checks of the accounts an `id` stands for. `SourceDiff!Changes` and
`IdlDiff!IdlChanges` are the two comparisons; `AnchorIdl`, `LegacyIdl` and `Convert` give
the IDLs of a version, with account resolution or without. Each equality of a constraint is a clause of
its own: `dest.key() == ID && ledger.x == y` ties `dest` and says nothing of `ledger` (`TiedByClause`).
The accounts of an IDL are in the order of their paths (`InOrder`); an account marked optional that signs when it is passed
is a signer of the IDL (`SignsIfPassed`), which the source diff does not count as one (`Signs`).

`Upgrade` starts from a version and makes edits, of twenty kinds: types, attributes, checks, instructions
and names come, go, move and change. The diff has no state: at each step its output on
(base, head) is compared with what the two versions enforce.

Left out: the parser, the wording (`handed`, `collapse_guesses`),
vipers' `validate` (diff.rs 396–404, source.rs 1728–1790), `unscoped_entries`, `lint`,
type layouts. Seeds are the names they contain.

### Native, Rewrite

A native program is a function from fn names to parameters, the statements before a
`match`, and arms. A statement is a binding from the accounts slice (`let`, a slice
pattern, `next_account_info`), a condition that returns an error, a call, or a use.
`Native` computes the checks of each fn and arm (`Atoms`, `Holds`), follows calls four deep as
`DEPTH` does, and compares two programs (`Changes`). `Rewrite` edits a program a statement at a
time: seven kinds of edits lose or weaken a check or an account, six say the same in other
words (inlining a helper, moving its checks up, moving one into every arm, renaming,
indexing in place of a name). It has its own reading of what a program checks
when it runs (`Enforced`, an evaluator that knows which account each name stands for).

Left out: the reading of text into statements; predicates of one expression, which the code
inlines, and of several, which it does not follow; borrows; the spellings of
`program_id`; two fns of one name; code after the match; branches around a check;
`FnIndex::resolve`, which picks the fn a name means.

### Escrow, IdlSpecs, Mutants, EscrowHarness

`Escrow` has both programs instruction by instruction, over lamports, sizes, owners,
discriminators and the fields of `Vault`; the runtime rolls a failed transaction back and
refuses rent that is not paid. Amounts are scaled down together: `U64` is
1024, a vault's rent 5, `Bps` 4. The compute units and the growth of an account are
what the detectors see of them. `IdlSpecs` builds declarations from an IDL and from the accounts
`setup()` left. `Mutants` is the catalog of operators over a source that is a sequence of declarations
and sites, by line; `MCEscrow!MCCleanSource` is that of `escrow-clean`.

`EscrowHarness` composes them. A process runs one test of one harness; for
`escrow_clean` on the clean program or on any mutant of its plan. `ActionSend` is a fuzzed action, `RunBody` the
whole body, computed, because programs, declarations and detectors are all given: one attempt after
another, each restoring what it saved. `differed` is history: whether something was sent that
the original would have answered differently.

### Planted, Bench

Every plant of the seven programs quotes the line it replaced, so `Planted` gives each
program for any subset of its plants. `Bench` is the harness of each, with the smoke
test (all checks) and one test per check, and the harness of the clean matching program.
An action notes what it found, sends, notes whether the send landed, and may fail to send. The
clean benchmark programs are outside the repository: they are what the quoted
lines say. Ticks are three, orders per tick two, the reserves a thousandth of
the harness's. What no check compares is left out: quantities, asks, EMAs, rates, deposit counts, the
prices of a feed; owner-skip in the smoke test, which `AccountLoader` refuses before
anything runs; arithmetic that saturates.

## Runs

Passing:

| run | asks | bounds |
|---|---|---|
| `detectors` | Do the detectors, in several orders, accuse a program of a check it makes, or change what the next one starts from, whether anything was reported or not? `NoFalseAccusation`, `BodyRestores` | three harnesses, every subset of the checks: a withdraw with a PDA whose lower-bump address is free, under four chains of tampering detectors; a transfer of six metas (an optional signer, the fee payer, a key that signs twice, an index out of range) and four swap sets, some of which cannot run, under signer-skip and account-swap; an open that creates the account the spend beside it needs, with an order, a bound and a relation declared, under two chains of replaying detectors. 438,344 states |
| `reentry` | Is the re-entry reported the first of the transaction, with its depths, is none missed, and is the tree the tree of invocations? `FindsFirstReentry`, `NoReentryMissed`, `TreeIsTheInvocations`, `WholeTreeIsComplete` | three invocations, three deep, two programs (one builtin), two allowlists, up to two lines after a loss |
| `campaign` | Killed anywhere and started again on the tree it left, is an outcome of the mutant it names, a kill its doing or what the baseline's run missed, a closed results file complete; does the script keep the promise of `Verdicts`, and end? `TriedItsMutant`, `KillsAddDefects`, `OnlyCompleteIsScored`, `KeepsVerdicts`, `CampaignEnds` | four mutants (one that does not build) in two files, killed up to twice, rerun once; runs that show nothing, or some of what there is |
| `score` | Can triage turn an inconclusive campaign into a verdict or lower a score? `TriageNeverConcludes` | four mutants, every outcome, every exclusion |
| `differential` | Do equal programs diverge, does a clean body mean that the programs agree, and what is a report worth once it was written, replaced, taken away and edited? `NoFalseDivergence`, `CleanMeansAgreed`, `ReportReplays`, `PortableNamesFinding`, `GradeIsJustified`, `DamageNeverCarried` | nine pairs of programs, six tests, two probes, one action, two iterations, two processes, two toolchains, one rebuild, one edit |
| `upgrade` | Is every check that was lost reported, every removal of a check that was lost, each instruction compared with one, a free account marked; is anything an IDL shows loosened in silence, and does a guess about one fail a build? `EveryLossIsReported`, `RemovalsAreLosses`, `ComparedOneToOne`, `UntiedIsUnbound`, `OnlyBareSlotsAreSilent`, `NoGuessFailsABuild` | two edits of three programs of one or two instructions, two more to add; three edits of two programs of one instruction (`Hold`, `Pay`); IDLs legacy or current, resolved or not. 64,588 states |
| `escrow` | Does each test of the two harnesses report what is wrong with its program and nothing else, is a mutant killed exactly when it makes a difference, and does it matter whether specs were inferred? `ReportsWhatIsWrong`, `KillsAreDifferences`, `DetectionsUnchanged`, `NotReachedMadeNoDifference`, `VaultBacked`, `PaidInTurn` | every test, every mutant of the plan, three actions, two iterations, three IDLs |
| `native` | Is every dropped check named, once, and is what is named gone? `EveryDroppedCheckIsNamed`, `NamedChecksAreGone`, `NamedOnce` | three programs (accounts destructured, indexed in arms, handed on), two edits |
| `bench` | Does each acceptance test report its plant and nothing else, and when may a plant act unseen? `OnlyItsPlant`, `NoPlantActsUnseen`, `SignerPlantSeen` | every subset of the plants, five actions, three ticks of two orders |

The bounds are small because the properties are about few things at a time: an
attempt touches one or two slots, a crash interferes with one mutant of the file
it left and one of another. Two detectors in both orders give every pair
(before, after), two slots a tampered and an untampered one, two values a
changed and an unchanged account, two contexts an own and a foreign one, two
crashes a crash on the recovery from a crash. Two edits of a program are a loss and
what hides it (a rename, a move, another instruction that has the check); two
processes and a rebuild are a report and whatever can replace or outlive it; two
iterations are the one that broke off and one that inherits the process; two probes,
one that the programs agree on and one that they do not. Five orders overfill a tick of
two or open one more than the book has, and three actions are what it takes to fund a vault, let
the window open and draw on it. What the bounds leave open in the first two parts the proofs close for all sizes.
A third edit, made of `Hold` and `Pay`, undoes what the other two needed: a check that moves, loses what it replaced, and moves
again; a slot that is loosened, disguised and renamed. `MaxEdits` and `Additions` are functions of the base, because three edits of
the larger programs are more versions than can be enumerated.

`CHECK_DEADLOCK FALSE` is in `differential` (a process that stopped and will not be
restarted), `escrow` (the last iteration ends), `upgrade`, `bare_slot`, `native` and `spelling` (the edits are used up): those systems
stop. The others have none: `Campaign!Over` is the end of a script that nobody starts again.

Violation: what the repository says and the code does not do, the subject of the
finding in `PROJECT.json`.

| run | the sentence | what TLC shows |
|---|---|---|
| `partial` | run_mutation_campaign.sh:25 "The mutation has to be shown to have *added* something, so the baseline's detector set is subtracted from every mutant's." | the baseline is one timed run (:204); a violation of the unmutated program that it misses is credited to a mutant |
| `bare_slot` | docs/idl-diff.md:11 "Nothing loosened is silent." | a slot with no checks that becomes read-only, optional and renamed at once is one slot gone and one new, and nothing is said |
| `spelling` | docs/native-diff.md:56 "A check moved ... from one spelling to another is not reported." | a comparison of two accounts, one of which is now indexed instead of named, is reported as gone |

### Limits of what holds

Places where the code does less than a comment suggests, or the models look away;
each is why a property or a theorem has the assumption it has.

Detectors, ledger and trace:

- cu_dos.rs:35 "Per-ix state is saved and restored around the execution":
  `save_accounts` (util.rs:56) keeps the accounts that exist, so one the send
  creates stays. `BodyRestores` is about what the body found.
- mod.rs:16 "Manual restore": bump-seed-canonicalization saves nothing; it writes
  a clone over whatever lives at the lower-bump address and blanks it afterwards
  (bump_seed_canonicalization.rs:73). `WellFormedFixture` has no live account there.
- unchecked_math.rs:267: a bound is looked for after the replay only, so one that an action broke, or
  on an account that did not exist before, is blamed on the instruction that is replayed next.
  `NoFalseAccusation` excepts exactly these (`BlamesAnother`). In `fuzz/escrow` the yield action
  gets a vault there, and the model reports what the code does.
- discriminator_skip.rs:11 "If the instruction succeeds and state changes, report": the hash (:157) is of the real accounts of the
  instruction, which the substituted fake is not among, so a program that accepts the fake and writes to it alone is not reported;
  owner_skip.rs:144 is the same. No property claims that an accepted tampering is reported.
- reachability.rs:27 "An ix that never appears here certainly did not execute.": the detectors that replay record, and the actions only if
  the harness is written that way (`ActionsRecord`). In one whose actions do not, an instruction that an action used up, so that its replay is
  rejected, never appears.
- cpi_reentrancy.rs:181 says the walker tolerates unbalanced pops. It does not
  panic, but after a lost `success` its stack is no longer the call stack, and
  a later sibling reads as a re-entry. `FindsFirstReentry` and
  `TreeIsTheInvocations` are about the part of the log before the first loss.
- trace.rs:188 "The annotated frame is the inner (re-entered) invocation": the note goes to
  the first frame of that program at that depth, which may be an earlier invocation.

Campaign and score:

- run_mutation_campaign.sh:250 "Restore the pristine source no matter how this iteration
  exits": the restores are at :254, :258 and :262, and the trap of :132 removes the saved
  copy with the work directory, so a script killed between patch and restore leaves the mutation in the tree.
  `TriedItsMutant` and its theorem say why that is less harmful than it looks: the
  digest test keeps a campaign on a dirty tree from attributing an outcome to the
  wrong mutant. `OneLeftoverPerCrash` says how dirty the tree can get.
- run_mutation_campaign.sh:28: a harness that never started must not fall through
  to `survived`. Evidence is looked for in both logs, so a scoring run that did
  not start beside a reachability run that did is a survivor.
  `SilenceIsNoEvidence` is about both.
- run_mutation_campaign.sh:62 "A mutant with no `enclosing_fn`, or whose name matches no instruction, is also treated as
  `survived`": the test of :291 asks only that the name is not empty and not in the ledger. The name of a helper is in no ledger, so its
  mutants are `not_reached`, and out of the score, although an instruction that was reached ran them.
- `KillsAddDefects` lets a kill be by a detector the program of the baseline trips and its run did not show
  (`unshown`), since that is all one sampled run can promise; what it excludes is a kill by what the baseline showed, or by what
  another mutation left in the tree.
- score.rs:105 "the coverage came from somewhere unplanned": the script names the
  alphabetically first of the detectors that fired (:276), so a mutant its
  expected detector killed may count there. No property is about which one.
- score.rs:219 "`denominator >= min_reached >= 1` here": nothing bounds
  `min_reached` below. `VerdictNeedsEvidence` is proved for `min_reached` at least 1.

Differential and disclosure:

- repro.rs:679 "a binary per side": the test asks for two programs, of whichever sides.
- solinv-disclose lib.rs (about :71) says that no harness populates a carried bundle; with
  `SOLINV_REPORT_INLINE=1` one does.
- amm-diff main.rs (about :798), inputs "drawn from the run itself": the programs are read off the
  disk when the report is built. After a rebuild it holds programs that did not run, and
  `ReportReplays` is about reports whose programs are still those that ran.
- amm-diff main.rs:513, a failing send as a harness-level matter: in an action it is counted as a swap that did
  not succeed and the two ledgers drift apart. `NoFalseDivergence` is about iterations without one (`lost`).
- evidence.rs: the `Once` is spent by a write that fails; that process reports nothing more.

Static diff:

- `init` loosened to `init_if_needed`, a removed `associated_token::*`, and a name dropped
  from `seeds` that keep their attribute are silent, which diff.rs:9 does not say. They are
  `DropUnlisted`; `EveryLossIsReported` sets instructions with one aside (`unlisted`), the other properties do not.
- source.rs `to_idl` (424–463) does not mark a non-PDA `init_if_needed` slot as a signer; its comment has it.
- `unbound` counts a declaration on an `Option` slot as a tie; `declared_eqs` does not.
- An optional third slot's constraint, or a token or data field that was renamed, reads as a removal.
- idl_diff.rs (about :351) knows a build without account resolution by the fixed addresses of the base. A base in
  today's format that has none, against a head built without, reads as removals. `NoGuessFailsABuildAlways`
  is about bases that have one (`BasesShowResolution`), and about instructions added under names the base does not
  use (`AddedAreNew`): under one it uses, the account at a path need not be the same one.
- docs/idl-diff.md, "Nothing loosened is silent", fails in three ways. A slot with no check but an address that is gone from its
  name (`RenamedBare`; the `bare_slot` run). An instruction compared with another of its shape, one that was added while it was
  renamed. And an instruction without a signer, a pda or a relation, renamed together with
  enough of its slots that it is not recognised, since a replaced instruction is reported only "if it had checks".
  `OnlyBareSlotsAreSilent` says that of an instruction compared with what it became (`ComparedWithItsOwn`) the first is all there is.
- docs/diff.md:45, a handler's check that an account "now declares ... instead", by an `address`, is a warning: diff.rs:555 takes an
  `address` for one only where there was none. Where the slot had another, the check is read as removed and fails the build; `RemovalsAreLosses`
  excepts exactly that (`NowAnAddress`). A check moved into a constraint of a third slot is not looked for either, and is not
  counted as kept (`EnforcedWhereNamed`). Versions with a new name or a check moved into the
  handler are set aside (`reworded`), as docs/diff.md says that they read as removals.
- source.rs:201: two slots that name each other and nothing else are each tied by the other, as the comment of `unbound` says;
  `UntiedIsUnbound` counts such a tie too.
- native.rs:335 compares the names of a test as written, so a rename or an index in
  a comparison of two accounts is reported as a removal (the `spelling` run). `NamedChecksAreGone` excepts comparisons of two accounts
  after such a change, and a renamed variable, which the document says is not followed.
- A dispatcher that drops the result of a handler using `next_account_info` is silent
  (native.rs:10 "the account checks a change removes"); so is a renamed `next` variable with its check dropped, which is documented. `TakenBelow` sets both aside.
- A `let` of a place in an earlier arm keeps that account bound, and a check before the
  match that moved into every arm is reported on the fn.
- `let [payer, _vault]` above a match whose arm indexes `accounts[1]` counts as an account gone.

Escrow:

- escrow main.rs (about :1084) says that reachability comes from four detectors only; the
  actions record it too. operator.rs says that six of the ten operators apply; seven do.
- lib.rs:402–412 claims an owner-skip for `unsafe_withdraw`: the runtime refuses to debit an
  account of another owner. discriminator-skip also reports `unsafe_set_amount_from_source`.
- `action_unsafe_realloc_grow` "ix succeeds throughout the corpus": an account grown past its rent is rejected.
- `unsafe_compute_dos`: 50 000 iterations at about five units are above, not below, the 200K ceiling.
- `unsafe_inner_mutate`: the state the inner call leaves is overwritten when the outer account is written back.
- withdraw of 0 under the mutant of line 74 differs from the original, and no harness sends it: `KillsAreDifferences` is about what is sent.

Benchmarks:

- anchor-w8-buggy lib.rs:43 and :62: k does not strictly decrease on every successful swap (at 2, the
  doubled floor leaves k rising), and Bug B can mask Bug A (at 3). `NoPlantActsUnseen` excuses an excess of `Dust`, and
  `DustAssumption` says how much that is: 4 for amounts up to 40 in the instance, and also for the harness's own 1 to 1000 in a pool
  of 1 000 000 to 2 000 000. It is reached: an amount of 3 with both bugs pays 7 for 3 and leaves k rising.
- oracle-pino's signer-skip finds its bug after a publish only because Bug B (the slot is not written)
  is planted too: the sample says slot 1. `SignerPlantSeen` says exactly that.
- The clean matching harness's owner check accepts an owner of zeros, so it would miss
  Bug D, and reads past a tick that counts more orders than it holds, a false alarm.
- matching-buggy's header says that the count is never incremented and the sequence never bumped; the
  program does both at times.
- `sequence_monotonic_only` sees the transition of its own sample only, and none when the tick is full.
- w11's Bug B also resets the EMA and w9's Bug A over-accrues, against "independent fields".
- A smoke test reports the first check that fails, and says nothing of the rest.

## Fairness

`Campaign!FairSpec` is weak fairness of `Script`: the script waits for nothing but the
commands it runs, and `--timeout` ends each fuzz run. `Crash` and `Rerun` are
not fair: nobody has to kill or restart it. `CampaignEnds` is the only liveness property; a body of
detectors is straight-line code, a diff is a function, and the fuzzing loops
run until they are stopped.

## What is proved

For every value of the constants; `MC*.cfg` are instances.

**`Detectors_proofs!BodyRestoresAlways`**, `TypesAlways` and **`NoFalseAccusationAlways`** assume `WellFormedFixture`: the types of a fixture,
no account of it at a temporary key, declarations that agree with the accounts
of the snapshot, alternates of another context. `BodyRestores` alone is not
inductive: an attempt may start from what an earlier one left at a temporary key.
`RestoringInv` adds that every temporary key is
empty or blank, in the ledger and in the baseline, and that the pending attempts
come from the declarations. Each tampered send is confined
to the keys of its metas and the fee payer (`SendsConfined`), those are the keys
that were saved, and the blanked ones are temporary. `NoFalseAccusation`
needs `SoundInv`: types, and every account at a fixture key bound to the context
the fixture declares (`Bound`), so that a foreign alternate is still foreign when
the program accepts it and an accepted attempt shows that the check is missing.
The bound that did not hold before is followed back to the accounts the body began with (`BlamesAnother`), which
is what the restores are needed for.

**`Detectors_proofs!ReachedWereExecutedAlways`** needs no assumption: what the ledger names was
executed. The converse is false (see the limits).

**`Campaign_proofs!TypesAlways`, `TriedItsMutantAlways`, `OnlyCompleteAlways`,
`SilenceIsNoEvidenceAlways`**
assume `CampaignAssumption` only. `TrialInv` says that each file, and the saved
copy, holds mutations of its own file; that from the patch to the restore the
file holds the current mutant and nothing else, because `apply` refused any other
text; and that from the build to the run the deployed program has that mutation,
alone of its file. `OrderInv` says that the results so far are a prefix of the
plan and the file is open.
**`OneLeftoverPerCrashAlways`** adds finitely many files; `LeftInv` counts the files that will still
be dirty once the mutant being tried has been restored (`Left`): never more than the
kills, because only a kill keeps a restore from happening. **`KillsAddDefectsAlways`**, for runs that show anything or nothing, rests on the invariant `Subtracted`: every
mutation in the tree but the current one was in the program of the baseline, so
whatever it trips is subtracted or was not shown. **`ImplementsVerdicts`** is the
refinement, with `unshown` for `missed`: `Spec => V!Spec`. Its invariant `ReportInv` joins the four, and each
action of the script is shown to be a `Begin`, a `Judge`, a `Publish` or a stutter.

**`Score_proofs!ExclusionsKeepKillsAlways`, `TriageNeverConcludesAlways`**
assume `ScoreAssumption`; **`VerdictNeedsEvidenceAlways`** adds `MinReached >= 1`.
The kills of the adjusted and the raw score are one set, and the rest is that
fewer survivors give a smaller denominator and a larger fraction.

**`Reentry_proofs!TypesAlways`, `TreeIsTheInvocationsAlways`,
`FindsFirstReentryAlways`, `NoReentryMissedAlways`** assume `ReentryAssumption`:
any programs, depth, length of the transaction and pattern of loss. `TypeInv`
adds to the types that a program which may not re-enter is on a walker's stack
at most once (`OncePerStack`), which is why the `find` of the code, the first
match, is the only one. `LogInv` says what a whole log is: each line follows
from what the lines before it leave open (`LineTrue`), and until the first loss
the last line is up to date. The readers are then compared with the log
alone: after k lines the stack of `build_tree` is what line k left open
(`TreeAt`), and the walker's stack is that, frame by frame, until it returns
(`WalkAt`). `MissInv` adds that what was found is kept. **`WholeTreeIsCompleteAlways`** is the converse, for a
log that lost nothing and was read to the end: every invocation, with its name, units and failure, is a
node. It needs that what has happened has been logged (`LoggedInv`), and that what was logged, as far as it was read, has been
heard (`HeardInv`).

**`Differential_proofs`** states the six properties of the run.
**`GradeIsJustifiedAlways`** and **`DamageNeverCarriedAlways`** follow from `ReaderInv`: whatever a
process holds or has on disk is a report as it was built (`GenuineReport`), and the reader's copy descends from one, edit
by edit, each item whole, damaged or gone (`Lineage`). A report is judged as a value: what `Completeness` and the gaps of the
page say is compared with the digests of the bytes, for any bytes.
**`CleanMeansAgreedAlways`** needs `RunInv`: the control flow of a body (`Route`), and that the run it concludes from is
what the loaded programs answered, probe by probe, until a send failed. `CleanInv` says what the comparisons have seen by then.
**`NoFalseDivergenceAlways`** assumes that each pair of `Equivalent` behaves alike: some relation
between the accounts of the two sides holds after setup, is kept by every amount, and makes results and
compared accounts equal (`Alike`). That relation is the invariant (`AlikeInv`).
**`PortableNamesFindingAlways`** adds `ShapedInv`, that the claim of every report has the shape of
what it is about, so that equal digests are equal findings.
**`ReportReplaysAlways`** assumes sets of accounts that setup is in and the programs stay in
(`Closed`); `ClosedInv` is that the accounts of every run are in them. TLC evaluates both assumptions on the instance
(`ProgramsAreClosed`, `EquivalentAreAlike` in `MCDifferential`).

**`Upgrade_proofs!VersionInvAlways`**: every edit, twenty kinds of them, leaves a version
Anchor can build (`Version`: finitely many slots, one account a slot, seeds that name something), and an account that kept
its path is the same one (`Stays`).
**`UntiedIsUnboundAlways`** goes from code to runtime: each thing `unbound` takes for a tie, in the declarations of the
account, in those of another or in the handler, is a fact the runtime enforces about
it and another account or a constant.
**`ComparedOneToOneAlways`** is about the loop over scored pairs: comparing fractions by cross-multiplication is a total order
(`BeforeIsAnOrder`), so some candidate is best, and what was settled is one to one and taken from the candidates (`Settling`).
**`NoGuessFailsABuildAlways`** assumes `AddedAreNew` and `BasesShowResolution` (see the limits; TLC evaluates both in
`MCUpgrade`). A removal that is not a warning is read from two slots at one path, of one
instruction name (`RemovedOfIdl`): whatever renames were guessed, they enter only through the head's name of a slot that
kept its path. In each of the four cases the account at the path has lost the fact (`LostFact`); when the head was built
without resolution, either that is seen or the base shows nothing that is compared (`ResolutionIsSeen`).

**`EscrowHarness_proofs`** states the six properties of its run. **`VaultBackedAlways`** and **`PaidInTurnAlways`** rest on `CleanInv`:
the accounts of `escrow_clean` are `Sound`: each vault is blank, or the program's with a
person as its beneficiary and its rent and amount in lamports (`Backed`); the depositor's has the window of setup. Of the mutant nothing is
assumed: any one mutation may be in. `CleanInv` also says that the accounts are `Quiet` between two bodies: nothing lies at the fake key, an
account without lamports is blank, and the depositor's side never holds more than it started with, so that the bound on
`vault.amount` cannot be passed.
On such accounts each attempt of the scoring test is put back, and what it comes to is known (`AttemptTells`): it lands under the mutant that
took its check and not otherwise. A body is a recursion over its attempts, as a sequence of states (`BodyRuns`), so what it reports and reaches
follows by induction on their number (`BodyIsTold`); with `BodyDiffersWhen` that is **`KillsAreDifferencesAlways`**.
**`NotReachedMadeNoDifferenceAlways`** adds `Noticed` (what made a difference was reported or reached its
function) and `Named` (the function the plan found around a check is its handler, from `SourceAssumption`).
**`ReportsWhatIsWrongAlways`** needs, for `escrow`, that a send which lands with the check of an attempt missing is one of the planted
instructions: `EscrowFinds` goes through the seven specs and what each declares. `EscrowInv` is that every key of the ledger
has an account with an owner, so that a copy with another owner is one.
**`DetectionsUnchangedAlways`** holds of every IDL that gives the six instructions their slots, whichever seeds and fixed addresses it leaves
out, as long as some vault keeps its seeds (`IdlAssumption`). Setup leaves two vaults and no third, whatever mutant is in
(`SetupIsFixture`). On those accounts each pass of the inference is followed slot by slot: `BuildGives`, `StateGives` (a vault whose seeds the IDL forgot
gets its owner, its type and its address back from the second pass), `SignersGive` (the depositor of `unsafe_withdraw`, whom no IDL asks to sign, is asked because the
vault names him). The result and the spec written by hand differ in no declaration a detector reads (`Alike`); two such specs
give every body the same attempts and every attempt the same end (`AlikeBodies`).
The assumptions: `HarnessAssumption`, samples and inputs are numbers and people, and a violation of some detector is not the
mark for none; `ScoringAssumption`, the amounts `escrow_clean` sends; `SourceAssumption`, how its source is laid out: a
check stands in its handler or in a Context that only its handler takes; `SetupAssumption`, a wallet pays for its vault and lives on
(setup unwraps what it sends); `IdlAssumption`, for the sixth theorem only. TLC evaluates them on the example's.

**`Bench_proofs!OnlyItsPlantAlways`**, **`SignerPlantSeenAlways`** and **`NoPlantActsUnseenAlways`** assume the sizes of `PlantedAssumption` and `BenchAssumption`
(a fee of at most 10000 basis points, two ticks of two orders or more, a pool that holds something) and that `NoViolation` names no check.
`BenchInv` says for each harness what its accounts and notes are, and, plant by plant, that what is not in its program has
not done its damage: a book without plants is sorted, within depth, and its sequence counts the
orders; a pool without "out" has kept its product; and so on. `BookInv` rests on lemmas about the binary search and
the insertion (a price lands where the ticks stay sorted). `SkipInv` adds what the signer-skip tests need: the first action of an
iteration leaves one tick or is caught, and a feed that never notes its slot stays at 0.
`NoPlantActsUnseenAlways` is the converse of `OnlyItsPlant`, action by action. `ActedInv` keeps what an action that landed found,
was given and noted, and that the pool is nowhere shallower than setup made it; `BodyMakes` turns silence into a check that holds of
that action; and for each check that means the plant made no difference (`SilenceMeans`): a tick opened at the end
of a book that is still in order was opened where the search would have put it (`SortUnseen`), a tick with an order too many shows
(`PlaceShows`). The doubled output is the one that can hide. `DustAssumption` is the only thing said about `Dust`: for each
amount, either the fee is a small part of it (`SmallFee`: then an output of more than twice `Dust` costs more than k gains from the
amount), or a pool as deep as the initial one never pays more for it (`DeepPool`).

`TypeOK` of those modules, `VersionInv`, `BenchInv`, `ReaderInv`, `RunInv`, `ReachedWereExecuted`, `ExclusionsKeepKills`,
`VerdictNeedsEvidence`, `SilenceIsNoEvidence` and `OneLeftoverPerCrash` are proved and in no
run: the proofs say more.

The models changed where a proof would not go through, each time towards the code: the conditions of some `CASE`s
overlapped (in `Completeness` and in `Escrow`), a deposit did not check its sum against a `u64`, a constraint's equalities tied
an account together rather than each on its own, and `NoGuessFailsABuild` took an optional account for one that never
signs. The instances as they were showed none of it; those of `upgrade` now have such a constraint and such a signer.

Model-checked only:

- `CampaignEnds`: temporal reasoning under fairness is outside what the proof system does.
- `EveryLossIsReported`, `RemovalsAreLosses` and `OnlyBareSlotsAreSilent` of `Upgrade`, which hold of the edits made rather
  than of any two versions, so that each needs an invariant relating the two through every edit.
- `EveryDroppedCheckIsNamed`, `NamedChecksAreGone` and `NamedOnce` of `Rewrite`: `Native` follows calls by `RECURSIVE`
  operators, which the proof system does not take.

## Not modelled

- Rust and IDL parsing, the regular expressions of the operators, line numbers of a plan,
  rendering, metrics and I/O.
- `bytepoke`, `state coverage`, `corpus`, the cheat codes, the scripts over past metrics, the action
  and its workflows: no state of their own, or glue.
- `lint`, and the adversarial tests of the diff: the first repeats the analyses that are
  modelled over one file, the second tests them.
- The arithmetic of `unchecked_math.rs` over 128-bit sums, the rent of `realloc_race.rs` and the
  position of its account in a message: `Escrow` has them concretely for its own
  instructions, `Detectors` abstractly.
- The harnesses of Raydium, klend, slumlord and sanctum, whose programs are not in the
  repository, and the differential harnesses besides `amm-diff`, which repeat its shape.

The victim program, litesvm, crucible and the clean benchmark programs are external: they are
modelled from how `src/` uses them.

## Plan

Done: the detectors, the trace, the campaign with the promise it keeps, the score; the differential
harness and its report; the three diffs; the escrow and benchmark examples.

Left, in this order:

1. `Fields`: sums, relations and guards over bounded integers, as refinements of
   the abstract `Violated` and `BrokenGuards` of `Detectors`.
2. `Realloc`: rent and data sizes, the index of `InsufficientFundsForRent`.
3. The line numbers of a plan, and `apply` by line and occurrence.
4. Type layouts in the diff of IDLs.
5. Proofs: `OnlyBareSlotsAreSilent` for instructions that kept their names, from what `Stays` says of the
   accounts that were kept; the part of
   `EveryLossIsReported` that is about one slot; `Native` without `RECURSIVE` operators, and then the properties of `Rewrite`.
