------------------------------ MODULE Detectors ------------------------------
(***************************************************************************)
(* One solinv fuzz process: Crucible's #[invariant_test] loop around a     *)
(* body that chains the detectors of solinv-core/src/invariants.           *)
(*                                                                         *)
(* The loop runs one fixture action, then the body, and again, until a     *)
(* violation is recorded or the iteration ends; the next iteration starts  *)
(* from the snapshot.  The body is a set of attempts (`todo'), one for     *)
(* each instruction, slot and substitution that a detector's check()       *)
(* iterates over.  A detector makes an attempt in one step: save, tamper,  *)
(* send, hash, assert, restore.  Nothing else runs in the process between  *)
(* these, so the only choice inside the step is what the program and the   *)
(* runtime do (Victim).  The detectors run in the order the harness's body *)
(* calls them (`chain'); the attempts of one detector in any order.        *)
(***************************************************************************)
EXTENDS Victim, Sequences

CONSTANTS
    Harnesses,           \* of each: the instructions it lists (ixs), the detectors its
                         \* body calls (chain), the slots it gives check_sets (sets)
    FakeKey,             \* stands for the Pubkey::new_unique() of a fake
    Stranger,            \* stands for the Pubkey::new_unique() of an owner
    WrongDiscriminators, \* WRONG_DISCRIMINATORS
    Snapshot,            \* the accounts setup() leaves
    ActionsRecord,       \* do the harness's actions call record_ix_reached?
    NoViolation

ASSUME HarnessAssumption == \A h \in Harnesses : h.ixs \subseteq Ixs

VARIABLES
    harness,    \* the harness that runs
    ledger,     \* the accounts of the TestContext
    phase,      \* "ready": between actions, "body", "over": iteration broken
    todo,       \* attempts the running body has left
    violation,  \* the thread-local first violation of the iteration
    reached,    \* the reachability ledger of the process
    baseline,   \* history: the ledger when the running body began
    executed    \* history: instructions that some transaction carried out

params == <<harness, enforced>>
vars == <<ledger, phase, todo, violation, reached,
          baseline, executed, params>>

chain == harness.chain   \* the detectors the body calls, in order

Attempt(kind, x, slots, what, declared) ==
    [kind |-> kind, ix |-> x, slots |-> slots, what |-> what,
     declared |-> declared]

-----------------------------------------------------------------------------
(* What the check() of each detector iterates over.                        *)

SignedElsewhere(x, i) ==
    \E j \in Slots(x) \ {i} :
        KeyAt(x, j) = KeyAt(x, i) /\ Instr[x].accounts[j].signer

\* Mutant: the fee payer's own slot is tried too.
EverySignerAttempts(x) ==
    {Attempt("signer-skip", x, {i}, Empty, FALSE) :
        i \in {j \in Instr[x].signerIndices \cap Slots(x) :
                 /\ j \notin Instr[x].optionalSignerIndices
                 /\ ~SignedElsewhere(x, j)}}

SignerSkipAttempts(x) ==
    {Attempt("signer-skip", x, {i}, Empty, FALSE) :
        i \in {j \in Instr[x].signerIndices \cap Slots(x) :
                 /\ j \notin Instr[x].optionalSignerIndices
                 /\ ~SignedElsewhere(x, j)
                 /\ KeyAt(x, j) # FeePayer}}

OwnerSkipAttempts(x) ==
    UNION {{Attempt("owner-skip", x, {i}, w, FALSE) :
              w \in {SystemProgram, Stranger} \ {Instr[x].expectedOwners[i]}} :
           i \in DOMAIN Instr[x].expectedOwners \cap Slots(x)}

DiscriminatorSkipAttempts(x) ==
    UNION {{Attempt("discriminator-skip", x, {i}, w, FALSE) :
              w \in WrongDiscriminators \ {Instr[x].expectedDiscriminators[i]}} :
           i \in DOMAIN Instr[x].expectedDiscriminators \cap Slots(x)}

\* Slots whose declared seeds do not derive the declared account are skipped.
PdaForgeAttempts(x) ==
    {Attempt("pda-forge", x, {i}, Empty, FALSE) :
        i \in {j \in DOMAIN Instr[x].expectedPda \cap Slots(x) :
                 /\ j \notin Instr[x].createsIndices
                 /\ KeyAt(x, j) = Instr[x].expectedPda[j]}}

\* check() tries each alternate of each slot alone, check_sets() each set.
LoneSwaps(x) ==
    UNION {{Attempt("account-swap", x, {i}, {<<i, k>>}, FALSE) :
              k \in Instr[x].swapAlternates[i]} :
           i \in DOMAIN Instr[x].swapAlternates}

DeclaredSwaps ==
    {Attempt("account-swap", s.ix, {p[1] : p \in s.swaps}, s.swaps, TRUE) :
        s \in harness.sets}

AccountSwapAttempts == (UNION {LoneSwaps(x) : x \in harness.ixs}) \cup DeclaredSwaps

\* A declared seed list with no account at its slot would panic here; such a
\* fixture is not considered.
BumpSeedAttempts(x) ==
    {Attempt("bump-seed-canonicalization", x, {i}, Empty, FALSE) :
        i \in {j \in DOMAIN Instr[x].expectedPda \cap Slots(x) :
                 /\ "bump-seed-canonicalization" \in Instr[x].optIns
                 /\ j \notin Instr[x].createsIndices
                 /\ AltPda[x][j] # Missing}}

\* One attempt for each declared state invariant: its slot is the number of it.
UncheckedMathAttempts(x) ==
    {Attempt("unchecked-math", x, {n}, Empty, FALSE) :
        n \in DOMAIN Instr[x].invariants}

\* The detectors that replay the whole instruction once.
ReplayAttempts(x) ==
    {Attempt(d, x, {}, Empty, FALSE) :
        d \in Instr[x].optIns \cap {"cu-dos", "realloc-race", "cpi-reentrancy"}}
    \cup {Attempt("precondition-skip", x, {}, Empty, FALSE) :
            g \in DOMAIN Instr[x].guards}

Attempts ==
    {a \in AccountSwapAttempts \cup (UNION {
            SignerSkipAttempts(x) \cup OwnerSkipAttempts(x) \cup
            DiscriminatorSkipAttempts(x) \cup PdaForgeAttempts(x) \cup
            BumpSeedAttempts(x) \cup UncheckedMathAttempts(x) \cup
            ReplayAttempts(x) : x \in harness.ixs}) :
        \E n \in DOMAIN chain : chain[n] = a.kind}

-----------------------------------------------------------------------------
(* What the detectors share.                                               *)

Finding(kind, x, slots) == [kind |-> kind, ix |-> x, slots |-> slots]

\* fuzz_assert! records and goes on; only the first violation is kept.
Record(v) == IF violation = NoViolation THEN v ELSE violation

CalledBefore(d, e) ==
    \E m, n \in DOMAIN chain : m < n /\ chain[m] = d /\ chain[n] = e

\* Attempt a is next: every detector called before its own has returned.
Taken(kind, a) ==
    /\ phase = "body" /\ a \in todo /\ a.kind = kind
    /\ ~\E b \in todo : CalledBefore(b.kind, kind)

\* An early return: the attempt is over and nothing has changed.
Skip(a) ==
    /\ todo' = todo \ {a}
    /\ UNCHANGED <<ledger, phase, violation, reached,
                   baseline, executed, params>>

\* Mutant: the fake is written but never passed.
Unsubstituted(x, i, k) == Instr[x].accounts

Substituted(x, i, k) == [Instr[x].accounts EXCEPT ![i].key = k]

Execute(x, out) == executed' = IF out.ok THEN executed \cup {x} ELSE executed

RecordIxReached(x, out) == reached' = IF out.ok THEN reached \cup {x} ELSE reached

\* Send the tampered metas from the ledger `armed', in which the fake has
\* been written; compare, report and restore the accounts of `watched', and
\* blank the keys of `temps'.
Tampered(a, armed, metas, keypairs, watched, temps) ==
    \E out \in Sends(armed, a.ix, metas, keypairs) :
      LET saves   == SaveAccounts(ledger, watched)
          changed == HashAccountsNow(out.ledger, watched) # saves
      IN  /\ violation' = IF out.ok /\ changed
                          THEN Record(Finding(a.kind, a.ix, a.slots))
                          ELSE violation
          /\ ledger' = CleanupTempAccounts(
                           RestoreAccounts(out.ledger, saves), temps)
          /\ Execute(a.ix, out)
          /\ todo' = todo \ {a}
          /\ UNCHANGED <<phase, reached, baseline, params>>

\* Substitute the account `fake' at a fresh key for slot i.  The attempt is
\* given up when write_account fails.
Forged(a, i, fake) ==
    \/ Skip(a)
    \/ Tampered(a, [ledger EXCEPT ![FakeKey] = fake],
                Substituted(a.ix, i, FakeKey), Instr[a.ix].signers,
                CanonicalKeys(a.ix), {FakeKey})

-----------------------------------------------------------------------------
(* The attempts, detector by detector.                                     *)

\* Clear is_signer on one meta and drop its keypair; the fee payer stays.
SignerSkip == \E a \in todo : \E i \in a.slots :
    /\ Taken("signer-skip", a)
    /\ Tampered(a, ledger,
                [Instr[a.ix].accounts EXCEPT ![i].signer = FALSE],
                Instr[a.ix].signers \ {KeyAt(a.ix, i)},
                CanonicalKeys(a.ix), {})

\* Same bytes, another owner.
OwnerSkip == \E a \in todo : \E i \in a.slots :
    LET real == ledger[KeyAt(a.ix, i)] IN
    /\ Taken("owner-skip", a)
    /\ IF real = Missing THEN Skip(a)
       ELSE Forged(a, i, [real EXCEPT !.owner = a.what])

\* Same owner, another discriminator; data too short to hold one is skipped.
DiscriminatorSkip == \E a \in todo : \E i \in a.slots :
    LET real == ledger[KeyAt(a.ix, i)] IN
    /\ Taken("discriminator-skip", a)
    /\ IF real = Missing \/ real.disc = Empty THEN Skip(a)
       ELSE Forged(a, i, [real EXCEPT !.disc = a.what])

\* The same account at another address.
PdaForge == \E a \in todo : \E i \in a.slots :
    LET real == ledger[KeyAt(a.ix, i)] IN
    /\ Taken("pda-forge", a)
    /\ IF real = Missing THEN Skip(a) ELSE Forged(a, i, real)

\* Why a swap cannot run.
Malformed(x, swaps) ==
    \/ x \notin harness.ixs \/ swaps = {}
    \/ \E p \in swaps : p[1] \notin Slots(x)
    \/ \E p, q \in swaps : p[1] = q[1] /\ p # q
    \/ \E p \in swaps : p[2] = KeyAt(x, p[1])
    \/ \E p \in swaps : ~Present(ledger, p[2]) /\ Present(ledger, KeyAt(x, p[1]))

SwappedMetas(x, swaps) ==
    [i \in Slots(x) |->
        IF \E p \in swaps : p[1] = i
        THEN [Instr[x].accounts[i] EXCEPT !.key =
                 (CHOOSE p \in swaps : p[1] = i)[2]]
        ELSE Instr[x].accounts[i]]

\* Mutant: the accounts of the canonical instruction.
CanonicalTouched(x, metas) == CanonicalKeys(x)

\* The accounts the swapped instruction touches.
TouchedKeys(x, metas) == {metas[i].key : i \in Slots(x)}

\* Put genuine accounts of another context in the slots.  Saves, hashes and
\* restores the accounts the swapped instruction touches.
AccountSwap == \E a \in todo :
    /\ Taken("account-swap", a)
    /\ IF Malformed(a.ix, a.what)
       THEN /\ todo' = todo \ {a}
            /\ violation' =
                 IF a.declared
                 THEN Record(Finding("account-swap-config", a.ix, a.slots))
                 ELSE violation
            /\ UNCHANGED <<ledger, phase, reached,
                           baseline, executed, params>>
       ELSE LET metas == SwappedMetas(a.ix, a.what)
                asked == {metas[i].key : i \in {j \in Slots(a.ix) :
                                                  metas[j].signer}}
            IN  Tampered(a, ledger, metas, Instr[a.ix].signers \cap asked,
                         TouchedKeys(a.ix, metas), {})

\* Put a copy of the account at the PDA of a lower bump.  Nothing is saved,
\* hashed or restored, and a success ends the detector for the instruction.
BumpSeed == \E a \in todo : \E i \in a.slots :
    LET real == ledger[KeyAt(a.ix, i)]
        alt == AltPda[a.ix][i]
        armed == [ledger EXCEPT ![alt] = real]
    IN
    /\ Taken("bump-seed-canonicalization", a)
    /\ \/ Skip(a)
       \/ /\ real # Missing
          /\ \E out \in Sends(armed, a.ix, Substituted(a.ix, i, alt),
                              Instr[a.ix].signers) :
               /\ ledger' = CleanupTempAccounts(out.ledger, {alt})
               /\ violation' = IF out.ok THEN Record(Finding(a.kind, a.ix, a.slots))
                               ELSE violation
               /\ todo' = IF out.ok
                          THEN {b \in todo : <<b.kind, b.ix>> # <<a.kind, a.ix>>}
                          ELSE todo \ {a}
               /\ Execute(a.ix, out)
               /\ UNCHANGED <<phase, reached, baseline, params>>

-----------------------------------------------------------------------------
(* The detectors that send the canonical instruction.                      *)

CanonicalSends(x) == Sends(ledger, x, Instr[x].accounts, Instr[x].signers)

\* Mutant: the accounts are left as the send left them.
LeftAsSent(a, out) ==
    /\ ledger' = out.ledger
    /\ RecordIxReached(a.ix, out)
    /\ Execute(a.ix, out)
    /\ todo' = todo \ {a}
    /\ UNCHANGED <<phase, baseline, params>>

\* What they do around the send: restore the accounts saved before it, and
\* record the instruction as reached when it was accepted.
Replayed(a, out) ==
    /\ ledger' = RestoreAccounts(out.ledger,
                                 SaveAccounts(ledger, CanonicalKeys(a.ix)))
    /\ RecordIxReached(a.ix, out)
    /\ Execute(a.ix, out)
    /\ todo' = todo \ {a}
    /\ UNCHANGED <<phase, baseline, params>>

\* `fault': the send showed what the detector looks for.  A program that
\* makes the check never shows it.
Faulty(kind, x, fault) == fault => [kind |-> kind, slot |-> 0] \notin enforced[x]

\* More compute units than the budget; read from a success only.
CuDos == \E a \in todo :
    /\ Taken("cu-dos", a)
    /\ \E out \in CanonicalSends(a.ix), overspent \in BOOLEAN :
      /\ Faulty("cu-dos", a.ix, overspent)
      /\ violation' = IF out.ok /\ overspent
                      THEN Record(Finding("cu-dos", a.ix, {0})) ELSE violation
      /\ Replayed(a, out)

\* An account that grew without rent: rejected with InsufficientFundsForRent,
\* or committed and found short.  Both are reported.
ReallocRace == \E a \in todo :
    /\ Taken("realloc-race", a)
    /\ \E out \in CanonicalSends(a.ix), short \in BOOLEAN :
      /\ Faulty("realloc-race", a.ix, short)
      /\ violation' = IF short THEN Record(Finding("realloc-race", a.ix, {0}))
                      ELSE violation
      /\ Replayed(a, out)

\* A program re-entered, seen in the logs of a success or of a rejection.
CpiReentrancy == \E a \in todo :
    /\ Taken("cpi-reentrancy", a)
    /\ \E out \in CanonicalSends(a.ix), reentered \in BOOLEAN :
      /\ Faulty("cpi-reentrancy", a.ix, reentered)
      /\ violation' = IF reentered THEN Record(Finding("cpi-reentrancy", a.ix, {0}))
                      ELSE violation
      /\ Replayed(a, out)

\* The slots whose declared precondition is false in ledger l; an operand
\* that cannot be read is no violation.
BrokenGuards(l, x) ==
    {i \in DOMAIN Instr[x].guards \cap Slots(x) :
        /\ Present(l, KeyAt(x, i))
        /\ l[KeyAt(x, i)].val \notin Instr[x].guards[i]}

\* Accepted although a precondition did not hold before the send.
PreconditionSkip == \E a \in todo :
    /\ Taken("precondition-skip", a)
    /\ \E out \in CanonicalSends(a.ix) :
      /\ IF out.ok /\ BrokenGuards(ledger, a.ix) # {}
         THEN \E i \in BrokenGuards(ledger, a.ix) :
                violation' = Record(Finding("precondition-skip", a.ix, {i}))
         ELSE violation' = violation
      /\ Replayed(a, out)

\* Mutant: a relation is judged by the state after the send alone.
ViolatedAfter(inv, pre, post) ==
    CASE inv.kind \in {"Bounded", "Relation"} -> post \notin inv.holds
      [] inv.kind \in {"Monotonic", "SumConservation"} -> <<pre, post>> \notin inv.steps

\* A bound is judged by the state after the send alone, a relation must have
\* held before it, the other kinds compare the two.
Violated(inv, pre, post) ==
    CASE inv.kind = "Bounded"  -> post \notin inv.holds
      [] inv.kind = "Relation" -> pre \in inv.holds /\ post \notin inv.holds
      [] inv.kind \in {"Monotonic", "SumConservation"} -> <<pre, post>> \notin inv.steps

\* A declared state invariant, read before and after the send; one that cannot
\* be read is not judged.
UncheckedMath == \E a \in todo : \E n \in a.slots :
    LET inv == Instr[a.ix].invariants[n]
        metas == Instr[a.ix].accounts
        pre == Image(ledger, metas, inv) IN
    /\ Taken("unchecked-math", a)
    /\ IF ~Readable(ledger, metas, inv) THEN Skip(a)
       ELSE \E out \in CanonicalSends(a.ix) :
              /\ violation' = IF /\ out.ok /\ Readable(out.ledger, metas, inv)
                                 /\ Violated(inv, pre, Image(out.ledger, metas, inv))
                              THEN Record(Finding("unchecked-math", a.ix, {n}))
                              ELSE violation
              /\ Replayed(a, out)

-----------------------------------------------------------------------------
(* Crucible's loop.                                                        *)

Init ==
    /\ harness \in Harnesses
    /\ enforced \in [harness.ixs -> SUBSET UNION {Checkable(x) : x \in harness.ixs}]
    /\ \A x \in harness.ixs : enforced[x] \subseteq Checkable(x)
    /\ ledger = Snapshot
    /\ baseline = Snapshot
    /\ phase = "ready"
    /\ todo = {}
    /\ violation = NoViolation
    /\ reached = {}
    /\ executed = {}

\* One fixture action: it sends an instruction of its own, and records it as
\* reached when the harness is written that way; then the body runs.
FuzzAction == \E x \in harness.ixs : \E out \in CanonicalSends(x) :
    /\ phase = "ready"
    /\ ledger' = out.ledger
    /\ baseline' = out.ledger
    /\ Execute(x, out)
    /\ phase' = "body"
    /\ todo' = Attempts
    /\ IF ActionsRecord THEN RecordIxReached(x, out) ELSE UNCHANGED reached
    /\ UNCHANGED <<violation, params>>

\* has_violation() breaks the iteration.
EndBody ==
    /\ phase = "body" /\ todo = {}
    /\ phase' = IF violation = NoViolation THEN "ready" ELSE "over"
    /\ UNCHANGED <<ledger, todo, violation, reached,
                   baseline, executed, params>>

\* The accounts and the first violation belong to the iteration, the
\* reachability ledger to the process.
NewIteration ==
    /\ phase \in {"ready", "over"}
    /\ phase' = "ready"
    /\ ledger' = Snapshot
    /\ baseline' = Snapshot
    /\ violation' = NoViolation
    /\ UNCHANGED <<todo, reached, executed, params>>

Body ==
    \/ SignerSkip \/ OwnerSkip \/ DiscriminatorSkip \/ PdaForge
    \/ AccountSwap \/ BumpSeed
    \/ CuDos \/ ReallocRace \/ CpiReentrancy
    \/ PreconditionSkip \/ UncheckedMath
    \/ EndBody

Next == Body \/ FuzzAction \/ NewIteration

Spec == Init /\ [][Next]_vars

-----------------------------------------------------------------------------
(* Properties.                                                             *)

SwapSets == UNION {h.sets : h \in Harnesses}

Findings == [kind : CheckKinds \cup {"account-swap-config"},
             ix : Ixs \cup {s.ix : s \in SwapSets}, slots : SUBSET Nat]

SwapKeys ==
    (UNION {UNION {Instr[x].swapAlternates[i] : i \in DOMAIN Instr[x].swapAlternates} :
            x \in Ixs})
    \cup (UNION {{p[2] : p \in s.swaps} : s \in SwapSets})

\* The keys a harness author names, and those the detectors make up.
FixtureKeys == {FeePayer} \cup SwapKeys \cup (UNION {CanonicalKeys(x) : x \in Ixs})
TemporaryKeys == {FakeKey} \cup (UNION {{AltPda[x][i] : i \in Slots(x)} : x \in Ixs})

\* What the proofs take of a fixture: its types, that no account of it sits at
\* a temporary key, that what it declares of an account is what the program
\* stores there, that an alternate belongs to another context, and that no
\* invariant reads the fee payer, a wallet without data.
WellFormedFixture ==
    /\ Snapshot \in Ledgers
    /\ FakeKey \in Keys /\ Stranger \in Owners /\ WrongDiscriminators \subseteq Discs
    /\ \A s \in SwapSets : s.swaps \subseteq Nat \X Keys
    /\ NoViolation \notin Findings
    /\ TemporaryKeys \cap FixtureKeys = {}
    /\ \A x \in Ixs : \A i \in Slots(x) : AltPda[x][i] # FakeKey
    /\ \A k \in TemporaryKeys \cap Keys : Snapshot[k] = Missing
    /\ \A k \in FixtureKeys : Present(Snapshot, k) => Snapshot[k].ctx = Genuine[k].ctx
    /\ \A x \in Ixs : \A i \in DOMAIN Instr[x].swapAlternates \cap Slots(x) :
          \A k \in Instr[x].swapAlternates[i] :
             k # KeyAt(x, i) => Genuine[k].ctx # Genuine[KeyAt(x, i)].ctx
    /\ \A s \in SwapSets : s.ix \in Ixs => \A p \in s.swaps :
          p[1] \in Slots(s.ix) /\ p[2] # KeyAt(s.ix, p[1]) =>
             Genuine[p[2]].ctx # Genuine[KeyAt(s.ix, p[1])].ctx
    /\ \A x \in Ixs : \A n \in DOMAIN Instr[x].invariants :
          \A i \in Instr[x].invariants[n].accounts \cap Slots(x) : KeyAt(x, i) # FeePayer

\* Every variable keeps its type; the accounts a body works on are the
\* context's, and the attempts are ones a check() iterates over.
TypeOK ==
    /\ ledger \in Ledgers /\ baseline \in Ledgers
    /\ phase \in {"ready", "body", "over"}
    /\ todo \subseteq Attempts
    /\ violation \in Findings \cup {NoViolation}
    /\ reached \subseteq Ixs /\ executed \subseteq Ixs
    /\ harness \in Harnesses
    /\ enforced \in [harness.ixs -> SUBSET Check]

\* Finding v is of a bound that did not hold, or could not be read, in the
\* accounts `found'.
BlamesAnother(found, v) ==
    /\ v.kind = "unchecked-math"
    /\ \E n \in v.slots :
          LET inv == Instr[v.ix].invariants[n]
              metas == Instr[v.ix].accounts IN
          /\ inv.kind = "Bounded"
          /\ Readable(found, metas, inv) => Image(found, metas, inv) \notin inv.holds

\* A detector accuses a program only of a check the program really lacks, in
\* the instruction and at one of the slots the finding names: whatever was
\* saved, forged, swapped or left behind by the attempts before it.  The one
\* exception is a bound that an action broke before the body began, or on an
\* account that did not exist then: it is blamed on whatever instruction that
\* declares it is replayed next.
NoFalseAccusation ==
    violation # NoViolation /\ violation.kind \in CheckKinds =>
        \/ \E i \in violation.slots :
              [kind |-> violation.kind, slot |-> i] \notin enforced[violation.ix]
        \/ BlamesAnother(baseline, violation)

RestoresAll == ~\E n \in DOMAIN chain : chain[n] = "bump-seed-canonicalization"

\* Every account that existed when the body began is as it was then, between
\* any two attempts and after the last: no detector changes what the detectors
\* and actions after it start from, whatever was accepted and reported.  Only
\* bump-seed-canonicalization, which restores nothing, may, and then not before
\* something is reported.  The fee payer, which pays for every send, is not
\* restored.
BodyRestores ==
    violation = NoViolation \/ RestoresAll =>
        \A k \in Keys \ {FeePayer} :
            Present(baseline, k) => ledger[k] = baseline[k]

\* The reachability ledger names only instructions that were carried out.
ReachedWereExecuted == reached \subseteq executed

=============================================================================
