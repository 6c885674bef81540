---------------------------- MODULE EscrowHarness ----------------------------
(***************************************************************************)
(* The two harnesses of examples/escrow-demo, each on its program:         *)
(* fuzz/escrow, whose tests must find the planted bugs, and                *)
(* fuzz/escrow_clean, whose one scoring test must be silent until a mutant *)
(* is put in.  An iteration sends actions; after each the test's body runs *)
(* its detectors in their order, and the first violation ends the          *)
(* iteration.  The bodies are computed, not chosen: the programs, the      *)
(* declarations and the detectors are all given.                           *)
(***************************************************************************)
EXTENDS IdlSpecs, Mutants, SequencesExt

CONSTANTS
    InitialBalance, UnlockDelay,
    Sample,            \* per instruction, the argument of its data_sample
    Inputs,            \* per action, the arguments it is tried with
    MaxAmount,         \* per program, the bound declared on vault.amount
    CuBudget,          \* the cu_budget of unsafe_compute_dos
    CleanSource,       \* what the operators find in the source of escrow_clean
    Tests,             \* the tests, by name: sequences of detectors
    TestsOf,           \* per program, the names of its tests
    Idls,              \* per program, the IDLs it may be built with
    NoViolation,
    MaxActions, MaxIterations

\* The detectors of the harnesses, by id.
Critical == {"signer-skip", "owner-skip", "discriminator-skip", "pda-forge", "account-swap"}
Faking == {"owner-skip", "discriminator-skip", "pda-forge"}
Detector == Critical \cup {"unchecked-math", "cu-dos", "cpi-reentrancy", "realloc-race",
                          "precondition-skip", "bump-seed-canonicalization"}

\* What a harness sends is made of numbers and people.
ASSUME HarnessAssumption ==
    /\ {InitialBalance, UnlockDelay} \subseteq Nat
    /\ \A p \in Programs : \A t \in TestsOf[p] : Tests[t] \in Seq(Detector)
    /\ NoViolation \notin (Detector \cup {"timelock"}) \X Handlers["escrow"]
    /\ Sample["initialize"] \in People \X Nat
    /\ {Sample["deposit"], Sample["withdraw"], Sample["setup"]} \subseteq Nat
    /\ Inputs["slots"] \subseteq Nat
    /\ \A ix \in DOMAIN Inputs["escrow_clean"] : Inputs["escrow_clean"][ix] \subseteq Nat

\* fuzz/escrow_clean sends 50,000 and 1,000 lamports, the second less than keeps
\* a wallet alive; its bound on vault.amount is all a wallet starts with; and
\* its scoring test tries the guards.
ASSUME ScoringAssumption ==
    /\ Sample["deposit"] > 0 /\ Sample["withdraw"] \in 1..(Rent[0] - 1)
    /\ InitialBalance > 0 /\ MaxAmount["escrow_clean"] \in Nat
    /\ InitialBalance <= MaxAmount["escrow_clean"]
    /\ \E n \in DOMAIN Tests["scoring"] : Tests["scoring"][n] = "precondition-skip"

\* setup() unwraps what it sends: a wallet pays for a vault and lives on.
ASSUME SetupAssumption == InitialBalance >= Rent[VaultSize] + Rent[0]

\* A check of escrow_clean is that of the handler it stands in, or of the one
\* handler that takes the Context it stands in.
IsDeclaration(i) == CleanSource[i].kind \in {"fn", "struct"}
StandsIn(j, ix) ==
    LET takes == {h \in DOMAIN CleanSource : /\ CleanSource[h].kind = "fn"
                                            /\ CleanSource[h].context = CleanSource[j].name}
    IN  \/ CleanSource[j].kind = "fn" /\ CleanSource[j].name = ix
        \/ /\ CleanSource[j].kind = "struct"
           /\ takes # {} /\ \A h \in takes : CleanSource[h].name = ix

ASSUME SourceAssumption ==
    /\ DOMAIN CleanSource \subseteq Nat
    /\ \A i \in DOMAIN CleanSource : ~IsDeclaration(i) =>
          \E j \in 1..(i - 1) : /\ IsDeclaration(j) /\ StandsIn(j, CleanSource[i].name[2])
                               /\ \A k \in (j + 1)..(i - 1) : ~IsDeclaration(k)

VARIABLES
    prog, mutant, test,
    idl,          \* the IDL the feature `idl_specs' reads
    setup,        \* the accounts setup() left
    inferred,     \* the specs made from them with that feature, and cached
    l, slot,      \* the TestContext
    pc,           \* "act", "check", or "over": the iteration is broken off
    acted, iters,
    withdrawn,    \* successful_withdraw_slots
    violation,    \* the first violation of the iteration
    reached,      \* the reachability ledger of the process
    reports,      \* the violations of the process
    differed      \* history: something landed that the original would not do

fixed == <<prog, mutant, test, idl, setup, inferred>>
vars == <<fixed, l, slot, pc, acted, iters, withdrawn, violation, reached, reports, differed>>

UnlockSlot == UnlockDelay

-----------------------------------------------------------------------------
(* InstructionSpec, written by hand.                                       *)

\* What most specs do not declare.
Nothing == [ix |-> "", keys |-> <<>>, flagged |-> {}, signerIndices |-> {}, owners |-> {},
            discs |-> {}, pda |-> <<>>, arg |-> 0, creates |-> {}, alternates |-> <<>>,
            capped |-> FALSE, budget |-> <<>>, reenters |-> FALSE, grows |-> FALSE,
            bump |-> FALSE, guards |-> {}]

\* The vault at slot 1, derived from the depositor at slot 2; slot `s' signs.
VaultSpec(ix, keys, s) ==
    [Nothing EXCEPT !.ix = ix, !.keys = keys, !.flagged = s, !.signerIndices = s,
                    !.owners = {1}, !.discs = {1}, !.pda = <<<<"vault", keys[2]>>>>,
                    !.arg = Sample[ix]]

InitializeSpec ==
    [VaultSpec("initialize", <<"vault_init", "initializer", "system_program">>, {2}) EXCEPT
        !.owners = {}, !.discs = {}, !.creates = {1}]

DepositSpec ==
    [VaultSpec("deposit", <<"vault", "depositor", "system_program">>, {2}) EXCEPT
        !.alternates = <<"vault_b">>, !.capped = TRUE, !.guards = {"amount > 0"}]

WithdrawSpec ==
    [VaultSpec("withdraw", <<"vault", "depositor">>, {2}) EXCEPT
        !.alternates = <<"vault_b">>, !.capped = TRUE,
        !.guards = {"slot < unlock_slot", "amount > 0", "amount <= vault.amount"}]

\* The beneficiary signs, the depositor is a bare seed.
ClaimSpec ==
    [VaultSpec("claim", <<"vault", "depositor", "beneficiary">>, {3}) EXCEPT
        !.alternates = <<"vault_b">>, !.guards = {"slot >= unlock_slot", "vault.amount > 0"}]

UnsafeWithdrawSpec ==
    [VaultSpec("unsafe_withdraw", <<"vault", "depositor">>, {2}) EXCEPT
        !.alternates = <<"vault_b">>]

SetAmountSpec ==
    [Nothing EXCEPT !.ix = "unsafe_set_amount_from_source", !.keys = <<"vault_b", "vault">>,
                    !.owners = {1, 2}, !.discs = {1, 2}]

AccumulateYieldSpec ==
    [VaultSpec("unsafe_accumulate_yield", <<"vault", "depositor">>, {2}) EXCEPT !.capped = TRUE]

ComputeDosSpec ==
    [Nothing EXCEPT !.ix = "unsafe_compute_dos", !.keys = <<"depositor">>, !.flagged = {1},
                    !.signerIndices = {1}, !.arg = Sample["unsafe_compute_dos"],
                    !.budget = <<CuBudget>>]

SelfReentrySpec ==
    [VaultSpec("unsafe_self_reentry", <<"vault", "depositor", "escrow_program">>, {2}) EXCEPT
        !.reenters = TRUE]

ReallocGrowSpec ==
    [VaultSpec("unsafe_realloc_grow", <<"vault", "depositor">>, {2}) EXCEPT !.grows = TRUE]

WithdrawWithBumpSpec ==
    [VaultSpec("unsafe_withdraw_with_bump", <<"vault", "depositor">>, {}) EXCEPT !.bump = TRUE]

HandSpecs(p) ==
    IF p = "escrow_clean" THEN <<InitializeSpec, DepositSpec, WithdrawSpec, ClaimSpec>>
    ELSE <<UnsafeWithdrawSpec, SetAmountSpec, AccumulateYieldSpec, ComputeDosSpec,
           SelfReentrySpec, ReallocGrowSpec, WithdrawWithBumpSpec>>

\* What fuzz/escrow binds for the two specs it takes from the IDL, and what
\* fuzz/escrow_clean binds for its four.
Binding(s) ==
    LET to(names, signer) == [accounts |-> [n \in DOMAIN names |-> names[n]],
                              keypairs |-> signer, seedArgs |-> <<>>, args |-> s.arg]
    IN  CASE s.ix = "unsafe_set_amount_from_source" ->
                to([source |-> s.keys[1], target |-> s.keys[2]], {})
          [] s.ix = "claim" ->
                to([vault |-> s.keys[1], depositor |-> s.keys[2], beneficiary |-> s.keys[3]],
                   {"beneficiary"})
          [] OTHER -> to([vault |-> s.keys[1], depositor |-> s.keys[2]], {"depositor"})

FromIdl == {"unsafe_withdraw", "unsafe_set_amount_from_source",
            "initialize", "deposit", "withdraw", "claim"}

\* The slots of these in idl/escrow.json and idl/escrow_clean.json: a name, "w"
\* for a slot that is written, "s" for one that signs.
IdlSlots ==
    LET vault == <<"vault", {"w"}>>
        owner == <<"depositor", {"w", "s"}>>
        bare(name) == <<name, {}>>
    IN  [initialize |-> <<vault, owner, bare("system_program")>>,
         deposit    |-> <<vault, owner, bare("system_program")>>,
         withdraw   |-> <<vault, owner>>,
         claim      |-> <<vault, bare("depositor"), <<"beneficiary", {"w", "s"}>>>>,
         unsafe_withdraw |-> <<vault, <<"depositor", {"w"}>>>>,
         unsafe_set_amount_from_source |-> <<bare("source"), <<"target", {"w"}>>>>]

VaultPattern ==
    <<[kind |-> "const", value |-> "vault"], [kind |-> "account", value |-> "depositor"]>>

\* The IDL of these programs by any Anchor: one may leave out the address of the
\* system program, another the seeds of a vault, but no IDL lacks all seeds.
IsIdlSlot(a, name, flags) ==
    /\ a.name = name /\ ~a.optional
    /\ a.signer <=> "s" \in flags
    /\ a.writable <=> "w" \in flags
    /\ a.address \in {"", name} /\ (a.address # "" => name = "system_program")
    /\ a.pda \subseteq {VaultPattern} /\ (a.pda # {} => name = "vault")

ASSUME IdlAssumption ==
    \A p \in Programs : \A of \in Idls[p] :
        /\ \A x \in FromIdl \cap Handlers[p] :
              /\ x \in DOMAIN of /\ DOMAIN of[x] = DOMAIN IdlSlots[x]
              /\ \A i \in DOMAIN IdlSlots[x] :
                    IsIdlSlot(of[x][i], IdlSlots[x][i][1], IdlSlots[x][i][2])
        /\ UNION {UNION {of[x][i].pda : i \in DOMAIN of[x]} : x \in DOMAIN of} = {VaultPattern}

\* The account checks come from the IDL and the accounts `seen', the rest
\* stays what was written by hand.
WithChecksOf(s, i) ==
    [s EXCEPT !.keys = i.keys, !.flagged = i.flagged, !.signerIndices = i.signerIndices,
              !.owners = i.owners, !.discs = i.discs, !.pda = i.pda, !.creates = i.creates]

IdlSpecsOf(seen) ==
    [n \in DOMAIN HandSpecs(prog) |->
        LET s == HandSpecs(prog)[n] IN
        IF s.ix \in FromIdl THEN WithChecksOf(s, IdlSpec(idl, seen, s.ix, Binding(s))) ELSE s]

-----------------------------------------------------------------------------
(* The detectors, one attempt at a time.                                   *)

\* What a detector may try: on the slots of the specs, in the order of its
\* loops.  Owner-skip tries a slot with two owners.
Attempts(chain, specs) ==
    LET of(d, n) == FlattenSeq([i \in DOMAIN specs[n].keys |->
                        IF d = "owner-skip"
                        THEN <<[by |-> d, n |-> n, at |-> i, with |-> "system"],
                               [by |-> d, n |-> n, at |-> i, with |-> "stranger"]>>
                        ELSE <<[by |-> d, n |-> n, at |-> i, with |-> "wrong"]>>])
    IN  FlattenSeq([d \in DOMAIN chain |->
            FlattenSeq([n \in DOMAIN specs |-> of(chain[d], n)])])

\* What the spec declares for it.
Declares(s, a) ==
    CASE a.by = "signer-skip"        -> a.at \in s.signerIndices
      [] a.by = "owner-skip"         -> a.at \in s.owners
      [] a.by = "discriminator-skip" -> a.at \in s.discs
      [] a.by = "pda-forge"          -> a.at \in DOMAIN s.pda \ s.creates
      [] a.by = "account-swap"       -> a.at \in DOMAIN s.alternates
      [] a.by = "unchecked-math"     -> a.at = 1 /\ s.capped
      [] a.by = "cu-dos"             -> a.at = 1 /\ s.budget # <<>>
      [] a.by = "cpi-reentrancy"     -> a.at = 1 /\ s.reenters
      [] a.by = "realloc-race"       -> a.at = 1 /\ s.grows
      [] a.by = "precondition-skip"  -> a.at = 1 /\ s.guards # {}
      [] a.by = "bump-seed-canonicalization" -> s.bump /\ a.at \in DOMAIN s.pda \ s.creates

HandAttempts == [p \in Programs |-> [t \in TestsOf[p] |-> Attempts(Tests[t], HandSpecs(p))]]

\* The instruction of a spec, sent with other keys and flags.
Sent(m, now, s, keys, flagged, arg) ==
    Send(Call(prog, m, now, slot, s.ix, keys, {keys[i] : i \in flagged}, arg))

Canonical(m, now, s) == Sent(m, now, s, s.keys, s.flagged, s.arg)

\* restore_accounts and cleanup_temp_account: accounts that were there come
\* back, the temporary one is blanked.
Restored(before, after, keys) ==
    [k \in DOMAIN after |->
        CASE k = "fake" -> Blank
          [] k # "fake" /\ k \in Range(keys) /\ before[k] # Blank -> before[k]
          [] OTHER -> after[k]]

Judged(now, watched, out) ==
    [ok |-> out.ok, l |-> Restored(now, out.l, watched),
     guilty |-> out.ok /\ \E k \in Range(watched) : out.l[k] # now[k]]

\* The five that tamper: the copy at the fake key, or the other account, is
\* passed in the slot, or the flag of the slot is cleared.
Tamper(m, now, s, a) ==
    LET real == now[s.keys[a.at]]
        copy == CASE a.by = "owner-skip"         -> [real EXCEPT !.owner = a.with]
                  [] a.by = "discriminator-skip" -> [real EXCEPT !.disc = a.with]
                  [] OTHER                       -> real
        armed == IF a.by \in Faking THEN [now EXCEPT !["fake"] = copy] ELSE now
        keys == CASE a.by \in Faking          -> [s.keys EXCEPT ![a.at] = "fake"]
                  [] a.by = "account-swap"    -> [s.keys EXCEPT ![a.at] = s.alternates[a.at]]
                  [] OTHER                    -> s.keys
        flags == IF a.by = "signer-skip" THEN s.flagged \ {a.at} ELSE s.flagged
        watched == IF a.by = "account-swap" THEN keys ELSE s.keys
        skipped == \/ a.by \in Faking /\ real = Blank
                   \/ a.by = "discriminator-skip" /\ real.disc = ""
    IN  IF skipped THEN [ok |-> FALSE, l |-> now, guilty |-> FALSE]
        ELSE Judged(now, watched, Sent(m, armed, s, keys, flags, s.arg))

\* The account at the address of the lower bump, and the bump in the data.
\* Nothing is restored but the copy.
Blanked(alt, out) == [ok |-> out.ok, guilty |-> out.ok, l |-> [out.l EXCEPT ![alt] = Blank]]

TamperBump(m, now, s, a) ==
    LET alt == AltPda[s.pda[a.at][2]] IN
    Blanked(alt, Sent(m, [now EXCEPT ![alt] = now[s.keys[a.at]]], s,
                      [s.keys EXCEPT ![a.at] = alt], s.flagged, [s.arg EXCEPT !.bump = "lower"]))

InBounds(now, s) == now[s.keys[1]].amount <= MaxAmount[prog]

\* Mutant: a guard is looked up as the other program has it.
GuardHoldsLate(now, s, g) ==
    LET v == now[s.keys[1]] IN
    IF g = "slot < unlock_slot" THEN slot <= v.unlock_slot
    ELSE (g \in {"amount > 0", "amount <= vault.amount"} => s.arg \in 1..v.amount)

\* Mutant: the window opens a slot later than in the program.
GuardHoldsShort(now, s, g) == g = "slot >= unlock_slot" => slot > now[s.keys[1]].unlock_slot

GuardHolds(now, s, g) ==
    LET v == now[s.keys[1]] IN
    CASE g = "slot < unlock_slot"     -> slot < v.unlock_slot
      [] g = "slot >= unlock_slot"    -> slot >= v.unlock_slot
      [] g = "amount > 0"             -> s.arg > 0
      [] g = "amount <= vault.amount" -> s.arg <= v.amount
      [] g = "vault.amount > 0"       -> v.amount > 0

\* The five that send the instruction as it is, and what each takes for a bug.
\* The bound is asked of what the send left, whatever was there before it.
BoundBroken(s, out) == out.ok /\ ~InBounds(out.l, s)

OverBudget(s, out) == out.ok /\ Units([ix |-> s.ix, arg |-> s.arg]) > s.budget[1]

ReentersIn(m, now, s) ==
    Reenters(Call(prog, m, now, slot, s.ix, s.keys, {s.keys[i] : i \in s.flagged}, s.arg))

GrownUnpaid(now, s, out) ==
    \/ out.why = "InsufficientFundsForRent"
    \/ \E k \in Range(s.keys) : /\ now[k] # Blank /\ out.l[k].size > now[k].size
                                /\ out.l[k].lamports < Rent[out.l[k].size]

Unguarded(now, s, out) == out.ok /\ \E g \in s.guards : ~GuardHolds(now, s, g)

Guilty(m, now, s, by, out) ==
    \/ by = "unchecked-math"    /\ BoundBroken(s, out)
    \/ by = "cu-dos"            /\ OverBudget(s, out)
    \/ by = "cpi-reentrancy"    /\ ReentersIn(m, now, s)
    \/ by = "realloc-race"      /\ GrownUnpaid(now, s, out)
    \/ by = "precondition-skip" /\ Unguarded(now, s, out)

Heard(m, now, s, by, out) ==
    [ok |-> out.ok, l |-> Restored(now, out.l, s.keys), guilty |-> Guilty(m, now, s, by, out)]

Replay(m, now, s, a) == Heard(m, now, s, a.by, Canonical(m, now, s))

Try(m, now, s, a) ==
    CASE a.by \in Critical                    -> Tamper(m, now, s, a)
      [] a.by = "bump-seed-canonicalization"  -> TamperBump(m, now, s, a)
      [] OTHER                                -> Replay(m, now, s, a)

\* fuzz_assert! keeps the first violation; the detectors that replay record
\* what landed.
Noted(run, s, a, out) ==
    [violation |-> IF run.violation # NoViolation THEN run.violation
                   ELSE IF out.guilty THEN <<a.by, s.ix>> ELSE NoViolation,
     l |-> out.l,
     reached |-> IF out.ok /\ a.by \notin Critical \cup {"bump-seed-canonicalization"}
                 THEN run.reached \cup {s.ix} ELSE run.reached]

Step(m, run, s, a) == Noted(run, s, a, Try(m, run.l, s, a))

\* The attempts these specs declare, in the order of the loops.
Todo(specs) ==
    LET all == HandAttempts[prog][test]
        kept[i \in 0..Len(all)] ==
            IF i = 0 THEN <<>>
            ELSE IF Declares(specs[all[i].n], all[i]) THEN Append(kept[i - 1], all[i])
            ELSE kept[i - 1]
    IN  kept[Len(all)]

\* The body of the test: one attempt after another, on the accounts of this
\* moment.
Body(m, specs) ==
    LET todo == Todo(specs)
        run[n \in 0..Len(todo)] ==
            IF n = 0 THEN [l |-> l, violation |-> NoViolation, reached |-> reached]
            ELSE Step(m, run[n - 1], specs[todo[n].n], todo[n])
    IN  run[Len(todo)]

\* Some attempt of this moment lands, and does what it would not do to the
\* original program.
BodyDiffers ==
    \E a \in Range(HandAttempts[prog][test]) :
        LET s == HandSpecs(prog)[a.n]
            did(m) == [Try(m, l, s, a) EXCEPT !.guilty = FALSE]
        IN  Declares(s, a) /\ \E done \in {did(mutant.what)} : done.ok /\ done # did(<<>>)

\* invariant_escrow: no withdraw at or after the unlock slot.
TimelockViolated == test = "invariant_escrow" /\ \E s \in withdrawn : s >= UnlockSlot

-----------------------------------------------------------------------------
(* The process.                                                            *)

\* setup(): the wallets, the depositor's vault, and the other depositor's,
\* funded.
SetupOf(p, m) ==
    LET wallets == [k \in Keys |-> IF k \in People THEN Wallet(InitialBalance) ELSE Blank]
        call(now, ix, who, arg) ==
            Send(Call(p, m, now, 0, ix, <<Pda[who], who, "system_program">>, {who}, arg)).l
        one == call(wallets, "initialize", "depositor", <<"beneficiary", UnlockSlot>>)
        two == call(one, "initialize", "depositor_b", <<"beneficiary", UnlockSlot>>)
    IN  call(two, "deposit", "depositor_b", Sample["setup"])

Init ==
    /\ prog \in Programs
    /\ mutant \in {NoMutant} \cup IF prog = "escrow_clean" THEN Generate(CleanSource) ELSE {}
    /\ test \in TestsOf[prog]
    /\ idl \in Idls[prog]
    \* build().unwrap()
    /\ \A s \in Range(HandSpecs(prog)) : s.ix \in FromIdl => Buildable(idl[s.ix], Binding(s))
    /\ setup = SetupOf(prog, mutant.what) /\ l = setup /\ inferred = IdlSpecsOf(setup)
    /\ slot = 0 /\ pc = "act" /\ acted = 0 /\ iters = 1
    /\ withdrawn = {} /\ violation = NoViolation /\ reached = {} /\ reports = {}
    /\ differed = FALSE

\* An action sends its instruction the way a caller would, on the depositor's
\* own vault.
ActionKeys(ix) ==
    CASE ix = "initialize" -> <<"vault_init", "initializer", "system_program">>
      [] ix = "deposit"    -> <<"vault", "depositor", "system_program">>
      [] ix = "claim"      -> <<"vault", "depositor", "beneficiary">>
      [] ix = "unsafe_compute_dos"  -> <<"depositor">>
      [] ix = "unsafe_self_reentry" -> <<"vault", "depositor", "escrow_program">>
      [] OTHER             -> <<"vault", "depositor">>

ActionSigner(ix) == CASE ix = "initialize" -> {"initializer"} [] ix = "claim" -> {"beneficiary"}
                      [] ix = "unsafe_withdraw_with_bump" -> {} [] OTHER -> {"depositor"}

Acting == pc = "act" /\ acted < MaxActions /\ acted' = acted + 1 /\ pc' = "check"

\* note_reached: an action that landed reached its instruction.
ActionSend == Acting /\ \E ix \in DOMAIN Inputs[prog] : \E x \in Inputs[prog][ix] :
    LET arg == IF ix = "initialize" THEN <<"beneficiary", slot + x>> ELSE x
        run(m) == Send(Call(prog, m, l, slot, ix, ActionKeys(ix), ActionSigner(ix), arg))
        out == run(mutant.what)
    IN  /\ l' = out.l
        /\ differed' = (differed \/ (out.ok /\ out # run(<<>>)))
        /\ reached' = IF out.ok THEN reached \cup {ix} ELSE reached
        /\ withdrawn' = IF out.ok /\ ix = "withdraw" /\ prog = "escrow"
                        THEN withdrawn \cup {slot} ELSE withdrawn
        /\ UNCHANGED <<fixed, slot, iters, violation, reports>>

ActionAdvanceSlots == Acting /\ \E n \in Inputs["slots"] :
    /\ slot' = slot + n
    /\ UNCHANGED <<fixed, l, iters, withdrawn, violation, reached, reports, differed>>

\* The body of the test, with the specs the harness was built with.
Ended(body) ==
    LET v == IF TimelockViolated THEN <<"timelock", "withdraw">> ELSE body.violation
    IN  /\ l' = body.l
        /\ reached' = body.reached
        /\ violation' = v
        /\ reports' = IF v = NoViolation THEN reports ELSE reports \cup {v}
        /\ pc' = IF v = NoViolation THEN "act" ELSE "over"
        /\ differed' = (differed \/ BodyDiffers)
        /\ UNCHANGED <<fixed, slot, acted, iters, withdrawn>>

RunBody == pc = "check" /\ Ended(Body(mutant.what, HandSpecs(prog)))

\* The fixture is set up anew; what the process learned stays.
NewIteration ==
    /\ pc \in {"act", "over"} /\ acted > 0 /\ iters < MaxIterations
    /\ iters' = iters + 1
    /\ l' = setup /\ slot' = 0 /\ pc' = "act" /\ acted' = 0
    /\ withdrawn' = {} /\ violation' = NoViolation
    /\ UNCHANGED <<fixed, reached, reports, differed>>

Next == ActionSend \/ ActionAdvanceSlots \/ RunBody \/ NewIteration

Spec == Init /\ [][Next]_vars

-----------------------------------------------------------------------------
(* Properties.                                                             *)

\* The committed results of the campaign on escrow_clean, by the check that is
\* gone, and the bugs planted in escrow, by who finds them.
Campaign ==
    {<<<<"signer-type-weaken", "withdraw">>, <<"signer-skip", "withdraw">>>>,
     <<<<"signer-type-weaken", "claim">>, <<"signer-skip", "claim">>>>,
     <<<<"guard-drop", "withdraw", "slot < unlock_slot">>, <<"precondition-skip", "withdraw">>>>,
     <<<<"guard-drop", "claim", "slot >= unlock_slot">>, <<"precondition-skip", "claim">>>>,
     <<<<"guard-drop", "claim", "amount > 0">>, <<"precondition-skip", "claim">>>>}
Planted ==
    ({"signer-skip", "discriminator-skip", "pda-forge", "account-swap"} \X {"unsafe_withdraw"})
    \cup ({"owner-skip", "discriminator-skip"} \X {"unsafe_set_amount_from_source"})
    \cup {<<"unchecked-math", "unsafe_accumulate_yield">>, <<"cu-dos", "unsafe_compute_dos">>,
          <<"cpi-reentrancy", "unsafe_self_reentry">>, <<"realloc-race", "unsafe_realloc_grow">>,
          <<"bump-seed-canonicalization", "unsafe_withdraw_with_bump">>, <<"timelock", "withdraw">>}

\* What a run reports is what is wrong with its program: in escrow a planted
\* bug, by the detector it was planted for; in escrow_clean nothing, and under
\* a mutant what campaigns/escrow-clean-results.json has for it.
ReportsWhatIsWrong ==
    IF prog = "escrow" THEN reports \subseteq Planted
    ELSE \A r \in reports : <<mutant.what, r>> \in Campaign

\* The body of escrow_clean's scoring test reports exactly when, on the
\* accounts of this moment, the mutant makes one of its sends do what the
\* original would not: no kill without a difference, no difference that
\* nobody reports.
KillsAreDifferences ==
    prog = "escrow_clean" /\ pc = "check" /\ test = "scoring" =>
        (Body(mutant.what, HandSpecs(prog)).violation # NoViolation <=> BodyDiffers)

\* "Detections must not change": with the specs that the IDL and the accounts
\* after setup() give, the body reports and records what it does with the
\* specs written by hand.
DetectionsUnchanged ==
    pc = "check" =>
        Body(mutant.what, inferred) = Body(mutant.what, HandSpecs(prog))

\* A vault of escrow_clean holds its rent and the amount it says, whatever was
\* sent and whichever mutant of the plan is in.
VaultBacked ==
    prog = "escrow_clean" =>
        \A v \in Vaults : l[v] # Blank => l[v].lamports = Rent[VaultSize] + l[v].amount

\* "The two windows must not overlap": unless a mutant dropped a time guard,
\* no action pays the depositor from the unlock slot on, nor the beneficiary
\* before it.
TimeGuards == {<<"guard-drop", "withdraw", "slot < unlock_slot">>,
               <<"guard-drop", "claim", "slot >= unlock_slot">>}
PaidInTurn ==
    [][prog = "escrow_clean" /\ mutant.what \notin TimeGuards /\ pc = "act" /\ iters' = iters =>
        /\ l'["depositor"].lamports > l["depositor"].lamports => slot < UnlockSlot
        /\ l'["beneficiary"].lamports > l["beneficiary"].lamports => slot >= UnlockSlot]_vars

\* A mutant the score would call not_reached, because the function the plan
\* found around it was not reached and nothing was reported, has made no
\* difference to anything that was sent.
NotReachedMadeNoDifference ==
    mutant # NoMutant /\ mutant.enclosing_fn \notin reached /\ reports = {} => ~differed

=============================================================================
