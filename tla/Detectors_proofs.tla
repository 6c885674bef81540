--------------------------- MODULE Detectors_proofs ---------------------------
(***************************************************************************)
(* Proofs about Detectors, for every fixture, program and harness: what a  *)
(* body leaves of the accounts it found; that a detector accuses a program *)
(* only of a check the program lacks; what the reachability ledger may     *)
(* name.                                                                   *)
(***************************************************************************)
EXTENDS Detectors, TLAPS

\* A rejected send changes no account but the fee payer's, and an accepted one
\* no account that is neither the fee payer's nor among its metas.
LEMMA SendsConfined ==
    ASSUME NEW l, NEW x, NEW metas, NEW keypairs,
           NEW out \in Sends(l, x, metas, keypairs),
           NEW k \in Keys \ {FeePayer},
           out.ok => \A i \in DOMAIN metas : metas[i].key # k
    PROVE  out.ledger[k] = l[k]
<1>1. CASE out \in {[ok |-> FALSE, ledger |-> l2] : l2 \in Rollbacks(l)}
  <2>1. PICK l2 \in Rollbacks(l) : out = [ok |-> FALSE, ledger |-> l2]
    BY <1>1
  <2>2. CASE l2 = l
    BY <2>1, <2>2
  <2>3. CASE \E v \in Vals : l2 = Apply(l, [j \in {FeePayer} |-> v])
    <3>1. PICK v \in Vals : l2 = Apply(l, [j \in {FeePayer} |-> v])
      BY <2>3
    <3>2. k \notin DOMAIN [j \in {FeePayer} |-> v]
      OBVIOUS
    <3>3. Apply(l, [j \in {FeePayer} |-> v])[k] = l[k]
      BY <3>2 DEF Apply
    <3> QED BY <2>1, <3>1, <3>3
  <2> QED BY <2>1, <2>2, <2>3 DEF Rollbacks
<1>2. CASE out \in {[ok |-> TRUE, ledger |-> l2] : l2 \in Effects(l, x, metas)}
  <2>1. PICK l2 \in Effects(l, x, metas) : out = [ok |-> TRUE, ledger |-> l2]
    BY <1>2
  <2>2. PICK u \in [Mutable(l, x, metas) -> Vals \cup {Missing}] : l2 = Apply(l, u)
    BY <2>1 DEF Effects
  <2>3. k \notin Mutable(l, x, metas)
    BY <2>1 DEF Mutable
  <2>4. Apply(l, u)[k] = l[k]
    BY <2>2, <2>3 DEF Apply
  <2> QED BY <2>1, <2>2, <2>4
<1> QED BY <1>1, <1>2 DEF Sends

-----------------------------------------------------------------------------
(* What the attempts of a body are.                                        *)

\* A swap is of one slot to one of its alternates, or of a declared set.
LEMMA SwapShape ==
    ASSUME harness \in Harnesses, NEW a \in AccountSwapAttempts
    PROVE  /\ a.kind = "account-swap"
           /\ \/ /\ a.declared = FALSE
                 /\ a.ix \in Ixs
                 /\ \E i \in DOMAIN Instr[a.ix].swapAlternates :
                    \E k \in Instr[a.ix].swapAlternates[i] :
                       a.slots = {i} /\ a.what = {<<i, k>>}
              \/ \E s \in SwapSets :
                    /\ a.ix = s.ix /\ a.what = s.swaps
                    /\ a.slots = {p[1] : p \in s.swaps}
<1>1. CASE a \in DeclaredSwaps
  BY <1>1 DEF DeclaredSwaps, SwapSets, Attempt
<1>2. ASSUME NEW x \in Ixs, a \in LoneSwaps(x)
      PROVE  /\ a.kind = "account-swap" /\ a.declared = FALSE /\ a.ix \in Ixs
             /\ \E i \in DOMAIN Instr[a.ix].swapAlternates :
                \E k \in Instr[a.ix].swapAlternates[i] :
                   a.slots = {i} /\ a.what = {<<i, k>>}
  <2>1. PICK i \in DOMAIN Instr[x].swapAlternates :
          a \in {Attempt("account-swap", x, {i}, {<<i, k>>}, FALSE) :
                   k \in Instr[x].swapAlternates[i]}
    BY <1>2 DEF LoneSwaps
  <2>2. PICK k \in Instr[x].swapAlternates[i] :
          a = Attempt("account-swap", x, {i}, {<<i, k>>}, FALSE)
    BY <2>1
  <2>3. /\ a.kind = "account-swap" /\ a.ix = x /\ a.declared = FALSE
        /\ a.slots = {i} /\ a.what = {<<i, k>>}
    BY <2>2 DEF Attempt
  <2>4. /\ i \in DOMAIN Instr[a.ix].swapAlternates
        /\ k \in Instr[a.ix].swapAlternates[i]
    BY <2>3
  <2> QED BY <2>3, <2>4
<1>3. a \in DeclaredSwaps \/ \E x \in Ixs : a \in LoneSwaps(x)
  BY HarnessAssumption DEF AccountSwapAttempts
<1> QED BY <1>1, <1>2, <1>3

\* Every attempt but a swap is on a declared instruction; those that tamper
\* with a slot name one of its slots.
LEMMA AttemptShape ==
    ASSUME harness \in Harnesses, NEW a \in Attempts, a.kind # "account-swap"
    PROVE  /\ a.ix \in Ixs
           /\ a.kind # "unchecked-math" => a.slots \subseteq Slots(a.ix)
           /\ a.kind = "bump-seed-canonicalization" =>
                 \A i \in a.slots : AltPda[a.ix][i] # Missing
<1>1. a \notin AccountSwapAttempts
  BY SwapShape
<1>2. PICK x \in Ixs :
        a \in SignerSkipAttempts(x) \cup OwnerSkipAttempts(x) \cup
             DiscriminatorSkipAttempts(x) \cup PdaForgeAttempts(x) \cup
             BumpSeedAttempts(x) \cup UncheckedMathAttempts(x) \cup
             ReplayAttempts(x)
  BY <1>1, HarnessAssumption DEF Attempts
<1>3. CASE a \in SignerSkipAttempts(x)
  BY <1>3 DEF SignerSkipAttempts, Attempt
<1>4. CASE a \in OwnerSkipAttempts(x)
  BY <1>4 DEF OwnerSkipAttempts, Attempt
<1>5. CASE a \in DiscriminatorSkipAttempts(x)
  BY <1>5 DEF DiscriminatorSkipAttempts, Attempt
<1>6. CASE a \in PdaForgeAttempts(x)
  BY <1>6 DEF PdaForgeAttempts, Attempt
<1>7. CASE a \in BumpSeedAttempts(x)
  BY <1>7 DEF BumpSeedAttempts, Attempt
<1>8. CASE a \in UncheckedMathAttempts(x)
  BY <1>8 DEF UncheckedMathAttempts, Attempt
<1>9. CASE a \in ReplayAttempts(x)
  BY <1>9 DEF ReplayAttempts, Attempt
<1> QED BY <1>2, <1>3, <1>4, <1>5, <1>6, <1>7, <1>8, <1>9

\* Only the swaps bear the name.
LEMMA NotASwap ==
    ASSUME harness \in Harnesses, NEW a \in Attempts, a.kind = "account-swap"
    PROVE  a \in AccountSwapAttempts
<1>1. SUFFICES ASSUME a \notin AccountSwapAttempts PROVE FALSE
  OBVIOUS
<1>2. PICK x \in Ixs :
        a \in SignerSkipAttempts(x) \cup OwnerSkipAttempts(x) \cup
             DiscriminatorSkipAttempts(x) \cup PdaForgeAttempts(x) \cup
             BumpSeedAttempts(x) \cup UncheckedMathAttempts(x) \cup
             ReplayAttempts(x)
  BY <1>1, HarnessAssumption DEF Attempts
<1>3. a.kind # "account-swap"
  BY <1>2 DEF SignerSkipAttempts, OwnerSkipAttempts, DiscriminatorSkipAttempts,
              PdaForgeAttempts, BumpSeedAttempts, UncheckedMathAttempts,
              ReplayAttempts, Attempt
<1> QED BY <1>3

-----------------------------------------------------------------------------
(* The accounts a body found stay as they were.                            *)

\* A temporary key holds nothing, or a blanked account.
Blank(l) == \A k \in TemporaryKeys \cap Keys : l[k] \in {Missing, Inert}

\* BodyRestores asks for what the body found.
Asks == violation = NoViolation \/ RestoresAll

\* BodyRestores, and why it survives a detector that writes temporary keys.
RestoringInv ==
    /\ harness \in Harnesses
    /\ todo \subseteq Attempts
    /\ Blank(ledger) /\ Blank(baseline)
    /\ BodyRestores

\* A step that changes neither the harness nor a report back to none asks for no
\* more than was asked.
LEMMA AsksNoMore ==
    ASSUME harness' = harness, violation' = NoViolation => violation = NoViolation
    PROVE  Asks' => Asks
BY DEF Asks, RestoresAll, chain

LEMMA AttemptsStay ==
    ASSUME harness' = harness
    PROVE  Attempts' = Attempts
BY DEF Attempts, AccountSwapAttempts, DeclaredSwaps, chain

LEMMA TamperedRestores ==
    ASSUME NEW a, NEW armed, NEW metas, NEW keypairs, NEW watched, NEW temps,
           Tampered(a, armed, metas, keypairs, watched, temps),
           \A k \in Keys \ temps : armed[k] = ledger[k],
           \A i \in DOMAIN metas : metas[i].key \in watched \cup temps,
           NEW k \in Keys \ {FeePayer}
    PROVE  /\ k \in temps => ledger'[k] = Inert
           /\ k \notin temps /\ (Present(ledger, k) \/ k \notin watched) =>
                 ledger'[k] = ledger[k]
<1>1. PICK out \in Sends(armed, a.ix, metas, keypairs) :
        ledger' = CleanupTempAccounts(
                    RestoreAccounts(out.ledger, SaveAccounts(ledger, watched)), temps)
  BY DEF Tampered
<1>2. k \in temps => ledger'[k] = Inert
  BY <1>1 DEF CleanupTempAccounts
<1>3. ASSUME k \notin temps
      PROVE  ledger'[k] = IF k \in DOMAIN SaveAccounts(ledger, watched)
                          THEN SaveAccounts(ledger, watched)[k] ELSE out.ledger[k]
  BY <1>1, <1>3 DEF CleanupTempAccounts, RestoreAccounts
<1>4. CASE k \notin temps /\ k \in watched /\ Present(ledger, k)
  BY <1>3, <1>4 DEF SaveAccounts
<1>5. CASE k \notin temps /\ k \notin watched
  <2>1. out.ledger[k] = armed[k]
    BY <1>5, SendsConfined
  <2> QED BY <1>3, <1>5, <2>1 DEF SaveAccounts
<1> QED BY <1>2, <1>4, <1>5

\* A tampering detector that watches accounts of the fixture and blanks only
\* temporary keys keeps what the body found.
LEMMA TamperedKeeps ==
    ASSUME WellFormedFixture, RestoringInv,
           NEW a, NEW armed, NEW metas, NEW keypairs,
           NEW watched \in SUBSET FixtureKeys, NEW temps \in SUBSET TemporaryKeys,
           Tampered(a, armed, metas, keypairs, watched, temps),
           \A k \in Keys \ temps : armed[k] = ledger[k],
           \A i \in DOMAIN metas : metas[i].key \in watched \cup temps
    PROVE  RestoringInv'
<1>1. /\ todo' \subseteq todo /\ baseline' = baseline /\ harness' = harness
      /\ violation' = NoViolation => violation = NoViolation
  BY DEF Tampered, Record, params
<1>2. todo' \subseteq Attempts'
  BY <1>1, AttemptsStay DEF RestoringInv
<1>3. FeePayer \notin TemporaryKeys /\ TemporaryKeys \cap FixtureKeys = {}
  BY DEF WellFormedFixture, FixtureKeys
<1>4. ASSUME NEW k \in TemporaryKeys \cap Keys
      PROVE  ledger'[k] \in {Missing, Inert}
  <2>1. k \in Keys \ {FeePayer} /\ k \notin watched
    BY <1>3
  <2>2. k \in temps => ledger'[k] = Inert
    BY <2>1, TamperedRestores
  <2>3. k \notin temps => ledger'[k] = ledger[k]
    BY <2>1, TamperedRestores
  <2> QED BY <2>2, <2>3 DEF RestoringInv, Blank
<1>5. ASSUME Asks',
             NEW k \in Keys \ {FeePayer}, Present(baseline, k)
      PROVE  ledger'[k] = baseline[k]
  <2>1. ledger[k] = baseline[k] /\ Present(ledger, k)
    BY <1>1, <1>5, AsksNoMore DEF RestoringInv, BodyRestores, Asks, Present
  <2>2. k \in temps => ledger'[k] = Inert /\ baseline[k] = Inert
    BY <1>5, TamperedRestores DEF RestoringInv, Blank, Present
  <2>3. k \notin temps => ledger'[k] = ledger[k]
    BY <2>1, TamperedRestores
  <2> QED BY <2>1, <2>2, <2>3
<1> QED BY <1>1, <1>2, <1>4, <1>5
        DEF RestoringInv, Blank, BodyRestores, Asks, Present

LEMMA SkipKeeps ==
    ASSUME RestoringInv, NEW a, Skip(a)
    PROVE  RestoringInv'
BY AttemptsStay DEF Skip, RestoringInv, Blank, BodyRestores, RestoresAll, chain, Present, params

\* The metas of an instruction with one key replaced.
LEMMA SubstitutedKeys ==
    ASSUME NEW x \in Ixs, NEW i \in Slots(x), NEW k
    PROVE  /\ DOMAIN Substituted(x, i, k) = Slots(x)
           /\ Substituted(x, i, k)[i].key = k
           /\ \A j \in Slots(x) \ {i} : Substituted(x, i, k)[j].key = KeyAt(x, j)
           /\ \A j \in Slots(x) : Substituted(x, i, k)[j].key \in CanonicalKeys(x) \cup {k}
<1>1. Instr[x].accounts \in [Slots(x) -> Meta]
  BY VictimAssumption DEF IsInstructionSpec, Slots
<1>2. /\ DOMAIN Substituted(x, i, k) = Slots(x)
      /\ \A j \in Slots(x) \ {i} : Substituted(x, i, k)[j] = Instr[x].accounts[j]
  BY <1>1 DEF Substituted
<1>3. Substituted(x, i, k)[i].key = k
  BY <1>1 DEF Substituted, Meta
<1> QED BY <1>2, <1>3 DEF CanonicalKeys, KeyAt

\* The metas of an instruction with one signature withheld.
LEMMA UnsignedKeys ==
    ASSUME NEW x \in Ixs, NEW i \in Slots(x)
    PROVE  LET metas == [Instr[x].accounts EXCEPT ![i].signer = FALSE] IN
           /\ DOMAIN metas = Slots(x)
           /\ \A j \in Slots(x) : metas[j].key = KeyAt(x, j)
           /\ metas[i].signer = FALSE
           /\ \A j \in Slots(x) \ {i} : metas[j] = Instr[x].accounts[j]
<1>1. Instr[x].accounts \in [Slots(x) -> Meta]
  BY VictimAssumption DEF IsInstructionSpec, Slots
<1> QED BY <1>1 DEF KeyAt, Meta

LEMMA FixtureHolds ==
    ASSUME NEW x \in Ixs
    PROVE  CanonicalKeys(x) \subseteq FixtureKeys
BY DEF FixtureKeys

\* A forged account lives at a temporary key.
LEMMA ForgedKeeps ==
    ASSUME WellFormedFixture, RestoringInv,
           NEW a, a.ix \in Ixs, NEW i \in Slots(a.ix), NEW fake,
           Forged(a, i, fake)
    PROVE  RestoringInv'
<1>1. CASE Skip(a)
  BY <1>1, SkipKeeps
<1>2. CASE Tampered(a, [ledger EXCEPT ![FakeKey] = fake],
                    Substituted(a.ix, i, FakeKey), Instr[a.ix].signers,
                    CanonicalKeys(a.ix), {FakeKey})
  <2>1. \A k \in Keys \ {FakeKey} : [ledger EXCEPT ![FakeKey] = fake][k] = ledger[k]
    OBVIOUS
  <2>2. {FakeKey} \in SUBSET TemporaryKeys /\ CanonicalKeys(a.ix) \in SUBSET FixtureKeys
    BY FixtureHolds DEF TemporaryKeys
  <2>3. \A j \in DOMAIN Substituted(a.ix, i, FakeKey) :
           Substituted(a.ix, i, FakeKey)[j].key \in CanonicalKeys(a.ix) \cup {FakeKey}
    BY SubstitutedKeys
  <2> QED BY <1>2, <2>1, <2>2, <2>3, TamperedKeeps
<1> QED BY <1>1, <1>2 DEF Forged

LEMMA ForgingKeeps ==
    ASSUME WellFormedFixture, RestoringInv, NEW a \in todo,
           a.kind \in {"owner-skip", "discriminator-skip", "pda-forge"},
           \E i \in a.slots : Skip(a) \/ \E fake : Forged(a, i, fake)
    PROVE  RestoringInv'
<1>1. a.ix \in Ixs /\ a.slots \subseteq Slots(a.ix)
  BY AttemptShape DEF RestoringInv
<1> QED BY <1>1, SkipKeeps, ForgedKeeps

LEMMA ReplayedKeeps ==
    ASSUME WellFormedFixture, RestoringInv,
           NEW a, a.ix \in Ixs, NEW out \in CanonicalSends(a.ix), Replayed(a, out),
           violation' = NoViolation => violation = NoViolation
    PROVE  RestoringInv'
<1>1. /\ todo' \subseteq todo /\ baseline' = baseline /\ harness' = harness
      /\ ledger' = RestoreAccounts(out.ledger, SaveAccounts(ledger, CanonicalKeys(a.ix)))
  BY DEF Replayed, params
<1>2. todo' \subseteq Attempts'
  BY <1>1, AttemptsStay DEF RestoringInv
<1>3. ASSUME NEW k \in Keys \ {FeePayer}, Present(ledger, k) \/ k \notin CanonicalKeys(a.ix)
      PROVE  ledger'[k] = ledger[k]
  <2>1. CASE k \in CanonicalKeys(a.ix)
    BY <1>1, <1>3, <2>1 DEF RestoreAccounts, SaveAccounts
  <2>2. CASE k \notin CanonicalKeys(a.ix)
    <3>1. out.ledger[k] = ledger[k]
      BY <2>2, SendsConfined DEF CanonicalSends, CanonicalKeys, KeyAt, Slots
    <3> QED BY <1>1, <2>2, <3>1 DEF RestoreAccounts, SaveAccounts
  <2> QED BY <2>1, <2>2
<1>4. ASSUME NEW k \in TemporaryKeys \cap Keys
      PROVE  ledger'[k] \in {Missing, Inert}
  <2>1. k \in Keys \ {FeePayer} /\ k \notin CanonicalKeys(a.ix)
    BY FixtureHolds DEF WellFormedFixture, FixtureKeys
  <2> QED BY <2>1, <1>3 DEF RestoringInv, Blank
<1>5. ASSUME Asks',
             NEW k \in Keys \ {FeePayer}, Present(baseline, k)
      PROVE  ledger'[k] = baseline[k]
  BY <1>1, <1>3, <1>5, AsksNoMore DEF RestoringInv, BodyRestores, Asks, Present
<1> QED BY <1>1, <1>2, <1>4, <1>5
        DEF RestoringInv, Blank, BodyRestores, Asks, Present

\* The metas of a swap.
LEMMA SwappedKeys ==
    ASSUME NEW x \in Ixs, NEW swaps, NEW i \in Slots(x)
    PROVE  /\ DOMAIN SwappedMetas(x, swaps) = Slots(x)
           /\ \/ /\ \A p \in swaps : p[1] # i
                 /\ SwappedMetas(x, swaps)[i].key = KeyAt(x, i)
              \/ \E p \in swaps : p[1] = i /\ SwappedMetas(x, swaps)[i].key = p[2]
<1>1. Instr[x].accounts \in [Slots(x) -> Meta]
  BY VictimAssumption DEF IsInstructionSpec, Slots
<1>2. CASE \E p \in swaps : p[1] = i
  <2> DEFINE q == CHOOSE p \in swaps : p[1] = i
  <2>1. q \in swaps /\ q[1] = i
    BY <1>2
  <2>2. SwappedMetas(x, swaps)[i] = [Instr[x].accounts[i] EXCEPT !.key = q[2]]
    BY <1>2 DEF SwappedMetas
  <2> HIDE DEF q
  <2>3. SwappedMetas(x, swaps)[i].key = q[2]
    BY <2>2, <1>1 DEF Meta
  <2> QED BY <2>1, <2>3 DEF SwappedMetas
<1>3. CASE \A p \in swaps : p[1] # i
  BY <1>3 DEF SwappedMetas, KeyAt
<1> QED BY <1>2, <1>3

LEMMA SwapTargets ==
    ASSUME harness \in Harnesses, NEW a \in AccountSwapAttempts
    PROVE  \A p \in a.what : p[2] \in FixtureKeys
<1>1. CASE a.ix \in Ixs /\ \E i \in DOMAIN Instr[a.ix].swapAlternates :
           \E k \in Instr[a.ix].swapAlternates[i] : a.what = {<<i, k>>}
  <2>1. PICK i \in DOMAIN Instr[a.ix].swapAlternates :
           \E k \in Instr[a.ix].swapAlternates[i] : a.what = {<<i, k>>}
    BY <1>1
  <2>2. PICK k \in Instr[a.ix].swapAlternates[i] : a.what = {<<i, k>>}
    BY <2>1
  <2>3. k \in UNION {Instr[a.ix].swapAlternates[j] : j \in DOMAIN Instr[a.ix].swapAlternates}
    BY <2>2
  <2>4. k \in SwapKeys
    BY <1>1, <2>3 DEF SwapKeys
  <2> QED BY <2>2, <2>4 DEF FixtureKeys
<1>2. CASE \E s \in SwapSets : a.what = s.swaps
  <2>1. \A p \in a.what : p[2] \in SwapKeys
    BY <1>2 DEF SwapKeys
  <2> QED BY <2>1 DEF FixtureKeys
<1> QED BY <1>1, <1>2, SwapShape

LEMMA AccountSwapKeeps ==
    ASSUME WellFormedFixture, RestoringInv, AccountSwap
    PROVE  RestoringInv'
<1>1. PICK a \in todo : Taken("account-swap", a) /\
        (IF Malformed(a.ix, a.what)
         THEN /\ todo' = todo \ {a}
              /\ violation' = IF a.declared
                     THEN Record(Finding("account-swap-config", a.ix, a.slots))
                     ELSE violation
              /\ UNCHANGED <<ledger, phase, reached, baseline, executed, params>>
         ELSE Tampered(a, ledger, SwappedMetas(a.ix, a.what),
                       Instr[a.ix].signers \cap
                         {SwappedMetas(a.ix, a.what)[i].key :
                            i \in {j \in Slots(a.ix) : SwappedMetas(a.ix, a.what)[j].signer}},
                       TouchedKeys(a.ix, SwappedMetas(a.ix, a.what)), {}))
  BY Zenon DEF AccountSwap
<1>2. a \in AccountSwapAttempts
  <2>1. a \in Attempts /\ harness \in Harnesses /\ a.kind = "account-swap"
    BY <1>1 DEF RestoringInv, Taken
  <2> QED BY <2>1, NotASwap
<1>3. CASE Malformed(a.ix, a.what)
  <2>1. /\ todo' \subseteq todo
        /\ UNCHANGED <<ledger, baseline, harness>>
        /\ violation' = NoViolation => violation = NoViolation
    BY <1>1, <1>3 DEF Record, params
  <2> QED BY <2>1, AttemptsStay DEF RestoringInv, Blank, BodyRestores, RestoresAll, chain, Present
<1>4. CASE ~Malformed(a.ix, a.what)
  <2> DEFINE metas == SwappedMetas(a.ix, a.what)
             watched == TouchedKeys(a.ix, metas)
  <2>1. a.ix \in Ixs
    BY <1>4, HarnessAssumption DEF Malformed, RestoringInv
  <2>2. DOMAIN metas = Slots(a.ix)
    BY DEF SwappedMetas
  <2>3. \A i \in Slots(a.ix) : metas[i].key \in FixtureKeys
    <3>1. TAKE i \in Slots(a.ix)
    <3>2. CASE metas[i].key = KeyAt(a.ix, i)
      BY <2>1, <3>2, FixtureHolds DEF CanonicalKeys
    <3>3. CASE \E p \in a.what : metas[i].key = p[2]
      BY <1>2, <3>3, SwapTargets DEF RestoringInv
    <3> QED BY <2>1, <3>2, <3>3, SwappedKeys
  <2>4. watched \in SUBSET FixtureKeys /\ {} \in SUBSET TemporaryKeys
    BY <2>3 DEF TouchedKeys
  <2>5. \A i \in DOMAIN metas : metas[i].key \in watched \cup {}
    BY <2>2 DEF TouchedKeys
  <2>6. PICK keypairs : Tampered(a, ledger, metas, keypairs, watched, {})
    BY <1>1, <1>4
  <2> HIDE DEF metas, watched
  <2> QED BY <2>4, <2>5, <2>6, TamperedKeeps
<1> QED BY <1>3, <1>4

LEMMA BumpSeedKeeps ==
    ASSUME WellFormedFixture, RestoringInv, BumpSeed
    PROVE  RestoringInv'
<1>1. PICK a \in todo : \E i \in a.slots :
        /\ Taken("bump-seed-canonicalization", a)
        /\ \/ Skip(a)
           \/ \E out \in Sends([ledger EXCEPT ![AltPda[a.ix][i]] = ledger[KeyAt(a.ix, i)]],
                               a.ix, Substituted(a.ix, i, AltPda[a.ix][i]),
                               Instr[a.ix].signers) :
                /\ ledger' = CleanupTempAccounts(out.ledger, {AltPda[a.ix][i]})
                /\ violation' = IF out.ok THEN Record(Finding(a.kind, a.ix, a.slots))
                                ELSE violation
                /\ todo' \subseteq todo
                /\ UNCHANGED <<baseline, harness>>
  BY DEF BumpSeed, params
<1>2. PICK i \in a.slots :
        /\ Taken("bump-seed-canonicalization", a)
        /\ \/ Skip(a)
           \/ \E out \in Sends([ledger EXCEPT ![AltPda[a.ix][i]] = ledger[KeyAt(a.ix, i)]],
                               a.ix, Substituted(a.ix, i, AltPda[a.ix][i]),
                               Instr[a.ix].signers) :
                /\ ledger' = CleanupTempAccounts(out.ledger, {AltPda[a.ix][i]})
                /\ violation' = IF out.ok THEN Record(Finding(a.kind, a.ix, a.slots))
                                ELSE violation
                /\ todo' \subseteq todo
                /\ UNCHANGED <<baseline, harness>>
  BY <1>1
<1>3. CASE Skip(a)
  BY <1>3, SkipKeeps
<1> DEFINE alt == AltPda[a.ix][i]
           armed == [ledger EXCEPT ![alt] = ledger[KeyAt(a.ix, i)]]
<1>4. ASSUME NEW out \in Sends(armed, a.ix, Substituted(a.ix, i, alt), Instr[a.ix].signers),
             /\ ledger' = CleanupTempAccounts(out.ledger, {alt})
             /\ violation' = IF out.ok THEN Record(Finding(a.kind, a.ix, a.slots))
                             ELSE violation
             /\ todo' \subseteq todo
             /\ UNCHANGED <<baseline, harness>>
      PROVE  RestoringInv'
  <2>1. a \in Attempts /\ harness \in Harnesses /\ a.kind = "bump-seed-canonicalization"
    BY <1>2 DEF RestoringInv, Taken
  <2>2. a.ix \in Ixs /\ i \in Slots(a.ix) /\ a.slots \subseteq Slots(a.ix) /\ alt # Missing
    BY <2>1, <1>2, AttemptShape
  <2>3. alt \in Keys
    BY <2>2, VictimAssumption
  <2>4. alt \in TemporaryKeys
    BY <2>2 DEF TemporaryKeys
  <2>5. FeePayer \notin TemporaryKeys /\ TemporaryKeys \cap CanonicalKeys(a.ix) = {}
    BY <2>2, FixtureHolds DEF WellFormedFixture, FixtureKeys
  <2>6. violation' = NoViolation => violation = NoViolation /\ ~out.ok
    <3>1. a.slots \subseteq Nat
      BY <2>2, VictimAssumption DEF IsInstructionSpec, Slots
    <3>2. Finding(a.kind, a.ix, a.slots) \in Findings
      BY <2>1, <2>2, <3>1 DEF Finding, Findings, CheckKinds
    <3> QED BY <1>4, <3>2 DEF Record, WellFormedFixture
  <2>11. ~RestoresAll'
    BY <1>4, <2>1 DEF RestoresAll, Attempts, chain
  <2>7. ledger'[alt] = Inert
    BY <1>4, <2>3 DEF CleanupTempAccounts
  <2>8. ASSUME NEW k \in Keys \ {FeePayer, alt}, ~out.ok \/ k \notin CanonicalKeys(a.ix)
        PROVE  ledger'[k] = ledger[k]
    <3>1. \A j \in DOMAIN Substituted(a.ix, i, alt) :
             Substituted(a.ix, i, alt)[j].key \in CanonicalKeys(a.ix) \cup {alt}
      BY <2>2, SubstitutedKeys
    <3>2. out.ok => \A j \in DOMAIN Substituted(a.ix, i, alt) :
                       Substituted(a.ix, i, alt)[j].key # k
      BY <2>8, <3>1
    <3> HIDE DEF alt, armed
    <3>3. out.ledger[k] = armed[k]
      BY <1>4, <2>8, <3>2, SendsConfined
    <3>4. armed[k] = ledger[k]
      BY <2>8 DEF armed
    <3> QED BY <1>4, <2>8, <3>3, <3>4 DEF CleanupTempAccounts
  <2>9. ASSUME NEW k \in TemporaryKeys \cap Keys
        PROVE  ledger'[k] \in {Missing, Inert}
    BY <2>5, <2>7, <2>8 DEF RestoringInv, Blank
  <2>10. ASSUME violation' = NoViolation,
                NEW k \in Keys \ {FeePayer}, Present(baseline, k)
         PROVE  ledger'[k] = baseline[k]
    <3>1. ledger[k] = baseline[k]
      BY <2>6, <2>10 DEF RestoringInv, BodyRestores
    <3>2. k = alt => baseline[k] = Inert
      BY <2>3, <2>4, <2>10 DEF RestoringInv, Blank, Present
    <3> QED BY <2>6, <2>7, <2>8, <2>10, <3>1, <3>2
  <2> QED BY <1>4, <2>9, <2>10, <2>11, AttemptsStay DEF RestoringInv, Blank, BodyRestores, Present
<1> QED BY <1>2, <1>3, <1>4

-----------------------------------------------------------------------------
LEMMA RestoringInit ==
    ASSUME WellFormedFixture, Init
    PROVE  RestoringInv
BY DEF Init, WellFormedFixture, RestoringInv, Blank, BodyRestores, RestoresAll, chain, Present

LEMMA RestoringNext ==
    ASSUME WellFormedFixture, RestoringInv, [Next]_vars
    PROVE  RestoringInv'
<1> USE DEF Taken
<1>1. CASE SignerSkip
  <2>1. PICK a \in todo : a.kind = "signer-skip" /\ \E i \in a.slots :
          Tampered(a, ledger, [Instr[a.ix].accounts EXCEPT ![i].signer = FALSE],
                   Instr[a.ix].signers \ {KeyAt(a.ix, i)}, CanonicalKeys(a.ix), {})
    BY <1>1 DEF SignerSkip
  <2>2. PICK i \in a.slots :
          Tampered(a, ledger, [Instr[a.ix].accounts EXCEPT ![i].signer = FALSE],
                   Instr[a.ix].signers \ {KeyAt(a.ix, i)}, CanonicalKeys(a.ix), {})
    BY <2>1
  <2>3. a.ix \in Ixs /\ i \in Slots(a.ix)
    BY <2>1, AttemptShape DEF RestoringInv
  <2> DEFINE metas == [Instr[a.ix].accounts EXCEPT ![i].signer = FALSE]
  <2>4. DOMAIN metas = Slots(a.ix) /\ \A j \in Slots(a.ix) : metas[j].key = KeyAt(a.ix, j)
    BY <2>3, UnsignedKeys
  <2>5. Tampered(a, ledger, metas, Instr[a.ix].signers \ {KeyAt(a.ix, i)},
                 CanonicalKeys(a.ix), {})
    BY <2>2
  <2> HIDE DEF metas
  <2>6. \A j \in DOMAIN metas : metas[j].key \in CanonicalKeys(a.ix) \cup {}
    BY <2>4 DEF CanonicalKeys
  <2>7. CanonicalKeys(a.ix) \in SUBSET FixtureKeys /\ {} \in SUBSET TemporaryKeys
    BY <2>3, FixtureHolds
  <2> QED BY <2>5, <2>6, <2>7, TamperedKeeps
<1>2. CASE OwnerSkip
  <2>1. PICK a \in todo : a.kind = "owner-skip" /\ \E i \in a.slots :
          Skip(a) \/ \E fake : Forged(a, i, fake)
    BY <1>2 DEF OwnerSkip
  <2> QED BY <2>1, ForgingKeeps
<1>3. CASE DiscriminatorSkip
  <2>1. PICK a \in todo : a.kind = "discriminator-skip" /\ \E i \in a.slots :
          Skip(a) \/ \E fake : Forged(a, i, fake)
    BY <1>3 DEF DiscriminatorSkip
  <2> QED BY <2>1, ForgingKeeps
<1>4. CASE PdaForge
  <2>1. PICK a \in todo : a.kind = "pda-forge" /\ \E i \in a.slots :
          Skip(a) \/ \E fake : Forged(a, i, fake)
    BY <1>4 DEF PdaForge
  <2> QED BY <2>1, ForgingKeeps
<1>5. CASE AccountSwap
  BY <1>5, AccountSwapKeeps
<1>6. CASE BumpSeed
  BY <1>6, BumpSeedKeeps
<1>7. CASE CuDos \/ ReallocRace \/ CpiReentrancy \/ PreconditionSkip
  <2>1. PICK a \in todo : a.kind # "account-swap" /\ \E out \in CanonicalSends(a.ix) :
          Replayed(a, out) /\ (violation' = NoViolation => violation = NoViolation)
    BY <1>7 DEF CuDos, ReallocRace, CpiReentrancy, PreconditionSkip, Record
  <2>2. a.ix \in Ixs
    BY <2>1, AttemptShape DEF RestoringInv
  <2> QED BY <2>1, <2>2, ReplayedKeeps
<1>8. CASE UncheckedMath
  <2>1. PICK a \in todo : a.kind # "account-swap" /\ (Skip(a) \/ \E out \in CanonicalSends(a.ix) :
          Replayed(a, out) /\ (violation' = NoViolation => violation = NoViolation))
    BY <1>8 DEF UncheckedMath, Record
  <2>2. a.ix \in Ixs
    BY <2>1, AttemptShape DEF RestoringInv
  <2> QED BY <2>1, <2>2, ReplayedKeeps, SkipKeeps
<1>9. CASE EndBody
  BY <1>9, AttemptsStay DEF EndBody, RestoringInv, Blank, BodyRestores, RestoresAll, chain, Present,
               params
<1>10. CASE FuzzAction
  <2>1. PICK x \in Ixs : \E out \in CanonicalSends(x) :
          /\ ledger' = out.ledger /\ baseline' = out.ledger
          /\ todo' = Attempts /\ harness' = harness
    BY <1>10, HarnessAssumption DEF FuzzAction, RestoringInv, params
  <2>2. PICK out \in CanonicalSends(x) :
          /\ ledger' = out.ledger /\ baseline' = out.ledger
          /\ todo' = Attempts /\ harness' = harness
    BY <2>1
  <2>3. ASSUME NEW k \in TemporaryKeys \cap Keys
        PROVE  out.ledger[k] = ledger[k]
    <3>1. k # FeePayer /\ k \notin CanonicalKeys(x)
      BY FixtureHolds DEF WellFormedFixture, FixtureKeys
    <3> QED BY <3>1, SendsConfined DEF CanonicalSends, CanonicalKeys, KeyAt, Slots
  <2> QED BY <2>2, <2>3, AttemptsStay DEF RestoringInv, Blank, BodyRestores, Present
<1>11. CASE NewIteration
  BY <1>11, AttemptsStay DEF NewIteration, RestoringInv, Blank, BodyRestores, Present,
               params, WellFormedFixture
<1>12. CASE UNCHANGED vars
  BY <1>12, AttemptsStay DEF vars, params, RestoringInv, Blank, BodyRestores, RestoresAll, chain, Present
<1> QED BY <1>1, <1>2, <1>3, <1>4, <1>5, <1>6, <1>7, <1>8, <1>9, <1>10, <1>11, <1>12
        DEF Next, Body

\* Whatever the program does and whatever is reported, the accounts a body found
\* are as they were after every attempt; with bump-seed-canonicalization in the
\* chain, until something is reported.
THEOREM BodyRestoresAlways ==
    ASSUME WellFormedFixture
    PROVE  Spec => []BodyRestores
<1>1. Init => RestoringInv
  BY RestoringInit
<1>2. RestoringInv /\ [Next]_vars => RestoringInv'
  BY RestoringNext
<1>3. RestoringInv => BodyRestores
  BY DEF RestoringInv
<1> QED BY <1>1, <1>2, <1>3, PTL DEF Spec

-----------------------------------------------------------------------------
(* What a detector may accuse a program of.                                *)

\* The context of a fixture's account never changes: it is the one the program
\* creates the account with.
Bound(l) ==
    \A k \in FixtureKeys \cap Keys : Present(l, k) => l[k].ctx = Genuine[k].ctx

SoundInv == TypeOK /\ Bound(ledger) /\ NoFalseAccusation

-----------------------------------------------------------------------------
(* What a transaction makes of the ledger.                                 *)

\* A written account is an account, of the context it had or is created with.
LEMMA WrittenAccount ==
    ASSUME NEW l \in Ledgers, NEW k \in Keys, NEW u \in Vals \cup {Missing}
    PROVE  /\ Written(l, k, u) \in Account \cup {Missing}
           /\ Written(l, k, u) # Missing =>
                 Written(l, k, u).ctx = IF Present(l, k) THEN l[k].ctx ELSE Genuine[k].ctx
<1>1. CASE u = Missing
  BY <1>1 DEF Written
<1>2. CASE u # Missing /\ Present(l, k)
  <2>1. l[k] \in Account
    BY <1>2 DEF Ledgers, Present
  <2>2. Written(l, k, u) = [l[k] EXCEPT !.val = u] /\ u \in Vals
    BY <1>2 DEF Written
  <2> QED BY <1>2, <2>1, <2>2 DEF Account
<1>3. CASE u # Missing /\ ~Present(l, k)
  <2>1. Genuine[k] \in Account
    BY VictimAssumption
  <2>2. Written(l, k, u) = [Genuine[k] EXCEPT !.val = u] /\ u \in Vals
    BY <1>3 DEF Written
  <2> QED BY <1>3, <2>1, <2>2 DEF Account
<1> QED BY <1>1, <1>2, <1>3

LEMMA Applied ==
    ASSUME NEW l \in Ledgers, NEW u,
           \A k \in Keys \cap DOMAIN u : u[k] \in Vals \cup {Missing}
    PROVE  /\ Apply(l, u) \in Ledgers
           /\ \A k \in Keys : Present(Apply(l, u), k) =>
                 Apply(l, u)[k].ctx = IF Present(l, k) THEN l[k].ctx ELSE Genuine[k].ctx
<1>1. ASSUME NEW k \in Keys
      PROVE  /\ Apply(l, u)[k] \in Account \cup {Missing}
             /\ Present(Apply(l, u), k) =>
                   Apply(l, u)[k].ctx = IF Present(l, k) THEN l[k].ctx ELSE Genuine[k].ctx
  <2>1. CASE k \in DOMAIN u
    <3>1. Apply(l, u)[k] = Written(l, k, u[k])
      BY <2>1 DEF Apply
    <3> QED BY <2>1, <3>1, WrittenAccount DEF Present
  <2>2. CASE k \notin DOMAIN u
    <3>1. Apply(l, u)[k] = l[k]
      BY <2>2 DEF Apply
    <3> QED BY <3>1 DEF Ledgers, Present
  <2> QED BY <2>1, <2>2
<1>2. Apply(l, u) \in Ledgers
  BY <1>1 DEF Apply, Ledgers
<1> QED BY <1>1, <1>2

\* A send leaves a ledger, accepted only when every check of the program passes.
LEMMA Sent ==
    ASSUME NEW l \in Ledgers, NEW x, NEW metas, NEW keypairs,
           NEW out \in Sends(l, x, metas, keypairs)
    PROVE  /\ out.ledger \in Ledgers
           /\ out.ok \in BOOLEAN
           /\ out.ok => Accepts(l, x, metas) /\ Respects(x, metas, l, out.ledger)
           /\ \A k \in Keys : Present(out.ledger, k) =>
                 out.ledger[k].ctx = IF Present(l, k) THEN l[k].ctx ELSE Genuine[k].ctx
<1>1. CASE out \in {[ok |-> FALSE, ledger |-> l2] : l2 \in Rollbacks(l)}
  <2>1. PICK l2 \in Rollbacks(l) : out = [ok |-> FALSE, ledger |-> l2]
    BY <1>1
  <2>2. CASE l2 = l
    BY <2>1, <2>2
  <2>3. CASE \E v \in Vals : l2 = Apply(l, [j \in {FeePayer} |-> v])
    <3>1. PICK v \in Vals : l2 = Apply(l, [j \in {FeePayer} |-> v])
      BY <2>3
    <3>2. \A k \in Keys \cap DOMAIN [j \in {FeePayer} |-> v] :
             [j \in {FeePayer} |-> v][k] \in Vals \cup {Missing}
      OBVIOUS
    <3> QED BY <2>1, <3>1, <3>2, Applied
  <2> QED BY <2>1, <2>2, <2>3 DEF Rollbacks
<1>2. CASE /\ Signable(metas, keypairs) /\ Accepts(l, x, metas)
           /\ out \in {[ok |-> TRUE, ledger |-> l2] : l2 \in Effects(l, x, metas)}
  <2>1. PICK l2 \in Effects(l, x, metas) : out = [ok |-> TRUE, ledger |-> l2]
    BY <1>2
  <2>2. PICK u \in [Mutable(l, x, metas) -> Vals \cup {Missing}] :
          l2 = Apply(l, u) /\ Respects(x, metas, l, l2)
    BY <2>1 DEF Effects
  <2>3. \A k \in Keys \cap DOMAIN u : u[k] \in Vals \cup {Missing}
    BY <2>2
  <2> QED BY <1>2, <2>1, <2>2, <2>3, Applied
<1> QED BY <1>1, <1>2 DEF Sends

-----------------------------------------------------------------------------
(* The attempts of each detector.                                          *)

LEMMA KindShape ==
    ASSUME harness \in Harnesses, NEW a \in Attempts, a.kind # "account-swap"
    PROVE  /\ a.ix \in Ixs
           /\ a.kind = "signer-skip" => a \in SignerSkipAttempts(a.ix)
           /\ a.kind = "owner-skip" => a \in OwnerSkipAttempts(a.ix)
           /\ a.kind = "discriminator-skip" => a \in DiscriminatorSkipAttempts(a.ix)
           /\ a.kind = "pda-forge" => a \in PdaForgeAttempts(a.ix)
           /\ a.kind = "bump-seed-canonicalization" => a \in BumpSeedAttempts(a.ix)
           /\ a.kind = "unchecked-math" => a \in UncheckedMathAttempts(a.ix)
           /\ a.kind \in {"cu-dos", "realloc-race", "cpi-reentrancy", "precondition-skip"} =>
                 a \in ReplayAttempts(a.ix)
<1>1. a \notin AccountSwapAttempts
  BY SwapShape
<1>2. PICK x \in Ixs :
        a \in SignerSkipAttempts(x) \cup OwnerSkipAttempts(x) \cup
             DiscriminatorSkipAttempts(x) \cup PdaForgeAttempts(x) \cup
             BumpSeedAttempts(x) \cup UncheckedMathAttempts(x) \cup
             ReplayAttempts(x)
  BY <1>1, HarnessAssumption DEF Attempts
<1>3. CASE a \in SignerSkipAttempts(x)
  <2>1. a.ix = x /\ a.kind = "signer-skip"
    BY <1>3 DEF SignerSkipAttempts, Attempt
  <2> QED BY <1>3, <2>1
<1>4. CASE a \in OwnerSkipAttempts(x)
  <2>1. a.ix = x /\ a.kind = "owner-skip"
    BY <1>4 DEF OwnerSkipAttempts, Attempt
  <2> QED BY <1>4, <2>1
<1>5. CASE a \in DiscriminatorSkipAttempts(x)
  <2>1. a.ix = x /\ a.kind = "discriminator-skip"
    BY <1>5 DEF DiscriminatorSkipAttempts, Attempt
  <2> QED BY <1>5, <2>1
<1>6. CASE a \in PdaForgeAttempts(x)
  <2>1. a.ix = x /\ a.kind = "pda-forge"
    BY <1>6 DEF PdaForgeAttempts, Attempt
  <2> QED BY <1>6, <2>1
<1>7. CASE a \in BumpSeedAttempts(x)
  <2>1. a.ix = x /\ a.kind = "bump-seed-canonicalization"
    BY <1>7 DEF BumpSeedAttempts, Attempt
  <2> QED BY <1>7, <2>1
<1>8. CASE a \in UncheckedMathAttempts(x)
  <2>1. a.ix = x /\ a.kind = "unchecked-math"
    BY <1>8 DEF UncheckedMathAttempts, Attempt
  <2> QED BY <1>8, <2>1
<1>9. CASE a \in ReplayAttempts(x)
  <2>1. a.ix = x /\ a.kind \in {"cu-dos", "realloc-race", "cpi-reentrancy", "precondition-skip"}
    BY <1>9 DEF ReplayAttempts, Attempt
  <2> QED BY <1>9, <2>1
<1> QED BY <1>2, <1>3, <1>4, <1>5, <1>6, <1>7, <1>8, <1>9

-----------------------------------------------------------------------------
(* Why a program that makes the check rejects each kind of tampering.      *)

Lacks(kind, x, i) == [kind |-> kind, slot |-> i] \notin enforced[x]

\* Nothing else signs for the key whose signature is withheld.
LEMMA SignerRejected ==
    ASSUME harness \in Harnesses, NEW a \in Attempts, a.kind = "signer-skip", NEW i \in a.slots, NEW l,
           Accepts(l, a.ix, [Instr[a.ix].accounts EXCEPT ![i].signer = FALSE])
    PROVE  Lacks(a.kind, a.ix, i)
<1> DEFINE metas == [Instr[a.ix].accounts EXCEPT ![i].signer = FALSE]
<1>1. a.ix \in Ixs /\ a \in SignerSkipAttempts(a.ix)
  BY KindShape
<1>2. i \in Slots(a.ix) /\ ~SignedElsewhere(a.ix, i) /\ KeyAt(a.ix, i) # FeePayer
  BY <1>1 DEF SignerSkipAttempts, Attempt
<1>3. /\ DOMAIN metas = Slots(a.ix) /\ metas[i].signer = FALSE
      /\ \A j \in Slots(a.ix) : metas[j].key = KeyAt(a.ix, j)
      /\ \A j \in Slots(a.ix) \ {i} : metas[j] = Instr[a.ix].accounts[j]
  BY <1>1, <1>2, UnsignedKeys
<1> HIDE DEF metas
<1>4. metas[i].key \notin SigningKeys(metas)
  BY <1>2, <1>3 DEF SigningKeys, SignedElsewhere
<1> DEFINE c == [kind |-> "signer-skip", slot |-> i]
<1>5. c.kind = "signer-skip" /\ c.slot = i
  OBVIOUS
<1>6. ~Passes(l, a.ix, metas, c)
  BY <1>4, <1>5 DEF Passes
<1>7. Accepts(l, a.ix, metas)
  BY DEF metas
<1> QED BY <1>6, <1>7 DEF Accepts, Lacks

\* The fake has another owner than the declared one.
LEMMA OwnerRejected ==
    ASSUME WellFormedFixture,
           harness \in Harnesses, NEW a \in Attempts, a.kind = "owner-skip", NEW i \in a.slots, NEW l,
           l[FakeKey].owner = a.what,
           Accepts(l, a.ix, Substituted(a.ix, i, FakeKey))
    PROVE  Lacks(a.kind, a.ix, i)
<1>1. a.ix \in Ixs /\ a \in OwnerSkipAttempts(a.ix)
  BY KindShape
<1>2. i \in Slots(a.ix) /\ a.what # Instr[a.ix].expectedOwners[i]
  BY <1>1 DEF OwnerSkipAttempts, Attempt
<1>3. Substituted(a.ix, i, FakeKey)[i].key = FakeKey
  BY <1>1, <1>2, SubstitutedKeys
<1>4. l[FakeKey].owner # Instr[a.ix].expectedOwners[i]
  BY <1>2
<1> DEFINE c == [kind |-> "owner-skip", slot |-> i]
<1>5. c.kind = "owner-skip" /\ c.slot = i
  OBVIOUS
<1>6. ~Passes(l, a.ix, Substituted(a.ix, i, FakeKey), c)
  BY <1>3, <1>4, <1>5 DEF Passes
<1> QED BY <1>6 DEF Accepts, Lacks

\* The fake has another discriminator than the declared one.
LEMMA DiscriminatorRejected ==
    ASSUME WellFormedFixture,
           harness \in Harnesses, NEW a \in Attempts, a.kind = "discriminator-skip", NEW i \in a.slots, NEW l,
           l[FakeKey].disc = a.what,
           Accepts(l, a.ix, Substituted(a.ix, i, FakeKey))
    PROVE  Lacks(a.kind, a.ix, i)
<1>1. a.ix \in Ixs /\ a \in DiscriminatorSkipAttempts(a.ix)
  BY KindShape
<1>2. i \in Slots(a.ix) /\ a.what # Instr[a.ix].expectedDiscriminators[i]
  BY <1>1 DEF DiscriminatorSkipAttempts, Attempt
<1>3. Substituted(a.ix, i, FakeKey)[i].key = FakeKey
  BY <1>1, <1>2, SubstitutedKeys
<1>4. l[FakeKey].disc # Instr[a.ix].expectedDiscriminators[i]
  BY <1>2
<1> DEFINE c == [kind |-> "discriminator-skip", slot |-> i]
<1>5. c.kind = "discriminator-skip" /\ c.slot = i
  OBVIOUS
<1>6. ~Passes(l, a.ix, Substituted(a.ix, i, FakeKey), c)
  BY <1>3, <1>4, <1>5 DEF Passes
<1> QED BY <1>6 DEF Accepts, Lacks

\* A fresh key is not derived from the declared seeds.
LEMMA ForgeRejected ==
    ASSUME WellFormedFixture,
           harness \in Harnesses, NEW a \in Attempts, a.kind = "pda-forge", NEW i \in a.slots, NEW l,
           Accepts(l, a.ix, Substituted(a.ix, i, FakeKey))
    PROVE  Lacks(a.kind, a.ix, i)
<1>1. a.ix \in Ixs /\ a \in PdaForgeAttempts(a.ix)
  BY KindShape
<1>2. i \in Slots(a.ix) /\ KeyAt(a.ix, i) = Instr[a.ix].expectedPda[i]
  BY <1>1 DEF PdaForgeAttempts, Attempt
<1>3. Substituted(a.ix, i, FakeKey)[i].key = FakeKey
  BY <1>1, <1>2, SubstitutedKeys
<1>4. FakeKey \notin {Instr[a.ix].expectedPda[i], AltPda[a.ix][i]}
  <2>1. KeyAt(a.ix, i) \in FixtureKeys
    BY <1>1, <1>2, FixtureHolds DEF CanonicalKeys
  <2> QED BY <1>1, <1>2, <2>1 DEF WellFormedFixture, TemporaryKeys
<1> DEFINE c == [kind |-> "pda-forge", slot |-> i]
<1>5. c.kind = "pda-forge" /\ c.slot = i
  OBVIOUS
<1>6. ~Passes(l, a.ix, Substituted(a.ix, i, FakeKey), c)
  BY <1>3, <1>4, <1>5 DEF Passes
<1> QED BY <1>6 DEF Accepts, Lacks

\* The lower bump derives another address.
LEMMA BumpRejected ==
    ASSUME WellFormedFixture,
           harness \in Harnesses, NEW a \in Attempts, a.kind = "bump-seed-canonicalization", NEW i \in a.slots, NEW l,
           Accepts(l, a.ix, Substituted(a.ix, i, AltPda[a.ix][i]))
    PROVE  Lacks(a.kind, a.ix, i)
<1>1. a.ix \in Ixs /\ a \in BumpSeedAttempts(a.ix)
  BY KindShape
<1>2. i \in Slots(a.ix)
  BY <1>1 DEF BumpSeedAttempts, Attempt
<1>3. Substituted(a.ix, i, AltPda[a.ix][i])[i].key = AltPda[a.ix][i]
  BY <1>1, <1>2, SubstitutedKeys
<1> DEFINE c == [kind |-> "bump-seed-canonicalization", slot |-> i]
<1>5. c.kind = "bump-seed-canonicalization" /\ c.slot = i
  OBVIOUS
<1>6. ~Passes(l, a.ix, Substituted(a.ix, i, AltPda[a.ix][i]), c)
  BY <1>3, <1>5 DEF Passes
<1> QED BY <1>6 DEF Accepts, Lacks

LEMMA FixtureKeysAreKeys ==
    ASSUME WellFormedFixture
    PROVE  FixtureKeys \subseteq Keys
<1>1. ASSUME NEW x \in Ixs, NEW i \in DOMAIN Instr[x].swapAlternates
      PROVE  Instr[x].swapAlternates[i] \subseteq Keys
  BY VictimAssumption DEF IsInstructionSpec
<1>2. ASSUME NEW s \in SwapSets, NEW p \in s.swaps
      PROVE  p[2] \in Keys
  BY DEF WellFormedFixture
<1>3. SwapKeys \subseteq Keys
  BY <1>1, <1>2 DEF SwapKeys
<1>4. ASSUME NEW x \in Ixs, NEW i \in Slots(x)
      PROVE  KeyAt(x, i) \in Keys
  <2>1. Instr[x].accounts[i] \in Meta
    BY VictimAssumption DEF IsInstructionSpec, Slots
  <2> QED BY <2>1 DEF KeyAt, Meta
<1> QED BY <1>3, <1>4, VictimAssumption DEF FixtureKeys, CanonicalKeys

\* The alternate belongs to another context than the account it replaces.
LEMMA SwapRejected ==
    ASSUME WellFormedFixture, Bound(ledger),
           harness \in Harnesses, NEW a \in Attempts, a.kind = "account-swap", ~Malformed(a.ix, a.what),
           Accepts(ledger, a.ix, SwappedMetas(a.ix, a.what))
    PROVE  \E i \in a.slots : Lacks(a.kind, a.ix, i)
<1>1. a \in AccountSwapAttempts /\ a.ix \in Ixs
  BY NotASwap, HarnessAssumption DEF Malformed
<1>2. PICK p \in a.what : p[1] \in Slots(a.ix) /\ p[2] # KeyAt(a.ix, p[1])
  BY DEF Malformed
<1> DEFINE i == p[1]
           k == SwappedMetas(a.ix, a.what)[i].key
<1>3. k = p[2]
  <2>1. PICK q \in a.what : q[1] = i /\ k = q[2]
    BY <1>1, <1>2, SwappedKeys
  <2> QED BY <1>2, <2>1 DEF Malformed
<1>4. i \in a.slots /\ Genuine[k].ctx # Genuine[KeyAt(a.ix, i)].ctx
  <2>1. CASE \E j \in DOMAIN Instr[a.ix].swapAlternates :
             \E alt \in Instr[a.ix].swapAlternates[j] :
                a.slots = {j} /\ a.what = {<<j, alt>>}
    <3>1. PICK j \in DOMAIN Instr[a.ix].swapAlternates :
             \E alt \in Instr[a.ix].swapAlternates[j] :
                a.slots = {j} /\ a.what = {<<j, alt>>}
      BY <2>1
    <3>2. PICK alt \in Instr[a.ix].swapAlternates[j] :
             a.slots = {j} /\ a.what = {<<j, alt>>}
      BY <3>1
    <3>3. i = j /\ p[2] = alt
      BY <1>2, <3>2
    <3>4. j \in DOMAIN Instr[a.ix].swapAlternates \cap Slots(a.ix) /\ alt # KeyAt(a.ix, j)
      BY <1>2, <3>3
    <3>5. Genuine[alt].ctx # Genuine[KeyAt(a.ix, j)].ctx
      BY <1>1, <3>2, <3>4 DEF WellFormedFixture
    <3> QED BY <1>3, <3>2, <3>3, <3>5
  <2>2. CASE \E s \in SwapSets :
                /\ a.ix = s.ix /\ a.what = s.swaps
                /\ a.slots = {q[1] : q \in s.swaps}
    BY <1>1, <1>2, <1>3, <2>2 DEF WellFormedFixture
  <2> QED BY <1>1, <2>1, <2>2, SwapShape
<1> HIDE DEF i, k
<1>5. Present(ledger, k) => ledger[k].ctx = Genuine[k].ctx
  BY <1>1, <1>2, <1>3, SwapTargets, FixtureKeysAreKeys DEF Bound
<1> DEFINE c == [kind |-> "account-swap", slot |-> i]
<1>6. c.kind = "account-swap" /\ c.slot = i
  OBVIOUS
<1>7. ~Passes(ledger, a.ix, SwappedMetas(a.ix, a.what), c)
  BY <1>4, <1>5, <1>6 DEF Passes, k
<1> QED BY <1>4, <1>7 DEF Accepts, Lacks

-----------------------------------------------------------------------------
(* What the detectors do with what they get.                               *)

LEMMA RecordedRightly ==
    ASSUME WellFormedFixture, TypeOK, NoFalseAccusation,
           enforced' = enforced, baseline' = baseline,
           NEW b, NEW f, violation' = (IF b THEN Record(f) ELSE violation),
           b => f \in Findings,
           b /\ f.kind \in CheckKinds =>
              (\E i \in f.slots : Lacks(f.kind, f.ix, i)) \/ BlamesAnother(baseline, f)
    PROVE  violation' \in Findings \cup {NoViolation} /\ NoFalseAccusation'
<1>1. violation' = violation \/ (b /\ violation' = f)
  BY DEF Record
<1>2. CASE violation' = violation
  BY <1>2 DEF TypeOK, NoFalseAccusation
<1>3. CASE b /\ violation' = f
  BY <1>3 DEF NoFalseAccusation, Lacks
<1> QED BY <1>1, <1>2, <1>3

LEMMA RestoredAccounts ==
    ASSUME NEW l \in Ledgers, NEW l2 \in Ledgers, NEW K
    PROVE  /\ RestoreAccounts(l2, SaveAccounts(l, K)) \in Ledgers
           /\ \A k \in Keys : RestoreAccounts(l2, SaveAccounts(l, K))[k] \in {l[k], l2[k]}
<1>1. \A k \in Keys : RestoreAccounts(l2, SaveAccounts(l, K))[k] \in {l[k], l2[k]}
  BY DEF RestoreAccounts, SaveAccounts
<1>2. \A k \in Keys : RestoreAccounts(l2, SaveAccounts(l, K))[k] \in Account \cup {Missing}
  BY <1>1 DEF Ledgers
<1> QED BY <1>1, <1>2 DEF RestoreAccounts, Ledgers

LEMMA CleanedAccounts ==
    ASSUME NEW l \in Ledgers, NEW K
    PROVE  /\ CleanupTempAccounts(l, K) \in Ledgers
           /\ \A k \in Keys \ K : CleanupTempAccounts(l, K)[k] = l[k]
BY LedgerAssumption DEF CleanupTempAccounts, Inert, Account, Ledgers

\* A send from a ledger that agrees with `l' on the fixture keeps their contexts.
LEMMA SentBound ==
    ASSUME NEW l \in Ledgers, Bound(l), NEW x, NEW metas, NEW keypairs,
           NEW out \in Sends(l, x, metas, keypairs)
    PROVE  Bound(out.ledger)
BY Sent DEF Bound

LEMMA TamperedSound ==
    ASSUME WellFormedFixture, SoundInv, NEW a, a.ix \in Ixs,
           NEW armed \in Ledgers, Bound(armed), NEW metas, NEW keypairs,
           NEW watched, NEW temps \in SUBSET TemporaryKeys,
           Tampered(a, armed, metas, keypairs, watched, temps),
           Finding(a.kind, a.ix, a.slots) \in Findings,
           Accepts(armed, a.ix, metas) => \E i \in a.slots : Lacks(a.kind, a.ix, i)
    PROVE  SoundInv'
<1>1. PICK out \in Sends(armed, a.ix, metas, keypairs) :
        LET saves == SaveAccounts(ledger, watched)
            changed == HashAccountsNow(out.ledger, watched) # saves
        IN  /\ violation' = (IF out.ok /\ changed
                              THEN Record(Finding(a.kind, a.ix, a.slots)) ELSE violation)
            /\ ledger' = CleanupTempAccounts(RestoreAccounts(out.ledger, saves), temps)
            /\ Execute(a.ix, out)
            /\ todo' = todo \ {a}
            /\ UNCHANGED <<phase, reached, baseline, params>>
  BY Zenon DEF Tampered
<1> DEFINE saves == SaveAccounts(ledger, watched)
           changed == HashAccountsNow(out.ledger, watched) # saves
           restored == RestoreAccounts(out.ledger, saves)
<1>2. /\ out.ledger \in Ledgers /\ ledger \in Ledgers
      /\ out.ok => Accepts(armed, a.ix, metas)
      /\ Bound(out.ledger) /\ Bound(ledger)
  BY Sent, SentBound DEF SoundInv, TypeOK
<1>3. restored \in Ledgers /\ \A k \in Keys : restored[k] \in {ledger[k], out.ledger[k]}
  BY <1>2, RestoredAccounts
<1>4. violation' \in Findings \cup {NoViolation} /\ NoFalseAccusation'
  <2> DEFINE b == out.ok /\ changed
             f == Finding(a.kind, a.ix, a.slots)
  <2>1. f.kind = a.kind /\ f.ix = a.ix /\ f.slots = a.slots
    BY DEF Finding
  <2>2. b => \E i \in f.slots : Lacks(f.kind, f.ix, i)
    BY <1>2, <2>1
  <2>3. violation' = (IF b THEN Record(f) ELSE violation) /\ enforced' = enforced
        /\ baseline' = baseline
    BY <1>1 DEF params
  <2> HIDE DEF b, f
  <2>4. f \in Findings
    BY DEF f
  <2> QED BY <2>2, <2>3, <2>4, RecordedRightly DEF SoundInv
<1> HIDE DEF saves, restored, changed
<1>5. ledger' = CleanupTempAccounts(restored, temps)
  BY <1>1 DEF saves, restored
<1>6. ledger' \in Ledgers /\ \A k \in Keys \ temps : ledger'[k] = restored[k]
  BY <1>3, <1>5, CleanedAccounts
<1>7. Bound(ledger')
  <2>1. ASSUME NEW k \in FixtureKeys \cap Keys PROVE k \notin temps
    BY DEF WellFormedFixture
  <2> QED BY <1>2, <1>3, <1>6, <2>1 DEF Bound, Present
<1>8. TypeOK'
  BY <1>1, <1>4, <1>6, AttemptsStay DEF SoundInv, TypeOK, Execute, params
<1> QED BY <1>4, <1>7, <1>8 DEF SoundInv, Bound, Present

LEMMA ReplayedSound ==
    ASSUME WellFormedFixture, SoundInv, NEW a, a.ix \in Ixs,
           NEW out \in CanonicalSends(a.ix), Replayed(a, out),
           violation' \in Findings \cup {NoViolation}, NoFalseAccusation'
    PROVE  SoundInv'
<1> DEFINE restored == RestoreAccounts(out.ledger, SaveAccounts(ledger, CanonicalKeys(a.ix)))
<1>1. /\ out.ledger \in Ledgers /\ ledger \in Ledgers /\ out.ok \in BOOLEAN
      /\ Bound(out.ledger) /\ Bound(ledger)
  BY Sent, SentBound DEF SoundInv, TypeOK, CanonicalSends
<1>2. restored \in Ledgers /\ \A k \in Keys : restored[k] \in {ledger[k], out.ledger[k]}
  BY <1>1, RestoredAccounts
<1> HIDE DEF restored
<1>3. ledger' = restored
  BY DEF Replayed, restored
<1>4. Bound(ledger')
  BY <1>1, <1>2, <1>3 DEF Bound, Present
<1>5. TypeOK'
  BY <1>2, <1>3, AttemptsStay DEF Replayed, RecordIxReached, SoundInv, TypeOK, Execute, params
<1> QED BY <1>4, <1>5 DEF SoundInv, Bound, Present

LEMMA SkipSound ==
    ASSUME SoundInv, NEW a, Skip(a)
    PROVE  SoundInv'
BY AttemptsStay DEF Skip, SoundInv, TypeOK, Bound, Present, NoFalseAccusation, params

LEMMA FindingTyped ==
    ASSUME NEW kind \in CheckKinds, NEW x \in Ixs, NEW slots \in SUBSET (Slots(x) \cup {0})
    PROVE  Finding(kind, x, slots) \in Findings
<1>1. Slots(x) \subseteq Nat
  BY VictimAssumption DEF IsInstructionSpec, Slots
<1> QED BY <1>1 DEF Finding, Findings

LEMMA ForgedSound ==
    ASSUME WellFormedFixture, SoundInv, NEW a, a.ix \in Ixs, a.kind \in CheckKinds,
           a.slots \subseteq Slots(a.ix), NEW i \in a.slots, NEW fake \in Account,
           Forged(a, i, fake),
           \A l : l[FakeKey] = fake /\ Accepts(l, a.ix, Substituted(a.ix, i, FakeKey)) =>
                   Lacks(a.kind, a.ix, i)
    PROVE  SoundInv'
<1> DEFINE armed == [ledger EXCEPT ![FakeKey] = fake]
<1>1. CASE Skip(a)
  BY <1>1, SkipSound
<1>2. CASE Tampered(a, armed, Substituted(a.ix, i, FakeKey), Instr[a.ix].signers,
                    CanonicalKeys(a.ix), {FakeKey})
  <2>1. armed \in Ledgers /\ armed[FakeKey] = fake
    BY DEF SoundInv, TypeOK, Ledgers, WellFormedFixture
  <2>2. Bound(armed)
    <3>1. FakeKey \notin FixtureKeys
      BY DEF WellFormedFixture, TemporaryKeys
    <3>2. ledger \in Ledgers /\ Bound(ledger)
      BY DEF SoundInv, TypeOK
    <3>3. \A k \in FixtureKeys \cap Keys : armed[k] = ledger[k]
      BY <3>1, <3>2 DEF Ledgers
    <3> QED BY <3>2, <3>3 DEF Bound, Present
  <2>3. {FakeKey} \in SUBSET TemporaryKeys
    BY DEF TemporaryKeys
  <2>4. Finding(a.kind, a.ix, a.slots) \in Findings
    BY FindingTyped
  <2> HIDE DEF armed
  <2>5. Accepts(armed, a.ix, Substituted(a.ix, i, FakeKey)) => Lacks(a.kind, a.ix, i)
    BY <2>1
  <2> QED BY <1>2, <2>1, <2>2, <2>3, <2>4, <2>5, TamperedSound
<1> QED BY <1>1, <1>2 DEF Forged

-----------------------------------------------------------------------------
(* Every step, detector by detector.                                       *)

LEMMA SignerSkipSound ==
    ASSUME WellFormedFixture, SoundInv, SignerSkip
    PROVE  SoundInv'
<1>1. PICK a \in todo : a.kind = "signer-skip" /\ \E i \in a.slots :
        Tampered(a, ledger, [Instr[a.ix].accounts EXCEPT ![i].signer = FALSE],
                 Instr[a.ix].signers \ {KeyAt(a.ix, i)}, CanonicalKeys(a.ix), {})
  BY DEF SignerSkip, Taken
<1>2. PICK i \in a.slots :
        Tampered(a, ledger, [Instr[a.ix].accounts EXCEPT ![i].signer = FALSE],
                 Instr[a.ix].signers \ {KeyAt(a.ix, i)}, CanonicalKeys(a.ix), {})
  BY <1>1
<1>3. a \in Attempts /\ harness \in Harnesses
  BY DEF SoundInv, TypeOK
<1>4. a.ix \in Ixs /\ a.slots \subseteq Slots(a.ix)
  BY <1>1, <1>3, AttemptShape
<1>5. Finding(a.kind, a.ix, a.slots) \in Findings
  BY <1>1, <1>4, FindingTyped DEF CheckKinds
<1>6. Accepts(ledger, a.ix, [Instr[a.ix].accounts EXCEPT ![i].signer = FALSE]) =>
         Lacks(a.kind, a.ix, i)
  BY <1>1, <1>3, SignerRejected
<1> QED BY <1>2, <1>4, <1>5, <1>6, TamperedSound DEF SoundInv, TypeOK

LEMMA OwnerSkipSound ==
    ASSUME WellFormedFixture, SoundInv, OwnerSkip
    PROVE  SoundInv'
<1>1. PICK a \in todo : a.kind = "owner-skip" /\ \E i \in a.slots :
        IF ledger[KeyAt(a.ix, i)] = Missing THEN Skip(a)
        ELSE Forged(a, i, [ledger[KeyAt(a.ix, i)] EXCEPT !.owner = a.what])
  BY DEF OwnerSkip, Taken
<1>2. a \in Attempts /\ a.kind \in CheckKinds /\ harness \in Harnesses
  BY <1>1 DEF SoundInv, TypeOK, CheckKinds
<1>3. a.ix \in Ixs /\ a.slots \subseteq Slots(a.ix) /\ a.what \in Owners
  <2>1. a \in OwnerSkipAttempts(a.ix)
    BY <1>1, <1>2, KindShape
  <2>2. a.what \in {SystemProgram, Stranger}
    BY <2>1 DEF OwnerSkipAttempts, Attempt
  <2> QED BY <1>1, <1>2, <2>2, AttemptShape, LedgerAssumption DEF WellFormedFixture
<1>4. ASSUME NEW i \in a.slots,
             IF ledger[KeyAt(a.ix, i)] = Missing THEN Skip(a)
             ELSE Forged(a, i, [ledger[KeyAt(a.ix, i)] EXCEPT !.owner = a.what])
      PROVE  SoundInv'
  <2>1. CASE ledger[KeyAt(a.ix, i)] = Missing
    BY <1>4, <2>1, SkipSound
  <2>2. CASE ledger[KeyAt(a.ix, i)] # Missing
    <3> DEFINE fake == [ledger[KeyAt(a.ix, i)] EXCEPT !.owner = a.what]
    <3>1. ledger[KeyAt(a.ix, i)] \in Account
      BY <1>3, <2>2, FixtureKeysAreKeys, FixtureHolds
         DEF SoundInv, TypeOK, Ledgers, CanonicalKeys
    <3>2. fake \in Account /\ fake.owner = a.what
      BY <1>3, <3>1 DEF Account
    <3>3. Forged(a, i, fake)
      BY <1>4, <2>2
    <3> HIDE DEF fake
    <3>4. \A l : l[FakeKey] = fake /\ Accepts(l, a.ix, Substituted(a.ix, i, FakeKey)) =>
                   Lacks(a.kind, a.ix, i)
      BY <1>1, <1>2, <3>2, OwnerRejected
    <3> QED BY <1>2, <1>3, <3>2, <3>3, <3>4, ForgedSound
  <2> QED BY <2>1, <2>2
<1> QED BY <1>1, <1>4

LEMMA DiscriminatorSkipSound ==
    ASSUME WellFormedFixture, SoundInv, DiscriminatorSkip
    PROVE  SoundInv'
<1>1. PICK a \in todo : a.kind = "discriminator-skip" /\ \E i \in a.slots :
        \/ Skip(a)
        \/ /\ ledger[KeyAt(a.ix, i)] # Missing
           /\ Forged(a, i, [ledger[KeyAt(a.ix, i)] EXCEPT !.disc = a.what])
  BY DEF DiscriminatorSkip, Taken
<1>2. a \in Attempts /\ a.kind \in CheckKinds /\ harness \in Harnesses
  BY <1>1 DEF SoundInv, TypeOK, CheckKinds
<1>3. a.ix \in Ixs /\ a.slots \subseteq Slots(a.ix) /\ a.what \in Discs
  <2>1. a \in DiscriminatorSkipAttempts(a.ix)
    BY <1>1, <1>2, KindShape
  <2>2. a.what \in WrongDiscriminators
    BY <2>1 DEF DiscriminatorSkipAttempts, Attempt
  <2> QED BY <1>1, <1>2, <2>2, AttemptShape DEF WellFormedFixture
<1>4. CASE Skip(a)
  BY <1>4, SkipSound
<1>5. ASSUME NEW i \in a.slots, ledger[KeyAt(a.ix, i)] # Missing,
             Forged(a, i, [ledger[KeyAt(a.ix, i)] EXCEPT !.disc = a.what])
      PROVE  SoundInv'
  <2> DEFINE fake == [ledger[KeyAt(a.ix, i)] EXCEPT !.disc = a.what]
  <2>1. ledger[KeyAt(a.ix, i)] \in Account
    BY <1>3, <1>5, FixtureKeysAreKeys, FixtureHolds
       DEF SoundInv, TypeOK, Ledgers, CanonicalKeys
  <2>2. fake \in Account /\ fake.disc = a.what
    BY <1>3, <2>1 DEF Account
  <2>3. Forged(a, i, fake)
    BY <1>5
  <2> HIDE DEF fake
  <2>4. \A l : l[FakeKey] = fake /\ Accepts(l, a.ix, Substituted(a.ix, i, FakeKey)) =>
                 Lacks(a.kind, a.ix, i)
    BY <1>1, <1>2, <2>2, DiscriminatorRejected
  <2> QED BY <1>2, <1>3, <2>2, <2>3, <2>4, ForgedSound
<1> QED BY <1>1, <1>4, <1>5

LEMMA PdaForgeSound ==
    ASSUME WellFormedFixture, SoundInv, PdaForge
    PROVE  SoundInv'
<1>1. PICK a \in todo : a.kind = "pda-forge" /\ \E i \in a.slots :
        \/ Skip(a)
        \/ ledger[KeyAt(a.ix, i)] # Missing /\ Forged(a, i, ledger[KeyAt(a.ix, i)])
  BY DEF PdaForge, Taken
<1>2. a \in Attempts /\ a.kind \in CheckKinds /\ harness \in Harnesses
  BY <1>1 DEF SoundInv, TypeOK, CheckKinds
<1>3. a.ix \in Ixs /\ a.slots \subseteq Slots(a.ix)
  BY <1>1, <1>2, AttemptShape
<1>4. CASE Skip(a)
  BY <1>4, SkipSound
<1>5. ASSUME NEW i \in a.slots, ledger[KeyAt(a.ix, i)] # Missing,
             Forged(a, i, ledger[KeyAt(a.ix, i)])
      PROVE  SoundInv'
  <2>1. ledger[KeyAt(a.ix, i)] \in Account
    BY <1>3, <1>5, FixtureKeysAreKeys, FixtureHolds
       DEF SoundInv, TypeOK, Ledgers, CanonicalKeys
  <2>2. \A l : Accepts(l, a.ix, Substituted(a.ix, i, FakeKey)) => Lacks(a.kind, a.ix, i)
    BY <1>1, <1>2, ForgeRejected
  <2> QED BY <1>2, <1>3, <1>5, <2>1, <2>2, ForgedSound
<1> QED BY <1>1, <1>4, <1>5

LEMMA AccountSwapSound ==
    ASSUME WellFormedFixture, SoundInv, AccountSwap
    PROVE  SoundInv'
<1>1. PICK a \in todo : a.kind = "account-swap" /\
        (IF Malformed(a.ix, a.what)
         THEN /\ todo' = todo \ {a}
              /\ violation' = IF a.declared
                     THEN Record(Finding("account-swap-config", a.ix, a.slots))
                     ELSE violation
              /\ UNCHANGED <<ledger, phase, reached, baseline, executed, params>>
         ELSE \E keypairs :
                Tampered(a, ledger, SwappedMetas(a.ix, a.what), keypairs,
                         TouchedKeys(a.ix, SwappedMetas(a.ix, a.what)), {}))
  BY Zenon DEF AccountSwap, Taken
<1>2. a \in Attempts /\ a \in AccountSwapAttempts /\ harness \in Harnesses
  BY <1>1, NotASwap DEF SoundInv, TypeOK
<1>3. CASE Malformed(a.ix, a.what)
  <2> DEFINE f == Finding("account-swap-config", a.ix, a.slots)
  <2>1. a.declared => f \in Findings
    <3>1. ASSUME a.declared
          PROVE  a.ix \in {s.ix : s \in SwapSets} /\ a.slots \subseteq Nat
      <4>1. PICK s \in SwapSets : a.ix = s.ix /\ a.slots = {p[1] : p \in s.swaps}
        BY <1>2, <3>1, SwapShape
      <4>2. s.swaps \subseteq Nat \X Keys
        BY DEF WellFormedFixture
      <4> QED BY <4>1, <4>2
    <3> QED BY <3>1 DEF Finding, Findings
  <2>2. f.kind \notin CheckKinds
    BY DEF Finding, CheckKinds
  <2>3. violation' = (IF a.declared THEN Record(f) ELSE violation) /\ enforced' = enforced
        /\ baseline' = baseline
    BY <1>1, <1>3 DEF params
  <2> HIDE DEF f
  <2>4. violation' \in Findings \cup {NoViolation} /\ NoFalseAccusation'
    BY <2>1, <2>2, <2>3, RecordedRightly DEF SoundInv
  <2>5. /\ todo' \subseteq todo
        /\ UNCHANGED <<ledger, phase, reached, baseline, executed, params>>
    BY <1>1, <1>3
  <2> QED BY <2>4, <2>5, AttemptsStay DEF SoundInv, TypeOK, Bound, Present, params
<1>4. CASE ~Malformed(a.ix, a.what)
  <2> DEFINE metas == SwappedMetas(a.ix, a.what)
             watched == TouchedKeys(a.ix, metas)
  <2>1. a.ix \in Ixs /\ a.slots \subseteq Nat
    <3>1. CASE \E i \in DOMAIN Instr[a.ix].swapAlternates :
               \E k \in Instr[a.ix].swapAlternates[i] :
                  a.slots = {i} /\ a.what = {<<i, k>>}
      <4>1. PICK i : \E k : a.slots = {i} /\ a.what = {<<i, k>>}
        BY <3>1
      <4>2. i \in Slots(a.ix) /\ a.ix \in Ixs
        BY <1>2, <1>4, <4>1, HarnessAssumption DEF Malformed
      <4>3. Slots(a.ix) \subseteq Nat
        BY <4>2, VictimAssumption DEF IsInstructionSpec, Slots
      <4> QED BY <4>1, <4>2, <4>3
    <3>2. CASE \E s \in SwapSets : a.slots = {p[1] : p \in s.swaps}
      BY <1>2, <1>4, <3>2, HarnessAssumption DEF WellFormedFixture, Malformed
    <3> QED BY <1>2, <3>1, <3>2, SwapShape
  <2>2. Finding(a.kind, a.ix, a.slots) \in Findings
    BY <1>1, <2>1 DEF Finding, Findings, CheckKinds
  <2>3. ledger \in Ledgers /\ Bound(ledger) /\ {} \in SUBSET TemporaryKeys
    BY DEF SoundInv, TypeOK
  <2>4. Accepts(ledger, a.ix, metas) => \E i \in a.slots : Lacks(a.kind, a.ix, i)
    BY <1>1, <1>2, <1>4, <2>3, SwapRejected
  <2>5. PICK keypairs : Tampered(a, ledger, metas, keypairs, watched, {})
    BY <1>1, <1>4
  <2> HIDE DEF metas, watched
  <2> QED BY <2>1, <2>2, <2>3, <2>4, <2>5, TamperedSound
<1> QED BY <1>3, <1>4

LEMMA BumpSeedSound ==
    ASSUME WellFormedFixture, SoundInv, BumpSeed
    PROVE  SoundInv'
<1>1. PICK a \in todo : a.kind = "bump-seed-canonicalization" /\ \E i \in a.slots :
        \/ Skip(a)
        \/ /\ ledger[KeyAt(a.ix, i)] # Missing
           /\ \E out \in Sends([ledger EXCEPT ![AltPda[a.ix][i]] = ledger[KeyAt(a.ix, i)]],
                               a.ix, Substituted(a.ix, i, AltPda[a.ix][i]),
                               Instr[a.ix].signers) :
                /\ ledger' = CleanupTempAccounts(out.ledger, {AltPda[a.ix][i]})
                /\ violation' = IF out.ok THEN Record(Finding(a.kind, a.ix, a.slots))
                                ELSE violation
                /\ todo' \subseteq todo
                /\ Execute(a.ix, out)
                /\ UNCHANGED <<phase, reached, baseline, params>>
  BY DEF BumpSeed, Taken
<1>2. a \in Attempts /\ harness \in Harnesses
  BY DEF SoundInv, TypeOK
<1>3. a.ix \in Ixs /\ a.slots \subseteq Slots(a.ix)
  BY <1>1, <1>2, AttemptShape
<1>4. CASE Skip(a)
  BY <1>4, SkipSound
<1>5. ASSUME NEW i \in a.slots, ledger[KeyAt(a.ix, i)] # Missing,
             NEW out \in Sends([ledger EXCEPT ![AltPda[a.ix][i]] = ledger[KeyAt(a.ix, i)]],
                               a.ix, Substituted(a.ix, i, AltPda[a.ix][i]),
                               Instr[a.ix].signers),
             /\ ledger' = CleanupTempAccounts(out.ledger, {AltPda[a.ix][i]})
             /\ violation' = IF out.ok THEN Record(Finding(a.kind, a.ix, a.slots))
                             ELSE violation
             /\ todo' \subseteq todo
             /\ Execute(a.ix, out)
             /\ UNCHANGED <<phase, reached, baseline, params>>
      PROVE  SoundInv'
  <2> DEFINE alt == AltPda[a.ix][i]
             armed == [ledger EXCEPT ![alt] = ledger[KeyAt(a.ix, i)]]
  <2>1. alt \in Keys /\ alt \in TemporaryKeys /\ alt \notin FixtureKeys
    <3>1. alt # Missing /\ alt \in Keys
      BY <1>1, <1>2, <1>3, AttemptShape, VictimAssumption
    <3> QED BY <1>3, <3>1 DEF TemporaryKeys, WellFormedFixture
  <2>2. ledger \in Ledgers /\ Bound(ledger)
    BY DEF SoundInv, TypeOK
  <2>3. ledger[KeyAt(a.ix, i)] \in Account
    BY <1>3, <1>5, FixtureKeysAreKeys, FixtureHolds
       DEF SoundInv, TypeOK, Ledgers, CanonicalKeys
  <2>4. armed \in Ledgers /\ \A k \in FixtureKeys \cap Keys : armed[k] = ledger[k]
    BY <2>1, <2>2, <2>3 DEF Ledgers
  <2>5. Bound(armed)
    BY <2>2, <2>4 DEF Bound, Present
  <2>6. out \in Sends(armed, a.ix, Substituted(a.ix, i, alt), Instr[a.ix].signers)
    OBVIOUS
  <2>7. ledger' = CleanupTempAccounts(out.ledger, {alt})
    BY <1>5
  <2>8. Accepts(armed, a.ix, Substituted(a.ix, i, alt)) => Lacks(a.kind, a.ix, i)
    BY <1>1, <1>2, BumpRejected
  <2> HIDE DEF armed, alt
  <2>9. /\ out.ledger \in Ledgers /\ Bound(out.ledger) /\ out.ok \in BOOLEAN
        /\ out.ok => Accepts(armed, a.ix, Substituted(a.ix, i, alt))
    BY <2>4, <2>5, <2>6, Sent, SentBound
  <2>10. ledger' \in Ledgers /\ \A k \in Keys \ {alt} : ledger'[k] = out.ledger[k]
    BY <2>7, <2>9, CleanedAccounts
  <2>11. Bound(ledger')
    BY <2>1, <2>9, <2>10 DEF Bound, Present
  <2>12. violation' \in Findings \cup {NoViolation} /\ NoFalseAccusation'
    <3> DEFINE f == Finding(a.kind, a.ix, a.slots)
    <3>1. f \in Findings
      BY <1>1, <1>3, FindingTyped DEF CheckKinds
    <3>2. out.ok => \E j \in f.slots : Lacks(f.kind, f.ix, j)
      BY <2>8, <2>9 DEF Finding
    <3>3. violation' = (IF out.ok THEN Record(f) ELSE violation) /\ enforced' = enforced
        /\ baseline' = baseline
      BY <1>5 DEF params
    <3> HIDE DEF f
    <3> QED BY <3>1, <3>2, <3>3, RecordedRightly DEF SoundInv
  <2>13. TypeOK'
    BY <1>3, <1>5, <2>9, <2>10, <2>12, AttemptsStay DEF SoundInv, TypeOK, Execute, params
  <2> QED BY <2>11, <2>12, <2>13 DEF SoundInv, Bound, Present
<1> QED BY <1>1, <1>4, <1>5

\* A detector that asks one yes-or-no question of the whole instruction.
LEMMA FaultSound ==
    ASSUME WellFormedFixture, SoundInv, NEW a \in todo, NEW kind, a.kind = kind,
           kind \in {"cu-dos", "realloc-race", "cpi-reentrancy"},
           NEW out \in CanonicalSends(a.ix), NEW fault, Faulty(kind, a.ix, fault),
           NEW b, b => fault,
           violation' = (IF b THEN Record(Finding(kind, a.ix, {0})) ELSE violation),
           Replayed(a, out)
    PROVE  SoundInv'
<1>1. a.ix \in Ixs
  BY AttemptShape DEF SoundInv, TypeOK
<1> DEFINE f == Finding(kind, a.ix, {0})
<1>2. f \in Findings
  BY <1>1, FindingTyped DEF CheckKinds
<1>3. b => \E i \in f.slots : Lacks(f.kind, f.ix, i)
  BY DEF Faulty, Finding, Lacks
<1>4. violation' = (IF b THEN Record(f) ELSE violation) /\ enforced' = enforced
        /\ baseline' = baseline
  BY DEF Replayed, params
<1> HIDE DEF f
<1>5. violation' \in Findings \cup {NoViolation} /\ NoFalseAccusation'
  BY <1>2, <1>3, <1>4, RecordedRightly DEF SoundInv
<1> QED BY <1>1, <1>5, ReplayedSound

LEMMA PreconditionSkipSound ==
    ASSUME WellFormedFixture, SoundInv, PreconditionSkip
    PROVE  SoundInv'
<1>1. PICK a \in todo : a.kind = "precondition-skip" /\ \E out \in CanonicalSends(a.ix) :
        /\ \/ violation' = violation
           \/ /\ out.ok
              /\ \E i \in BrokenGuards(ledger, a.ix) :
                   violation' = Record(Finding("precondition-skip", a.ix, {i}))
        /\ Replayed(a, out)
  BY DEF PreconditionSkip, Taken
<1>2. PICK out \in CanonicalSends(a.ix) :
        /\ \/ violation' = violation
           \/ /\ out.ok
              /\ \E i \in BrokenGuards(ledger, a.ix) :
                   violation' = Record(Finding("precondition-skip", a.ix, {i}))
        /\ Replayed(a, out)
  BY <1>1
<1>3. a.ix \in Ixs /\ enforced' = enforced
        /\ baseline' = baseline
  BY <1>1, <1>2, AttemptShape DEF SoundInv, TypeOK, Replayed, params
<1>4. CASE violation' = violation
  BY <1>2, <1>3, <1>4, ReplayedSound DEF SoundInv, TypeOK, NoFalseAccusation
<1>5. ASSUME out.ok, NEW i \in BrokenGuards(ledger, a.ix),
             violation' = Record(Finding("precondition-skip", a.ix, {i}))
      PROVE  SoundInv'
  <2> DEFINE f == Finding("precondition-skip", a.ix, {i})
             c == [kind |-> "precondition-skip", slot |-> i]
  <2>1. i \in Slots(a.ix)
    BY DEF BrokenGuards
  <2>2. f \in Findings
    BY <1>3, <2>1, FindingTyped DEF CheckKinds
  <2>3. Accepts(ledger, a.ix, Instr[a.ix].accounts)
    BY <1>5, Sent DEF SoundInv, TypeOK, CanonicalSends
  <2>4. c.kind = "precondition-skip" /\ c.slot = i
    OBVIOUS
  <2>5. ~Passes(ledger, a.ix, Instr[a.ix].accounts, c)
    BY <2>4 DEF Passes, BrokenGuards, KeyAt
  <2>6. Lacks(f.kind, f.ix, i) /\ i \in f.slots
    BY <2>3, <2>5 DEF Accepts, Lacks, Finding
  <2> HIDE DEF f, c
  <2>7. violation' = (IF TRUE THEN Record(f) ELSE violation)
    BY <1>5 DEF f
  <2>8. violation' \in Findings \cup {NoViolation} /\ NoFalseAccusation'
    BY <1>3, <2>2, <2>6, <2>7, RecordedRightly DEF SoundInv
  <2> QED BY <1>2, <1>3, <2>8, ReplayedSound
<1> QED BY <1>2, <1>4, <1>5

\* What a finding of a program that keeps its invariants comes down to: a bound
\* that did not hold before the send.
LEMMA OnlyBounds ==
    ASSUME NEW inv, IsStateInvariant(inv), NEW pre, NEW post,
           Keeps(inv, pre, post), Violated(inv, pre, post)
    PROVE  inv.kind = "Bounded" /\ pre \notin inv.holds
<1>1. CASE inv.kind = "Bounded"
  BY <1>1 DEF Keeps, Violated
<1>2. CASE inv.kind = "Relation"
  BY <1>2 DEF Keeps, Violated
<1>3. CASE inv.kind \in {"Monotonic", "SumConservation"}
  <2>1. <<pre, post>> \in inv.steps
    BY <1>3 DEF Keeps
  <2>2. <<pre, post>> \notin inv.steps
    BY <1>3 DEF Violated
  <2> QED BY <2>1, <2>2
<1> QED BY <1>1, <1>2, <1>3 DEF IsStateInvariant, StateInvariantKinds

\* The accounts of an invariant read as they did when the body began, as long as
\* nothing was reported.
LEMMA ReadsAsFound ==
    ASSUME WellFormedFixture, RestoringInv, violation = NoViolation,
           NEW x \in Ixs, NEW n \in DOMAIN Instr[x].invariants,
           Readable(baseline, Instr[x].accounts, Instr[x].invariants[n])
    PROVE  Image(ledger, Instr[x].accounts, Instr[x].invariants[n])
             = Image(baseline, Instr[x].accounts, Instr[x].invariants[n])
<1> DEFINE inv == Instr[x].invariants[n]
           metas == Instr[x].accounts
<1>1. ASSUME NEW i \in inv.accounts
      PROVE  ledger[metas[i].key].val = baseline[metas[i].key].val
  <2>1. i \in Slots(x) /\ metas[i].key = KeyAt(x, i) /\ Present(baseline, KeyAt(x, i))
    BY DEF Readable, Slots, KeyAt
  <2>2. KeyAt(x, i) # FeePayer
    BY <2>1 DEF WellFormedFixture
  <2>3. KeyAt(x, i) \in Keys
    BY <2>1, VictimAssumption DEF IsInstructionSpec, Slots, KeyAt, Meta
  <2>4. ledger[KeyAt(x, i)] = baseline[KeyAt(x, i)]
    BY <2>1, <2>2, <2>3 DEF RestoringInv, BodyRestores
  <2> QED BY <2>1, <2>4
<1> HIDE DEF inv, metas
<1>2. Image(ledger, metas, inv) = Image(baseline, metas, inv)
  BY <1>1 DEF Image
<1> QED BY <1>2 DEF inv, metas

LEMMA UncheckedMathSound ==
    ASSUME WellFormedFixture, SoundInv, RestoringInv, UncheckedMath
    PROVE  SoundInv'
<1> DEFINE inv(a, n) == Instr[a.ix].invariants[n]
           before(a, n) == Image(ledger, Instr[a.ix].accounts, inv(a, n))
           after(a, n, out) == Image(out.ledger, Instr[a.ix].accounts, inv(a, n))
           broken(a, n, out) == /\ out.ok
                                /\ Readable(out.ledger, Instr[a.ix].accounts, inv(a, n))
                                /\ Violated(inv(a, n), before(a, n), after(a, n, out))
           Compared(a, n, out) ==
             /\ violation' = (IF broken(a, n, out)
                              THEN Record(Finding("unchecked-math", a.ix, {n}))
                              ELSE violation)
             /\ Replayed(a, out)
<1>1. PICK a \in todo : a.kind = "unchecked-math" /\ \E n \in a.slots :
        \/ Skip(a)
        \/ /\ Readable(ledger, Instr[a.ix].accounts, inv(a, n))
           /\ \E out \in CanonicalSends(a.ix) : Compared(a, n, out)
  BY Zenon DEF UncheckedMath, Taken
<1>2. a.ix \in Ixs /\ a.slots \subseteq DOMAIN Instr[a.ix].invariants
  <2>1. a \in Attempts /\ harness \in Harnesses
    BY DEF SoundInv, TypeOK
  <2>2. a.ix \in Ixs /\ a \in UncheckedMathAttempts(a.ix)
    BY <1>1, <2>1, KindShape
  <2> QED BY <2>2 DEF UncheckedMathAttempts, Attempt
<1>3. CASE Skip(a)
  BY <1>3, SkipSound
<1>4. ASSUME NEW n \in a.slots, Readable(ledger, Instr[a.ix].accounts, inv(a, n)),
             NEW out \in CanonicalSends(a.ix), Compared(a, n, out)
      PROVE  SoundInv'
  <2> DEFINE f == Finding("unchecked-math", a.ix, {n})
             c == [kind |-> "unchecked-math", slot |-> n]
             b == violation = NoViolation /\ broken(a, n, out)
  <2>1. f.kind = "unchecked-math" /\ f.ix = a.ix /\ f.slots = {n}
    BY DEF Finding
  <2>2. f \in Findings
    <3>1. n \in Nat
      BY <1>2, VictimAssumption DEF IsInstructionSpec
    <3> QED BY <1>2, <3>1 DEF Finding, Findings, CheckKinds
  <2>3. out.ok => Respects(a.ix, Instr[a.ix].accounts, ledger, out.ledger)
    BY Sent DEF SoundInv, TypeOK, CanonicalSends
  <2>4. c.kind = "unchecked-math" /\ c.slot = n
    OBVIOUS
  <2>5. b => Lacks("unchecked-math", a.ix, n) \/ BlamesAnother(baseline, f)
    <3>1. SUFFICES ASSUME b, c \in enforced[a.ix] PROVE BlamesAnother(baseline, f)
      BY DEF Lacks
    <3>2. Keeps(inv(a, n), before(a, n), after(a, n, out))
      BY <1>4, <2>3, <2>4, <3>1 DEF Respects
    <3>3. IsStateInvariant(inv(a, n))
      BY <1>2, VictimAssumption DEF IsInstructionSpec
    <3>4. inv(a, n).kind = "Bounded" /\ before(a, n) \notin inv(a, n).holds
      <4>1. Violated(inv(a, n), before(a, n), after(a, n, out))
        BY <3>1
      <4> HIDE DEF inv, before, after
      <4> QED BY <3>2, <3>3, <4>1, OnlyBounds
    <3>5. Readable(baseline, Instr[a.ix].accounts, inv(a, n)) =>
             Image(baseline, Instr[a.ix].accounts, inv(a, n)) \notin inv(a, n).holds
      BY <1>2, <3>1, <3>4, ReadsAsFound
    <3> QED BY <2>1, <3>4, <3>5 DEF BlamesAnother
  <2>6. b /\ f.kind \in CheckKinds =>
           (\E j \in f.slots : Lacks(f.kind, f.ix, j)) \/ BlamesAnother(baseline, f)
    BY <2>1, <2>5
  <2>7. /\ violation' = (IF b THEN Record(f) ELSE violation)
        /\ Replayed(a, out)
        /\ enforced' = enforced /\ baseline' = baseline
    <3>1. Compared(a, n, out)
      BY <1>4
    <3> HIDE DEF broken
    <3> QED BY <3>1 DEF Record, Replayed, params
  <2> HIDE DEF f, c, b, Compared, broken
  <2>8. violation' \in Findings \cup {NoViolation} /\ NoFalseAccusation'
    BY <2>2, <2>6, <2>7, RecordedRightly DEF SoundInv
  <2> QED BY <1>2, <2>7, <2>8, ReplayedSound
<1> QED BY <1>1, <1>3, <1>4

\* A violation is recorded only while a body runs.
Quiet == phase = "ready" => violation = NoViolation

\* Every attempt is made by a running body and leaves it running.
LEMMA BodyKeepsPhase ==
    ASSUME Body, ~EndBody
    PROVE  phase = "body" /\ phase' = phase
<1> USE DEF Taken
<1>1. CASE SignerSkip
  BY <1>1 DEF SignerSkip, Tampered
<1>2. CASE OwnerSkip
  BY <1>2 DEF OwnerSkip, Forged, Tampered, Skip
<1>3. CASE DiscriminatorSkip
  BY <1>3 DEF DiscriminatorSkip, Forged, Tampered, Skip
<1>4. CASE PdaForge
  BY <1>4 DEF PdaForge, Forged, Tampered, Skip
<1>5. CASE AccountSwap
  BY <1>5 DEF AccountSwap, Tampered
<1>6. CASE BumpSeed
  BY <1>6 DEF BumpSeed, Skip
<1>7. CASE CuDos \/ ReallocRace \/ CpiReentrancy \/ PreconditionSkip
  BY <1>7 DEF CuDos, ReallocRace, CpiReentrancy, PreconditionSkip, Replayed
<1>8. CASE UncheckedMath
  BY <1>8 DEF UncheckedMath, Replayed, Skip
<1> QED BY <1>1, <1>2, <1>3, <1>4, <1>5, <1>6, <1>7, <1>8 DEF Body

LEMMA QuietNext ==
    ASSUME Quiet, [Next]_vars
    PROVE  Quiet'
<1>1. CASE Body /\ ~EndBody
  BY <1>1, BodyKeepsPhase DEF Quiet
<1>2. CASE EndBody
  BY <1>2 DEF EndBody, Quiet
<1>3. CASE FuzzAction
  BY <1>3 DEF FuzzAction, Quiet
<1>4. CASE NewIteration
  BY <1>4 DEF NewIteration, Quiet
<1>5. CASE UNCHANGED vars
  BY <1>5 DEF vars, Quiet
<1> QED BY <1>1, <1>2, <1>3, <1>4, <1>5 DEF Next

LEMMA FuzzActionSound ==
    ASSUME WellFormedFixture, SoundInv, Quiet, FuzzAction
    PROVE  SoundInv'
<1>0. PICK x \in Ixs : \E out \in CanonicalSends(x) :
        /\ ledger' = out.ledger /\ baseline' = out.ledger
        /\ Execute(x, out)
        /\ phase' = "body" /\ todo' = Attempts
        /\ IF ActionsRecord THEN RecordIxReached(x, out) ELSE UNCHANGED reached
        /\ UNCHANGED <<violation, params>>
        /\ phase = "ready"
  BY HarnessAssumption DEF FuzzAction, SoundInv, TypeOK
<1>1. PICK out \in CanonicalSends(x) :
        /\ ledger' = out.ledger /\ baseline' = out.ledger
        /\ Execute(x, out)
        /\ phase' = "body" /\ todo' = Attempts
        /\ IF ActionsRecord THEN RecordIxReached(x, out) ELSE UNCHANGED reached
        /\ UNCHANGED <<violation, params>>
        /\ phase = "ready"
  BY <1>0
<1>2. out.ledger \in Ledgers /\ Bound(out.ledger) /\ out.ok \in BOOLEAN
  BY <1>1, Sent, SentBound DEF SoundInv, TypeOK, CanonicalSends
<1>3. TypeOK'
  BY <1>1, <1>2, AttemptsStay DEF SoundInv, TypeOK, Execute, RecordIxReached, params
<1>4. violation' = NoViolation
  BY <1>1 DEF Quiet
<1> QED BY <1>1, <1>2, <1>3, <1>4 DEF SoundInv, Bound, Present, NoFalseAccusation

LEMMA CheckableAreChecks ==
    ASSUME NEW x \in Ixs
    PROVE  Checkable(x) \subseteq Check
<1>1. Slots(x) \subseteq Nat
  BY VictimAssumption DEF IsInstructionSpec, Slots
<1>2. DOMAIN Instr[x].invariants \subseteq Nat
  BY VictimAssumption DEF IsInstructionSpec
<1> QED BY <1>1, <1>2 DEF Checkable, Check, CheckKinds

-----------------------------------------------------------------------------
LEMMA SoundInit ==
    ASSUME WellFormedFixture, Init
    PROVE  SoundInv
<1>1. harness \in Harnesses /\ enforced \in [harness.ixs -> SUBSET Check]
  <2>1. /\ harness \in Harnesses
        /\ enforced \in [harness.ixs -> SUBSET UNION {Checkable(x) : x \in harness.ixs}]
        /\ \A x \in harness.ixs : enforced[x] \subseteq Checkable(x)
    BY DEF Init
  <2>2. ASSUME NEW x \in harness.ixs PROVE Checkable(x) \subseteq Check
    BY <2>1, HarnessAssumption, CheckableAreChecks
  <2> QED BY <2>1, <2>2
<1>2. Bound(Snapshot)
  BY DEF WellFormedFixture, Bound
<1> QED BY <1>1, <1>2 DEF Init, SoundInv, TypeOK, NoFalseAccusation, WellFormedFixture

LEMMA SoundNext ==
    ASSUME WellFormedFixture, SoundInv, RestoringInv, Quiet, [Next]_vars
    PROVE  SoundInv'
<1>1. CASE SignerSkip
  BY <1>1, SignerSkipSound
<1>2. CASE OwnerSkip
  BY <1>2, OwnerSkipSound
<1>3. CASE DiscriminatorSkip
  BY <1>3, DiscriminatorSkipSound
<1>4. CASE PdaForge
  BY <1>4, PdaForgeSound
<1>5. CASE AccountSwap
  BY <1>5, AccountSwapSound
<1>6. CASE BumpSeed
  BY <1>6, BumpSeedSound
<1>7. CASE CuDos
  <2>1. PICK a \in todo : a.kind = "cu-dos" /\
          \E out \in CanonicalSends(a.ix), fault \in BOOLEAN :
            /\ Faulty("cu-dos", a.ix, fault)
            /\ violation' = (IF out.ok /\ fault
                             THEN Record(Finding("cu-dos", a.ix, {0})) ELSE violation)
            /\ Replayed(a, out)
    BY <1>7 DEF CuDos, Taken
  <2> QED BY <2>1, FaultSound
<1>8. CASE ReallocRace
  <2>1. PICK a \in todo : a.kind = "realloc-race" /\
          \E out \in CanonicalSends(a.ix), fault \in BOOLEAN :
            /\ Faulty("realloc-race", a.ix, fault)
            /\ violation' = (IF fault THEN Record(Finding("realloc-race", a.ix, {0}))
                             ELSE violation)
            /\ Replayed(a, out)
    BY <1>8 DEF ReallocRace, Taken
  <2> QED BY <2>1, FaultSound
<1>9. CASE CpiReentrancy
  <2>1. PICK a \in todo : a.kind = "cpi-reentrancy" /\
          \E out \in CanonicalSends(a.ix), fault \in BOOLEAN :
            /\ Faulty("cpi-reentrancy", a.ix, fault)
            /\ violation' = (IF fault THEN Record(Finding("cpi-reentrancy", a.ix, {0}))
                             ELSE violation)
            /\ Replayed(a, out)
    BY <1>9 DEF CpiReentrancy, Taken
  <2> QED BY <2>1, FaultSound
<1>10. CASE PreconditionSkip
  BY <1>10, PreconditionSkipSound
<1>11. CASE UncheckedMath
  BY <1>11, UncheckedMathSound
<1>12. CASE EndBody
  BY <1>12, AttemptsStay DEF EndBody, SoundInv, TypeOK, Bound, Present, NoFalseAccusation, params
<1>13. CASE FuzzAction
  BY <1>13, FuzzActionSound
<1>14. CASE NewIteration
  <2>1. Bound(Snapshot)
    BY DEF WellFormedFixture, Bound
  <2> QED BY <1>14, <2>1, AttemptsStay DEF NewIteration, SoundInv, TypeOK, Bound, Present,
             NoFalseAccusation, params, WellFormedFixture
<1>15. CASE UNCHANGED vars
  BY <1>15, AttemptsStay DEF vars, params, SoundInv, TypeOK, Bound, Present, NoFalseAccusation
<1> QED BY <1>1, <1>2, <1>3, <1>4, <1>5, <1>6, <1>7, <1>8, <1>9, <1>10, <1>11,
           <1>12, <1>13, <1>14, <1>15 DEF Next, Body

\* Every variable keeps its type: the accounts a body works on are accounts,
\* and its attempts are ones a check() iterates over.
THEOREM TypesAlways ==
    ASSUME WellFormedFixture
    PROVE  Spec => []TypeOK
<1>1. Init => SoundInv /\ RestoringInv /\ Quiet
  BY SoundInit, RestoringInit DEF Init, Quiet
<1>2. SoundInv /\ RestoringInv /\ Quiet /\ [Next]_vars =>
        SoundInv' /\ RestoringInv' /\ Quiet'
  BY SoundNext, RestoringNext, QuietNext
<1>3. SoundInv => TypeOK
  BY DEF SoundInv
<1> QED BY <1>1, <1>2, <1>3, PTL DEF Spec

\* No detector reports a program that makes the check it looks for, whatever the
\* detectors and actions before it saved, forged, swapped or left behind, except
\* for a bound that did not hold when the body began.  It rests on
\* the bodies restoring what they found.
THEOREM NoFalseAccusationAlways ==
    ASSUME WellFormedFixture
    PROVE  Spec => []NoFalseAccusation
<1>1. Init => SoundInv /\ RestoringInv /\ Quiet
  BY SoundInit, RestoringInit DEF Init, Quiet
<1>2. SoundInv /\ RestoringInv /\ Quiet /\ [Next]_vars =>
        SoundInv' /\ RestoringInv' /\ Quiet'
  BY SoundNext, RestoringNext, QuietNext
<1>3. SoundInv => NoFalseAccusation
  BY DEF SoundInv
<1> QED BY <1>1, <1>2, <1>3, PTL DEF Spec


-----------------------------------------------------------------------------
(* What the reachability ledger names.                                     *)

\* What Tampered, Skip and Replayed do to the two sets.
LEMMA TamperedRecords ==
    ASSUME NEW a, NEW armed, NEW metas, NEW keypairs, NEW watched, NEW temps,
           Tampered(a, armed, metas, keypairs, watched, temps)
    PROVE  reached' = reached /\ executed \subseteq executed'
BY DEF Tampered, Execute

LEMMA ForgedRecords ==
    ASSUME NEW a, NEW i, NEW fake, Forged(a, i, fake)
    PROVE  reached' = reached /\ executed \subseteq executed'
<1>1. CASE Skip(a)
  BY <1>1 DEF Skip
<1>2. CASE Tampered(a, [ledger EXCEPT ![FakeKey] = fake],
                    Substituted(a.ix, i, FakeKey), Instr[a.ix].signers,
                    CanonicalKeys(a.ix), {FakeKey})
  BY <1>2, TamperedRecords
<1> QED BY <1>1, <1>2 DEF Forged

LEMMA ReplayedRecords ==
    ASSUME NEW a, NEW out, Replayed(a, out)
    PROVE  \/ reached' = reached /\ executed' = executed
           \/ reached' = reached \cup {a.ix} /\ executed' = executed \cup {a.ix}
BY DEF Replayed, RecordIxReached, Execute

\* A step of a tampering detector leaves the ledger alone.
LEMMA TamperingRecords ==
    ASSUME SignerSkip \/ OwnerSkip \/ DiscriminatorSkip \/ PdaForge
             \/ AccountSwap \/ BumpSeed
    PROVE  reached' = reached /\ executed \subseteq executed'
<1>1. CASE SignerSkip
  BY <1>1, TamperedRecords DEF SignerSkip
<1>2. CASE OwnerSkip
  <2>1. PICK a \in todo : Skip(a) \/ \E i, fake : Forged(a, i, fake)
    BY <1>2 DEF OwnerSkip
  <2> QED BY <2>1, ForgedRecords DEF Skip
<1>3. CASE DiscriminatorSkip
  <2>1. PICK a \in todo : Skip(a) \/ \E i, fake : Forged(a, i, fake)
    BY <1>3 DEF DiscriminatorSkip
  <2> QED BY <2>1, ForgedRecords DEF Skip
<1>4. CASE PdaForge
  <2>1. PICK a \in todo : Skip(a) \/ \E i, fake : Forged(a, i, fake)
    BY <1>4 DEF PdaForge
  <2> QED BY <2>1, ForgedRecords DEF Skip
<1>5. CASE AccountSwap
  <2>1. PICK a \in todo :
          \/ reached' = reached /\ executed' = executed
          \/ \E armed, metas, keypairs, watched, temps :
                Tampered(a, armed, metas, keypairs, watched, temps)
    BY <1>5 DEF AccountSwap
  <2> QED BY <2>1, TamperedRecords
<1>6. CASE BumpSeed
  <2>1. PICK a \in todo :
          \/ Skip(a)
          \/ reached' = reached /\ \E out : Execute(a.ix, out)
    BY <1>6 DEF BumpSeed
  <2> QED BY <2>1 DEF Skip, Execute
<1> QED BY <1>1, <1>2, <1>3, <1>4, <1>5, <1>6

LEMMA ReplayRecords ==
    ASSUME CuDos \/ ReallocRace \/ CpiReentrancy \/ PreconditionSkip \/ UncheckedMath
    PROVE  \/ reached' = reached /\ executed' = executed
           \/ \E x : reached' = reached \cup {x} /\ executed' = executed \cup {x}
<1>1. PICK a \in todo : Skip(a) \/ \E out : Replayed(a, out)
  BY DEF CuDos, ReallocRace, CpiReentrancy, PreconditionSkip, UncheckedMath
<1> QED BY <1>1, ReplayedRecords DEF Skip

\* The ledger names only instructions that were carried out, whichever
\* detectors run and whether or not the harness's actions record.
THEOREM ReachedWereExecutedAlways == Spec => []ReachedWereExecuted
<1>1. Init => ReachedWereExecuted
  BY DEF Init, ReachedWereExecuted
<1>2. ReachedWereExecuted /\ [Next]_vars => ReachedWereExecuted'
  <2> SUFFICES ASSUME ReachedWereExecuted, [Next]_vars
               PROVE  ReachedWereExecuted'
    OBVIOUS
  <2>1. CASE SignerSkip \/ OwnerSkip \/ DiscriminatorSkip \/ PdaForge
               \/ AccountSwap \/ BumpSeed
    BY <2>1, TamperingRecords DEF ReachedWereExecuted
  <2>2. CASE CuDos \/ ReallocRace \/ CpiReentrancy \/ PreconditionSkip \/ UncheckedMath
    BY <2>2, ReplayRecords DEF ReachedWereExecuted
  <2>3. CASE FuzzAction
    <3>1. PICK x : \E out :
            /\ Execute(x, out)
            /\ RecordIxReached(x, out) \/ reached' = reached
      BY <2>3 DEF FuzzAction
    <3> QED BY <3>1 DEF ReachedWereExecuted, Execute, RecordIxReached
  <2>4. CASE EndBody \/ NewIteration \/ UNCHANGED vars
    BY <2>4 DEF EndBody, NewIteration, vars, ReachedWereExecuted
  <2> QED BY <2>1, <2>2, <2>3, <2>4 DEF Next, Body
<1> QED BY <1>1, <1>2, PTL DEF Spec

=============================================================================
