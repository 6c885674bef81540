-------------------------------- MODULE Bench --------------------------------
(***************************************************************************)
(* The acceptance harnesses of examples/pinocchio-bench-fuzz/fuzz: each    *)
(* must find the bugs planted in its program, every bug by a test of its   *)
(* own.  An action of a harness notes what it finds, sends its instruction *)
(* and notes whether it landed; then the test's checks compare the         *)
(* accounts with the notes, and the first that fails ends the iteration.   *)
(* Here the program may have any subset of its plants.                     *)
(***************************************************************************)
EXTENDS Planted

CONSTANTS
    User,
    NextTick,                          \* the bytes that follow a tick's orders
    Prices, SamplePrice,               \* what orders are placed at
    Amounts, Deposits, Slots,          \* the ranges of the other actions
    InitialReserveIn, InitialReserveOut, InitialUserSrc, InitialUnderlying,
    Dust,                              \* what k may lose unseen
    NoViolation,
    MaxActions

\* The first CPI of a swap finds a pool that holds something.
ASSUME BenchAssumption ==
    /\ Prices \subseteq Nat /\ SamplePrice \in Nat
    /\ Amounts \subseteq Nat /\ Deposits \subseteq Nat /\ Slots \subseteq Nat
    /\ InitialReserveIn \in Nat \ {0} /\ InitialReserveOut \in Nat
    /\ InitialUserSrc \in Nat /\ InitialUnderlying \in Nat
    /\ MaxActions \in Nat

\* How much Dust is: what the pool may pay too much of in one swap without
\* losing by it.  Either the fee is so small a part of the amount that a
\* doubled output costs the pool more than rounding gains it, or the output
\* was never worth more, the pool being as deep as it is.
ASSUME DustAssumption ==
    /\ Dust \in Nat
    /\ \A a \in Amounts :
          \/ (2 * Dust + 1) * AfterFee(a) >= (Dust + 1) * (a + 1)
          \/ (2 * InitialReserveOut * AfterFee(a)) \div (InitialReserveIn + AfterFee(a)) <= 2 * Dust

VARIABLES
    h, test,       \* the harness, and the test it was built for
    plants,        \* the bugs in its program
    s,             \* the accounts of the TestContext
    fx,            \* what the fixture notes besides
    last,          \* history: the action last checked, and the accounts it found
    pc, n,         \* "act" or "check", and the actions of the iteration
    violation      \* the check that failed

vars == <<h, test, plants, s, fx, last, pc, n, violation>>

-----------------------------------------------------------------------------
(* What setup() leaves: the accounts and the fixture's notes.              *)

AmmWatched(a) ==
    [reserveIn |-> a.reserveIn, reserveOut |-> a.reserveOut,
     vaultIn |-> a.vaultIn, vaultOut |-> a.vaultOut]

VaultWatched(a) ==
    [totalAssets |-> a.totalAssets, totalShares |-> a.totalShares,
     position |-> a.position, vault |-> a.vault]

\* The orders of the matching harnesses leave no notes.
MatchingSetup == [accounts |-> [sequence |-> 0, ticks |-> <<>>], notes |-> [ok |-> FALSE]]

\* The same accounts without their discriminators.
MatchingPinoSetup == MatchingSetup

AmmSetup ==
    LET a == [reserveIn |-> InitialReserveIn, reserveOut |-> InitialReserveOut,
              userSrc |-> InitialUserSrc, userDst |-> 0,
              vaultIn |-> InitialReserveIn, vaultOut |-> InitialReserveOut]
    IN  [accounts |-> a, notes |-> [pre |-> AmmWatched(a), ok |-> FALSE]]

RefreshSetup ==
    [accounts |-> [slotA |-> 0, slotB |-> 0, health |-> 0], notes |-> [slot |-> 0, ok |-> FALSE]]

VaultSetup ==
    LET a == [totalAssets |-> 0, totalShares |-> 0, position |-> 0,
              user |-> InitialUnderlying, vault |-> 0]
    IN  [accounts |-> a, notes |-> [pre |-> VaultWatched(a), ok |-> FALSE]]

OracleSetup ==
    [accounts |-> [lastSlot |-> 0, count |-> 0],
     notes |-> [pre |-> 0, next |-> 1, slot |-> 0, ok |-> FALSE]]

OraclePinoSetup ==
    [accounts |-> [lastSlot |-> 0, count |-> 0], notes |-> [next |-> 1, slot |-> 0, ok |-> FALSE]]

\* "matching" is the harness of the benchmark itself: it would be asked to
\* find the plants it is not pointed at.
Anchor4 == {"matching", "matching-buggy"}
Book == Anchor4 \cup {"matching-pino-buggy"}
Feed == {"oracle-buggy", "oracle-pino-buggy"}
Harnesses == Book \cup Feed \cup {"amm-buggy", "refresh-buggy", "vault-buggy"}

SetupOf(f) ==
    CASE f \in Anchor4           -> MatchingSetup
      [] f = "matching-pino-buggy" -> MatchingPinoSetup
      [] f = "amm-buggy"         -> AmmSetup
      [] f = "refresh-buggy"     -> RefreshSetup
      [] f = "vault-buggy"       -> VaultSetup
      [] f = "oracle-buggy"      -> OracleSetup
      [] f = "oracle-pino-buggy" -> OraclePinoSetup

\* The instruction of the harness, on the accounts `at', by a program with
\* the bugs `with'.
Run(with, at, arg, signed) ==
    CASE h \in Anchor4             -> PlaceOrderAnchor(with, at, arg, User, signed)
      [] h = "matching-pino-buggy" -> PlaceOrderPinocchio(with, at, arg, User, signed)
      [] h = "amm-buggy"           -> Swap(with, at, arg)
      [] h = "refresh-buggy"       -> Refresh(with, at, arg)
      [] h = "vault-buggy"         -> Deposit(with, at, arg)
      [] h = "oracle-buggy"        -> PublishAnchor(with, at, arg, signed)
      [] h = "oracle-pino-buggy"   -> PublishPinocchio(with, at, arg, signed)

-----------------------------------------------------------------------------
(* The actions.                                                            *)

\* A send that fails in the harness counts as one the program refused.
Sends(arg, notes) ==
    /\ pc = "act" /\ n < MaxActions /\ violation = NoViolation
    /\ \E out \in {Run(plants, s, arg, TRUE), Refused(s)} :
        /\ s' = out.to
        /\ fx' = [notes EXCEPT !.ok = out.ok]
        /\ last' = [found |-> s, arg |-> arg, ok |-> out.ok]
    /\ pc' = "check" /\ n' = n + 1
    /\ UNCHANGED <<h, test, plants, violation>>

ActionPlaceOrder == h \in Book /\ \E price \in Prices : Sends(price, fx)

ActionSwap == h = "amm-buggy" /\ \E a \in Amounts : Sends(a, [fx EXCEPT !.pre = AmmWatched(s)])

ActionRefresh == h = "refresh-buggy" /\ \E t \in Slots : Sends(t, [fx EXCEPT !.slot = t])

ActionDeposit ==
    h = "vault-buggy" /\ \E a \in Deposits : Sends(a, [fx EXCEPT !.pre = VaultWatched(s)])

\* The slot advances whatever becomes of the send.
ActionPublish ==
    /\ h = "oracle-buggy"
    /\ Sends(fx.next, [pre |-> s.count, next |-> fx.next + 1, slot |-> fx.next, ok |-> fx.ok])

ActionPublishPino ==
    /\ h = "oracle-pino-buggy"
    /\ Sends(fx.next, [next |-> fx.next + 1, slot |-> fx.next, ok |-> fx.ok])

-----------------------------------------------------------------------------
(* The checks: what each takes for right.                                  *)

\* A mutant of CheckTickSort: the last pair is not looked at.
CheckTickSortShort == \A i \in 1..(Len(s.ticks) - 2) : s.ticks[i].price < s.ticks[i + 1].price

CheckTickSort == \A i \in 1..(Len(s.ticks) - 1) : s.ticks[i].price < s.ticks[i + 1].price

CheckCountConsistency == \A i \in DOMAIN s.ticks : s.ticks[i].n_orders <= TickDepth

CheckOwnerAttribution ==
    \A i \in DOMAIN s.ticks : \A d \in DOMAIN s.ticks[i].owners : s.ticks[i].owners[d] = User

\* The harness of the clean program reads as many orders as the tick counts,
\* and takes no owner for the user.
OwnerRead(i, d) ==
    IF d \in DOMAIN s.ticks[i].owners THEN s.ticks[i].owners[d]
    ELSE IF d > TickDepth /\ i < Len(s.ticks) THEN NextTick ELSE Zero

CleanOwnerAttribution ==
    \A i \in DOMAIN s.ticks : \A d \in 1..s.ticks[i].n_orders : OwnerRead(i, d) \in {User, Zero}

CheckKNonDecreasing ==
    fx.ok => s.reserveIn * s.reserveOut >= fx.pre.reserveIn * fx.pre.reserveOut

CheckReserveVaultConsistent ==
    fx.ok => /\ s.reserveIn - fx.pre.reserveIn = s.vaultIn - fx.pre.vaultIn
             /\ s.reserveOut - fx.pre.reserveOut = s.vaultOut - fx.pre.vaultOut

\* A mutant of CheckReserveASlotTracks: also after a send that failed.
CheckReserveASlotAlways == s.slotA = fx.slot

CheckReserveASlotTracks == fx.ok => s.slotA = fx.slot

CheckHealthPositive == fx.ok => s.health > 0

CheckShareSupplyConsistent ==
    fx.ok => s.totalShares - fx.pre.totalShares = s.position - fx.pre.position

CheckAssetsVaultConsistent ==
    fx.ok => s.totalAssets - fx.pre.totalAssets = s.vault - fx.pre.vault

CheckLastSlotTracks == fx.ok => s.lastSlot = fx.slot

CheckPublishCountStrictlyIncreases == fx.ok => s.count > fx.pre

\* InstructionSpec, of the harnesses that declare one: the price or the slot
\* in data_sample, and whether market.sequence is declared Monotonic.
MatchingSpec == [sample |-> SamplePrice, monotonic |-> TRUE]
MatchingPinoSpec == [sample |-> SamplePrice, monotonic |-> FALSE]
OraclePinoSpec == [sample |-> 1, monotonic |-> FALSE]
SpecOf == CASE h \in Anchor4 -> MatchingSpec [] h = "matching-pino-buggy" -> MatchingPinoSpec
            [] OTHER -> OraclePinoSpec

\* signer-skip sends the sample with the flag of slot 1 cleared, unchecked-math
\* as it is; both put the accounts back.
SignerSkip == LET out == Run(plants, s, SpecOf.sample, FALSE) IN out.ok => out.to = s

UncheckedMath ==
    LET out == Run(plants, s, SpecOf.sample, TRUE) IN
    out.ok /\ SpecOf.monotonic => out.to.sequence >= s.sequence

Holds(c) ==
    CASE c = "tick_sort"         -> CheckTickSort
      [] c = "count_consistency" -> CheckCountConsistency
      [] c = "owner_attribution" -> IF h = "matching" THEN CleanOwnerAttribution
                                    ELSE CheckOwnerAttribution
      [] c = "k_non_decreasing"  -> CheckKNonDecreasing
      [] c = "reserve_vault"     -> CheckReserveVaultConsistent
      [] c = "reserve_slot"      -> CheckReserveASlotTracks
      [] c = "health_positive"   -> CheckHealthPositive
      [] c = "share_supply"      -> CheckShareSupplyConsistent
      [] c = "assets_vault"      -> CheckAssetsVaultConsistent
      [] c = "last_slot"         -> CheckLastSlotTracks
      [] c = "publish_count"     -> CheckPublishCountStrictlyIncreases
      [] c = "signer_skip"       -> SignerSkip
      [] c = "unchecked_math"    -> UncheckedMath

-----------------------------------------------------------------------------
(* The tests: a smoke test with every check, and one for each.             *)

MatchingSmoke ==
    <<"signer_skip", "unchecked_math", "tick_sort", "count_consistency", "owner_attribution">>

SmokeOf(f) ==
    CASE f \in Anchor4             -> MatchingSmoke
      [] f = "matching-pino-buggy" -> <<"signer_skip", "tick_sort">>
      [] f = "amm-buggy"           -> <<"k_non_decreasing", "reserve_vault">>
      [] f = "refresh-buggy"       -> <<"reserve_slot", "health_positive">>
      [] f = "vault-buggy"         -> <<"share_supply", "assets_vault">>
      [] f = "oracle-buggy"        -> <<"last_slot", "publish_count">>
      [] f = "oracle-pino-buggy"   -> <<"signer_skip", "last_slot">>

TestsOf(f) == {SmokeOf(f)} \cup {<<c>> : c \in Range(SmokeOf(f))}

\* The mapping of bugs to invariants each program and harness states.
PlantOf ==
    [tick_sort |-> "sort", count_consistency |-> "orders", owner_attribution |-> "owner",
     unchecked_math |-> "sequence", signer_skip |-> "signer", k_non_decreasing |-> "out",
     reserve_vault |-> "in", reserve_slot |-> "slot", health_positive |-> "health",
     share_supply |-> "shares", assets_vault |-> "assets", last_slot |-> "slot",
     publish_count |-> "count"]

ASSUME NoViolationAssumption == NoViolation \notin DOMAIN PlantOf

PlantsIn(f) ==
    {PlantOf[c] : c \in Range(SmokeOf(f))} \ (IF f \in Anchor4 THEN {"signer"} ELSE {})

Begun ==
    /\ s' = SetupOf(h).accounts /\ fx' = SetupOf(h).notes
    /\ last' = [found |-> s', arg |-> 0, ok |-> FALSE]
    /\ pc' = "act" /\ n' = 0 /\ violation' = NoViolation

Init ==
    /\ h \in Harnesses /\ test \in TestsOf(h) /\ plants \in SUBSET PlantsIn(h)
    /\ s = SetupOf(h).accounts /\ fx = SetupOf(h).notes
    /\ last = [found |-> s, arg |-> 0, ok |-> FALSE]
    /\ pc = "act" /\ n = 0 /\ violation = NoViolation

\* The body of the test: the first check that fails is the violation.
Body ==
    /\ pc = "check" /\ pc' = "act"
    /\ LET failing == SelectInSeq(test, LAMBDA c : ~Holds(c)) IN
       violation' = IF failing = 0 THEN NoViolation ELSE test[failing]
    /\ UNCHANGED <<h, test, plants, s, fx, last, n>>

NextIteration ==
    /\ pc = "act" /\ (violation # NoViolation \/ n = MaxActions)
    /\ Begun /\ UNCHANGED <<h, test, plants>>

Next ==
    \/ ActionPlaceOrder \/ ActionSwap \/ ActionRefresh \/ ActionDeposit
    \/ ActionPublish \/ ActionPublishPino
    \/ Body \/ NextIteration

Spec == Init /\ [][Next]_vars

-----------------------------------------------------------------------------
(* Properties.                                                             *)

\* A test reports a bug that is there: the check that fails is that of a
\* plant in the program, after any actions, sends that failed among them.
\* (The owner check of the clean harness reads past a tick that counts more
\* orders than it holds.)
OnlyItsPlant ==
    violation # NoViolation =>
        \/ PlantOf[violation] \in plants
        \/ h = "matching" /\ violation = "owner_attribution" /\ "orders" \in plants

Silent == pc = "act" /\ n > 0 /\ violation = NoViolation

\* What the plant cost the pool in the action checked last.
Excess(p) ==
    Run(plants \ {p}, last.found, last.arg, TRUE).to.vaultOut - s.vaultOut

\* A plant does not act unseen: when the test for it stays silent, the last
\* action left what the program without that plant would have left.  But k
\* may rise in spite of the doubled output, when that is dust; and the clean
\* harness's owner check takes the zeros.
NoPlantActsUnseen ==
    \A c \in DOMAIN PlantOf \ {"signer_skip", "unchecked_math"} :
        LET p == PlantOf[c] IN
        Silent /\ test = <<c>> /\ last.ok =>
            \/ Run(plants \ {p}, last.found, last.arg, TRUE) = Accepted(s)
            \/ p = "out" /\ Excess(p) <= Dust
            \/ h = "matching" /\ p = "owner"

\* The missing signer check is found after any action, but not where the
\* sample has gone stale: it says slot 1, and only a feed that never notes
\* its slot still takes that after a publish.
SignerPlantSeen ==
    Silent /\ test = <<"signer_skip">> /\ "signer" \in plants =>
        h = "oracle-pino-buggy" /\ "slot" \notin plants /\ s.lastSlot > 0
=============================================================================
