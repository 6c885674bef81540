----------------------------- MODULE MCDetectors -----------------------------
(***************************************************************************)
(* Small harnesses for Detectors.  `withdraw' takes an authority that signs*)
(* and a vault, a PDA; vault `other' belongs to another user; `transfer'   *)
(* is a withdraw with more accounts.  `open' creates the book that `spend' *)
(* needs.                                                                  *)
(***************************************************************************)
EXTENDS Detectors

MCKeys == {"payer", "auth", "admin", "vault", "book", "other", "record", "gone", "fake", "bump"}
MCOwners == {"prog", "system", "stranger"}
MCDiscs == {"Vault", "Wrong"}
MCContexts == {"alice", "bob"}
MCVals == {0, 1}

Acct(o, d, c) == [owner |-> o, disc |-> d, ctx |-> c, val |-> 0]

MCGenuine == [k \in MCKeys |->
    CASE k \in {"vault", "book"}           -> Acct("prog", "Vault", "alice")
      [] k \in {"other", "record", "gone"} -> Acct("prog", "Vault", "bob")
      [] OTHER                             -> Acct("system", Empty, Empty)]

MCSnapshot == [k \in MCKeys |->
    IF k \in {"book", "gone", "fake", "bump"} THEN Missing ELSE MCGenuine[k]]

M(k, s, w) == [key |-> k, signer |-> s, writable |-> w]
Nowhere == [i \in {} |-> Empty]

Plain(accounts, signers) ==
    [accounts |-> accounts, signerIndices |-> {}, optionalSignerIndices |-> {},
     expectedOwners |-> Nowhere, expectedDiscriminators |-> Nowhere,
     expectedPda |-> Nowhere, createsIndices |-> {}, swapAlternates |-> Nowhere,
     signers |-> signers, guards |-> Nowhere, invariants |-> Nowhere,
     optIns |-> {}]

On(k) == Plain(<<M("auth", TRUE, FALSE), M(k, FALSE, TRUE)>>, {"auth"})

Harness(ixs, chains, sets) == [ixs : {ixs}, chain : chains, sets : {sets}]

-----------------------------------------------------------------------------
(* The tampering detectors on `withdraw'.                                  *)

Withdraw ==
    [On("vault") EXCEPT
        !.signerIndices = {1},
        !.expectedOwners = [i \in {2} |-> "prog"],
        !.expectedDiscriminators = [i \in {2} |-> "Vault"],
        !.expectedPda = [i \in {2} |-> "vault"],
        !.swapAlternates = [i \in {2} |-> {"other"}],
        !.optIns = {"bump-seed-canonicalization"}]

AttackChains == {
    <<"signer-skip", "owner-skip", "discriminator-skip", "pda-forge", "account-swap">>,
    <<"account-swap", "pda-forge", "discriminator-skip", "owner-skip", "signer-skip">>,
    <<"bump-seed-canonicalization", "pda-forge", "account-swap">>,
    <<"pda-forge", "bump-seed-canonicalization">>}

-----------------------------------------------------------------------------
(* signer-skip and account-swap alone, on metas with an optional signer,   *)
(* the fee payer, a key that signs twice and an index out of range; and    *)
(* swap sets, some of which cannot run.                                    *)

Transfer ==
    [Plain(<<M("auth", TRUE, FALSE), M("vault", FALSE, TRUE), M("payer", TRUE, TRUE),
             M("admin", TRUE, FALSE), M("admin", TRUE, FALSE), M("record", FALSE, TRUE)>>,
           {"auth", "admin"}) EXCEPT
        !.signerIndices = {1, 3, 4, 7},
        !.optionalSignerIndices = {2},
        !.swapAlternates = [i \in {2} |-> {"other", "vault"}]]

TransferSets == {
    [ix |-> "transfer", swaps |-> {<<2, "other">>, <<6, "vault">>}],
    [ix |-> "transfer", swaps |-> {<<2, "other">>, <<2, "record">>}],
    [ix |-> "transfer", swaps |-> {<<2, "gone">>}],
    [ix |-> "deposit",  swaps |-> {<<2, "other">>}]}

TransferChains == {<<"signer-skip", "account-swap">>, <<"account-swap", "signer-skip">>}

-----------------------------------------------------------------------------
(* The detectors that replay the canonical instruction, on `open', which   *)
(* creates the book, and `spend', which needs its value to be 1.  The      *)
(* value may not shrink in `open'; in `spend' it has a bound, and is to    *)
(* stay equal to a value of the authority's account, which is 0.           *)

Values(S) == [S -> MCVals]

Bounded(S, max) ==
    [kind |-> "Bounded", accounts |-> S,
     holds |-> {f \in Values(S) : \A i \in S : f[i] <= max}, steps |-> {}]
Equal(S) ==
    [kind |-> "Relation", accounts |-> S,
     holds |-> {f \in Values(S) : \A i, j \in S : f[i] = f[j]}, steps |-> {}]
NonDecreasing(S) ==
    [kind |-> "Monotonic", accounts |-> S, holds |-> {},
     steps |-> {p \in Values(S) \X Values(S) : \A i \in S : p[1][i] <= p[2][i]}]

Open ==
    [On("book") EXCEPT !.createsIndices = {2},
                       !.invariants = <<NonDecreasing({2})>>,
                       !.optIns = {"cu-dos", "cpi-reentrancy"}]

Spend ==
    [On("book") EXCEPT !.guards = [i \in {2, 3} |-> {1}],
                       !.invariants = <<Bounded({2}, 0), Equal({1, 2})>>,
                       !.optIns = {"realloc-race"}]

ReplayChains == {
    <<"cu-dos", "realloc-race", "precondition-skip", "unchecked-math">>,
    <<"unchecked-math", "precondition-skip", "cpi-reentrancy">>}

-----------------------------------------------------------------------------
MCHarnesses ==
    Harness({"withdraw"}, AttackChains, {})
        \cup Harness({"transfer"}, TransferChains, TransferSets)
        \cup Harness({"open", "spend"}, ReplayChains, {})

MCIxs == {"withdraw", "transfer", "open", "spend"}

MCInstr == [x \in MCIxs |->
    CASE x = "withdraw" -> Withdraw
      [] x = "transfer" -> Transfer
      [] x = "open"     -> Open
      [] x = "spend"    -> Spend]

MCAltPda == [x \in MCIxs |-> [i \in DOMAIN MCInstr[x].accounts |->
    IF x = "withdraw" /\ i = 2 THEN "bump" ELSE Missing]]

ASSUME FixtureIsWellFormed == WellFormedFixture
=============================================================================
