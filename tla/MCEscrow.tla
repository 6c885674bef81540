------------------------------- MODULE MCEscrow -------------------------------
(***************************************************************************)
(* The escrow harnesses on amounts of a few units: a vault's rent is 5, so *)
(* that no single deposit (of 1 or 4) pays for what unsafe_realloc_grow    *)
(* grows, and 4, what unsafe_withdraw takes, is not there without one.     *)
(***************************************************************************)
EXTENDS EscrowHarness

MCRent == [n \in 0..60 |-> 4 + n]

MCSample ==
    [initialize |-> <<"beneficiary", 2>>, deposit |-> 3, withdraw |-> 2, claim |-> 0, setup |-> 20,
     unsafe_withdraw |-> 4, unsafe_accumulate_yield |-> 1023, unsafe_compute_dos |-> 5,
     unsafe_self_reentry |-> 0, unsafe_realloc_grow |-> 9,
     unsafe_withdraw_with_bump |-> [amount |-> 1, bump |-> "canonical"]]

Safe == [deposit |-> {1, 4}, withdraw |-> {1, 4}, claim |-> {0}]
MCInputs ==
    [slots |-> {1, 2},
     escrow_clean |-> [initialize |-> {1}] @@ Safe,
     escrow |-> [unsafe_withdraw |-> {1}, unsafe_compute_dos |-> {1, 45},
                 unsafe_withdraw_with_bump |-> {[amount |-> 1, bump |-> "canonical"]},
                 unsafe_realloc_grow |-> {1}, unsafe_self_reentry |-> {0},
                 unsafe_accumulate_yield |-> {1022}] @@ Safe]

MCMaxAmount == [escrow |-> 200, escrow_clean |-> 40]

Five == <<"signer-skip", "owner-skip", "discriminator-skip", "pda-forge", "account-swap">>
MCTests ==
    [reachability |-> <<>>, invariant_escrow |-> <<>>, acceptance |-> Five,
     signer_skip_only |-> <<"signer-skip">>, owner_skip_only |-> <<"owner-skip">>,
     discriminator_skip_only |-> <<"discriminator-skip">>, pda_forge_only |-> <<"pda-forge">>,
     account_swap_only |-> <<"account-swap">>, unchecked_math_only |-> <<"unchecked-math">>,
     cu_dos_only |-> <<"cu-dos">>, cpi_reentrancy_only |-> <<"cpi-reentrancy">>,
     realloc_race_only |-> <<"realloc-race">>,
     bump_only |-> <<"bump-seed-canonicalization">>,
     all |-> <<"unchecked-math", "cu-dos", "cpi-reentrancy", "realloc-race">> \o Five
                \o <<"bump-seed-canonicalization">>,
     scoring |-> <<"unchecked-math">> \o Five \o <<"precondition-skip">>]
MCTestsOf ==
    [escrow_clean |-> {"reachability", "scoring"},
     escrow |-> DOMAIN MCTests \ {"scoring"}]

-----------------------------------------------------------------------------
(* idl/escrow.json and idl/escrow_clean.json, the instructions a spec is   *)
(* built from and those whose seeds it may borrow.                         *)

Slot(name, flags, address, pda) ==
    [name |-> name, writable |-> "w" \in flags, signer |-> "s" \in flags,
     optional |-> "o" \in flags, address |-> address, pda |-> pda]
VaultSeeds ==
    {<<[kind |-> "const", value |-> "vault"], [kind |-> "account", value |-> "depositor"]>>}

Vault(pda) == Slot("vault", {"w"}, "", pda)
Plain(name, flags) == Slot(name, flags, "", {})

IdlOf(system, seeded) ==
    LET seeds(x) == IF x \in seeded THEN VaultSeeds ELSE {} IN
    [initialize |-> <<Vault(seeds("initialize")), Plain("depositor", {"w", "s"}),
                      Slot("system_program", {}, system, {})>>,
     deposit |-> <<Vault(seeds("deposit")), Plain("depositor", {"w", "s"}),
                   Slot("system_program", {}, system, {})>>,
     withdraw |-> <<Vault(seeds("withdraw")), Plain("depositor", {"w", "s"})>>,
     claim |-> <<Vault(seeds("claim")), Plain("depositor", {}), Plain("beneficiary", {"w", "s"})>>,
     unsafe_set_amount_from_source |-> <<Plain("source", {}), Plain("target", {"w"})>>,
     unsafe_withdraw |-> <<Vault({}), Plain("depositor", {"w"})>>]

\* As generated; and by an older Anchor: without the fixed address, or without
\* the seeds of one instruction.
SafeIxs == {"initialize", "deposit", "withdraw", "claim"}
MCIdls ==
    LET variants == {IdlOf("system_program", SafeIxs), IdlOf("", SafeIxs \ {"deposit"}),
                     IdlOf("", SafeIxs \ {"claim"})}
    IN  [escrow |-> variants, escrow_clean |-> variants]

\* programs/escrow-clean/src/lib.rs, by line.
MCCleanSource ==
    LET handler(line, name, context) == Declared(line, "fn", name, context)
        struct(line, name) == Declared(line, "struct", name, "")
        weaken(line, ix) == Site(line, "signer-type-weaken", <<"signer-type-weaken", ix>>)
        drop(line, ix, guard) == Site(line, "guard-drop", <<"guard-drop", ix, guard>>)
        wrap(line, ix) == Site(line, "checked-to-wrapping", <<"checked-to-wrapping", ix>>)
    IN  <<handler(30, "initialize", "Initialize"),
          handler(43, "deposit", "Deposit"), drop(44, "deposit", "amount > 0"), wrap(60, "deposit"),
          handler(65, "withdraw", "Withdraw"), drop(73, "withdraw", "slot < unlock_slot"),
          drop(74, "withdraw", "0 < amount <= vault.amount"), wrap(87, "withdraw"),
          handler(92, "claim", "Claim"), drop(95, "claim", "slot >= unlock_slot"),
          drop(97, "claim", "amount > 0"),
          struct(111, "Initialize"), weaken(121, "initialize"),
          struct(126, "Deposit"), weaken(135, "deposit"),
          struct(140, "Withdraw"), weaken(149, "withdraw"),
          struct(153, "Claim"), weaken(165, "claim"),
          struct(170, "Vault")>>
=============================================================================
