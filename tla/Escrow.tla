-------------------------------- MODULE Escrow --------------------------------
(***************************************************************************)
(* The two programs of examples/escrow-demo and the runtime they run on:   *)
(* `escrow', with its planted bugs, and `escrow_clean', with or without    *)
(* one mutant of its committed campaign.  A transaction either leaves new  *)
(* accounts behind or leaves everything as it was.  Lamports, sizes and    *)
(* u64 values are scaled down together; fees are left out.                 *)
(***************************************************************************)
EXTENDS Integers, Sequences, TLC

CONSTANTS
    U64,            \* 2^64, scaled
    VaultSize,      \* 8 + Vault::INIT_SPACE
    Rent,           \* the least rent-exempt balance of an account, by its size
    MaxIncrease,    \* MAX_PERMITTED_DATA_INCREASE
    KeyAsU64,       \* a key's first eight bytes, read as a number
    Bps,            \* the 10_000 of unsafe_accumulate_yield
    InnerValue,     \* the 12_345 of unsafe_self_reentry
    CuCeiling,      \* the compute units a transaction may use
    Refused         \* no accounts: the transaction failed

Programs == {"escrow", "escrow_clean"}
People == {"depositor", "depositor_b", "initializer", "beneficiary"}

\* find_program_address(["vault", person]), and the address one bump lower.
Pda == [depositor |-> "vault", depositor_b |-> "vault_b", initializer |-> "vault_init"]
AltPda == [depositor |-> "vault_alt"]
Vaults == {Pda[p] : p \in DOMAIN Pda}

\* "fake" stands for the Pubkey::new_unique() of a detector.
Keys == People \cup Vaults \cup {"vault_alt", "fake", "system_program", "escrow_program"}

ASSUME EscrowAssumption ==
    /\ {U64, VaultSize, MaxIncrease, Bps} \subseteq Nat \ {0}
    /\ \A n \in 0..(VaultSize + MaxIncrease) : Rent[n] \in Nat \ {0}
    /\ {KeyAsU64, InnerValue} \subseteq 0..(U64 - 1) /\ CuCeiling \in Nat

Account == [lamports : Nat, owner : {"system", "program", "stranger"}, disc : {"", "Vault", "wrong"},
            size : Nat, depositor : People \cup {""}, beneficiary : People \cup {""},
            unlock_slot : Nat, amount : 0..(U64 - 1)]

ASSUME RefusedAssumption == Refused \notin [Keys -> Account]

\* No account, or the inert one a detector leaves: get_account() has nothing
\* but zeroes to tell.
Blank == [lamports |-> 0, owner |-> "system", disc |-> "", size |-> 0,
          depositor |-> "", beneficiary |-> "", unlock_slot |-> 0, amount |-> 0]

Wallet(n) == [Blank EXCEPT !.lamports = n]

Move(l, from, to, n) ==
    LET paid == [l EXCEPT ![from].lamports = @ - n] IN [paid EXCEPT ![to].lamports = @ + n]

-----------------------------------------------------------------------------
(* A call: the accounts of the instruction in their order, the keys that   *)
(* signed, the argument; the program, what a mutant dropped from it, the   *)
(* accounts and the slot it runs in.                                       *)

Call(prog, dropped, l, slot, ix, keys, signed, arg) ==
    [prog |-> prog, dropped |-> dropped, l |-> l, slot |-> slot,
     ix |-> ix, keys |-> keys, signed |-> signed, arg |-> arg]

Key(c, i) == c.keys[i]
At(c, i) == c.l[c.keys[i]]

Signs(c, i) == Key(c, i) \in c.signed

\* Signer<'info>, unless the mutant weakened it to AccountInfo<'info>.
IsSigner(c, i) == c.dropped = <<"signer-type-weaken", c.ix>> \/ Signs(c, i)

\* Account<'info, Vault>: the owner, then the discriminator.
IsVault(c, i) == At(c, i).owner = "program" /\ At(c, i).disc = "Vault"

\* seeds = [b"vault", depositor.key()], bump
IsSeeded(c, i, d) == Key(c, d) \in DOMAIN Pda /\ Key(c, i) = Pda[Key(c, d)]

\* vault: mut, seeds, bump, has_one = depositor; depositor: Signer.
IsDepositorsVault(c) ==
    IsVault(c, 1) /\ IsSeeded(c, 1, 2) /\ At(c, 1).depositor = Key(c, 2) /\ IsSigner(c, 2)

\* require!(cond), unless the mutant dropped it.
Required(c, guard, cond) == c.dropped = <<"guard-drop", c.ix, guard>> \/ cond

Write(l, k, field, n) ==
    CASE field = "amount" -> [l EXCEPT ![k].amount = n]
      [] field = "size"   -> [l EXCEPT ![k].size = n]

-----------------------------------------------------------------------------
(* The handlers that are meant to be right.                                *)

\* init: the System program takes the rent from a payer that signed, and
\* hands the new account over.
Initialize(c) ==
    IF /\ IsSigner(c, 2) /\ IsSeeded(c, 1, 2) /\ Key(c, 3) = "system_program"
       /\ At(c, 1) = Blank
       /\ Signs(c, 2) /\ At(c, 2).owner = "system" /\ At(c, 2).lamports >= Rent[VaultSize]
    THEN [Move(c.l, Key(c, 2), Key(c, 1), Rent[VaultSize]) EXCEPT
            ![Key(c, 1)] = [lamports |-> Rent[VaultSize], owner |-> "program",
                            disc |-> "Vault", size |-> VaultSize,
                            depositor |-> Key(c, 2), beneficiary |-> c.arg[1],
                            unlock_slot |-> c.arg[2], amount |-> 0]]
    ELSE Refused

Deposit(c) ==
    LET sum == At(c, 1).amount + c.arg IN
    IF /\ IsDepositorsVault(c) /\ Key(c, 3) = "system_program"
       /\ Required(c, "amount > 0", c.arg > 0)
       /\ Signs(c, 2) /\ At(c, 2).owner = "system" /\ At(c, 2).lamports >= c.arg
       /\ At(c, 1).lamports + c.arg < U64      \* the transfer is checked
       /\ c.dropped = <<"checked-to-wrapping", "deposit">> \/ sum < U64
    THEN Write(Move(c.l, Key(c, 2), Key(c, 1), c.arg), Key(c, 1), "amount", sum % U64)
    ELSE Refused

\* Mutant: the planted comparison is the one of both programs.
WindowClosesLate(c) == c.slot <= At(c, 1).unlock_slot

\* `escrow' plants `<=' here.
BeforeUnlock(c) ==
    IF c.prog = "escrow" THEN c.slot <= At(c, 1).unlock_slot ELSE c.slot < At(c, 1).unlock_slot

\* The lamports of an account cannot go below zero, whatever is dropped.
Withdraw(c) ==
    LET v == At(c, 1) IN
    IF /\ IsDepositorsVault(c)
       /\ Required(c, "slot < unlock_slot", BeforeUnlock(c))
       /\ Required(c, "0 < amount <= vault.amount", c.arg > 0 /\ c.arg <= v.amount)
       /\ c.arg <= v.lamports
       /\ c.dropped = <<"checked-to-wrapping", "withdraw">> \/ c.arg <= v.amount
    THEN Write(Move(c.l, Key(c, 1), Key(c, 2), c.arg), Key(c, 1), "amount", (v.amount - c.arg) % U64)
    ELSE Refused

\* Mutant: the vault is paid out and still says what it held.
ClaimAndKeep(c) ==
    IF c.slot >= At(c, 1).unlock_slot /\ At(c, 1).amount \in 1..At(c, 1).lamports /\ IsSigner(c, 3)
    THEN Move(c.l, Key(c, 1), Key(c, 3), At(c, 1).amount)
    ELSE Refused

Claim(c) ==
    LET v == At(c, 1) IN
    IF /\ IsVault(c, 1) /\ IsSeeded(c, 1, 2) /\ v.beneficiary = Key(c, 3) /\ IsSigner(c, 3)
       /\ Required(c, "slot >= unlock_slot", c.slot >= v.unlock_slot)
       /\ Required(c, "amount > 0", v.amount > 0)
       /\ v.amount <= v.lamports
    THEN Write(Move(c.l, Key(c, 1), Key(c, 3), v.amount), Key(c, 1), "amount", 0)
    ELSE Refused

-----------------------------------------------------------------------------
(* The planted ones.  The runtime lets a program debit or write only the   *)
(* accounts it owns.                                                       *)

\* vault and depositor are UncheckedAccounts.
UnsafeWithdraw(c) ==
    IF c.arg > 0 /\ c.arg <= At(c, 1).lamports /\ At(c, 1).owner = "program"
    THEN Move(c.l, Key(c, 1), Key(c, 2), c.arg)
    ELSE Refused

\* The bump is the caller's: any address it derives is taken for the vault.
UnsafeWithdrawWithBump(c) ==
    LET derived == IF c.arg.bump = "canonical" THEN Pda ELSE AltPda IN
    IF /\ Key(c, 2) \in DOMAIN derived /\ Key(c, 1) = derived[Key(c, 2)]
       /\ c.arg.amount > 0 /\ c.arg.amount <= At(c, 1).lamports /\ At(c, 1).owner = "program"
    THEN Move(c.l, Key(c, 1), Key(c, 2), c.arg.amount)
    ELSE Refused

\* Bytes 40..48 of the source are the head of a vault's beneficiary.
UnsafeSetAmountFromSource(c) ==
    IF At(c, 1).size >= VaultSize /\ IsVault(c, 2)
    THEN Write(c.l, Key(c, 2), "amount", KeyAsU64)
    ELSE Refused

UnsafeAccumulateYield(c) ==
    LET a == At(c, 1).amount IN
    IF IsDepositorsVault(c)
    THEN Write(c.l, Key(c, 1), "amount", (a + ((a * c.arg) % U64) \div Bps) % U64)
    ELSE Refused

UnsafeComputeDos(c) == IF Signs(c, 1) /\ c.arg <= CuCeiling THEN c.l ELSE Refused

UnsafeReallocGrow(c) ==
    LET grown == At(c, 1).size + c.arg
        most  == At(c, 1).size + MaxIncrease IN
    IF IsDepositorsVault(c)
    THEN Write(c.l, Key(c, 1), "size", IF grown < most THEN grown ELSE most)
    ELSE Refused

UnsafeInnerMutate(c) ==
    IF IsDepositorsVault(c) THEN Write(c.l, Key(c, 1), "amount", c.arg) ELSE Refused

\* The inner call writes the vault, then the exit of the outer one writes back
\* the copy it read at its entry.
UnsafeSelfReentry(c) ==
    LET inner == UnsafeInnerMutate([c EXCEPT !.keys = SubSeq(@, 1, 2), !.arg = InnerValue]) IN
    IF IsDepositorsVault(c) /\ Key(c, 3) = "escrow_program" /\ inner # Refused
    THEN Write(inner, Key(c, 1), "amount", At(c, 1).amount)
    ELSE Refused

-----------------------------------------------------------------------------
(* A transaction.                                                          *)

\* Both programs have the first four handlers, `escrow' the others.
Handlers ==
    [escrow_clean |-> {"initialize", "deposit", "withdraw", "claim"},
     escrow |-> {"initialize", "deposit", "withdraw", "claim", "unsafe_withdraw",
                 "unsafe_withdraw_with_bump", "unsafe_set_amount_from_source",
                 "unsafe_accumulate_yield", "unsafe_compute_dos", "unsafe_realloc_grow",
                 "unsafe_self_reentry", "unsafe_inner_mutate"}]

Execute(c) ==
    IF c.ix \notin Handlers[c.prog] THEN Refused
    ELSE CASE c.ix = "initialize"                -> Initialize(c)
      [] c.ix = "deposit"                       -> Deposit(c)
      [] c.ix = "withdraw"                      -> Withdraw(c)
      [] c.ix = "claim"                         -> Claim(c)
      [] c.ix = "unsafe_withdraw"               -> UnsafeWithdraw(c)
      [] c.ix = "unsafe_withdraw_with_bump"     -> UnsafeWithdrawWithBump(c)
      [] c.ix = "unsafe_set_amount_from_source" -> UnsafeSetAmountFromSource(c)
      [] c.ix = "unsafe_accumulate_yield"       -> UnsafeAccumulateYield(c)
      [] c.ix = "unsafe_compute_dos"            -> UnsafeComputeDos(c)
      [] c.ix = "unsafe_realloc_grow"           -> UnsafeReallocGrow(c)
      [] c.ix = "unsafe_self_reentry"           -> UnsafeSelfReentry(c)
      [] c.ix = "unsafe_inner_mutate"           -> UnsafeInnerMutate(c)

Exempt(a) == a.lamports = 0 \/ a.lamports >= Rent[a.size]

\* A transaction may not leave an account it touched short of rent.
RentHolds(l, after) == \A k \in Keys : after[k] = l[k] \/ Exempt(after[k])

\* What send() comes back with, and the accounts then.
Settled(l, after) ==
    IF after = Refused THEN [ok |-> FALSE, why |-> "program", l |-> l]
    ELSE IF ~RentHolds(l, after)
         THEN [ok |-> FALSE, why |-> "InsufficientFundsForRent", l |-> l]
    ELSE [ok |-> TRUE, why |-> "",
          l |-> [k \in Keys |-> IF after[k].lamports = 0 THEN Blank ELSE after[k]]]

Send(c) == Settled(c.l, Execute(c))

\* What the logs tell of a call: the program twice on the stack.
Reenters(c) == c.ix = "unsafe_self_reentry" /\ IsDepositorsVault(c)

\* The compute units of a call: a unit for an iteration.
Units(c) == IF c.ix = "unsafe_compute_dos" THEN c.arg ELSE 1

=============================================================================
