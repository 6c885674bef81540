------------------------ MODULE EscrowHarness_proofs ------------------------
(***************************************************************************)
(* Proofs about EscrowHarness.  Whatever is sent to escrow_clean and       *)
(* whichever mutant is in, its vaults hold what they say, and unless a     *)
(* time guard is gone each side is paid in its window.  What a run reports *)
(* is what is wrong with its program; the scoring test reports exactly     *)
(* when the mutant makes a difference to one of its sends; a mutant that   *)
(* nothing reached made none; and specs inferred from an IDL change no     *)
(* detection.                                                              *)
(***************************************************************************)
EXTENDS EscrowHarness, SequenceTheorems, WellFoundedInduction, TLAPS

\* The accounts of escrow_clean: a vault is Blank or holds its rent and its
\* amount and names a person; the depositor's has the window of setup().
Backed(a) ==
    a # Blank => /\ a.owner = "program"
                 /\ a.beneficiary \in People
                 /\ a.lamports = Rent[VaultSize] + a.amount

Windowed(a) == a # Blank => a.unlock_slot = UnlockSlot

Sound(now) ==
    /\ now \in [Keys -> Account]
    /\ \A v \in Vaults : Backed(now[v])
    /\ Windowed(now["vault"])

\* A call the harness may make of escrow_clean.
CleanCall(c) ==
    /\ c.prog = "escrow_clean"
    /\ Sound(c.l)
    /\ c.ix \in {"deposit", "withdraw"} => c.arg \in Nat
    /\ c.ix = "initialize" => /\ c.arg[1] \in People /\ c.arg[2] \in Nat
                              /\ Key(c, 1) = "vault" => c.arg[2] = UnlockSlot

\* Who is paid by a call, and what it was checked against.
Pays(c, after) ==
    \A p \in People : after[p].lamports > c.l[p].lamports =>
        \/ /\ c.ix = "withdraw" /\ p = Key(c, 2) /\ Key(c, 1) = Pda[p]
           /\ Required(c, "slot < unlock_slot", c.slot < At(c, 1).unlock_slot)
           /\ At(c, 1) # Blank
        \/ /\ c.ix = "claim" /\ p = Key(c, 3) /\ Key(c, 2) \in DOMAIN Pda
           /\ Key(c, 1) = Pda[Key(c, 2)]
           /\ Required(c, "slot >= unlock_slot", c.slot >= At(c, 1).unlock_slot)
           /\ At(c, 1) # Blank

\* Whom a handler deals with besides the vault, and what it does to the two.
Party(c) == IF c.ix = "claim" THEN Key(c, 3) ELSE Key(c, 2)

Shifts(c, after) ==
    LET now == c.l
        v == Key(c, 1)
        q == Party(c) IN
    /\ after \in [Keys -> Account]
    /\ v \in Vaults /\ q \in People
    /\ \A k \in Keys \ {v, q} : after[k] = now[k]
    /\ after[q].size = now[q].size
    /\ after[v].lamports >= Rent[VaultSize]
    /\ Key(c, 2) \in DOMAIN Pda /\ v = Pda[Key(c, 2)]
    /\ c.ix = "initialize" =>
          now[v] = Blank /\ after[v].amount = 0 /\ after[q].lamports <= now[q].lamports
    /\ c.ix = "deposit" =>
          /\ now[v] # Blank /\ c.arg <= now[q].lamports
          /\ after[v].amount = now[v].amount + c.arg
          /\ after[q].lamports = now[q].lamports - c.arg
    /\ c.ix = "withdraw" =>
          /\ now[v] # Blank /\ c.arg <= now[v].amount
          /\ after[v].amount = now[v].amount - c.arg
          /\ after[q].lamports = now[q].lamports + c.arg
    /\ c.ix = "claim" =>
          /\ now[v] # Blank /\ after[v].amount = 0
          /\ after[q].lamports = now[q].lamports + now[v].amount

-----------------------------------------------------------------------------
(* The handlers of escrow_clean.                                           *)

LEMMA Sizes ==
    /\ U64 \in Nat \ {0} /\ VaultSize \in Nat
    /\ Rent[VaultSize] \in Nat \ {0}
    /\ UnlockSlot \in Nat /\ InitialBalance \in Nat
BY EscrowAssumption, HarnessAssumption DEF UnlockSlot

LEMMA Names ==
    /\ DOMAIN Pda = {"depositor", "depositor_b", "initializer"}
    /\ Vaults = {"vault", "vault_b", "vault_init"}
    /\ \A p \in DOMAIN Pda : Pda[p] \in Vaults /\ p \in People
    /\ People \subseteq Keys /\ Vaults \subseteq Keys /\ People \cap Vaults = {}
    /\ "depositor" \in People /\ "beneficiary" \in People /\ "vault" \in Vaults
    /\ Pda["depositor"] = "vault" /\ \A p \in DOMAIN Pda : Pda[p] = "vault" => p = "depositor"
    /\ "fake" \in Keys /\ "fake" \notin Vaults /\ "fake" \notin People
BY DEF Pda, Vaults, People, Keys

LEMMA BlankIsAccount == Blank \in Account /\ Blank.lamports = 0 /\ Blank.owner = "system"
BY Sizes DEF Blank, Account, People

\* An account is the record of its fields, and stays one when a field changes.
LEMMA Fields ==
    ASSUME NEW a \in Account
    PROVE  /\ a = [lamports |-> a.lamports, owner |-> a.owner, disc |-> a.disc, size |-> a.size,
                   depositor |-> a.depositor, beneficiary |-> a.beneficiary,
                   unlock_slot |-> a.unlock_slot, amount |-> a.amount]
           /\ a.lamports \in Nat /\ a.amount \in 0..(U64 - 1)
           /\ a.unlock_slot \in Nat /\ a.beneficiary \in People \cup {""}
BY DEF Account

WithBalance(a, m, n) ==
    [lamports |-> m, owner |-> a.owner, disc |-> a.disc, size |-> a.size,
     depositor |-> a.depositor, beneficiary |-> a.beneficiary,
     unlock_slot |-> a.unlock_slot, amount |-> n]

LEMMA Credited ==
    ASSUME NEW a \in Account, NEW m \in Nat, NEW b, b = [a EXCEPT !.lamports = m]
    PROVE  b \in Account /\ b = WithBalance(a, m, a.amount)
<1>1. a = WithBalance(a, a.lamports, a.amount)
  BY Fields DEF WithBalance
<1>2. b = WithBalance(a, m, a.amount)
  BY <1>1 DEF WithBalance
<1>3. WithBalance(a, m, a.amount) \in Account
  BY DEF Account, WithBalance
<1> QED BY <1>2, <1>3

LEMMA Amounted ==
    ASSUME NEW a \in Account, NEW n \in 0..(U64 - 1), NEW b, b = [a EXCEPT !.amount = n]
    PROVE  b \in Account /\ b = WithBalance(a, a.lamports, n)
<1>1. a = WithBalance(a, a.lamports, a.amount)
  BY Fields DEF WithBalance
<1>2. b = WithBalance(a, a.lamports, n)
  BY <1>1 DEF WithBalance
<1>3. WithBalance(a, a.lamports, n) \in Account
  BY DEF Account, WithBalance
<1> QED BY <1>2, <1>3

\* What a payment makes of the accounts: two keys, two balances.
IsMoved(now, from, to, n, out) ==
    /\ out \in [Keys -> Account]
    /\ \A k \in Keys \ {from, to} : out[k] = now[k]
    /\ out[from] = WithBalance(now[from], now[from].lamports - n, now[from].amount)
    /\ out[to] = WithBalance(now[to], now[to].lamports + n, now[to].amount)
    /\ out[from].lamports = now[from].lamports - n
    /\ out[to].lamports = now[to].lamports + n

LEMMA Moved ==
    ASSUME NEW now \in [Keys -> Account], NEW from \in Keys, NEW to \in Keys, from # to,
           NEW n \in Nat, n <= now[from].lamports
    PROVE  IsMoved(now, from, to, n, Move(now, from, to, n))
<1> DEFINE a == [now[from] EXCEPT !.lamports = now[from].lamports - n]
           b == [now[to] EXCEPT !.lamports = now[to].lamports + n]
           paid == [now EXCEPT ![from] = a]
           out == [paid EXCEPT ![to] = b]
<1>1. now[from] \in Account /\ now[to] \in Account
  OBVIOUS
<1>2. /\ a \in Account /\ b \in Account
      /\ a.lamports = now[from].lamports - n /\ b.lamports = now[to].lamports + n
      /\ a = WithBalance(now[from], now[from].lamports - n, now[from].amount)
      /\ b = WithBalance(now[to], now[to].lamports + n, now[to].amount)
  <2>1. now[from].lamports \in Nat /\ now[to].lamports \in Nat
    BY <1>1, Fields
  <2>2. now[from].lamports - n \in Nat /\ now[to].lamports + n \in Nat
    BY <2>1
  <2>3. /\ a \in Account /\ a = WithBalance(now[from], now[from].lamports - n, now[from].amount)
        /\ b \in Account /\ b = WithBalance(now[to], now[to].lamports + n, now[to].amount)
    BY <1>1, <2>2, Credited
  <2>4. a.lamports = now[from].lamports - n /\ b.lamports = now[to].lamports + n
    BY <2>3 DEF WithBalance
  <2> QED BY <2>3, <2>4
<1>3. paid[to] = now[to]
  OBVIOUS
<1>4. Move(now, from, to, n) = out
  BY <1>3 DEF Move
<1> HIDE DEF a, b
<1>5. /\ out \in [Keys -> Account] /\ out[from] = a /\ out[to] = b
      /\ \A k \in Keys \ {from, to} : out[k] = now[k]
  BY <1>2
<1> QED BY <1>2, <1>4, <1>5 DEF IsMoved

\* What a handler writes of an amount.
IsWritten(now, k, n, out) ==
    /\ out \in [Keys -> Account]
    /\ \A j \in Keys \ {k} : out[j] = now[j]
    /\ out[k] = WithBalance(now[k], now[k].lamports, n)

LEMMA Wrote ==
    ASSUME NEW now \in [Keys -> Account], NEW k \in Keys, NEW n \in 0..(U64 - 1)
    PROVE  IsWritten(now, k, n, Write(now, k, "amount", n))
<1> DEFINE b == [now[k] EXCEPT !.amount = n]
<1>1. now[k] \in Account
  OBVIOUS
<1>2. Write(now, k, "amount", n) = [now EXCEPT ![k] = b]
  BY DEF Write
<1> HIDE DEF b
<1>3. b \in Account /\ b = WithBalance(now[k], now[k].lamports, n)
  BY <1>1, Amounted DEF b
<1> QED BY <1>2, <1>3 DEF IsWritten

\* One more account of a clean ledger, written: the rest stays sound.
LEMMA Repaired ==
    ASSUME NEW now, Sound(now), NEW after \in [Keys -> Account], NEW v \in Vaults,
           \A k \in Vaults \ {v} : after[k] = now[k],
           Backed(after[v]), v = "vault" => Windowed(after[v])
    PROVE  Sound(after)
BY Names DEF Sound

\* A payment into a vault or out of it, and the amount written after it.
LEMMA Settles ==
    ASSUME NEW now, Sound(now), NEW v \in Vaults, NEW p \in People, now[v] # Blank,
           NEW out, NEW n \in 0..(U64 - 1), NEW m \in Nat,
           out \in [Keys -> Account], \A k \in Keys \ {v, p} : out[k] = now[k],
           out[v] = WithBalance(now[v], m, n), m = Rent[VaultSize] + n
    PROVE  Sound(out)
<1>1. now[v] \in Account /\ Backed(now[v]) /\ (v = "vault" => Windowed(now[v]))
  BY Names DEF Sound
<1>2. Backed(out[v]) /\ (v = "vault" => Windowed(out[v]))
  BY <1>1 DEF Backed, Windowed, WithBalance
<1>3. \A k \in Vaults \ {v} : out[k] = now[k]
  BY Names
<1> QED BY <1>2, <1>3, Repaired

LEMMA InitializeMakes ==
    ASSUME NEW c, CleanCall(c), c.ix = "initialize", Initialize(c) # Refused
    PROVE  Sound(Initialize(c)) /\ Pays(c, Initialize(c)) /\ Shifts(c, Initialize(c))
<1> DEFINE now == c.l
           v == Key(c, 1)
           p == Key(c, 2)
           R == Rent[VaultSize]
           made == [lamports |-> R, owner |-> "program", disc |-> "Vault", size |-> VaultSize,
                    depositor |-> p, beneficiary |-> c.arg[1],
                    unlock_slot |-> c.arg[2], amount |-> 0]
           paid == Move(now, p, v, R)
           after == Initialize(c)
<1>1. Sound(now) /\ now \in [Keys -> Account] /\ c.arg[1] \in People /\ c.arg[2] \in Nat
      /\ (v = "vault" => c.arg[2] = UnlockSlot)
  BY DEF CleanCall, Sound
<1>2. /\ after = [paid EXCEPT ![v] = made]
      /\ p \in DOMAIN Pda /\ v = Pda[p] /\ now[v] = Blank /\ R <= now[p].lamports
  BY DEF Initialize, IsSeeded, At, Key
<1>3. p \in People /\ v \in Vaults /\ p \in Keys /\ v \in Keys /\ p # v /\ R \in Nat
  BY <1>2, Names, Sizes
<1>4. made \in Account /\ Backed(made) /\ (v = "vault" => Windowed(made))
  <2>1. 0 \in 0..(U64 - 1) /\ R + 0 = R
    BY <1>3, Sizes
  <2> HIDE DEF p, v, R
  <2>2. made \in Account
    BY <1>1, <1>3, <2>1, Sizes DEF Account
  <2>3. Backed(made)
    BY <1>1, <2>1 DEF Backed, R
  <2> QED BY <1>1, <2>2, <2>3 DEF Windowed
<1> HIDE DEF made, p, v, R, now
<1>5. IsMoved(now, p, v, R, paid)
  BY <1>1, <1>2, <1>3, Moved
<1>5a. /\ paid \in [Keys -> Account]
       /\ \A k \in Keys \ {p, v} : paid[k] = now[k]
       /\ paid[p].lamports = now[p].lamports - R
  BY <1>5 DEF IsMoved
<1> HIDE DEF paid, after
<1>6. after \in [Keys -> Account] /\ after[v] = made /\ \A k \in Keys \ {v} : after[k] = paid[k]
  BY <1>2, <1>3, <1>4, <1>5a
<1>7. \A k \in Vaults \ {v} : after[k] = now[k]
  BY <1>3, <1>5a, <1>6, Names
<1>8. Sound(after)
  BY <1>1, <1>3, <1>4, <1>6, <1>7, Repaired
<1>9. ASSUME NEW q \in People PROVE after[q].lamports <= now[q].lamports
  <2>1. q \in Keys \ {v} /\ now[q] \in Account /\ now[p] \in Account
    BY <1>1, <1>3, Names
  <2>2. now[q].lamports \in Nat /\ now[p].lamports \in Nat
    BY <2>1, Fields
  <2>3. CASE q # p
    BY <2>1, <2>2, <2>3, <1>5a, <1>6
  <2>4. CASE q = p
    BY <2>1, <2>2, <2>4, <1>3, <1>5a, <1>6
  <2> QED BY <2>3, <2>4
<1>10. Pays(c, after)
  <2>1. \A q \in People : now[q].lamports \in Nat /\ after[q].lamports \in Nat
    BY <1>1, <1>6, Names, Fields
  <2> QED BY <1>9, <2>1 DEF Pays, now
<1>11. Shifts(c, after)
  <2>1. after[v].lamports = R /\ after[v].amount = 0
    BY <1>6 DEF made
  <2>2. after[p] = WithBalance(now[p], now[p].lamports - R, now[p].amount)
    BY <1>3, <1>5, <1>6 DEF IsMoved
  <2>3. after[p].size = now[p].size
    BY <2>2 DEF WithBalance
  <2>4. after[p].lamports <= now[p].lamports
    BY <1>3, <1>9
  <2>5. \A k \in Keys \ {v, p} : after[k] = now[k]
    BY <1>5a, <1>6
  <2>6. Party(c) = p /\ Rent[VaultSize] <= after[v].lamports
    BY <2>1, <1>3 DEF Party, p, R
  <2> QED BY <1>2, <1>3, <1>6, <2>1, <2>3, <2>4, <2>5, <2>6 DEF Shifts, now, p, v
<1> QED BY <1>8, <1>10, <1>11 DEF after

LEMMA DepositMakes ==
    ASSUME NEW c, CleanCall(c), c.ix = "deposit", Deposit(c) # Refused
    PROVE  Sound(Deposit(c)) /\ Pays(c, Deposit(c)) /\ Shifts(c, Deposit(c))
<1> DEFINE now == c.l
           v == Key(c, 1)
           p == Key(c, 2)
           x == c.arg
           sum == now[v].amount + x
           paid == Move(now, p, v, x)
           after == Deposit(c)
<1>1. Sound(now) /\ now \in [Keys -> Account] /\ x \in Nat
  BY DEF CleanCall, Sound
<1>2. /\ after = Write(paid, v, "amount", sum % U64)
      /\ p \in DOMAIN Pda /\ v = Pda[p] /\ now[v].owner = "program" /\ x <= now[p].lamports
      /\ now[v].lamports + x < U64
  BY DEF Deposit, IsDepositorsVault, IsVault, IsSeeded, At, Key
<1>3. p \in People /\ v \in Vaults /\ p \in Keys /\ v \in Keys /\ p # v
  BY <1>2, Names
<1> HIDE DEF p, v, now, x
<1>4. now[v] \in Account /\ now[p] \in Account
  BY <1>1, <1>3
<1>5. now[v].lamports \in Nat /\ now[v].amount \in 0..(U64 - 1) /\ now[p].lamports \in Nat
  BY <1>4, Fields
<1>6. now[v] # Blank /\ now[v].lamports = Rent[VaultSize] + now[v].amount
  BY <1>1, <1>2, <1>3, BlankIsAccount DEF Sound, Backed
<1>7. sum \in 0..(U64 - 1) /\ sum % U64 = sum /\ now[v].lamports + x = Rent[VaultSize] + sum
      /\ now[v].lamports + x \in Nat
  BY <1>1, <1>2, <1>5, <1>6, Sizes
<1>8. IsMoved(now, p, v, x, paid)
  BY <1>1, <1>2, <1>3, Moved
<1> HIDE DEF paid, sum
<1>9. /\ paid \in [Keys -> Account] /\ \A k \in Keys \ {p, v} : paid[k] = now[k]
      /\ paid[v] = WithBalance(now[v], now[v].lamports + x, now[v].amount)
      /\ paid[p].lamports = now[p].lamports - x
  BY <1>8 DEF IsMoved
<1>10. IsWritten(paid, v, sum, after)
  BY <1>2, <1>3, <1>7, <1>9, Wrote
<1> HIDE DEF after
<1>11. /\ after \in [Keys -> Account] /\ \A k \in Keys \ {v} : after[k] = paid[k]
       /\ after[v] = WithBalance(now[v], now[v].lamports + x, sum)
  BY <1>9, <1>10 DEF IsWritten, WithBalance
<1>12. \A k \in Keys \ {v, p} : after[k] = now[k]
  BY <1>9, <1>11
<1>13. Sound(after)
  BY <1>1, <1>3, <1>6, <1>7, <1>11, <1>12, Settles
<1>14. ASSUME NEW q \in People PROVE ~(after[q].lamports > now[q].lamports)
  <2>1. q \in Keys \ {v} /\ now[q] \in Account
    BY <1>1, <1>3, Names
  <2>2. now[q].lamports \in Nat
    BY <2>1, Fields
  <2>3. CASE q # p
    BY <2>1, <2>2, <2>3, <1>12
  <2>4. CASE q = p
    BY <2>1, <2>4, <1>1, <1>3, <1>5, <1>9, <1>11
  <2> QED BY <2>3, <2>4
<1>15. Pays(c, after)
  BY <1>14 DEF Pays, now
<1>16. Shifts(c, after)
  <2>1. /\ after[v].lamports = Rent[VaultSize] + sum /\ after[v].amount = sum
        /\ Rent[VaultSize] <= after[v].lamports
    <3>1. after[v].lamports = Rent[VaultSize] + sum /\ after[v].amount = sum
      BY <1>7, <1>11 DEF WithBalance
    <3> QED BY <3>1, <1>7, Sizes
  <2>2. after[p] = WithBalance(now[p], now[p].lamports - x, now[p].amount)
    BY <1>3, <1>8, <1>11 DEF IsMoved
  <2>3. after[p].size = now[p].size /\ after[p].lamports = now[p].lamports - x
    BY <2>2 DEF WithBalance
  <2>4. Party(c) = p
    BY DEF Party, p
  <2> QED BY <1>2, <1>3, <1>6, <1>11, <1>12, <2>1, <2>3, <2>4 DEF Shifts, now, p, v, x, sum
<1> QED BY <1>13, <1>15, <1>16 DEF after

LEMMA WithdrawMakes ==
    ASSUME NEW c, CleanCall(c), c.ix = "withdraw", Withdraw(c) # Refused
    PROVE  Sound(Withdraw(c)) /\ Pays(c, Withdraw(c)) /\ Shifts(c, Withdraw(c))
<1> DEFINE now == c.l
           v == Key(c, 1)
           p == Key(c, 2)
           x == c.arg
           rest == now[v].amount - x
           paid == Move(now, v, p, x)
           after == Withdraw(c)
<1>1. Sound(now) /\ now \in [Keys -> Account] /\ x \in Nat
  BY DEF CleanCall, Sound
<1>2. /\ after = Write(paid, v, "amount", rest % U64)
      /\ p \in DOMAIN Pda /\ v = Pda[p] /\ now[v].owner = "program" /\ x <= now[v].lamports
      /\ Required(c, "slot < unlock_slot", BeforeUnlock(c))
  BY DEF Withdraw, IsDepositorsVault, IsVault, IsSeeded, At, Key
<1>2a. x <= now[v].amount
  <2>1. /\ Required(c, "0 < amount <= vault.amount", x > 0 /\ x <= now[v].amount)
        /\ c.dropped = <<"checked-to-wrapping", "withdraw">> \/ x <= now[v].amount
    BY DEF Withdraw, At, Key
  <2>2. <<"checked-to-wrapping", "withdraw">> # <<"guard-drop", c.ix, "0 < amount <= vault.amount">>
    OBVIOUS
  <2> HIDE DEF x, v, now
  <2> QED BY <2>1, <2>2 DEF Required
<1>2b. Required(c, "slot < unlock_slot", c.slot < now[v].unlock_slot)
  BY <1>2 DEF Required, BeforeUnlock, CleanCall, At, Key
<1>3. p \in People /\ v \in Vaults /\ p \in Keys /\ v \in Keys /\ p # v
  BY <1>2, Names
<1> HIDE DEF p, v, now, x
<1>4. now[v] \in Account /\ now[p] \in Account
  BY <1>1, <1>3
<1>5. now[v].lamports \in Nat /\ now[v].amount \in 0..(U64 - 1) /\ now[p].lamports \in Nat
  BY <1>4, Fields
<1>6. now[v] # Blank /\ now[v].lamports = Rent[VaultSize] + now[v].amount
  BY <1>1, <1>2, <1>3, BlankIsAccount DEF Sound, Backed
<1>7. rest \in 0..(U64 - 1) /\ rest % U64 = rest /\ now[v].lamports - x = Rent[VaultSize] + rest
      /\ now[v].lamports - x \in Nat
  <2> DEFINE m == now[v].amount
             b == now[v].lamports
             R == Rent[VaultSize]
  <2>1. /\ m \in Nat /\ b \in Nat /\ R \in Nat /\ U64 \in Nat /\ m < U64 /\ x <= m
        /\ b = R + m
    BY <1>2a, <1>5, <1>6, Sizes
  <2> HIDE DEF m, b, R
  <2>2. m - x \in 0..(U64 - 1) /\ b - x = R + (m - x) /\ b - x \in Nat
    BY <2>1, <1>1
  <2>3. \A i \in 0..(U64 - 1) : i % U64 = i
    BY Sizes
  <2>4. (m - x) % U64 = m - x
    BY <2>2, <2>3
  <2> QED BY <2>2, <2>4 DEF m, b, R
<1>8. IsMoved(now, v, p, x, paid)
  BY <1>1, <1>2, <1>3, Moved
<1> HIDE DEF paid, rest
<1>9. /\ paid \in [Keys -> Account] /\ \A k \in Keys \ {v, p} : paid[k] = now[k]
      /\ paid[v] = WithBalance(now[v], now[v].lamports - x, now[v].amount)
  BY <1>8 DEF IsMoved
<1>10. IsWritten(paid, v, rest, after)
  BY <1>2, <1>3, <1>7, <1>9, Wrote
<1> HIDE DEF after
<1>11. /\ after \in [Keys -> Account] /\ \A k \in Keys \ {v} : after[k] = paid[k]
       /\ after[v] = WithBalance(now[v], now[v].lamports - x, rest)
  BY <1>9, <1>10 DEF IsWritten, WithBalance
<1>12. \A k \in Keys \ {v, p} : after[k] = now[k]
  BY <1>9, <1>11
<1>13. Sound(after)
  BY <1>1, <1>3, <1>6, <1>7, <1>11, <1>12, Settles
<1>14. ASSUME NEW q \in People, after[q].lamports > now[q].lamports PROVE q = p
  <2>1. q \in Keys \ {v} /\ now[q] \in Account
    BY <1>1, <1>3, Names
  <2>2. now[q].lamports \in Nat
    BY <2>1, Fields
  <2> QED BY <2>1, <2>2, <1>12, <1>14
<1>15. Pays(c, after)
  <2>1. ASSUME NEW q \in People, after[q].lamports > c.l[q].lamports
        PROVE  /\ c.ix = "withdraw" /\ q = Key(c, 2) /\ Key(c, 1) = Pda[q]
               /\ Required(c, "slot < unlock_slot", c.slot < At(c, 1).unlock_slot)
               /\ At(c, 1) # Blank
    <3>1. q = p
      BY <2>1, <1>14 DEF now
    <3> QED BY <3>1, <1>2, <1>2b, <1>6 DEF now, v, p, At, Key
  <2> QED BY <2>1 DEF Pays
<1>16. Shifts(c, after)
  <2>1. /\ after[v].lamports = Rent[VaultSize] + rest /\ after[v].amount = rest
        /\ Rent[VaultSize] <= after[v].lamports
    <3>1. after[v].lamports = Rent[VaultSize] + rest /\ after[v].amount = rest
      BY <1>7, <1>11 DEF WithBalance
    <3> QED BY <3>1, <1>7, Sizes
  <2>2. after[p] = WithBalance(now[p], now[p].lamports + x, now[p].amount)
    BY <1>3, <1>8, <1>11 DEF IsMoved
  <2>3. after[p].size = now[p].size /\ after[p].lamports = now[p].lamports + x
    BY <2>2 DEF WithBalance
  <2>4. Party(c) = p
    BY DEF Party, p
  <2> QED BY <1>2, <1>2a, <1>3, <1>6, <1>11, <1>12, <2>1, <2>3, <2>4 DEF Shifts, now, p, v, x, rest
<1> QED BY <1>13, <1>15, <1>16 DEF after

LEMMA ClaimMakes ==
    ASSUME NEW c, CleanCall(c), c.ix = "claim", Claim(c) # Refused
    PROVE  Sound(Claim(c)) /\ Pays(c, Claim(c)) /\ Shifts(c, Claim(c))
<1> DEFINE now == c.l
           v == Key(c, 1)
           p == Key(c, 3)
           x == now[v].amount
           paid == Move(now, v, p, x)
           after == Claim(c)
<1>1. Sound(now) /\ now \in [Keys -> Account]
  BY DEF CleanCall, Sound
<1>2. /\ after = Write(paid, v, "amount", 0)
      /\ Key(c, 2) \in DOMAIN Pda /\ v = Pda[Key(c, 2)] /\ now[v].owner = "program"
      /\ now[v].beneficiary = p /\ x <= now[v].lamports
      /\ Required(c, "slot >= unlock_slot", c.slot >= now[v].unlock_slot)
  BY DEF Claim, IsVault, IsSeeded, At, Key
<1>3. v \in Vaults /\ v \in Keys
  BY <1>2, Names
<1>6. /\ now[v] # Blank /\ now[v].lamports = Rent[VaultSize] + x
      /\ now[v].beneficiary \in People
  <2> HIDE DEF v, p
  <2> QED BY <1>1, <1>2, <1>3, BlankIsAccount DEF Sound, Backed
<1>4. p \in People /\ p \in Keys /\ p # v /\ now[v] \in Account /\ now[p] \in Account
  BY <1>1, <1>2, <1>3, <1>6, Names
<1> HIDE DEF v, p, now
<1>5. now[v].lamports \in Nat /\ x \in 0..(U64 - 1) /\ now[p].lamports \in Nat
  BY <1>4, Fields
<1> HIDE DEF x
<1>7. 0 \in 0..(U64 - 1) /\ x \in Nat /\ now[v].lamports - x = Rent[VaultSize] + 0
      /\ now[v].lamports - x \in Nat
  BY <1>5, <1>6, Sizes
<1>8. IsMoved(now, v, p, x, paid)
  BY <1>1, <1>2, <1>3, <1>4, <1>7, Moved
<1> HIDE DEF paid
<1>9. /\ paid \in [Keys -> Account] /\ \A k \in Keys \ {v, p} : paid[k] = now[k]
      /\ paid[v] = WithBalance(now[v], now[v].lamports - x, now[v].amount)
  BY <1>8 DEF IsMoved
<1>10. IsWritten(paid, v, 0, after)
  BY <1>2, <1>3, <1>7, <1>9, Wrote
<1> HIDE DEF after
<1>11. /\ after \in [Keys -> Account] /\ \A k \in Keys \ {v} : after[k] = paid[k]
       /\ after[v] = WithBalance(now[v], now[v].lamports - x, 0)
  BY <1>9, <1>10 DEF IsWritten, WithBalance
<1>12. \A k \in Keys \ {v, p} : after[k] = now[k]
  BY <1>9, <1>11
<1>13. Sound(after)
  BY <1>1, <1>3, <1>4, <1>6, <1>7, <1>11, <1>12, Settles
<1>14. ASSUME NEW q \in People, after[q].lamports > now[q].lamports PROVE q = p
  <2>1. q \in Keys \ {v} /\ now[q] \in Account
    BY <1>1, <1>3, Names
  <2>2. now[q].lamports \in Nat
    BY <2>1, Fields
  <2> QED BY <2>1, <2>2, <1>12, <1>14
<1>15. Pays(c, after)
  <2>1. ASSUME NEW q \in People, after[q].lamports > c.l[q].lamports
        PROVE  /\ c.ix = "claim" /\ q = Key(c, 3) /\ Key(c, 2) \in DOMAIN Pda
               /\ Key(c, 1) = Pda[Key(c, 2)]
               /\ Required(c, "slot >= unlock_slot", c.slot >= At(c, 1).unlock_slot)
               /\ At(c, 1) # Blank
    <3>1. q = p
      BY <2>1, <1>14 DEF now
    <3> QED BY <3>1, <1>2, <1>6 DEF now, v, p, At, Key
  <2> QED BY <2>1 DEF Pays
<1>16. Shifts(c, after)
  <2>1. /\ after[v].lamports = Rent[VaultSize] + 0 /\ after[v].amount = 0
        /\ Rent[VaultSize] <= after[v].lamports
    <3>1. after[v].lamports = Rent[VaultSize] + 0 /\ after[v].amount = 0
      BY <1>7, <1>11 DEF WithBalance
    <3> QED BY <3>1, <1>7, Sizes
  <2>2. after[p] = WithBalance(now[p], now[p].lamports + x, now[p].amount)
    BY <1>4, <1>8, <1>11 DEF IsMoved
  <2>3. after[p].size = now[p].size /\ after[p].lamports = now[p].lamports + x
    BY <2>2 DEF WithBalance
  <2>4. Party(c) = p
    BY DEF Party, p
  <2> QED BY <1>2, <1>3, <1>4, <1>6, <1>11, <1>12, <2>1, <2>3, <2>4 DEF Shifts, now, p, v, x
<1> QED BY <1>13, <1>15, <1>16 DEF after

-----------------------------------------------------------------------------
(* A transaction.                                                          *)

\* What a send leaves of the accounts, whatever came of it.
Leaves(c, out) ==
    /\ Sound(out.l)
    /\ ~out.ok => out.l = c.l
    /\ Pays(c, out.l)

\* What it did, when it landed.
Landed(c, out) ==
    LET after == Execute(c) IN
    out.ok =>
        /\ after # Refused /\ Shifts(c, after) /\ RentHolds(c.l, after)
        /\ out.l = [k \in Keys |-> IF after[k].lamports = 0 THEN Blank ELSE after[k]]

LEMMA SendLeaves ==
    ASSUME NEW c, CleanCall(c)
    PROVE  Leaves(c, Send(c)) /\ Landed(c, Send(c))
<1> DEFINE after == Execute(c)
           now == c.l
           out == Send(c)
           kept == [k \in Keys |-> IF after[k].lamports = 0 THEN Blank ELSE after[k]]
<1> SUFFICES Leaves(c, out) /\ Landed(c, out)
  OBVIOUS
<1>1. Sound(now) /\ now \in [Keys -> Account]
  BY DEF CleanCall, Sound
<1>2. after # Refused => Sound(after) /\ Pays(c, after) /\ Shifts(c, after)
  <2>1. CASE c.ix \notin {"initialize", "deposit", "withdraw", "claim"}
    <3>1. c.ix \notin Handlers[c.prog]
      BY <2>1 DEF CleanCall, Handlers
    <3> QED BY <3>1, <2>1 DEF Execute
  <2>2. CASE c.ix = "initialize"
    <3>1. after = Initialize(c)
      BY <2>2 DEF Execute, Handlers, CleanCall
    <3> QED BY <3>1, <2>2, InitializeMakes
  <2>3. CASE c.ix = "deposit"
    <3>1. after = Deposit(c)
      BY <2>3 DEF Execute, Handlers, CleanCall
    <3> QED BY <3>1, <2>3, DepositMakes
  <2>4. CASE c.ix = "withdraw"
    <3>1. after = Withdraw(c)
      BY <2>4 DEF Execute, Handlers, CleanCall
    <3> QED BY <3>1, <2>4, WithdrawMakes
  <2>5. CASE c.ix = "claim"
    <3>1. after = Claim(c)
      BY <2>5 DEF Execute, Handlers, CleanCall
    <3> QED BY <3>1, <2>5, ClaimMakes
  <2> QED BY <2>1, <2>2, <2>3, <2>4, <2>5
<1> HIDE DEF after
<1>3. \/ out.l = now /\ ~out.ok
      \/ out.l = kept /\ out.ok /\ after # Refused /\ RentHolds(now, after)
  <2>1. out = Settled(now, after)
    BY DEF Send, after
  <2> HIDE DEF out, now, kept
  <2>2. CASE after = Refused \/ ~RentHolds(now, after)
    BY <2>1, <2>2 DEF Settled
  <2>3. CASE ~(after = Refused \/ ~RentHolds(now, after))
    BY <2>1, <2>3 DEF Settled, kept
  <2> QED BY <2>2, <2>3
<1> HIDE DEF out
<1>4. ASSUME out.l = now /\ ~out.ok PROVE Leaves(c, out)
  <2>1. Pays(c, out.l)
    <3>1. \A p \in People : now[p].lamports \in Nat
      BY <1>1, Names, Fields
    <3>2. \A p \in People : ~(out.l[p].lamports > now[p].lamports)
      BY <3>1, <1>4
    <3> QED BY <3>2 DEF Pays, now
  <2> QED BY <1>1, <1>4, <2>1 DEF Leaves, now
<1>5. ASSUME out.l = kept /\ out.ok /\ after # Refused PROVE Leaves(c, out)
  <2>1. Sound(after) /\ Pays(c, after) /\ after \in [Keys -> Account]
    BY <1>2, <1>5 DEF Sound
  <2>2. /\ kept \in [Keys -> Account]
        /\ \A k \in Keys : kept[k] = Blank \/ kept[k] = after[k]
    BY <2>1, BlankIsAccount
  <2>3. \A k \in Keys : kept[k].lamports = after[k].lamports
    BY <2>1, BlankIsAccount
  <2> HIDE DEF kept
  <2>4. Sound(kept)
    BY <2>1, <2>2, Names DEF Sound, Backed, Windowed
  <2>5. Pays(c, kept)
    BY <2>1, <2>3, Names DEF Pays
  <2> QED BY <1>5, <2>4, <2>5 DEF Leaves
<1>6. Landed(c, out)
  BY <1>2, <1>3 DEF Landed, after, kept, now
<1> QED BY <1>3, <1>4, <1>5, <1>6 DEF out

-----------------------------------------------------------------------------
(* The specs and the attempts of the scoring test.                         *)

\* What the declarations of escrow_clean have in common.
CleanSpec(s) ==
    /\ s.keys \in Seq(Keys) /\ 1 \in DOMAIN s.keys
    /\ ~s.bump
    /\ s.ix \in {"deposit", "withdraw"} => s.arg \in Nat
    /\ s.ix = "initialize" => /\ s.arg[1] \in People /\ s.arg[2] \in Nat
                              /\ s.keys[1] = "vault_init" /\ s.alternates = <<>>

\* What a spec says of its accounts, and what of the rest it leaves alone.
Reads(s, ix, keys, signers, typed, created, alternates) ==
    /\ DOMAIN s = DOMAIN Nothing
    /\ s.ix = ix /\ s.keys = keys /\ s.arg = Sample[ix]
    /\ s.flagged = signers /\ s.signerIndices = signers
    /\ s.owners = typed /\ s.discs = typed /\ s.creates = created
    /\ DOMAIN s.pda = {1} /\ s.alternates = alternates

Silent(s) ==
    s.capped = FALSE /\ s.budget = <<>> /\ s.reenters = FALSE /\ s.grows = FALSE
        /\ s.bump = FALSE /\ s.guards = {}

LEMMA VaultSpecs ==
    ASSUME NEW ix, NEW keys, NEW signers
    PROVE  LET s == VaultSpec(ix, keys, signers)
           IN  Reads(s, ix, keys, signers, {1}, {}, <<>>) /\ Silent(s)
<1> DEFINE seeds == <<<<"vault", keys[2]>>>>
           one == {1}
           s == VaultSpec(ix, keys, signers)
<1>0. DOMAIN seeds = {1}
  OBVIOUS
<1>1. s = [Nothing EXCEPT !.ix = ix, !.keys = keys, !.flagged = signers, !.signerIndices = signers,
                          !.owners = one, !.discs = one, !.pda = seeds, !.arg = Sample[ix]]
  BY DEF VaultSpec
<1> HIDE DEF s, seeds, one
<1>2. /\ DOMAIN s = DOMAIN Nothing
      /\ s.ix = ix /\ s.keys = keys /\ s.arg = Sample[ix]
      /\ s.flagged = signers /\ s.signerIndices = signers
      /\ s.owners = one /\ s.discs = one /\ s.creates = {}
      /\ s.pda = seeds /\ s.alternates = <<>>
  BY <1>1 DEF Nothing
<1>3. Silent(s)
  BY <1>1 DEF Nothing, Silent
<1> QED BY <1>0, <1>2, <1>3 DEF Reads, s, one

InitializeKeys == <<"vault_init", "initializer", "system_program">>
DepositKeys == <<"vault", "depositor", "system_program">>
WithdrawKeys == <<"vault", "depositor">>
ClaimKeys == <<"vault", "depositor", "beneficiary">>

LEMMA InitializeSays ==
    Reads(InitializeSpec, "initialize", InitializeKeys, {2}, {}, {1}, <<>>) /\ Silent(InitializeSpec)
<1> DEFINE s == VaultSpec("initialize", InitializeKeys, {2})
<1>1. Reads(s, "initialize", InitializeKeys, {2}, {1}, {}, <<>>) /\ Silent(s)
  BY VaultSpecs
<1>2. InitializeSpec = [s EXCEPT !.owners = {}, !.discs = {}, !.creates = {1}]
  BY DEF InitializeSpec, InitializeKeys
<1> HIDE DEF s
<1>3. Reads(InitializeSpec, "initialize", InitializeKeys, {2}, {}, {1}, <<>>)
  BY <1>1, <1>2 DEF Reads, Nothing
<1> QED BY <1>1, <1>2, <1>3 DEF Reads, Silent, Nothing

LEMMA DepositSays ==
    /\ Reads(DepositSpec, "deposit", DepositKeys, {2}, {1}, {}, <<"vault_b">>)
    /\ DepositSpec.guards = {"amount > 0"} /\ DepositSpec.budget = <<>>
    /\ ~DepositSpec.reenters /\ ~DepositSpec.grows /\ ~DepositSpec.bump
<1> DEFINE s == VaultSpec("deposit", DepositKeys, {2})
           yes == TRUE
           other == <<"vault_b">>
<1>1. Reads(s, "deposit", DepositKeys, {2}, {1}, {}, <<>>) /\ Silent(s)
  BY VaultSpecs
<1>2. DepositSpec = [s EXCEPT !.alternates = other, !.capped = yes, !.guards = {"amount > 0"}]
  BY DEF DepositSpec, DepositKeys
<1> HIDE DEF s, yes, other
<1>3. Reads(DepositSpec, "deposit", DepositKeys, {2}, {1}, {}, other)
  BY <1>1, <1>2 DEF Reads, Nothing
<1>4. /\ DepositSpec.guards = {"amount > 0"} /\ DepositSpec.budget = <<>>
      /\ DepositSpec.reenters = FALSE /\ DepositSpec.grows = FALSE /\ DepositSpec.bump = FALSE
  BY <1>1, <1>2 DEF Reads, Silent, Nothing
<1> QED BY <1>3, <1>4 DEF other

LEMMA WithdrawSays ==
    /\ Reads(WithdrawSpec, "withdraw", WithdrawKeys, {2}, {1}, {}, <<"vault_b">>)
    /\ WithdrawSpec.guards = {"slot < unlock_slot", "amount > 0", "amount <= vault.amount"}
    /\ WithdrawSpec.budget = <<>>
    /\ ~WithdrawSpec.reenters /\ ~WithdrawSpec.grows /\ ~WithdrawSpec.bump
<1> DEFINE s == VaultSpec("withdraw", WithdrawKeys, {2})
           yes == TRUE
           other == <<"vault_b">>
           all == {"slot < unlock_slot", "amount > 0", "amount <= vault.amount"}
<1>1. Reads(s, "withdraw", WithdrawKeys, {2}, {1}, {}, <<>>) /\ Silent(s)
  BY VaultSpecs
<1>2. WithdrawSpec = [s EXCEPT !.alternates = other, !.capped = yes, !.guards = all]
  BY DEF WithdrawSpec, WithdrawKeys
<1> HIDE DEF s, yes, other, all
<1>3. Reads(WithdrawSpec, "withdraw", WithdrawKeys, {2}, {1}, {}, other)
  BY <1>1, <1>2 DEF Reads, Nothing
<1>4. /\ WithdrawSpec.guards = all /\ WithdrawSpec.budget = <<>>
      /\ WithdrawSpec.reenters = FALSE /\ WithdrawSpec.grows = FALSE /\ WithdrawSpec.bump = FALSE
  BY <1>1, <1>2 DEF Reads, Silent, Nothing
<1> QED BY <1>3, <1>4 DEF other, all

LEMMA ClaimSays ==
    /\ Reads(ClaimSpec, "claim", ClaimKeys, {3}, {1}, {}, <<"vault_b">>)
    /\ ClaimSpec.guards = {"slot >= unlock_slot", "vault.amount > 0"}
    /\ ~ClaimSpec.capped /\ ClaimSpec.budget = <<>>
    /\ ~ClaimSpec.reenters /\ ~ClaimSpec.grows /\ ~ClaimSpec.bump
<1> DEFINE s == VaultSpec("claim", ClaimKeys, {3})
           other == <<"vault_b">>
           all == {"slot >= unlock_slot", "vault.amount > 0"}
<1>1. Reads(s, "claim", ClaimKeys, {3}, {1}, {}, <<>>) /\ Silent(s)
  BY VaultSpecs
<1>2. ClaimSpec = [s EXCEPT !.alternates = other, !.guards = all]
  BY DEF ClaimSpec, ClaimKeys
<1> HIDE DEF s, other, all
<1>3. Reads(ClaimSpec, "claim", ClaimKeys, {3}, {1}, {}, other)
  BY <1>1, <1>2 DEF Reads, Nothing
<1>4. /\ ClaimSpec.guards = all /\ ClaimSpec.budget = <<>> /\ ClaimSpec.capped = FALSE
      /\ ClaimSpec.reenters = FALSE /\ ClaimSpec.grows = FALSE /\ ClaimSpec.bump = FALSE
  BY <1>1, <1>2 DEF Reads, Silent, Nothing
<1> QED BY <1>3, <1>4 DEF other, all

LEMMA CleanSpecsAre ==
    \A n \in 1..4 :
        \/ n = 1 /\ HandSpecs("escrow_clean")[n] = InitializeSpec
        \/ n = 2 /\ HandSpecs("escrow_clean")[n] = DepositSpec
        \/ n = 3 /\ HandSpecs("escrow_clean")[n] = WithdrawSpec
        \/ n = 4 /\ HandSpecs("escrow_clean")[n] = ClaimSpec
BY DEF HandSpecs

LEMMA CleanSpecs == \A n \in 1..4 : CleanSpec(HandSpecs("escrow_clean")[n])
<1>1. CleanSpec(InitializeSpec)
  <2>1. InitializeKeys \in Seq(Keys) /\ 1 \in DOMAIN InitializeKeys /\ InitializeKeys[1] = "vault_init"
    BY DEF InitializeKeys, Keys, People, Vaults, Pda
  <2> QED BY <2>1, InitializeSays, HarnessAssumption DEF CleanSpec, Reads, Silent
<1>2. CleanSpec(DepositSpec)
  <2>1. DepositKeys \in Seq(Keys) /\ 1 \in DOMAIN DepositKeys
    BY DEF DepositKeys, Keys, People, Vaults, Pda
  <2>2. /\ DepositSpec.ix = "deposit" /\ DepositSpec.keys = DepositKeys
        /\ DepositSpec.arg = Sample["deposit"] /\ ~DepositSpec.bump
    BY DepositSays DEF Reads
  <2>3. Sample["deposit"] \in Nat
    BY HarnessAssumption
  <2> QED BY <2>1, <2>2, <2>3 DEF CleanSpec
<1>3. CleanSpec(WithdrawSpec)
  <2>1. WithdrawKeys \in Seq(Keys) /\ 1 \in DOMAIN WithdrawKeys
    BY DEF WithdrawKeys, Keys, People, Vaults, Pda
  <2>2. /\ WithdrawSpec.ix = "withdraw" /\ WithdrawSpec.keys = WithdrawKeys
        /\ WithdrawSpec.arg = Sample["withdraw"] /\ ~WithdrawSpec.bump
    BY WithdrawSays DEF Reads
  <2>3. Sample["withdraw"] \in Nat
    BY HarnessAssumption
  <2> QED BY <2>1, <2>2, <2>3 DEF CleanSpec
<1>4. CleanSpec(ClaimSpec)
  <2>1. ClaimKeys \in Seq(Keys) /\ 1 \in DOMAIN ClaimKeys
    BY DEF ClaimKeys, Keys, People, Vaults, Pda
  <2>2. ClaimSpec.ix = "claim" /\ ClaimSpec.keys = ClaimKeys /\ ~ClaimSpec.bump
    BY ClaimSays DEF Reads
  <2> QED BY <2>1, <2>2 DEF CleanSpec
<1> QED BY <1>1, <1>2, <1>3, <1>4, CleanSpecsAre

\* The specs of escrow: on the depositor's vault, and two others.
LEMMA UnsafeWithdrawSays ==
    /\ Reads(UnsafeWithdrawSpec, "unsafe_withdraw", WithdrawKeys, {2}, {1}, {}, <<"vault_b">>)
    /\ Silent(UnsafeWithdrawSpec)
<1> DEFINE s == VaultSpec("unsafe_withdraw", WithdrawKeys, {2})
           other == <<"vault_b">>
<1>1. Reads(s, "unsafe_withdraw", WithdrawKeys, {2}, {1}, {}, <<>>) /\ Silent(s)
  BY VaultSpecs
<1>2. UnsafeWithdrawSpec = [s EXCEPT !.alternates = other]
  BY DEF UnsafeWithdrawSpec, WithdrawKeys
<1> HIDE DEF s, other
<1>3. Reads(UnsafeWithdrawSpec, "unsafe_withdraw", WithdrawKeys, {2}, {1}, {}, other)
  BY <1>1, <1>2 DEF Reads, Nothing
<1> QED BY <1>1, <1>2, <1>3 DEF Reads, Silent, Nothing, other

SetAmountKeys == <<"vault_b", "vault">>

LEMMA SetAmountSays ==
    LET s == SetAmountSpec IN
    /\ s.ix = "unsafe_set_amount_from_source" /\ s.keys = SetAmountKeys
    /\ s.signerIndices = {} /\ s.pda = <<>> /\ s.alternates = <<>>
    /\ Silent(s)
<1> DEFINE s == SetAmountSpec
           two == {1, 2}
<1>1. s = [Nothing EXCEPT !.ix = "unsafe_set_amount_from_source", !.keys = SetAmountKeys,
                          !.owners = two, !.discs = two]
  BY DEF SetAmountSpec, SetAmountKeys
<1> HIDE DEF s, two
<1>2. /\ s.ix = "unsafe_set_amount_from_source" /\ s.keys = SetAmountKeys
      /\ s.signerIndices = {} /\ s.pda = <<>> /\ s.alternates = <<>>
  BY <1>1 DEF Nothing
<1>3. Silent(s)
  BY <1>1 DEF Nothing, Silent
<1> QED BY <1>2, <1>3 DEF s

LEMMA AccumulateYieldSays ==
    LET s == AccumulateYieldSpec IN
    /\ Reads(s, "unsafe_accumulate_yield", WithdrawKeys, {2}, {1}, {}, <<>>)
    /\ s.budget = <<>> /\ ~s.reenters /\ ~s.grows /\ ~s.bump /\ s.guards = {}
<1> DEFINE s == VaultSpec("unsafe_accumulate_yield", WithdrawKeys, {2})
           yes == TRUE
           t == AccumulateYieldSpec
<1>1. Reads(s, "unsafe_accumulate_yield", WithdrawKeys, {2}, {1}, {}, <<>>) /\ Silent(s)
  BY VaultSpecs
<1>2. t = [s EXCEPT !.capped = yes]
  BY DEF AccumulateYieldSpec, WithdrawKeys
<1> HIDE DEF s, yes, t
<1>3. Reads(t, "unsafe_accumulate_yield", WithdrawKeys, {2}, {1}, {}, <<>>)
  BY <1>1, <1>2 DEF Reads, Nothing
<1>4. /\ t.budget = <<>> /\ t.reenters = FALSE /\ t.grows = FALSE
      /\ t.bump = FALSE /\ t.guards = {}
  BY <1>1, <1>2 DEF Reads, Silent, Nothing
<1> QED BY <1>3, <1>4 DEF t

ComputeDosKeys == <<"depositor">>

LEMMA ComputeDosSays ==
    LET s == ComputeDosSpec IN
    /\ s.ix = "unsafe_compute_dos" /\ s.keys = ComputeDosKeys
    /\ s.flagged = {1} /\ s.signerIndices = {1} /\ s.arg = Sample["unsafe_compute_dos"]
    /\ s.owners = {} /\ s.discs = {} /\ s.pda = <<>> /\ s.alternates = <<>>
    /\ ~s.capped /\ ~s.reenters /\ ~s.grows /\ ~s.bump /\ s.guards = {}
<1> DEFINE s == ComputeDosSpec
           budget == <<CuBudget>>
           one == {1}
           no == FALSE
<1>0. Nothing.capped = no
  BY DEF Nothing
<1>1. s = [Nothing EXCEPT !.ix = "unsafe_compute_dos", !.keys = ComputeDosKeys, !.flagged = one,
                          !.signerIndices = one, !.arg = Sample["unsafe_compute_dos"],
                          !.budget = budget]
  BY DEF ComputeDosSpec, ComputeDosKeys
<1> HIDE DEF s, budget, one
<1>2. /\ s.ix = "unsafe_compute_dos" /\ s.keys = ComputeDosKeys
      /\ s.flagged = one /\ s.signerIndices = one /\ s.arg = Sample["unsafe_compute_dos"]
      /\ s.owners = {} /\ s.discs = {} /\ s.pda = <<>> /\ s.alternates = <<>>
  BY <1>1 DEF Nothing
<1>3. /\ s.capped = FALSE /\ s.reenters = FALSE /\ s.grows = FALSE /\ s.bump = FALSE
      /\ s.guards = {}
  BY <1>1 DEF Nothing
<1> QED BY <1>2, <1>3 DEF s, one

SelfReentryKeys == <<"vault", "depositor", "escrow_program">>

LEMMA SelfReentrySays ==
    LET s == SelfReentrySpec IN
    /\ Reads(s, "unsafe_self_reentry", SelfReentryKeys, {2}, {1}, {}, <<>>)
    /\ ~s.capped /\ s.budget = <<>> /\ ~s.grows /\ ~s.bump /\ s.guards = {}
<1> DEFINE s == VaultSpec("unsafe_self_reentry", SelfReentryKeys, {2})
           yes == TRUE
           t == SelfReentrySpec
<1>1. Reads(s, "unsafe_self_reentry", SelfReentryKeys, {2}, {1}, {}, <<>>) /\ Silent(s)
  BY VaultSpecs
<1>2. t = [s EXCEPT !.reenters = yes]
  BY DEF SelfReentrySpec, SelfReentryKeys
<1> HIDE DEF s, yes, t
<1>3. Reads(t, "unsafe_self_reentry", SelfReentryKeys, {2}, {1}, {}, <<>>)
  BY <1>1, <1>2 DEF Reads, Nothing
<1>4. /\ t.budget = <<>> /\ t.capped = FALSE /\ t.grows = FALSE
      /\ t.bump = FALSE /\ t.guards = {}
  BY <1>1, <1>2 DEF Reads, Silent, Nothing
<1> QED BY <1>3, <1>4 DEF t

LEMMA ReallocGrowSays ==
    LET s == ReallocGrowSpec IN
    /\ Reads(s, "unsafe_realloc_grow", WithdrawKeys, {2}, {1}, {}, <<>>)
    /\ ~s.capped /\ s.budget = <<>> /\ ~s.reenters /\ ~s.bump /\ s.guards = {}
<1> DEFINE s == VaultSpec("unsafe_realloc_grow", WithdrawKeys, {2})
           yes == TRUE
           t == ReallocGrowSpec
<1>1. Reads(s, "unsafe_realloc_grow", WithdrawKeys, {2}, {1}, {}, <<>>) /\ Silent(s)
  BY VaultSpecs
<1>2. t = [s EXCEPT !.grows = yes]
  BY DEF ReallocGrowSpec, WithdrawKeys
<1> HIDE DEF s, yes, t
<1>3. Reads(t, "unsafe_realloc_grow", WithdrawKeys, {2}, {1}, {}, <<>>)
  BY <1>1, <1>2 DEF Reads, Nothing
<1>4. /\ t.budget = <<>> /\ t.capped = FALSE /\ t.reenters = FALSE
      /\ t.bump = FALSE /\ t.guards = {}
  BY <1>1, <1>2 DEF Reads, Silent, Nothing
<1> QED BY <1>3, <1>4 DEF t

LEMMA WithdrawWithBumpSays ==
    LET s == WithdrawWithBumpSpec IN
    /\ Reads(s, "unsafe_withdraw_with_bump", WithdrawKeys, {}, {1}, {}, <<>>)
    /\ ~s.capped /\ s.budget = <<>> /\ ~s.reenters /\ ~s.grows /\ s.guards = {}
<1> DEFINE s == VaultSpec("unsafe_withdraw_with_bump", WithdrawKeys, {})
           yes == TRUE
           t == WithdrawWithBumpSpec
<1>1. Reads(s, "unsafe_withdraw_with_bump", WithdrawKeys, {}, {1}, {}, <<>>) /\ Silent(s)
  BY VaultSpecs
<1>2. t = [s EXCEPT !.bump = yes]
  BY DEF WithdrawWithBumpSpec, WithdrawKeys
<1> HIDE DEF s, yes, t
<1>3. Reads(t, "unsafe_withdraw_with_bump", WithdrawKeys, {}, {1}, {}, <<>>)
  BY <1>1, <1>2 DEF Reads, Nothing
<1>4. /\ t.budget = <<>> /\ t.capped = FALSE /\ t.reenters = FALSE
      /\ t.grows = FALSE /\ t.guards = {}
  BY <1>1, <1>2 DEF Reads, Silent, Nothing
<1> QED BY <1>3, <1>4 DEF t

EscrowSpec(n, s) ==
    \/ n = 1 /\ s = UnsafeWithdrawSpec
    \/ n = 2 /\ s = SetAmountSpec
    \/ n = 3 /\ s = AccumulateYieldSpec
    \/ n = 4 /\ s = ComputeDosSpec
    \/ n = 5 /\ s = SelfReentrySpec
    \/ n = 6 /\ s = ReallocGrowSpec
    \/ n = 7 /\ s = WithdrawWithBumpSpec

LEMMA EscrowSpecsAre ==
    /\ Len(HandSpecs("escrow")) = 7 /\ DOMAIN HandSpecs("escrow") = 1..7
    /\ \A n \in 1..7 : EscrowSpec(n, HandSpecs("escrow")[n])
BY DEF HandSpecs, EscrowSpec

\* An attempt, on a slot of the spec it is made of.
IsAttempt(s, a) ==
    /\ a.at \in DOMAIN s.keys
    /\ a.by = "owner-skip" => a.with \in {"system", "stranger"}
    /\ a.by = "discriminator-skip" => a.with = "wrong"

-----------------------------------------------------------------------------
(* An attempt on escrow_clean leaves no trace, and tells what is gone.     *)

\* What the detectors find between two bodies: a clean ledger, nothing at
\* the fake key, and a beneficiary.
Tidy(now) == \A k \in Keys : now[k].lamports = 0 => now[k] = Blank
Still(now) == Sound(now) /\ Tidy(now) /\ now["fake"] = Blank /\ now["beneficiary"] # Blank

\* A send that changed nothing but the fake key is put back.
LEMMA RefusedRestores ==
    ASSUME NEW now, Still(now), NEW after, DOMAIN after = Keys,
           \A k \in Keys \ {"fake"} : after[k] = now[k], NEW keys
    PROVE  Restored(now, after, keys) = now
<1> DEFINE of(k) == IF k = "fake" THEN Blank
                    ELSE IF k \in Range(keys) /\ now[k] # Blank THEN now[k] ELSE after[k]
<1>1. Restored(now, after, keys) = [k \in Keys |-> of(k)]
  BY DEF Restored
<1>2. \A k \in Keys : of(k) = now[k]
  BY DEF Still
<1>3. now = [k \in Keys |-> now[k]]
  BY DEF Still, Sound
<1> HIDE DEF of
<1> QED BY <1>1, <1>2, <1>3

\* What a call may send for the detectors to put it back.
Modest(c) ==
    /\ c.ix \in {"deposit", "withdraw", "claim"}
    /\ c.ix = "deposit" => c.arg > 0
    /\ c.ix = "withdraw" => c.arg \in 1..(Rent[0] - 1)
    /\ c.ix = "claim" => Key(c, 3) = "beneficiary"

\* A landed one too: both keys it changed were there before.
LEMMA LandedRestores ==
    ASSUME NEW c, CleanCall(c), Still(c.l), Modest(c), Send(c).ok,
           NEW keys, Key(c, 1) \in Range(keys), Party(c) \in Range(keys)
    PROVE  Restored(c.l, Send(c).l, keys) = c.l
<1> DEFINE now == c.l
           after == Execute(c)
           out == Send(c).l
           v == Key(c, 1)
           q == Party(c)
           of(k) == IF k = "fake" THEN Blank
                    ELSE IF k \in Range(keys) /\ now[k] # Blank THEN now[k] ELSE out[k]
<1>1. /\ Shifts(c, after) /\ RentHolds(now, after)
      /\ out = [k \in Keys |-> IF after[k].lamports = 0 THEN Blank ELSE after[k]]
  BY SendLeaves DEF Landed
<1>2. /\ now \in [Keys -> Account] /\ now = [k \in Keys |-> now[k]]
      /\ now["fake"] = Blank /\ \A k \in Keys : now[k].lamports = 0 => now[k] = Blank
  BY DEF Still, Sound, Tidy
<1>3. v \in Vaults /\ q \in People /\ \A k \in Keys \ {v, q} : after[k] = now[k]
  BY <1>1 DEF Shifts
<1>4. v \in Keys /\ q \in Keys
  BY <1>3, Names
<1>5. now[v] # Blank
  BY <1>1 DEF Shifts, Modest
<1>6. now[q] # Blank
  <2>1. now[q] \in Account /\ now[q].lamports \in Nat
    BY <1>2, <1>4, Fields
  <2>2. CASE c.ix = "deposit"
    <3>1. c.arg > 0 /\ c.arg <= now[q].lamports /\ c.arg \in Nat
      BY <2>2, <1>1 DEF Shifts, Modest, CleanCall
    <3> QED BY <2>1, <3>1, BlankIsAccount
  <2>3. CASE c.ix = "claim"
    BY <2>3 DEF Modest, Party, Still
  <2>4. CASE c.ix = "withdraw"
    <3> SUFFICES ASSUME now[q] = Blank PROVE FALSE
      OBVIOUS
    <3>1. /\ c.arg \in 1..(Rent[0] - 1) /\ Rent[0] \in Nat
          /\ after[q].lamports = now[q].lamports + c.arg /\ after[q].size = now[q].size
      <4>1. Rent[0] \in Nat
        <5>1. 0 \in 0..(VaultSize + MaxIncrease)
          BY EscrowAssumption
        <5> QED BY <5>1, EscrowAssumption
      <4> QED BY <2>4, <1>1, <4>1 DEF Shifts, Modest
    <3>2. Blank.size = 0 /\ Blank.lamports = 0
      BY DEF Blank
    <3>3. after[q].lamports \in 1..(Rent[0] - 1) /\ after[q].size = 0
      BY <3>1, <3>2
    <3>4. after[q] # now[q]
      BY <3>2, <3>3
    <3>5. Exempt(after[q])
      BY <1>1, <1>4, <3>4 DEF RentHolds
    <3> QED BY <3>1, <3>3, <3>5 DEF Exempt
  <2> QED BY <2>2, <2>3, <2>4 DEF Modest
<1> HIDE DEF out, after, v, q, now
<1>7. ASSUME NEW k \in Keys PROVE of(k) = now[k]
  <2>1. CASE k = "fake"
    BY <2>1, <1>2
  <2>2. CASE k # "fake" /\ k \in {v, q}
    <3>1. v \in Range(keys) /\ q \in Range(keys)
      BY DEF v, q
    <3> QED BY <2>2, <3>1, <1>5, <1>6
  <2>3. CASE k # "fake" /\ k \notin {v, q}
    <3>1. out[k] = now[k]
      BY <2>3, <1>1, <1>2, <1>3
    <3> QED BY <2>3, <3>1
  <2> QED BY <2>1, <2>2, <2>3
<1>8. Restored(now, out, keys) = [k \in Keys |-> of(k)]
  <2>1. DOMAIN out = Keys
    BY <1>1
  <2> QED BY <2>1 DEF Restored
<1> HIDE DEF of
<1> QED BY <1>2, <1>7, <1>8 DEF now, out

LEMMA RefusedSend ==
    ASSUME NEW c, Execute(c) = Refused
    PROVE  Send(c).ok = FALSE /\ Send(c).l = c.l
BY DEF Send, Settled

\* The depositor's seeds give one address only.
LEMMA Unseeded ==
    ASSUME NEW c, c.ix \in {"deposit", "withdraw", "claim"}, c.prog = "escrow_clean",
           Key(c, 2) = "depositor", Key(c, 1) # "vault"
    PROVE  Execute(c) = Refused
<1>1. ~IsSeeded(c, 1, 2)
  BY Names DEF IsSeeded
<1>2. Deposit(c) = Refused /\ Withdraw(c) = Refused /\ Claim(c) = Refused
  BY <1>1 DEF Deposit, Withdraw, Claim, IsDepositorsVault
<1> QED BY <1>2 DEF Execute, Handlers

\* Without the signature only a handler lands whose check of it is gone, and
\* that calls no other program.
LEMMA Unsigned ==
    ASSUME NEW c, c.ix \in {"initialize", "deposit", "withdraw", "claim"}, c.prog = "escrow_clean",
           Party(c) \notin c.signed, Execute(c) # Refused
    PROVE  c.ix \in {"withdraw", "claim"} /\ c.dropped = <<"signer-type-weaken", c.ix>>
<1>1. CASE c.ix = "initialize"
  BY <1>1 DEF Execute, Handlers, Initialize, Signs, Party
<1>2. CASE c.ix = "deposit"
  BY <1>2 DEF Execute, Handlers, Deposit, Signs, Party
<1>3. CASE c.ix = "withdraw"
  <2>1. IsSigner(c, 2)
    BY <1>3 DEF Execute, Handlers, Withdraw, IsDepositorsVault
  <2> QED BY <1>3, <2>1 DEF IsSigner, Signs, Party
<1>4. CASE c.ix = "claim"
  <2>1. IsSigner(c, 3)
    BY <1>4 DEF Execute, Handlers, Claim
  <2> QED BY <1>4, <2>1 DEF IsSigner, Signs, Party
<1> QED BY <1>1, <1>2, <1>3, <1>4

\* The three specs on the depositor's vault, and who signs them.
PartySlot(s) == IF s.ix = "claim" THEN 3 ELSE 2

Bank(s) ==
    /\ s.ix \in {"deposit", "withdraw", "claim"} /\ s.arg = Sample[s.ix]
    /\ s.keys \in Seq(Keys) /\ {1, 2, PartySlot(s)} \subseteq DOMAIN s.keys
    /\ s.keys[1] = "vault" /\ s.keys[2] = "depositor"
    /\ s.ix = "claim" => s.keys[3] = "beneficiary"
    /\ s.flagged = {PartySlot(s)} /\ s.signerIndices = {PartySlot(s)}
    /\ s.owners = {1} /\ s.discs = {1} /\ s.creates = {} /\ s.alternates = <<"vault_b">>
    /\ s.ix = "deposit" => s.guards = {"amount > 0"}
    /\ s.ix = "withdraw" => s.guards = {"slot < unlock_slot", "amount > 0", "amount <= vault.amount"}
    /\ s.ix = "claim" => s.guards = {"slot >= unlock_slot", "vault.amount > 0"} /\ ~s.capped
    /\ s.budget = <<>> /\ ~s.reenters /\ ~s.grows /\ ~s.bump

LEMMA BankSpecs == \A s \in {DepositSpec, WithdrawSpec, ClaimSpec} : Bank(s)
<1>1. Bank(DepositSpec)
  <2>1. /\ DepositKeys \in Seq(Keys) /\ {1, 2} \subseteq DOMAIN DepositKeys
        /\ DepositKeys[1] = "vault" /\ DepositKeys[2] = "depositor"
    BY DEF DepositKeys, Keys, People, Vaults, Pda
  <2> QED BY <2>1, DepositSays DEF Reads, Bank, PartySlot
<1>2. Bank(WithdrawSpec)
  <2>1. /\ WithdrawKeys \in Seq(Keys) /\ {1, 2} \subseteq DOMAIN WithdrawKeys
        /\ WithdrawKeys[1] = "vault" /\ WithdrawKeys[2] = "depositor"
    BY DEF WithdrawKeys, Keys, People, Vaults, Pda
  <2> QED BY <2>1, WithdrawSays DEF Reads, Bank, PartySlot
<1>3. Bank(ClaimSpec)
  <2>1. /\ ClaimKeys \in Seq(Keys) /\ {1, 2, 3} \subseteq DOMAIN ClaimKeys
        /\ ClaimKeys[1] = "vault" /\ ClaimKeys[2] = "depositor" /\ ClaimKeys[3] = "beneficiary"
    BY DEF ClaimKeys, Keys, People, Vaults, Pda
  <2> QED BY <2>1, ClaimSays DEF Reads, Bank, PartySlot
<1> QED BY <1>1, <1>2, <1>3

LEMMA BankIsClean ==
    ASSUME NEW s, Bank(s)
    PROVE  CleanSpec(s)
<1>1. {Sample["deposit"], Sample["withdraw"]} \subseteq Nat
  BY HarnessAssumption
<1> QED BY <1>1 DEF Bank, CleanSpec

\* The call a detector makes of a spec.
IsCall(c, m, now, s, keys, signed) ==
    /\ c.prog = "escrow_clean" /\ c.dropped = m /\ c.l = now /\ c.slot = slot /\ c.ix = s.ix
    /\ c.keys = keys /\ c.signed = signed /\ c.arg = s.arg

LEMMA SentCalls ==
    ASSUME prog = "escrow_clean", NEW m, NEW now, NEW s, NEW keys, NEW flags
    PROVE  \E c : /\ IsCall(c, m, now, s, keys, {keys[i] : i \in flags})
                  /\ Sent(m, now, s, keys, flags, s.arg) = Send(c)
<1> DEFINE signed == {keys[i] : i \in flags}
           c == Call(prog, m, now, slot, s.ix, keys, signed, s.arg)
<1>1. Sent(m, now, s, keys, flags, s.arg) = Send(c)
  BY DEF Sent
<1>2. IsCall(c, m, now, s, keys, signed)
  <2> HIDE DEF signed
  <2> QED BY DEF IsCall, Call
<1> HIDE DEF c
<1> QED BY <1>1, <1>2

\* What the harness sends of a bank's spec is put back.
LEMMA BankCalls ==
    ASSUME NEW m, NEW now, Still(now), NEW s, Bank(s), NEW signed, NEW c,
           IsCall(c, m, now, s, s.keys, signed)
    PROVE  /\ CleanCall(c) /\ Modest(c) /\ Key(c, 1) = "vault" /\ Key(c, 2) = "depositor"
           /\ Party(c) = s.keys[PartySlot(s)]
           /\ Send(c).ok => Restored(now, Send(c).l, s.keys) = now
<1>1. Key(c, 1) = "vault" /\ Key(c, 2) = "depositor" /\ (s.ix = "claim" => Key(c, 3) = "beneficiary")
  BY DEF IsCall, Key, Bank
<1>2. CleanCall(c)
  BY <1>1, BankIsClean DEF CleanCall, CleanSpec, IsCall, Still, Bank
<1>3. Modest(c)
  BY <1>1, ScoringAssumption DEF Modest, IsCall, Bank
<1>4. Party(c) = s.keys[PartySlot(s)]
  BY DEF Party, PartySlot, IsCall, Key
<1>5. Key(c, 1) \in Range(s.keys) /\ Party(c) \in Range(s.keys)
  <2>1. 1 \in DOMAIN s.keys /\ PartySlot(s) \in DOMAIN s.keys /\ s.keys[1] = "vault"
    BY DEF Bank
  <2>2. \A i \in DOMAIN s.keys : s.keys[i] \in Range(s.keys)
    BY DEF Range
  <2>3. s.keys[1] \in Range(s.keys) /\ s.keys[PartySlot(s)] \in Range(s.keys)
    BY <2>1, <2>2
  <2> QED BY <1>1, <1>4, <2>1, <2>3
<1>6. c.l = now
  BY DEF IsCall
<1> QED BY <1>1, <1>2, <1>3, <1>4, <1>5, <1>6, LandedRestores

\* A tampered attempt that lands is the one without the signature, and says
\* whose check is gone.
TamperTells(m, now, s, a, out) ==
    /\ out.l = now
    /\ out.ok => /\ out.guilty /\ a.by = "signer-skip" /\ s.ix \in {"withdraw", "claim"}
                 /\ m = <<"signer-type-weaken", s.ix>>
    /\ out.guilty => out.ok

LEMMA UnsignedTells ==
    ASSUME prog = "escrow_clean", NEW m, NEW now, Still(now), NEW s, Bank(s), NEW a,
           a.by = "signer-skip", a.at \in s.signerIndices
    PROVE  TamperTells(m, now, s, a, Tamper(m, now, s, a))
<1> DEFINE out == Sent(m, now, s, s.keys, {}, s.arg)
<1>1. Tamper(m, now, s, a) = Judged(now, s.keys, out)
  <2>1. s.flagged \ {a.at} = {}
    BY DEF Bank
  <2>2. a.by \notin Faking /\ a.by # "account-swap" /\ a.by # "discriminator-skip"
    BY DEF Faking
  <2> QED BY <2>1, <2>2 DEF Tamper
<1>2. PICK c : /\ IsCall(c, m, now, s, s.keys, {s.keys[i] : i \in {}}) /\ out = Send(c)
  BY SentCalls
<1> HIDE DEF out
<1>3. IsCall(c, m, now, s, s.keys, {})
  BY <1>2 DEF IsCall
<1>4. /\ CleanCall(c) /\ Key(c, 1) = "vault" /\ Modest(c)
      /\ out.ok => Restored(now, out.l, s.keys) = now
  BY <1>2, <1>3, BankCalls
<1>5. c.l = now /\ c.dropped = m /\ c.ix = s.ix /\ c.signed = {} /\ c.prog = "escrow_clean"
  BY <1>3 DEF IsCall
<1>6. ~out.ok => out.l = now
  BY <1>2, <1>4, <1>5, SendLeaves DEF Leaves
<1>7. Restored(now, out.l, s.keys) = now
  <2>1. CASE out.ok
    BY <2>1, <1>4
  <2>2. CASE ~out.ok
    <3>1. DOMAIN now = Keys
      BY DEF Still, Sound
    <3> QED BY <2>2, <1>6, <3>1, RefusedRestores
  <2> QED BY <2>1, <2>2
<1>8. ASSUME out.ok
      PROVE  /\ s.ix \in {"withdraw", "claim"} /\ m = <<"signer-type-weaken", s.ix>>
             /\ \E k \in Range(s.keys) : out.l[k] # now[k]
  <2> DEFINE after == Execute(c)
  <2>1. /\ after # Refused /\ Shifts(c, after)
        /\ out.l = [k \in Keys |-> IF after[k].lamports = 0 THEN Blank ELSE after[k]]
    BY <1>2, <1>4, <1>8, SendLeaves DEF Landed
  <2>2. c.ix \in {"withdraw", "claim"} /\ c.dropped = <<"signer-type-weaken", c.ix>>
    <3>1. Party(c) \notin c.signed
      BY <1>5
    <3>2. c.ix \in {"initialize", "deposit", "withdraw", "claim"}
      BY <1>4 DEF Modest
    <3>3. Execute(c) # Refused /\ c.prog = "escrow_clean"
      BY <1>5, <2>1
    <3> HIDE DEF after
    <3> QED BY <3>1, <3>2, <3>3, Unsigned
  <2>3. "vault" \in Keys /\ "vault" \in Range(s.keys)
    BY Names DEF Bank, Range
  <2>4. out.l["vault"] = after["vault"]
    BY <1>4, <2>1, <2>3, Sizes DEF Shifts
  <2>5. now["vault"] \in Account /\ now["vault"].amount \in Nat
    <3>1. now["vault"] \in Account
      BY <2>3 DEF Still, Sound
    <3>2. now["vault"].amount \in 0..(U64 - 1)
      BY <3>1, Fields
    <3> QED BY <3>1, <3>2, Sizes
  <2>6. after["vault"].amount # now["vault"].amount
    <3>1. CASE c.ix = "withdraw"
      <4>1. after["vault"].amount = now["vault"].amount - c.arg /\ c.arg \in 1..(Rent[0] - 1)
        BY <3>1, <1>4, <1>5, <2>1 DEF Shifts, Modest
      <4> QED BY <4>1, <2>5
    <3>2. CASE c.ix = "claim"
      <4>1. after["vault"].amount = 0
        BY <3>2, <1>4, <2>1 DEF Shifts
      <4>2. Required(c, "amount > 0", now["vault"].amount > 0)
        <5>1. Claim(c) # Refused
          BY <3>2, <2>1, <1>5 DEF Execute, Handlers
        <5>2. At(c, 1).amount = now["vault"].amount
          BY <1>4, <1>5 DEF At, Key
        <5>3. Required(c, "amount > 0", At(c, 1).amount > 0)
          BY <5>1 DEF Claim
        <5> QED BY <5>2, <5>3 DEF Required
      <4>3. c.dropped # <<"guard-drop", c.ix, "amount > 0">>
        BY <2>2
      <4> DEFINE some == now["vault"].amount > 0
      <4>4. Required(c, "amount > 0", some)
        BY <4>2
      <4> HIDE DEF some
      <4>5. some
        BY <4>3, <4>4 DEF Required
      <4> QED BY <4>1, <4>5 DEF some
    <3> QED BY <3>1, <3>2, <2>2
  <2> QED BY <1>5, <2>2, <2>3, <2>4, <2>6
<1>9. /\ Judged(now, s.keys, out).l = Restored(now, out.l, s.keys)
      /\ Judged(now, s.keys, out).ok = out.ok
      /\ Judged(now, s.keys, out).guilty = (out.ok /\ \E k \in Range(s.keys) : out.l[k] # now[k])
  BY DEF Judged
<1> QED BY <1>1, <1>7, <1>8, <1>9 DEF TamperTells

LEMMA SwappedTells ==
    ASSUME prog = "escrow_clean", NEW m, NEW now, Still(now), NEW s, Bank(s), NEW a,
           a.by \in Faking \cup {"account-swap"}, a.at = 1
    PROVE  TamperTells(m, now, s, a, Tamper(m, now, s, a))
<1> DEFINE real == now[s.keys[a.at]]
           copy == CASE a.by = "owner-skip"         -> [real EXCEPT !.owner = a.with]
                     [] a.by = "discriminator-skip" -> [real EXCEPT !.disc = a.with]
                     [] OTHER                       -> real
           armed == IF a.by \in Faking THEN [now EXCEPT !["fake"] = copy] ELSE now
           keys == CASE a.by \in Faking          -> [s.keys EXCEPT ![a.at] = "fake"]
                     [] a.by = "account-swap"    -> [s.keys EXCEPT ![a.at] = s.alternates[a.at]]
                     [] OTHER                    -> s.keys
           watched == IF a.by = "account-swap" THEN keys ELSE s.keys
           out == Sent(m, armed, s, keys, s.flagged, s.arg)
<1>1. a.by # "signer-skip"
  BY DEF Faking
<1>3. DOMAIN armed = Keys /\ \A k \in Keys \ {"fake"} : armed[k] = now[k]
  <2>1. DOMAIN now = Keys
    BY DEF Still, Sound
  <2> HIDE DEF copy
  <2> QED BY <2>1
<1>4. keys[1] # "vault" /\ keys[2] = "depositor"
  <2>1. s.keys \in Seq(Keys) /\ 1 \in DOMAIN s.keys /\ s.keys[2] = "depositor"
        /\ s.alternates[1] = "vault_b"
    <3>1. s.alternates = <<"vault_b">>
      BY DEF Bank
    <3>2. s.alternates[1] = "vault_b"
      BY <3>1
    <3>3. s.keys \in Seq(Keys) /\ 1 \in DOMAIN s.keys /\ s.keys[2] = "depositor"
      BY DEF Bank
    <3> QED BY <3>2, <3>3
  <2>2. CASE a.by \in Faking
    <3>1. keys = [s.keys EXCEPT ![1] = "fake"]
      BY <2>2 DEF Faking
    <3> HIDE DEF keys
    <3> QED BY <2>1, <3>1
  <2>3. CASE a.by = "account-swap"
    <3>1. keys = [s.keys EXCEPT ![1] = "vault_b"]
      BY <2>1, <2>3 DEF Faking
    <3> HIDE DEF keys
    <3> QED BY <2>1, <3>1
  <2> QED BY <2>2, <2>3
<1> HIDE DEF armed, keys, watched, copy, real
<1>2. \/ Tamper(m, now, s, a) = [ok |-> FALSE, l |-> now, guilty |-> FALSE]
      \/ Tamper(m, now, s, a) = Judged(now, watched, out)
  <2> DEFINE flags == IF a.by = "signer-skip" THEN s.flagged \ {a.at} ELSE s.flagged
  <2>1. flags = s.flagged
    BY <1>1
  <2>2. out = Sent(m, armed, s, keys, flags, s.arg)
    BY <2>1
  <2> HIDE DEF out, flags
  <2>3. \/ Tamper(m, now, s, a) = [ok |-> FALSE, l |-> now, guilty |-> FALSE]
        \/ Tamper(m, now, s, a) = Judged(now, watched, Sent(m, armed, s, keys, flags, s.arg))
    BY DEF Tamper, armed, keys, watched, copy, real, flags
  <2> QED BY <2>2, <2>3
<1>5. out.ok = FALSE /\ out.l = armed
  <2>1. PICK c : /\ IsCall(c, m, armed, s, keys, {keys[i] : i \in s.flagged}) /\ out = Send(c)
    BY SentCalls
  <2>2. /\ c.prog = "escrow_clean" /\ c.l = armed /\ c.ix \in {"deposit", "withdraw", "claim"}
        /\ Key(c, 1) # "vault" /\ Key(c, 2) = "depositor"
    BY <1>4, <2>1 DEF IsCall, Key, Bank
  <2>3. Execute(c) = Refused
    BY <2>2, Unseeded
  <2> HIDE DEF out
  <2> QED BY <2>1, <2>2, <2>3, RefusedSend
<1> HIDE DEF out
<1>6. Restored(now, out.l, watched) = now
  BY <1>3, <1>5, RefusedRestores
<1>7. /\ Judged(now, watched, out).l = now
      /\ Judged(now, watched, out).ok = FALSE
      /\ Judged(now, watched, out).guilty = FALSE
  BY <1>5, <1>6 DEF Judged
<1> QED BY <1>2, <1>7 DEF TamperTells

\* Nobody but the payer starts a vault.
LEMMA InitializeTells ==
    ASSUME prog = "escrow_clean", NEW m, NEW now, Still(now), NEW a,
           a.by \in Critical, Declares(InitializeSpec, a)
    PROVE  TamperTells(m, now, InitializeSpec, a, Tamper(m, now, InitializeSpec, a))
<1> DEFINE s == InitializeSpec
           out == Sent(m, now, s, s.keys, {}, s.arg)
<1>1. /\ s.ix = "initialize" /\ s.keys = InitializeKeys /\ s.flagged = {2}
      /\ s.signerIndices = {2} /\ s.owners = {} /\ s.discs = {} /\ DOMAIN s.pda = {1}
      /\ s.creates = {1} /\ s.alternates = <<>>
  BY InitializeSays DEF Reads
<1> HIDE DEF s
<1>2. a.by = "signer-skip" /\ a.at = 2
  <2>1. DOMAIN s.alternates = {} /\ DOMAIN s.pda \ s.creates = {}
    BY <1>1
  <2>2. Declares(s, a)
    BY DEF s
  <2>3. CASE a.by = "signer-skip"
    BY <1>1, <2>2, <2>3 DEF Declares
  <2>4. CASE a.by = "owner-skip"
    BY <1>1, <2>2, <2>4 DEF Declares
  <2>5. CASE a.by = "discriminator-skip"
    BY <1>1, <2>2, <2>5 DEF Declares
  <2>6. CASE a.by = "pda-forge"
    BY <2>1, <2>2, <2>6 DEF Declares
  <2>7. CASE a.by = "account-swap"
    BY <2>1, <2>2, <2>7 DEF Declares
  <2> QED BY <2>3, <2>4, <2>5, <2>6, <2>7 DEF Critical
<1>3. Tamper(m, now, s, a) = Judged(now, s.keys, out)
  <2>1. s.flagged \ {a.at} = {}
    BY <1>1, <1>2
  <2>2. a.by \notin Faking /\ a.by # "account-swap" /\ a.by # "discriminator-skip"
    BY <1>2 DEF Faking
  <2> QED BY <1>2, <2>1, <2>2 DEF Tamper
<1>4. PICK c : /\ IsCall(c, m, now, s, s.keys, {s.keys[i] : i \in {}}) /\ out = Send(c)
  BY SentCalls
<1> HIDE DEF out
<1>5. /\ c.prog = "escrow_clean" /\ c.l = now /\ c.ix = "initialize" /\ c.signed = {}
  BY <1>1, <1>4 DEF IsCall
<1>6. Party(c) \notin c.signed
  BY <1>5
<1>7. Execute(c) = Refused
  BY <1>5, <1>6, Unsigned
<1>8. out.ok = FALSE /\ out.l = now
  BY <1>4, <1>5, <1>7, RefusedSend
<1>9. Restored(now, out.l, s.keys) = now
  <2>1. DOMAIN now = Keys
    BY DEF Still, Sound
  <2> QED BY <1>8, <2>1, RefusedRestores
<1>10. /\ Judged(now, s.keys, out).l = now
       /\ Judged(now, s.keys, out).ok = FALSE
       /\ Judged(now, s.keys, out).guilty = FALSE
  BY <1>8, <1>9 DEF Judged
<1> QED BY <1>3, <1>10 DEF TamperTells, s

LEMMA TamperedTells ==
    ASSUME prog = "escrow_clean", NEW m, NEW now, Still(now), NEW n \in 1..4, NEW a,
           a.by \in Critical, Declares(HandSpecs("escrow_clean")[n], a)
    PROVE  LET s == HandSpecs("escrow_clean")[n] IN TamperTells(m, now, s, a, Tamper(m, now, s, a))
<1> DEFINE s == HandSpecs("escrow_clean")[n]
<1>1. CASE s = InitializeSpec
  BY <1>1, InitializeTells
<1>2. CASE s \in {DepositSpec, WithdrawSpec, ClaimSpec}
  <2>1. Bank(s) /\ Declares(s, a)
    BY <1>2, BankSpecs
  <2> HIDE DEF s
  <2>2. CASE a.by = "signer-skip"
    <3>1. a.at \in s.signerIndices
      BY <2>1, <2>2 DEF Declares
    <3> QED BY <2>1, <2>2, <3>1, UnsignedTells DEF s
  <2>3. CASE a.by \in Faking \cup {"account-swap"}
    <3>1. /\ s.owners = {1} /\ s.discs = {1} /\ s.alternates = <<"vault_b">>
          /\ DOMAIN s.pda \subseteq {1}
      <4>1. DOMAIN s.pda = {1}
        BY <1>2, DepositSays, WithdrawSays, ClaimSays DEF Reads
      <4> QED BY <2>1, <4>1 DEF Bank
    <3>2. a.at = 1
      <4>1. CASE a.by = "owner-skip"
        BY <2>1, <3>1, <4>1 DEF Declares
      <4>2. CASE a.by = "discriminator-skip"
        BY <2>1, <3>1, <4>2 DEF Declares
      <4>3. CASE a.by = "pda-forge"
        BY <2>1, <3>1, <4>3 DEF Declares
      <4>4. CASE a.by = "account-swap"
        <5>1. DOMAIN s.alternates = {1}
          BY <3>1
        <5> QED BY <2>1, <5>1, <4>4 DEF Declares
      <4> QED BY <2>3, <4>1, <4>2, <4>3, <4>4 DEF Faking
    <3> QED BY <2>1, <2>3, <3>2, SwappedTells DEF s
  <2> QED BY <2>2, <2>3 DEF Critical, Faking
<1> QED BY <1>1, <1>2, CleanSpecsAre

\* The same call, of the program nothing is gone from.
Unmutated(c, c0) ==
    /\ c0.dropped = <<>> /\ c0.prog = c.prog /\ c0.l = c.l /\ c0.slot = c.slot /\ c0.ix = c.ix
    /\ c0.keys = c.keys /\ c0.signed = c.signed /\ c0.arg = c.arg

LEMMA UnmutatedReads ==
    ASSUME NEW c, NEW c0, Unmutated(c, c0)
    PROVE  /\ Key(c0, 1) = Key(c, 1) /\ Key(c0, 2) = Key(c, 2) /\ Key(c0, 3) = Key(c, 3)
           /\ At(c0, 1) = At(c, 1) /\ At(c0, 2) = At(c, 2)
           /\ IsVault(c0, 1) <=> IsVault(c, 1)
           /\ IsSeeded(c0, 1, 2) <=> IsSeeded(c, 1, 2)
           /\ IsSigner(c0, 2) <=> Signs(c, 2)
           /\ IsSigner(c0, 3) <=> Signs(c, 3)
           /\ Signs(c0, 2) <=> Signs(c, 2)
           /\ BeforeUnlock(c0) <=> BeforeUnlock(c)
<1>1. /\ Key(c0, 1) = Key(c, 1) /\ Key(c0, 2) = Key(c, 2) /\ Key(c0, 3) = Key(c, 3)
      /\ At(c0, 1) = At(c, 1) /\ At(c0, 2) = At(c, 2)
  BY DEF Unmutated, Key, At
<1>2. IsVault(c0, 1) <=> IsVault(c, 1)
  BY <1>1 DEF IsVault
<1>3. IsSeeded(c0, 1, 2) <=> IsSeeded(c, 1, 2)
  BY <1>1 DEF IsSeeded
<1>4. (Signs(c0, 2) <=> Signs(c, 2)) /\ (Signs(c0, 3) <=> Signs(c, 3))
  BY <1>1 DEF Signs, Unmutated
<1>5. (IsSigner(c0, 2) <=> Signs(c, 2)) /\ (IsSigner(c0, 3) <=> Signs(c, 3))
  BY <1>4 DEF IsSigner, Unmutated
<1>6. BeforeUnlock(c0) <=> BeforeUnlock(c)
  BY <1>1 DEF BeforeUnlock, Unmutated
<1> QED BY <1>1, <1>2, <1>3, <1>4, <1>5, <1>6

LEMMA DepositTells ==
    ASSUME NEW c, CleanCall(c), c.ix = "deposit", NEW c0, Unmutated(c, c0),
           Signs(c, 2), c.arg > 0, Execute(c) # Refused
    PROVE  Execute(c0) = Execute(c)
<1> DEFINE v == At(c, 1)
           sum == v.amount + c.arg
           made == Write(Move(c.l, Key(c, 2), Key(c, 1), c.arg), Key(c, 1), "amount", sum % U64)
<1>1. Execute(c) = Deposit(c) /\ Execute(c0) = Deposit(c0)
  BY DEF Execute, Handlers, CleanCall, Unmutated
<1>2. /\ IsVault(c, 1) /\ IsSeeded(c, 1, 2) /\ v.depositor = Key(c, 2)
      /\ Key(c, 3) = "system_program" /\ At(c, 2).owner = "system" /\ At(c, 2).lamports >= c.arg
      /\ v.lamports + c.arg < U64 /\ Deposit(c) = made
  BY <1>1 DEF Deposit, IsDepositorsVault
<1>3. sum < U64
  <2> DEFINE after == Deposit(c)
  <2>1. Shifts(c, after)
    BY <1>1, DepositMakes
  <2> HIDE DEF after
  <2>2. after[Key(c, 1)] \in Account /\ after[Key(c, 1)].amount = sum
    BY <2>1, Names DEF Shifts, At, Key
  <2>3. sum \in 0..(U64 - 1)
    BY <2>2, Fields
  <2> QED BY <2>3, Sizes
<1> HIDE DEF v, sum, made
<1>4. IsDepositorsVault(c0)
  BY <1>2, UnmutatedReads DEF IsDepositorsVault, v
<1>5. Required(c0, "amount > 0", c0.arg > 0)
  BY DEF Required, Unmutated
<1>6. /\ Key(c0, 3) = "system_program" /\ Signs(c0, 2) /\ At(c0, 2).owner = "system"
      /\ At(c0, 2).lamports >= c0.arg /\ At(c0, 1).lamports + c0.arg < U64
      /\ At(c0, 1).amount + c0.arg < U64
  BY <1>2, <1>3, UnmutatedReads DEF Unmutated, v, sum
<1>7. Deposit(c0) = made
  BY <1>4, <1>5, <1>6, UnmutatedReads DEF Deposit, made, v, sum, Unmutated
<1> QED BY <1>1, <1>2, <1>7

LEMMA WithdrawTells ==
    ASSUME NEW c, CleanCall(c), c.ix = "withdraw", NEW c0, Unmutated(c, c0),
           Signs(c, 2), c.arg > 0, Execute(c) # Refused
    PROVE  /\ c.arg <= At(c, 1).amount
           /\ c.slot < At(c, 1).unlock_slot => Execute(c0) = Execute(c)
           /\ ~(c.slot < At(c, 1).unlock_slot) =>
                 /\ Execute(c0) = Refused
                 /\ c.dropped = <<"guard-drop", "withdraw", "slot < unlock_slot">>
<1> DEFINE v == At(c, 1)
           inTime == c.slot < v.unlock_slot
           made == Write(Move(c.l, Key(c, 1), Key(c, 2), c.arg), Key(c, 1), "amount",
                         (v.amount - c.arg) % U64)
<1>1. Execute(c) = Withdraw(c) /\ Execute(c0) = Withdraw(c0)
  BY DEF Execute, Handlers, CleanCall, Unmutated
<1>2. /\ IsVault(c, 1) /\ IsSeeded(c, 1, 2) /\ v.depositor = Key(c, 2)
      /\ Required(c, "slot < unlock_slot", BeforeUnlock(c))
      /\ c.arg <= v.lamports /\ Withdraw(c) = made
  BY <1>1 DEF Withdraw, IsDepositorsVault
<1>3. c.arg <= v.amount
  <2>1. Shifts(c, Withdraw(c))
    BY <1>1, WithdrawMakes
  <2> QED BY <2>1 DEF Shifts, At, Key
<1>4. BeforeUnlock(c) <=> inTime
  BY DEF BeforeUnlock, CleanCall
<1>4a. Required(c, "slot < unlock_slot", inTime)
  BY <1>2, <1>4 DEF Required
<1> HIDE DEF v, made, inTime
<1>5. IsDepositorsVault(c0)
  BY <1>2, UnmutatedReads DEF IsDepositorsVault, v
<1>6. BeforeUnlock(c0) <=> inTime
  BY <1>4, UnmutatedReads
<1>7. /\ c0.arg <= At(c0, 1).lamports /\ c0.arg <= At(c0, 1).amount /\ c0.arg > 0
  BY <1>2, <1>3, UnmutatedReads DEF Unmutated, v
<1>8. Required(c0, "0 < amount <= vault.amount", c0.arg > 0 /\ c0.arg <= At(c0, 1).amount)
  BY <1>7 DEF Required
<1>9. ASSUME inTime PROVE Withdraw(c0) = made
  <2>1. Required(c0, "slot < unlock_slot", BeforeUnlock(c0))
    BY <1>6, <1>9 DEF Required
  <2> QED BY <1>5, <1>7, <1>8, <2>1, UnmutatedReads DEF Withdraw, made, v, Unmutated
<1>10. ASSUME ~inTime
       PROVE  Withdraw(c0) = Refused /\ c.dropped = <<"guard-drop", "withdraw", "slot < unlock_slot">>
  <2>1. ~Required(c0, "slot < unlock_slot", BeforeUnlock(c0))
    BY <1>6, <1>10 DEF Required, Unmutated
  <2>2. Withdraw(c0) = Refused
    BY <2>1 DEF Withdraw
  <2>3. c.dropped = <<"guard-drop", c.ix, "slot < unlock_slot">>
    BY <1>4a, <1>10 DEF Required
  <2> QED BY <2>2, <2>3
<1> QED BY <1>1, <1>2, <1>3, <1>9, <1>10 DEF v, inTime

LEMMA ClaimTells ==
    ASSUME NEW c, CleanCall(c), c.ix = "claim", NEW c0, Unmutated(c, c0),
           Signs(c, 3), Execute(c) # Refused
    PROVE  /\ c.slot >= At(c, 1).unlock_slot /\ At(c, 1).amount > 0 => Execute(c0) = Execute(c)
           /\ ~(c.slot >= At(c, 1).unlock_slot) =>
                 /\ Execute(c0) = Refused
                 /\ c.dropped = <<"guard-drop", "claim", "slot >= unlock_slot">>
           /\ ~(At(c, 1).amount > 0) =>
                 /\ Execute(c0) = Refused
                 /\ c.dropped = <<"guard-drop", "claim", "amount > 0">>
<1> DEFINE v == At(c, 1)
           inTime == c.slot >= v.unlock_slot
           some == v.amount > 0
           made == Write(Move(c.l, Key(c, 1), Key(c, 3), v.amount), Key(c, 1), "amount", 0)
<1>1. Execute(c) = Claim(c) /\ Execute(c0) = Claim(c0)
  BY DEF Execute, Handlers, CleanCall, Unmutated
<1>2. /\ IsVault(c, 1) /\ IsSeeded(c, 1, 2) /\ v.beneficiary = Key(c, 3)
      /\ Required(c, "slot >= unlock_slot", inTime) /\ Required(c, "amount > 0", some)
      /\ v.amount <= v.lamports /\ Claim(c) = made
  BY <1>1 DEF Claim
<1>3. /\ c0.slot >= At(c0, 1).unlock_slot <=> inTime
      /\ At(c0, 1).amount > 0 <=> some
  BY UnmutatedReads DEF Unmutated
<1> HIDE DEF v, made, inTime, some
<1>4. /\ IsVault(c0, 1) /\ IsSeeded(c0, 1, 2) /\ At(c0, 1).beneficiary = Key(c0, 3)
      /\ IsSigner(c0, 3) /\ At(c0, 1).amount <= At(c0, 1).lamports
  BY <1>2, UnmutatedReads DEF v
<1>5. ASSUME inTime, some PROVE Claim(c0) = made
  <2>1. /\ Required(c0, "slot >= unlock_slot", c0.slot >= At(c0, 1).unlock_slot)
        /\ Required(c0, "amount > 0", At(c0, 1).amount > 0)
    BY <1>3, <1>5 DEF Required
  <2> QED BY <1>4, <2>1, UnmutatedReads DEF Claim, made, v, Unmutated
<1>6. ASSUME ~inTime
      PROVE  Claim(c0) = Refused /\ c.dropped = <<"guard-drop", "claim", "slot >= unlock_slot">>
  <2>1. ~Required(c0, "slot >= unlock_slot", c0.slot >= At(c0, 1).unlock_slot)
    BY <1>3, <1>6 DEF Required, Unmutated
  <2>2. Claim(c0) = Refused
    BY <2>1 DEF Claim
  <2>3. c.dropped = <<"guard-drop", c.ix, "slot >= unlock_slot">>
    BY <1>2, <1>6 DEF Required
  <2> QED BY <2>2, <2>3
<1>7. ASSUME ~some
      PROVE  Claim(c0) = Refused /\ c.dropped = <<"guard-drop", "claim", "amount > 0">>
  <2>1. ~Required(c0, "amount > 0", At(c0, 1).amount > 0)
    BY <1>3, <1>7 DEF Required, Unmutated
  <2>2. Claim(c0) = Refused
    BY <2>1 DEF Claim
  <2>3. c.dropped = <<"guard-drop", c.ix, "amount > 0">>
    BY <1>2, <1>7 DEF Required
  <2> QED BY <2>2, <2>3
<1> QED BY <1>1, <1>2, <1>5, <1>6, <1>7 DEF v, inTime, some

\* What the depositor has and what its vault says.
Worth(now) == now["depositor"].lamports + now["vault"].amount

\* A replay is put back; the amount is in its bounds after it; and it is told
\* by the guards exactly when the original would not have landed.
ReplayTells(m, now, s, out) ==
    /\ \A a : Heard(m, now, s, a.by, out).l = now
    /\ s.ix # "claim" => ~Guilty(m, now, s, "unchecked-math", out)
    /\ Guilty(m, now, s, "precondition-skip", out) =>
          /\ out.ok /\ ~Canonical(<<>>, now, s).ok
          /\ <<m, <<"precondition-skip", s.ix>>>> \in Campaign
    /\ out.ok /\ ~Canonical(<<>>, now, s).ok =>
          /\ s.ix \in {"withdraw", "claim"}
          /\ Guilty(m, now, s, "precondition-skip", out)

LEMMA CanonicalTells ==
    ASSUME prog = "escrow_clean", NEW m, NEW now, Still(now), Worth(now) <= InitialBalance,
           NEW s, Bank(s)
    PROVE  ReplayTells(m, now, s, Canonical(m, now, s))
<1> DEFINE signed == {s.keys[i] : i \in s.flagged}
           out == Canonical(m, now, s)
           orig == Canonical(<<>>, now, s)
           v == now["vault"]
<1>1. PICK c : IsCall(c, m, now, s, s.keys, signed) /\ out = Send(c)
  BY SentCalls DEF Canonical
<1>2. PICK c0 : IsCall(c0, <<>>, now, s, s.keys, signed) /\ orig = Send(c0)
  BY SentCalls DEF Canonical
<1>3. Unmutated(c, c0)
  BY <1>1, <1>2 DEF IsCall, Unmutated
<1>4. Party(c) \in c.signed
  <2>1. s.keys[PartySlot(s)] \in signed
    BY DEF Bank
  <2>2. Party(c) = s.keys[PartySlot(s)] /\ c.signed = signed
    BY <1>1, BankCalls DEF IsCall
  <2> QED BY <2>1, <2>2
<1> HIDE DEF out, orig, signed
<1>5. /\ CleanCall(c) /\ Modest(c) /\ Key(c, 1) = "vault" /\ Key(c, 2) = "depositor"
      /\ out.ok => Restored(now, out.l, s.keys) = now
  BY <1>1, BankCalls
<1>6. c.l = now /\ c.dropped = m /\ c.ix = s.ix /\ c.slot = slot /\ c.arg = s.arg /\ At(c, 1) = v
  BY <1>1, <1>5 DEF IsCall, At, Key
<1>7. Restored(now, out.l, s.keys) = now
  <2>1. CASE out.ok
    BY <2>1, <1>5
  <2>2. CASE ~out.ok
    <3>1. out.l = now
      BY <2>2, <1>1, <1>5, <1>6, SendLeaves DEF Leaves
    <3>2. DOMAIN now = Keys
      BY DEF Still, Sound
    <3> QED BY <3>1, <3>2, RefusedRestores
  <2> QED BY <2>1, <2>2
<1>8. \A a : Heard(m, now, s, a.by, out).l = now
  BY <1>7 DEF Heard
<1>9. out.ok => Execute(c) # Refused /\ Shifts(c, Execute(c))
                /\ out.l["vault"] = Execute(c)["vault"]
  <2> SUFFICES ASSUME out.ok PROVE Execute(c) # Refused /\ Shifts(c, Execute(c))
                /\ out.l["vault"] = Execute(c)["vault"]
    OBVIOUS
  <2> DEFINE after == Execute(c)
  <2>1. /\ after # Refused /\ Shifts(c, after)
        /\ out.l = [k \in Keys |-> IF after[k].lamports = 0 THEN Blank ELSE after[k]]
    BY <1>1, <1>5, SendLeaves DEF Landed
  <2> HIDE DEF after
  <2>2. "vault" \in Keys /\ after["vault"] \in Account /\ after["vault"].lamports >= Rent[VaultSize]
    BY <1>5, <2>1, Names DEF Shifts
  <2>3. out.l["vault"] = after["vault"]
    BY <2>1, <2>2, Sizes
  <2> QED BY <2>1, <2>3 DEF after
<1>10. s.keys[1] = "vault" /\ s.ix \in {"deposit", "withdraw", "claim"}
  BY DEF Bank
<1>11. s.ix # "claim" => ~Guilty(m, now, s, "unchecked-math", out)
  <2> SUFFICES ASSUME s.ix # "claim", out.ok PROVE InBounds(out.l, s)
    BY DEF Guilty, BoundBroken
  <2>1. /\ now["depositor"].lamports \in Nat /\ v.amount \in Nat
    <3>1. now["depositor"] \in Account /\ v \in Account
      BY Names DEF Still, Sound
    <3> HIDE DEF v
    <3>2. now["depositor"].lamports \in Nat /\ v.amount \in 0..(U64 - 1)
      BY <3>1, Fields
    <3> QED BY <3>2, Sizes
  <2>2. out.l["vault"].amount <= InitialBalance
    <3>1. CASE s.ix = "deposit"
      <4>1. /\ out.l["vault"].amount = v.amount + c.arg
            /\ c.arg <= now["depositor"].lamports /\ c.arg \in Nat
        BY <3>1, <1>5, <1>6, <1>9 DEF Shifts, Party, CleanCall
      <4> QED BY <4>1, <2>1, Sizes DEF Worth
    <3>2. CASE s.ix = "withdraw"
      <4>1. /\ out.l["vault"].amount = v.amount - c.arg /\ c.arg \in Nat
        BY <3>2, <1>5, <1>6, <1>9 DEF Shifts, CleanCall
      <4> QED BY <4>1, <2>1, Sizes DEF Worth
    <3> QED BY <3>1, <3>2, <1>10
  <2>3. out.l["vault"].amount \in Int
    <3>1. Execute(c)["vault"] \in Account
      BY <1>9, Names DEF Shifts
    <3>2. Execute(c)["vault"].amount \in 0..(U64 - 1)
      BY <3>1, Fields
    <3> QED BY <3>2, <1>9, Sizes
  <2> QED BY <1>10, <2>2, <2>3, ScoringAssumption, Sizes DEF InBounds
<1>12. /\ ~out.ok => ~Guilty(m, now, s, "precondition-skip", out)
       /\ out.ok => (Guilty(m, now, s, "precondition-skip", out)
                       <=> \E g \in s.guards : ~GuardHolds(now, s, g))
  BY DEF Guilty, Unguarded
<1>13. Execute(c0) = Execute(c) => orig.ok = out.ok
  BY <1>1, <1>2, <1>3 DEF Send, Unmutated
<1>14. Execute(c0) = Refused => ~orig.ok
  BY <1>2, RefusedSend
<1>15. ASSUME out.ok
       PROVE  \/ /\ \A g \in s.guards : GuardHolds(now, s, g)
                 /\ orig.ok
              \/ /\ \E g \in s.guards : ~GuardHolds(now, s, g)
                 /\ ~orig.ok /\ s.ix \in {"withdraw", "claim"}
                 /\ <<m, <<"precondition-skip", s.ix>>>> \in Campaign
  <2>1. CASE s.ix = "deposit"
    <3>1. Signs(c, 2) /\ c.arg > 0
      BY <2>1, <1>4, <1>5, <1>6 DEF Signs, Party, Modest
    <3>2. Execute(c0) = Execute(c)
      BY <2>1, <3>1, <1>3, <1>5, <1>6, <1>9, <1>15, DepositTells
    <3>3. \A g \in s.guards : GuardHolds(now, s, g)
      <4>1. s.guards = {"amount > 0"}
        BY <2>1 DEF Bank
      <4>2. GuardHolds(now, s, "amount > 0")
        BY <3>1, <1>6 DEF GuardHolds
      <4> QED BY <4>1, <4>2
    <3> QED BY <3>2, <3>3, <1>13, <1>15
  <2>2. CASE s.ix = "withdraw"
    <3>1. Signs(c, 2) /\ c.arg > 0
      BY <2>2, <1>4, <1>5, <1>6 DEF Signs, Party, Modest
    <3>2. /\ c.arg <= v.amount
          /\ slot < v.unlock_slot => Execute(c0) = Execute(c)
          /\ ~(slot < v.unlock_slot) =>
                 /\ Execute(c0) = Refused
                 /\ m = <<"guard-drop", "withdraw", "slot < unlock_slot">>
      BY <2>2, <3>1, <1>3, <1>5, <1>6, <1>9, <1>15, WithdrawTells
    <3>3. s.guards = {"slot < unlock_slot", "amount > 0", "amount <= vault.amount"}
      BY <2>2 DEF Bank
    <3>4. GuardHolds(now, s, "amount > 0") /\ GuardHolds(now, s, "amount <= vault.amount")
      BY <3>1, <3>2, <1>6, <1>10 DEF GuardHolds
    <3>5. GuardHolds(now, s, "slot < unlock_slot") <=> slot < v.unlock_slot
      BY <1>10 DEF GuardHolds
    <3>6. CASE slot < v.unlock_slot
      <4>1. \A g \in s.guards : GuardHolds(now, s, g)
        BY <3>3, <3>4, <3>5, <3>6
      <4> QED BY <4>1, <3>2, <3>6, <1>13, <1>15
    <3>7. CASE ~(slot < v.unlock_slot)
      <4>1. \E g \in s.guards : ~GuardHolds(now, s, g)
        BY <3>3, <3>5, <3>7
      <4>2. <<m, <<"precondition-skip", s.ix>>>> \in Campaign
        BY <2>2, <3>2, <3>7 DEF Campaign
      <4> QED BY <4>1, <4>2, <2>2, <3>2, <3>7, <1>14
    <3> QED BY <3>6, <3>7
  <2>3. CASE s.ix = "claim"
    <3>1. Signs(c, 3)
      BY <2>3, <1>4, <1>6 DEF Signs, Party
    <3>2. /\ slot >= v.unlock_slot /\ v.amount > 0 => Execute(c0) = Execute(c)
          /\ ~(slot >= v.unlock_slot) =>
                 Execute(c0) = Refused /\ m = <<"guard-drop", "claim", "slot >= unlock_slot">>
          /\ ~(v.amount > 0) =>
                 Execute(c0) = Refused /\ m = <<"guard-drop", "claim", "amount > 0">>
      BY <2>3, <3>1, <1>3, <1>5, <1>6, <1>9, <1>15, ClaimTells
    <3>3. s.guards = {"slot >= unlock_slot", "vault.amount > 0"}
      BY <2>3 DEF Bank
    <3>4. /\ GuardHolds(now, s, "slot >= unlock_slot") <=> slot >= v.unlock_slot
          /\ GuardHolds(now, s, "vault.amount > 0") <=> v.amount > 0
      BY <1>10 DEF GuardHolds
    <3>5. CASE slot >= v.unlock_slot /\ v.amount > 0
      <4>1. \A g \in s.guards : GuardHolds(now, s, g)
        BY <3>3, <3>4, <3>5
      <4> QED BY <4>1, <3>2, <3>5, <1>13, <1>15
    <3>6. CASE ~(slot >= v.unlock_slot)
      <4>1. \E g \in s.guards : ~GuardHolds(now, s, g)
        BY <3>3, <3>4, <3>6
      <4>2. <<m, <<"precondition-skip", s.ix>>>> \in Campaign
        BY <2>3, <3>2, <3>6 DEF Campaign
      <4> QED BY <4>1, <4>2, <2>3, <3>2, <3>6, <1>14
    <3>7. CASE ~(v.amount > 0)
      <4>1. \E g \in s.guards : ~GuardHolds(now, s, g)
        BY <3>3, <3>4, <3>7
      <4>2. <<m, <<"precondition-skip", s.ix>>>> \in Campaign
        BY <2>3, <3>2, <3>7 DEF Campaign
      <4> QED BY <4>1, <4>2, <2>3, <3>2, <3>7, <1>14
    <3> QED BY <3>5, <3>6, <3>7
  <2> QED BY <2>1, <2>2, <2>3, <1>10
<1>16. /\ Guilty(m, now, s, "precondition-skip", out) =>
          out.ok /\ ~orig.ok /\ <<m, <<"precondition-skip", s.ix>>>> \in Campaign
       /\ out.ok /\ ~orig.ok =>
            s.ix \in {"withdraw", "claim"} /\ Guilty(m, now, s, "precondition-skip", out)
  <2>1. CASE ~out.ok
    BY <2>1, <1>12
  <2>2. CASE out.ok
    BY <2>2, <1>12, <1>15
  <2> QED BY <2>1, <2>2
<1> QED BY <1>8, <1>11, <1>16 DEF ReplayTells, out, orig

\* An attempt of escrow_clean leaves the accounts as they were.  When it finds
\* something, the original would have refused what the mutant let pass, and
\* the committed results have it; and what the original would have refused is
\* found, by this attempt or by the guards.
TryTells(m, now, s, a) ==
    LET out == Try(m, now, s, a)
        orig == Try(<<>>, now, s, a) IN
    /\ out.l = now
    /\ out.guilty => out.ok /\ ~orig.ok /\ <<m, <<a.by, s.ix>>>> \in Campaign
    /\ out.ok /\ ~orig.ok /\ a.by \in Critical => out.guilty
    /\ out.ok /\ ~orig.ok /\ a.by \notin Critical =>
          /\ s.ix \in {"withdraw", "claim"} /\ a.by \in {"unchecked-math", "precondition-skip"}
          /\ Guilty(m, now, s, "precondition-skip", Canonical(m, now, s))

LEMMA AttemptTells ==
    ASSUME prog = "escrow_clean", NEW m, NEW now, Still(now), Worth(now) <= InitialBalance,
           NEW n \in 1..4, NEW a, a.by \in Detector, Declares(HandSpecs("escrow_clean")[n], a)
    PROVE  TryTells(m, now, HandSpecs("escrow_clean")[n], a)
<1> DEFINE s == HandSpecs("escrow_clean")[n]
<1>0. s = InitializeSpec \/ s \in {DepositSpec, WithdrawSpec, ClaimSpec}
  BY CleanSpecsAre
<1>1. CASE a.by \in Critical
  <2> DEFINE out == Tamper(m, now, s, a)
             orig == Tamper(<<>>, now, s, a)
  <2>1. Try(m, now, s, a) = out /\ Try(<<>>, now, s, a) = orig
    BY <1>1 DEF Try, Critical
  <2>2. TamperTells(m, now, s, a, out)
    BY <1>1, TamperedTells
  <2>3. TamperTells(<<>>, now, s, a, orig)
    BY <1>1, TamperedTells
  <2> HIDE DEF out, orig, s
  <2>4. ~orig.ok
    <3>1. orig.ok => <<>> = <<"signer-type-weaken", s.ix>>
      BY <2>3 DEF TamperTells
    <3> QED BY <3>1
  <2>5. out.ok => <<m, <<a.by, s.ix>>>> \in Campaign
    <3> SUFFICES ASSUME out.ok PROVE <<m, <<a.by, s.ix>>>> \in Campaign
      OBVIOUS
    <3>1. a.by = "signer-skip" /\ s.ix \in {"withdraw", "claim"} /\ m = <<"signer-type-weaken", s.ix>>
      BY <2>2 DEF TamperTells
    <3>2. CASE s.ix = "withdraw"
      BY <3>1, <3>2 DEF Campaign
    <3>3. CASE s.ix = "claim"
      BY <3>1, <3>3 DEF Campaign
    <3> QED BY <3>1, <3>2, <3>3
  <2>6. out.l = now /\ (out.ok => out.guilty) /\ (out.guilty => out.ok)
    BY <2>2 DEF TamperTells
  <2> QED BY <1>1, <2>1, <2>4, <2>5, <2>6 DEF TryTells, s
<1>2. CASE a.by \notin Critical
  <2>1. /\ Bank(s) /\ a.by \in {"unchecked-math", "precondition-skip"}
        /\ a.by = "unchecked-math" => s.ix # "claim"
    <3>1. CASE s = InitializeSpec
      <4>1. s.capped = FALSE /\ s.budget = <<>> /\ s.reenters = FALSE /\ s.grows = FALSE
            /\ s.bump = FALSE /\ s.guards = {}
        BY <3>1, InitializeSays DEF Silent
      <4>2. Declares(s, a)
        OBVIOUS
      <4> HIDE DEF s
      <4>3. FALSE
        <5>1. CASE a.by = "unchecked-math"
          BY <4>1, <4>2, <5>1 DEF Declares
        <5>2. CASE a.by = "cu-dos"
          BY <4>1, <4>2, <5>2 DEF Declares
        <5>3. CASE a.by = "cpi-reentrancy"
          BY <4>1, <4>2, <5>3 DEF Declares
        <5>4. CASE a.by = "realloc-race"
          BY <4>1, <4>2, <5>4 DEF Declares
        <5>5. CASE a.by = "precondition-skip"
          BY <4>1, <4>2, <5>5 DEF Declares
        <5>6. CASE a.by = "bump-seed-canonicalization"
          BY <4>1, <4>2, <5>6 DEF Declares
        <5> QED BY <1>2, <5>1, <5>2, <5>3, <5>4, <5>5, <5>6 DEF Detector
      <4> QED BY <4>3
    <3>2. CASE s \in {DepositSpec, WithdrawSpec, ClaimSpec}
      <4>1. Bank(s) /\ Declares(s, a)
        BY <3>2, BankSpecs
      <4> HIDE DEF s
      <4>2. /\ s.budget = <<>> /\ ~s.reenters /\ ~s.grows /\ ~s.bump
            /\ s.ix = "claim" => ~s.capped
        BY <4>1 DEF Bank
      <4>3. CASE a.by = "cu-dos"
        BY <4>1, <4>2, <4>3 DEF Declares
      <4>4. CASE a.by = "cpi-reentrancy"
        BY <4>1, <4>2, <4>4 DEF Declares
      <4>5. CASE a.by = "realloc-race"
        BY <4>1, <4>2, <4>5 DEF Declares
      <4>6. CASE a.by = "bump-seed-canonicalization"
        BY <4>1, <4>2, <4>6 DEF Declares
      <4>7. CASE a.by = "unchecked-math"
        <5>1. s.capped
          BY <4>1, <4>7 DEF Declares
        <5> QED BY <4>1, <4>2, <4>7, <5>1
      <4>8. CASE a.by = "precondition-skip"
        BY <4>1, <4>8
      <4> QED BY <1>2, <4>3, <4>4, <4>5, <4>6, <4>7, <4>8 DEF Detector
    <3> QED BY <1>0, <3>1, <3>2
  <2> DEFINE out == Canonical(m, now, s)
             orig == Canonical(<<>>, now, s)
             heard == Heard(m, now, s, a.by, out)
             first == Heard(<<>>, now, s, a.by, orig)
  <2>2. Try(m, now, s, a) = heard /\ Try(<<>>, now, s, a) = first
    BY <1>2, <2>1 DEF Try, Replay, Critical
  <2> HIDE DEF s
  <2>3. ReplayTells(m, now, s, out)
    BY <2>1, CanonicalTells
  <2>4. /\ heard.ok = out.ok /\ first.ok = orig.ok
        /\ heard.guilty = Guilty(m, now, s, a.by, out)
    BY DEF Heard
  <2>5. heard.l = now
    BY <2>3 DEF ReplayTells
  <2>6. orig = Canonical(<<>>, now, s)
    OBVIOUS
  <2> HIDE DEF out, orig, heard, first
  <2>7. heard.guilty => heard.ok /\ ~first.ok /\ <<m, <<a.by, s.ix>>>> \in Campaign
    <3>1. CASE a.by = "unchecked-math"
      <4>1. ~Guilty(m, now, s, "unchecked-math", out)
        BY <2>1, <2>3, <3>1 DEF ReplayTells
      <4> QED BY <2>4, <3>1, <4>1
    <3>2. CASE a.by = "precondition-skip"
      <4>1. Guilty(m, now, s, "precondition-skip", out) =>
                out.ok /\ ~orig.ok /\ <<m, <<"precondition-skip", s.ix>>>> \in Campaign
        BY <2>3, <2>6 DEF ReplayTells
      <4> QED BY <2>4, <3>2, <4>1
    <3> QED BY <2>1, <3>1, <3>2
  <2>8. heard.ok /\ ~first.ok => s.ix \in {"withdraw", "claim"} /\ Guilty(m, now, s, "precondition-skip", out)
    BY <2>3, <2>4, <2>6 DEF ReplayTells
  <2> QED BY <1>2, <2>1, <2>2, <2>5, <2>7, <2>8 DEF TryTells, s, out
<1> QED BY <1>1, <1>2

\* What is gone from one handler makes no difference to a call of another.
LEMMA OnlyItsHandler ==
    ASSUME NEW c, NEW c0, Unmutated(c, c0), c.prog = "escrow_clean", Send(c) # Send(c0)
    PROVE  c.dropped[2] = c.ix
<1> SUFFICES ASSUME c.dropped[2] # c.ix PROVE Execute(c) = Execute(c0)
  BY DEF Send, Unmutated
<1>1. /\ c0.dropped = <<>> /\ c0.prog = c.prog /\ c0.l = c.l /\ c0.slot = c.slot /\ c0.ix = c.ix
      /\ c0.arg = c.arg
      /\ Key(c0, 1) = Key(c, 1) /\ Key(c0, 2) = Key(c, 2) /\ Key(c0, 3) = Key(c, 3)
      /\ At(c0, 1) = At(c, 1) /\ At(c0, 2) = At(c, 2)
      /\ IsVault(c0, 1) <=> IsVault(c, 1)
      /\ IsSeeded(c0, 1, 2) <=> IsSeeded(c, 1, 2)
      /\ Signs(c0, 2) <=> Signs(c, 2)
      /\ BeforeUnlock(c0) <=> BeforeUnlock(c)
  BY UnmutatedReads DEF Unmutated
<1>2. /\ c.dropped # <<"signer-type-weaken", c.ix>> /\ c.dropped # <<"checked-to-wrapping", c.ix>>
      /\ \A g : c.dropped # <<"guard-drop", c.ix, g>>
  <2>1. <<"signer-type-weaken", c.ix>>[2] = c.ix /\ <<"checked-to-wrapping", c.ix>>[2] = c.ix
    OBVIOUS
  <2>2. \A g : <<"guard-drop", c.ix, g>>[2] = c.ix
    OBVIOUS
  <2> QED BY <2>1, <2>2
<1>3. (IsSigner(c0, 2) <=> IsSigner(c, 2)) /\ (IsSigner(c0, 3) <=> IsSigner(c, 3))
  BY <1>1, <1>2, UnmutatedReads DEF IsSigner
<1>4. IsDepositorsVault(c0) <=> IsDepositorsVault(c)
  BY <1>1, <1>3 DEF IsDepositorsVault
<1>5. ASSUME NEW g PROVE c0.dropped # <<"guard-drop", c0.ix, g>> /\ c.dropped # <<"guard-drop", c.ix, g>>
  BY <1>1, <1>2
<1>6. c0.dropped # <<"checked-to-wrapping", c0.ix>>
  BY <1>1
<1>7. CASE c.ix = "initialize"
  <2>1. Execute(c) = Initialize(c) /\ Execute(c0) = Initialize(c0)
    BY <1>1, <1>7 DEF Execute, Handlers
  <2>2. Initialize(c0) = Initialize(c)
    BY <1>1, <1>3 DEF Initialize
  <2> QED BY <2>1, <2>2
<1>8. CASE c.ix = "deposit"
  <2> DEFINE some == c.arg > 0
  <2>1. Execute(c) = Deposit(c) /\ Execute(c0) = Deposit(c0)
    BY <1>1, <1>8 DEF Execute, Handlers
  <2>2. /\ Required(c0, "amount > 0", c0.arg > 0) <=> some
        /\ Required(c, "amount > 0", c.arg > 0) <=> some
    BY <1>1, <1>5 DEF Required
  <2>3. /\ c0.dropped # <<"checked-to-wrapping", "deposit">>
        /\ c.dropped # <<"checked-to-wrapping", "deposit">>
    BY <1>2, <1>6, <1>1, <1>8
  <2>4. Deposit(c0) = Deposit(c)
    BY <1>1, <1>4, <2>2, <2>3 DEF Deposit
  <2> QED BY <2>1, <2>4
<1>9. CASE c.ix = "withdraw"
  <2> DEFINE some == c.arg > 0 /\ c.arg <= At(c, 1).amount
             time == BeforeUnlock(c)
  <2>1. Execute(c) = Withdraw(c) /\ Execute(c0) = Withdraw(c0)
    BY <1>1, <1>9 DEF Execute, Handlers
  <2>2. /\ Required(c, "0 < amount <= vault.amount", some) <=> some
        /\ Required(c0, "0 < amount <= vault.amount", some) <=> some
        /\ Required(c, "slot < unlock_slot", time) <=> time
        /\ Required(c0, "slot < unlock_slot", time) <=> time
    BY <1>5 DEF Required
  <2>3. /\ Required(c0, "slot < unlock_slot", BeforeUnlock(c0)) <=> time
        /\ Required(c, "slot < unlock_slot", BeforeUnlock(c)) <=> time
    BY <1>1, <1>5 DEF Required
  <2>4. /\ Required(c0, "0 < amount <= vault.amount", c0.arg > 0 /\ c0.arg <= At(c0, 1).amount) <=> some
        /\ Required(c, "0 < amount <= vault.amount", c.arg > 0 /\ c.arg <= At(c, 1).amount) <=> some
    BY <1>1, <2>2
  <2>5. c0.dropped # <<"checked-to-wrapping", "withdraw">> /\ c.dropped # <<"checked-to-wrapping", "withdraw">>
    BY <1>2, <1>6, <1>1, <1>9
  <2>6. Withdraw(c0) = Withdraw(c)
    BY <1>1, <1>4, <2>3, <2>4, <2>5 DEF Withdraw
  <2> QED BY <2>1, <2>6
<1>10. CASE c.ix = "claim"
  <2> DEFINE some == At(c, 1).amount > 0
             time == c.slot >= At(c, 1).unlock_slot
  <2>1. Execute(c) = Claim(c) /\ Execute(c0) = Claim(c0)
    BY <1>1, <1>10 DEF Execute, Handlers
  <2>2. /\ Required(c0, "slot >= unlock_slot", c0.slot >= At(c0, 1).unlock_slot) <=> time
        /\ Required(c, "slot >= unlock_slot", c.slot >= At(c, 1).unlock_slot) <=> time
        /\ Required(c0, "amount > 0", At(c0, 1).amount > 0) <=> some
        /\ Required(c, "amount > 0", At(c, 1).amount > 0) <=> some
    BY <1>1, <1>5 DEF Required
  <2>3. Claim(c0) = Claim(c)
    BY <1>1, <1>3, <2>2 DEF Claim
  <2> QED BY <2>1, <2>3
<1>11. CASE c.ix \notin {"initialize", "deposit", "withdraw", "claim"}
  BY <1>1, <1>11 DEF Execute, Handlers
<1> QED BY <1>7, <1>8, <1>9, <1>10, <1>11

-----------------------------------------------------------------------------
(* In escrow only what is planted is found.                                *)

\* What is asked of the ledger of escrow: an owner for every key.
Owned(r) == "owner" \in DOMAIN r
Ledgered(now) == DOMAIN now = Keys /\ \A k \in Keys : Owned(now[k])

LEMMA DeclaresWhat ==
    ASSUME NEW s, NEW a, a.by \in Detector, Declares(s, a)
    PROVE  /\ a.by = "signer-skip" => a.at \in s.signerIndices
           /\ a.by = "owner-skip" => a.at \in s.owners
           /\ a.by = "discriminator-skip" => a.at \in s.discs
           /\ a.by = "pda-forge" => a.at \in DOMAIN s.pda
           /\ a.by = "account-swap" => a.at \in DOMAIN s.alternates
           /\ a.by = "unchecked-math" => s.capped
           /\ a.by = "cu-dos" => s.budget # <<>>
           /\ a.by = "cpi-reentrancy" => s.reenters
           /\ a.by = "realloc-race" => s.grows
           /\ a.by = "precondition-skip" => s.guards # {}
           /\ a.by = "bump-seed-canonicalization" => s.bump
<1>1. CASE a.by \in {"signer-skip", "owner-skip", "discriminator-skip", "pda-forge", "account-swap"}
  BY <1>1 DEF Declares
<1>2. CASE a.by \in {"unchecked-math", "cu-dos", "cpi-reentrancy"}
  BY <1>2 DEF Declares
<1>3. CASE a.by \in {"realloc-race", "precondition-skip", "bump-seed-canonicalization"}
  BY <1>3 DEF Declares
<1> QED BY <1>1, <1>2, <1>3 DEF Detector, Critical

\* The attempts that are not at what is planted for them.
OnGuarded(s, a) ==
    /\ s.ix \in {"unsafe_accumulate_yield", "unsafe_self_reentry", "unsafe_realloc_grow"}
    /\ s.keys[1] = "vault" /\ s.keys[2] = "depositor" /\ s.flagged = {2}
    /\ (a.by = "signer-skip" /\ a.at = 2) \/ (a.by \in Faking /\ a.at = 1)
    /\ {1, 2} \subseteq DOMAIN s.keys

OnDos(s, a) ==
    /\ s.ix = "unsafe_compute_dos" /\ s.keys = ComputeDosKeys /\ s.flagged = {1}
    /\ a.by = "signer-skip" /\ a.at = 1

OnBump(s, a) ==
    s.ix = "unsafe_withdraw_with_bump" /\ s.keys = WithdrawKeys /\ a.by \in Faking /\ a.at = 1

OnOwner(s, a) ==
    s.ix = "unsafe_withdraw" /\ s.keys = WithdrawKeys /\ a.by = "owner-skip" /\ a.at = 1

LEMMA EscrowDeclares ==
    ASSUME NEW n \in 1..7, NEW s, s = HandSpecs("escrow")[n], NEW a, a.by \in Detector, Declares(s, a)
    PROVE  <<a.by, s.ix>> \in Planted \/ OnGuarded(s, a) \/ OnDos(s, a) \/ OnBump(s, a) \/ OnOwner(s, a)
<1>0. EscrowSpec(n, s)
  BY EscrowSpecsAre
<1>1. a.by \in Detector
  OBVIOUS
<1>2. CASE s = UnsafeWithdrawSpec
  <2>1. Reads(s, "unsafe_withdraw", WithdrawKeys, {2}, {1}, {}, <<"vault_b">>) /\ Silent(s)
    BY <1>2, UnsafeWithdrawSays
  <2>2. a.by \in Critical
    BY <2>1, DeclaresWhat DEF Silent, Detector
  <2>3. CASE a.by = "owner-skip"
    BY <2>1, <2>3, DeclaresWhat DEF Reads, OnOwner
  <2>4. CASE a.by # "owner-skip"
    <3>1. a.by \in {"signer-skip", "discriminator-skip", "pda-forge", "account-swap"} /\ s.ix = "unsafe_withdraw"
      BY <2>1, <2>2, <2>4 DEF Critical, Reads
    <3> QED BY <3>1 DEF Planted
  <2> QED BY <2>3, <2>4
<1>3. CASE s = SetAmountSpec
  <2>1. /\ s.ix = "unsafe_set_amount_from_source" /\ s.signerIndices = {}
        /\ DOMAIN s.pda = {} /\ DOMAIN s.alternates = {} /\ Silent(s)
    BY <1>3, SetAmountSays
  <2>2. a.by \in {"owner-skip", "discriminator-skip"}
    BY <2>1, DeclaresWhat DEF Silent, Detector, Critical
  <2> QED BY <2>1, <2>2 DEF Planted
<1>4. ASSUME NEW ix \in {"unsafe_accumulate_yield", "unsafe_self_reentry", "unsafe_realloc_grow"},
             NEW keys \in {WithdrawKeys, SelfReentryKeys},
             Reads(s, ix, keys, {2}, {1}, {}, <<>>), a.by \in Critical
      PROVE  OnGuarded(s, a)
  <2>1. /\ s.ix = ix /\ s.keys = keys /\ s.flagged = {2} /\ s.signerIndices = {2}
        /\ s.owners = {1} /\ s.discs = {1} /\ DOMAIN s.pda = {1} /\ DOMAIN s.alternates = {}
    BY <1>4 DEF Reads
  <2>2. keys[1] = "vault" /\ keys[2] = "depositor" /\ {1, 2} \subseteq DOMAIN keys
    BY DEF WithdrawKeys, SelfReentryKeys
  <2>3. (a.by = "signer-skip" /\ a.at = 2) \/ (a.by \in Faking /\ a.at = 1)
    <3>1. /\ a.by = "signer-skip" => a.at = 2
          /\ a.by \in Faking => a.at = 1
          /\ a.by # "account-swap"
      BY <2>1, DeclaresWhat DEF Faking
    <3> QED BY <1>4, <3>1 DEF Critical, Faking
  <2> QED BY <2>1, <2>2, <2>3 DEF OnGuarded
<1>5. CASE s = AccumulateYieldSpec
  <2>1. /\ Reads(s, "unsafe_accumulate_yield", WithdrawKeys, {2}, {1}, {}, <<>>)
        /\ s.budget = <<>> /\ ~s.reenters /\ ~s.grows /\ ~s.bump /\ s.guards = {}
    BY <1>5, AccumulateYieldSays
  <2>2. a.by \in Critical \/ a.by = "unchecked-math"
    BY <2>1, DeclaresWhat DEF Detector
  <2>3. CASE a.by = "unchecked-math"
    <3>1. s.ix = "unsafe_accumulate_yield"
      BY <2>1 DEF Reads
    <3> QED BY <2>3, <3>1 DEF Planted
  <2> QED BY <1>4, <2>1, <2>2, <2>3
<1>6. CASE s = ComputeDosSpec
  <2>1. /\ s.ix = "unsafe_compute_dos" /\ s.keys = ComputeDosKeys
        /\ s.flagged = {1} /\ s.signerIndices = {1}
        /\ s.owners = {} /\ s.discs = {} /\ DOMAIN s.pda = {} /\ DOMAIN s.alternates = {}
        /\ ~s.capped /\ ~s.reenters /\ ~s.grows /\ ~s.bump /\ s.guards = {}
    BY <1>6, ComputeDosSays
  <2>2. a.by \in {"signer-skip", "cu-dos"} /\ (a.by = "signer-skip" => a.at = 1)
    BY <2>1, DeclaresWhat DEF Detector, Critical
  <2>3. CASE a.by = "cu-dos"
    BY <2>1, <2>3 DEF Planted
  <2>4. CASE a.by = "signer-skip"
    BY <2>1, <2>2, <2>4 DEF OnDos
  <2> QED BY <2>2, <2>3, <2>4
<1>7. CASE s = SelfReentrySpec
  <2>1. /\ Reads(s, "unsafe_self_reentry", SelfReentryKeys, {2}, {1}, {}, <<>>)
        /\ ~s.capped /\ s.budget = <<>> /\ ~s.grows /\ ~s.bump /\ s.guards = {}
    BY <1>7, SelfReentrySays
  <2>2. a.by \in Critical \/ a.by = "cpi-reentrancy"
    BY <2>1, DeclaresWhat DEF Detector
  <2>3. CASE a.by = "cpi-reentrancy"
    <3>1. s.ix = "unsafe_self_reentry"
      BY <2>1 DEF Reads
    <3> QED BY <2>3, <3>1 DEF Planted
  <2> QED BY <1>4, <2>1, <2>2, <2>3
<1>8. CASE s = ReallocGrowSpec
  <2>1. /\ Reads(s, "unsafe_realloc_grow", WithdrawKeys, {2}, {1}, {}, <<>>)
        /\ ~s.capped /\ s.budget = <<>> /\ ~s.reenters /\ ~s.bump /\ s.guards = {}
    BY <1>8, ReallocGrowSays
  <2>2. a.by \in Critical \/ a.by = "realloc-race"
    BY <2>1, DeclaresWhat DEF Detector
  <2>3. CASE a.by = "realloc-race"
    <3>1. s.ix = "unsafe_realloc_grow"
      BY <2>1 DEF Reads
    <3> QED BY <2>3, <3>1 DEF Planted
  <2> QED BY <1>4, <2>1, <2>2, <2>3
<1>9. CASE s = WithdrawWithBumpSpec
  <2>1. /\ Reads(s, "unsafe_withdraw_with_bump", WithdrawKeys, {}, {1}, {}, <<>>)
        /\ ~s.capped /\ s.budget = <<>> /\ ~s.reenters /\ ~s.grows /\ s.guards = {}
    BY <1>9, WithdrawWithBumpSays
  <2>2. /\ s.ix = "unsafe_withdraw_with_bump" /\ s.keys = WithdrawKeys /\ s.signerIndices = {}
        /\ s.owners = {1} /\ s.discs = {1} /\ DOMAIN s.pda = {1} /\ DOMAIN s.alternates = {}
    BY <2>1 DEF Reads
  <2>3. (a.by \in Faking /\ a.at = 1) \/ a.by = "bump-seed-canonicalization"
    BY <2>1, <2>2, DeclaresWhat DEF Detector, Critical, Faking
  <2>4. CASE a.by = "bump-seed-canonicalization"
    BY <2>2, <2>4 DEF Planted
  <2> QED BY <2>2, <2>3, <2>4 DEF OnBump
<1> QED BY <1>0, <1>2, <1>3, <1>5, <1>6, <1>7, <1>8, <1>9 DEF EscrowSpec

\* What a tampered attempt that finds something has sent.
TamperedCall(c, now, s, a) ==
    /\ Send(c).ok /\ c.prog = "escrow" /\ c.dropped = <<>> /\ c.ix = s.ix
    /\ a.by \in Faking => c.keys = [s.keys EXCEPT ![a.at] = "fake"]
    /\ a.by = "owner-skip" =>
          c.l = [now EXCEPT !["fake"] = [now[s.keys[a.at]] EXCEPT !.owner = a.with]]
    /\ a.by = "signer-skip" =>
          c.keys = s.keys /\ c.signed = {s.keys[i] : i \in s.flagged \ {a.at}}

LEMMA TamperSends ==
    ASSUME prog = "escrow", NEW now, NEW s, NEW a, a.by \in Critical, Tamper(<<>>, now, s, a).guilty
    PROVE  \E c : TamperedCall(c, now, s, a)
<1> DEFINE real == now[s.keys[a.at]]
           copy == CASE a.by = "owner-skip"         -> [real EXCEPT !.owner = a.with]
                     [] a.by = "discriminator-skip" -> [real EXCEPT !.disc = a.with]
                     [] OTHER                       -> real
           armed == IF a.by \in Faking THEN [now EXCEPT !["fake"] = copy] ELSE now
           keys == CASE a.by \in Faking          -> [s.keys EXCEPT ![a.at] = "fake"]
                     [] a.by = "account-swap"    -> [s.keys EXCEPT ![a.at] = s.alternates[a.at]]
                     [] OTHER                    -> s.keys
           flags == IF a.by = "signer-skip" THEN s.flagged \ {a.at} ELSE s.flagged
           watched == IF a.by = "account-swap" THEN keys ELSE s.keys
           signed == {keys[i] : i \in flags}
           c == Call(prog, <<>>, armed, slot, s.ix, keys, signed, s.arg)
           out == Sent(<<>>, armed, s, keys, flags, s.arg)
<1>1. out = Send(c)
  BY DEF Sent
<1>2. \/ Tamper(<<>>, now, s, a) = [ok |-> FALSE, l |-> now, guilty |-> FALSE]
      \/ Tamper(<<>>, now, s, a) = Judged(now, watched, out)
  BY DEF Tamper
<1>3. /\ c.prog = "escrow" /\ c.dropped = <<>> /\ c.l = armed /\ c.ix = s.ix
      /\ c.keys = keys /\ c.signed = signed
  <2> HIDE DEF armed, keys, signed
  <2> QED BY DEF Call
<1>4. a.by \in Faking => keys = [s.keys EXCEPT ![a.at] = "fake"]
  BY DEF Faking
<1>5. a.by = "owner-skip" => armed = [now EXCEPT !["fake"] = [real EXCEPT !.owner = a.with]]
  <2>1. a.by = "owner-skip" => a.by \in Faking
    BY DEF Faking
  <2> QED BY <2>1
<1>6. a.by = "signer-skip" => keys = s.keys /\ signed = {s.keys[i] : i \in s.flagged \ {a.at}}
  <2>1. a.by = "signer-skip" => a.by \notin Faking
    BY DEF Faking
  <2> QED BY <2>1
<1> HIDE DEF c, out, armed, keys, signed, watched
<1>7. out.ok
  <2> DEFINE t == Tamper(<<>>, now, s, a)
             found == out.ok /\ \E k \in Range(watched) : out.l[k] # now[k]
             no == FALSE
  <2>1. \/ t = [ok |-> no, l |-> now, guilty |-> no]
        \/ t = [ok |-> out.ok, l |-> Restored(now, out.l, watched), guilty |-> found]
    BY <1>2 DEF Judged
  <2>2. t.guilty /\ ~no
    OBVIOUS
  <2>3. found => out.ok
    OBVIOUS
  <2> HIDE DEF t, found, no
  <2> QED BY <2>1, <2>2, <2>3
<1> QED BY <1>1, <1>3, <1>4, <1>5, <1>6, <1>7 DEF TamperedCall

\* Handlers with their checks refuse another vault, and a depositor that did
\* not sign.
LEMMA GuardedRefuses ==
    ASSUME NEW c, c.prog = "escrow", c.dropped = <<>>, Key(c, 2) = "depositor",
           c.ix \in {"unsafe_accumulate_yield", "unsafe_self_reentry", "unsafe_realloc_grow"},
           Key(c, 1) # "vault" \/ "depositor" \notin c.signed
    PROVE  Execute(c) = Refused
<1>1. ~IsDepositorsVault(c)
  <2>1. IsSeeded(c, 1, 2) => Key(c, 1) = "vault"
    BY Names DEF IsSeeded
  <2>2. IsSigner(c, 2) => "depositor" \in c.signed
    BY DEF IsSigner, Signs
  <2> QED BY <2>1, <2>2 DEF IsDepositorsVault
<1>2. CASE c.ix = "unsafe_accumulate_yield"
  BY <1>1, <1>2 DEF Execute, Handlers, UnsafeAccumulateYield
<1>3. CASE c.ix = "unsafe_self_reentry"
  BY <1>1, <1>3 DEF Execute, Handlers, UnsafeSelfReentry
<1>4. CASE c.ix = "unsafe_realloc_grow"
  BY <1>1, <1>4 DEF Execute, Handlers, UnsafeReallocGrow
<1> QED BY <1>2, <1>3, <1>4

LEMMA EscrowFinds ==
    ASSUME prog = "escrow", NEW now, Ledgered(now), NEW n \in 1..7, NEW s, s = HandSpecs("escrow")[n],
           NEW a, a.by \in Detector, IsAttempt(s, a), Declares(s, a), Try(<<>>, now, s, a).guilty
    PROVE  <<a.by, s.ix>> \in Planted
<1>1. ASSUME a.by \in Critical PROVE \E c : TamperedCall(c, now, s, a)
  <2>1. Try(<<>>, now, s, a) = Tamper(<<>>, now, s, a)
    BY <1>1 DEF Try, Critical
  <2> QED BY <1>1, <2>1, TamperSends
<1>2. \A c : TamperedCall(c, now, s, a) => Execute(c) # Refused
  <2>1. ASSUME NEW c, TamperedCall(c, now, s, a) PROVE Execute(c) # Refused
    BY <2>1, RefusedSend DEF TamperedCall
  <2> QED BY <2>1
<1>3. ASSUME OnGuarded(s, a) PROVE FALSE
  <2>1. a.by \in Critical
    BY <1>3 DEF OnGuarded, Critical, Faking
  <2>2. PICK c : TamperedCall(c, now, s, a)
    BY <1>1, <2>1
  <2>3. Key(c, 2) = "depositor" /\ (Key(c, 1) # "vault" \/ "depositor" \notin c.signed)
    <3>1. CASE a.by = "signer-skip"
      <4>1. c.keys = s.keys /\ c.signed = {s.keys[i] : i \in s.flagged \ {2}} /\ s.flagged = {2}
        BY <1>3, <2>2, <3>1 DEF OnGuarded, TamperedCall, Faking
      <4>2. c.signed = {}
        BY <4>1
      <4> QED BY <1>3, <4>1, <4>2 DEF OnGuarded, Key
    <3>2. CASE a.by # "signer-skip"
      <4>1. c.keys = [s.keys EXCEPT ![1] = "fake"]
        BY <1>3, <2>2, <3>2 DEF OnGuarded, TamperedCall
      <4>2. {1, 2} \subseteq DOMAIN s.keys /\ s.keys[2] = "depositor"
        BY <1>3 DEF OnGuarded
      <4>3. c.keys[1] = "fake" /\ c.keys[2] = "depositor"
        BY <4>1, <4>2
      <4> QED BY <4>3 DEF Key
    <3> QED BY <3>1, <3>2
  <2>4. c.prog = "escrow" /\ c.dropped = <<>> /\ c.ix = s.ix
    BY <2>2 DEF TamperedCall
  <2>5. Execute(c) = Refused
    BY <1>3, <2>3, <2>4, GuardedRefuses DEF OnGuarded
  <2> QED BY <1>2, <2>2, <2>5
<1>4. ASSUME OnDos(s, a) PROVE FALSE
  <2>1. a.by \in Critical /\ a.by = "signer-skip"
    BY <1>4 DEF OnDos, Critical
  <2>2. PICK c : TamperedCall(c, now, s, a)
    BY <1>1, <2>1
  <2>3. /\ c.prog = "escrow" /\ c.ix = "unsafe_compute_dos"
        /\ c.signed = {s.keys[i] : i \in s.flagged \ {1}} /\ s.flagged = {1}
    BY <1>4, <2>2 DEF OnDos, TamperedCall
  <2>4. ~Signs(c, 1)
    BY <2>3 DEF Signs
  <2>5. Execute(c) = Refused
    BY <2>3, <2>4 DEF Execute, Handlers, UnsafeComputeDos
  <2> QED BY <1>2, <2>2, <2>5
<1>5. ASSUME OnBump(s, a) PROVE FALSE
  <2>1. a.by \in Critical
    BY <1>5 DEF OnBump, Critical, Faking
  <2>2. PICK c : TamperedCall(c, now, s, a)
    BY <1>1, <2>1
  <2>3. /\ c.prog = "escrow" /\ c.ix = "unsafe_withdraw_with_bump"
        /\ c.keys = [WithdrawKeys EXCEPT ![1] = "fake"]
    BY <1>5, <2>2 DEF OnBump, TamperedCall
  <2>4. Key(c, 1) = "fake" /\ Key(c, 2) = "depositor"
    BY <2>3 DEF Key, WithdrawKeys
  <2>5. Pda["depositor"] # "fake" /\ AltPda["depositor"] # "fake"
    BY DEF Pda, AltPda
  <2>6. Execute(c) = UnsafeWithdrawWithBump(c)
    BY <2>3 DEF Execute, Handlers
  <2>7. UnsafeWithdrawWithBump(c) = Refused
    BY <2>4, <2>5 DEF UnsafeWithdrawWithBump
  <2> QED BY <1>2, <2>2, <2>6, <2>7
<1>6. ASSUME OnOwner(s, a) PROVE FALSE
  <2>1. a.by \in Critical /\ a.by \in Faking /\ a.by = "owner-skip" /\ a.at = 1
    BY <1>6 DEF OnOwner, Critical, Faking
  <2>2. PICK c : TamperedCall(c, now, s, a)
    BY <1>1, <2>1
  <2> DEFINE real == now["vault"]
             copy == [real EXCEPT !.owner = a.with]
  <2>3. /\ c.prog = "escrow" /\ c.ix = "unsafe_withdraw"
        /\ c.keys = [WithdrawKeys EXCEPT ![1] = "fake"]
        /\ c.l = [now EXCEPT !["fake"] = [now[s.keys[1]] EXCEPT !.owner = a.with]]
        /\ s.keys[1] = "vault"
    BY <1>6, <2>1, <2>2 DEF OnOwner, TamperedCall, WithdrawKeys
  <2>4. Key(c, 1) = "fake"
    BY <2>3 DEF Key, WithdrawKeys
  <2>5. copy.owner = a.with /\ a.with # "program"
    <3>1. "owner" \in DOMAIN real
      BY Names DEF Ledgered, Owned
    <3>2. a.with \in {"system", "stranger"}
      BY <2>1 DEF IsAttempt
    <3> HIDE DEF real
    <3> QED BY <3>1, <3>2
  <2>6. At(c, 1) = copy
    <3>1. c.l = [now EXCEPT !["fake"] = copy]
      BY <2>3
    <3> HIDE DEF copy
    <3>2. "fake" \in DOMAIN now
      BY Names DEF Ledgered
    <3> QED BY <2>4, <3>1, <3>2 DEF At, Key
  <2> HIDE DEF copy
  <2>7. Execute(c) = UnsafeWithdraw(c)
    BY <2>3 DEF Execute, Handlers
  <2>8. UnsafeWithdraw(c) = Refused
    BY <2>5, <2>6 DEF UnsafeWithdraw
  <2> QED BY <1>2, <2>2, <2>7, <2>8
<1> QED BY <1>3, <1>4, <1>5, <1>6, EscrowDeclares

\* Whatever is sent, every key keeps an owner.
LEMMA EditedIsLedgered ==
    ASSUME NEW now, Ledgered(now), NEW k, NEW r, Owned(r)
    PROVE  Ledgered([now EXCEPT ![k] = r])
<1> DEFINE out == [now EXCEPT ![k] = r]
<1>1. DOMAIN out = Keys /\ \A j \in Keys : out[j] = r \/ out[j] = now[j]
  BY DEF Ledgered
<1> HIDE DEF out
<1>2. Ledgered(out)
  BY <1>1 DEF Ledgered
<1> QED BY <1>2 DEF out

LEMMA PaidIsLedgered ==
    ASSUME NEW now, Ledgered(now), NEW k, NEW x
    PROVE  Ledgered([now EXCEPT ![k].lamports = x])
<1> DEFINE out == [now EXCEPT ![k].lamports = x]
           r == [now[k] EXCEPT !.lamports = x]
<1>1. DOMAIN out = Keys /\ \A j \in Keys : out[j] = IF j = k THEN r ELSE now[j]
  BY DEF Ledgered
<1>2. k \in Keys => DOMAIN r = DOMAIN now[k]
  OBVIOUS
<1> HIDE DEF out, r
<1>3. \A j \in Keys : "owner" \in DOMAIN out[j]
  BY <1>1, <1>2 DEF Ledgered, Owned
<1>4. Ledgered(out)
  BY <1>1, <1>3 DEF Ledgered, Owned
<1> QED BY <1>4 DEF out

LEMMA MoveIsLedgered ==
    ASSUME NEW now, Ledgered(now), NEW from, NEW to, NEW n
    PROVE  Ledgered(Move(now, from, to, n))
<1> DEFINE paid == [now EXCEPT ![from].lamports = now[from].lamports - n]
           got == [paid EXCEPT ![to].lamports = paid[to].lamports + n]
<1>1. Ledgered(paid)
  BY PaidIsLedgered
<1>2. Move(now, from, to, n) = got
  BY DEF Move
<1> HIDE DEF paid
<1>3. Ledgered(got)
  BY <1>1, PaidIsLedgered
<1> QED BY <1>2, <1>3

LEMMA WriteIsLedgered ==
    ASSUME NEW now, Ledgered(now), NEW k, NEW field \in {"amount", "size"}, NEW n
    PROVE  Ledgered(Write(now, k, field, n))
<1> DEFINE a == [now[k] EXCEPT !.amount = n]
           b == [now[k] EXCEPT !.size = n]
           out == Write(now, k, field, n)
<1>1. out = [now EXCEPT ![k] = a] \/ out = [now EXCEPT ![k] = b]
  <2>1. field = "amount" => out = [now EXCEPT ![k].amount = n]
    BY DEF Write
  <2>2. field = "size" => out = [now EXCEPT ![k].size = n]
    BY DEF Write
  <2> QED BY <2>1, <2>2
<1>2. DOMAIN a = DOMAIN now[k] /\ DOMAIN b = DOMAIN now[k]
  OBVIOUS
<1> HIDE DEF a, b, out
<1>3. CASE k \in Keys
  <2>1. Owned(a) /\ Owned(b)
    BY <1>2, <1>3 DEF Ledgered, Owned
  <2>2. Ledgered(out)
    BY <1>1, <2>1, EditedIsLedgered
  <2> QED BY <2>2 DEF out
<1>4. CASE k \notin Keys
  <2>1. DOMAIN out = Keys /\ \A j \in Keys : out[j] = now[j]
    BY <1>1, <1>4 DEF Ledgered
  <2>2. Ledgered(out)
    BY <2>1 DEF Ledgered
  <2> QED BY <2>2 DEF out
<1> QED BY <1>3, <1>4

LEMMA ExecuteIsLedgered ==
    ASSUME NEW c, c.prog \in Programs, "l" \in DOMAIN c, Ledgered(c.l), Execute(c) # Refused
    PROVE  Ledgered(Execute(c))
<1> DEFINE after == Execute(c)
<1>0. c.ix \in Handlers[c.prog]
  BY DEF Execute
<1>1. \A k, field, n : field \in {"amount", "size"} => Ledgered(Write(c.l, k, field, n))
  BY WriteIsLedgered
<1>2. \A from, to, n : Ledgered(Move(c.l, from, to, n))
  BY MoveIsLedgered
<1>3. \A from, to, n, k, x : Ledgered(Write(Move(c.l, from, to, n), k, "amount", x))
  BY <1>2, WriteIsLedgered
<1>4. CASE c.ix = "initialize"
  <2> DEFINE r == [lamports |-> Rent[VaultSize], owner |-> "program",
                   disc |-> "Vault", size |-> VaultSize,
                   depositor |-> Key(c, 2), beneficiary |-> c.arg[1],
                   unlock_slot |-> c.arg[2], amount |-> 0]
             paid == Move(c.l, Key(c, 2), Key(c, 1), Rent[VaultSize])
  <2>1. after = [paid EXCEPT ![Key(c, 1)] = r]
    BY <1>0, <1>4 DEF Execute, Initialize
  <2>2. Owned(r)
    BY DEF Owned
  <2>3. Ledgered(paid)
    BY <1>2
  <2> HIDE DEF r, paid, after
  <2>4. Ledgered(after)
    BY <2>1, <2>2, <2>3, EditedIsLedgered
  <2> QED BY <2>4 DEF after
<1>5. CASE c.ix = "deposit"
  <2>1. after = Deposit(c)
    BY <1>0, <1>5 DEF Execute
  <2> QED BY <2>1, <1>3 DEF Deposit
<1>6. CASE c.ix = "withdraw"
  <2>1. after = Withdraw(c)
    BY <1>0, <1>6 DEF Execute
  <2> QED BY <2>1, <1>3 DEF Withdraw
<1>7. CASE c.ix = "claim"
  <2>1. after = Claim(c)
    BY <1>0, <1>7 DEF Execute
  <2> QED BY <2>1, <1>3 DEF Claim
<1>8. CASE c.ix = "unsafe_withdraw"
  <2>1. after = UnsafeWithdraw(c)
    BY <1>0, <1>8 DEF Execute
  <2> QED BY <2>1, <1>2 DEF UnsafeWithdraw
<1>9. CASE c.ix = "unsafe_withdraw_with_bump"
  <2>1. after = UnsafeWithdrawWithBump(c)
    BY <1>0, <1>9 DEF Execute
  <2> QED BY <2>1, <1>2 DEF UnsafeWithdrawWithBump
<1>10. CASE c.ix = "unsafe_set_amount_from_source"
  <2>1. after = UnsafeSetAmountFromSource(c)
    BY <1>0, <1>10 DEF Execute
  <2> QED BY <2>1, <1>1 DEF UnsafeSetAmountFromSource
<1>11. CASE c.ix = "unsafe_accumulate_yield"
  <2>1. after = UnsafeAccumulateYield(c)
    BY <1>0, <1>11 DEF Execute
  <2> QED BY <2>1, <1>1 DEF UnsafeAccumulateYield
<1>12. CASE c.ix = "unsafe_compute_dos"
  <2>1. after = UnsafeComputeDos(c)
    BY <1>0, <1>12 DEF Execute
  <2> QED BY <2>1 DEF UnsafeComputeDos
<1>13. CASE c.ix = "unsafe_realloc_grow"
  <2>1. after = UnsafeReallocGrow(c)
    BY <1>0, <1>13 DEF Execute
  <2> QED BY <2>1, <1>1 DEF UnsafeReallocGrow
<1>14. CASE c.ix = "unsafe_inner_mutate"
  <2>1. after = UnsafeInnerMutate(c)
    BY <1>0, <1>14 DEF Execute
  <2> QED BY <2>1, <1>1 DEF UnsafeInnerMutate
<1>15. CASE c.ix = "unsafe_self_reentry"
  <2> DEFINE d == [c EXCEPT !.keys = SubSeq(@, 1, 2), !.arg = InnerValue]
             inner == UnsafeInnerMutate(d)
  <2>1. after = UnsafeSelfReentry(c)
    BY <1>0, <1>15 DEF Execute
  <2>2. d.l = c.l
    OBVIOUS
  <2> HIDE DEF d
  <2>3. inner # Refused => Ledgered(inner)
    BY <2>2, <1>1 DEF UnsafeInnerMutate
  <2>4. after = Write(inner, Key(c, 1), "amount", At(c, 1).amount) /\ inner # Refused
    BY <2>1 DEF UnsafeSelfReentry, d
  <2> HIDE DEF inner, after
  <2>5. Ledgered(after)
    BY <2>3, <2>4, WriteIsLedgered
  <2> QED BY <2>5 DEF after
<1>16. c.ix \in {"initialize", "deposit", "withdraw", "claim", "unsafe_withdraw",
                 "unsafe_withdraw_with_bump", "unsafe_set_amount_from_source",
                 "unsafe_accumulate_yield", "unsafe_compute_dos", "unsafe_realloc_grow",
                 "unsafe_self_reentry", "unsafe_inner_mutate"}
  BY <1>0 DEF Handlers, Programs
<1> QED BY <1>4, <1>5, <1>6, <1>7, <1>8, <1>9, <1>10, <1>11, <1>12, <1>13, <1>14, <1>15, <1>16

LEMMA SendIsLedgered ==
    ASSUME NEW c, c.prog \in Programs, "l" \in DOMAIN c, Ledgered(c.l)
    PROVE  Ledgered(Send(c).l)
<1> DEFINE after == Execute(c)
           out == Send(c).l
           kept == [k \in Keys |-> IF after[k].lamports = 0 THEN Blank ELSE after[k]]
<1>1. out = c.l \/ (after # Refused /\ out = kept)
  BY DEF Send, Settled
<1>2. after # Refused => Ledgered(after)
  BY ExecuteIsLedgered
<1>3. Owned(Blank)
  BY DEF Blank, Owned
<1> HIDE DEF after, out
<1>4. after # Refused => Ledgered(kept)
  <2>1. DOMAIN kept = Keys /\ \A k \in Keys : kept[k] = Blank \/ kept[k] = after[k]
    OBVIOUS
  <2> HIDE DEF kept
  <2> QED BY <1>2, <1>3, <2>1 DEF Ledgered
<1>5. Ledgered(out)
  BY <1>1, <1>4
<1> QED BY <1>5 DEF out

LEMMA RestoredIsLedgered ==
    ASSUME NEW before, Ledgered(before), NEW now, Ledgered(now), NEW keys
    PROVE  Ledgered(Restored(before, now, keys))
<1> DEFINE out == Restored(before, now, keys)
           is(k) == CASE k = "fake" -> Blank
                      [] k # "fake" /\ k \in Range(keys) /\ before[k] # Blank -> before[k]
                      [] OTHER -> now[k]
<1>1. out = [k \in DOMAIN now |-> is(k)]
  BY DEF Restored
<1>2. \A k : is(k) \in {Blank, before[k], now[k]}
  OBVIOUS
<1> HIDE DEF out, is
<1>3. Owned(Blank)
  BY DEF Blank, Owned
<1>4. DOMAIN out = Keys /\ \A k \in Keys : out[k] \in {Blank, before[k], now[k]}
  BY <1>1, <1>2 DEF Ledgered
<1>5. Ledgered(out)
  BY <1>3, <1>4 DEF Ledgered
<1> QED BY <1>5 DEF out

\* Whatever an attempt on escrow tries, every key keeps an owner.
LEMMA TryIsLedgered ==
    ASSUME prog = "escrow", NEW m, NEW now, Ledgered(now), NEW s, NEW a,
           s.keys \in Seq(Keys), IsAttempt(s, a)
    PROVE  Ledgered(Try(m, now, s, a).l)
<1> DEFINE real == now[s.keys[a.at]]
<1>1. Owned(real)
  BY DEF Ledgered, IsAttempt
<1>2. ASSUME NEW n, Ledgered(n), NEW keys, NEW flags, NEW arg
      PROVE  Ledgered(Sent(m, n, s, keys, flags, arg).l)
  <2> DEFINE signed == {keys[i] : i \in flags}
             c == Call(prog, m, n, slot, s.ix, keys, signed, arg)
  <2>1. c.prog \in Programs /\ "l" \in DOMAIN c /\ c.l = n
    BY DEF Call, Programs
  <2>2. Sent(m, n, s, keys, flags, arg) = Send(c)
    BY DEF Sent
  <2> HIDE DEF c
  <2>3. Ledgered(Send(c).l)
    BY <1>2, <2>1, SendIsLedgered
  <2> QED BY <2>2, <2>3
<1>3. CASE a.by \in Critical
  <2> DEFINE copy == CASE a.by = "owner-skip"         -> [real EXCEPT !.owner = a.with]
                       [] a.by = "discriminator-skip" -> [real EXCEPT !.disc = a.with]
                       [] OTHER                       -> real
             armed == IF a.by \in Faking THEN [now EXCEPT !["fake"] = copy] ELSE now
             t == Tamper(m, now, s, a)
  <2>1. Owned(copy)
    <3>1. CASE a.by = "owner-skip"
      <4>1. copy = [real EXCEPT !.owner = a.with]
        BY <3>1
      <4> HIDE DEF real, copy
      <4> QED BY <1>1, <4>1 DEF Owned
    <3>2. CASE a.by = "discriminator-skip"
      <4>1. copy = [real EXCEPT !.disc = a.with]
        BY <3>2
      <4> HIDE DEF real, copy
      <4> QED BY <1>1, <4>1 DEF Owned
    <3>3. CASE a.by \notin {"owner-skip", "discriminator-skip"}
      <4>1. copy = real
        BY <3>3
      <4> QED BY <1>1, <4>1
    <3> QED BY <3>1, <3>2, <3>3
  <2>2. Ledgered(armed)
    BY <2>1, EditedIsLedgered
  <2>3. PICK keys, flags, watched :
            \/ t = [ok |-> FALSE, l |-> now, guilty |-> FALSE]
            \/ t = Judged(now, watched, Sent(m, armed, s, keys, flags, s.arg))
    BY DEF Tamper
  <2> DEFINE out == Sent(m, armed, s, keys, flags, s.arg)
  <2> HIDE DEF armed
  <2>4. Ledgered(out.l)
    BY <1>2, <2>2
  <2> HIDE DEF t, out
  <2>5. t.l = now \/ t.l = Restored(now, out.l, watched)
    BY <2>3 DEF Judged, out
  <2>6. Ledgered(t.l)
    BY <2>4, <2>5, RestoredIsLedgered
  <2>7. Try(m, now, s, a) = t
    BY <1>3 DEF Try, Critical, t
  <2> QED BY <2>6, <2>7
<1>4. CASE a.by = "bump-seed-canonicalization"
  <2> DEFINE alt == AltPda[s.pda[a.at][2]]
             armed == [now EXCEPT ![alt] = real]
             keys == [s.keys EXCEPT ![a.at] = alt]
             arg == [s.arg EXCEPT !.bump = "lower"]
             out == Sent(m, armed, s, keys, s.flagged, arg)
             t == Try(m, now, s, a)
  <2>1. Ledgered(armed)
    BY <1>1, EditedIsLedgered
  <2> HIDE DEF real
  <2>2. t = Blanked(alt, out)
    BY <1>4 DEF Try, Critical, TamperBump, real
  <2> HIDE DEF armed, keys, arg
  <2>3. Ledgered(out.l)
    BY <1>2, <2>1
  <2>4. Owned(Blank)
    BY DEF Blank, Owned
  <2> HIDE DEF t, out, alt
  <2> DEFINE then == out.l
             blanked == [then EXCEPT ![alt] = Blank]
  <2>5. t.l = blanked
    BY <2>2 DEF Blanked
  <2> HIDE DEF then
  <2>6. Ledgered(blanked)
    BY <2>3, <2>4, EditedIsLedgered DEF then
  <2>7. Ledgered(t.l)
    BY <2>5, <2>6
  <2> QED BY <2>7 DEF t
<1>5. CASE a.by \notin Critical \cup {"bump-seed-canonicalization"}
  <2> DEFINE out == Sent(m, now, s, s.keys, s.flagged, s.arg)
             t == Try(m, now, s, a)
  <2>1. t = Heard(m, now, s, a.by, out)
    BY <1>5 DEF Try, Critical, Replay, Canonical
  <2>2. Ledgered(out.l)
    BY <1>2
  <2> HIDE DEF t, out
  <2>3. t.l = Restored(now, out.l, s.keys)
    BY <2>1 DEF Heard
  <2>4. Ledgered(t.l)
    BY <2>2, <2>3, RestoredIsLedgered
  <2> QED BY <2>4 DEF t
<1> QED BY <1>3, <1>4, <1>5

-----------------------------------------------------------------------------
(* Sequences made one element after another.                               *)

\* Every set of numbers that is not empty has a least element.
LEMMA LeastExists ==
    ASSUME NEW T \in SUBSET Nat, T # {}
    PROVE  \E x \in T : \A y \in T : x <= y
<1> DEFINE R == {ss \in Nat \X Nat : ss[1] < ss[2]}
<1>1. IsWellFoundedOn(R, Nat)
  BY NatLessThanWellFounded DEF OpToRel
<1> HIDE DEF R
<1>2. PICK x \in T : \A y \in T : ~(<<y, x>> \in R)
  BY <1>1, WFMin
<1>3. \A y \in T : ~(y < x)
  BY <1>2 DEF R
<1> QED BY <1>2, <1>3

\* Induction over the numbers up to N, for the numbers of a set.
LEMMA UpTo ==
    ASSUME NEW N \in Nat, NEW P, 0 \in P, \A i \in 1..N : i - 1 \in P => i \in P
    PROVE  \A i \in 0..N : i \in P
<1> DEFINE T == {i \in 0..N : i \notin P}
<1>1. SUFFICES T = {}
  OBVIOUS
<1>2. SUFFICES ASSUME T # {} PROVE FALSE
  OBVIOUS
<1>3. PICK i \in T : \A j \in T : i <= j
  <2>1. T \in SUBSET Nat
    OBVIOUS
  <2> HIDE DEF T
  <2> QED BY <1>2, <2>1, LeastExists
<1>4. i \in 1..N /\ i - 1 \in 0..N /\ i - 1 \notin T
  BY <1>3
<1> QED BY <1>3, <1>4


LEMMA MadeSeq ==
    ASSUME NEW S, NEW n \in Nat, NEW f, f = [i \in 1..n |-> f[i]], \A i \in 1..n : f[i] \in S
    PROVE  f \in Seq(S)
OBVIOUS

LEMMA JoinedHas ==
    ASSUME NEW S, NEW x \in Seq(S), NEW y \in Seq(S)
    PROVE  /\ x \o y \in Seq(S)
           /\ \A e : e \in Range(x) \/ e \in Range(y) => e \in Range(x \o y)
<1>1. x \o y \in Seq(S) /\ Len(x \o y) = Len(x) + Len(y) /\ Len(x) \in Nat /\ Len(y) \in Nat
  OBVIOUS
<1>2. \A i \in 1..Len(x) : (x \o y)[i] = x[i]
  OBVIOUS
<1>3. \A i \in 1..Len(y) : (x \o y)[Len(x) + i] = y[i]
  OBVIOUS
<1>4. ASSUME NEW e, e \in Range(x) PROVE e \in Range(x \o y)
  <2>1. PICK i \in 1..Len(x) : x[i] = e
    BY <1>4 DEF Range
  <2> DEFINE z == x \o y
  <2>2. i \in 1..Len(z) /\ z[i] = e
    BY <1>1, <1>2, <2>1
  <2>3. DOMAIN z = 1..Len(z)
    BY <1>1
  <2> HIDE DEF z
  <2>4. e \in Range(z)
    BY <2>2, <2>3 DEF Range
  <2> QED BY <2>4 DEF z
<1>5. ASSUME NEW e, e \in Range(y) PROVE e \in Range(x \o y)
  <2>1. PICK i \in 1..Len(y) : y[i] = e
    BY <1>5 DEF Range
  <2> DEFINE z == x \o y
             n == Len(x) + i
  <2>2. n \in 1..Len(z) /\ z[n] = e
    BY <1>1, <1>3, <2>1
  <2>3. DOMAIN z = 1..Len(z)
    BY <1>1
  <2> HIDE DEF z, n
  <2>4. e \in Range(z)
    BY <2>2, <2>3 DEF Range
  <2> QED BY <2>4 DEF z
<1> QED BY <1>1, <1>4, <1>5

LEMMA AppendHas ==
    ASSUME NEW S, NEW q \in Seq(S), NEW x \in S
    PROVE  /\ Append(q, x) \in Seq(S) /\ x \in Range(Append(q, x))
           /\ \A e : e \in Range(q) => e \in Range(Append(q, x))
<1> DEFINE z == Append(q, x)
           n == Len(q)
<1>1. /\ z \in Seq(S) /\ DOMAIN z = 1..(n + 1) /\ n \in Nat /\ DOMAIN q = 1..n
      /\ z[n + 1] = x /\ \A i \in 1..n : z[i] = q[i]
  OBVIOUS
<1> HIDE DEF z, n
<1>2. x \in Range(z)
  BY <1>1 DEF Range
<1>3. ASSUME NEW e, e \in Range(q) PROVE e \in Range(z)
  <2>1. PICK i \in 1..n : q[i] = e
    BY <1>1, <1>3 DEF Range
  <2>2. i \in 1..(n + 1) /\ z[i] = e
    BY <1>1, <2>1
  <2> QED BY <1>1, <2>2 DEF Range
<1> QED BY <1>1, <1>2, <1>3 DEF z

\* The elements of the first `k' sequences are among `all'.
Holds(all, seqs, k) == \A i \in 1..k : \A e : e \in Range(seqs[i]) => e \in Range(all)

LEMMA Flattened ==
    ASSUME NEW S, NEW seqs \in Seq(Seq(S))
    PROVE  FlattenSeq(seqs) \in Seq(S) /\ Holds(FlattenSeq(seqs), seqs, Len(seqs))
<1> DEFINE N == Len(seqs)
           Next1(f, i) == IF i = 1 THEN seqs[i] ELSE f[i - 1] \o seqs[i]
           P == {k \in 0..N : \E f : f = [i \in 1..k |-> Next1(f, i)]}
           flatten == CHOOSE f : f = [i \in 1..N |-> Next1(f, i)]
<1>1. N \in Nat /\ \A i \in 1..N : seqs[i] \in Seq(S)
  OBVIOUS
<1>2. 0 \in P
  <2> DEFINE e == [i \in 1..0 |-> i]
  <2>1. e = [i \in 1..0 |-> Next1(e, i)]
    <3>1. \A i \in 1..0 : e[i] = Next1(e, i)
      OBVIOUS
    <3>2. e = [i \in 1..0 |-> e[i]]
      OBVIOUS
    <3> HIDE DEF e, Next1
    <3> QED BY <3>1, <3>2
  <2> HIDE DEF e, Next1, N
  <2>2. \E f : f = [i \in 1..0 |-> Next1(f, i)]
    BY <2>1
  <2>3. 0 \in 0..N
    BY <1>1
  <2> QED BY <2>2, <2>3
<1>3. ASSUME NEW k \in 1..N, k - 1 \in P PROVE k \in P
  <2>1. PICK f : f = [i \in 1..(k - 1) |-> Next1(f, i)]
    BY <1>3
  <2> DEFINE g == [i \in 1..k |-> IF i = k THEN Next1(f, k) ELSE f[i]]
  <2>2. ASSUME NEW i \in 1..k PROVE g[i] = Next1(g, i)
    <3>1. CASE i = k
      BY <3>1
    <3>2. CASE i # k
      <4>1. i \in 1..(k - 1) /\ i - 1 \in 0..(k - 1)
        BY <3>2
      <4>2. g[i] = f[i] /\ (i # 1 => g[i - 1] = f[i - 1])
        BY <4>1
      <4>3. f[i] = Next1(f, i)
        BY <2>1, <4>1
      <4> QED BY <4>2, <4>3
    <3> QED BY <3>1, <3>2
  <2>3. g = [i \in 1..k |-> Next1(g, i)]
    <3>1. g = [i \in 1..k |-> g[i]]
      OBVIOUS
    <3> HIDE DEF g
    <3> QED BY <2>2, <3>1
  <2> HIDE DEF g, Next1
  <2> QED BY <2>3
<1> HIDE DEF P
<1>4. N \in P
  <2> HIDE DEF N
  <2>1. \A k \in 0..N : k \in P
    BY <1>1, <1>2, <1>3, UpTo
  <2> QED BY <1>1, <2>1
<1>5. flatten = [i \in 1..N |-> Next1(flatten, i)]
  <2>1. \E f : f = [i \in 1..N |-> Next1(f, i)]
    BY <1>4 DEF P
  <2> HIDE DEF N, Next1
  <2> QED BY <2>1
<1>6. FlattenSeq(seqs) = IF N = 0 THEN seqs ELSE flatten[N]
  BY DEF FlattenSeq
<1> HIDE DEF flatten
<1>7. CASE N = 0
  BY <1>6, <1>7 DEF Holds
<1>8. CASE N # 0
  <2> DEFINE Q == {k \in 0..N : k = 0 \/ (flatten[k] \in Seq(S) /\ Holds(flatten[k], seqs, k))}
  <2>1. 0 \in Q
    BY <1>1
  <2>2. ASSUME NEW k \in 1..N, k - 1 \in Q PROVE k \in Q
    <3>1. flatten[k] = Next1(flatten, k)
      BY <1>5
    <3>2. seqs[k] \in Seq(S)
      BY <1>1
    <3>3. CASE k = 1
      <4>1. flatten[k] = seqs[1] /\ \A i \in 1..k : i = 1
        BY <3>1, <3>3
      <4>2. Holds(flatten[k], seqs, k)
        BY <4>1 DEF Holds
      <4> QED BY <3>2, <3>3, <4>1, <4>2
    <3>4. CASE k # 1
      <4> DEFINE done == flatten[k - 1]
                 part == seqs[k]
      <4>1. done \in Seq(S) /\ Holds(done, seqs, k - 1)
        BY <2>2, <3>4
      <4>2. flatten[k] = done \o part
        BY <3>1, <3>4
      <4> HIDE DEF done, part, N
      <4>3. /\ done \o part \in Seq(S)
            /\ \A e : e \in Range(done) \/ e \in Range(part) => e \in Range(done \o part)
        BY <3>2, <4>1, JoinedHas DEF part
      <4>4. Holds(done \o part, seqs, k)
        <5> DEFINE joined == done \o part
        <5> HIDE DEF joined
        <5>1. ASSUME NEW i \in 1..k, NEW e, e \in Range(seqs[i]) PROVE e \in Range(joined)
          <6>1. CASE i = k
            BY <4>3, <5>1, <6>1 DEF part, joined
          <6>2. CASE i # k
            <7>1. i \in 1..(k - 1)
              BY <6>2
            <7>2. e \in Range(done)
              BY <4>1, <5>1, <7>1 DEF Holds
            <7> QED BY <4>3, <7>2 DEF joined
          <6> QED BY <6>1, <6>2
        <5>2. Holds(joined, seqs, k)
          BY <5>1 DEF Holds
        <5> QED BY <5>2 DEF joined
      <4>5. flatten[k] \in Seq(S) /\ Holds(flatten[k], seqs, k)
        BY <4>2, <4>3, <4>4
      <4> QED BY <1>1, <4>5
    <3> QED BY <3>3, <3>4
  <2> HIDE DEF Q
  <2>3. N \in Q
    <3> HIDE DEF N
    <3>1. \A k \in 0..N : k \in Q
      BY <1>1, <2>1, <2>2, UpTo
    <3> QED BY <1>1, <3>1
  <2> QED BY <2>3, <1>6, <1>8 DEF Q
<1> QED BY <1>7, <1>8

\* The attempts on the specs of a program, and those they declare.
SpecOf(p, a) == HandSpecs(p)[a.n]

SlotAttempts(p) ==
    {a \in [by : Detector, n : DOMAIN HandSpecs(p), at : Nat, with : {"system", "stranger", "wrong"}] :
        IsAttempt(SpecOf(p, a), a)}

DeclaredAttempts(p) == {a \in SlotAttempts(p) : Declares(SpecOf(p, a), a)}

LEMMA SpecsHaveKeys ==
    ASSUME NEW p \in Programs
    PROVE  LET specs == HandSpecs(p) IN
           /\ Len(specs) \in Nat /\ DOMAIN specs = 1..Len(specs)
           /\ \A n \in 1..Len(specs) : specs[n].keys \in Seq(Keys)
<1>1. CASE p = "escrow_clean"
  <2>1. Len(HandSpecs("escrow_clean")) = 4 /\ DOMAIN HandSpecs("escrow_clean") = 1..4
    BY DEF HandSpecs
  <2>2. \A n \in 1..4 : HandSpecs("escrow_clean")[n].keys \in Seq(Keys)
    BY CleanSpecs DEF CleanSpec
  <2> QED BY <1>1, <2>1, <2>2
<1>2. CASE p = "escrow"
  <2>1. \A keys \in {WithdrawKeys, SetAmountKeys, ComputeDosKeys, SelfReentryKeys} : keys \in Seq(Keys)
    <3>1. {"vault", "vault_b", "depositor", "escrow_program"} \subseteq Keys
      BY DEF Keys, People, Vaults, Pda
    <3>2. WithdrawKeys \in Seq(Keys) /\ SetAmountKeys \in Seq(Keys)
      BY <3>1 DEF WithdrawKeys, SetAmountKeys
    <3>3. ComputeDosKeys \in Seq(Keys) /\ SelfReentryKeys \in Seq(Keys)
      BY <3>1 DEF ComputeDosKeys, SelfReentryKeys
    <3> QED BY <3>2, <3>3
  <2>2. \A n \in 1..7 : HandSpecs("escrow")[n].keys \in Seq(Keys)
    <3>1. ASSUME NEW n, NEW s, EscrowSpec(n, s) PROVE s.keys \in Seq(Keys)
      <4>1. s.keys \in {WithdrawKeys, SetAmountKeys, ComputeDosKeys, SelfReentryKeys}
        BY <3>1, UnsafeWithdrawSays, SetAmountSays, AccumulateYieldSays, ComputeDosSays,
           SelfReentrySays, ReallocGrowSays, WithdrawWithBumpSays DEF EscrowSpec, Reads
      <4> QED BY <2>1, <4>1
    <3> QED BY <3>1, EscrowSpecsAre
  <2>3. 7 \in Nat /\ Len(HandSpecs(p)) = 7 /\ DOMAIN HandSpecs(p) = 1..7
    BY <1>2, EscrowSpecsAre
  <2> QED BY <1>2, <2>2, <2>3
<1> QED BY <1>1, <1>2 DEF Programs

\* The attempt of a detector on the first slot of a spec.
SpecKeys(p, n) == HandSpecs(p)[n].keys
FirstSlot(d, n) == [by |-> d, n |-> n, at |-> 1, with |-> "wrong"]

LEMMA AttemptsAreOnSlots ==
    ASSUME NEW p \in Programs, NEW t \in TestsOf[p]
    PROVE  /\ HandAttempts[p][t] \in Seq(SlotAttempts(p))
           /\ \A d \in DOMAIN Tests[t], n \in DOMAIN HandSpecs(p) :
                 Tests[t][d] # "owner-skip" /\ 1 \in DOMAIN SpecKeys(p, n) =>
                     FirstSlot(Tests[t][d], n) \in Range(HandAttempts[p][t])
<1> DEFINE chain == Tests[t]
           specs == HandSpecs(p)
           M == Len(specs)
           S == SlotAttempts(p)
           tries(d, n, i) ==
               IF d = "owner-skip"
               THEN <<[by |-> d, n |-> n, at |-> i, with |-> "system"],
                      [by |-> d, n |-> n, at |-> i, with |-> "stranger"]>>
               ELSE <<[by |-> d, n |-> n, at |-> i, with |-> "wrong"]>>
           of(d, n) == FlattenSeq([i \in DOMAIN specs[n].keys |-> tries(d, n, i)])
           each(d) == FlattenSeq([n \in DOMAIN specs |-> of(d, n)])
<1>1. HandAttempts[p][t] = FlattenSeq([d \in DOMAIN chain |-> each(chain[d])])
  BY DEF HandAttempts, Attempts
<1>2. chain \in Seq(Detector)
  BY HarnessAssumption
<1>3. M \in Nat /\ DOMAIN specs = 1..M /\ \A n \in 1..M : specs[n].keys \in Seq(Keys)
  BY SpecsHaveKeys
<1>4. ASSUME NEW d \in Detector, NEW n \in 1..M, NEW i \in DOMAIN specs[n].keys
      PROVE  /\ tries(d, n, i) \in Seq(S)
             /\ d # "owner-skip" /\ i = 1 => FirstSlot(d, n) \in Range(tries(d, n, i))
  <2>1. i \in Nat
    BY <1>3
  <2> HIDE DEF specs, M
  <2>2. ASSUME NEW w \in {"system", "stranger", "wrong"},
               d = "owner-skip" => w # "wrong", d # "owner-skip" => w = "wrong"
        PROVE  [by |-> d, n |-> n, at |-> i, with |-> w] \in S
    BY <1>3, <2>1, <2>2, <1>4 DEF SlotAttempts, SpecOf, IsAttempt, specs, M
  <2> HIDE DEF S
  <2>3. CASE d = "owner-skip"
    BY <2>2, <2>3
  <2>4. CASE d # "owner-skip"
    <3> DEFINE e == [by |-> d, n |-> n, at |-> i, with |-> "wrong"]
    <3>1. e \in S /\ tries(d, n, i) = <<e>>
      BY <2>2, <2>4
    <3>2. i = 1 => FirstSlot(d, n) = e
      BY DEF FirstSlot
    <3> HIDE DEF e, tries
    <3>3. <<e>> \in Seq(S) /\ e \in Range(<<e>>)
      BY <3>1 DEF Range
    <3> QED BY <3>1, <3>2, <3>3
  <2> QED BY <2>3, <2>4
<1> HIDE DEF S, specs, M, tries
<1>5. ASSUME NEW d \in Detector, NEW n \in 1..M
      PROVE  /\ of(d, n) \in Seq(S)
             /\ d # "owner-skip" /\ 1 \in DOMAIN specs[n].keys => FirstSlot(d, n) \in Range(of(d, n))
  <2> DEFINE parts == [i \in DOMAIN specs[n].keys |-> tries(d, n, i)]
  <2>1. parts \in Seq(Seq(S))
    <3> DEFINE m == Len(specs[n].keys)
    <3>1. m \in Nat /\ DOMAIN specs[n].keys = 1..m
      BY <1>3
    <3> HIDE DEF m
    <3>2. parts = [i \in 1..m |-> parts[i]] /\ \A i \in 1..m : parts[i] \in Seq(S)
      BY <1>4, <3>1
    <3> HIDE DEF parts
    <3> QED BY <3>1, <3>2, MadeSeq
  <2> HIDE DEF parts
  <2>2. FlattenSeq(parts) \in Seq(S) /\ Holds(FlattenSeq(parts), parts, Len(parts))
    BY <2>1, Flattened
  <2>3. ASSUME d # "owner-skip", 1 \in DOMAIN specs[n].keys
        PROVE  FirstSlot(d, n) \in Range(FlattenSeq(parts))
    <3>1. 1 \in DOMAIN parts /\ parts[1] = tries(d, n, 1)
      BY <2>3 DEF parts
    <3>2. FirstSlot(d, n) \in Range(parts[1])
      BY <1>4, <2>3, <3>1
    <3>3. 1 \in 1..Len(parts)
      BY <2>1, <3>1
    <3> QED BY <2>2, <3>2, <3>3 DEF Holds
  <2> QED BY <2>2, <2>3 DEF parts
<1> HIDE DEF of
<1>6. ASSUME NEW d \in Detector
      PROVE  /\ each(d) \in Seq(S)
             /\ \A n \in 1..M : d # "owner-skip" /\ 1 \in DOMAIN specs[n].keys =>
                                   FirstSlot(d, n) \in Range(each(d))
  <2> DEFINE parts == [n \in DOMAIN specs |-> of(d, n)]
  <2>1. parts \in Seq(Seq(S))
    <3>1. parts = [n \in 1..M |-> parts[n]] /\ \A n \in 1..M : parts[n] \in Seq(S)
      BY <1>3, <1>5
    <3> HIDE DEF parts
    <3> QED BY <1>3, <3>1, MadeSeq
  <2> HIDE DEF parts
  <2>2. FlattenSeq(parts) \in Seq(S) /\ Holds(FlattenSeq(parts), parts, Len(parts))
    BY <2>1, Flattened
  <2>3. ASSUME NEW n \in 1..M, d # "owner-skip", 1 \in DOMAIN specs[n].keys
        PROVE  FirstSlot(d, n) \in Range(FlattenSeq(parts))
    <3>1. n \in DOMAIN parts /\ parts[n] = of(d, n)
      BY <1>3 DEF parts
    <3>2. FirstSlot(d, n) \in Range(parts[n])
      BY <1>5, <2>3, <3>1
    <3>3. n \in 1..Len(parts)
      BY <2>1, <3>1
    <3> QED BY <2>2, <3>2, <3>3 DEF Holds
  <2> QED BY <2>2, <2>3 DEF parts
<1> HIDE DEF each, chain
<1> DEFINE parts == [d \in DOMAIN chain |-> each(chain[d])]
<1>7. parts \in Seq(Seq(S))
  <2> DEFINE m == Len(chain)
  <2>1. m \in Nat /\ DOMAIN chain = 1..m /\ \A d \in 1..m : chain[d] \in Detector
    BY <1>2
  <2> HIDE DEF m
  <2>2. parts = [d \in 1..m |-> parts[d]] /\ \A d \in 1..m : parts[d] \in Seq(S)
    BY <1>6, <2>1
  <2> HIDE DEF parts
  <2> QED BY <2>1, <2>2, MadeSeq
<1> HIDE DEF parts
<1>8. FlattenSeq(parts) \in Seq(S) /\ Holds(FlattenSeq(parts), parts, Len(parts))
  BY <1>7, Flattened
<1>9. ASSUME NEW d \in DOMAIN chain, NEW n \in 1..M, chain[d] # "owner-skip", 1 \in DOMAIN specs[n].keys
      PROVE  FirstSlot(chain[d], n) \in Range(FlattenSeq(parts))
  <2>1. chain[d] \in Detector
    BY <1>2
  <2>2. d \in DOMAIN parts /\ parts[d] = each(chain[d])
    BY DEF parts
  <2>3. FirstSlot(chain[d], n) \in Range(parts[d])
    BY <1>6, <1>9, <2>1, <2>2
  <2>4. d \in 1..Len(parts)
    BY <1>7, <2>2
  <2> QED BY <1>8, <2>3, <2>4 DEF Holds
<1> QED BY <1>1, <1>3, <1>8, <1>9 DEF parts, S, chain, specs, SpecKeys

LEMMA TodoIsDeclared ==
    ASSUME prog \in Programs, test \in TestsOf[prog]
    PROVE  LET todo == Todo(HandSpecs(prog)) IN
           /\ todo \in Seq(DeclaredAttempts(prog))
           /\ Range(todo) = {a \in Range(HandAttempts[prog][test]) : Declares(SpecOf(prog, a), a)}
<1> DEFINE all == HandAttempts[prog][test]
           specs == HandSpecs(prog)
           N == Len(all)
           S == {a \in Range(all) : Declares(SpecOf(prog, a), a)}
           wanted(i) == Declares(specs[all[i].n], all[i])
           Next1(f, i) == IF i = 0 THEN <<>>
                          ELSE IF wanted(i) THEN Append(f[i - 1], all[i]) ELSE f[i - 1]
           P == {k \in 0..N : \E f : f = [i \in 0..k |-> Next1(f, i)]}
           kept == CHOOSE f : f = [i \in 0..N |-> Next1(f, i)]
<1>0. all \in Seq(SlotAttempts(prog))
  BY AttemptsAreOnSlots
<1>1. N \in Nat /\ DOMAIN all = 1..N /\ \A i \in 1..N : all[i] \in SlotAttempts(prog)
  <2> HIDE DEF all
  <2> QED BY <1>0
<1>2. Todo(specs) = kept[N]
  BY DEF Todo
<1>3. \A i \in 1..N : wanted(i) => all[i] \in S
  <2>1. \A i \in 1..N : all[i] \in Range(all)
    <3> HIDE DEF all
    <3> QED BY <1>1 DEF Range
  <2> QED BY <2>1 DEF SpecOf
<1> HIDE DEF all, wanted, S
<1>4. 0 \in P
  <2> DEFINE e == [i \in 0..0 |-> <<>>]
  <2>1. e = [i \in 0..0 |-> Next1(e, i)]
    <3>1. \A i \in 0..0 : e[i] = Next1(e, i)
      OBVIOUS
    <3>2. e = [i \in 0..0 |-> e[i]]
      OBVIOUS
    <3> HIDE DEF e, Next1
    <3> QED BY <3>1, <3>2
  <2> HIDE DEF e, Next1, N
  <2>2. \E f : f = [i \in 0..0 |-> Next1(f, i)]
    BY <2>1
  <2>3. 0 \in 0..N
    BY <1>1
  <2> QED BY <2>2, <2>3
<1>5. ASSUME NEW k \in 1..N, k - 1 \in P PROVE k \in P
  <2>1. PICK f : f = [i \in 0..(k - 1) |-> Next1(f, i)]
    BY <1>5
  <2> DEFINE g == [i \in 0..k |-> IF i = k THEN Next1(f, k) ELSE f[i]]
  <2>2. ASSUME NEW i \in 0..k PROVE g[i] = Next1(g, i)
    <3>1. CASE i = k
      BY <3>1, <1>1
    <3>2. CASE i # k
      <4>1. i \in 0..(k - 1) /\ (i # 0 => i - 1 \in 0..(k - 1))
        BY <3>2
      <4>2. g[i] = f[i] /\ (i # 0 => g[i - 1] = f[i - 1])
        BY <4>1
      <4>3. f[i] = Next1(f, i)
        BY <2>1, <4>1
      <4> QED BY <4>2, <4>3
    <3> QED BY <3>1, <3>2
  <2>3. g = [i \in 0..k |-> Next1(g, i)]
    <3>1. g = [i \in 0..k |-> g[i]]
      OBVIOUS
    <3> HIDE DEF g
    <3> QED BY <2>2, <3>1
  <2> HIDE DEF g, Next1
  <2> QED BY <2>3
<1> HIDE DEF P
<1>6. N \in P
  <2> HIDE DEF N
  <2>1. \A k \in 0..N : k \in P
    BY <1>1, <1>4, <1>5, UpTo
  <2> QED BY <1>1, <2>1
<1>7. kept = [i \in 0..N |-> Next1(kept, i)]
  <2>1. \E f : f = [i \in 0..N |-> Next1(f, i)]
    BY <1>6 DEF P
  <2> HIDE DEF N, Next1
  <2> QED BY <2>1
<1> HIDE DEF kept
<1> DEFINE Gets(q, k) == \A i \in 1..k : wanted(i) => all[i] \in Range(q)
           Q == {k \in 0..N : kept[k] \in Seq(S) /\ Gets(kept[k], k)}
<1>8. 0 \in Q
  <2>1. kept[0] = <<>>
    BY <1>1, <1>7
  <2>2. kept[0] \in Seq(S) /\ Gets(kept[0], 0) /\ 0 \in 0..N
    BY <1>1, <2>1
  <2> HIDE DEF Gets
  <2> QED BY <2>2
<1>9. ASSUME NEW k \in 1..N, k - 1 \in Q PROVE k \in Q
  <2> DEFINE was == kept[k - 1]
             is == kept[k]
  <2>1. is = Next1(kept, k) /\ k \in 0..N
    <3> HIDE DEF Next1
    <3> QED BY <1>1, <1>7
  <2>2. was \in Seq(S) /\ Gets(was, k - 1)
    BY <1>9
  <2>3. CASE wanted(k)
    <3>1. all[k] \in S /\ is = Append(was, all[k])
      BY <2>1, <2>3, <1>3
    <3> HIDE DEF was, is
    <3>2. /\ is \in Seq(S) /\ all[k] \in Range(is)
          /\ \A e : e \in Range(was) => e \in Range(is)
      BY <2>2, <3>1, AppendHas
    <3>3. Gets(is, k)
      <4>1. ASSUME NEW i \in 1..k, wanted(i) PROVE all[i] \in Range(is)
        <5>1. CASE i = k
          BY <3>2, <5>1
        <5>2. CASE i # k
          <6>1. i \in 1..(k - 1)
            BY <5>2
          <6> QED BY <2>2, <3>2, <4>1, <6>1
        <5> QED BY <5>1, <5>2
      <4> QED BY <4>1
    <3> HIDE DEF Gets
    <3> QED BY <2>1, <3>2, <3>3 DEF is
  <2>4. CASE ~wanted(k)
    <3>1. is = was
      BY <2>1, <2>4
    <3>2. Gets(was, k)
      <4>1. ASSUME NEW i \in 1..k, wanted(i) PROVE all[i] \in Range(was)
        <5>1. i \in 1..(k - 1)
          BY <2>4, <4>1
        <5> QED BY <2>2, <4>1, <5>1
      <4> HIDE DEF was
      <4> QED BY <4>1
    <3> HIDE DEF Gets
    <3> QED BY <2>1, <2>2, <3>1, <3>2
  <2> QED BY <2>3, <2>4
<1> HIDE DEF Q
<1>10. N \in Q
  <2> HIDE DEF N
  <2>1. \A k \in 0..N : k \in Q
    BY <1>1, <1>8, <1>9, UpTo
  <2> QED BY <1>1, <2>1
<1>11. kept[N] \in Seq(S) /\ \A i \in 1..N : wanted(i) => all[i] \in Range(kept[N])
  BY <1>10 DEF Q
<1>12. ASSUME NEW a \in S PROVE a \in Range(kept[N])
  <2>1. a \in Range(all) /\ Declares(specs[a.n], a)
    BY DEF S, SpecOf, specs
  <2>2. PICK i \in 1..N : all[i] = a
    BY <1>1, <2>1 DEF Range
  <2>3. wanted(i)
    BY <2>1, <2>2 DEF wanted
  <2> QED BY <1>11, <2>2, <2>3
<1>13. \A a \in S : a \in DeclaredAttempts(prog)
  <2>1. \A a \in Range(all) : a \in SlotAttempts(prog)
    BY <1>1 DEF Range
  <2> QED BY <2>1 DEF S, DeclaredAttempts
<1> DEFINE todo == kept[N]
<1>14. todo \in Seq(S) /\ Range(todo) = S
  <2>1. todo \in Seq(S)
    BY <1>11
  <2> HIDE DEF todo
  <2>2. \A a \in Range(todo) : a \in S
    BY <2>1 DEF Range
  <2> QED BY <1>12, <2>1, <2>2 DEF todo
<1>15. todo \in Seq(DeclaredAttempts(prog))
  <2> HIDE DEF todo, S
  <2> QED BY <1>13, <1>14
<1> HIDE DEF N
<1> QED BY <1>2, <1>14, <1>15 DEF S, all

\* What the body is at each attempt.
Began == [l |-> l, violation |-> NoViolation, reached |-> reached]

IsRun(run, m, specs, todo) ==
    /\ run[0] = Began
    /\ \A k \in 1..Len(todo) : run[k] = Step(m, run[k - 1], specs[todo[k].n], todo[k])

LEMMA BodyRuns ==
    ASSUME prog \in Programs, test \in TestsOf[prog], NEW m
    PROVE  LET specs == HandSpecs(prog)
               todo == Todo(specs)
           IN  /\ todo \in Seq(DeclaredAttempts(prog))
               /\ \E run : IsRun(run, m, specs, todo) /\ Body(m, specs) = run[Len(todo)]
<1> DEFINE specs == HandSpecs(prog)
           todo == Todo(specs)
           N == Len(todo)
           step(r, i) == Step(m, r, specs[todo[i].n], todo[i])
           Next1(f, i) == IF i = 0 THEN Began ELSE step(f[i - 1], i)
           P == {k \in 0..N : \E f : f = [i \in 0..k |-> Next1(f, i)]}
           run == CHOOSE f : f = [i \in 0..N |-> Next1(f, i)]
<1>0. todo \in Seq(DeclaredAttempts(prog))
  BY TodoIsDeclared
<1>1. N \in Nat
  <2> HIDE DEF todo
  <2> QED BY <1>0
<1>2. Body(m, specs) = run[N]
  BY DEF Body, Began
<1> HIDE DEF todo, specs, step
<1>5. 0 \in P
  <2> DEFINE e == [i \in 0..0 |-> Began]
  <2>1. e = [i \in 0..0 |-> Next1(e, i)]
    <3>1. \A i \in 0..0 : e[i] = Next1(e, i)
      OBVIOUS
    <3>2. e = [i \in 0..0 |-> e[i]]
      OBVIOUS
    <3> HIDE DEF e, Next1
    <3> QED BY <3>1, <3>2
  <2> HIDE DEF e, Next1, N
  <2>2. \E f : f = [i \in 0..0 |-> Next1(f, i)]
    BY <2>1
  <2>3. 0 \in 0..N
    BY <1>1
  <2> QED BY <2>2, <2>3
<1>6. ASSUME NEW k \in 1..N, k - 1 \in P PROVE k \in P
  <2>1. PICK f : f = [i \in 0..(k - 1) |-> Next1(f, i)]
    BY <1>6
  <2> DEFINE g == [i \in 0..k |-> IF i = k THEN Next1(f, k) ELSE f[i]]
  <2>2. ASSUME NEW i \in 0..k PROVE g[i] = Next1(g, i)
    <3>1. CASE i = k
      BY <3>1, <1>1
    <3>2. CASE i # k
      <4>1. i \in 0..(k - 1) /\ (i # 0 => i - 1 \in 0..(k - 1))
        BY <3>2
      <4>2. g[i] = f[i] /\ (i # 0 => g[i - 1] = f[i - 1])
        BY <4>1
      <4>3. f[i] = Next1(f, i)
        BY <2>1, <4>1
      <4> QED BY <4>2, <4>3
    <3> QED BY <3>1, <3>2
  <2>3. g = [i \in 0..k |-> Next1(g, i)]
    <3>1. g = [i \in 0..k |-> g[i]]
      OBVIOUS
    <3> HIDE DEF g
    <3> QED BY <2>2, <3>1
  <2> HIDE DEF g, Next1
  <2> QED BY <2>3
<1> HIDE DEF P
<1>7. N \in P
  <2> HIDE DEF N
  <2>1. \A k \in 0..N : k \in P
    BY <1>1, <1>5, <1>6, UpTo
  <2> QED BY <1>1, <2>1
<1>8. run = [i \in 0..N |-> Next1(run, i)]
  <2>1. \E f : f = [i \in 0..N |-> Next1(f, i)]
    BY <1>7 DEF P
  <2> HIDE DEF N, Next1
  <2> QED BY <2>1
<1> HIDE DEF run
<1>9. run[0] = Began
  BY <1>1, <1>8
<1>10. ASSUME NEW k \in 1..N PROVE run[k] = step(run[k - 1], k)
  <2>1. run[k] = Next1(run, k)
    <3> HIDE DEF Next1
    <3> QED BY <1>8
  <2> QED BY <2>1
<1>11. IsRun(run, m, specs, todo)
  BY <1>9, <1>10 DEF IsRun, step
<1> QED BY <1>0, <1>2, <1>11 DEF specs, todo

\* A violation of the harnesses is never the one that says there is none.
LEMMA SomeViolation ==
    ASSUME NEW d \in Detector \cup {"timelock"}, NEW ix \in Handlers["escrow"]
    PROVE  <<d, ix>> # NoViolation
<1>1. <<d, ix>> \in (Detector \cup {"timelock"}) \X Handlers["escrow"]
  OBVIOUS
<1> QED BY <1>1, HarnessAssumption

LEMMA CleanHandlers ==
    /\ \A n \in 1..4 : HandSpecs("escrow_clean")[n].ix \in Handlers["escrow"]
    /\ DOMAIN HandSpecs("escrow_clean") = 1..4
<1>1. /\ InitializeSpec.ix = "initialize" /\ DepositSpec.ix = "deposit"
      /\ WithdrawSpec.ix = "withdraw" /\ ClaimSpec.ix = "claim"
  BY InitializeSays, DepositSays, WithdrawSays, ClaimSays DEF Reads
<1>2. {"initialize", "deposit", "withdraw", "claim"} \subseteq Handlers["escrow"]
  BY DEF Handlers
<1>3. DOMAIN HandSpecs("escrow_clean") = 1..4
  BY DEF HandSpecs
<1> QED BY <1>1, <1>2, <1>3, CleanSpecsAre

\* What the body of escrow_clean's test does: the accounts stay, what it
\* reports the committed results have, it reports exactly when one of its
\* attempts finds something, and what its replays landed it has reached.
BodyTells(m, body) ==
    LET all == HandAttempts[prog][test]
        todo == {a \in Range(all) : Declares(SpecOf(prog, a), a)}
        tried(a) == Try(m, l, SpecOf(prog, a), a) IN
    /\ body.l = l
    /\ body.violation # NoViolation => <<m, body.violation>> \in Campaign
    /\ body.violation # NoViolation <=> \E a \in todo : tried(a).guilty
    /\ reached \subseteq body.reached
    /\ \A a \in todo : tried(a).ok /\ a.by \notin Critical => SpecOf(prog, a).ix \in body.reached

LEMMA BodyIsTold ==
    ASSUME prog = "escrow_clean", test \in TestsOf[prog], NEW m,
           Still(l), Worth(l) <= InitialBalance
    PROVE  BodyTells(m, Body(m, HandSpecs(prog)))
<1> DEFINE specs == HandSpecs(prog)
           todo == Todo(specs)
           N == Len(todo)
           s(i) == specs[todo[i].n]
           tried(i) == Try(m, l, s(i), todo[i])
           lands(i) == tried(i).ok /\ todo[i].by \notin Critical
           wanted == {a \in Range(HandAttempts[prog][test]) : Declares(SpecOf(prog, a), a)}
<1>0. prog \in Programs
  BY DEF Programs
<1>1. /\ N \in Nat /\ DOMAIN todo = 1..N
      /\ \A i \in 1..N : todo[i] \in DeclaredAttempts(prog)
  <2>1. todo \in Seq(DeclaredAttempts(prog))
    BY <1>0, BodyRuns
  <2> HIDE DEF todo
  <2> QED BY <2>1
<1>2. PICK run : IsRun(run, m, specs, todo) /\ Body(m, specs) = run[N]
  BY <1>0, BodyRuns
<1>3. Range(todo) = wanted
  BY <1>0, TodoIsDeclared
<1>4. ASSUME NEW i \in 1..N
      PROVE  /\ TryTells(m, l, s(i), todo[i]) /\ todo[i].by \in Detector
             /\ s(i).ix \in Handlers["escrow"] /\ ~s(i).bump
  <2>1. /\ todo[i].n \in 1..4 /\ todo[i].by \in Detector
        /\ Declares(HandSpecs("escrow_clean")[todo[i].n], todo[i])
    BY <1>1, CleanHandlers DEF DeclaredAttempts, SlotAttempts, SpecOf
  <2>2. s(i) = HandSpecs("escrow_clean")[todo[i].n]
    OBVIOUS
  <2>3. s(i).ix \in Handlers["escrow"] /\ ~s(i).bump
    BY <2>1, <2>2, CleanHandlers, CleanSpecs DEF CleanSpec
  <2> HIDE DEF specs, todo, s
  <2>4. TryTells(m, l, s(i), todo[i])
    BY <2>1, <2>2, AttemptTells
  <2> QED BY <2>1, <2>3, <2>4
<1>5. ASSUME NEW i \in 1..N PROVE todo[i].by # "bump-seed-canonicalization"
  <2>1. Declares(s(i), todo[i])
    BY <1>1 DEF DeclaredAttempts, SpecOf
  <2>2. ~s(i).bump
    BY <1>4
  <2> HIDE DEF s
  <2> QED BY <2>1, <2>2 DEF Declares
<1> HIDE DEF todo, specs, s
<1> DEFINE Holds0(r, k) ==
               /\ r.l = l
               /\ r.violation # NoViolation => <<m, r.violation>> \in Campaign
               /\ r.violation # NoViolation <=> \E i \in 1..k : tried(i).guilty
               /\ reached \subseteq r.reached
               /\ \A i \in 1..k : lands(i) => s(i).ix \in r.reached
           Q == {k \in 0..N : Holds0(run[k], k)}
<1>6. 0 \in Q
  <2>1. run[0].l = l /\ run[0].violation = NoViolation /\ run[0].reached = reached
    BY <1>2 DEF IsRun, Began
  <2>2. \A i \in 1..0 : FALSE
    OBVIOUS
  <2> HIDE DEF tried, lands
  <2>3. Holds0(run[0], 0)
    BY <2>1, <2>2
  <2> HIDE DEF Holds0
  <2> QED BY <1>1, <2>3
<1>7. ASSUME NEW k \in 1..N, k - 1 \in Q PROVE k \in Q
  <2> DEFINE was == run[k - 1]
             is == run[k]
  <2>1. is = Noted(was, s(k), todo[k], Try(m, was.l, s(k), todo[k]))
    BY <1>2 DEF IsRun, Step, s
  <2>2. Holds0(was, k - 1)
    BY <1>7
  <2>3. was.l = l
    BY <2>2
  <2>4. is = Noted(was, s(k), todo[k], tried(k))
    BY <2>1, <2>3
  <2>5. TryTells(m, l, s(k), todo[k]) /\ <<todo[k].by, s(k).ix>> # NoViolation
    BY <1>4, SomeViolation
  <2> HIDE DEF was, is
  <2>6. /\ tried(k).l = l
        /\ tried(k).guilty => <<m, <<todo[k].by, s(k).ix>>>> \in Campaign
    BY <2>5 DEF TryTells
  <2> HIDE DEF tried
  <2>7. /\ is.l = l
        /\ is.violation = IF was.violation # NoViolation THEN was.violation
                          ELSE IF tried(k).guilty THEN <<todo[k].by, s(k).ix>> ELSE NoViolation
        /\ is.reached = IF tried(k).ok /\ todo[k].by \notin Critical \cup {"bump-seed-canonicalization"}
                        THEN was.reached \cup {s(k).ix} ELSE was.reached
    BY <2>4, <2>6 DEF Noted
  <2>8. \A i \in 1..k : i = k \/ i \in 1..(k - 1)
    OBVIOUS
  <2>9. \A i \in 1..(k - 1) : i \in 1..k
    OBVIOUS
  <2>10. k \in 1..k /\ k \in 0..N
    BY <1>1
  <2>11. is.violation # NoViolation => <<m, is.violation>> \in Campaign
    BY <2>2, <2>6, <2>7
  <2>12. is.violation # NoViolation <=> \E i \in 1..k : tried(i).guilty
    <3>1. CASE was.violation # NoViolation
      <4>1. \E i \in 1..(k - 1) : tried(i).guilty
        BY <2>2, <3>1
      <4> QED BY <4>1, <2>7, <2>9, <3>1
    <3>2. CASE was.violation = NoViolation
      <4>1. \A i \in 1..(k - 1) : ~tried(i).guilty
        BY <2>2, <3>2
      <4>2. (\E i \in 1..k : tried(i).guilty) <=> tried(k).guilty
        BY <4>1, <2>8, <2>10
      <4>3. is.violation # NoViolation <=> tried(k).guilty
        BY <2>5, <2>7, <3>2
      <4> QED BY <4>2, <4>3
    <3> QED BY <3>1, <3>2
  <2>13. reached \subseteq is.reached
    BY <2>2, <2>7
  <2>14. \A i \in 1..k : lands(i) => s(i).ix \in is.reached
    <3>1. ASSUME NEW i \in 1..k, lands(i) PROVE s(i).ix \in is.reached
      <4>1. CASE i = k
        BY <1>5, <2>7, <3>1, <4>1
      <4>2. CASE i # k
        <5>1. s(i).ix \in was.reached
          BY <2>2, <2>8, <3>1, <4>2
        <5> QED BY <5>1, <2>7
      <4> QED BY <4>1, <4>2
    <3> QED BY <3>1
  <2>15. Holds0(is, k)
    BY <2>7, <2>11, <2>12, <2>13, <2>14
  <2> HIDE DEF Holds0
  <2> QED BY <2>10, <2>15 DEF is
<1> HIDE DEF Q
<1>8. N \in Q
  <2> HIDE DEF N
  <2>1. \A k \in 0..N : k \in Q
    BY <1>1, <1>6, <1>7, UpTo
  <2> QED BY <1>1, <2>1
<1>9. Holds0(run[N], N)
  BY <1>8 DEF Q
<1> DEFINE body == run[N]
           found(a) == Try(m, l, SpecOf(prog, a), a)
<1>10. \A i \in 1..N : todo[i] \in wanted /\ found(todo[i]) = tried(i) /\ SpecOf(prog, todo[i]) = s(i)
  <2>1. \A i \in 1..N : todo[i] \in Range(todo)
    BY <1>1 DEF Range
  <2> QED BY <1>3, <2>1 DEF SpecOf, s, specs
<1>11. \A a \in wanted : \E i \in 1..N : todo[i] = a
  BY <1>1, <1>3 DEF Range
<1> HIDE DEF wanted, body, found, tried, N
<1>12. (\E a \in wanted : found(a).guilty) <=> \E i \in 1..N : tried(i).guilty
  BY <1>10, <1>11
<1>13. \A a \in wanted : found(a).ok /\ a.by \notin Critical => SpecOf(prog, a).ix \in body.reached
  BY <1>9, <1>10, <1>11 DEF body
<1>14. /\ body.l = l /\ reached \subseteq body.reached
       /\ body.violation # NoViolation => <<m, body.violation>> \in Campaign
       /\ body.violation # NoViolation <=> \E a \in wanted : found(a).guilty
  BY <1>9, <1>12 DEF body
<1>15. Body(m, HandSpecs(prog)) = body
  BY <1>2 DEF body, specs
<1> QED BY <1>13, <1>14, <1>15 DEF BodyTells, wanted, found

-----------------------------------------------------------------------------
(* The specs an IDL gives.                                                 *)

\* Specs that no body tells apart: they differ in what seeds they keep, at
\* most, and only where nobody derives an address from them.
Alike(s, t) ==
    /\ t.ix = s.ix /\ t.keys = s.keys /\ t.flagged = s.flagged /\ t.arg = s.arg
    /\ t.alternates = s.alternates /\ t.signerIndices = s.signerIndices
    /\ t.owners = s.owners /\ t.discs = s.discs
    /\ t.budget = s.budget /\ t.guards = s.guards
    /\ t.capped <=> s.capped
    /\ t.reenters <=> s.reenters
    /\ t.grows <=> s.grows
    /\ t.bump <=> s.bump
    /\ DOMAIN t.pda \ t.creates = DOMAIN s.pda \ s.creates
    /\ s.bump => t = s

LEMMA AlikeDeclares ==
    ASSUME NEW s, NEW t, Alike(s, t), NEW a, a.by \in Detector
    PROVE  Declares(s, a) <=> Declares(t, a)
BY DEF Alike, Declares, Detector, Critical

LEMMA AlikeTries ==
    ASSUME NEW s, NEW t, Alike(s, t), NEW a, a.by \in Detector, Declares(s, a), NEW m, NEW now
    PROVE  Try(m, now, t, a) = Try(m, now, s, a)
<1>1. CASE a.by = "bump-seed-canonicalization"
  <2>1. s = t
    BY <1>1 DEF Declares, Alike
  <2> QED BY <2>1
<1>2. CASE a.by \in Critical
  <2>1. Tamper(m, now, t, a) = Tamper(m, now, s, a)
    BY <1>2 DEF Tamper, Sent, Alike
  <2>2. Try(m, now, t, a) = Tamper(m, now, t, a) /\ Try(m, now, s, a) = Tamper(m, now, s, a)
    BY <1>2 DEF Try, Critical
  <2> QED BY <2>1, <2>2
<1>3. CASE a.by \notin Critical /\ a.by # "bump-seed-canonicalization"
  <2> DEFINE out == Canonical(m, now, s)
  <2>1. Canonical(m, now, t) = out
    BY DEF Canonical, Sent, Alike
  <2> HIDE DEF out
  <2>2. Guilty(m, now, t, a.by, out) = Guilty(m, now, s, a.by, out)
    <3>1. CASE a.by = "unchecked-math"
      BY <3>1 DEF Guilty, BoundBroken, InBounds, Alike
    <3>2. CASE a.by = "cu-dos"
      BY <3>2 DEF Guilty, OverBudget, Alike
    <3>3. CASE a.by = "cpi-reentrancy"
      BY <3>3 DEF Guilty, ReentersIn, Alike
    <3>4. CASE a.by = "realloc-race"
      BY <3>4 DEF Guilty, GrownUnpaid, Alike
    <3>5. CASE a.by = "precondition-skip"
      BY <3>5 DEF Guilty, Unguarded, GuardHolds, Alike
    <3> QED BY <1>3, <3>1, <3>2, <3>3, <3>4, <3>5 DEF Detector, Critical
  <2>3. Restored(now, out.l, t.keys) = Restored(now, out.l, s.keys)
    BY DEF Alike
  <2> DEFINE g == Guilty(m, now, s, a.by, out)
             h == Guilty(m, now, t, a.by, out)
             r == Restored(now, out.l, s.keys)
  <2>4. /\ Try(m, now, t, a) = [ok |-> out.ok, l |-> r, guilty |-> h]
        /\ Try(m, now, s, a) = [ok |-> out.ok, l |-> r, guilty |-> g]
    BY <1>3, <2>1, <2>3 DEF Try, Replay, Heard, out
  <2>5. g = h
    BY <2>2
  <2> HIDE DEF g, h, r
  <2> QED BY <2>4, <2>5
<1> QED BY <1>1, <1>2, <1>3

LEMMA AlikeTodo ==
    ASSUME prog \in Programs, test \in TestsOf[prog], NEW specs,
           \A n \in DOMAIN HandSpecs(prog) : Alike(HandSpecs(prog)[n], specs[n])
    PROVE  Todo(specs) = Todo(HandSpecs(prog))
<1> DEFINE all == HandAttempts[prog][test]
           N == Len(all)
           hand == HandSpecs(prog)
           wanted(i) == Declares(specs[all[i].n], all[i])
           asked(i) == Declares(hand[all[i].n], all[i])
           E(f, i) == IF i = 0 THEN <<>>
                      ELSE IF wanted(i) THEN Append(f[i - 1], all[i]) ELSE f[i - 1]
           H(f, i) == IF i = 0 THEN <<>>
                      ELSE IF asked(i) THEN Append(f[i - 1], all[i]) ELSE f[i - 1]
           A(f) == [i \in 0..N |-> E(f, i)]
           B(f) == [i \in 0..N |-> H(f, i)]
<1>1. N \in Nat /\ \A i \in 1..N : all[i] \in SlotAttempts(prog)
  <2>1. all \in Seq(SlotAttempts(prog))
    BY AttemptsAreOnSlots
  <2> HIDE DEF all
  <2> QED BY <2>1
<1>2. ASSUME NEW i \in 1..N PROVE wanted(i) <=> asked(i)
  <2>1. all[i].by \in Detector /\ all[i].n \in DOMAIN hand
    BY <1>1 DEF SlotAttempts
  <2>2. Alike(hand[all[i].n], specs[all[i].n])
    BY <2>1
  <2> HIDE DEF all, hand
  <2> QED BY <2>1, <2>2, AlikeDeclares
<1>3. Todo(specs) = (CHOOSE f : f = A(f))[N] /\ Todo(hand) = (CHOOSE f : f = B(f))[N]
  BY DEF Todo
<1> HIDE DEF all, hand, wanted, asked, N
<1>4. ASSUME NEW f, NEW i \in 0..N PROVE E(f, i) = H(f, i)
  <2>1. i = 0 \/ i \in 1..N
    BY <1>1
  <2> QED BY <1>2, <2>1
<1>5. ASSUME NEW f PROVE A(f) = B(f)
  <2> HIDE DEF E, H
  <2> QED BY <1>4
<1>6. (CHOOSE f : f = A(f)) = (CHOOSE f : f = B(f))
  <2> HIDE DEF A, B
  <2> QED BY <1>5
<1> HIDE DEF A, B
<1> QED BY <1>3, <1>6 DEF hand

LEMMA AlikeBodies ==
    ASSUME prog \in Programs, test \in TestsOf[prog], NEW specs, NEW m,
           \A n \in DOMAIN HandSpecs(prog) : Alike(HandSpecs(prog)[n], specs[n])
    PROVE  Body(m, specs) = Body(m, HandSpecs(prog))
<1> DEFINE hand == HandSpecs(prog)
           todo == Todo(hand)
           N == Len(todo)
           E(f, i) == IF i = 0 THEN Began ELSE Step(m, f[i - 1], specs[todo[i].n], todo[i])
           H(f, i) == IF i = 0 THEN Began ELSE Step(m, f[i - 1], hand[todo[i].n], todo[i])
           A(f) == [i \in 0..N |-> E(f, i)]
           B(f) == [i \in 0..N |-> H(f, i)]
<1>1. N \in Nat /\ \A i \in 1..N : todo[i] \in DeclaredAttempts(prog)
  <2>1. todo \in Seq(DeclaredAttempts(prog))
    BY TodoIsDeclared
  <2> HIDE DEF todo
  <2> QED BY <2>1
<1>2. Todo(specs) = todo
  BY AlikeTodo
<1>3. Body(m, specs) = (CHOOSE f : f = A(f))[N] /\ Body(m, hand) = (CHOOSE f : f = B(f))[N]
  <2> HIDE DEF todo
  <2>1. Todo(hand) = todo
    BY DEF todo
  <2> HIDE DEF hand
  <2> QED BY <1>2, <2>1 DEF Body, Began
<1>4. ASSUME NEW r, NEW i \in 1..N
      PROVE  Step(m, r, specs[todo[i].n], todo[i]) = Step(m, r, hand[todo[i].n], todo[i])
  <2> DEFINE a == todo[i]
  <2>1. a.by \in Detector /\ a.n \in DOMAIN hand /\ Declares(hand[a.n], a)
    BY <1>1 DEF DeclaredAttempts, SlotAttempts, SpecOf
  <2>2. Alike(hand[a.n], specs[a.n])
    BY <2>1
  <2> HIDE DEF a, hand
  <2>3. Try(m, r.l, specs[a.n], a) = Try(m, r.l, hand[a.n], a)
    BY <2>1, <2>2, AlikeTries
  <2>4. specs[a.n].ix = hand[a.n].ix
    BY <2>2 DEF Alike
  <2>5. Step(m, r, specs[a.n], a) = Step(m, r, hand[a.n], a)
    BY <2>3, <2>4 DEF Step, Noted
  <2> QED BY <2>5 DEF a
<1> HIDE DEF todo, hand, N
<1>5. ASSUME NEW f, NEW i \in 0..N PROVE E(f, i) = H(f, i)
  <2>1. i = 0 \/ i \in 1..N
    BY <1>1
  <2> QED BY <1>4, <2>1
<1>6. ASSUME NEW f PROVE A(f) = B(f)
  <2> HIDE DEF E, H
  <2> QED BY <1>5
<1>7. (CHOOSE f : f = A(f)) = (CHOOSE f : f = B(f))
  <2> HIDE DEF A, B
  <2> QED BY <1>6
<1> HIDE DEF A, B
<1> QED BY <1>3, <1>7 DEF hand

\* The accounts of setup(), once the people of W have their vaults.
IsVaultOf(a, who) ==
    /\ a.owner = "program" /\ a.disc = "Vault"
    /\ a.depositor = who /\ a.beneficiary = "beneficiary"

LaidFor(now, W) ==
    /\ now \in [Keys -> Account] /\ Tidy(now)
    /\ \A w \in W : IsVaultOf(now[Pda[w]], w)
    /\ \A q \in People : now[q].owner = "system" /\ now[q].size = 0
    /\ \A k \in Keys : k \notin People /\ k \notin {Pda[w] : w \in W} => now[k] = Blank

SetupCall(p, m, now, ix, who, arg) ==
    Call(p, m, now, 0, ix, <<Pda[who], who, "system_program">>, {who}, arg)

IsSetupCall(c, p, now, ix, who, arg) ==
    /\ c.prog = p /\ c.ix = ix /\ c.l = now /\ c.arg = arg
    /\ Key(c, 1) = Pda[who] /\ Key(c, 2) = who /\ Key(c, 3) = "system_program"
    /\ At(c, 1) = now[Pda[who]] /\ At(c, 2) = now[who]
    /\ Signs(c, 2) /\ IsSigner(c, 2) /\ IsSeeded(c, 1, 2)
    /\ ix = "initialize" => Execute(c) = Initialize(c)
    /\ ix = "deposit" => Execute(c) = Deposit(c)

LEMMA SetupCalls ==
    ASSUME NEW p \in Programs, NEW m, NEW now, NEW ix \in {"initialize", "deposit"},
           NEW who \in DOMAIN Pda, NEW arg
    PROVE  IsSetupCall(SetupCall(p, m, now, ix, who, arg), p, now, ix, who, arg)
<1> DEFINE c == SetupCall(p, m, now, ix, who, arg)
<1>1. /\ c.prog = p /\ c.ix = ix /\ c.l = now /\ c.arg = arg
      /\ Key(c, 1) = Pda[who] /\ Key(c, 2) = who /\ Key(c, 3) = "system_program"
      /\ c.signed = {who}
  BY DEF SetupCall, Call, Key
<1>2. Signs(c, 2) /\ IsSigner(c, 2) /\ IsSeeded(c, 1, 2)
  BY <1>1 DEF Signs, IsSigner, IsSeeded
<1>3. At(c, 1) = now[Pda[who]] /\ At(c, 2) = now[who]
  BY <1>1 DEF At, Key
<1>4. c.ix \in Handlers[c.prog]
  BY <1>1 DEF Handlers, Programs
<1> HIDE DEF c
<1>5. ix = "initialize" => Execute(c) = Initialize(c)
  BY <1>1, <1>4 DEF Execute
<1>6. ix = "deposit" => Execute(c) = Deposit(c)
  BY <1>1, <1>4 DEF Execute
<1>7. IsSetupCall(c, p, now, ix, who, arg)
  BY <1>1, <1>2, <1>3, <1>5, <1>6 DEF IsSetupCall
<1> QED BY <1>7 DEF c

\* What a transaction that lands leaves behind.
LEMMA SettledWell ==
    ASSUME NEW now, NEW after \in [Keys -> Account], RentHolds(now, after), after # Refused,
           NEW out, out = Settled(now, after).l
    PROVE  /\ out \in [Keys -> Account] /\ Tidy(out)
           /\ \A k \in Keys : out[k] = IF after[k].lamports = 0 THEN Blank ELSE after[k]
<1>1. out = [k \in Keys |-> IF after[k].lamports = 0 THEN Blank ELSE after[k]]
  BY DEF Settled
<1>2. \A k \in Keys : out[k] = IF after[k].lamports = 0 THEN Blank ELSE after[k]
  BY <1>1
<1>3. out \in [Keys -> Account]
  BY <1>1, BlankIsAccount
<1>4. Tidy(out)
  BY <1>2 DEF Tidy
<1> QED BY <1>2, <1>3, <1>4

OthersKept(now, who, out) == \A q \in People \ {who} : out[q] = now[q]

LEMMA SetupInitializes ==
    ASSUME NEW p \in Programs, NEW m, NEW W \in SUBSET DOMAIN Pda, NEW now, LaidFor(now, W),
           NEW who \in DOMAIN Pda \ W, now[who] = Wallet(InitialBalance),
           NEW out,
           out = Send(SetupCall(p, m, now, "initialize", who, <<"beneficiary", UnlockSlot>>)).l
    PROVE  LaidFor(out, W \cup {who}) /\ OthersKept(now, who, out)
<1> DEFINE window == <<"beneficiary", UnlockSlot>>
           c == SetupCall(p, m, now, "initialize", who, window)
           v == Pda[who]
           R == Rent[VaultSize]
           made == [lamports |-> R, owner |-> "program", disc |-> "Vault", size |-> VaultSize,
                    depositor |-> who, beneficiary |-> window[1],
                    unlock_slot |-> window[2], amount |-> 0]
           paid == Move(now, who, v, R)
           after == [paid EXCEPT ![v] = made]
<1>1. /\ R \in Nat \ {0} /\ Rent[0] \in Nat \ {0} /\ InitialBalance \in Nat
      /\ InitialBalance - R \in Nat /\ InitialBalance - R >= Rent[0] /\ R <= InitialBalance
  BY Sizes, EscrowAssumption, SetupAssumption
<1>2. /\ v \in Vaults /\ v \in Keys /\ who \in People /\ who \in Keys /\ v # who
      /\ v \notin People /\ v \notin {Pda[w] : w \in W}
  BY Names DEF Pda
<1>3. now \in [Keys -> Account] /\ now[v] = Blank /\ Tidy(now)
  BY <1>2 DEF LaidFor
<1>4. now[who].lamports = InitialBalance /\ now[who].owner = "system" /\ now[who].size = 0
  BY DEF Wallet, Blank
<1>5. Execute(c) = after
  <2>1. /\ Key(c, 1) = v /\ Key(c, 2) = who /\ Key(c, 3) = "system_program"
        /\ At(c, 1) = now[v] /\ At(c, 2) = now[who] /\ c.l = now /\ c.arg = window
        /\ Signs(c, 2) /\ IsSigner(c, 2) /\ IsSeeded(c, 1, 2) /\ Execute(c) = Initialize(c)
    <3>1. IsSetupCall(c, p, now, "initialize", who, window)
      BY SetupCalls
    <3> HIDE DEF c, window
    <3> QED BY <3>1 DEF IsSetupCall
  <2> HIDE DEF c
  <2>2. Initialize(c) = after
    BY <1>1, <1>3, <1>4, <2>1 DEF Initialize
  <2> QED BY <2>1, <2>2
<1>6. /\ window[1] = "beneficiary" /\ window[2] \in Nat /\ made.lamports = R
      /\ made.size = VaultSize
  BY Sizes
<1>7. made \in Account /\ IsVaultOf(made, who)
  <2>1. window[1] \in People /\ 0 \in 0..(U64 - 1)
    BY <1>6, Sizes DEF People
  <2> HIDE DEF window, R
  <2>2. made \in Account
    BY <1>1, <1>2, <1>6, <2>1, Sizes DEF Account
  <2> QED BY <1>6, <2>2 DEF IsVaultOf
<1> HIDE DEF made, window
<1>8. IsMoved(now, who, v, R, paid)
  BY <1>1, <1>2, <1>3, <1>4, Moved
<1> HIDE DEF paid
<1>9. /\ after \in [Keys -> Account] /\ after[v] = made
      /\ after[who] = WithBalance(now[who], InitialBalance - R, now[who].amount)
      /\ \A k \in Keys \ {who, v} : after[k] = now[k]
  BY <1>2, <1>4, <1>7, <1>8 DEF IsMoved
<1>10. /\ after[who].lamports = InitialBalance - R
       /\ after[who].size = 0 /\ after[who].owner = "system"
  BY <1>4, <1>9 DEF WithBalance
<1> HIDE DEF after, v, R
<1>11. RentHolds(now, after)
  <2>1. Exempt(after[v]) /\ Exempt(after[who])
    BY <1>1, <1>6, <1>9, <1>10 DEF Exempt, R
  <2> QED BY <1>9, <2>1 DEF RentHolds
<1>12. after # Refused
  BY <1>9, RefusedAssumption
<1>13. out = Settled(now, after).l
  <2>1. c.l = now
    BY DEF SetupCall, Call
  <2> HIDE DEF c
  <2>2. out = Send(c).l
    BY DEF c, window
  <2> QED BY <1>5, <2>1, <2>2 DEF Send
<1>14. /\ out \in [Keys -> Account] /\ Tidy(out)
       /\ \A k \in Keys : out[k] = IF after[k].lamports = 0 THEN Blank ELSE after[k]
  BY <1>9, <1>11, <1>12, <1>13, SettledWell
<1>15. \A k \in Keys \ {who, v} : out[k] = now[k]
  BY <1>3, <1>9, <1>14 DEF Tidy
<1>16. out[v] = made
  BY <1>1, <1>2, <1>6, <1>9, <1>14
<1>17. out[who].owner = "system" /\ out[who].size = 0
  <2>1. Blank.owner = "system" /\ Blank.size = 0
    BY DEF Blank
  <2>2. out[who] = IF after[who].lamports = 0 THEN Blank ELSE after[who]
    BY <1>2, <1>14
  <2> QED BY <1>10, <2>1, <2>2
<1>18. \A w \in W \cup {who} : IsVaultOf(out[Pda[w]], w)
  <2>1. ASSUME NEW w \in W PROVE IsVaultOf(out[Pda[w]], w)
    <3>1. Pda[w] \in Keys \ {who, v} /\ IsVaultOf(now[Pda[w]], w)
      BY <1>2, Names DEF LaidFor
    <3> QED BY <1>15, <3>1
  <2>2. IsVaultOf(out[Pda[who]], who)
    BY <1>7, <1>16 DEF v
  <2> QED BY <2>1, <2>2
<1>19. \A q \in People \ {who} : out[q] = now[q]
  BY <1>2, <1>15, Names
<1>20. \A q \in People : out[q].owner = "system" /\ out[q].size = 0
  BY <1>17, <1>19 DEF LaidFor
<1>21. ASSUME NEW k \in Keys, k \notin People, k \notin {Pda[w] : w \in W \cup {who}}
       PROVE  out[k] = Blank
  <2>1. k \in Keys \ {who, v} /\ k \notin {Pda[w] : w \in W}
    BY <1>2, <1>21 DEF v
  <2> QED BY <1>15, <1>21, <2>1 DEF LaidFor
<1> QED BY <1>14, <1>18, <1>19, <1>20, <1>21 DEF LaidFor, OthersKept

LEMMA SetupDeposits ==
    ASSUME NEW p \in Programs, NEW m, NEW W \in SUBSET DOMAIN Pda, NEW now, LaidFor(now, W),
           NEW who \in W, NEW x \in Nat,
           NEW out, out = Send(SetupCall(p, m, now, "deposit", who, x)).l
    PROVE  LaidFor(out, W)
<1> DEFINE c == SetupCall(p, m, now, "deposit", who, x)
           v == Pda[who]
           sum == now[v].amount + x
           paid == Move(now, who, v, x)
           after == Execute(c)
<1>1. /\ v \in Vaults /\ v \in Keys /\ who \in People /\ who \in Keys /\ v # who
      /\ v \notin People /\ \A w \in W : Pda[w] \in Keys /\ Pda[w] \notin People
      /\ \A w \in W : Pda[w] = v => w = who
  BY Names DEF Pda
<1>2. now \in [Keys -> Account] /\ Tidy(now) /\ IsVaultOf(now[v], who)
  BY DEF LaidFor
<1>3. now[v] \in Account /\ now[who] \in Account /\ now[v].lamports \in Nat \ {0}
  <2>1. now[v] \in Account /\ now[who] \in Account
    BY <1>1, <1>2
  <2>2. now[v] # Blank
    BY <1>2, BlankIsAccount DEF IsVaultOf
  <2> QED BY <1>1, <1>2, <2>1, <2>2, Fields DEF Tidy
<1>4. out = Settled(now, after).l
  <2>1. c.l = now
    BY DEF SetupCall, Call
  <2> HIDE DEF c
  <2> QED BY <2>1 DEF Send, c
<1>5. CASE after = Refused \/ ~RentHolds(now, after)
  <2>1. out = now
    BY <1>4, <1>5 DEF Settled
  <2> QED BY <2>1
<1>6. CASE after # Refused /\ RentHolds(now, after)
  <2>1. after = Deposit(c) /\ c.l = now /\ c.arg = x /\ Key(c, 1) = v /\ Key(c, 2) = who
        /\ At(c, 1) = now[v] /\ At(c, 2) = now[who]
    <3>1. IsSetupCall(c, p, now, "deposit", who, x)
      BY SetupCalls
    <3> HIDE DEF c
    <3> QED BY <3>1 DEF IsSetupCall
  <2> HIDE DEF c
  <2>2. after = Write(paid, v, "amount", sum % U64) /\ x <= now[who].lamports
    BY <1>6, <2>1 DEF Deposit
  <2>3. IsMoved(now, who, v, x, paid)
    BY <1>1, <1>2, <2>2, Moved
  <2> HIDE DEF paid, after
  <2>4. /\ paid \in [Keys -> Account]
        /\ paid[v] = WithBalance(now[v], now[v].lamports + x, now[v].amount)
        /\ paid[who] = WithBalance(now[who], now[who].lamports - x, now[who].amount)
        /\ \A k \in Keys \ {who, v} : paid[k] = now[k]
    BY <2>3 DEF IsMoved
  <2> DEFINE n == sum % U64
  <2>5. n \in 0..(U64 - 1)
    <3>1. now[v].amount \in 0..(U64 - 1)
      BY <1>3, Fields
    <3> QED BY <3>1, Sizes
  <2> HIDE DEF n, sum
  <2>6. IsWritten(paid, v, n, after)
    BY <1>1, <2>2, <2>4, <2>5, Wrote DEF n
  <2>7. /\ after \in [Keys -> Account]
        /\ after[v] = WithBalance(now[v], now[v].lamports + x, n)
        /\ after[who] = WithBalance(now[who], now[who].lamports - x, now[who].amount)
        /\ \A k \in Keys \ {who, v} : after[k] = now[k]
    BY <1>1, <2>4, <2>6 DEF IsWritten, WithBalance
  <2>8. after[v].lamports # 0 /\ IsVaultOf(after[v], who)
    BY <1>2, <1>3, <2>7 DEF WithBalance, IsVaultOf
  <2>9. after[who].owner = "system" /\ after[who].size = 0
    BY <1>1, <2>7 DEF WithBalance, LaidFor
  <2>10. /\ out \in [Keys -> Account] /\ Tidy(out)
         /\ \A k \in Keys : out[k] = IF after[k].lamports = 0 THEN Blank ELSE after[k]
    BY <1>4, <1>6, <2>7, SettledWell
  <2>11. \A k \in Keys \ {who, v} : out[k] = now[k]
    BY <1>2, <2>7, <2>10 DEF Tidy
  <2>12. IsVaultOf(out[v], who)
    BY <1>1, <2>8, <2>10
  <2>13. out[who].owner = "system" /\ out[who].size = 0
    <3>1. Blank.owner = "system" /\ Blank.size = 0
      BY DEF Blank
    <3>2. out[who] = IF after[who].lamports = 0 THEN Blank ELSE after[who]
      BY <1>1, <2>10
    <3> QED BY <2>9, <3>1, <3>2
  <2> HIDE DEF v
  <2>14. ASSUME NEW w \in W PROVE IsVaultOf(out[Pda[w]], w)
    <3>1. CASE w = who
      BY <2>12, <3>1 DEF v
    <3>2. CASE w # who
      <4>1. Pda[w] \in Keys \ {who, v} /\ IsVaultOf(now[Pda[w]], w)
        BY <1>1, <3>2 DEF LaidFor
      <4> QED BY <2>11, <4>1
    <3> QED BY <3>1, <3>2
  <2>15. \A q \in People : out[q].owner = "system" /\ out[q].size = 0
    BY <1>1, <2>11, <2>13, Names DEF LaidFor
  <2>16. ASSUME NEW k \in Keys, k \notin People, k \notin {Pda[w] : w \in W} PROVE out[k] = Blank
    <3>1. k \in Keys \ {who, v}
      BY <1>1, <2>16 DEF v
    <3> QED BY <2>11, <2>16, <3>1 DEF LaidFor
  <2> QED BY <2>10, <2>14, <2>15, <2>16 DEF LaidFor
<1> QED BY <1>5, <1>6

\* What setup() leaves: the vaults of the two depositors, and no other.
Fixture(get) ==
    /\ IsVaultOf(get["vault"], "depositor") /\ IsVaultOf(get["vault_b"], "depositor_b")
    /\ get["vault_init"] = Blank /\ get["system_program"] = Blank
    /\ \A q \in People : get[q].owner = "system"

LEMMA SetupIsFixture ==
    ASSUME NEW p \in Programs, NEW m
    PROVE  Fixture(SetupOf(p, m))
<1> DEFINE wallets == [k \in Keys |-> IF k \in People THEN Wallet(InitialBalance) ELSE Blank]
           window == <<"beneficiary", UnlockSlot>>
           one == Send(SetupCall(p, m, wallets, "initialize", "depositor", window)).l
           two == Send(SetupCall(p, m, one, "initialize", "depositor_b", window)).l
           three == Send(SetupCall(p, m, two, "deposit", "depositor_b", Sample["setup"])).l
           W == {"depositor", "depositor_b"}
<1>1. SetupOf(p, m) = three
  BY DEF SetupOf, SetupCall
<1>2. {} \in SUBSET DOMAIN Pda /\ {"depositor"} \in SUBSET DOMAIN Pda /\ W \in SUBSET DOMAIN Pda
      /\ "depositor" \in DOMAIN Pda \ {} /\ "depositor_b" \in DOMAIN Pda \ {"depositor"}
      /\ {} \cup {"depositor"} = {"depositor"} /\ {"depositor"} \cup {"depositor_b"} = W
      /\ "depositor_b" \in People \ {"depositor"}
  BY Names DEF People
<1>3. LaidFor(wallets, {}) /\ \A q \in People : wallets[q] = Wallet(InitialBalance)
  <2> DEFINE w == Wallet(InitialBalance)
  <2>1. w \in Account /\ w.lamports = InitialBalance /\ w.owner = "system" /\ w.size = 0
    <3>1. w = [Blank EXCEPT !.lamports = InitialBalance]
      BY DEF Wallet
    <3>2. w.owner = "system" /\ w.size = 0
      BY DEF Wallet, Blank
    <3> HIDE DEF w
    <3> QED BY <3>1, <3>2, BlankIsAccount, Sizes, Credited DEF WithBalance
  <2> HIDE DEF w
  <2>2. wallets = [k \in Keys |-> IF k \in People THEN w ELSE Blank]
    BY DEF w
  <2> HIDE DEF wallets
  <2>3. InitialBalance \in Nat \ {0}
    BY Sizes, ScoringAssumption
  <2>4. wallets \in [Keys -> Account] /\ Tidy(wallets)
    BY <2>1, <2>2, <2>3, BlankIsAccount DEF Tidy
  <2>5. /\ \A q \in People : wallets[q] = w
        /\ \A k \in Keys : k \notin People => wallets[k] = Blank
    BY <2>2, Names
  <2> QED BY <2>1, <2>4, <2>5 DEF LaidFor, w
<1> HIDE DEF wallets, window
<1>4. LaidFor(one, {"depositor"}) /\ one["depositor_b"] = Wallet(InitialBalance)
  <2>1. wallets["depositor"] = Wallet(InitialBalance)
    BY <1>3, Names
  <2> DEFINE o == one
  <2>2. o = Send(SetupCall(p, m, wallets, "initialize", "depositor", <<"beneficiary", UnlockSlot>>)).l
    BY DEF window
  <2> HIDE DEF o
  <2>3. LaidFor(o, {} \cup {"depositor"}) /\ OthersKept(wallets, "depositor", o)
    BY <1>2, <1>3, <2>1, <2>2, SetupInitializes
  <2>4. o["depositor_b"] = wallets["depositor_b"] /\ "depositor_b" \in People
    BY <1>2, <2>3 DEF OthersKept
  <2> QED BY <1>2, <1>3, <2>3, <2>4 DEF o
<1> HIDE DEF one
<1>5. LaidFor(two, W)
  <2> DEFINE o == two
  <2>1. o = Send(SetupCall(p, m, one, "initialize", "depositor_b", <<"beneficiary", UnlockSlot>>)).l
    BY DEF window
  <2> HIDE DEF o
  <2>2. LaidFor(o, {"depositor"} \cup {"depositor_b"})
    BY <1>2, <1>4, <2>1, SetupInitializes
  <2> QED BY <1>2, <2>2 DEF o
<1> HIDE DEF two
<1>6. LaidFor(three, W)
  <2> DEFINE o == three
             x == Sample["setup"]
  <2>1. x \in Nat /\ "depositor_b" \in W
    BY HarnessAssumption
  <2>2. o = Send(SetupCall(p, m, two, "deposit", "depositor_b", x)).l
    OBVIOUS
  <2> HIDE DEF o, x, W
  <2>3. LaidFor(o, W)
    BY <1>2, <1>5, <2>1, <2>2, SetupDeposits
  <2> QED BY <2>3 DEF o
<1> HIDE DEF three
<1>7. /\ Pda["depositor"] = "vault" /\ Pda["depositor_b"] = "vault_b"
      /\ {Pda[w] : w \in W} = {"vault", "vault_b"}
      /\ {"vault_init", "system_program"} \subseteq Keys
      /\ "vault_init" \notin People /\ "system_program" \notin People
  BY Names DEF Pda, Keys, People
<1>8. Fixture(three)
  <2>1. IsVaultOf(three["vault"], "depositor") /\ IsVaultOf(three["vault_b"], "depositor_b")
    BY <1>6, <1>7 DEF LaidFor
  <2>2. three["vault_init"] = Blank /\ three["system_program"] = Blank
    BY <1>6, <1>7 DEF LaidFor
  <2> QED BY <1>6, <2>1, <2>2 DEF LaidFor, Fixture
<1> QED BY <1>1, <1>8

\* The addresses the seeds of a vault derive, from the slots named for them.
Derived(d) == IF d \in DOMAIN Pda THEN Pda[d] ELSE ""
SeedsDerive(seeds, D) ==
    /\ \A s \in seeds : \E d \in D : Derive(s) = Derived(d)
    /\ \A d \in D : \E s \in seeds : Derive(s) = Derived(d)

LEMMA PatternSeeds ==
    ASSUME NEW ix, NEW keys, NEW bind, NEW D,
           D = {keys[i] : i \in {j \in DOMAIN ix : ix[j].name = "depositor"}}
    PROVE  SeedsDerive(ResolveSeeds(ix, keys, bind, VaultPattern), D)
<1> DEFINE seeds == ResolveSeeds(ix, keys, bind, VaultPattern)
           B(n) == SeedBytes(ix, keys, bind, VaultPattern[n])
           S == UNION {B(n) : n \in {1, 2}}
<1>1. B(1) = {"vault"} /\ B(2) = D
  <2>1. /\ VaultPattern[1].kind = "const" /\ VaultPattern[1].value = "vault"
        /\ VaultPattern[2].kind = "account" /\ VaultPattern[2].value = "depositor"
    BY DEF VaultPattern
  <2>2. B(1) = {"vault"}
    BY <2>1 DEF SeedBytes
  <2>3. B(2) = D
    BY <2>1 DEF SeedBytes
  <2> QED BY <2>2, <2>3
<1>2. DOMAIN VaultPattern = {1, 2}
  BY DEF VaultPattern
<1>3. seeds = {s \in [{1, 2} -> S] : \A n \in {1, 2} : s[n] \in B(n)}
  BY <1>2 DEF ResolveSeeds
<1>4. \A x : \A d : Len(<<x, d>>) = 2 /\ <<x, d>>[1] = x /\ <<x, d>>[2] = d
  OBVIOUS
<1>5. \A d : Derive(<<"vault", d>>) = Derived(d)
  BY <1>4 DEF Derive, Derived
<1> HIDE DEF B
<1>6. ASSUME NEW s \in seeds PROVE \E d \in D : Derive(s) = Derived(d)
  <2>1. s \in [{1, 2} -> S] /\ s[1] \in B(1) /\ s[2] \in B(2)
    BY <1>3
  <2> HIDE DEF S
  <2>2. s[1] = "vault" /\ s[2] \in D
    BY <1>1, <2>1
  <2>3. s = <<s[1], s[2]>>
    <3>1. DOMAIN s = {1, 2} /\ s = [n \in {1, 2} |-> s[n]]
      BY <2>1
    <3> QED BY <3>1
  <2>4. Derive(s) = Derived(s[2])
    BY <1>5, <2>2, <2>3
  <2> QED BY <2>2, <2>4
<1>7. ASSUME NEW d \in D PROVE \E s \in seeds : Derive(s) = Derived(d)
  <2> DEFINE s == [n \in {1, 2} |-> IF n = 1 THEN "vault" ELSE d]
  <2>1. s[1] = "vault" /\ s[2] = d
    OBVIOUS
  <2>2. "vault" \in S /\ d \in S
    BY <1>1
  <2> HIDE DEF S
  <2>3. s \in [{1, 2} -> S]
    BY <2>2
  <2>4. s = <<"vault", d>>
    OBVIOUS
  <2> HIDE DEF s, seeds
  <2>5. s \in seeds
    BY <1>1, <1>3, <2>1, <2>3
  <2> QED BY <1>5, <2>4, <2>5
<1> HIDE DEF seeds
<1>8. SeedsDerive(seeds, D)
  BY <1>6, <1>7 DEF SeedsDerive
<1> QED BY <1>8 DEF seeds

\* What build() makes of the slots of an instruction.
IdlHas(of, x) ==
    /\ x \in DOMAIN of /\ DOMAIN of[x] = DOMAIN IdlSlots[x]
    /\ \A i \in DOMAIN IdlSlots[x] : IsIdlSlot(of[x][i], IdlSlots[x][i][1], IdlSlots[x][i][2])

IsBinding(bind, x, keys) ==
    /\ DOMAIN keys = DOMAIN IdlSlots[x] /\ keys = [i \in DOMAIN keys |-> keys[i]]
    /\ \A i \in DOMAIN keys :
          IF IdlSlots[x][i][1] = "system_program"
          THEN "system_program" \notin DOMAIN bind.accounts /\ keys[i] = "system_program"
          ELSE /\ IdlSlots[x][i][1] \in DOMAIN bind.accounts
               /\ keys[i] = bind.accounts[IdlSlots[x][i][1]]

Having(x, flag) == {i \in DOMAIN IdlSlots[x] : flag \in IdlSlots[x][i][2]}
Seeded(of, x) == {i \in DOMAIN of[x] : of[x][i].pda # {}}
SeedKeys(x, keys) == {keys[i] : i \in {j \in DOMAIN keys : IdlSlots[x][j][1] = "depositor"}}

IsSpec(t, x, keys, signs, owned, made, seeded) ==
    /\ t = [ix |-> x, keys |-> keys, writable |-> Having(x, "w"), flagged |-> signs,
            signerIndices |-> signs, owners |-> owned, discs |-> owned, pda |-> t.pda,
            creates |-> made, arg |-> t.arg]
    /\ DOMAIN t.pda = seeded

LEMMA BuildGives ==
    ASSUME NEW of, NEW x, NEW bind, NEW keys, IdlHas(of, x), IsBinding(bind, x, keys),
           Seeded(of, x) # {} => SeedKeys(x, keys) # {}
    PROVE  /\ Omitted(of[x], bind) = {}
           /\ IsSpec(Build(of, x, bind), x, keys, Having(x, "s"), {}, {}, Seeded(of, x))
<1> DEFINE ix == of[x]
           addresses == [i \in DOMAIN ix |-> AddressOf(ix, bind, i)]
           seeds(i) == UNION {ResolveSeeds(ix, addresses, bind, q) : q \in ix[i].pda}
           b == Build(of, x, bind)
<1>1. /\ DOMAIN ix = DOMAIN keys /\ DOMAIN IdlSlots[x] = DOMAIN keys
      /\ \A i \in DOMAIN keys : IsIdlSlot(ix[i], IdlSlots[x][i][1], IdlSlots[x][i][2])
  BY DEF IdlHas, IsBinding
<1>2. /\ Omitted(ix, bind) = {}
      /\ \A i \in DOMAIN keys : ix[i].name = IdlSlots[x][i][1]
      /\ \A i \in DOMAIN keys : ix[i].signer <=> "s" \in IdlSlots[x][i][2]
      /\ \A i \in DOMAIN keys : ix[i].writable <=> "w" \in IdlSlots[x][i][2]
  BY <1>1 DEF Omitted, IsIdlSlot
<1>3. ASSUME NEW i \in DOMAIN keys PROVE AddressOf(ix, bind, i) = keys[i]
  <2> DEFINE name == IdlSlots[x][i][1]
  <2>1. /\ ix[i].name = name /\ i \notin Omitted(ix, bind)
        /\ ix[i].address \in {"", name} /\ (ix[i].address # "" => name = "system_program")
    BY <1>1, <1>2 DEF IsIdlSlot
  <2>2. DOMAIN WellKnown = {"system_program"} /\ WellKnown["system_program"] = "system_program"
    BY DEF WellKnown
  <2>3. CASE name # "system_program"
    <3>1. name \in DOMAIN bind.accounts /\ keys[i] = bind.accounts[name] /\ ix[i].address = ""
      BY <2>1, <2>3 DEF IsBinding
    <3> QED BY <2>1, <2>2, <2>3, <3>1 DEF AddressOf
  <2>4. CASE name = "system_program"
    <3>1. name \notin DOMAIN bind.accounts /\ keys[i] = "system_program"
      BY <2>4 DEF IsBinding
    <3>2. CASE ix[i].address = ""
      BY <2>1, <2>2, <2>4, <3>1, <3>2 DEF AddressOf
    <3>3. CASE ix[i].address # ""
      BY <2>1, <2>2, <2>4, <3>1, <3>3 DEF AddressOf
    <3> QED BY <3>2, <3>3
  <2> QED BY <2>3, <2>4
<1>4. addresses = keys
  <2>1. addresses = [i \in DOMAIN keys |-> keys[i]]
    BY <1>1, <1>3
  <2> QED BY <2>1 DEF IsBinding
<1>5. Signing(ix, bind) = Having(x, "s")
  BY <1>1, <1>2 DEF Signing, Having
<1>6. {i \in DOMAIN ix : ix[i].writable} \ Omitted(ix, bind) = Having(x, "w")
  BY <1>1, <1>2 DEF Having
<1> DEFINE D == SeedKeys(x, keys)
<1>7. SeedsDerive(ResolveSeeds(ix, keys, bind, VaultPattern), D)
  <2>1. D = {keys[i] : i \in {j \in DOMAIN ix : ix[j].name = "depositor"}}
    BY <1>1, <1>2 DEF SeedKeys
  <2> HIDE DEF D, ix
  <2> QED BY <2>1, PatternSeeds
<1> HIDE DEF ix, addresses
<1>8. ASSUME NEW i \in DOMAIN keys, ix[i].pda # {} PROVE seeds(i) # {}
  <2>1. ix[i].pda = {VaultPattern}
    BY <1>1, <1>8 DEF IsIdlSlot
  <2>2. D # {}
    BY <1>1, <1>8 DEF Seeded, ix
  <2>3. PICK s : s \in ResolveSeeds(ix, keys, bind, VaultPattern)
    BY <1>7, <2>2 DEF SeedsDerive
  <2>4. s \in seeds(i)
    BY <1>4, <2>1, <2>3
  <2> QED BY <2>4
<1>9. \A i \in DOMAIN keys : ix[i].pda = {} => seeds(i) = {}
  OBVIOUS
<1> HIDE DEF seeds
<1>10. {i \in DOMAIN ix \ Omitted(ix, bind) : seeds(i) # {}} = Seeded(of, x)
  BY <1>1, <1>2, <1>8, <1>9 DEF Seeded, ix
<1> DEFINE pda == [i \in {j \in DOMAIN ix \ Omitted(ix, bind) : seeds(j) # {}} |->
                     CHOOSE s \in seeds(i) : TRUE]
<1>11. b = [ix |-> x, keys |-> addresses,
            writable |-> {i \in DOMAIN ix : ix[i].writable} \ Omitted(ix, bind),
            flagged |-> Signing(ix, bind), signerIndices |-> Signing(ix, bind),
            owners |-> {}, discs |-> {}, pda |-> pda, creates |-> {}, arg |-> bind.args]
  BY DEF Build, ix, addresses, seeds
<1>12. DOMAIN pda = Seeded(of, x)
  BY <1>10
<1> HIDE DEF pda, b
<1>13. IsSpec(b, x, keys, Having(x, "s"), {}, {}, Seeded(of, x))
  BY <1>4, <1>5, <1>6, <1>11, <1>12 DEF IsSpec
<1> QED BY <1>2, <1>13 DEF ix, b

\* What the accounts after setup() add to it.
Typed(keys) == {i \in DOMAIN keys : keys[i] \in {"vault", "vault_b"}}
Addressed(x, keys) == {i \in Typed(keys) : \E d \in SeedKeys(x, keys) : Derived(d) = keys[i]}

LEMMA HeldIn ==
    ASSUME NEW get, Fixture(get), NEW k \in People \cup Vaults \cup {"system_program"}
    PROVE  /\ Held(get, k) = "typed" <=> k \in {"vault", "vault_b"}
           /\ k \in {"vault_init", "system_program"} => get[k] = Blank
           /\ k \in {"vault", "vault_b"} => get[k] # Blank /\ Held(get, k) # "absent"
           /\ get[k] = Blank <=> Held(get, k) = "absent"
<1>1. get[k] = Blank => Held(get, k) = "absent"
  BY BlankIsAccount DEF Held
<1>2. CASE k \in {"vault", "vault_b"}
  <2>1. get[k].owner = "program" /\ get[k].disc = "Vault"
    BY <1>2 DEF Fixture, IsVaultOf
  <2>2. get[k] # Blank
    BY <2>1, BlankIsAccount
  <2>3. Held(get, k) = "typed"
    BY <2>1, <2>2 DEF Held
  <2> QED BY <1>2, <2>2, <2>3
<1>3. CASE k \in {"vault_init", "system_program"}
  <2>1. get[k] = Blank
    BY <1>3 DEF Fixture
  <2> QED BY <1>1, <1>3, <2>1
<1>4. CASE k \in People
  <2>1. get[k].owner = "system" /\ k \notin {"vault", "vault_b", "vault_init", "system_program"}
    BY <1>4 DEF Fixture, People
  <2>2. get[k] # Blank => Held(get, k) = "other"
    BY <2>1 DEF Held
  <2> QED BY <1>1, <2>1, <2>2
<1> QED BY <1>2, <1>3, <1>4, Names

LEMMA StateGives ==
    ASSUME NEW of, NEW x, NEW bind, NEW keys, NEW get, NEW b, NEW S,
           Fixture(get), IdlHas(of, x), Omitted(of[x], bind) = {},
           UNION {UNION {of[y][i].pda : i \in DOMAIN of[y]} : y \in DOMAIN of} = {VaultPattern},
           DOMAIN keys = DOMAIN IdlSlots[x],
           \A i \in DOMAIN keys : keys[i] \in People \cup Vaults \cup {"system_program"},
           IsSpec(b, x, keys, S, {}, {}, Seeded(of, x)),
           Typed(keys) \cap S = {},
           Seeded(of, x) \cap Typed(keys) \subseteq Addressed(x, keys),
           \A i \in Seeded(of, x) : keys[i] \in Vaults,
           NEW t, t = InferSlots(of, bind, get, InferFromState(of, bind, get, b))
    PROVE  /\ IsSpec(t, x, keys, S, Typed(keys), t.creates, DOMAIN t.pda)
           /\ DOMAIN t.pda \ t.creates = Addressed(x, keys)
<1> DEFINE ix == of[x]
           T == Typed(keys)
           A == Addressed(x, keys)
           Z == Seeded(of, x)
           absent == {i \in Z : Held(get, keys[i]) = "absent"}
           f == InferFromState(of, bind, get, b)
<1>1. /\ DOMAIN ix = DOMAIN keys /\ Z = {i \in DOMAIN keys : ix[i].pda # {}}
      /\ \A i \in DOMAIN keys : ix[i].name = IdlSlots[x][i][1]
  BY DEF IdlHas, Seeded, IsIdlSlot
<1>2. /\ \A i \in DOMAIN keys : Held(get, keys[i]) = "typed" <=> i \in T
      /\ \A i \in DOMAIN keys : get[keys[i]] = Blank <=> Held(get, keys[i]) = "absent"
      /\ \A i \in Z : i \in T \/ Held(get, keys[i]) = "absent"
      /\ \A i \in T : get[keys[i]] # Blank
  <2>1. ASSUME NEW i \in DOMAIN keys
        PROVE  /\ Held(get, keys[i]) = "typed" <=> i \in T
               /\ get[keys[i]] = Blank <=> Held(get, keys[i]) = "absent"
               /\ i \in T => get[keys[i]] # Blank
    <3>1. keys[i] \in People \cup Vaults \cup {"system_program"}
      OBVIOUS
    <3> QED BY <3>1, HeldIn DEF Typed
  <2>2. ASSUME NEW i \in Z PROVE i \in T \/ Held(get, keys[i]) = "absent"
    <3>1. i \in DOMAIN keys /\ keys[i] \in Vaults
      BY <1>1
    <3>2. keys[i] \in {"vault", "vault_b"} \/ keys[i] = "vault_init"
      BY <3>1, Names
    <3>3. keys[i] = "vault_init" => get[keys[i]] = Blank
      BY DEF Fixture
    <3> QED BY <2>1, <3>1, <3>2, <3>3 DEF Typed
  <2> QED BY <2>1, <2>2 DEF Typed
<1>3. IsSpec(f, x, keys, S, Z \cap T, absent, Z)
  <2> DEFINE seeded == {i \in DOMAIN b.keys : of[b.ix][i].pda # {}} \ Omitted(of[b.ix], bind)
             typed == {i \in seeded : Held(get, b.keys[i]) = "typed"}
             gone == {i \in seeded : Held(get, b.keys[i]) = "absent"}
  <2>1. b.ix = x /\ b.keys = keys /\ b.owners = {} /\ b.discs = {} /\ b.creates = {}
    BY DEF IsSpec
  <2>2. seeded = Z
    BY <1>1, <2>1
  <2>3. typed = Z \cap T /\ gone = absent
    BY <1>1, <1>2, <2>1, <2>2
  <2>4. f = [b EXCEPT !.creates = b.creates \cup gone, !.owners = b.owners \cup typed,
                      !.discs = b.discs \cup typed]
    BY DEF InferFromState
  <2> HIDE DEF f, typed, gone, seeded, absent, Z, T
  <2>5. f = [b EXCEPT !.creates = absent, !.owners = Z \cap T, !.discs = Z \cap T]
    BY <2>1, <2>3, <2>4
  <2> DEFINE w == Having(x, "w")
             q == b.pda
             r == b.arg
  <2>6. /\ b = [ix |-> x, keys |-> keys, writable |-> w, flagged |-> S, signerIndices |-> S,
                owners |-> {}, discs |-> {}, pda |-> q, creates |-> {}, arg |-> r]
        /\ DOMAIN q = Z
    BY DEF IsSpec, Z
  <2> HIDE DEF w, q, r
  <2> DEFINE o == Z \cap T
  <2> HIDE DEF o
  <2>7. f = [ix |-> x, keys |-> keys, writable |-> w, flagged |-> S, signerIndices |-> S,
             owners |-> o, discs |-> o, pda |-> q, creates |-> absent, arg |-> r]
    BY <2>5, <2>6 DEF o
  <2>8. f.pda = q /\ f.arg = r
    BY <2>7
  <2>9. IsSpec(f, x, keys, S, o, absent, Z)
    BY <2>6, <2>7, <2>8 DEF IsSpec, w
  <2> QED BY <2>9 DEF o
<1> HIDE DEF f
<1> DEFINE open == {i \in DOMAIN f.keys \ (Omitted(of[f.ix], bind) \cup f.flagged \cup f.owners) :
                       of[f.ix][i].pda = {} /\ get[f.keys[i]] # Blank}
           typed == {i \in open : Held(get, f.keys[i]) = "typed"}
           derived == {i \in open : RederivePda(of, bind, f, i) # {}}
           pda == [i \in derived \cup DOMAIN f.pda |->
                     IF i \in derived THEN CHOOSE y \in RederivePda(of, bind, f, i) : TRUE
                     ELSE f.pda[i]]
<1>4. /\ f.ix = x /\ f.keys = keys /\ f.flagged = S /\ f.owners = Z \cap T /\ f.discs = Z \cap T
      /\ f.creates = absent /\ DOMAIN f.pda = Z
  BY <1>3 DEF IsSpec
<1>5. t = [f EXCEPT !.owners = f.owners \cup typed, !.discs = f.discs \cup typed, !.pda = pda]
  BY DEF InferSlots, f
<1>6. open = {i \in DOMAIN keys \ S : i \notin Z /\ get[keys[i]] # Blank}
  BY <1>1, <1>4
<1>7. typed = T \ Z
  BY <1>2, <1>4, <1>6 DEF Typed
<1>8. ASSUME NEW i \in DOMAIN keys
      PROVE  RederivePda(of, bind, f, i) # {} <=> \E d \in SeedKeys(x, keys) : Derived(d) = keys[i]
  <2> DEFINE seeds == ResolveSeeds(ix, keys, bind, VaultPattern)
             D == SeedKeys(x, keys)
  <2>1. SeedsDerive(seeds, D)
    <3>1. D = {keys[j] : j \in {n \in DOMAIN ix : ix[n].name = "depositor"}}
      BY <1>1 DEF SeedKeys
    <3> HIDE DEF D, ix
    <3> QED BY <3>1, PatternSeeds
  <2>2. RederivePda(of, bind, f, i) = {s \in seeds : Derive(s) = keys[i]}
    <3> DEFINE patterns ==
            UNION {UNION {of[y][j].pda : j \in DOMAIN of[y]} : y \in DOMAIN of}
    <3>1. patterns = {VaultPattern}
      OBVIOUS
    <3>2. RederivePda(of, bind, f, i) =
              {s \in UNION {ResolveSeeds(of[f.ix], f.keys, bind, q) : q \in patterns} :
                  Derive(s) = f.keys[i]}
      BY DEF RederivePda
    <3> HIDE DEF patterns
    <3> QED BY <1>4, <3>1, <3>2
  <2> HIDE DEF seeds, D
  <2> QED BY <2>1, <2>2 DEF SeedsDerive, D
<1>9. derived = {i \in open : \E d \in SeedKeys(x, keys) : Derived(d) = keys[i]}
  BY <1>6, <1>8
<1>10. \A d : Derived(d) \in Vaults \cup {""}
  BY Names DEF Derived
<1>11. derived = A \ Z
  <2>1. ASSUME NEW i \in derived PROVE i \in A /\ i \notin Z
    <3>1. i \in DOMAIN keys /\ i \notin Z /\ get[keys[i]] # Blank
      BY <1>6, <1>9
    <3>2. PICK d \in SeedKeys(x, keys) : Derived(d) = keys[i]
      BY <1>9
    <3>3. keys[i] \in People \cup Vaults \cup {"system_program"} /\ keys[i] \in Vaults \cup {""}
      BY <1>10, <3>1, <3>2
    <3>4. keys[i] \in Vaults
      BY <3>3 DEF People
    <3>5. keys[i] # "vault_init"
      BY <3>1 DEF Fixture
    <3>6. i \in T
      BY <3>1, <3>4, <3>5, Names DEF Typed
    <3> QED BY <3>1, <3>2, <3>6 DEF Addressed
  <2>2. ASSUME NEW i \in A \ Z PROVE i \in derived
    <3>1. i \in T /\ i \in DOMAIN keys /\ \E d \in SeedKeys(x, keys) : Derived(d) = keys[i]
      BY DEF Addressed, Typed
    <3>2. i \in open
      BY <1>2, <1>6, <3>1
    <3> QED BY <1>9, <3>1, <3>2
  <2> QED BY <2>1, <2>2
<1>12. DOMAIN pda = derived \cup Z
  BY <1>4
<1>13. Z \subseteq DOMAIN keys /\ absent \subseteq Z
  BY <1>1
<1> HIDE DEF pda, derived, typed, open
<1>14. (derived \cup Z) \ absent = A
  <2>1. A \subseteq T
    BY DEF Addressed
  <2>2. \A i \in Z : i \in absent <=> i \notin T
    BY <1>2, <1>13
  <2>3. \A i \in derived : i \notin absent
    BY <1>11
  <2>4. \A i \in Z : i \in T <=> i \in A
    BY <2>1
  <2> HIDE DEF A, T, absent, Z
  <2> QED BY <1>11, <2>2, <2>3, <2>4
<1> HIDE DEF absent, Z, T, A, ix
<1>15. t = [f EXCEPT !.owners = T, !.discs = T, !.pda = pda]
  <2>1. (Z \cap T) \cup typed = T
    BY <1>7
  <2> QED BY <1>4, <1>5, <2>1
<1>16. IsSpec(t, x, keys, S, T, absent, derived \cup Z)
  <2> DEFINE w == Having(x, "w")
             r == f.arg
             o == Z \cap T
             q == f.pda
  <2>1. f = [ix |-> x, keys |-> keys, writable |-> w, flagged |-> S, signerIndices |-> S,
             owners |-> o, discs |-> o, pda |-> q, creates |-> absent, arg |-> r]
    BY <1>3 DEF IsSpec
  <2> HIDE DEF w, r, o, q
  <2>2. t = [ix |-> x, keys |-> keys, writable |-> w, flagged |-> S, signerIndices |-> S,
             owners |-> T, discs |-> T, pda |-> pda, creates |-> absent, arg |-> r]
    BY <1>15, <2>1
  <2>3. t.pda = pda /\ t.arg = r
    BY <2>2
  <2> QED BY <1>12, <2>2, <2>3 DEF IsSpec, w
<1>17. t.creates = absent /\ DOMAIN t.pda = derived \cup Z
  BY <1>16 DEF IsSpec
<1> QED BY <1>14, <1>16, <1>17 DEF T, A

\* Whoever a written vault names, with a keypair, where the IDL asks nobody.
Asked(x, keys, bind, get) ==
    IF Having(x, "s") # {} THEN Having(x, "s")
    ELSE {i \in DOMAIN keys : /\ \E w \in Having(x, "w") \cap Typed(keys) :
                                    Stores(get[keys[w]], keys[i])
                              /\ IdlSlots[x][i][1] \in bind.keypairs}

LEMMA SignersGive ==
    ASSUME NEW of, NEW x, NEW bind, NEW keys, NEW get,
           Fixture(get), IdlHas(of, x), Omitted(of[x], bind) = {},
           DOMAIN keys = DOMAIN IdlSlots[x],
           \A i \in DOMAIN keys : keys[i] \in People \cup Vaults \cup {"system_program"},
           NEW t, IsSpec(t, x, keys, Having(x, "s"), Typed(keys), t.creates, DOMAIN t.pda),
           NEW u, u = InferSigners(of, bind, get, t)
    PROVE  /\ IsSpec(u, x, keys, Asked(x, keys, bind, get), Typed(keys), u.creates, DOMAIN u.pda)
           /\ DOMAIN u.pda \ u.creates = DOMAIN t.pda \ t.creates
<1> DEFINE written == {i \in t.writable : Held(get, t.keys[i]) = "typed"}
           named == {i \in DOMAIN t.keys \ Omitted(of[t.ix], bind) :
                        /\ \E w \in written : Stores(get[t.keys[w]], t.keys[i])
                        /\ of[t.ix][i].name \in bind.keypairs}
           S == Having(x, "s")
           W == Having(x, "w")
           T == Typed(keys)
           q == t.pda
           r == t.arg
           made == t.creates
           seeded == DOMAIN t.pda
<1>1. /\ t = [ix |-> x, keys |-> keys, writable |-> W, flagged |-> S, signerIndices |-> S,
              owners |-> T, discs |-> T, pda |-> q, creates |-> made, arg |-> r]
      /\ t.ix = x /\ t.keys = keys /\ t.writable = W /\ t.flagged = S /\ t.signerIndices = S
  BY DEF IsSpec
<1>2. u = IF S # {} THEN t
          ELSE [t EXCEPT !.flagged = S \cup named, !.signerIndices = S \cup named]
  BY <1>1 DEF InferSigners
<1>3. CASE S # {}
  <2>1. u = t /\ Asked(x, keys, bind, get) = S
    BY <1>2, <1>3 DEF Asked
  <2> QED BY <2>1
<1>4. CASE S = {}
  <2>1. W \subseteq DOMAIN keys /\ \A i \in DOMAIN keys : of[x][i].name = IdlSlots[x][i][1]
    BY DEF Having, IdlHas, IsIdlSlot
  <2>2. \A i \in DOMAIN keys : Held(get, keys[i]) = "typed" <=> i \in T
    <3>1. ASSUME NEW i \in DOMAIN keys PROVE Held(get, keys[i]) = "typed" <=> i \in T
      <4>1. keys[i] \in People \cup Vaults \cup {"system_program"}
        OBVIOUS
      <4> QED BY <4>1, HeldIn DEF Typed
    <3> QED BY <3>1
  <2>3. written = W \cap T
    BY <1>1, <2>1, <2>2
  <2>4. named = Asked(x, keys, bind, get)
    BY <1>1, <1>4, <2>1, <2>3 DEF Asked
  <2> DEFINE F == Asked(x, keys, bind, get)
  <2> HIDE DEF named, written, S, W, T, q, r, made, seeded, F
  <2>5. S \cup named = F
    BY <1>4, <2>4 DEF F
  <2>6. u = [t EXCEPT !.flagged = F, !.signerIndices = F]
    BY <1>2, <1>4, <2>5
  <2>7. u = [ix |-> x, keys |-> keys, writable |-> W, flagged |-> F, signerIndices |-> F,
             owners |-> T, discs |-> T, pda |-> q, creates |-> made, arg |-> r]
    BY <1>1, <2>6
  <2>8. u.pda = q /\ u.arg = r /\ u.creates = made
    BY <2>7
  <2>9. IsSpec(u, x, keys, F, T, u.creates, DOMAIN u.pda)
    BY <2>7, <2>8 DEF IsSpec, W
  <2> QED BY <2>8, <2>9 DEF F, T, q, made
<1> QED BY <1>3, <1>4

\* A spec whose declarations are those of its slots is like the inferred one.
Slots(x, s, get) ==
    /\ DOMAIN s = DOMAIN Nothing
    /\ s.ix = x /\ s.flagged = Asked(x, s.keys, Binding(s), get) /\ s.signerIndices = s.flagged
    /\ s.owners = Typed(s.keys) /\ s.discs = Typed(s.keys)
    /\ DOMAIN s.pda \ s.creates = Addressed(x, s.keys)
    /\ ~s.bump
    /\ IsBinding(Binding(s), x, s.keys)
    /\ \A i \in DOMAIN s.keys : s.keys[i] \in People \cup Vaults \cup {"system_program"}
    /\ Typed(s.keys) \cap Having(x, "s") = {}
    /\ \A i \in DOMAIN s.keys : IdlSlots[x][i][1] = "vault" =>
          /\ s.keys[i] \in Vaults /\ SeedKeys(x, s.keys) # {}
          /\ i \in Typed(s.keys) => i \in Addressed(x, s.keys)

LEMMA InferredAlike ==
    ASSUME NEW of, NEW x, NEW s, NEW get, Fixture(get), IdlHas(of, x),
           UNION {UNION {of[y][i].pda : i \in DOMAIN of[y]} : y \in DOMAIN of} = {VaultPattern},
           Slots(x, s, get)
    PROVE  Alike(s, WithChecksOf(s, IdlSpec(of, get, x, Binding(s))))
<1> DEFINE bind == Binding(s)
           keys == s.keys
           S == Having(x, "s")
           b == Build(of, x, bind)
           t == InferSlots(of, bind, get, InferFromState(of, bind, get, b))
           u == InferSigners(of, bind, get, t)
<1>1. /\ IsBinding(bind, x, keys) /\ DOMAIN keys = DOMAIN IdlSlots[x]
      /\ \A i \in DOMAIN keys : keys[i] \in People \cup Vaults \cup {"system_program"}
      /\ Typed(keys) \cap S = {}
  BY DEF Slots, IsBinding
<1>2. ASSUME NEW i \in Seeded(of, x)
      PROVE  /\ keys[i] \in Vaults /\ SeedKeys(x, keys) # {}
             /\ i \in Typed(keys) => i \in Addressed(x, keys)
  <2>1. i \in DOMAIN keys /\ IdlSlots[x][i][1] = "vault"
    BY <1>1 DEF Seeded, IdlHas, IsIdlSlot
  <2> QED BY <2>1 DEF Slots
<1>3. IdlSpec(of, get, x, bind) = u
  BY DEF IdlSpec
<1> HIDE DEF bind, keys, S, b, t, u
<1>4. Omitted(of[x], bind) = {} /\ IsSpec(b, x, keys, S, {}, {}, Seeded(of, x))
  BY <1>1, <1>2, BuildGives DEF S, b
<1>5. /\ IsSpec(t, x, keys, S, Typed(keys), t.creates, DOMAIN t.pda)
      /\ DOMAIN t.pda \ t.creates = Addressed(x, keys)
  <2>1. Seeded(of, x) \cap Typed(keys) \subseteq Addressed(x, keys)
    BY <1>2
  <2>2. \A i \in Seeded(of, x) : keys[i] \in Vaults
    BY <1>2
  <2>3. t = InferSlots(of, bind, get, InferFromState(of, bind, get, b))
    BY DEF t
  <2> QED BY <1>1, <1>4, <2>1, <2>2, <2>3, StateGives
<1>6. /\ IsSpec(u, x, keys, Asked(x, keys, bind, get), Typed(keys), u.creates, DOMAIN u.pda)
      /\ DOMAIN u.pda \ u.creates = Addressed(x, keys)
  <2>1. u = InferSigners(of, bind, get, t)
    BY DEF u
  <2>2. IsSpec(t, x, keys, Having(x, "s"), Typed(keys), t.creates, DOMAIN t.pda)
    BY <1>5 DEF S
  <2> QED BY <1>1, <1>4, <1>5, <2>1, <2>2, SignersGive
<1> DEFINE a == WithChecksOf(s, u)
           F == Asked(x, keys, bind, get)
           T == Typed(keys)
           q == u.pda
           made == u.creates
<1>7. /\ u.keys = keys /\ u.flagged = F /\ u.signerIndices = F /\ u.owners = T /\ u.discs = T
      /\ u.pda = q /\ u.creates = made /\ DOMAIN q \ made = Addressed(x, keys)
  BY <1>6 DEF IsSpec
<1>8. a = [s EXCEPT !.keys = keys, !.flagged = F, !.signerIndices = F,
                    !.owners = T, !.discs = T, !.pda = q, !.creates = made]
  BY <1>7 DEF WithChecksOf
<1>9. /\ DOMAIN s = DOMAIN Nothing /\ s.keys = keys /\ s.flagged = F /\ s.signerIndices = F
      /\ s.owners = T /\ s.discs = T /\ DOMAIN s.pda \ s.creates = Addressed(x, keys)
      /\ ~s.bump
  BY DEF Slots, keys, bind
<1> HIDE DEF a, F, T, q, made
<1>10. /\ a.ix = s.ix /\ a.keys = keys /\ a.flagged = F /\ a.arg = s.arg
       /\ a.alternates = s.alternates /\ a.signerIndices = F /\ a.owners = T /\ a.discs = T
       /\ a.budget = s.budget /\ a.guards = s.guards /\ a.capped = s.capped
       /\ a.reenters = s.reenters /\ a.grows = s.grows /\ a.bump = s.bump
       /\ a.pda = q /\ a.creates = made
  BY <1>8, <1>9 DEF Nothing
<1>11. Alike(s, a)
  BY <1>7, <1>9, <1>10 DEF Alike
<1> QED BY <1>3, <1>11 DEF a, bind

\* What the harnesses bind.
LEMMA Bindings ==
    ASSUME NEW s
    PROVE  LET to == Binding(s).accounts
               keypairs == Binding(s).keypairs IN
           /\ s.ix \in {"initialize", "deposit", "withdraw", "unsafe_withdraw"} =>
                 /\ DOMAIN to = {"vault", "depositor"} /\ keypairs = {"depositor"}
                 /\ to["vault"] = s.keys[1] /\ to["depositor"] = s.keys[2]
           /\ s.ix = "claim" =>
                 /\ DOMAIN to = {"vault", "depositor", "beneficiary"}
                 /\ to["vault"] = s.keys[1] /\ to["depositor"] = s.keys[2]
                 /\ to["beneficiary"] = s.keys[3]
           /\ s.ix = "unsafe_set_amount_from_source" =>
                 /\ DOMAIN to = {"source", "target"} /\ keypairs = {}
                 /\ to["source"] = s.keys[1] /\ to["target"] = s.keys[2]
<1>1. CASE s.ix \in {"initialize", "deposit", "withdraw", "unsafe_withdraw"}
  BY <1>1 DEF Binding
<1>2. CASE s.ix = "claim"
  BY <1>2 DEF Binding
<1>3. CASE s.ix = "unsafe_set_amount_from_source"
  BY <1>3 DEF Binding
<1> QED BY <1>1, <1>2, <1>3

\* What the IDL says of them.
HasSlots(x, names, writes, signs) ==
    /\ DOMAIN IdlSlots[x] = DOMAIN names
    /\ \A i \in DOMAIN names : IdlSlots[x][i][1] = names[i]
    /\ Having(x, "w") = writes /\ Having(x, "s") = signs

LEMMA SlotsAre ==
    /\ HasSlots("initialize", <<"vault", "depositor", "system_program">>, {1, 2}, {2})
    /\ HasSlots("deposit", <<"vault", "depositor", "system_program">>, {1, 2}, {2})
    /\ HasSlots("withdraw", <<"vault", "depositor">>, {1, 2}, {2})
    /\ HasSlots("claim", <<"vault", "depositor", "beneficiary">>, {1, 3}, {3})
    /\ HasSlots("unsafe_withdraw", <<"vault", "depositor">>, {1, 2}, {})
    /\ HasSlots("unsafe_set_amount_from_source", <<"source", "target">>, {2}, {})
<1> DEFINE vault == <<"vault", {"w"}>>
           owner == <<"depositor", {"w", "s"}>>
           program == <<"system_program", {}>>
<1>1. HasSlots("initialize", <<"vault", "depositor", "system_program">>, {1, 2}, {2})
  <2>1. IdlSlots["initialize"] = <<vault, owner, program>>
    BY DEF IdlSlots
  <2> QED BY <2>1 DEF HasSlots, Having
<1>2. HasSlots("deposit", <<"vault", "depositor", "system_program">>, {1, 2}, {2})
  <2>1. IdlSlots["deposit"] = <<vault, owner, program>>
    BY DEF IdlSlots
  <2> QED BY <2>1 DEF HasSlots, Having
<1>3. HasSlots("withdraw", <<"vault", "depositor">>, {1, 2}, {2})
  <2>1. IdlSlots["withdraw"] = <<vault, owner>>
    BY DEF IdlSlots
  <2> QED BY <2>1 DEF HasSlots, Having
<1>4. HasSlots("claim", <<"vault", "depositor", "beneficiary">>, {1, 3}, {3})
  <2>1. IdlSlots["claim"] = <<vault, <<"depositor", {}>>, <<"beneficiary", {"w", "s"}>>>>
    BY DEF IdlSlots
  <2> QED BY <2>1 DEF HasSlots, Having
<1>5. HasSlots("unsafe_withdraw", <<"vault", "depositor">>, {1, 2}, {})
  <2>1. IdlSlots["unsafe_withdraw"] = <<vault, <<"depositor", {"w"}>>>>
    BY DEF IdlSlots
  <2> QED BY <2>1 DEF HasSlots, Having
<1>6. HasSlots("unsafe_set_amount_from_source", <<"source", "target">>, {2}, {})
  <2>1. IdlSlots["unsafe_set_amount_from_source"] = <<<<"source", {}>>, <<"target", {"w"}>>>>
    BY DEF IdlSlots
  <2> QED BY <2>1 DEF HasSlots, Having
<1> QED BY <1>1, <1>2, <1>3, <1>4, <1>5, <1>6

LEMMA InitializeSlots ==
    ASSUME NEW get
    PROVE  Slots("initialize", InitializeSpec, get)
<1> DEFINE x == "initialize"
           s == InitializeSpec
           keys == InitializeKeys
<1>1. /\ Reads(s, x, keys, {2}, {}, {1}, <<>>) /\ ~s.bump
  BY InitializeSays DEF Silent
<1>2. HasSlots(x, <<"vault", "depositor", "system_program">>, {1, 2}, {2})
  BY SlotsAre
<1>3. /\ DOMAIN Binding(s).accounts = {"vault", "depositor"}
      /\ Binding(s).accounts["vault"] = keys[1] /\ Binding(s).accounts["depositor"] = keys[2]
  <2>1. s.ix = "initialize" /\ s.keys = keys
    BY <1>1 DEF Reads
  <2> HIDE DEF s, keys
  <2> QED BY <2>1, Bindings
<1>4. /\ keys[1] = "vault_init" /\ keys[2] = "initializer" /\ keys[3] = "system_program"
      /\ DOMAIN keys = {1, 2, 3} /\ keys = [i \in {1, 2, 3} |-> keys[i]]
  BY DEF InitializeKeys
<1> HIDE DEF s, keys, x
<1>5. Typed(keys) = {} /\ Addressed(x, keys) = {}
  BY <1>4 DEF Typed, Addressed
<1>6. /\ DOMAIN IdlSlots[x] = {1, 2, 3} /\ Having(x, "s") = {2}
      /\ IdlSlots[x][1][1] = "vault" /\ IdlSlots[x][2][1] = "depositor"
      /\ IdlSlots[x][3][1] = "system_program"
  BY <1>2 DEF HasSlots
<1>7. IsBinding(Binding(s), x, keys)
  BY <1>3, <1>4, <1>6 DEF IsBinding
<1>8. \A i \in DOMAIN keys : keys[i] \in People \cup Vaults \cup {"system_program"}
  BY <1>4, Names DEF People
<1>9. keys[2] \in SeedKeys(x, keys)
  BY <1>4, <1>6 DEF SeedKeys
<1>10. \A i \in DOMAIN keys : IdlSlots[x][i][1] = "vault" => keys[i] \in Vaults
  BY <1>4, <1>6, Names
<1>11. /\ DOMAIN s = DOMAIN Nothing /\ s.ix = x /\ s.keys = keys
       /\ s.flagged = {2} /\ s.signerIndices = {2} /\ s.owners = {} /\ s.discs = {}
       /\ s.creates = {1} /\ DOMAIN s.pda = {1} /\ ~s.bump
  BY <1>1 DEF Reads
<1>12. Asked(x, keys, Binding(s), get) = {2}
  BY <1>6 DEF Asked
<1>13. Slots(x, s, get)
  BY <1>5, <1>6, <1>7, <1>8, <1>9, <1>10, <1>11, <1>12 DEF Slots
<1> QED BY <1>13 DEF s, x

\* The vault at slot 1, the depositor at slot 2.
OnVault(x, s, keys, names) ==
    /\ DOMAIN s = DOMAIN Nothing /\ s.ix = x /\ s.keys = keys /\ ~s.bump
    /\ s.signerIndices = s.flagged /\ s.owners = {1} /\ s.discs = {1}
    /\ s.creates = {} /\ DOMAIN s.pda = {1}
    /\ DOMAIN keys = DOMAIN names /\ {1, 2} \subseteq DOMAIN keys
    /\ keys[1] = "vault" /\ keys[2] = "depositor" /\ names[2] = "depositor"
    /\ \A i \in DOMAIN keys \ {1} :
          keys[i] \in People \cup {"system_program"} /\ names[i] # "vault"
    /\ keys = [i \in DOMAIN keys |-> keys[i]]
    /\ \A i \in DOMAIN keys :
          IF names[i] = "system_program"
          THEN "system_program" \notin DOMAIN Binding(s).accounts /\ keys[i] = "system_program"
          ELSE /\ names[i] \in DOMAIN Binding(s).accounts
               /\ keys[i] = Binding(s).accounts[names[i]]

LEMMA VaultSlots ==
    ASSUME NEW x, NEW s, NEW keys, NEW names, NEW get, NEW writes, NEW signs,
           HasSlots(x, names, writes, signs), OnVault(x, s, keys, names), 1 \notin signs,
           s.flagged = Asked(x, keys, Binding(s), get)
    PROVE  Slots(x, s, get)
<1>1. /\ DOMAIN IdlSlots[x] = DOMAIN keys /\ Having(x, "s") = signs
      /\ \A i \in DOMAIN keys : IdlSlots[x][i][1] = names[i]
  BY DEF HasSlots, OnVault
<1>2. Typed(keys) = {1}
  <2>1. \A i \in DOMAIN keys \ {1} : keys[i] \notin {"vault", "vault_b"}
    BY DEF OnVault, People
  <2> QED BY <2>1 DEF OnVault, Typed
<1>3. "depositor" \in SeedKeys(x, keys) /\ Addressed(x, keys) = {1}
  <2>1. "depositor" \in SeedKeys(x, keys)
    BY <1>1 DEF OnVault, SeedKeys
  <2>2. Derived("depositor") = keys[1]
    BY Names DEF Derived, OnVault
  <2> QED BY <1>2, <2>1, <2>2 DEF Addressed
<1>4. IsBinding(Binding(s), x, keys)
  BY <1>1 DEF OnVault, IsBinding
<1>5. \A i \in DOMAIN keys : keys[i] \in People \cup Vaults \cup {"system_program"}
  BY Names DEF OnVault
<1>6. \A i \in DOMAIN keys : IdlSlots[x][i][1] = "vault" => keys[i] \in Vaults
  BY <1>1, Names DEF OnVault
<1>7. /\ DOMAIN s = DOMAIN Nothing /\ s.ix = x /\ s.keys = keys
      /\ s.signerIndices = s.flagged /\ s.owners = {1} /\ s.discs = {1}
      /\ s.creates = {} /\ DOMAIN s.pda = {1} /\ ~s.bump
  BY DEF OnVault
<1> QED BY <1>1, <1>2, <1>3, <1>4, <1>5, <1>6, <1>7 DEF Slots

LEMMA DepositSlots ==
    ASSUME NEW get
    PROVE  Slots("deposit", DepositSpec, get)
<1> DEFINE x == "deposit"
           s == DepositSpec
           keys == DepositKeys
           names == <<"vault", "depositor", "system_program">>
<1>1. Reads(s, x, keys, {2}, {1}, {}, <<"vault_b">>) /\ ~s.bump
  BY DepositSays
<1>2. HasSlots(x, names, {1, 2}, {2})
  BY SlotsAre
<1>3. s.ix = x /\ s.keys = keys
  BY <1>1 DEF Reads
<1>4. /\ DOMAIN Binding(s).accounts = {"vault", "depositor"}
      /\ Binding(s).accounts["vault"] = keys[1] /\ Binding(s).accounts["depositor"] = keys[2]
  <2> HIDE DEF s, keys
  <2> QED BY <1>3, Bindings
<1>5. /\ keys[1] = "vault" /\ keys[2] = "depositor" /\ keys[3] = "system_program"
      /\ DOMAIN keys = {1, 2, 3} /\ keys = [i \in {1, 2, 3} |-> keys[i]]
      /\ names[1] = "vault" /\ names[2] = "depositor" /\ names[3] = "system_program"
      /\ DOMAIN names = {1, 2, 3} /\ "depositor" \in People
  BY Names DEF DepositKeys
<1> HIDE DEF s, keys, x, names
<1>6. OnVault(x, s, keys, names)
  BY <1>1, <1>4, <1>5 DEF OnVault, Reads
<1>7. Asked(x, keys, Binding(s), get) = {2} /\ s.flagged = {2}
  BY <1>1, <1>2 DEF Asked, HasSlots, Reads
<1>8. Slots(x, s, get)
  BY <1>2, <1>6, <1>7, VaultSlots
<1> QED BY <1>8 DEF s, x

LEMMA WithdrawSlots ==
    ASSUME NEW get
    PROVE  Slots("withdraw", WithdrawSpec, get)
<1> DEFINE x == "withdraw"
           s == WithdrawSpec
           keys == WithdrawKeys
           names == <<"vault", "depositor">>
<1>1. Reads(s, x, keys, {2}, {1}, {}, <<"vault_b">>) /\ ~s.bump
  BY WithdrawSays
<1>2. HasSlots(x, names, {1, 2}, {2})
  BY SlotsAre
<1>3. s.ix = x /\ s.keys = keys
  BY <1>1 DEF Reads
<1>4. /\ DOMAIN Binding(s).accounts = {"vault", "depositor"}
      /\ Binding(s).accounts["vault"] = keys[1] /\ Binding(s).accounts["depositor"] = keys[2]
  <2> HIDE DEF s, keys
  <2> QED BY <1>3, Bindings
<1>5. /\ keys[1] = "vault" /\ keys[2] = "depositor"
      /\ DOMAIN keys = {1, 2} /\ keys = [i \in {1, 2} |-> keys[i]]
      /\ names[1] = "vault" /\ names[2] = "depositor"
      /\ DOMAIN names = {1, 2} /\ "depositor" \in People
  BY Names DEF WithdrawKeys
<1> HIDE DEF s, keys, x, names
<1>6. OnVault(x, s, keys, names)
  BY <1>1, <1>4, <1>5 DEF OnVault, Reads
<1>7. Asked(x, keys, Binding(s), get) = {2} /\ s.flagged = {2}
  BY <1>1, <1>2 DEF Asked, HasSlots, Reads
<1>8. Slots(x, s, get)
  BY <1>2, <1>6, <1>7, VaultSlots
<1> QED BY <1>8 DEF s, x

LEMMA ClaimSlots ==
    ASSUME NEW get
    PROVE  Slots("claim", ClaimSpec, get)
<1> DEFINE x == "claim"
           s == ClaimSpec
           keys == ClaimKeys
           names == <<"vault", "depositor", "beneficiary">>
<1>1. Reads(s, x, keys, {3}, {1}, {}, <<"vault_b">>) /\ ~s.bump
  BY ClaimSays
<1>2. HasSlots(x, names, {1, 3}, {3})
  BY SlotsAre
<1>3. s.ix = x /\ s.keys = keys
  BY <1>1 DEF Reads
<1>4. /\ DOMAIN Binding(s).accounts = {"vault", "depositor", "beneficiary"}
      /\ Binding(s).accounts["vault"] = keys[1] /\ Binding(s).accounts["depositor"] = keys[2]
      /\ Binding(s).accounts["beneficiary"] = keys[3]
  <2> HIDE DEF s, keys
  <2> QED BY <1>3, Bindings
<1>5. /\ keys[1] = "vault" /\ keys[2] = "depositor" /\ keys[3] = "beneficiary"
      /\ DOMAIN keys = {1, 2, 3} /\ keys = [i \in {1, 2, 3} |-> keys[i]]
      /\ names[1] = "vault" /\ names[2] = "depositor" /\ names[3] = "beneficiary"
      /\ DOMAIN names = {1, 2, 3} /\ {"depositor", "beneficiary"} \subseteq People
  BY Names DEF ClaimKeys
<1> HIDE DEF s, keys, x, names
<1>6. OnVault(x, s, keys, names)
  BY <1>1, <1>4, <1>5 DEF OnVault, Reads
<1>7. Asked(x, keys, Binding(s), get) = {3} /\ s.flagged = {3}
  BY <1>1, <1>2 DEF Asked, HasSlots, Reads
<1>8. Slots(x, s, get)
  BY <1>2, <1>6, <1>7, VaultSlots
<1> QED BY <1>8 DEF s, x

\* Here the IDL asks nobody, and the depositor is whom the vault names.
LEMMA UnsafeWithdrawSlots ==
    ASSUME NEW get, Fixture(get)
    PROVE  Slots("unsafe_withdraw", UnsafeWithdrawSpec, get)
<1> DEFINE x == "unsafe_withdraw"
           s == UnsafeWithdrawSpec
           keys == WithdrawKeys
           names == <<"vault", "depositor">>
<1>1. Reads(s, x, keys, {2}, {1}, {}, <<"vault_b">>) /\ ~s.bump
  BY UnsafeWithdrawSays DEF Silent
<1>2. HasSlots(x, names, {1, 2}, {})
  BY SlotsAre
<1>3. s.ix = x /\ s.keys = keys
  BY <1>1 DEF Reads
<1>4. /\ DOMAIN Binding(s).accounts = {"vault", "depositor"} /\ Binding(s).keypairs = {"depositor"}
      /\ Binding(s).accounts["vault"] = keys[1] /\ Binding(s).accounts["depositor"] = keys[2]
  <2> HIDE DEF s, keys
  <2> QED BY <1>3, Bindings
<1>5. /\ keys[1] = "vault" /\ keys[2] = "depositor"
      /\ DOMAIN keys = {1, 2} /\ keys = [i \in {1, 2} |-> keys[i]]
      /\ names[1] = "vault" /\ names[2] = "depositor"
      /\ DOMAIN names = {1, 2} /\ "depositor" \in People
  BY Names DEF WithdrawKeys
<1> HIDE DEF s, keys, x, names
<1>6. OnVault(x, s, keys, names)
  BY <1>1, <1>4, <1>5 DEF OnVault, Reads
<1>7. Asked(x, keys, Binding(s), get) = {2} /\ s.flagged = {2}
  <2>1. Having(x, "s") = {} /\ Having(x, "w") = {1, 2}
        /\ IdlSlots[x][1][1] = "vault" /\ IdlSlots[x][2][1] = "depositor"
    BY <1>2, <1>5 DEF HasSlots
  <2>2. Typed(keys) = {1}
    BY <1>5 DEF Typed
  <2>3. Stores(get[keys[1]], keys[2])
    BY <1>5 DEF Fixture, IsVaultOf, Stores
  <2>4. /\ 1 \in Having(x, "w") \cap Typed(keys)
        /\ IdlSlots[x][1][1] \notin Binding(s).keypairs /\ IdlSlots[x][2][1] \in Binding(s).keypairs
    BY <1>4, <2>1, <2>2
  <2>5. Asked(x, keys, Binding(s), get) =
            {i \in DOMAIN keys : /\ \E w \in Having(x, "w") \cap Typed(keys) :
                                       Stores(get[keys[w]], keys[i])
                                 /\ IdlSlots[x][i][1] \in Binding(s).keypairs}
    BY <2>1 DEF Asked
  <2>6. Asked(x, keys, Binding(s), get) = {2}
    BY <1>5, <2>3, <2>4, <2>5
  <2> QED BY <1>1, <2>6 DEF Reads
<1>8. Slots(x, s, get)
  BY <1>2, <1>6, <1>7, VaultSlots
<1> QED BY <1>8 DEF s, x

-----------------------------------------------------------------------------
(* The process.                                                            *)

\* Between the bodies the depositor's money and its vault's add up to no more
\* than the wallet was given.
Quiet(now) == Still(now) /\ Worth(now) <= InitialBalance

LEMMA SendIsQuiet ==
    ASSUME NEW c, CleanCall(c), Quiet(c.l), c.ix = "claim" => Key(c, 3) # "depositor"
    PROVE  Quiet(Send(c).l)
<1> DEFINE now == c.l
           after == Execute(c)
           out == Send(c).l
           v == Key(c, 1)
           q == Party(c)
<1>1. CASE ~Send(c).ok
  BY <1>1, SendLeaves DEF Leaves
<1>2. CASE Send(c).ok
  <2>1. /\ Shifts(c, after) /\ Sound(out)
        /\ out = [k \in Keys |-> IF after[k].lamports = 0 THEN Blank ELSE after[k]]
    BY <1>2, SendLeaves DEF Leaves, Landed
  <2>2. /\ now \in [Keys -> Account] /\ Tidy(now) /\ now["fake"] = Blank
        /\ now["beneficiary"] # Blank /\ Worth(now) <= InitialBalance
    BY DEF Quiet, Still, Sound
  <2>3. /\ after \in [Keys -> Account] /\ v \in Vaults /\ q \in People
        /\ \A k \in Keys \ {v, q} : after[k] = now[k]
        /\ Key(c, 2) \in DOMAIN Pda /\ v = Pda[Key(c, 2)] /\ after[v].lamports >= Rent[VaultSize]
    BY <2>1 DEF Shifts
  <2>4. c.ix \in {"initialize", "deposit", "withdraw", "claim"}
    <3>1. c.ix \in Handlers["escrow_clean"]
      BY <1>2, SendLeaves DEF Landed, Execute, CleanCall
    <3> QED BY <3>1 DEF Handlers
  <2>5. \A k \in Keys : after[k].lamports \in Nat /\ now[k].lamports \in Nat
    BY <2>2, <2>3, Fields
  <2>6. /\ after["vault"].amount \in Nat /\ now["vault"].amount \in Nat
    <3>1. after["vault"] \in Account /\ now["vault"] \in Account
      BY <2>2, <2>3, Names
    <3>2. after["vault"].amount \in 0..(U64 - 1) /\ now["vault"].amount \in 0..(U64 - 1)
      BY <3>1, Fields
    <3> QED BY <3>2, Sizes
  <2>7. v = "vault" <=> Key(c, 2) = "depositor"
    BY <2>3, Names
  <2>8. v # q
    BY <2>3, Names
  <2> HIDE DEF after, now, v, q, out
  <2>9. Tidy(out) /\ out["fake"] = Blank
    <3>1. Tidy(out)
      BY <2>1, BlankIsAccount DEF Tidy
    <3>2. "fake" \in Keys \ {v, q}
      BY <2>3, Names
    <3>3. after["fake"] = Blank
      BY <2>2, <2>3, <3>2
    <3> QED BY <2>1, <3>1, <3>2, <3>3
  <2>10. out["beneficiary"] # Blank
    <3>1. "beneficiary" \in Keys /\ "beneficiary" # v
      BY <2>3, Names
    <3>2. now["beneficiary"].lamports > 0
      BY <2>2, <2>5, <3>1 DEF Tidy
    <3>3. after["beneficiary"].lamports > 0
      <4>1. CASE q # "beneficiary"
        BY <2>3, <3>1, <3>2, <4>1
      <4>2. CASE q = "beneficiary"
        <5>1. c.ix = "claim"
          BY <2>3, <2>4, <4>2, Names DEF q, Party
        <5>2. after[q].lamports = now[q].lamports + now[v].amount
          BY <2>1, <5>1 DEF Shifts, q, v, now
        <5>3. now[v].amount \in Nat
          <6>1. now[v] \in Account
            BY <2>2, <2>3, Names
          <6>2. now[v].amount \in 0..(U64 - 1)
            BY <6>1, Fields
          <6> QED BY <6>2, Sizes
        <5> QED BY <3>1, <3>2, <4>2, <5>2, <5>3, <2>5
      <4> QED BY <4>1, <4>2
    <3>4. out["beneficiary"] = after["beneficiary"]
      BY <2>1, <3>1, <3>3
    <3> QED BY <3>3, <3>4, BlankIsAccount
  <2>11. Worth(out) <= Worth(now)
    <3>1. /\ "depositor" \in Keys /\ "vault" \in Keys
          /\ out["depositor"].lamports = after["depositor"].lamports
          /\ out["vault"].amount <= after["vault"].amount
      <4>1. "depositor" \in Keys /\ "vault" \in Keys /\ Blank.lamports = 0 /\ Blank.amount = 0
        BY Names DEF Blank
      <4> QED BY <2>1, <2>6, <4>1
    <3>2. after["depositor"].lamports + after["vault"].amount
            <= now["depositor"].lamports + now["vault"].amount
      <4> DEFINE d == now["depositor"].lamports
                 w == now["vault"].amount
                 d1 == after["depositor"].lamports
                 w1 == after["vault"].amount
      <4>1. d \in Nat /\ w \in Nat /\ d1 \in Nat /\ w1 \in Nat
        BY <2>5, <2>6, <3>1
      <4>2. /\ v # "vault" => w1 = w
            /\ q # "depositor" => d1 = d
        BY <2>3, <3>1, Names
      <4>3. CASE c.ix = "initialize"
        <5>1. after[v].amount = 0 /\ after[q].lamports <= now[q].lamports
          BY <2>1, <4>3 DEF Shifts, v, q, now
        <5>2. d1 <= d /\ w1 <= w
          BY <4>1, <4>2, <5>1
        <5> QED BY <4>1, <5>2
      <4>4. CASE c.ix = "deposit"
        <5>1. /\ q = Key(c, 2) /\ after[v].amount = now[v].amount + c.arg
              /\ after[q].lamports = now[q].lamports - c.arg /\ c.arg \in Nat
          BY <2>1, <4>4 DEF Shifts, v, q, now, Party, CleanCall
        <5>2. CASE v = "vault"
          BY <2>7, <4>1, <5>1, <5>2
        <5>3. CASE v # "vault"
          BY <2>7, <4>1, <4>2, <5>1, <5>3
        <5> QED BY <5>2, <5>3
      <4>5. CASE c.ix = "withdraw"
        <5>1. /\ q = Key(c, 2) /\ after[v].amount = now[v].amount - c.arg
              /\ after[q].lamports = now[q].lamports + c.arg /\ c.arg \in Nat
          BY <2>1, <4>5 DEF Shifts, v, q, now, Party, CleanCall
        <5>2. CASE v = "vault"
          BY <2>7, <4>1, <5>1, <5>2
        <5>3. CASE v # "vault"
          BY <2>7, <4>1, <4>2, <5>1, <5>3
        <5> QED BY <5>2, <5>3
      <4>6. CASE c.ix = "claim"
        <5>1. q # "depositor" /\ after[v].amount = 0
          BY <2>1, <4>6 DEF Shifts, v, q, Party
        <5>2. d1 = d /\ w1 <= w
          BY <4>1, <4>2, <5>1
        <5> QED BY <4>1, <5>2
      <4> QED BY <2>4, <4>3, <4>4, <4>5, <4>6
    <3>3. out["vault"].amount \in Nat
      <4>1. out["vault"] \in Account
        BY <2>1, <3>1 DEF Sound
      <4>2. out["vault"].amount \in 0..(U64 - 1)
        BY <4>1, Fields
      <4> QED BY <4>2, Sizes
    <3> QED BY <3>1, <3>2, <3>3, <2>5, <2>6 DEF Worth
  <2>12. Worth(out) \in Int /\ Worth(now) \in Int
    <3>1. "depositor" \in Keys /\ "vault" \in Keys
      BY Names
    <3>2. out["depositor"] \in Account /\ out["vault"] \in Account
      BY <2>1, <3>1 DEF Sound
    <3>3. out["depositor"].lamports \in Nat /\ out["vault"].amount \in 0..(U64 - 1)
      BY <3>2, Fields
    <3> QED BY <2>5, <2>6, <3>1, <3>3, Sizes DEF Worth
  <2>13. Quiet(out)
    BY <2>1, <2>2, <2>9, <2>10, <2>11, <2>12, Sizes DEF Quiet, Still
  <2> QED BY <2>13 DEF out
<1> QED BY <1>1, <1>2

LEMMA SetupIsQuiet ==
    ASSUME NEW m
    PROVE  Quiet(SetupOf("escrow_clean", m))
<1> DEFINE wallets == [k \in Keys |-> IF k \in People THEN Wallet(InitialBalance) ELSE Blank]
           ofCall(now, ix, who, arg) ==
               Call("escrow_clean", m, now, 0, ix, <<Pda[who], who, "system_program">>, {who}, arg)
           window == <<"beneficiary", UnlockSlot>>
           one == Send(ofCall(wallets, "initialize", "depositor", window)).l
           two == Send(ofCall(one, "initialize", "depositor_b", window)).l
<1>1. Quiet(wallets)
  <2> DEFINE w == Wallet(InitialBalance)
  <2>1. w \in Account /\ w.lamports = InitialBalance
    <3>1. w = [Blank EXCEPT !.lamports = InitialBalance]
      BY DEF Wallet
    <3> HIDE DEF w
    <3> QED BY <3>1, BlankIsAccount, Sizes, Credited DEF WithBalance
  <2> HIDE DEF w
  <2>2. wallets = [k \in Keys |-> IF k \in People THEN w ELSE Blank]
    BY DEF w
  <2> HIDE DEF wallets
  <2>3. InitialBalance \in Nat \ {0} /\ Blank.amount = 0
    BY Sizes, ScoringAssumption DEF Blank
  <2>4. Sound(wallets)
    BY <2>1, <2>2, Names, BlankIsAccount DEF Sound, Backed, Windowed
  <2>5. Tidy(wallets)
    BY <2>1, <2>2, <2>3 DEF Tidy
  <2>6. /\ wallets["fake"] = Blank /\ wallets["vault"] = Blank
        /\ wallets["beneficiary"] = w /\ wallets["depositor"] = w
    BY <2>2, Names
  <2>7. w # Blank
    BY <2>1, <2>3, BlankIsAccount
  <2>8. Worth(wallets) = InitialBalance
    BY <2>1, <2>3, <2>6 DEF Worth
  <2> QED BY <2>3, <2>4, <2>5, <2>6, <2>7, <2>8 DEF Quiet, Still
<1> HIDE DEF wallets
<1>2. ASSUME NEW now, Quiet(now), NEW who \in {"depositor", "depositor_b"}
      PROVE  Quiet(Send(ofCall(now, "initialize", who, window)).l)
  <2> DEFINE c == ofCall(now, "initialize", who, window)
  <2>1. /\ c.prog = "escrow_clean" /\ c.l = now /\ c.ix = "initialize" /\ c.arg = window
        /\ window[1] \in People /\ window[2] = UnlockSlot /\ UnlockSlot \in Nat
    BY Sizes, Names DEF Call
  <2> HIDE DEF c, window
  <2>2. CleanCall(c)
    BY <1>2, <2>1 DEF CleanCall, Quiet, Still
  <2>3. Quiet(Send(c).l)
    BY <1>2, <2>1, <2>2, SendIsQuiet
  <2> QED BY <2>3 DEF c
<1> HIDE DEF window, ofCall
<1>3. Quiet(one)
  BY <1>1, <1>2
<1> HIDE DEF one
<1>4. Quiet(two)
  BY <1>2, <1>3
<1> HIDE DEF two
<1> DEFINE c == ofCall(two, "deposit", "depositor_b", Sample["setup"])
<1>5. /\ c.prog = "escrow_clean" /\ c.l = two /\ c.ix = "deposit" /\ c.arg = Sample["setup"]
  BY DEF Call, ofCall
<1> HIDE DEF c
<1>6. CleanCall(c)
  BY <1>4, <1>5, HarnessAssumption DEF CleanCall, Quiet, Still
<1>7. Quiet(Send(c).l)
  BY <1>4, <1>5, <1>6, SendIsQuiet
<1>8. SetupOf("escrow_clean", m) = Send(c).l
  BY DEF SetupOf, c, ofCall, two, one, window, wallets
<1> QED BY <1>7, <1>8

\* What an attempt comes back with.
IsResult(t) == t = [ok |-> t.ok, l |-> t.l, guilty |-> t.guilty] /\ t.ok \in BOOLEAN

LEMMA TryIsResult ==
    ASSUME NEW m, NEW now, NEW s, NEW a, a.by \in Detector \ {"bump-seed-canonicalization"}
    PROVE  IsResult(Try(m, now, s, a))
<1>1. ASSUME NEW n, NEW keys, NEW flags PROVE Sent(m, n, s, keys, flags, s.arg).ok \in BOOLEAN
  BY DEF Sent, Send, Settled
<1>2. CASE a.by \in Critical
  <2>1. Try(m, now, s, a) = Tamper(m, now, s, a)
    BY <1>2 DEF Try, Critical
  <2>2. PICK n, keys, flags, watched :
            \/ Tamper(m, now, s, a) = [ok |-> FALSE, l |-> now, guilty |-> FALSE]
            \/ Tamper(m, now, s, a) = Judged(now, watched, Sent(m, n, s, keys, flags, s.arg))
    BY DEF Tamper
  <2> DEFINE t == Tamper(m, now, s, a)
             out == Sent(m, n, s, keys, flags, s.arg)
  <2>3. out.ok \in BOOLEAN
    BY <1>1
  <2> HIDE DEF t, out
  <2>4. CASE t = [ok |-> FALSE, l |-> now, guilty |-> FALSE]
    <3> DEFINE no == FALSE
    <3>1. t = [ok |-> no, l |-> now, guilty |-> no] /\ no \in BOOLEAN
      BY <2>4
    <3> HIDE DEF no
    <3>2. IsResult(t)
      BY <3>1 DEF IsResult
    <3> QED BY <2>1, <3>2 DEF t
  <2>5. CASE t = Judged(now, watched, out)
    <3> DEFINE found == out.ok /\ \E k \in Range(watched) : out.l[k] # now[k]
    <3>1. t = [ok |-> out.ok, l |-> Restored(now, out.l, watched), guilty |-> found]
      BY <2>5 DEF Judged
    <3> HIDE DEF found
    <3>2. IsResult(t)
      BY <2>3, <3>1 DEF IsResult
    <3> QED BY <2>1, <3>2 DEF t
  <2> QED BY <2>2, <2>4, <2>5 DEF t, out
<1>3. CASE a.by \notin Critical
  <2>1. Try(m, now, s, a) = Heard(m, now, s, a.by, Sent(m, now, s, s.keys, s.flagged, s.arg))
    BY <1>3 DEF Try, Critical, Replay, Canonical
  <2> QED BY <1>1, <2>1 DEF Heard, IsResult
<1> QED BY <1>2, <1>3

LEMMA ResultsDiffer ==
    ASSUME NEW t, NEW t0, IsResult(t), IsResult(t0), t.l = t0.l
    PROVE  LET did == [t EXCEPT !.guilty = FALSE]
               did0 == [t0 EXCEPT !.guilty = FALSE]
           IN  did.ok /\ did # did0 <=> t.ok /\ ~t0.ok
<1> DEFINE none == FALSE
           did == [t EXCEPT !.guilty = none]
           did0 == [t0 EXCEPT !.guilty = none]
<1> HIDE DEF none
<1>1. /\ did = [ok |-> t.ok, l |-> t.l, guilty |-> none]
      /\ did0 = [ok |-> t0.ok, l |-> t0.l, guilty |-> none]
  BY DEF IsResult
<1>2. did.ok = t.ok /\ did0.ok = t0.ok
  BY <1>1
<1>3. did # did0 <=> t.ok # t0.ok
  BY <1>1, <1>2
<1> HIDE DEF did, did0
<1>4. did.ok /\ did # did0 <=> t.ok /\ ~t0.ok
  BY <1>2, <1>3 DEF IsResult
<1> QED BY <1>4 DEF did, did0, none

\* The attempts the scoring test makes on these specs.
Made == {a \in Range(HandAttempts[prog][test]) : Declares(SpecOf(prog, a), a)}

LEMMA MadeAre ==
    ASSUME prog = "escrow_clean", test \in TestsOf[prog], Quiet(l), NEW a \in Made
    PROVE  /\ a.n \in 1..4 /\ a.by \in Detector \ {"bump-seed-canonicalization"}
           /\ Declares(SpecOf(prog, a), a)
           /\ \A m : TryTells(m, l, SpecOf(prog, a), a)
<1>0. prog \in Programs
  BY DEF Programs
<1>1. a \in SlotAttempts(prog)
  <2>1. HandAttempts[prog][test] \in Seq(SlotAttempts(prog))
    BY <1>0, AttemptsAreOnSlots
  <2> DEFINE all == HandAttempts[prog][test]
  <2>2. a \in Range(all)
    BY DEF Made
  <2> HIDE DEF all
  <2>3. PICK i \in DOMAIN all : all[i] = a
    BY <2>2 DEF Range
  <2>4. all \in Seq(SlotAttempts(prog))
    BY <2>1 DEF all
  <2> QED BY <2>3, <2>4
<1>2. a.n \in 1..4 /\ a.by \in Detector /\ Declares(SpecOf(prog, a), a)
  BY <1>1, CleanHandlers DEF SlotAttempts, Made
<1>3. ~SpecOf(prog, a).bump
  BY <1>2, CleanSpecs DEF SpecOf, CleanSpec
<1>4. a.by # "bump-seed-canonicalization"
  BY <1>2, <1>3 DEF Declares
<1>5. ASSUME NEW m PROVE TryTells(m, l, SpecOf(prog, a), a)
  <2>1. Declares(HandSpecs("escrow_clean")[a.n], a)
    BY <1>2 DEF SpecOf
  <2>2. TryTells(m, l, HandSpecs("escrow_clean")[a.n], a)
    BY <1>2, <2>1, AttemptTells DEF Quiet
  <2> QED BY <2>2 DEF SpecOf
<1> QED BY <1>2, <1>4, <1>5

LEMMA BodyDiffersWhen ==
    ASSUME prog = "escrow_clean", test \in TestsOf[prog], Quiet(l)
    PROVE  BodyDiffers <=>
             \E a \in Made : /\ Try(mutant.what, l, SpecOf(prog, a), a).ok
                             /\ ~Try(<<>>, l, SpecOf(prog, a), a).ok
<1> DEFINE tried(m, a) == Try(m, l, SpecOf(prog, a), a)
           did(m, a) == [tried(m, a) EXCEPT !.guilty = FALSE]
           differs(a) == did(mutant.what, a).ok /\ did(mutant.what, a) # did(<<>>, a)
<1>1. BodyDiffers <=> \E a \in Made : differs(a)
  BY DEF BodyDiffers, Made, SpecOf
<1>2. ASSUME NEW a \in Made
      PROVE  differs(a) <=> tried(mutant.what, a).ok /\ ~tried(<<>>, a).ok
  <2>1. tried(mutant.what, a).l = l /\ tried(<<>>, a).l = l
    BY MadeAre DEF TryTells
  <2>2. IsResult(tried(mutant.what, a)) /\ IsResult(tried(<<>>, a))
    BY MadeAre, TryIsResult
  <2> HIDE DEF tried
  <2> QED BY <2>1, <2>2, ResultsDiffer
<1> HIDE DEF differs, tried
<1>3. BodyDiffers <=> \E a \in Made : tried(mutant.what, a).ok /\ ~tried(<<>>, a).ok
  BY <1>1, <1>2
<1> QED BY <1>3 DEF tried

\* The guards of withdraw and claim are looked up in every scoring test.
LEMMA GuardsAreTried ==
    ASSUME prog = "escrow_clean", test \in TestsOf[prog], test = "scoring",
           NEW n \in 1..4, HandSpecs(prog)[n].ix \in {"withdraw", "claim"}
    PROVE  FirstSlot("precondition-skip", n) \in Made
<1> DEFINE a == FirstSlot("precondition-skip", n)
           s == HandSpecs(prog)[n]
<1>0. prog \in Programs /\ DOMAIN HandSpecs(prog) = 1..4
  BY CleanHandlers DEF Programs
<1>1. PICK d \in DOMAIN Tests[test] : Tests[test][d] = "precondition-skip"
  BY ScoringAssumption
<1>2. s \in {WithdrawSpec, ClaimSpec}
  <2>1. InitializeSpec.ix = "initialize" /\ DepositSpec.ix = "deposit"
    BY InitializeSays, DepositSays DEF Reads
  <2> HIDE DEF s
  <2>2. s.ix \in {"withdraw", "claim"} /\ s \in {InitializeSpec, DepositSpec, WithdrawSpec, ClaimSpec}
    BY CleanSpecsAre DEF s
  <2> QED BY <2>1, <2>2
<1>3. s.guards # {} /\ 1 \in DOMAIN s.keys
  <2>1. Bank(s) /\ s.ix \in {"withdraw", "claim"}
    BY <1>2, BankSpecs
  <2> HIDE DEF s
  <2> QED BY <2>1 DEF Bank
<1>4. FirstSlot(Tests[test][d], n) \in Range(HandAttempts[prog][test])
  BY <1>0, <1>1, <1>3, AttemptsAreOnSlots DEF SpecKeys
<1>5. a \in Range(HandAttempts[prog][test])
  BY <1>1, <1>4
<1>6. a.by = "precondition-skip" /\ a.at = 1 /\ a.n = n
  BY DEF FirstSlot
<1> HIDE DEF a
<1>7. Declares(SpecOf(prog, a), a)
  BY <1>3, <1>6 DEF Declares, SpecOf
<1> QED BY <1>5, <1>7 DEF Made, a

\* A body of escrow_clean reports exactly when it differs.
LEMMA BodyKills ==
    ASSUME prog = "escrow_clean", test \in TestsOf[prog], test = "scoring", Quiet(l)
    PROVE  Body(mutant.what, HandSpecs(prog)).violation # NoViolation <=> BodyDiffers
<1> DEFINE m == mutant.what
           body == Body(m, HandSpecs(prog))
           tried(w, a) == Try(w, l, SpecOf(prog, a), a)
<1>1. body.violation # NoViolation <=> \E a \in Made : tried(m, a).guilty
  <2>1. BodyTells(m, body)
    BY BodyIsTold DEF Quiet
  <2> HIDE DEF body
  <2> QED BY <2>1 DEF BodyTells, Made
<1>2. BodyDiffers <=> \E a \in Made : tried(m, a).ok /\ ~tried(<<>>, a).ok
  BY BodyDiffersWhen
<1> HIDE DEF body
<1>3. ASSUME NEW a \in Made, tried(m, a).guilty PROVE tried(m, a).ok /\ ~tried(<<>>, a).ok
  <2>1. TryTells(m, l, SpecOf(prog, a), a)
    BY MadeAre
  <2> QED BY <1>3, <2>1 DEF TryTells
<1>4. ASSUME NEW a \in Made, tried(m, a).ok, ~tried(<<>>, a).ok PROVE \E b \in Made : tried(m, b).guilty
  <2>0. TryTells(m, l, SpecOf(prog, a), a)
    BY MadeAre
  <2>1. CASE a.by \in Critical
    BY <1>4, <2>0, <2>1 DEF TryTells
  <2>2. CASE a.by \notin Critical
    <3> DEFINE s == SpecOf(prog, a)
               b == FirstSlot("precondition-skip", a.n)
    <3>1. s.ix \in {"withdraw", "claim"} /\ Guilty(m, l, s, "precondition-skip", Canonical(m, l, s))
      BY <1>4, <2>0, <2>2 DEF TryTells
    <3>2. b \in Made
      BY <3>1, MadeAre, GuardsAreTried DEF SpecOf
    <3>3. b.by = "precondition-skip" /\ b.n = a.n
      BY DEF FirstSlot
    <3> HIDE DEF b
    <3>4. SpecOf(prog, b) = s
      BY <3>3 DEF SpecOf
    <3> HIDE DEF s
    <3>5. tried(m, b) = Heard(m, l, s, "precondition-skip", Canonical(m, l, s))
      BY <3>3, <3>4 DEF Try, Critical, Replay
    <3>6. tried(m, b).guilty
      BY <3>1, <3>5 DEF Heard
    <3> QED BY <3>2, <3>6
  <2> QED BY <2>1, <2>2
<1> HIDE DEF tried, m
<1>5. body.violation # NoViolation <=> BodyDiffers
  BY <1>1, <1>2, <1>3, <1>4
<1> QED BY <1>5 DEF body, m

\* The invariant: in escrow_clean the accounts are quiet, now and after
\* setup(); nothing is noted of a timelock; and what was reported the
\* committed results have.
CleanInv ==
    /\ iters \in Nat /\ test \in TestsOf[prog] /\ prog \in Programs
    /\ prog = "escrow_clean" =>
          /\ Quiet(l) /\ Quiet(setup) /\ slot \in Nat /\ withdrawn = {}
          /\ \A r \in reports : <<mutant.what, r>> \in Campaign

\* What an action sends.
ActionCall(c, ix, m) ==
    /\ c.prog = "escrow_clean" /\ c.l = l /\ c.slot = slot /\ c.dropped = m
    /\ c.ix = ix /\ c.keys = ActionKeys(ix) /\ c.signed = ActionSigner(ix)

LEMMA ActionSends ==
    ASSUME CleanInv, prog = "escrow_clean", ActionSend
    PROVE  \E c, c0, ix :
              /\ ActionCall(c, ix, mutant.what) /\ Unmutated(c, c0)
              /\ CleanCall(c) /\ Leaves(c, Send(c)) /\ l' = Send(c).l
              /\ differed' = (differed \/ (Send(c).ok /\ Send(c) # Send(c0)))
              /\ reached' = IF Send(c).ok THEN reached \cup {ix} ELSE reached
<1> DEFINE of(m, ix, arg) == Call(prog, m, l, slot, ix, ActionKeys(ix), ActionSigner(ix), arg)
<1>1. PICK ix \in DOMAIN Inputs[prog] : \E x \in Inputs[prog][ix] :
        LET arg == IF ix = "initialize" THEN <<"beneficiary", slot + x>> ELSE x IN
        /\ l' = Send(of(mutant.what, ix, arg)).l
        /\ differed' = (differed \/ (/\ Send(of(mutant.what, ix, arg)).ok
                                     /\ Send(of(mutant.what, ix, arg)) # Send(of(<<>>, ix, arg))))
        /\ reached' = IF Send(of(mutant.what, ix, arg)).ok THEN reached \cup {ix} ELSE reached
  BY DEF ActionSend
<1>2. PICK x \in Inputs[prog][ix] :
        LET arg == IF ix = "initialize" THEN <<"beneficiary", slot + x>> ELSE x IN
        /\ l' = Send(of(mutant.what, ix, arg)).l
        /\ differed' = (differed \/ (/\ Send(of(mutant.what, ix, arg)).ok
                                     /\ Send(of(mutant.what, ix, arg)) # Send(of(<<>>, ix, arg))))
        /\ reached' = IF Send(of(mutant.what, ix, arg)).ok THEN reached \cup {ix} ELSE reached
  BY <1>1
<1> DEFINE arg == IF ix = "initialize" THEN <<"beneficiary", slot + x>> ELSE x
           m == mutant.what
           c == of(m, ix, arg)
           c0 == of(<<>>, ix, arg)
<1>3. x \in Nat /\ slot \in Nat /\ Sound(l)
  BY <1>2, HarnessAssumption DEF CleanInv, Quiet, Still
<1>4. ActionCall(c, ix, m) /\ c.arg = arg
  BY DEF Call, ActionCall
<1>5. Unmutated(c, c0)
  BY DEF Call, Unmutated
<1>6. /\ l' = Send(c).l
      /\ differed' = (differed \/ (Send(c).ok /\ Send(c) # Send(c0)))
      /\ reached' = IF Send(c).ok THEN reached \cup {ix} ELSE reached
  BY <1>2
<1> HIDE DEF c, c0, m
<1>7. /\ ix = "initialize" => arg[1] \in People /\ arg[2] \in Nat
      /\ ix # "initialize" => arg \in Nat
  BY <1>3, Names
<1>8. ix = "initialize" => ActionKeys(ix)[1] # "vault"
  BY DEF ActionKeys
<1> HIDE DEF arg
<1>9. CleanCall(c)
  BY <1>3, <1>4, <1>7, <1>8 DEF CleanCall, Key, ActionCall
<1>10. Leaves(c, Send(c))
  BY <1>9, SendLeaves
<1> QED BY <1>4, <1>5, <1>6, <1>9, <1>10 DEF m

LEMMA CleanInvHolds == Spec => []CleanInv
<1>1. Init => CleanInv
  <2> SUFFICES ASSUME Init PROVE CleanInv
    OBVIOUS
  <2>0. iters \in Nat /\ test \in TestsOf[prog] /\ prog \in Programs
    BY DEF Init
  <2>1. CASE prog = "escrow_clean"
    <3>1. /\ setup = SetupOf("escrow_clean", mutant.what) /\ l = setup /\ slot = 0
          /\ withdrawn = {} /\ reports = {}
      BY <2>1 DEF Init
    <3>2. Quiet(setup)
      BY <3>1, SetupIsQuiet
    <3> QED BY <2>0, <3>1, <3>2 DEF CleanInv
  <2>2. CASE prog # "escrow_clean"
    BY <2>0, <2>2 DEF CleanInv
  <2> QED BY <2>1, <2>2
<1>2. CleanInv /\ [Next]_vars => CleanInv'
  <2> SUFFICES ASSUME CleanInv, [Next]_vars PROVE CleanInv'
    OBVIOUS
  <2>0. prog' = prog /\ setup' = setup /\ test' = test /\ mutant' = mutant
    BY DEF Next, vars, fixed, ActionSend, ActionAdvanceSlots, RunBody, Ended, NewIteration
  <2>1. iters' \in Nat
    <3>1. iters \in Nat
      BY DEF CleanInv
    <3>2. ActionSend \/ ActionAdvanceSlots => iters' = iters
      BY DEF ActionSend, ActionAdvanceSlots
    <3>3. RunBody => iters' = iters
      BY DEF RunBody, Ended
    <3>4. NewIteration => iters' = iters + 1
      BY DEF NewIteration
    <3>5. UNCHANGED vars => iters' = iters
      BY DEF vars
    <3> QED BY <3>1, <3>2, <3>3, <3>4, <3>5 DEF Next
  <2>2. ASSUME prog = "escrow_clean"
        PROVE  /\ Quiet(l') /\ slot' \in Nat /\ withdrawn' = {}
               /\ \A r \in reports' : <<mutant.what, r>> \in Campaign
    <3>1. /\ Quiet(l) /\ Quiet(setup) /\ slot \in Nat /\ withdrawn = {} /\ test \in TestsOf[prog]
          /\ \A r \in reports : <<mutant.what, r>> \in Campaign
      BY <2>2 DEF CleanInv
    <3>2. CASE ActionSend
      <4>1. slot' = slot /\ reports' = reports /\ withdrawn' = withdrawn
        BY <2>2, <3>2 DEF ActionSend
      <4>2. PICK c, ix : ActionCall(c, ix, mutant.what) /\ CleanCall(c) /\ l' = Send(c).l
        BY <2>2, <3>2, ActionSends
      <4>3. c.l = l /\ (c.ix = "claim" => Key(c, 3) # "depositor")
        BY <4>2 DEF ActionCall, ActionKeys, Key
      <4>4. Quiet(l')
        BY <3>1, <4>2, <4>3, SendIsQuiet
      <4> QED BY <3>1, <4>1, <4>4
    <3>3. CASE ActionAdvanceSlots
      <4>1. PICK n \in Inputs["slots"] : slot' = slot + n
        BY <3>3 DEF ActionAdvanceSlots
      <4>2. n \in Nat /\ l' = l /\ reports' = reports /\ withdrawn' = withdrawn
        BY <3>3, HarnessAssumption DEF ActionAdvanceSlots
      <4> QED BY <3>1, <4>1, <4>2
    <3>4. CASE RunBody
      <4> DEFINE body == Body(mutant.what, HandSpecs(prog))
      <4>1. Ended(body)
        BY <3>4 DEF RunBody
      <4>2. BodyTells(mutant.what, body)
        BY <2>2, <3>1, BodyIsTold DEF Quiet
      <4> HIDE DEF body
      <4>3. ~TimelockViolated
        BY <3>1 DEF TimelockViolated
      <4>4. /\ l' = body.l /\ slot' = slot /\ withdrawn' = withdrawn
            /\ reports' = IF body.violation = NoViolation THEN reports
                          ELSE reports \cup {body.violation}
        BY <4>1, <4>3 DEF Ended
      <4>5. body.l = l /\ (body.violation # NoViolation => <<mutant.what, body.violation>> \in Campaign)
        BY <4>2 DEF BodyTells
      <4> QED BY <3>1, <4>4, <4>5
    <3>5. CASE NewIteration
      BY <3>1, <3>5 DEF NewIteration
    <3>6. CASE UNCHANGED vars
      BY <3>1, <3>6 DEF vars
    <3> QED BY <3>2, <3>3, <3>4, <3>5, <3>6 DEF Next
  <2>3. /\ test \in TestsOf[prog] /\ prog \in Programs
        /\ prog = "escrow_clean" => Quiet(setup)
    BY DEF CleanInv
  <2> QED BY <2>0, <2>1, <2>2, <2>3 DEF CleanInv, Quiet, Still, Sound, Tidy, Worth
<1> QED BY <1>1, <1>2, PTL DEF Spec

\* Whatever is sent and whichever mutant is in, a vault of escrow_clean holds
\* its rent and the amount it says (fuzz/escrow_clean and programs/escrow-clean).
THEOREM VaultBackedAlways == Spec => []VaultBacked
<1>1. CleanInv => VaultBacked
  BY DEF CleanInv, VaultBacked, Quiet, Still, Sound, Backed
<1> QED BY <1>1, CleanInvHolds, PTL

\* "The two windows must not overlap": unless a time guard is gone, no action
\* pays the depositor from the unlock slot on, nor the beneficiary before it.
THEOREM PaidInTurnAlways == Spec => PaidInTurn
<1> DEFINE Turn ==
        prog = "escrow_clean" /\ mutant.what \notin TimeGuards /\ pc = "act" /\ iters' = iters =>
            /\ l'["depositor"].lamports > l["depositor"].lamports => slot < UnlockSlot
            /\ l'["beneficiary"].lamports > l["beneficiary"].lamports => slot >= UnlockSlot
<1>1. CleanInv /\ [Next]_vars => [Turn]_vars
  <2> SUFFICES ASSUME CleanInv, Next, prog = "escrow_clean", mutant.what \notin TimeGuards,
                      pc = "act", iters' = iters
               PROVE  /\ l'["depositor"].lamports > l["depositor"].lamports => slot < UnlockSlot
                      /\ l'["beneficiary"].lamports > l["beneficiary"].lamports => slot >= UnlockSlot
    OBVIOUS
  <2>1. Sound(l) /\ \A p \in People : l[p].lamports \in Nat
    <3>1. Sound(l)
      BY DEF CleanInv, Quiet, Still
    <3>2. \A p \in People : l[p] \in Account
      BY <3>1, Names DEF Sound
    <3> QED BY <3>1, <3>2, Fields
  <2>2. CASE ActionSend
    <3>1. PICK c : /\ CleanCall(c) /\ Leaves(c, Send(c)) /\ l' = Send(c).l
                   /\ c.l = l /\ c.slot = slot /\ c.dropped = mutant.what
                   /\ c.keys = ActionKeys(c.ix)
      BY <2>2, ActionSends DEF ActionCall
    <3>2. Pays(c, l')
      BY <3>1 DEF Leaves
    <3>3. c.dropped \notin TimeGuards
      BY <3>1
    <3>4. ASSUME NEW p \in {"depositor", "beneficiary"}, l'[p].lamports > l[p].lamports
          PROVE  \/ /\ c.ix = "withdraw" /\ p = Key(c, 2) /\ Key(c, 1) = Pda[p]
                    /\ Required(c, "slot < unlock_slot", c.slot < At(c, 1).unlock_slot)
                    /\ At(c, 1) # Blank
                 \/ /\ c.ix = "claim" /\ p = Key(c, 3) /\ Key(c, 2) \in DOMAIN Pda
                    /\ Key(c, 1) = Pda[Key(c, 2)]
                    /\ Required(c, "slot >= unlock_slot", c.slot >= At(c, 1).unlock_slot)
                    /\ At(c, 1) # Blank
      <4>1. p \in People
        BY <3>4, Names
      <4> QED BY <3>1, <3>2, <3>4, <4>1 DEF Pays
    <3>5. ASSUME c.ix = "withdraw",
                 Required(c, "slot < unlock_slot", c.slot < At(c, 1).unlock_slot)
          PROVE  Key(c, 1) = "vault" /\ Key(c, 2) = "depositor" /\ c.slot < At(c, 1).unlock_slot
      <4>1. c.keys = <<"vault", "depositor">>
        BY <3>1, <3>5 DEF ActionKeys
      <4>2. c.dropped # <<"guard-drop", c.ix, "slot < unlock_slot">>
        BY <3>3, <3>5 DEF TimeGuards
      <4> DEFINE inTime == c.slot < At(c, 1).unlock_slot
      <4>3. Required(c, "slot < unlock_slot", inTime)
        BY <3>5
      <4> HIDE DEF inTime
      <4>4. inTime
        BY <4>2, <4>3 DEF Required
      <4> QED BY <4>1, <4>4 DEF Key, inTime
    <3>6. ASSUME c.ix = "claim",
                 Required(c, "slot >= unlock_slot", c.slot >= At(c, 1).unlock_slot)
          PROVE  Key(c, 1) = "vault" /\ Key(c, 3) = "beneficiary" /\ c.slot >= At(c, 1).unlock_slot
      <4>1. c.keys = <<"vault", "depositor", "beneficiary">>
        BY <3>1, <3>6 DEF ActionKeys
      <4>2. c.dropped # <<"guard-drop", c.ix, "slot >= unlock_slot">>
        BY <3>3, <3>6 DEF TimeGuards
      <4> DEFINE inTime == c.slot >= At(c, 1).unlock_slot
      <4>3. Required(c, "slot >= unlock_slot", inTime)
        BY <3>6
      <4> HIDE DEF inTime
      <4>4. inTime
        BY <4>2, <4>3 DEF Required
      <4> QED BY <4>1, <4>4 DEF Key, inTime
    <3>7. Key(c, 1) = "vault" /\ At(c, 1) # Blank => At(c, 1).unlock_slot = UnlockSlot
      BY <2>1, <3>1 DEF At, Key, Sound, Windowed
    <3>8. c.slot = slot
      BY <3>1
    <3> QED BY <3>4, <3>5, <3>6, <3>7, <3>8
  <2>3. CASE ActionAdvanceSlots
    BY <2>1, <2>3, Names DEF ActionAdvanceSlots
  <2>4. CASE RunBody
    BY <2>4 DEF RunBody
  <2>5. CASE NewIteration
    <3>1. iters' = iters + 1 /\ iters \in Nat
      BY <2>5 DEF NewIteration, CleanInv
    <3> QED BY <3>1
  <2> QED BY <2>2, <2>3, <2>4, <2>5 DEF Next
<1> QED BY <1>1, CleanInvHolds, PTL DEF Spec, PaidInTurn

-----------------------------------------------------------------------------
(* What the plan found around a check.                                     *)

\* The function the plan found around a mutant is the one its check is gone
\* from.
LEMMA MutantSays ==
    ASSUME NEW mu \in Generate(CleanSource)
    PROVE  mu.enclosing_fn = mu.what[2]
<1>1. PICK p \in (DOMAIN Catalog) \X (DOMAIN CleanSource) :
          /\ CleanSource[p[2]].kind = Catalog[p[1]].id
          /\ mu = MutantAt(CleanSource, Catalog[p[1]], p[2])
  BY DEF Generate
<1> DEFINE i == p[2]
           ix == CleanSource[i].name[2]
           above == {j \in 1..(i - 1) : CleanSource[j].kind \in {"fn", "struct"}}
           last == CHOOSE j \in above : \A k \in above : k <= j
<1>2. i \in DOMAIN CleanSource /\ i \in Nat
  BY SourceAssumption
<1>3. mu.what = CleanSource[i].name /\ mu.enclosing_fn = EnclosingFn(CleanSource, i)
  BY <1>1 DEF MutantAt
<1>4. ~IsDeclaration(i)
  <2>1. \A n \in DOMAIN Catalog : Catalog[n].id \notin {"fn", "struct"}
    BY DEF Catalog
  <2> QED BY <1>1, <2>1 DEF IsDeclaration
<1>5. PICK j \in 1..(i - 1) : /\ IsDeclaration(j) /\ StandsIn(j, ix)
                             /\ \A k \in (j + 1)..(i - 1) : ~IsDeclaration(k)
  BY <1>2, <1>4, SourceAssumption
<1>6. EnclosingFn(CleanSource, i) =
          CASE above = {}                       -> ""
            [] CleanSource[last].kind = "fn"    -> CleanSource[last].name
            [] OTHER -> HandlerTakingContext(CleanSource, CleanSource[last].name)
  BY DEF EnclosingFn
<1> HIDE DEF i, ix
<1>7. j \in above /\ \A k \in above : k <= j
  <2>1. j \in above
    BY <1>5 DEF IsDeclaration
  <2>2. ASSUME NEW k \in above PROVE k <= j
    <3>1. k \in 1..(i - 1) /\ IsDeclaration(k)
      BY DEF IsDeclaration
    <3>2. k \notin (j + 1)..(i - 1)
      BY <1>5, <3>1
    <3> QED BY <1>2, <1>5, <3>1, <3>2
  <2> QED BY <2>1, <2>2
<1>8. last = j
  <2>1. \A k \in above : k \in Int
    OBVIOUS
  <2>2. j \in Int
    OBVIOUS
  <2> HIDE DEF above
  <2>3. last \in above /\ \A k \in above : k <= last
    BY <1>7
  <2>4. last <= j /\ j <= last /\ last \in Int
    BY <1>7, <2>1, <2>3
  <2> HIDE DEF last
  <2> QED BY <2>2, <2>4
<1>9. above # {}
  BY <1>7
<1> HIDE DEF above, last
<1>10. CASE CleanSource[j].kind = "fn"
  <2>1. CleanSource[j].name = ix
    BY <1>5, <1>10 DEF StandsIn
  <2> QED BY <1>3, <1>6, <1>8, <1>9, <1>10, <2>1 DEF ix
<1>11. CASE CleanSource[j].kind = "struct"
  <2> DEFINE takes == {h \in DOMAIN CleanSource : /\ CleanSource[h].kind = "fn"
                                                 /\ CleanSource[h].context = CleanSource[j].name}
             first == CHOOSE h \in takes : \A k \in takes : h <= k
  <2>1. takes # {} /\ \A h \in takes : CleanSource[h].name = ix
    BY <1>5, <1>11 DEF StandsIn
  <2>2. first \in takes
    <3>1. takes \in SUBSET Nat
      BY SourceAssumption
    <3> HIDE DEF takes
    <3>2. \E h \in takes : \A k \in takes : h <= k
      BY <2>1, <3>1, LeastExists
    <3> QED BY <3>2
  <2>3. HandlerTakingContext(CleanSource, CleanSource[j].name) =
            IF takes = {} THEN "" ELSE CleanSource[first].name
    BY DEF HandlerTakingContext
  <2> HIDE DEF takes, first
  <2>4. HandlerTakingContext(CleanSource, CleanSource[j].name) = ix
    BY <2>1, <2>2, <2>3
  <2> QED BY <1>3, <1>6, <1>8, <1>9, <1>11, <2>4 DEF ix
<1> QED BY <1>5, <1>10, <1>11 DEF IsDeclaration

\* What the process knows of a mutant that made a difference.
Named == mutant # NoMutant =>
            prog = "escrow_clean" /\ mutant.enclosing_fn = mutant.what[2]
Noticed == mutant # NoMutant /\ differed => mutant.enclosing_fn \in reached \/ reports # {}

\* A body that differs reports, or has reached the handler.
LEMMA BodyIsNoticed ==
    ASSUME prog = "escrow_clean", test \in TestsOf[prog], Quiet(l), BodyDiffers,
           mutant.enclosing_fn = mutant.what[2]
    PROVE  LET body == Body(mutant.what, HandSpecs(prog))
           IN  body.violation # NoViolation \/ mutant.enclosing_fn \in body.reached
<1> DEFINE m == mutant.what
           body == Body(m, HandSpecs(prog))
           tried(w, a) == Try(w, l, SpecOf(prog, a), a)
<1>1. BodyTells(m, body)
  BY BodyIsTold DEF Quiet
<1>2. PICK a \in Made : tried(m, a).ok /\ ~tried(<<>>, a).ok
  BY BodyDiffersWhen
<1>3. TryTells(m, l, SpecOf(prog, a), a)
  BY MadeAre
<1> HIDE DEF body
<1>4. CASE a.by \in Critical
  <2>1. tried(m, a).guilty
    BY <1>2, <1>3, <1>4 DEF TryTells
  <2> QED BY <1>1, <2>1 DEF BodyTells, Made, body
<1>5. CASE a.by \notin Critical
  <2> DEFINE s == SpecOf(prog, a)
  <2>1. s.ix \in {"withdraw", "claim"} /\ Guilty(m, l, s, "precondition-skip", Canonical(m, l, s))
    BY <1>2, <1>3, <1>5 DEF TryTells
  <2>2. s.ix \in body.reached
    BY <1>1, <1>2, <1>5 DEF BodyTells, Made
  <2>3. <<m, <<"precondition-skip", s.ix>>>> \in Campaign
    <3>1. Bank(s)
      <4>1. InitializeSpec.ix = "initialize"
        BY InitializeSays DEF Reads
      <4>2. s \in {InitializeSpec, DepositSpec, WithdrawSpec, ClaimSpec}
        BY MadeAre, CleanSpecsAre DEF SpecOf
      <4> HIDE DEF s
      <4> QED BY <2>1, <4>1, <4>2, BankSpecs
    <3> HIDE DEF s
    <3>2. ReplayTells(m, l, s, Canonical(m, l, s))
      BY <3>1, CanonicalTells DEF Quiet
    <3> QED BY <2>1, <3>2 DEF ReplayTells
  <2> HIDE DEF s, m
  <2>4. m[2] = s.ix
    <3>1. ASSUME NEW e \in Campaign PROVE e[1][2] = e[2][2]
      <4>1. CASE e = <<<<"signer-type-weaken", "withdraw">>, <<"signer-skip", "withdraw">>>>
        BY <4>1
      <4>2. CASE e = <<<<"signer-type-weaken", "claim">>, <<"signer-skip", "claim">>>>
        BY <4>2
      <4>3. CASE \E g, d : e = <<<<"guard-drop", "withdraw", g>>, <<d, "withdraw">>>>
        BY <4>3
      <4>4. CASE \E g, d : e = <<<<"guard-drop", "claim", g>>, <<d, "claim">>>>
        BY <4>4
      <4> QED BY <4>1, <4>2, <4>3, <4>4 DEF Campaign
    <3> DEFINE e == <<m, <<"precondition-skip", s.ix>>>>
    <3>2. e[1][2] = m[2] /\ e[2][2] = s.ix
      OBVIOUS
    <3> QED BY <2>3, <3>1, <3>2
  <2> QED BY <2>2, <2>4 DEF m, body
<1> QED BY <1>4, <1>5

LEMMA NoticedHolds == Spec => [](Named /\ Noticed)
<1> DEFINE Inv == Named /\ Noticed
<1>1. Init => Inv
  <2> SUFFICES ASSUME Init PROVE Inv
    OBVIOUS
  <2>1. ~differed
    BY DEF Init
  <2>2. CASE prog = "escrow_clean"
    <3>1. mutant \in {NoMutant} \cup Generate(CleanSource)
      BY <2>2 DEF Init
    <3> QED BY <2>1, <2>2, <3>1, MutantSays DEF Named, Noticed
  <2>3. CASE prog # "escrow_clean"
    <3>1. mutant \in {NoMutant} \cup {}
      BY <2>3 DEF Init
    <3> QED BY <2>1, <3>1 DEF Named, Noticed
  <2> QED BY <2>2, <2>3
<1>2. CleanInv /\ Inv /\ [Next]_vars => Inv'
  <2> SUFFICES ASSUME CleanInv, Inv, [Next]_vars, mutant # NoMutant PROVE Inv'
    <3>1. [Next]_vars => prog' = prog /\ mutant' = mutant
      BY DEF Next, vars, fixed, ActionSend, ActionAdvanceSlots, RunBody, Ended, NewIteration
    <3> QED BY <3>1 DEF Named, Noticed
  <2>1. prog' = prog /\ mutant' = mutant
    BY DEF Next, vars, fixed, ActionSend, ActionAdvanceSlots, RunBody, Ended, NewIteration
  <2>2. /\ prog = "escrow_clean" /\ mutant.enclosing_fn = mutant.what[2]
        /\ Quiet(l) /\ test \in TestsOf[prog] /\ withdrawn = {}
        /\ differed => mutant.enclosing_fn \in reached \/ reports # {}
    BY DEF CleanInv, Named, Noticed
  <2>3. differed' => mutant.enclosing_fn \in reached' \/ reports' # {}
    <3>1. CASE ActionSend
      <4>1. reports' = reports
        BY <3>1 DEF ActionSend
      <4>2. PICK c, c0, ix :
                /\ ActionCall(c, ix, mutant.what) /\ Unmutated(c, c0)
                /\ differed' = (differed \/ (Send(c).ok /\ Send(c) # Send(c0)))
                /\ reached' = IF Send(c).ok THEN reached \cup {ix} ELSE reached
        BY <2>2, <3>1, ActionSends
      <4>3. Send(c) # Send(c0) => mutant.enclosing_fn = ix
        BY <2>2, <4>2, OnlyItsHandler DEF ActionCall
      <4> QED BY <2>2, <4>1, <4>2, <4>3
    <3>2. CASE ActionAdvanceSlots
      BY <2>2, <3>2 DEF ActionAdvanceSlots
    <3>3. CASE RunBody
      <4> DEFINE body == Body(mutant.what, HandSpecs(prog))
      <4>1. Ended(body)
        BY <3>3 DEF RunBody
      <4>2. BodyTells(mutant.what, body)
        BY <2>2, BodyIsTold DEF Quiet
      <4>3. BodyDiffers => body.violation # NoViolation \/ mutant.enclosing_fn \in body.reached
        BY <2>2, BodyIsNoticed
      <4> HIDE DEF body
      <4>4. ~TimelockViolated
        BY <2>2 DEF TimelockViolated
      <4>5. /\ reached' = body.reached /\ differed' = (differed \/ BodyDiffers)
            /\ reports' = IF body.violation = NoViolation THEN reports
                          ELSE reports \cup {body.violation}
        BY <4>1, <4>4 DEF Ended
      <4>6. reached \subseteq body.reached
        BY <4>2 DEF BodyTells
      <4> QED BY <2>2, <4>3, <4>5, <4>6
    <3>4. CASE NewIteration
      BY <2>2, <3>4 DEF NewIteration
    <3>5. CASE UNCHANGED vars
      BY <2>2, <3>5 DEF vars
    <3> QED BY <3>1, <3>2, <3>3, <3>4, <3>5 DEF Next
  <2> QED BY <2>1, <2>2, <2>3 DEF Named, Noticed
<1> QED BY <1>1, <1>2, CleanInvHolds, PTL DEF Spec

\* A mutant of escrow_clean is killed exactly when it makes a difference: the
\* body of the scoring test reports if and only if, on the accounts of this
\* moment, one of its sends lands that the original would have refused.
THEOREM KillsAreDifferencesAlways == Spec => []KillsAreDifferences
<1>1. CleanInv => KillsAreDifferences
  <2> SUFFICES ASSUME CleanInv, prog = "escrow_clean", test = "scoring"
               PROVE  Body(mutant.what, HandSpecs(prog)).violation # NoViolation <=> BodyDiffers
    BY DEF KillsAreDifferences
  <2>1. Quiet(l) /\ test \in TestsOf[prog]
    BY DEF CleanInv
  <2> QED BY <2>1, BodyKills
<1> QED BY <1>1, CleanInvHolds, PTL

\* A mutant the score calls not_reached has made no difference to anything
\* that was sent: what differs reports, or reaches the function the plan found.
THEOREM NotReachedMadeNoDifferenceAlways == Spec => []NotReachedMadeNoDifference
<1>1. Noticed => NotReachedMadeNoDifference
  BY DEF Noticed, NotReachedMadeNoDifference
<1> QED BY <1>1, NoticedHolds, PTL
\* The body of a test of escrow: every key keeps an owner, and what it reports
\* was planted.
LEMMA EscrowBody ==
    ASSUME prog = "escrow", test \in TestsOf[prog], Ledgered(l)
    PROVE  LET body == Body(<<>>, HandSpecs(prog))
           IN  Ledgered(body.l) /\ body.violation \in {NoViolation} \cup Planted
<1> DEFINE specs == HandSpecs(prog)
           todo == Todo(specs)
           N == Len(todo)
           s(i) == specs[todo[i].n]
<1>0. prog \in Programs
  BY DEF Programs
<1>1. /\ N \in Nat /\ DOMAIN todo = 1..N
      /\ \A i \in 1..N : todo[i] \in DeclaredAttempts(prog)
  <2>1. todo \in Seq(DeclaredAttempts(prog))
    BY <1>0, BodyRuns
  <2> HIDE DEF todo
  <2> QED BY <2>1
<1>2. PICK run : IsRun(run, <<>>, specs, todo) /\ Body(<<>>, specs) = run[N]
  BY <1>0, BodyRuns
<1>3. ASSUME NEW i \in 1..N
      PROVE  /\ todo[i].by \in Detector /\ todo[i].n \in 1..7
             /\ s(i) = HandSpecs("escrow")[todo[i].n] /\ s(i).keys \in Seq(Keys)
             /\ IsAttempt(s(i), todo[i]) /\ Declares(s(i), todo[i])
  <2>1. /\ todo[i].by \in Detector /\ todo[i].n \in DOMAIN HandSpecs(prog)
        /\ IsAttempt(SpecOf(prog, todo[i]), todo[i]) /\ Declares(SpecOf(prog, todo[i]), todo[i])
    BY <1>1 DEF DeclaredAttempts, SlotAttempts
  <2>2. s(i) = SpecOf(prog, todo[i]) /\ s(i) = HandSpecs("escrow")[todo[i].n]
    BY DEF SpecOf
  <2>3. todo[i].n \in 1..7
    BY <2>1, EscrowSpecsAre
  <2>4. s(i).keys \in Seq(Keys)
    BY <1>0, <2>2, <2>3, SpecsHaveKeys, EscrowSpecsAre
  <2> QED BY <2>1, <2>2, <2>3, <2>4
<1> HIDE DEF todo, specs, s
<1> DEFINE Fine(r) == Ledgered(r.l) /\ r.violation \in {NoViolation} \cup Planted
           Q == {k \in 0..N : Fine(run[k])}
<1>4. 0 \in Q
  BY <1>1, <1>2 DEF IsRun, Began
<1>5. ASSUME NEW k \in 1..N, k - 1 \in Q PROVE k \in Q
  <2> DEFINE was == run[k - 1]
             is == run[k]
             tried == Try(<<>>, was.l, s(k), todo[k])
  <2>1. is = Noted(was, s(k), todo[k], tried)
    BY <1>2 DEF IsRun, Step, s
  <2>2. Fine(was)
    BY <1>5
  <2>3. Ledgered(tried.l)
    BY <1>3, <2>2, TryIsLedgered
  <2>4. tried.guilty => <<todo[k].by, s(k).ix>> \in Planted
    BY <1>3, <2>2, EscrowFinds
  <2> HIDE DEF was, is, tried
  <2>5. /\ is.l = tried.l
        /\ is.violation = IF was.violation # NoViolation THEN was.violation
                          ELSE IF tried.guilty THEN <<todo[k].by, s(k).ix>> ELSE NoViolation
    BY <2>1 DEF Noted
  <2>6. Fine(is)
    BY <2>2, <2>3, <2>4, <2>5
  <2>7. k \in 0..N
    BY <1>1
  <2> HIDE DEF Fine
  <2> QED BY <2>6, <2>7 DEF is
<1> HIDE DEF Q
<1>6. N \in Q
  <2> HIDE DEF N
  <2>1. \A k \in 0..N : k \in Q
    BY <1>1, <1>4, <1>5, UpTo
  <2> QED BY <1>1, <2>1
<1>7. Fine(run[N])
  BY <1>6 DEF Q
<1> QED BY <1>2, <1>7 DEF specs, todo

LEMMA SetupIsLedgered ==
    ASSUME NEW m
    PROVE  Ledgered(SetupOf("escrow", m))
<1> DEFINE wallets == [k \in Keys |-> IF k \in People THEN Wallet(InitialBalance) ELSE Blank]
           ofCall(now, ix, who, arg) ==
               Call("escrow", m, now, 0, ix, <<Pda[who], who, "system_program">>, {who}, arg)
           window == <<"beneficiary", UnlockSlot>>
           one == Send(ofCall(wallets, "initialize", "depositor", window)).l
           two == Send(ofCall(one, "initialize", "depositor_b", window)).l
           three == Send(ofCall(two, "deposit", "depositor_b", Sample["setup"])).l
<1>1. Ledgered(wallets)
  <2> DEFINE w == Wallet(InitialBalance)
  <2>1. Owned(w) /\ Owned(Blank)
    BY DEF Wallet, Blank, Owned
  <2> HIDE DEF w
  <2>2. wallets = [k \in Keys |-> IF k \in People THEN w ELSE Blank]
    BY DEF w
  <2> HIDE DEF wallets
  <2> QED BY <2>1, <2>2 DEF Ledgered
<1> HIDE DEF wallets
<1>2. ASSUME NEW now, Ledgered(now), NEW ix, NEW who, NEW arg
      PROVE  Ledgered(Send(ofCall(now, ix, who, arg)).l)
  <2> DEFINE c == ofCall(now, ix, who, arg)
  <2>1. c.prog \in Programs /\ "l" \in DOMAIN c /\ c.l = now
    BY DEF Call, Programs
  <2> HIDE DEF c
  <2>2. Ledgered(Send(c).l)
    BY <1>2, <2>1, SendIsLedgered
  <2> QED BY <2>2 DEF c
<1> HIDE DEF window, ofCall
<1>3. Ledgered(one)
  BY <1>1, <1>2
<1> HIDE DEF one
<1>4. Ledgered(two)
  BY <1>2, <1>3
<1> HIDE DEF two
<1>5. Ledgered(three)
  BY <1>2, <1>4
<1>6. SetupOf("escrow", m) = three
  BY DEF SetupOf, three, ofCall, two, one, window, wallets
<1> HIDE DEF three
<1> QED BY <1>5, <1>6

\* Escrow runs without a mutant; every key of its ledger keeps an owner, and
\* what was reported was planted.
EscrowInv ==
    prog = "escrow" =>
        /\ mutant.what = <<>> /\ test \in TestsOf[prog]
        /\ Ledgered(l) /\ Ledgered(setup) /\ reports \subseteq Planted

LEMMA EscrowInvHolds == Spec => []EscrowInv
<1>1. Init => EscrowInv
  <2> SUFFICES ASSUME Init, prog = "escrow" PROVE EscrowInv
    BY DEF EscrowInv
  <2>1. mutant \in {NoMutant} \cup {}
    BY DEF Init
  <2>2. mutant.what = <<>>
    <3>1. NoMutant.what = <<>>
      BY DEF NoMutant
    <3>2. mutant = NoMutant
      BY <2>1
    <3> QED BY <3>1, <3>2
  <2>3. setup = SetupOf("escrow", mutant.what) /\ l = setup /\ reports = {} /\ test \in TestsOf[prog]
    BY DEF Init
  <2>4. Ledgered(setup)
    BY <2>3, SetupIsLedgered
  <2> QED BY <2>2, <2>3, <2>4 DEF EscrowInv
<1>2. EscrowInv /\ [Next]_vars => EscrowInv'
  <2> SUFFICES ASSUME EscrowInv, [Next]_vars PROVE EscrowInv'
    OBVIOUS
  <2>0. prog' = prog /\ setup' = setup /\ test' = test /\ mutant' = mutant
    BY DEF Next, vars, fixed, ActionSend, ActionAdvanceSlots, RunBody, Ended, NewIteration
  <2>1. ASSUME prog = "escrow" PROVE Ledgered(l') /\ reports' \subseteq Planted
    <3>1. /\ mutant.what = <<>> /\ test \in TestsOf[prog]
          /\ Ledgered(l) /\ Ledgered(setup) /\ reports \subseteq Planted
      BY <2>1 DEF EscrowInv
    <3>2. CASE ActionSend
      <4>1. PICK ix, x :
                LET arg == IF ix = "initialize" THEN <<"beneficiary", slot + x>> ELSE x
                IN  l' = Send(Call(prog, mutant.what, l, slot, ix, ActionKeys(ix),
                                   ActionSigner(ix), arg)).l
        BY <3>2 DEF ActionSend
      <4> DEFINE arg == IF ix = "initialize" THEN <<"beneficiary", slot + x>> ELSE x
                 c == Call(prog, mutant.what, l, slot, ix, ActionKeys(ix), ActionSigner(ix), arg)
      <4>2. c.prog \in Programs /\ "l" \in DOMAIN c /\ c.l = l
        BY <2>1 DEF Call, Programs
      <4>3. l' = Send(c).l
        BY <4>1
      <4> HIDE DEF c
      <4>4. Ledgered(Send(c).l)
        BY <3>1, <4>2, SendIsLedgered
      <4>5. reports' = reports
        BY <3>2 DEF ActionSend
      <4> QED BY <3>1, <4>3, <4>4, <4>5
    <3>3. CASE ActionAdvanceSlots
      <4>1. l' = l /\ reports' = reports
        BY <3>3 DEF ActionAdvanceSlots
      <4> QED BY <3>1, <4>1
    <3>4. CASE RunBody
      <4> DEFINE body == Body(<<>>, HandSpecs(prog))
      <4>1. Ended(body)
        BY <3>1, <3>4 DEF RunBody
      <4>2. Ledgered(body.l) /\ body.violation \in {NoViolation} \cup Planted
        BY <2>1, <3>1, EscrowBody
      <4> HIDE DEF body
      <4> DEFINE v == IF TimelockViolated THEN <<"timelock", "withdraw">> ELSE body.violation
      <4>3. /\ l' = body.l
            /\ reports' = IF v = NoViolation THEN reports ELSE reports \cup {v}
        BY <4>1 DEF Ended
      <4>4. v \in {NoViolation} \cup Planted
        BY <4>2 DEF Planted
      <4> HIDE DEF v
      <4> QED BY <3>1, <4>2, <4>3, <4>4
    <3>5. CASE NewIteration
      <4>1. l' = setup /\ reports' = reports
        BY <3>5 DEF NewIteration
      <4> QED BY <3>1, <4>1
    <3>6. CASE UNCHANGED vars
      BY <3>1, <3>6 DEF vars
    <3> QED BY <3>2, <3>3, <3>4, <3>5, <3>6 DEF Next
  <2>2. prog = "escrow" => /\ mutant'.what = <<>> /\ test' \in TestsOf[prog]
                          /\ Ledgered(l') /\ Ledgered(setup') /\ reports' \subseteq Planted
    BY <2>0, <2>1 DEF EscrowInv
  <2> QED BY <2>0, <2>2 DEF EscrowInv, Ledgered
<1> QED BY <1>1, <1>2, PTL DEF Spec

\* What a run reports is what is wrong with its program: in escrow a planted
\* bug, by the detector it was planted for; in escrow_clean nothing, and under
\* a mutant what campaigns/escrow-clean-results.json has for it.
THEOREM ReportsWhatIsWrongAlways == Spec => []ReportsWhatIsWrong
<1>1. CleanInv /\ EscrowInv => ReportsWhatIsWrong
  <2>1. ASSUME CleanInv, EscrowInv PROVE ReportsWhatIsWrong
    <3>1. prog = "escrow" => reports \subseteq Planted
      BY <2>1 DEF EscrowInv
    <3>2. prog # "escrow" => \A r \in reports : <<mutant.what, r>> \in Campaign
      BY <2>1 DEF CleanInv, Programs
    <3> QED BY <3>1, <3>2 DEF ReportsWhatIsWrong
  <2> QED BY <2>1
<1> QED BY <1>1, CleanInvHolds, EscrowInvHolds, PTL

\* No slot of this one has seeds, and its IDL names nobody.
LEMMA SetAmountSlots ==
    ASSUME NEW get
    PROVE  Slots("unsafe_set_amount_from_source", SetAmountSpec, get)
<1> DEFINE x == "unsafe_set_amount_from_source"
           s == SetAmountSpec
           keys == SetAmountKeys
           names == <<"source", "target">>
           two == {1, 2}
<1>1. s = [Nothing EXCEPT !.ix = x, !.keys = keys, !.owners = two, !.discs = two]
  BY DEF SetAmountSpec, SetAmountKeys
<1>2. HasSlots(x, names, {2}, {})
  BY SlotsAre
<1>3. s.ix = x /\ s.keys = keys /\ ~s.bump
  BY SetAmountSays DEF Silent
<1>4. /\ DOMAIN Binding(s).accounts = {"source", "target"} /\ Binding(s).keypairs = {}
      /\ Binding(s).accounts["source"] = keys[1] /\ Binding(s).accounts["target"] = keys[2]
  <2> HIDE DEF s, keys
  <2> QED BY <1>3, Bindings
<1>5. /\ keys[1] = "vault_b" /\ keys[2] = "vault"
      /\ DOMAIN keys = {1, 2} /\ keys = [i \in {1, 2} |-> keys[i]]
      /\ names[1] = "source" /\ names[2] = "target" /\ DOMAIN names = {1, 2}
  BY DEF SetAmountKeys
<1> HIDE DEF s, keys, x, names, two
<1>6. /\ DOMAIN s = DOMAIN Nothing /\ s.flagged = {} /\ s.signerIndices = {}
      /\ s.owners = two /\ s.discs = two /\ s.pda = <<>> /\ s.creates = {}
  BY <1>1 DEF Nothing
<1>7. /\ DOMAIN IdlSlots[x] = {1, 2} /\ Having(x, "s") = {}
      /\ IdlSlots[x][1][1] = "source" /\ IdlSlots[x][2][1] = "target"
  BY <1>2, <1>5 DEF HasSlots
<1>8. Typed(keys) = two /\ SeedKeys(x, keys) = {} /\ Addressed(x, keys) = {}
  <2>1. Typed(keys) = two
    BY <1>5 DEF Typed, two
  <2>2. SeedKeys(x, keys) = {}
    BY <1>5, <1>7 DEF SeedKeys
  <2> QED BY <2>1, <2>2 DEF Addressed
<1>9. Asked(x, keys, Binding(s), get) = {}
  BY <1>4, <1>7 DEF Asked
<1>10. IsBinding(Binding(s), x, keys)
  BY <1>4, <1>5, <1>7 DEF IsBinding
<1>11. \A i \in DOMAIN keys : keys[i] \in People \cup Vaults \cup {"system_program"}
  BY <1>5, Names
<1>12. \A i \in DOMAIN keys : IdlSlots[x][i][1] # "vault"
  BY <1>5, <1>7
<1>13. DOMAIN s.pda \ s.creates = {}
  BY <1>6
<1>14. Slots(x, s, get)
  BY <1>3, <1>6, <1>7, <1>8, <1>9, <1>10, <1>11, <1>12, <1>13 DEF Slots
<1> QED BY <1>14 DEF s, x

\* A harness keeps the specs it inferred when it was set up.
InferredInv ==
    /\ prog \in Programs /\ test \in TestsOf[prog] /\ idl \in Idls[prog]
    /\ setup = SetupOf(prog, mutant.what) /\ inferred = IdlSpecsOf(setup)

LEMMA InferredInvHolds == Spec => []InferredInv
<1>1. Init => InferredInv
  BY DEF Init, InferredInv
<1>2. InferredInv /\ [Next]_vars => InferredInv'
  <2> SUFFICES ASSUME InferredInv, [Next]_vars PROVE InferredInv'
    OBVIOUS
  <2>1. /\ prog' = prog /\ mutant' = mutant /\ test' = test /\ idl' = idl
        /\ setup' = setup /\ inferred' = inferred
    BY DEF Next, vars, fixed, ActionSend, ActionAdvanceSlots, RunBody, Ended, NewIteration
  <2>2. SetupOf(prog, mutant.what)' = SetupOf(prog, mutant.what)
    BY <2>1
  <2>3. IdlSpecsOf(setup)' = IdlSpecsOf(setup)
    BY <2>1 DEF IdlSpecsOf
  <2> QED BY <2>1, <2>2, <2>3 DEF InferredInv
<1> QED BY <1>1, <1>2, PTL DEF Spec

LEMMA InferredAreAlike ==
    ASSUME InferredInv
    PROVE  \A n \in DOMAIN HandSpecs(prog) : Alike(HandSpecs(prog)[n], inferred[n])
<1>1. Fixture(setup)
  BY SetupIsFixture DEF InferredInv
<1>2. /\ \A x \in FromIdl \cap Handlers[prog] : IdlHas(idl, x)
      /\ UNION {UNION {idl[y][i].pda : i \in DOMAIN idl[y]} : y \in DOMAIN idl} = {VaultPattern}
  BY IdlAssumption DEF InferredInv, IdlHas
<1>3. ASSUME NEW n \in DOMAIN HandSpecs(prog) PROVE Alike(HandSpecs(prog)[n], inferred[n])
  <2> DEFINE s == HandSpecs(prog)[n]
  <2>1. inferred[n] = IF s.ix \in FromIdl
                      THEN WithChecksOf(s, IdlSpec(idl, setup, s.ix, Binding(s))) ELSE s
    BY DEF InferredInv, IdlSpecsOf
  <2>2. s.ix \in FromIdl => s.ix \in Handlers[prog] /\ Slots(s.ix, s, setup)
    <3>1. CASE prog = "escrow_clean"
      <4>1. n \in 1..4 /\ s = HandSpecs("escrow_clean")[n]
        BY <3>1, CleanHandlers
      <4>2. s \in {InitializeSpec, DepositSpec, WithdrawSpec, ClaimSpec}
        BY <4>1, CleanSpecsAre
      <4> HIDE DEF s
      <4>3. Slots(s.ix, s, setup)
        <5>1. CASE s = InitializeSpec
          BY <5>1, InitializeSlots, InitializeSays DEF Reads
        <5>2. CASE s = DepositSpec
          BY <5>2, DepositSlots, DepositSays DEF Reads
        <5>3. CASE s = WithdrawSpec
          BY <5>3, WithdrawSlots, WithdrawSays DEF Reads
        <5>4. CASE s = ClaimSpec
          BY <5>4, ClaimSlots, ClaimSays DEF Reads
        <5> QED BY <4>2, <5>1, <5>2, <5>3, <5>4
      <4>4. s.ix \in Handlers[prog]
        BY <3>1, <4>2, InitializeSays, DepositSays, WithdrawSays, ClaimSays DEF Reads, Handlers
      <4> QED BY <4>3, <4>4
    <3>2. CASE prog = "escrow"
      <4>1. EscrowSpec(n, s)
        BY <3>2, EscrowSpecsAre
      <4> HIDE DEF s
      <4>2. CASE s = UnsafeWithdrawSpec
        <5>1. s.ix = "unsafe_withdraw"
          BY <4>2, UnsafeWithdrawSays DEF Reads
        <5> QED BY <1>1, <3>2, <4>2, <5>1, UnsafeWithdrawSlots DEF Handlers
      <4>3. CASE s = SetAmountSpec
        <5>1. s.ix = "unsafe_set_amount_from_source"
          BY <4>3, SetAmountSays
        <5> QED BY <3>2, <4>3, <5>1, SetAmountSlots DEF Handlers
      <4>4. CASE s \in {AccumulateYieldSpec, ComputeDosSpec, SelfReentrySpec, ReallocGrowSpec,
                        WithdrawWithBumpSpec}
        <5>1. s.ix \in {"unsafe_accumulate_yield", "unsafe_compute_dos", "unsafe_self_reentry",
                        "unsafe_realloc_grow", "unsafe_withdraw_with_bump"}
          BY <4>4, AccumulateYieldSays, ComputeDosSays, SelfReentrySays, ReallocGrowSays,
             WithdrawWithBumpSays DEF Reads
        <5> QED BY <5>1 DEF FromIdl
      <4> QED BY <4>1, <4>2, <4>3, <4>4 DEF EscrowSpec
    <3> QED BY <3>1, <3>2 DEF InferredInv, Programs
  <2>3. CASE s.ix \in FromIdl
    <3> DEFINE t == WithChecksOf(s, IdlSpec(idl, setup, s.ix, Binding(s)))
    <3>1. IdlHas(idl, s.ix) /\ Slots(s.ix, s, setup) /\ inferred[n] = t
      BY <1>2, <2>1, <2>2, <2>3
    <3> HIDE DEF s
    <3>2. Alike(s, t)
      BY <1>1, <1>2, <3>1, InferredAlike
    <3> QED BY <3>1, <3>2 DEF s
  <2>4. CASE s.ix \notin FromIdl
    <3>1. inferred[n] = s
      BY <2>1, <2>4
    <3> HIDE DEF s
    <3>2. Alike(s, s)
      BY DEF Alike
    <3> QED BY <3>1, <3>2 DEF s
  <2> QED BY <2>3, <2>4
<1> QED BY <1>3

\* "Detections must not change": with the specs that the IDL and the accounts
\* after setup() give, the body reports and records what it does with the
\* specs written by hand, whichever of the IDL's seeds an Anchor wrote.
THEOREM DetectionsUnchangedAlways == Spec => []DetectionsUnchanged
<1>1. InferredInv => DetectionsUnchanged
  <2>1. ASSUME InferredInv PROVE DetectionsUnchanged
    <3>1. Body(mutant.what, inferred) = Body(mutant.what, HandSpecs(prog))
      BY <2>1, InferredAreAlike, AlikeBodies DEF InferredInv
    <3> QED BY <3>1 DEF DetectionsUnchanged
  <2> QED BY <2>1
<1> QED BY <1>1, InferredInvHolds, PTL


=============================================================================
