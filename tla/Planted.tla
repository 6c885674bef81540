------------------------------ MODULE Planted ------------------------------
(***************************************************************************)
(* The programs of examples/pinocchio-bench-fuzz/programs: rewrites of     *)
(* five benchmark programs with bugs planted in them.  Every plant quotes  *)
(* the line it replaced, so that each program is given here for any subset *)
(* of its plants: all of them is the program as committed, none of them    *)
(* the benchmark.  An instruction maps the accounts it finds to the        *)
(* accounts it leaves, and changes nothing when it is refused.             *)
(***************************************************************************)
EXTENDS Integers, Sequences, SequencesExt

CONSTANTS
    NTicks, TickDepth,        \* N_TICKS and TICK_DEPTH
    FeeBps,                   \* pool.fee_bps
    DepositAmount, BorrowAmount, PriceA, PriceB,   \* what the obligation is worth
    Zero                      \* the owner [0u8; 32]

\* A book of 32 ticks of 4 orders, a fee of 30 of 10000, and an obligation
\* that is not so deep in debt that its health rounds to nothing.
ASSUME PlantedAssumption ==
    /\ NTicks \in Nat /\ NTicks >= 2
    /\ TickDepth \in Nat /\ TickDepth >= 2
    /\ FeeBps \in 0..10000
    /\ DepositAmount \in Nat /\ BorrowAmount \in Nat /\ PriceA \in Nat /\ PriceB \in Nat
    /\ DepositAmount * PriceA > 0
    /\ BorrowAmount * PriceB <= DepositAmount * PriceA * 10000

Accepted(s) == [ok |-> TRUE, to |-> s]
Refused(s) == [ok |-> FALSE, to |-> s]

-----------------------------------------------------------------------------
(* W4: a book of ticks, by price; a tick holds orders, by arrival.         *)

\* The binary search for the first tick not below the price: the number of
\* ticks before it.
LowerBound(ticks, price) ==
    LET from[r \in (0..NTicks) \X (0..NTicks)] ==
            LET lo == r[1]
                hi == r[2]
                mid == (lo + hi) \div 2
            IN  IF lo >= hi THEN lo
                ELSE IF ticks[mid + 1].price < price THEN from[<<mid + 1, hi>>]
                ELSE from[<<lo, mid>>]
    IN  from[<<0, Len(ticks)>>]

\* The order joins the tick of its price, or opens one at `at'.
PlaceIn(ticks, price, owner, at, opened) ==
    LET lo == LowerBound(ticks, price) + 1 IN
    IF lo <= Len(ticks) /\ ticks[lo].price = price
    THEN IF ticks[lo].n_orders < TickDepth
         THEN Accepted([ticks EXCEPT ![lo] =
                  [price |-> price, n_orders |-> @.n_orders + 1, owners |-> Append(@.owners, owner)]])
         ELSE Refused(ticks)
    ELSE IF Len(ticks) < NTicks
         THEN Accepted(InsertAt(ticks, at,
                            [price |-> price, n_orders |-> opened, owners |-> <<owner>>]))
         ELSE Refused(ticks)

Placed(s, sequence, book) ==
    IF book.ok THEN Accepted([sequence |-> sequence, ticks |-> book.to]) ELSE Refused(s)

PlaceOrderAnchor(plants, s, price, signer, signed) ==
    LET sequence == IF "sequence" \in plants /\ s.sequence % 2 = 1 THEN 0 ELSE s.sequence + 1
        owner == IF "owner" \in plants THEN Zero ELSE signer
        at == IF "sort" \in plants THEN Len(s.ticks) + 1 ELSE LowerBound(s.ticks, price) + 1
        opened == IF "orders" \in plants THEN TickDepth + 1 ELSE 1
    IN  IF signed THEN Placed(s, sequence, PlaceIn(s.ticks, price, owner, at, opened))
        ELSE Refused(s)

PlaceOrderPinocchio(plants, s, price, signer, signed) ==
    LET at == IF "sort" \in plants THEN Len(s.ticks) + 1 ELSE LowerBound(s.ticks, price) + 1 IN
    IF signed \/ "signer" \in plants
    THEN Placed(s, s.sequence + 1, PlaceIn(s.ticks, price, signer, at, 1))
    ELSE Refused(s)

-----------------------------------------------------------------------------
(* W8: a constant-product pool.                                            *)

AfterFee(amount) == (amount * (10000 - FeeBps)) \div 10000

\* The first CPI takes amount_in from the user, the second pays amount_out
\* from the pool's vault; either may find too little there.
Swap(plants, s, amount) ==
    LET afterFee == AfterFee(amount)
        times == IF "out" \in plants THEN 2 ELSE 1
        out == (s.reserveOut * afterFee * times) \div (s.reserveIn + afterFee)
        drift == IF "in" \in plants THEN 1 ELSE 0
    IN  IF out > 0 /\ amount <= s.userSrc /\ out <= s.vaultOut
        THEN Accepted([reserveIn |-> s.reserveIn + amount + drift, reserveOut |-> s.reserveOut - out,
                       userSrc |-> s.userSrc - amount, userDst |-> s.userDst + out,
                       vaultIn |-> s.vaultIn + amount, vaultOut |-> s.vaultOut - out])
        ELSE Refused(s)

-----------------------------------------------------------------------------
(* W9: the refresh of a position from its reserves and oracles.            *)

Health ==
    LET debt == BorrowAmount * PriceB IN
    (DepositAmount * PriceA * 10000) \div (IF debt = 0 THEN 1 ELSE debt)

Refresh(plants, s, slot) ==
    Accepted([slotA |-> IF "slot" \in plants THEN s.slotA ELSE slot, slotB |-> slot,
              health |-> IF "health" \in plants THEN 0 ELSE Health])

-----------------------------------------------------------------------------
(* W10: deposits against shares of a vault.                                *)

Deposit(plants, s, amount) ==
    LET shares == IF s.totalShares = 0 THEN amount
                  ELSE (amount * s.totalShares) \div s.totalAssets
        drift == IF "assets" \in plants THEN 1 ELSE 0
    IN  IF /\ amount > 0
           /\ s.totalShares # 0 => s.totalAssets > 0 /\ shares > 0
           /\ amount <= s.user
        THEN Accepted([totalAssets |-> s.totalAssets + amount + drift,
                       totalShares |-> s.totalShares + shares,
                       position |-> IF "shares" \in plants THEN s.position ELSE s.position + shares,
                       user |-> s.user - amount, vault |-> s.vault + amount])
        ELSE Refused(s)

-----------------------------------------------------------------------------
(* W11: a price feed.                                                      *)

PublishAnchor(plants, s, slot, signed) ==
    IF signed /\ slot > s.lastSlot
    THEN Accepted([lastSlot |-> IF "slot" \in plants THEN s.lastSlot ELSE slot,
                   count |-> IF "count" \in plants /\ s.count % 2 = 1 THEN 0 ELSE s.count + 1])
    ELSE Refused(s)

\* A mutant of PublishPinocchio: the slot is noted, whatever was planted.
PublishNotingSlot(plants, s, slot, signed) ==
    IF (signed \/ "signer" \in plants) /\ slot > s.lastSlot
    THEN Accepted([lastSlot |-> slot, count |-> s.count + 1])
    ELSE Refused(s)

PublishPinocchio(plants, s, slot, signed) ==
    IF (signed \/ "signer" \in plants) /\ slot > s.lastSlot
    THEN Accepted([lastSlot |-> IF "slot" \in plants THEN s.lastSlot ELSE slot,
                   count |-> s.count + 1])
    ELSE Refused(s)
=============================================================================
