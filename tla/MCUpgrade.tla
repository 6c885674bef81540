----------------------------- MODULE MCUpgrade -----------------------------
EXTENDS Upgrade

(* Slots 1 vault, 2 authority, 3 token, 4 mint, 5 config, 6 dest, 7 entry, 8 operator, 10 a program. *)
Vault ==
    [Slot(1, "Account", 1) EXCEPT !.mutable = TRUE, !.has_one = {2}, !.seeds = {{Constant, 2}},
                                  !.constraints = {Gate(1, 1), Gate(2, 1)}]
Authority == Slot(2, "Signer", 0)
Token ==
    [Slot(3, "InterfaceAccount", 2) EXCEPT !.mutable = TRUE, !.token_mint = {Key(4)}, !.token_owner = {Key(1)}]
Mint == [Slot(4, "Account", 3) EXCEPT !.address = {Field(1, 4)}]
Config == [Slot(5, "AccountLoader", 4) EXCEPT !.has_one = {2}, !.close = {2}]
Dest == [Slot(6, "UncheckedAccount", 0) EXCEPT !.mutable = TRUE, !.owner = TRUE]
Entry ==
    [Slot(7, "Account", 5) EXCEPT !.init = TRUE, !.mutable = TRUE, !.ata = {2},
                                  !.constraints = {Equality(Field(7, 6), Key(2))}]
\* Two clauses, dest.key() == ID && ledger.5 == argument.1: the first says nothing of the ledger.
KnownDest ==
    [Equality(Key(6), Key(Constant)) EXCEPT !.eqs = @ \cup {{Field(7, 5), Field(99, 1)}}]
Ledger ==
    [Slot(17, "Account", 5) EXCEPT !.mutable = TRUE, !.seeds = {{Constant, 6}}, !.constraints = {KnownDest}]
Operator == Slot(8, "UncheckedAccount", 0)
System == Slot(10, "Program", 9)

Amount == Check("other", <<Ref(<<99>>, 0)>>, 1)
OwnMint == Check("key", <<Ref(<<3>>, 4), Ref(<<4>>, 0)>>, 0)
OperatorSigns == Check("signer", <<Ref(<<8>>, 0)>>, 0)
DestType == Check("type", <<Ref(<<6>>, 0)>>, 6)

Withdraw ==
    [id |-> 1, slots |-> (<<1>> :> Vault) @@ (<<2>> :> Authority) @@ (<<3>> :> Token) @@ (<<4>> :> Mint)
               @@ (<<10>> :> System),
     checks |-> SetToBag({OwnMint, Amount}), args |-> <<>>, fields |-> <<>>]
\* A composite: its slots are siblings of each other only.
Settle2 ==
    [id |-> 2, slots |-> (<<9, 5>> :> Config) @@ (<<9, 2>> :> Authority) @@ (<<6>> :> Dest) @@ (<<8>> :> Operator),
     checks |-> SetToBag({OperatorSigns, DestType}), args |-> <<>>, fields |-> <<>>]
Create ==
    [id |-> 3, slots |-> (<<7>> :> Entry) @@ (<<2>> :> Authority) @@ (<<10>> :> System), checks |-> EmptyBag, args |-> <<>>, fields |-> <<>>]
Open ==
    [id |-> 4, slots |-> (<<7>> :> Ledger) @@ (<<6>> :> [Dest EXCEPT !.id = 16]) @@ (<<2>> :> [Authority EXCEPT !.optional = TRUE]),
     checks |-> EmptyBag, args |-> <<>>, fields |-> <<>>]
Sweep == [id |-> 5, slots |-> (<<6>> :> [Dest EXCEPT !.id = 26]), checks |-> EmptyBag, args |-> <<>>, fields |-> <<>>]

PairBases == {(11 :> Withdraw), (11 :> Settle2) @@ (12 :> Create), (11 :> Create) @@ (12 :> Open)}

\* One instruction each, for a third edit.
Hold ==
    [id |-> 7, slots |-> (<<3>> :> [Token EXCEPT !.token_mint = {}, !.token_owner = {}])
               @@ (<<4>> :> [Mint EXCEPT !.address = {Field(3, 5)}]) @@ (<<10>> :> System),
     checks |-> SetToBag({OwnMint}), args |-> <<>>, fields |-> <<>>]
Pay ==
    [id |-> 8, slots |-> (<<6>> :> Dest) @@ (<<8>> :> Operator) @@ (<<2>> :> Authority) @@ (<<10>> :> System),
     checks |-> SetToBag({OperatorSigns}), args |-> <<>>, fields |-> <<>>]

HoldBase == {(11 :> Hold)}
PayBase == {(11 :> Pay)}
SingleBases == HoldBase \cup PayBase
MCBases == PairBases \cup SingleBases
MCMaxEdits == [v \in MCBases |-> IF v \in SingleBases THEN 3 ELSE 2]
MCAdditions == [v \in MCBases |-> IF v \in SingleBases THEN {} ELSE {<<13, [Open EXCEPT !.id = 6]>>, <<14, Sweep>>}]
MCFresh == {50}
MCCommon == {2}

\* What NoGuessFailsABuildAlways asks of the instance.
ASSUME AdditionsAreNew == AddedAreNew
ASSUME BasesAreResolved == BasesShowResolution
=============================================================================
