------------------------------- MODULE Victim -------------------------------
(***************************************************************************)
(* What a detector sends to: the instructions a fixture declares           *)
(* (solinv-fuzz InstructionSpec), and the program and runtime that process *)
(* them.  The program is not part of the repository.  It is an environment *)
(* that enforces an arbitrary set of checks (`enforced') and that, when    *)
(* all of them pass, may still reject, or may write, close and create      *)
(* whatever the runtime lets an instruction write, close and create.       *)
(***************************************************************************)
EXTENDS Ledger, Naturals

CONSTANTS
    Ixs,        \* names of the declared instructions
    Instr,      \* Instr[x] is the InstructionSpec of x
    FeePayer,   \* the key that signs and pays for every transaction
    AltPda,     \* AltPda[x][i]: the PDA of slot i under a lower bump, or
                \* Missing when no lower bump derives one
    Genuine,    \* Genuine[k]: what a program stores at k when it creates k
    SigVerify   \* does the context verify signatures?

\* The kinds of check a program can make, each named for the detector that
\* asks whether the program makes it.
CheckKinds ==
    {"signer-skip", "owner-skip", "discriminator-skip", "pda-forge",
     "bump-seed-canonicalization", "account-swap", "precondition-skip",
     "unchecked-math", "cu-dos", "realloc-race", "cpi-reentrancy"}

Meta == [key : Keys, signer : BOOLEAN, writable : BOOLEAN]

\* An image is what one reading of an invariant's accounts gives.  `holds' are
\* the images a bound or a relation is true of, `steps' the pairs, before and
\* after, that a monotonic or conserved quantity may go through.
StateInvariantKinds == {"Bounded", "Relation", "Monotonic", "SumConservation"}

IsStateInvariant(inv) ==
    /\ inv.kind \in StateInvariantKinds
    /\ inv.accounts \subseteq Nat
    /\ inv.holds \subseteq [inv.accounts -> Vals]
    /\ inv.steps \subseteq [inv.accounts -> Vals] \X [inv.accounts -> Vals]

\* Partial functions model the Vec<Option<_>> fields: a slot is in the domain
\* when its entry is Some.  `guards' gives, for a slot, the values of that
\* account for which the declared precondition holds; `invariants' the declared
\* state invariants by their place in the list.
IsInstructionSpec(s) ==
    /\ DOMAIN s.accounts \subseteq Nat
    /\ s.accounts \in [DOMAIN s.accounts -> Meta]
    /\ s.signerIndices \subseteq Nat
    /\ s.optionalSignerIndices \subseteq Nat
    /\ s.expectedOwners \in [DOMAIN s.expectedOwners -> Owners]
    /\ s.expectedDiscriminators \in [DOMAIN s.expectedDiscriminators -> Discs]
    /\ s.expectedPda \in [DOMAIN s.expectedPda -> Keys]
    /\ s.createsIndices \subseteq Nat
    /\ s.swapAlternates \in [DOMAIN s.swapAlternates -> SUBSET Keys]
    /\ s.signers \subseteq Keys
    /\ s.guards \in [DOMAIN s.guards -> SUBSET Vals]
    /\ DOMAIN s.invariants \subseteq Nat
    /\ \A n \in DOMAIN s.invariants : IsStateInvariant(s.invariants[n])
    /\ s.optIns \subseteq CheckKinds

Slots(x) == DOMAIN Instr[x].accounts
KeyAt(x, i) == Instr[x].accounts[i].key
CanonicalKeys(x) == {KeyAt(x, i) : i \in Slots(x)}

ASSUME VictimAssumption ==
    /\ \A x \in Ixs : IsInstructionSpec(Instr[x])
    /\ FeePayer \in Keys
    /\ \A x \in Ixs : AltPda[x] \in [Slots(x) -> Keys \cup {Missing}]
    /\ Genuine \in [Keys -> Account]
    /\ SigVerify \in BOOLEAN

Check == [kind : CheckKinds, slot : Nat]

\* The checks a program can make in x: at a slot, of one of its state
\* invariants (by number), or on the whole (0).
Checkable(x) ==
    LET At(kind, S) == {[kind |-> kind, slot |-> i] : i \in S \cap Slots(x)}
        s == Instr[x]
    IN  At("signer-skip", s.signerIndices)
        \cup At("owner-skip", DOMAIN s.expectedOwners)
        \cup At("discriminator-skip", DOMAIN s.expectedDiscriminators)
        \cup At("pda-forge", DOMAIN s.expectedPda)
        \cup At("bump-seed-canonicalization", DOMAIN s.expectedPda)
        \cup At("account-swap", DOMAIN s.swapAlternates)
        \cup At("precondition-skip", DOMAIN s.guards)
        \cup {[kind |-> "unchecked-math", slot |-> n] : n \in DOMAIN s.invariants}
        \cup {[kind |-> d, slot |-> 0] : d \in s.optIns \cap
                 {"cu-dos", "realloc-race", "cpi-reentrancy"}}

VARIABLE enforced   \* enforced[x]: the checks the program makes in x

-----------------------------------------------------------------------------
\* A key signs the message when any of its metas signs, or when it pays the
\* fee: the runtime merges the metas of one key.
SigningKeys(metas) ==
    {FeePayer} \cup {metas[i].key : i \in {j \in DOMAIN metas : metas[j].signer}}

\* With signature verification on, signing fails unless the keypairs are
\* exactly those of the signing keys; with it off, signatures are placeholders.
Signable(metas, keypairs) ==
    SigVerify => SigningKeys(metas) = keypairs \cup {FeePayer}

\* What the program looks at when it makes check c in instruction x.
Passes(l, x, metas, c) ==
    LET k == metas[c.slot].key IN
    CASE c.kind = "signer-skip" -> k \in SigningKeys(metas)
      [] c.kind = "owner-skip" ->
            Present(l, k) /\ l[k].owner = Instr[x].expectedOwners[c.slot]
      [] c.kind = "discriminator-skip" ->
            Present(l, k) /\ l[k].disc = Instr[x].expectedDiscriminators[c.slot]
      [] c.kind = "pda-forge" ->
            k \in {Instr[x].expectedPda[c.slot], AltPda[x][c.slot]}
      [] c.kind = "bump-seed-canonicalization" -> k # AltPda[x][c.slot]
      [] c.kind = "account-swap" ->
            Present(l, k) /\ l[k].ctx = Genuine[KeyAt(x, c.slot)].ctx
      [] c.kind = "precondition-skip" ->
            Present(l, k) /\ l[k].val \in Instr[x].guards[c.slot]
      [] OTHER -> TRUE

Accepts(l, x, metas) == \A c \in enforced[x] : Passes(l, x, metas, c)

\* The keys an accepted instruction can change: the payer of the fee, the
\* writable accounts it is passed, and those it creates.
Mutable(l, x, metas) ==
    {FeePayer} \cup
    {metas[i].key : i \in {j \in DOMAIN metas :
        /\ metas[j].writable
        /\ Present(l, metas[j].key) \/ j \in Instr[x].createsIndices}}

\* The state of key k once the instruction leaves it with u: a new value, or
\* Missing when it closed the account.
Written(l, k, u) ==
    IF u = Missing THEN Missing
    ELSE IF Present(l, k) THEN [l[k] EXCEPT !.val = u]
    ELSE [Genuine[k] EXCEPT !.val = u]

Apply(l, updates) ==
    [k \in Keys |-> IF k \in DOMAIN updates
                    THEN Written(l, k, updates[k]) ELSE l[k]]

\* The accounts of an invariant can all be read, and what they read as.
Readable(l, metas, inv) ==
    \A i \in inv.accounts : i \in DOMAIN metas /\ Present(l, metas[i].key)

Image(l, metas, inv) == [i \in inv.accounts |-> l[metas[i].key].val]

\* A program whose arithmetic is right leaves a bound and a relation true that
\* were true, and takes a monotonic or conserved quantity where it may go.
Keeps(inv, pre, post) ==
    IF inv.kind \in {"Bounded", "Relation"}
    THEN pre \in inv.holds => post \in inv.holds
    ELSE <<pre, post>> \in inv.steps

Respects(x, metas, l, l2) ==
    \A c \in enforced[x] : c.kind = "unchecked-math" =>
        LET inv == Instr[x].invariants[c.slot] IN
        Readable(l, metas, inv) /\ Readable(l2, metas, inv) =>
            Keeps(inv, Image(l, metas, inv), Image(l2, metas, inv))

Effects(l, x, metas) ==
    LET U == {u \in [Mutable(l, x, metas) -> Vals \cup {Missing}] :
                u[FeePayer] # Missing}
    IN  {l2 \in {Apply(l, u) : u \in U} : Respects(x, metas, l, l2)}

\* A rejected transaction rolls back, but the fee is charged if it was
\* processed at all.
Rollbacks(l) == {l} \cup {Apply(l, [k \in {FeePayer} |-> v]) : v \in Vals}

\* Everything raw_call(ix).fee_payer(..).signers(..).send() may come back with.
Sends(l, x, metas, keypairs) ==
    {[ok |-> FALSE, ledger |-> l2] : l2 \in Rollbacks(l)} \cup
    (IF Signable(metas, keypairs) /\ Accepts(l, x, metas)
     THEN {[ok |-> TRUE, ledger |-> l2] : l2 \in Effects(l, x, metas)}
     ELSE {})

=============================================================================
