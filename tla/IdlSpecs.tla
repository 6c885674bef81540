------------------------------- MODULE IdlSpecs -------------------------------
(***************************************************************************)
(* What a harness declares of an instruction (InstructionSpec), and how    *)
(* solinv-fuzz/src/idl.rs makes it from the program's IDL and from the     *)
(* accounts setup() left: a slot with seeds is taken for what is there, a  *)
(* slot the IDL says nothing of gets hypotheses.  Accounts of an IDL are   *)
(* named by their paths; its discriminators are all of eight bytes.        *)
(***************************************************************************)
EXTENDS Escrow, FiniteSets

\* WELL_KNOWN, as far as an escrow uses it.
WellKnown == [system_program |-> "system_program"]

-----------------------------------------------------------------------------
(* SpecBuilder.  `ix' is an instruction of the IDL: the sequence of its    *)
(* accounts; `bind' what the harness bound: addresses and keypairs by      *)
(* name, bytes for `arg' seeds, the arguments.                             *)

\* An optional account that is not bound is left out: the program's own id is
\* passed for it, and it neither signs nor is written.
Omitted(ix, bind) == {i \in DOMAIN ix : ix[i].optional /\ ix[i].name \notin DOMAIN bind.accounts}

AddressOf(ix, bind, i) ==
    LET a == ix[i] IN
    CASE a.name \in DOMAIN bind.accounts -> bind.accounts[a.name]
      [] a.address # ""                  -> a.address
      [] i \in Omitted(ix, bind)         -> "escrow_program"
      [] a.name \in DOMAIN WellKnown     -> WellKnown[a.name]
      [] OTHER                           -> ""

Signing(ix, bind) == {i \in DOMAIN ix : ix[i].signer} \ Omitted(ix, bind)

\* build() refuses a slot without an address and a signer without a keypair.
Buildable(ix, bind) ==
    /\ \A i \in DOMAIN ix : AddressOf(ix, bind, i) # ""
    /\ \A i \in Signing(ix, bind) : ix[i].name \in bind.keypairs

\* The bytes of a seed, none when it cannot be had: an `account' seed reads
\* the address of a slot of this instruction, never an account's data.
SeedBytes(ix, keys, bind, seed) ==
    CASE seed.kind = "const"   -> {seed.value}
      [] seed.kind = "account" -> {keys[i] : i \in {j \in DOMAIN ix : ix[j].name = seed.value}}
      [] seed.kind = "arg"     -> {bind.seedArgs[a] : a \in DOMAIN bind.seedArgs \cap {seed.value}}

\* The seeds of a pattern, none when one of them cannot be had.
ResolveSeeds(ix, keys, bind, pattern) ==
    {s \in [DOMAIN pattern -> UNION {SeedBytes(ix, keys, bind, pattern[n]) : n \in DOMAIN pattern}] :
        \A n \in DOMAIN pattern : s[n] \in SeedBytes(ix, keys, bind, pattern[n])}

\* find_program_address(seeds), under the program of the spec.
Derive(seeds) ==
    IF Len(seeds) = 2 /\ seeds[1] = "vault" /\ seeds[2] \in DOMAIN Pda THEN Pda[seeds[2]] ELSE ""

\* Slots are numbered from one; `owners' and `discs' are the slots that
\* expect a vault of the program, `pda' the slots that expect seeds.
Build(idl, name, bind) ==
    LET ix   == idl[name]
        keys == [i \in DOMAIN ix |-> AddressOf(ix, bind, i)]
        seeds(i) == UNION {ResolveSeeds(ix, keys, bind, p) : p \in ix[i].pda}
    IN  [ix |-> name, keys |-> keys,
         writable |-> {i \in DOMAIN ix : ix[i].writable} \ Omitted(ix, bind),
         flagged |-> Signing(ix, bind), signerIndices |-> Signing(ix, bind),
         owners |-> {}, discs |-> {},
         pda |-> [i \in {j \in DOMAIN ix \ Omitted(ix, bind) : seeds(j) # {}} |->
                    CHOOSE s \in seeds(i) : TRUE],
         creates |-> {}, arg |-> bind.args]

-----------------------------------------------------------------------------
(* IdlSpec: the state passes.  `get' is the accounts.                      *)

Held(get, k) ==
    CASE get[k] = Blank -> "absent"
      [] get[k].owner = "program" /\ get[k].disc = "Vault" -> "typed"
      [] OTHER -> "other"

InferFromState(idl, bind, get, s) ==
    LET seeded == {i \in DOMAIN s.keys : idl[s.ix][i].pda # {}} \ Omitted(idl[s.ix], bind)
        typed  == {i \in seeded : Held(get, s.keys[i]) = "typed"}
    IN  [s EXCEPT !.creates = @ \cup {i \in seeded : Held(get, s.keys[i]) = "absent"},
                  !.owners = @ \cup typed, !.discs = @ \cup typed]

\* The seed patterns of the whole IDL that derive slot i's own address.
RederivePda(idl, bind, s, i) ==
    LET patterns == UNION {UNION {idl[x][j].pda : j \in DOMAIN idl[x]} : x \in DOMAIN idl}
    IN  {seeds \in UNION {ResolveSeeds(idl[s.ix], s.keys, bind, p) : p \in patterns} :
            Derive(seeds) = s.keys[i]}

Stores(a, k) == k \in {a.depositor, a.beneficiary}

InferSlots(idl, bind, get, s) ==
    LET open == {i \in DOMAIN s.keys \ (Omitted(idl[s.ix], bind) \cup s.flagged \cup s.owners) :
                    idl[s.ix][i].pda = {} /\ get[s.keys[i]] # Blank}
        typed == {i \in open : Held(get, s.keys[i]) = "typed"}
        derived == {i \in open : RederivePda(idl, bind, s, i) # {}}
    IN  [s EXCEPT !.owners = @ \cup typed, !.discs = @ \cup typed,
                  !.pda = [i \in derived \cup DOMAIN @ |->
                             IF i \in derived THEN CHOOSE x \in RederivePda(idl, bind, s, i) : TRUE
                             ELSE @[i]]]

\* Mutant: whoever the written account names should have signed, whatever the
\* IDL says of others.
InferMoreSigners(idl, bind, get, s) ==
    LET written == {i \in s.writable : Held(get, s.keys[i]) = "typed"}
        named == {i \in DOMAIN s.keys \ Omitted(idl[s.ix], bind) :
                     \E w \in written : Stores(get[s.keys[w]], s.keys[i])}
    IN  [s EXCEPT !.flagged = @ \cup named, !.signerIndices = @ \cup named]

\* No signer, and a written vault names the key of a slot whose keypair is
\* bound: the slot should have been one.
InferSigners(idl, bind, get, s) ==
    LET written == {i \in s.writable : Held(get, s.keys[i]) = "typed"}
        named == {i \in DOMAIN s.keys \ Omitted(idl[s.ix], bind) :
                     /\ \E w \in written : Stores(get[s.keys[w]], s.keys[i])
                     /\ idl[s.ix][i].name \in bind.keypairs}
    IN  IF s.signerIndices # {} THEN s
        ELSE [s EXCEPT !.flagged = @ \cup named, !.signerIndices = @ \cup named]

\* build().unwrap().infer_from_state(..).infer_candidates(..)
IdlSpec(idl, get, name, bind) ==
    InferSigners(idl, bind, get,
        InferSlots(idl, bind, get,
            InferFromState(idl, bind, get, Build(idl, name, bind))))

=============================================================================
