------------------------------- MODULE Source -------------------------------
(***************************************************************************)
(* A version of an Anchor program as solinv-static reads it: source.rs.    *)
(* A version is a function from instruction names to instructions, an      *)
(* instruction the account slots of its Context by path and the bag of     *)
(* checks its handler writes.  Names are numbers, in the order the code    *)
(* compares strings, and 0 is a constant ("::").  A path is a sequence of  *)
(* names, longer than one inside a composite.                              *)
(*                                                                         *)
(* The id of a slot and of an instruction, and the fields of an            *)
(* instruction, are not in the source: they say which account a slot is    *)
(* whatever it is called, and what a data field was called first.  Only    *)
(* what the runtime checks, HeldAt, reads them.                            *)
(***************************************************************************)
EXTENDS Naturals, FiniteSets, Sequences, SequencesExt, Bags

Constant == 0

\* The fields of a token account that token::mint and token::authority fix.
MintField == 101
OwnerField == 102

Leaf(path) == Last(path)

\* A name in an attribute of the slot at path is one of its siblings.
Sibling(path, name) == Append(Front(path), name)

\* An expression: x.key() is the field 0 of x.  A constant is the name 0.
Key(name) == [name |-> name, field |-> 0]
Field(name, field) == [name |-> name, field |-> field]

AccountTypes == {"Account", "AccountLoader", "InterfaceAccount"}
UncheckedTypes == {"UncheckedAccount", "AccountInfo"}

Kind(s) == IF s.ty \in UncheckedTypes THEN "Unchecked" ELSE "Typed"

\* A slot that declares nothing: what each instance starts from.
Slot(id, ty, of) ==
    [id |-> id, ty |-> ty, of |-> of, optional |-> FALSE, deprecated |-> FALSE,
     mutable |-> FALSE, signer |-> FALSE, init |-> FALSE, init_if_needed |-> FALSE,
     seeds |-> {}, address |-> {}, owner |-> FALSE, has_one |-> {},
     token_mint |-> {}, token_owner |-> {}, ata |-> {}, constraints |-> {}, close |-> {}]

\* An attribute that may be absent is a set of at most one value.
Seeds(s) == s.seeds # {}
SeedNames(s) == UNION s.seeds
AddressNames(s) == {e.name : e \in s.address}

(***************************************************************************)
(* A constraint is key and field equalities joined by && (eqs), or a       *)
(* question about the accounts in names: yesno when it compares nothing.   *)
(***************************************************************************)
Equality(l, r) == [eqs |-> {{l, r}}, ask |-> 0, no |-> FALSE, yesno |-> FALSE, names |-> {}]
Gate(ask, name) == [eqs |-> {}, ask |-> ask, no |-> FALSE, yesno |-> TRUE, names |-> {name}]

NamesIn(c) == c.names \cup {e.name : e \in UNION c.eqs}
Keyed(c) == \E e \in UNION c.eqs : e.field = 0

(***************************************************************************)
(* A check at the top level of a handler body, with the slots it names in  *)
(* the order it names them.  A name of a local or an argument is a path of *)
(* no slot.                                                                *)
(***************************************************************************)
Check(kind, on, of) == [kind |-> kind, on |-> on, of |-> of]
Ref(path, field) == [path |-> path, field |-> field]

Words(chk) ==
    (UNION {Range(r.path) \cup {r.field} : r \in Range(chk.on)}) \ {Constant}

\* attach_body_check: the first slot it names, or none.
AttachedTo(slots, chk) ==
    LET named == SelectSeq(chk.on, LAMBDA r : r.path \in DOMAIN slots)
    IN  IF named = <<>> THEN <<>> ELSE Head(named).path

Copies(chk, checks) == IF BagIn(chk, checks) THEN checks[chk] ELSE 0

\* The copies of a check on a slot, or on the instruction for <<>>.
CopiesAt(ix, path, chk) ==
    IF AttachedTo(ix.slots, chk) = path THEN Copies(chk, ix.checks) ELSE 0

ChecksAt(ix, path) == {c \in BagToSet(ix.checks) : AttachedTo(ix.slots, c) = path}

\* signs: an init at a fresh keypair's address signs too.
Signs(s) ==
    /\ \/ s.ty = "Signer"
       \/ s.signer
       \/ (s.init \/ s.init_if_needed) /\ ~Seeds(s) /\ s.ata = {}
    /\ ~s.optional

(***************************************************************************)
(* unbound: a typed account a caller may pass any of, as far as the        *)
(* declarations and the key checks of the handler go.                      *)
(***************************************************************************)
TiedWith(ix, path, full, constant) ==
    path \in full /\ (constant \/ (full \ {path}) \cap DOMAIN ix.slots # {})

\* Mutant: an argument fixes the account as a slot does.
FixesByAny(ix, path, n) == TRUE
\* Another slot or a constant, not an argument, which the caller picks.
Fixes(ix, path, n) == n = Constant \/ Sibling(path, n) \in DOMAIN ix.slots \ {path}

FixesItself(ix, path) ==
    LET s == ix.slots[path]
        names == SeedNames(s)
    IN  \/ Seeds(s) /\ (names \subseteq {Constant} \/ \E n \in names : Fixes(ix, path, n))
        \/ \E n \in (s.has_one \ {Constant}) \cup AddressNames(s) \cup s.ata : Fixes(ix, path, n)

\* One equality of a constraint on q that compares a key; the others say nothing of path.
TiedByClause(ix, path, q, eq) ==
    /\ \E e \in eq : e.field = 0
    /\ TiedWith(ix, path, {Sibling(q, e.name) : e \in {x \in eq : x.name # Constant}},
                \E e \in eq : e.name = Constant)

\* The names in the values that fix an account: seeds, address, token::authority, an ata's.
Refs(s) == (SeedNames(s) \cup AddressNames(s) \cup {e.name : e \in s.token_owner} \cup s.ata) \ {Constant}

TiedByOther(ix, path) ==
    \E q \in DOMAIN ix.slots :
        LET s == ix.slots[q]
        IN  \/ q # path /\ \E n \in s.has_one \cup Refs(s) : Sibling(q, n) = path
            \/ \E c \in s.constraints : \E eq \in c.eqs : TiedByClause(ix, path, q, eq)

TiedInHandler(ix, path) ==
    \E c \in BagToSet(ix.checks) :
        c.kind = "key" /\ TiedWith(ix, path, {r.path : r \in Range(c.on)}, FALSE)

Unbound(ix, path) ==
    /\ ix.slots[path].ty \in AccountTypes
    /\ ~ix.slots[path].init
    /\ ~TiedInHandler(ix, path) /\ ~FixesItself(ix, path) /\ ~TiedByOther(ix, path)

-----------------------------------------------------------------------------
(* What the runtime enforces of an instruction, about accounts (ids) and    *)
(* not about names.  A name that is no slot is an argument of the caller's. *)

FieldId(ix, field) == IF field \in DOMAIN ix.fields THEN ix.fields[field] ELSE field

SideOf(ix, path, e) ==
    IF path \in DOMAIN ix.slots THEN <<TRUE, ix.slots[path].id, FieldId(ix, e.field)>>
    ELSE <<FALSE, Last(path), e.field>>

\* A fact is what is enforced, about which accounts, and in which terms.
EqFact(sides) == <<"eq", {x[2] : x \in {y \in sides : y[1]}}, sides>>

Term(n) == {<<TRUE, n, 0>>}

\* The same equality, written any of the ways Anchor has for it.
DeclaredEqs(s, leaf) ==
    {{Field(leaf, t), Key(t)} : t \in s.has_one}
        \cup {{Key(leaf), e} : e \in s.address}
        \cup {{Field(leaf, MintField), e} : e \in s.token_mint}
        \cup {{Field(leaf, OwnerField), e} : e \in s.token_owner}
        \cup UNION {c.eqs : c \in s.constraints}

Declares(ix, path) ==
    LET s == ix.slots[path]
        so(on, what, detail) == IF on THEN {<<what, {s.id}, detail>>} ELSE {}
        side(e) == SideOf(ix, Sibling(path, e.name), e)
        fixes(what, names) ==
            LET sides == {x \in {side(Key(n)) : n \in names} : x[1] \/ x[2] = Constant}
            IN  <<what, {s.id} \cup {x[2] : x \in {y \in sides : y[1]}}, sides>>
    IN  so(Signs(s), "signs", {})
            \cup so(Kind(s) = "Typed" /\ s.ty # "Signer", "type", Term(s.of))
            \cup so(s.owner, "owner", {})
            \cup so(s.init, "created", {})
            \cup {fixes("pda", names) : names \in s.seeds}
            \cup {fixes("ata", {n}) : n \in s.ata}
            \cup {fixes("close", {n}) : n \in s.close}
            \cup {EqFact({side(e) : e \in eq}) : eq \in DeclaredEqs(s, Leaf(path))}
            \cup {<<"gate", {side(Key(n))[2] : n \in c.names}, {<<c.no, c.ask, 0>>}>> :
                    c \in {d \in s.constraints : d.eqs = {}}}

HandlerFact(ix, chk) ==
    LET sides == {SideOf(ix, r.path, r) : r \in Range(chk.on)}
        eq == EqFact(sides)
    IN  CASE chk.kind = "key"    -> eq
          [] chk.kind = "signer" -> <<"signs", eq[2], {}>>
          [] OTHER               -> <<chk.kind, eq[2], Term(chk.of)>>

\* Each fact, with the paths that hold it; an account left out holds nothing.
HeldAt(ix) ==
    (UNION {{<<f, p>> : f \in Declares(ix, p)} :
                p \in {q \in DOMAIN ix.slots : ~ix.slots[q].optional}})
        \cup {<<HandlerFact(ix, c), AttachedTo(ix.slots, c)>> : c \in BagToSet(ix.checks)}

Enforced(ix) == {h[1] : h \in HeldAt(ix)}

Ids(ix) == {ix.slots[p].id : p \in DOMAIN ix.slots}
=============================================================================
