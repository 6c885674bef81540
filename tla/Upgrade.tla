------------------------------ MODULE Upgrade ------------------------------
(***************************************************************************)
(* The versions a program goes through between the build a reviewer saw    *)
(* (base) and the one solinv diff is asked about (head), one edit of the   *)
(* source at a time.  The edits are the developer's: those diff.rs and     *)
(* docs/diff.md name, and the ones beside them.                            *)
(***************************************************************************)
EXTENDS IdlDiff

CONSTANTS
    Bases,      \* the versions a reviewer may have seen
    Additions,  \* Additions[v]: instructions that may be added to v, a set of <<name, instruction>>
    Fresh,      \* names no version uses
    Common,     \* the names every instruction has: authority, payer
    MaxEdits    \* MaxEdits[v]: how many edits away from v a version is looked at

\* A path names a slot: no slot is a constant.
SlotPaths == {p \in Seq(Nat) : p # <<>> /\ Leaf(p) # Constant}

\* An instruction Anchor can build: one account per slot, and seeds that name something.
Built(ix) ==
    /\ {"slots", "checks"} \subseteq DOMAIN ix
    /\ IsFiniteSet(DOMAIN ix.slots) /\ DOMAIN ix.slots \subseteq SlotPaths
    /\ \A p \in DOMAIN ix.slots :
          /\ {"id", "seeds"} \subseteq DOMAIN ix.slots[p]
          /\ {} \notin ix.slots[p].seeds
    /\ \A p, q \in DOMAIN ix.slots : ix.slots[p].id = ix.slots[q].id => p = q

Version(v) ==
    /\ IsFiniteSet(DOMAIN v) /\ DOMAIN v \subseteq Nat
    /\ \A i \in DOMAIN v : Built(v[i])

ASSUME UpgradeAssumption ==
    /\ \A v \in Bases : Version(v) /\ MaxEdits[v] \in Nat
    /\ \A v \in Bases : \A a \in Additions[v] : a[1] \in Nat /\ Built(a[2])
    /\ Fresh \subseteq Nat \ {Constant}
    /\ \A v \in Bases : \A i \in DOMAIN v :
          i \notin Fresh /\ \A p \in DOMAIN v[i].slots : Leaf(p) \notin Fresh

\* No instruction is added under the name of one that is gone.
AddedAreNew == \A v \in Bases : \A a \in Additions[v] : a[1] \notin DOMAIN v

VARIABLES base, head, edits,
          reworded,   \* ids of the instructions with an edit that keeps a check in words the diff may not read
          unlisted,   \* ids of the instructions with an edit docs/diff.md has no row for
          built       \* how the IDLs were: the base in the legacy format, the head with account resolution

vars == <<base, head, edits, reworded, unlisted, built>>

Init ==
    /\ base \in Bases /\ head = base
    /\ edits = 0 /\ reworded = {} /\ unlisted = {}
    /\ built \in [legacy : BOOLEAN, resolved : {TRUE}]

-----------------------------------------------------------------------------
Becomes(version) ==
    /\ edits < MaxEdits[base] /\ version # head
    /\ edits' = edits + 1
    /\ head' = version
    /\ UNCHANGED base

Put(i, ix) == Becomes([head EXCEPT ![i] = ix]) /\ UNCHANGED <<reworded, unlisted, built>>
Reword(i, ix) == Becomes([head EXCEPT ![i] = ix]) /\ reworded' = reworded \cup {ix.id} /\ UNCHANGED <<unlisted, built>>
Weaken(i, ix) == Becomes([head EXCEPT ![i] = ix]) /\ unlisted' = unlisted \cup {ix.id} /\ UNCHANGED <<reworded, built>>

\* Instruction i with its slot at p declared as s.
With(i, p, s) == [head[i] EXCEPT !.slots[p] = s]

\* A name that is no slot: an argument.
Argument == <<99>>

Unchecked(s) == [s EXCEPT !.ty = "UncheckedAccount"]

LoosenType(i, p) ==
    /\ Kind(head[i].slots[p]) = "Typed"
    /\ Put(i, With(i, p, Unchecked(head[i].slots[p])))

MakeOptional(i, p) == Put(i, With(i, p, [head[i].slots[p] EXCEPT !.optional = TRUE]))

\* One attribute deleted, or one value of it.
DropAttr(i, p) ==
    LET s == head[i].slots[p]
    IN  \/ Put(i, With(i, p, [s EXCEPT !.signer = FALSE]))
        \/ Put(i, With(i, p, [s EXCEPT !.seeds = {}]))
        \/ Put(i, With(i, p, [s EXCEPT !.address = {}]))
        \/ Put(i, With(i, p, [s EXCEPT !.owner = FALSE]))
        \/ Put(i, With(i, p, [s EXCEPT !.token_mint = {}]))
        \/ Put(i, With(i, p, [s EXCEPT !.token_owner = {}]))
        \/ Put(i, With(i, p, [s EXCEPT !.close = {}]))
        \/ \E t \in s.has_one : Put(i, With(i, p, [s EXCEPT !.has_one = @ \ {t}]))
        \/ \E c \in s.constraints : Put(i, With(i, p, [s EXCEPT !.constraints = @ \ {c}]))

\* Edits that lose something docs/diff.md lists no row for.
DropUnlisted(i, p) ==
    LET s == head[i].slots[p]
    IN  \/ s.init /\ Weaken(i, With(i, p, [s EXCEPT !.init = FALSE, !.init_if_needed = TRUE]))
        \/ Weaken(i, With(i, p, [s EXCEPT !.ata = {}]))
        \/ \E names \in s.seeds : \E n \in {m \in names : names # {m}} :
             Weaken(i, With(i, p, [s EXCEPT !.seeds = {names \ {n}}]))

\* seeds and address, one in place of the other, naming a sibling or an argument.
SwapIdentity(i, p, name) ==
    LET s == head[i].slots[p]
    IN  /\ name # Leaf(p)
        /\ \/ Seeds(s) /\ Put(i, With(i, p, [s EXCEPT !.seeds = {}, !.address = {Key(name)}]))
           \/ /\ \E e \in s.address : e.field # 0
              /\ Put(i, With(i, p, [s EXCEPT !.seeds = {{Constant, name}}, !.address = {}]))

\* has_one = t on p, written as a constraint on q or as an address on t.
Restate(i, p, q) ==
    LET slots == head[i].slots
    IN  \E t \in slots[p].has_one :
          LET target == Sibling(p, t)
              kept == [slots EXCEPT ![p].has_one = @ \ {t}]
          IN  /\ Front(q) = Front(p)
              /\ \/ Put(i, [head[i] EXCEPT !.slots = [kept EXCEPT
                        ![q].constraints = @ \cup {Equality(Field(Leaf(p), t), Key(t))}]])
                 \/ /\ q = target /\ q \in DOMAIN slots /\ slots[q].address = {}
                    /\ Put(i, [head[i] EXCEPT !.slots = [kept EXCEPT ![q].address = {Field(Leaf(p), t)}]])

\* A has_one or a constraint cut from p and pasted on q.
Move(i, p, q) ==
    LET slots == head[i].slots
    IN  /\ q # p
        /\ \/ \E t \in slots[p].has_one :
                Put(i, [head[i] EXCEPT !.slots =
                            [[slots EXCEPT ![p].has_one = @ \ {t}] EXCEPT ![q].has_one = @ \cup {t}]])
           \/ \E c \in slots[p].constraints :
                Put(i, [head[i] EXCEPT !.slots =
                            [[slots EXCEPT ![p].constraints = @ \ {c}] EXCEPT ![q].constraints = @ \cup {c}]])

\* A gate swapped for another, inverted, or two gates for one.
SwapGate(i, p) ==
    LET s == head[i].slots[p]
        gates == {c \in s.constraints : c.eqs = {}}
    IN  \E c \in gates :
          \/ Put(i, With(i, p, [s EXCEPT !.constraints = (@ \ {c}) \cup {[c EXCEPT !.no = ~@]}]))
          \/ Put(i, With(i, p, [s EXCEPT !.constraints = (@ \ {c}) \cup {[c EXCEPT !.ask = @ + 10]}]))
          \/ Put(i, With(i, p, [s EXCEPT !.constraints = (@ \ gates) \cup {[c EXCEPT !.ask = @ + 10]}]))

\* A declared check written in the handler instead, and the other way round.
IntoHandler(i, p) ==
    LET s == head[i].slots[p]
        moved(slot, chk) == Reword(i, [With(i, p, slot) EXCEPT !.checks = @ (+) SetToBag({chk})])
    IN  \/ s.ty = "Signer" /\ moved(Unchecked(s), Check("signer", <<Ref(p, 0)>>, 0))
        \/ s.ty \in AccountTypes /\ moved(Unchecked(s), Check("type", <<Ref(p, 0)>>, s.of))
        \/ \E t \in s.has_one :
              moved([s EXCEPT !.has_one = @ \ {t}], Check("key", <<Ref(p, t), Ref(Sibling(p, t), 0)>>, 0))

FromHandler(i, p) ==
    LET s == head[i].slots[p]
        moved(slot, chk) == Put(i, [With(i, p, slot) EXCEPT !.checks = @ (-) SetToBag({chk})])
    IN  \E chk \in ChecksAt(head[i], p) :
          \/ chk.kind = "signer" /\ moved([s EXCEPT !.ty = "Signer"], chk)
          \/ chk.kind = "type" /\ moved([s EXCEPT !.ty = "Account", !.of = chk.of], chk)
          \/ /\ chk.kind = "key" /\ Len(chk.on) = 2 /\ chk.on[2].path \in DOMAIN head[i].slots
             /\ moved([s EXCEPT !.has_one = @ \cup {Leaf(chk.on[2].path)}], chk)

DropCheck(i) ==
    \E chk \in BagToSet(head[i].checks) :
        Put(i, [head[i] EXCEPT !.checks = @ (-) SetToBag({chk})])

\* Written twice, in the handler and in the fn it calls of the same Context.
CopyCheck(i) ==
    \E chk \in BagToSet(head[i].checks) :
        /\ Copies(chk, head[i].checks) = 1
        /\ Put(i, [head[i] EXCEPT !.checks = @ (+) SetToBag({chk})])

\* Kept in the account list for compatibility, with a comment that says so.
Retire(i, p) ==
    LET s == head[i].slots[p]
    IN  ~s.deprecated /\ Put(i, With(i, p, [Slot(s.id, "UncheckedAccount", s.of) EXCEPT !.deprecated = TRUE]))

RetireSigner(i, p) ==
    LET s == head[i].slots[p]
    IN  ~s.deprecated /\ Put(i, With(i, p, [Unchecked(s) EXCEPT !.deprecated = TRUE]))

\* The account is no longer passed; what names it is an argument from now on.
RemoveSlot(i, p) ==
    LET ix == head[i]
        kept == {c \in BagToSet(ix.checks) : \A r \in Range(c.on) : r.path # p}
    IN  /\ Cardinality(DOMAIN ix.slots) > 1
        /\ \A q \in DOMAIN ix.slots : {Leaf(p)} \cap UNION {NamesIn(c) : c \in ix.slots[q].constraints} = {}
        /\ \A q \in DOMAIN ix.slots : Leaf(p) \notin ix.slots[q].close
        /\ Put(i, [ix EXCEPT !.slots = Restrict(@, DOMAIN @ \ {p}),
                             !.checks = [c \in kept |-> @[c]]])

-----------------------------------------------------------------------------
(* Renames: every name of the slot is rewritten, and with data the data     *)
(* fields of its name too.                                                  *)

RenameName(n, old, new) == IF n = old THEN new ELSE n
RenameSet(S, old, new) == {RenameName(n, old, new) : n \in S}

RenameIn(s, leaf, old, new, data) ==
    LET field(f) == IF data THEN RenameName(f, old, new) ELSE f
        expr(e) == [name |-> RenameName(e.name, old, new), field |-> field(e.field)]
        self == RenameName(leaf, old, new)
    IN  [s EXCEPT
            !.seeds = {RenameSet(names, old, new) : names \in @},
            !.ata = RenameSet(@, old, new),
            !.close = RenameSet(@, old, new),
            !.address = {expr(e) : e \in @},
            !.token_mint = {expr(e) : e \in @},
            !.token_owner = {expr(e) : e \in @},
            !.has_one = IF data THEN RenameSet(@, old, new) ELSE @ \ {old},
            !.constraints =
                {[c EXCEPT !.names = RenameSet(@, old, new), !.eqs = {{expr(e) : e \in eq} : eq \in @}] : c \in @}
                    \cup {Equality(Field(self, t), Key(new)) : t \in IF data THEN {} ELSE s.has_one \cap {old}}]

RenameSlot(i, p, new, data) ==
    LET ix == head[i]
        old == Leaf(p)
        to(q) == IF q = p THEN Sibling(p, new) ELSE q
        from(q) == IF q = Sibling(p, new) THEN p ELSE q
        ref(r) == Ref(to(r.path), IF data THEN RenameName(r.field, old, new) ELSE r.field)
        moved(c) == [c EXCEPT !.on = [k \in DOMAIN c.on |-> ref(c.on[k])]]
        renamed(q) == IF Front(from(q)) = Front(p)
                      THEN RenameIn(ix.slots[from(q)], Leaf(from(q)), old, new, data)
                      ELSE ix.slots[from(q)]
        checks == BagToSet(ix.checks)
    IN  /\ Sibling(p, new) \notin DOMAIN ix.slots
        /\ Reword(i, [ix EXCEPT
              !.slots = [q \in {to(x) : x \in DOMAIN ix.slots} |-> renamed(q)],
              !.checks = [c \in {moved(x) : x \in checks} |-> @[CHOOSE x \in checks : moved(x) = c]],
              !.fields = IF data THEN (new :> FieldId(ix, old)) @@ @ ELSE @])

RenameIx(i, new) ==
    /\ new \notin DOMAIN head
    /\ Becomes([j \in (DOMAIN head \ {i}) \cup {new} |-> IF j = new THEN head[i] ELSE head[j]])
    /\ UNCHANGED <<reworded, unlisted, built>>

RemoveIx(i) ==
    /\ Cardinality(DOMAIN head) > 1
    /\ Becomes(Restrict(head, DOMAIN head \ {i}))
    /\ UNCHANGED <<reworded, unlisted, built>>

AddIx(addition) ==
    /\ addition[1] \notin DOMAIN head
    /\ Becomes([j \in DOMAIN head \cup {addition[1]} |-> IF j = addition[1] THEN addition[2] ELSE head[j]])
    /\ UNCHANGED <<reworded, unlisted, built>>

\* The arguments of i change.
ChangeArgs(i) == Put(i, [head[i] EXCEPT !.args = Append(@, 0)])

\* The head's IDL is built without account resolution.
BuildUnresolved ==
    /\ built.resolved
    /\ built' = [built EXCEPT !.resolved = FALSE]
    /\ UNCHANGED <<base, head, edits, reworded, unlisted>>

Next ==
    \/ \E i \in DOMAIN head : \E p \in DOMAIN head[i].slots :
          \/ LoosenType(i, p) \/ MakeOptional(i, p) \/ DropAttr(i, p) \/ DropUnlisted(i, p)
          \/ SwapGate(i, p) \/ IntoHandler(i, p) \/ FromHandler(i, p)
          \/ Retire(i, p) \/ RetireSigner(i, p) \/ RemoveSlot(i, p)
          \/ \E q \in DOMAIN head[i].slots : Restate(i, p, q) \/ Move(i, p, q)
          \/ \E q \in DOMAIN head[i].slots \cup {Argument} : SwapIdentity(i, p, Leaf(q))
          \/ \E new \in Fresh, data \in BOOLEAN : RenameSlot(i, p, new, data)
    \/ \E i \in DOMAIN head :
          \/ DropCheck(i) \/ CopyCheck(i) \/ ChangeArgs(i) \/ RemoveIx(i)
          \/ \E new \in Fresh : RenameIx(i, new)
    \/ \E addition \in Additions[base] : AddIx(addition)
    \/ BuildUnresolved

Spec == Init /\ [][Next]_vars

-----------------------------------------------------------------------------
Changes == Diff(base, head, Common)

\* The instruction of the head that is i of the base, whatever it is called.
Successor(i) == {j \in DOMAIN head : head[j].id = base[i].id}

\* What i enforced about accounts it still takes, or held at one it does not.
LostBy(i, j) ==
    LET kept == Enforced(head[j]) ids == Ids(head[j]) IN
    {h \in HeldAt(base[i]) :
        /\ h[1] \notin kept
        /\ h[1][2] \subseteq ids \/ (h[2] # <<>> /\ base[i].slots[h[2]].id \notin ids)}

(* diff.rs, 9: "names every check that is gone".  Whatever edits led from one version *)
(* to the other, a check the runtime no longer makes is reported at a slot that held  *)
(* it, at its instruction, or by the name of an instruction that is gone; but for the *)
(* instructions weakened in a way docs/diff.md does not list.                          *)
EveryLossIsReported ==
    LET changes == Changes IN
    \A i \in {k \in DOMAIN base : base[k].id \notin unlisted} : \A j \in Successor(i) : \A h \in LostBy(i, j) :
        \E c \in changes :
            \/ c.ix = i /\ i \notin DOMAIN head /\ c.path = <<>>
            \/ c.ix = j /\ c.path \in {g[2] : g \in {x \in HeldAt(base[i]) : x[1] = h[1]}} \cup {<<>>}

\* What ix enforces of a fact, as far as a handler check gone is looked for: in the
\* handler, and in what the accounts the fact is about declare.
EnforcedWhereNamed(ix) ==
    {h[1] : h \in {g \in HeldAt(ix) : g[2] = <<>> \/ ix.slots[g[2]].id \in g[1][2]}}

\* A removal at c is of something pair[1] held there and pair[2] no longer enforces.
IsLoss(c, pair) ==
    \E h \in HeldAt(base[pair[1]]) :
        /\ h[2] = c.path
        /\ h[1] \notin IF c.why = "handler" THEN EnforcedWhereNamed(head[c.ix]) ELSE Enforced(head[c.ix])

\* Something pair[1] checked at path in the handler is now the address of a slot that had another.
NowAnAddress(pair, path) ==
    LET b == base[pair[1]] h == head[pair[2]]
    IN  \E was \in HeldAt(b), now \in HeldAt(h) :
          /\ was[2] = path /\ now[1] = was[1] /\ now[2] \in DOMAIN b.slots
          /\ b.slots[now[2]].address # {} /\ h.slots[now[2]].address # b.slots[now[2]].address

(* docs/diff.md, 45: a handler check an account "now declares ... instead", by an       *)
(* `address` say, is a warning.  A removal, which fails the build, is reported only of  *)
(* something the runtime no longer checks, unless a name was changed.  The exception is *)
(* diff.rs, 551: gained sees an address only where there was none, and what is declared *)
(* as the address of a slot that had another counts as removed.                          *)
RemovalsAreLosses ==
    \A c \in Removed(Changes) :
        \E pair \in Compared(base, head, Common) :
            /\ pair[2] = c.ix
            /\ \/ head[c.ix].id \in reworded
               \/ IsLoss(c, pair)
               \/ c.why = "handler" /\ NowAnAddress(pair, c.path)

(* diff.rs, 53: each instruction of the base is compared with at most one of the head, *)
(* and no two with the same one: a loss in one is never excused by another's checks.   *)
ComparedOneToOne ==
    \A x, y \in Compared(base, head, Common) : (x[1] = y[1] \/ x[2] = y[2]) => x = y

\* A fact that says which account p is: it names another account, or a constant.
Ties(ix, p) ==
    {f \in Enforced(ix) :
        /\ f[1] \in {"eq", "pda", "ata", "created"} /\ ix.slots[p].id \in f[2]
        /\ \/ f[1] = "created" \/ \E a \in f[2] : a # ix.slots[p].id
           \/ \E side \in f[3] : ~side[1] /\ side[2] = Constant}

(* source.rs, 201: unbound, "a caller can pass any account of the type".  The program's *)
(* account the runtime ties to nothing, after whatever edits, is one unbound marks.     *)
UntiedIsUnbound ==
    \A i \in DOMAIN head : \A p \in DOMAIN head[i].slots :
        (/\ head[i].slots[p].ty \in AccountTypes
         /\ \A q \in DOMAIN head[i].slots : ~head[i].slots[q].optional
         /\ Ties(head[i], p) = {})
            => Unbound(head[i], p)

-----------------------------------------------------------------------------
BaseIdl == IF built.legacy THEN Convert(LegacyIdl(base)) ELSE AnchorIdl(base, TRUE)
HeadIdl == AnchorIdl(head, built.resolved)
IdlChanges == DiffIdl(BaseIdl, HeadIdl)

\* What an IDL shows of what an instruction enforces about accounts.
IdlFacts(ix) ==
    {<<"signs", ix.slots[p].id, 0>> : p \in {q \in DOMAIN ix.slots : SignsIfPassed(ix.slots[q])}}
        \cup {<<"required", ix.slots[p].id, 0>> : p \in {q \in DOMAIN ix.slots : ~ix.slots[q].optional}}
        \cup {<<"address", ix.slots[p].id, 0>> :
                p \in {q \in DOMAIN ix.slots : FixedInIdl(ix.slots[q]) /\ ~built.legacy}}
        \cup {<<"pda", ix.slots[p].id, 0>> : p \in {q \in DOMAIN ix.slots : Seeds(ix.slots[q]) \/ ix.slots[q].ata # {}}}
        \cup UNION {{<<"has_one", ix.slots[p].id, ix.slots[Sibling(p, t)].id>> :
                        t \in {u \in ix.slots[p].has_one : Sibling(p, u) \in DOMAIN ix.slots}} : p \in DOMAIN ix.slots}

(* docs/idl-diff.md, "The rule: anything loosened produces output. ... Nothing loosened *)
(* is silent": what an IDL shows of an instruction, and its successor does not while it *)
(* still takes the account, leaves a word on one of the two, or on the whole.           *)
NothingLoosenedIsSilent ==
    \A i \in DOMAIN base : \A j \in Successor(i) :
        (\E f \in IdlFacts(base[i]) \ IdlFacts(head[j]) : f[2] \in Ids(head[j]))
            => \E c \in IdlChanges : c.ix \in {i, j, 0}

\* Of an account gone from its name, the slot in the base one with no check, or only an address:
\* that it was passed, and what it was.
RenamedBare(i, j) ==
    LET bare == {a \in Range(BaseIdl.ixs[i].accounts) :
                    /\ ~AccountChecks(a)
                    /\ \A q \in DOMAIN head[j].slots : head[j].slots[q].id = base[i].slots[a.path].id => q # a.path}
    IN  {<<what, base[i].slots[a.path].id, 0>> : what \in {"required", "address"}, a \in bare}

\* i kept its name, or is compared with what it became and not with another of its shape.
ComparedWithItsOwn(i, j) == i \in DOMAIN head \/ <<i, j>> \in RenamedTo(BaseIdl, HeadIdl)

(* idl_diff.rs, 230: a slot gone is worth a word if it had a check besides an address.   *)
(* But for what was asked of such a slot that had none, nothing an IDL shows of an       *)
(* instruction compared with what it became is loosened in silence, whatever was renamed *)
(* or made optional beside it: a has_one above all, reported at the account it names.    *)
OnlyBareSlotsAreSilent ==
    \A i \in DOMAIN base : \A j \in {k \in Successor(i) : ComparedWithItsOwn(i, k)} :
        (\E f \in (IdlFacts(base[i]) \ IdlFacts(head[j])) \ RenamedBare(i, j) : f[2] \in Ids(head[j]))
            => \E c \in IdlChanges : c.ix \in {i, j, 0}

(* idl_diff.rs, 204: "a wrong guess must not fail a build".  Whatever was renamed, what  *)
(* fails one is a check the account at that path no longer has.                         *)
NoGuessFailsABuild ==
    \A c \in Removed(IdlChanges) :
        /\ c.ix \in DOMAIN base /\ c.path \in DOMAIN base[c.ix].slots
        /\ \E f \in IdlFacts(base[c.ix]) \ IdlFacts(head[c.ix]) :
              f[1] # "required" /\ base[c.ix].slots[c.path].id \in {f[2], f[3]}

\* An IDL of the base in today's format shows whether it was built with account resolution.
BasesShowResolution ==
    \A v \in Bases : \E i \in DOMAIN v : \E p \in DOMAIN v[i].slots : FixedInIdl(v[i].slots[p])
=============================================================================
