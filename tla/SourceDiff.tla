----------------------------- MODULE SourceDiff -----------------------------
(***************************************************************************)
(* solinv diff --base-src --head-src: diff.rs.  Two versions are compared  *)
(* slot by slot, by name; what is gone is a Change.  A change is where it  *)
(* is reported, how severe it is and what it is about (why); the wording,  *)
(* and the fn a check may have moved to (handed), which only adds to the   *)
(* wording, are left out.                                                  *)
(***************************************************************************)
EXTENDS Source, TLC

Change(severity, ix, path, why) ==
    [severity |-> severity, ix |-> ix, path |-> path, why |-> why]

Regression(ix, path, why) == Change("Regression", ix, path, why)
Warning(ix, path, why) == Change("Warning", ix, path, why)

-----------------------------------------------------------------------------
(* Which instruction of the head each one of the base is compared with.    *)

\* The slots that tell an instruction from another.
Telling(ix, Common) ==
    {p \in DOMAIN ix.slots :
        ix.slots[p].ty \notin {"Program", "Interface", "Sysvar"} /\ Leaf(p) \notin Common}

\* A candidate pair, its score the fraction shared / all.
Scored(base, head, Common) ==
    {[old |-> old, new |-> new,
      shared |-> Cardinality(Telling(base[old], Common) \cap Telling(head[new], Common)),
      all |-> Cardinality(Telling(base[old], Common) \cup Telling(head[new], Common))] :
        old \in DOMAIN base \ DOMAIN head, new \in DOMAIN head \ DOMAIN base}

Close(pairs) == {x \in pairs : x.shared > 0 /\ 2 * x.shared >= x.all}

SameScore(x, y) == x.shared * y.all = y.shared * x.all
Before(x, y) ==
    \/ x.shared * y.all > y.shared * x.all
    \/ SameScore(x, y) /\ (x.old < y.old \/ (x.old = y.old /\ x.new < y.new))

Rivals(x, y) == x # y /\ SameScore(x, y) /\ (x.old = y.old \/ x.new = y.new)

\* The best of those left.
Best(todo) == CHOOSE x \in todo : \A y \in todo : ~Before(y, x)

\* Mutant: a new instruction may be taken twice.
SettleTwice(st, x, pairs) ==
    IF x.old \in st.settled THEN [st EXCEPT !.todo = @ \ {x}]
    ELSE [todo    |-> st.todo \ {x},
          settled |-> st.settled \cup {x.old}, taken |-> st.taken \cup {x.new},
          paired  |-> IF \E y \in pairs : Rivals(x, y) THEN st.paired
                      ELSE st.paired \cup {<<x.old, x.new>>}]

\* A tie at the best settles both sides and pairs neither.
Settle(st, x, pairs) ==
    IF x.old \in st.settled \/ x.new \in st.taken THEN [st EXCEPT !.todo = @ \ {x}]
    ELSE [todo    |-> st.todo \ {x},
          settled |-> st.settled \cup {x.old}, taken |-> st.taken \cup {x.new},
          paired  |-> IF \E y \in pairs : Rivals(x, y) THEN st.paired
                      ELSE st.paired \cup {<<x.old, x.new>>}]

Renamed(base, head, Common) ==
    LET pairs == Close(Scored(base, head, Common))
        after[n \in 0..Cardinality(pairs)] ==
            IF n = 0 THEN [todo |-> pairs, settled |-> {}, taken |-> {}, paired |-> {}]
            ELSE Settle(after[n - 1], Best(after[n - 1].todo), pairs)
    IN  after[Cardinality(pairs)].paired

Compared(base, head, Common) ==
    Renamed(base, head, Common) \cup {<<i, i>> : i \in DOMAIN base \cap DOMAIN head}

-----------------------------------------------------------------------------
(* Key equalities, with each name that is a slot read as its full path.     *)

EqSide(slots, path, e) ==
    LET full == Sibling(path, e.name)
    IN  IF full \in DOMAIN slots THEN <<TRUE, full, e.field>> ELSE <<FALSE, <<e.name>>, e.field>>

KeyEq(slots, path, eq) == {EqSide(slots, path, e) : e \in eq}

\* Mutant: only what attributes declare, and no constraint.
EqsOfAttributes(slots) ==
    UNION {{KeyEq(slots, p, eq) : eq \in DeclaredEqs([slots[p] EXCEPT !.constraints = {}], Leaf(p))} :
              p \in {q \in DOMAIN slots : ~slots[q].optional}}

EqsOf(slots) ==
    UNION {{KeyEq(slots, p, eq) : eq \in DeclaredEqs(slots[p], Leaf(p))} :
              p \in {q \in DOMAIN slots : ~slots[q].optional}}

TypeOf(s) == <<s.ty, s.of, s.optional>>

\* Typed slots gone, each with the one new slot of its type, if it is the only such pair.
RenamedSlots(b, h) ==
    LET typed(slots) == {p \in DOMAIN slots : Kind(slots[p]) = "Typed"}
        gone == typed(b) \ typed(h)
        new == typed(h) \ typed(b)
        only(S, ty, slots) == Cardinality({p \in S : TypeOf(slots[p]) = ty}) = 1
    IN  {r \in gone \X new :
            /\ TypeOf(b[r[1]]) = TypeOf(h[r[2]])
            /\ only(gone, TypeOf(b[r[1]]), b) /\ only(new, TypeOf(b[r[1]]), h)}

RenameSide(renames, side) ==
    IF side[1] /\ \E r \in renames : r[1] = side[2]
    THEN <<TRUE, (CHOOSE r \in renames : r[1] = side[2])[2], side[3]>>
    ELSE side

\* Whether the head still declares the equalities eqs of the base slot at path.
Restated(b, h, path, eqs) ==
    LET read == {KeyEq(b, path, eq) : eq \in eqs}
        now == {{RenameSide(RenamedSlots(b, h), side) : side \in eq} : eq \in read}
    IN  IF read \subseteq EqsOf(h) THEN "held"
        ELSE IF now \subseteq EqsOf(h) THEN "renamed" ELSE "gone"

-----------------------------------------------------------------------------
(* One slot, declared at the same path in both.                            *)

\* A name that fixes the account at path: another slot or a constant.
SlotOrConst(slots, path, names) ==
    \E n \in names : n = Constant \/ (Sibling(path, n) \in DOMAIN slots /\ Sibling(path, n) # path)

FixedAddress(b, h, path) ==
    /\ h[path].address # {} /\ b[path].address = {}
    /\ SlotOrConst(h, path, AddressNames(h[path]))
FixedSeeds(b, h, path) ==
    /\ Seeds(h[path]) /\ ~Seeds(b[path])
    /\ SeedNames(h[path]) \subseteq {Constant} \/ SlotOrConst(h, path, SeedNames(h[path]))

When(test, change) == IF test THEN {change} ELSE {}

\* Lost unless the head says it another way.
ByRestatement(state, ix, path, why, lost) ==
    CASE state = "held"    -> {}
      [] state = "renamed" -> {Warning(ix, path, why)}
      [] OTHER             -> {lost}

Loosened(b, h, ix, path) ==
    LET x == b[path] y == h[path] IN
    When(Kind(x) = "Typed" /\ Kind(y) = "Unchecked" /\ x.ty # "Signer", Regression(ix, path, "type"))
        \cup When(Kind(x) = "Typed" /\ Kind(y) = "Typed" /\ TypeOf(x) # TypeOf(y), Warning(ix, path, "type"))
        \cup When(~x.optional /\ y.optional, Warning(ix, path, "optional"))
        \cup When(Signs(x) /\ ~Signs(y), Regression(ix, path, "signature"))

\* Mutant: an address in place of seeds is always taken to name the same account.
IdentityTrusting(b, h, ix, path) ==
    LET x == b[path] y == h[path] IN
    When(Seeds(x) /\ ~Seeds(y) /\ y.address = {}, Regression(ix, path, "seeds"))
Identity(b, h, ix, path) ==
    LET x == b[path]
        y == h[path]
        addressed(e) == Restated(b, h, path, {{Key(Leaf(path)), e}})
    IN  When(Seeds(x) /\ ~Seeds(y),
             IF FixedAddress(b, h, path) THEN Warning(ix, path, "seeds") ELSE Regression(ix, path, "seeds"))
        \cup (UNION {IF FixedSeeds(b, h, path) THEN {Warning(ix, path, "address")}
                    ELSE ByRestatement(addressed(e), ix, path, "address", Regression(ix, path, "address")) :
                        e \in IF y.address = {} THEN x.address ELSE {}})
        \cup (UNION {When(e \notin y.address /\ addressed(e) = "gone", Warning(ix, path, "address")) :
                        e \in IF y.address = {} THEN {} ELSE x.address})
        \cup When(x.owner /\ ~y.owner,
                  IF FixedAddress(b, h, path) THEN Warning(ix, path, "owner") ELSE Regression(ix, path, "owner"))

Tokens(b, h, ix, path) ==
    LET change(was, now, field) ==
            UNION {ByRestatement(Restated(b, h, path, {{Field(Leaf(path), field), e}}), ix, path, "token",
                                 IF now = {} THEN Regression(ix, path, "token") ELSE Warning(ix, path, "token")) :
                      e \in was \ now}
    IN  change(b[path].token_mint, h[path].token_mint, MintField)
            \cup change(b[path].token_owner, h[path].token_owner, OwnerField)

HasOnes(b, h, ix, path) ==
    UNION {IF \E q \in DOMAIN h : t \in h[q].has_one THEN {Warning(ix, path, "has_one")}
           ELSE ByRestatement(Restated(b, h, path, {{Field(Leaf(path), t), Key(t)}}), ix, path, "has_one",
                              Regression(ix, path, "has_one")) :
              t \in b[path].has_one \ h[path].has_one}

YesNo(c) == c.eqs = {} /\ c.yesno
Negated(c, d) == c.eqs = {} /\ d.eqs = {} /\ c.ask = d.ask /\ c.names = d.names /\ c.no # d.no
GateOn(slots, path, c) ==
    /\ ~Keyed(c)
    /\ {n \in NamesIn(c) : Sibling(path, n) \in DOMAIN slots} = {Leaf(path)}

StandsIn(b, h, path, was, now) ==
    /\ now \notin b[path].constraints /\ YesNo(now) /\ ~Negated(was, now)
    /\ GateOn(h, path, now) /\ GateOn(b, path, was)

\* Constraints gone from the slot, neither moved nor restated, in the order written.
Dropped(b, h, path) ==
    {c \in b[path].constraints \ h[path].constraints :
        /\ \A q \in DOMAIN h : c \notin h[q].constraints
        /\ c.eqs = {} \/ Restated(b, h, path, c.eqs) = "gone"}

\* One new gate stands in for one dropped.
Replaced(b, h, path) ==
    FoldLeft(LAMBDA st, c :
                LET free == {g \in h[path].constraints \ st.used : StandsIn(b, h, path, c, g)}
                IN  IF free = {} THEN st
                    ELSE [used |-> st.used \cup {CHOOSE g \in free : TRUE}, replaced |-> st.replaced \cup {c}],
             [used |-> {}, replaced |-> {}], SetToSeq(Dropped(b, h, path))).replaced

Constraints(b, h, ix, path) ==
    UNION {IF \E q \in DOMAIN h : c \in h[q].constraints THEN {Warning(ix, path, "constraint")}
           ELSE IF c.eqs # {} /\ Restated(b, h, path, c.eqs) = "held" THEN {}
           ELSE IF c \notin Dropped(b, h, path) \/ c \in Replaced(b, h, path)
                THEN {Warning(ix, path, "constraint")}
           ELSE {Regression(ix, path, "constraint")} :
              c \in b[path].constraints \ h[path].constraints}

Closing(b, h, ix, path) ==
    When(b[path].close # {} /\ h[path].close = {}, Regression(ix, path, "close"))
        \cup When(b[path].close # {} /\ h[path].close # {} /\ b[path].close # h[path].close,
                  Warning(ix, path, "close"))

-----------------------------------------------------------------------------
(* Handler checks: counted, since the same one may be written twice.        *)

\* gained: h declares a check of kind that b did not.
Gained(kind, x, y, others) ==
    LET typed == Kind(x) = "Unchecked" /\ Kind(y) = "Typed"
        new == y.constraints \ x.constraints
    IN  CASE kind = "signer" -> Signs(y) /\ ~Signs(x)
          [] kind = "key" /\ others = {} ->
                \/ typed /\ y.ty \in {"Program", "Sysvar"}
                \/ Seeds(y) /\ ~Seeds(x)
                \/ y.address # {} /\ x.address = {}
          [] kind = "key" ->
                \/ Seeds(y) /\ ~Seeds(x) /\ SeedNames(y) \cap others # {}
                \/ y.address # {} /\ x.address = {} /\ AddressNames(y) \cap others # {}
                \/ (y.has_one \ x.has_one) \cap others # {}
                \/ \E c \in new : Keyed(c) /\ NamesIn(c) \cap others # {}
          [] kind = "type" -> (typed /\ y.ty # "Signer") \/ (y.owner /\ ~x.owner)
          [] kind = "bump" -> Seeds(y) /\ ~Seeds(x)
          [] OTHER -> FALSE

\* A slot of the head that now declares a check of the kind of chk, which path held.
DeclaredInstead(b, h, chk, path) ==
    \E p \in DOMAIN b \cap DOMAIN h :
        LET others == (Words(chk) \cap {Leaf(q) : q \in DOMAIN h}) \ {Leaf(p)}
        IN  /\ p = path \/ Leaf(p) \in Words(chk) \/ chk.kind = "bump"
            /\ Gained(chk.kind, b[p], h[p], others)

Lost(b, h, path, chk) ==
    /\ CopiesAt(h, path, chk) < CopiesAt(b, path, chk)
    /\ Copies(chk, h.checks) < Copies(chk, b.checks)

Handler(b, h, ix, path) ==
    {IF DeclaredInstead(b.slots, h.slots, chk, path) THEN Warning(ix, path, "handler")
     ELSE Regression(ix, path, "handler") :
        chk \in {c \in ChecksAt(b, path) : Lost(b, h, path, c)}}

-----------------------------------------------------------------------------
Placeholder(s) == s.deprecated /\ Kind(s) = "Unchecked"

\* A slot made a placeholder: its removals are one, a lost signature apart.
Merged(b, h, ix, path, changes) ==
    LET lost == {c \in changes : c.severity = "Regression" /\ c.why # "signature"}
    IN  IF Placeholder(h[path]) /\ ~Placeholder(b[path]) /\ lost # {}
        THEN (changes \ lost) \cup {Regression(ix, path, "placeholder")}
        ELSE changes

DiffSlot(b, h, ix, path) ==
    LET x == b.slots y == h.slots IN
    Merged(x, y, ix, path,
           Loosened(x, y, ix, path) \cup Identity(x, y, ix, path) \cup Tokens(x, y, ix, path)
               \cup HasOnes(x, y, ix, path) \cup Constraints(x, y, ix, path)
               \cup Closing(x, y, ix, path) \cup Handler(b, h, ix, path))

\* checks_of: whether a slot that is gone took a check with it.
HasChecks(ix, path) ==
    LET s == ix.slots[path]
    IN  \/ Kind(s) = "Typed" /\ s.ty # "Signer"
        \/ Signs(s) \/ Seeds(s) \/ s.address # {} \/ s.owner \/ s.has_one # {}
        \/ s.token_mint # {} \/ s.token_owner # {} \/ s.constraints # {} \/ s.close # {}
        \/ ChecksAt(ix, path) # {}

Gone(base, old, renamed) ==
    IF \E r \in renamed : r[1] = old THEN {Warning(old, <<>>, "renamed")}
    ELSE When(base[old].checks # EmptyBag \/ \E p \in DOMAIN base[old].slots : HasChecks(base[old], p),
              Warning(old, <<>>, "removed"))

DiffIx(b, h, ix) ==
    (UNION {IF p \in DOMAIN h.slots THEN DiffSlot(b, h, ix, p)
           ELSE When(HasChecks(b, p), Warning(ix, p, "slot")) : p \in DOMAIN b.slots})
        \cup Handler(b, h, ix, <<>>)

New(ix, new) ==
    LET signed == \E p \in DOMAIN ix.slots : Signs(ix.slots[p])
        written == {p \in DOMAIN ix.slots : ix.slots[p].mutable}
    IN  IF signed \/ written = {} THEN {} ELSE {Warning(new, CHOOSE p \in written : TRUE, "unsigned")}

Diff(base, head, Common) ==
    LET renamed == Renamed(base, head, Common)
        compared == renamed \cup {<<i, i>> : i \in DOMAIN base \cap DOMAIN head}
    IN  (UNION {Gone(base, old, renamed) : old \in DOMAIN base \ DOMAIN head})
            \cup (UNION {DiffIx(base[r[1]], head[r[2]], r[2]) : r \in compared})
            \cup UNION {New(head[new], new) :
                          new \in (DOMAIN head \ DOMAIN base) \ {r[2] : r \in renamed}}

\* removed() of a diff: what exits 1.
Removed(changes) == {c \in changes : c.severity = "Regression"}
=============================================================================
