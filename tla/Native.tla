------------------------------- MODULE Native -------------------------------
(***************************************************************************)
(* The checks solinv diff reads off a native or Pinocchio program, which   *)
(* are statements (native.rs), and the ones it says a change removed.  A   *)
(* program is a function from fn names to                                  *)
(*   [params, pre : what runs before its match, arms : Seq([variant, body])]*)
(* and a statement is one of those below.                                  *)
(***************************************************************************)
EXTENDS Integers, Sequences, FiniteSets, TLC, SequencesExt, Functions

CONSTANTS
    Places,    \* the places of the accounts slice: <<"accounts[0]", ...>>
    Alphabet,  \* every name, as names sort
    Idents,    \* the names a fn may bind: lower case, no path
    Unused     \* the names that begin with an underscore

ASSUME NativeAssumption ==
    /\ Range(Places) \cup Idents \cup Unused \subseteq Range(Alphabet)
    /\ Range(Places) \cap Idents = {}

Slice == "accounts"
Depth == 4

\* payer, payer.key(), vault.owner(), ADMIN
Operand(of, side) == [of |-> of, side |-> side]
Account(of) == Operand(of, "account")
Key(of) == Operand(of, "key")
Owner(of) == Operand(of, "owner")
Value(of) == Operand(of, "value")
Nothing == Value("")
Yes == Value("true")

\* !x.is_signer() ; x != y ; a condition on no account
Lacks(flag, x) == [test |-> flag, x |-> x, y |-> Nothing]
Differs(x, y) == [test |-> "differs", x |-> x, y |-> y]
Other == [test |-> "other", x |-> Nothing, y |-> Nothing]

\* One part of a condition || joins: flags and tests && joins.
Part(when, tests) == [when |-> when, tests |-> tests]

If(parts) == [s |-> "if", parts |-> parts]                \* if parts { return Err(..) }
Call(fn, args) == [s |-> "call", fn |-> fn, args |-> args, propagated |-> TRUE]
Let(name, n) == [s |-> "let", names |-> <<name>>, places |-> <<n>>, slice |-> FALSE]
LetSlice(names) == [s |-> "let", names |-> names, places |-> [n \in DOMAIN names |-> n], slice |-> TRUE]
NextAccount(name) == [s |-> "next", name |-> name]        \* let name = next_account_info(it)?
Use(x) == [s |-> "use", x |-> x]                          \* anything else done with x
Off == [s |-> "off"]                                      \* return Err(..)

-----------------------------------------------------------------------------
(* A fn and each arm of its match are compared apart: <<fn>> and <<fn, variant>>. *)

Keys(p) == UNION {{<<f>>} \cup {<<f, a.variant>> : a \in Range(p[f].arms)} : f \in DOMAIN p}
IsArm(k) == Len(k) = 2
Parent(k) == <<k[1]>>
ArmAt(p, k) == CHOOSE n \in DOMAIN p[k[1]].arms : p[k[1]].arms[n].variant = k[2]
Params(p, k) == IF IsArm(k) THEN <<>> ELSE p[k[1]].params

Bodies(arms) == FlattenSeq([n \in DOMAIN arms |-> arms[n].body])

\* The code whose checks are k's: an arm runs what comes before the match too.
Kept(p, k) == p[k[1]].pre \o (IF IsArm(k) THEN p[k[1]].arms[ArmAt(p, k)].body ELSE <<>>)

\* The text that is k's.
Text(p, k) ==
    IF IsArm(k) THEN p[k[1]].arms[ArmAt(p, k)].body ELSE p[k[1]].pre \o Bodies(p[k[1]].arms)

\* What is written in the fn before the statement at position at of Kept(p, k),
\* the arms above an arm included.
Above(p, k, at) ==
    LET pre == p[k[1]].pre
        arms == p[k[1]].arms
    IN  IF at <= Len(pre) THEN SubSeq(pre, 1, at - 1)
        ELSE pre \o Bodies(SubSeq(arms, 1, ArmAt(p, k) - 1))
                 \o SubSeq(arms[ArmAt(p, k)].body, 1, at - Len(pre) - 1)

\* Where a let of a place is looked for: an arm's, from the start of the fn.
Reach(p, k) ==
    IF IsArm(k) THEN p[k[1]].pre \o Bodies(SubSeq(p[k[1]].arms, 1, ArmAt(p, k))) ELSE Text(p, k)

-----------------------------------------------------------------------------
Rank(name) == CHOOSE n \in DOMAIN Alphabet : Alphabet[n] = name
Before(a, b) == Rank(a.of) < Rank(b.of) \/ (a.of = b.of /\ (a.side = "key" \/ b.side = "owner"))

Sided(x) == x.side \in {"key", "owner"}

Atom(kind, var, against, pending) ==
    [kind |-> kind, var |-> var, against |-> against, when |-> {}, pending |-> pending]
AtomOf(x, y) == Atom(x.side, Account(x.of), y, FALSE)

\* An account's key or owner on either side, the lesser of two; or a bare
\* name, a check once a caller passes an account's key or owner for it.
ComparedAtoms(a, b) ==
    CASE Sided(a) /\ (Sided(b) => Before(a, b)) -> <<AtomOf(a, b)>>
      [] Sided(b) /\ (Sided(a) => ~Before(a, b)) -> <<AtomOf(b, a)>>
      [] OTHER -> LET pending(x, y) == IF x.of \in Idents THEN <<Atom("key", x, y, TRUE)>> ELSE <<>>
                  IN  pending(a, b) \o pending(b, a)

Rejects(t) ==
    CASE t.test = "differs" -> ComparedAtoms(t.x, t.y)
      [] t.test = "other" -> <<>>
      [] OTHER -> <<Atom(t.test, t.x, Nothing, FALSE)>>

\* Each || part rejects alone; a part joined by && only when all but one of
\* its conjuncts are flags.
AtomsOf(parts) ==
    FlattenSeq([n \in DOMAIN parts |->
        IF Len(parts[n].tests) # 1 THEN <<>>
        ELSE LET atoms == Rejects(parts[n].tests[1])
             IN  [m \in DOMAIN atoms |-> [atoms[m] EXCEPT !.when = parts[n].when]]])

-----------------------------------------------------------------------------
Binds(stmt, name) == stmt.s = "let" /\ name \in Range(stmt.names)
PlaceIn(stmt, name) == Places[stmt.places[CHOOSE n \in DOMAIN stmt.names : stmt.names[n] = name]]

\* The name a let gives a place: none for the _ of a pattern.
BoundTo(stmt, place) ==
    {stmt.names[n] : n \in {m \in DOMAIN stmt.names : Places[stmt.places[m]] = place /\ stmt.names[m] # "_"}}

\* A name's place in the slice, when the last let above binds it from one.
Canon(above, name) ==
    LET lets == {j \in DOMAIN above : Binds(above[j], name)}
    IN  IF lets = {} THEN name
        ELSE PlaceIn(above[CHOOSE j \in lets : \A l \in lets : l <= j], name)

Placed(above, a) == [a EXCEPT !.var.of = Canon(above, @), !.against.of = Canon(above, @)]

\* A parameter becomes the argument passed for it.
Argument(params, args, o) ==
    IF o.of \notin Range(params) THEN o
    ELSE LET arg == args[CHOOSE n \in DOMAIN params : params[n] = o.of]
         IN  IF Sided(o) THEN [arg EXCEPT !.side = o.side] ELSE arg

\* The callee's atom as a call of it with args makes it, in a set of at most
\* one: a flag it needs must be passed true.
Through(params, args, above, a) ==
    LET arg(o) == Argument(params, args, o)
        var == arg(a.var)
        out == [a EXCEPT !.var = var, !.against = arg(@), !.when = @ \ Range(params)]
        known == IF a.pending /\ Sided(var)
                 THEN [out EXCEPT !.kind = var.side, !.var = Account(var.of), !.pending = FALSE]
                 ELSE out
    IN  IF \A w \in a.when \cap Range(params) : arg(Value(w)) = Yes
        THEN {[atom |-> Placed(above, known), shown |-> known.var.of]}
        ELSE {}

\* Calls that carry a check: propagated, to a fn that is read, with as many arguments.
Carries(p, k, stmt) ==
    /\ stmt.s = "call" /\ stmt.propagated /\ stmt.fn \in DOMAIN p
    /\ <<stmt.fn>> # k /\ Len(stmt.args) = Len(p[stmt.fn].params)

Entry(atom, shown, from, own) == [atom |-> atom, shown |-> shown, from |-> from, own |-> own]

\* Every atom k checks, to d calls down: its own first (from = 0), then call by call.
Atoms(p) ==
    LET own(k) ==
            LET code == Kept(p, k)
            IN  FlattenSeq([i \in DOMAIN code |->
                    IF code[i].s # "if" THEN <<>>
                    ELSE LET atoms == AtomsOf(code[i].parts)
                         IN  [m \in DOMAIN atoms |->
                                Entry(Placed(Above(p, k, i), atoms[m]), atoms[m].var.of, 0, TRUE)]])
        called(k, i, entries) ==
            FlattenSeq([m \in DOMAIN entries |->
                LET a == entries[m].atom
                    call == Kept(p, k)[i]
                    got == Through(p[call.fn].params, call.args, Above(p, k, i), a)
                IN  SetToSeq({Entry(g.atom, g.shown, i, a.when = {} /\ ~a.pending) : g \in got})])
        atoms[d \in 0..Depth, k \in Keys(p)] ==
            own(k) \o
                IF d = 0 THEN <<>>
                ELSE FlattenSeq([i \in DOMAIN Kept(p, k) |->
                        IF Carries(p, k, Kept(p, k)[i])
                        THEN called(k, i, atoms[d - 1, <<Kept(p, k)[i].fn>>])
                        ELSE <<>>])
    IN  atoms

\* The atoms that hold in k unconditionally, each as it first came in.
FirstOf(entries) ==
    [a \in {e.atom : e \in Range(entries)} |->
        entries[CHOOSE n \in DOMAIN entries :
                    entries[n].atom = a /\ \A m \in 1..(n - 1) : entries[m].atom # a]]

Unconditional(entries) == SelectSeq(entries, LAMBDA e : e.atom.when = {} /\ ~e.atom.pending)

Holds(p) == [k \in Keys(p) |-> FirstOf(Unconditional(Atoms(p)[Depth, k]))] @@ <<>>

-----------------------------------------------------------------------------
OperandsIn(stmt) ==
    CASE stmt.s = "if" -> FlattenSeq([n \in DOMAIN stmt.parts |->
                              FlattenSeq([m \in DOMAIN stmt.parts[n].tests |->
                                  <<stmt.parts[n].tests[m].x, stmt.parts[n].tests[m].y>>])])
      [] stmt.s = "call" -> stmt.args
      [] stmt.s = "use" -> <<stmt.x>>
      [] OTHER -> <<>>

RootOf(name) == IF name \in Range(Places) THEN Slice ELSE name
NamesIn(stmt) ==
    {RootOf(o.of) : o \in Range(OperandsIn(stmt))}
        \cup CASE stmt.s = "let" -> Range(stmt.names) \cup {Slice}
               [] stmt.s = "next" -> {stmt.name}
               [] OTHER -> {}

HandsOnSlice(stmt) ==
    (stmt.s = "let" /\ stmt.slice) \/ \E o \in Range(OperandsIn(stmt)) : o.of = Slice

\* How often a text writes a place.
Writes(text, place) ==
    LET inLets == {i \in DOMAIN text : /\ text[i].s = "let" /\ ~text[i].slice
                                       /\ Places[text[i].places[1]] = place}
        operands == FlattenSeq([i \in DOMAIN text |-> OperandsIn(text[i])])
    IN  Cardinality(inLets) + Cardinality({n \in DOMAIN operands : operands[n].of = place})

\* A body whose first statement rejects.
TurnedOff(text) == text # <<>> /\ text[1].s = "off"

\* The account of entry e of base fn k is not in head fn k at all.
Gone(base, head, k, e) ==
    LET text == Text(head, k)
        reach == Reach(head, k)
        root == RootOf(e.shown)
        place == e.atom.var.of
        word == \E i \in DOMAIN text : root \in NamesIn(text[i])
        here == {i \in DOMAIN reach : reach[i].s = "let" /\ BoundTo(reach[i], place) # {}}
    IN  /\ \A n \in DOMAIN Params(base, k) :
              Params(base, k)[n] = root => n \notin DOMAIN Params(head, k)
        /\ ~word
        /\ place \in Range(Places) =>
              /\ \A i \in DOMAIN text : ~HandsOnSlice(text[i])
              /\ \A i \in here : BoundTo(reach[i], place) \subseteq Unused
              /\ Writes(text, place) <= Cardinality(here)

CallsTo(stmt, k) == stmt.s = "call" /\ stmt.propagated /\ <<stmt.fn>> = k

\* Mutant: one of the callers is enough.
MovedUpSomewhere(base, head, holds, k, a) ==
    \E c \in Keys(base) \cap Keys(head) : \E i \in DOMAIN Kept(base, c) :
        /\ CallsTo(Kept(base, c)[i], k)
        /\ \E want \in Through(Params(base, k), Kept(base, c)[i].args, Above(base, c, i), a) : want.atom \in DOMAIN holds[c]

\* Mutant: what the callers check is looked for under the helper's own names.
MovedUpByName(base, head, holds, k, a) ==
    \A c \in Keys(base) : (\E i \in DOMAIN Kept(base, c) : CallsTo(Kept(base, c)[i], k)) =>
        c \in Keys(head) /\ a \in DOMAIN holds[c]

\* A check k made itself on a parameter, which every caller now makes instead.
MovedUp(base, head, holds, k, a) ==
    LET calls == UNION {{<<c, i>> : i \in {j \in DOMAIN Kept(base, c) : CallsTo(Kept(base, c)[j], k)}} :
                        c \in Keys(base)}
    IN  /\ RootOf(a.var.of) \in Range(Params(base, k))
        /\ calls # {}
        /\ \A call \in calls :
              \A want \in Through(Params(base, k), Kept(base, call[1])[call[2]].args,
                                   Above(base, call[1], call[2]), a) :
                  call[1] \in Keys(head) /\ want.atom \in DOMAIN holds[call[1]]

\* Mutant: the call still stands where it stood.
StillCallsThere(base, head, k, e) ==
    e.from \in DOMAIN Kept(head, k) /\ Kept(head, k)[e.from] = Kept(base, k)[e.from]

\* The call an entry came through is still made, in the same words.
StillCalls(base, head, k, e) ==
    \E i \in DOMAIN Kept(head, k) :
        LET c == Kept(head, k)[i]
            d == Kept(base, k)[e.from]
        IN  c.s = "call" /\ c.propagated /\ c.fn = d.fn /\ c.args = d.args

\* What changed is inside the fn called, which is compared on its own.
NamedInside(base, head, k, e) ==
    /\ StillCalls(base, head, k, e) /\ e.own
    /\ <<Kept(base, k)[e.from].fn>> \in Keys(base) \cap Keys(head)

\* What k's atom of base is compared with instead, when that is one new thing.
Instead(had, has, a) ==
    LET new == {h.against : h \in {x \in has :
                   /\ x.kind = a.kind /\ x.var = a.var /\ a.against # Nothing
                   /\ \A b \in had : b.kind = x.kind /\ b.var = x.var => b.against # x.against}}
    IN  IF Cardinality(new) = 1 THEN new ELSE {}

\* What is reported: the fn, the atom, the name shown, and how it went.
Lost(base, head, had, has) ==
    LET why(k, e) ==
            IF e.from = 0 THEN "condition" ELSE IF StillCalls(base, head, k, e) THEN "emptied" ELSE "call"
        change(k, a) ==
            LET e == had[k][a]
            IN  [fn |-> k, atom |-> a, shown |-> e.shown, why |-> why(k, e), from |-> e.from,
                 instead |-> Instead(DOMAIN had[k], DOMAIN has[k], a)]
        lost(k) ==
            {a \in DOMAIN had[k] \ DOMAIN has[k] :
                LET e == had[k][a]
                IN  /\ ~Gone(base, head, k, e)
                    /\ IsArm(k) => a \notin DOMAIN had[Parent(k)]
                    /\ IF e.from = 0 THEN ~MovedUp(base, head, has, k, a)
                       ELSE ~NamedInside(base, head, k, e)}
    IN  UNION {{change(k, a) : a \in lost(k)} :
                  k \in {x \in Keys(base) \cap Keys(head) : ~TurnedOff(Text(head, x))}}

Changes(base, head) == Lost(base, head, Holds(base), Holds(head))
=============================================================================
