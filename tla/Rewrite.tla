------------------------------ MODULE Rewrite ------------------------------
(***************************************************************************)
(* The changes a developer makes to a native program between the commit a  *)
(* reviewer saw and the one solinv diff is asked about, a statement at a   *)
(* time, and what the two programs check when they run: the reference      *)
(* Native's reading of their text is held against.                         *)
(***************************************************************************)
EXTENDS Native

CONSTANTS
    Programs,  \* the programs a reviewer may have seen
    NewName,   \* a name no program uses, and one that begins with an underscore
    NewFn,     \* a fn name no program uses
    MaxEdits   \* how many changes apart the two programs may be

VARIABLES base, head, edits,
          reworded  \* what got another name: "variable", one the slice gives no place; "account", any other

vars == <<base, head, edits, reworded>>

Init == base \in Programs /\ head = base /\ edits = 0 /\ reworded = {}

-----------------------------------------------------------------------------
(* What a program checks when it runs.  A fact is a flag an account must    *)
(* have, or two values that must be equal; a value is an account's key or   *)
(* owner, or something no account determines.                               *)

Nexts(code, i) == Cardinality({j \in 1..i : code[j].s = "next"})

\* What a name stands for at position i of code, called in env.
Stands(code, i, env, name) ==
    LET binders == {j \in 1..(i - 1) : Binds(code[j], name) \/ (code[j].s = "next" /\ code[j].name = name)}
        last == CHOOSE j \in binders : \A l \in binders : l <= j
    IN  CASE binders # {} ->
                IF code[last].s = "next" THEN Account(Places[Nexts(code, last)]) ELSE Account(PlaceIn(code[last], name))
          [] name \in DOMAIN env -> env[name]
          [] name \in Range(Places) -> Account(name)
          [] OTHER -> Value(name)

Meaning(code, i, env, o) ==
    LET thing == Stands(code, i, env, o.of)
    IN  IF Sided(o) THEN [thing EXCEPT !.side = o.side] ELSE thing

Fact(kind, things) == [kind |-> kind, on |-> things]

FactsOfPart(code, i, env, part) ==
    LET t == part.tests[1]
    IN  IF Len(part.tests) # 1 \/ \E w \in part.when : Stands(code, i, env, w) # Yes THEN {}
        ELSE CASE t.test = "other" -> {}
               [] t.test = "differs" -> {Fact("same", {Meaning(code, i, env, t.x), Meaning(code, i, env, t.y)})}
               [] OTHER -> {Fact(t.test, {Meaning(code, i, env, t.x)})}

EnvOf(p, code, i, env) ==
    LET params == p[code[i].fn].params
    IN  [name \in Range(params) \ {Slice} |->
            Meaning(code, i, env, code[i].args[CHOOSE n \in DOMAIN params : params[n] = name])]

RECURSIVE Enforced(_, _, _), UsedBy(_, _, _)

\* A condition holds where it stands; a call's facts, where its error is passed on.
Enforced(p, code, env) ==
    UNION {CASE code[i].s = "if" -> UNION {FactsOfPart(code, i, env, part) : part \in Range(code[i].parts)}
             [] code[i].s = "call" /\ code[i].propagated /\ code[i].fn \in DOMAIN p ->
                    Enforced(p, p[code[i].fn].pre, EnvOf(p, code, i, env))
             [] OTHER -> {} : i \in DOMAIN code}

\* The accounts a program does something with besides checking them.
UsedBy(p, code, env) ==
    UNION {CASE code[i].s = "use" -> {Meaning(code, i, env, code[i].x).of}
             [] code[i].s = "call" /\ code[i].fn \in DOMAIN p ->
                    UsedBy(p, p[code[i].fn].pre, EnvOf(p, code, i, env))
             [] OTHER -> {} : i \in DOMAIN code}

\* Called from outside: each parameter an account of its own, the slice the slice.
Inputs(p, k) ==
    [name \in Range(Params(p, k)) \ {Slice} |->
        Account(<<"in1", "in2", "in3">>[CHOOSE n \in DOMAIN Params(p, k) : Params(p, k)[n] = name])]

FactsAt(p, k) == Enforced(p, Kept(p, k), Inputs(p, k))
UsedAt(p, k) == UsedBy(p, Kept(p, k), Inputs(p, k))

-----------------------------------------------------------------------------
Becomes(version) ==
    /\ edits < MaxEdits /\ version # head
    /\ edits' = edits + 1 /\ head' = version
    /\ UNCHANGED base

Plain(version) == Becomes(version) /\ UNCHANGED reworded
Reword(version, what) == Becomes(version) /\ reworded' = reworded \cup {what}

\* A fn's code: what runs before the match (0), and its arms.
Segments(f) == 0..Len(head[f].arms)
Code(f, n) == IF n = 0 THEN head[f].pre ELSE head[f].arms[n].body
With(f, n, code) ==
    IF n = 0 THEN [head EXCEPT ![f].pre = code] ELSE [head EXCEPT ![f].arms[n].body = code]

Splice(code, i, stmts) == SubSeq(code, 1, i - 1) \o stmts \o SubSeq(code, i + 1, Len(code))

DropPart(f, n, i, m) ==
    LET code == Code(f, n)
        left == RemoveAt(code[i].parts, m)
    IN  Plain(With(f, n, Splice(code, i, IF left = <<>> THEN <<>> ELSE <<If(left)>>)))

\* The condition is weakened by another, or compares with something else.
LoosenPart(f, n, i, m) ==
    LET part == Code(f, n)[i].parts[m]
        put(new) == Plain(With(f, n, [Code(f, n) EXCEPT ![i].parts[m] = new]))
    IN  \/ Len(part.tests) = 1 /\ put([part EXCEPT !.tests = Append(@, Other)])
        \/ \E t \in DOMAIN part.tests :
              part.tests[t].test = "differs" /\ put([part EXCEPT !.tests[t].y = Value("OTHER_ID")])

DropStatement(f, n, i) ==
    Code(f, n)[i].s \in {"call", "use"} /\ Plain(With(f, n, RemoveAt(Code(f, n), i)))

IgnoreResult(f, n, i) ==
    /\ Code(f, n)[i].s = "call" /\ Code(f, n)[i].propagated
    /\ Plain(With(f, n, [Code(f, n) EXCEPT ![i].propagated = FALSE]))

\* Another of the arguments is passed in place of one, or false for a flag.
PassOther(f, n, i) ==
    /\ Code(f, n)[i].s = "call"
    /\ \E a, b \in DOMAIN Code(f, n)[i].args :
          LET args == Code(f, n)[i].args
              new == IF args[a] = Yes THEN Value("false") ELSE [args[b] EXCEPT !.side = args[a].side]
          IN  /\ a = b => args[a] = Yes
              /\ a # b => args[a] # Yes /\ args[b] # Yes
              /\ Plain(With(f, n, [Code(f, n) EXCEPT ![i].args[a] = new]))

TurnOff(f, n) == Plain(With(f, n, <<Off>> \o Code(f, n)))

\* An account the fn does nothing with any more: its statements go, its place is kept by a name
\* nothing reads.
StopTaking(f, n, i) ==
    LET code == Code(f, n)
        name == code[i].names[1]
        about(stmt) == \E o \in Range(OperandsIn(stmt)) : o.of = name
    IN  /\ code[i].s = "let" /\ ~code[i].slice
        /\ n = 0 => head[f].arms = <<>>
        /\ \A j \in DOMAIN code : about(code[j]) => code[j].s = "use" \/ (code[j].s = "if" /\ Len(code[j].parts) = 1)
        /\ Plain(With(f, n, SelectSeq([code EXCEPT ![i].names = <<NewName[2]>>], LAMBDA stmt : ~about(stmt))))

-----------------------------------------------------------------------------
(* Changes that keep every check, in other words.                           *)

Renaming(o, old, new) == IF o.of = old THEN [o EXCEPT !.of = new] ELSE o
RenamedPart(part, old, new) ==
    [when |-> {IF w = old THEN new ELSE w : w \in part.when},
     tests |-> [t \in DOMAIN part.tests |->
                  [part.tests[t] EXCEPT !.x = Renaming(@, old, new), !.y = Renaming(@, old, new)]]]
RenamedStatement(stmt, old, new) ==
    LET name(n) == IF n = old THEN new ELSE n
    IN  CASE stmt.s = "if" -> If([n \in DOMAIN stmt.parts |-> RenamedPart(stmt.parts[n], old, new)])
          [] stmt.s = "call" -> [stmt EXCEPT !.args = [n \in DOMAIN stmt.args |-> Renaming(stmt.args[n], old, new)]]
          [] stmt.s = "use" -> Use(Renaming(stmt.x, old, new))
          [] stmt.s = "let" -> [stmt EXCEPT !.names = [n \in DOMAIN stmt.names |-> name(stmt.names[n])]]
          [] stmt.s = "next" -> NextAccount(name(stmt.name))
          [] OTHER -> stmt
RenamedCode(code, old, new) == [i \in DOMAIN code |-> RenamedStatement(code[i], old, new)]
RenamedFn(fn, old, new) ==
    [params |-> [n \in DOMAIN fn.params |-> IF fn.params[n] = old THEN new ELSE fn.params[n]],
     pre |-> RenamedCode(fn.pre, old, new),
     arms |-> [n \in DOMAIN fn.arms |-> [fn.arms[n] EXCEPT !.body = RenamedCode(@, old, new)]]]

\* Every name a fn binds, and those of them the text does not give a place.
BoundIn(f) ==
    LET all == head[f].pre \o Bodies(head[f].arms)
    IN  Range(head[f].params) \cup UNION {IF all[i].s = "let" THEN Range(all[i].names) ELSE
                                          IF all[i].s = "next" THEN {all[i].name} ELSE {} : i \in DOMAIN all}
Unplaced(f) ==
    LET all == head[f].pre \o Bodies(head[f].arms)
    IN  Range(head[f].params) \cup {all[i].name : i \in {j \in DOMAIN all : all[j].s = "next"}}

RenameLocal(f, old) ==
    /\ old \in BoundIn(f) \ ({Slice, "_"} \cup Unused) /\ NewName[1] \notin BoundIn(f)
    /\ Reword([head EXCEPT ![f] = RenamedFn(@, old, NewName[1])],
              IF old \in Unplaced(f) THEN "variable" ELSE "account")

\* accounts[1] for the name a let gave it.
IndexDirectly(f, n, i) ==
    LET code == Code(f, n)
    IN  /\ code[i].s = "let" /\ ~code[i].slice /\ code[i].names[1] \notin Unused
        /\ \A j \in (i + 1)..Len(code) : ~Binds(code[j], code[i].names[1])
        /\ n = 0 => head[f].arms = <<>>
        /\ Reword(With(f, n, SubSeq(code, 1, i - 1) \o
               RenamedCode(SubSeq(code, i + 1, Len(code)), code[i].names[1], Places[code[i].places[1]])), "account")

\* A helper's statements in place of the call of it.
Substituted(stmt, params, args) ==
    LET sub(o) == Argument(params, args, o)
    IN  CASE stmt.s = "if" ->
                If([n \in DOMAIN stmt.parts |->
                    [when |-> {w \in stmt.parts[n].when : Argument(params, args, Value(w)) # Yes},
                     tests |-> [t \in DOMAIN stmt.parts[n].tests |->
                        [stmt.parts[n].tests[t] EXCEPT !.x = sub(@), !.y = sub(@)]]]])
          [] stmt.s = "call" -> [stmt EXCEPT !.args = [n \in DOMAIN stmt.args |-> sub(stmt.args[n])]]
          [] stmt.s = "use" -> Use(sub(stmt.x))
          [] OTHER -> stmt

Substitutable(f) == \A i \in DOMAIN head[f].pre : head[f].pre[i].s \in {"if", "call", "use"}

Inline(f, n, i) ==
    LET call == Code(f, n)[i]
    IN  /\ call.s = "call" /\ call.propagated /\ call.fn \in DOMAIN head /\ Substitutable(call.fn)
        /\ \A a \in Range(call.args) : a # Value("false")
        /\ Reword(With(f, n, Splice(Code(f, n), i,
               [j \in DOMAIN head[call.fn].pre |->
                    Substituted(head[call.fn].pre[j], head[call.fn].params, call.args)])), "account")

\* A check of a helper's, made by the fns that call it instead.
MoveUp(f, i) ==
    LET stmt == head[f].pre[i]
        calls(code) == {j \in DOMAIN code : CallsTo(code[j], <<f>>)}
        up(code) == FlattenSeq([j \in DOMAIN code |->
                        IF j \in calls(code) THEN <<Substituted(stmt, head[f].params, code[j].args), code[j]>>
                        ELSE <<code[j]>>])
        without == [head EXCEPT ![f].pre = RemoveAt(@, i)]
    IN  /\ stmt.s = "if" /\ head[f].params # <<>> /\ Slice \notin Range(head[f].params)
        /\ \A g \in DOMAIN head : \A j \in 1..Len(head[g].pre) : 
              CallsTo(head[g].pre[j], <<f>>) => \A a \in Range(head[g].pre[j].args) : a # Value("false")
        /\ Reword([g \in DOMAIN head |->
               [without[g] EXCEPT !.pre = up(@),
                                  !.arms = [n \in DOMAIN @ |-> [@[n] EXCEPT !.body = up(@)]]]], "account")

\* A check before the match, made in each arm instead.
MoveIntoArms(f, i) ==
    /\ head[f].arms # <<>> /\ head[f].pre[i].s \in {"if", "call"}
    /\ Plain([head EXCEPT ![f].pre = RemoveAt(@, i),
                          ![f].arms = [n \in DOMAIN @ |-> [@[n] EXCEPT !.body = <<head[f].pre[i]>> \o @]]])

\* A helper gets another name, where it is and where it is called.
RenameFn(f) ==
    LET called(code) == [i \in DOMAIN code |->
                            IF code[i].s = "call" /\ code[i].fn = f THEN [code[i] EXCEPT !.fn = NewFn] ELSE code[i]]
        name(g) == IF g = NewFn THEN f ELSE g
    IN  /\ NewFn \notin DOMAIN head /\ head[f].arms = <<>> /\ Slice \notin Range(head[f].params)
        /\ Plain([g \in (DOMAIN head \ {f}) \cup {NewFn} |->
               [head[name(g)] EXCEPT !.pre = called(@),
                                     !.arms = [n \in DOMAIN @ |-> [@[n] EXCEPT !.body = called(@)]]]])

Next ==
    \E f \in DOMAIN head :
        \/ \E n \in Segments(f) :
              \/ TurnOff(f, n)
              \/ \E i \in DOMAIN Code(f, n) :
                    \/ /\ Code(f, n)[i].s = "if"
                       /\ \E m \in DOMAIN Code(f, n)[i].parts : DropPart(f, n, i, m) \/ LoosenPart(f, n, i, m)
                    \/ DropStatement(f, n, i) \/ IgnoreResult(f, n, i) \/ PassOther(f, n, i)
                    \/ StopTaking(f, n, i) \/ IndexDirectly(f, n, i) \/ Inline(f, n, i)
        \/ \E i \in DOMAIN head[f].pre : MoveUp(f, i) \/ MoveIntoArms(f, i)
        \/ \E old \in BoundIn(f) : RenameLocal(f, old)
        \/ RenameFn(f)

Spec == Init /\ [][Next]_vars

-----------------------------------------------------------------------------
\* An atom of k as the fact it is when k is called from outside.
AtomFact(k, a) ==
    LET code == Kept(base, k)
        thing(o) == Meaning(code, Len(code) + 1, Inputs(base, k), o)
    IN  IF a.kind \in {"key", "owner"}
        THEN Fact("same", {thing([a.var EXCEPT !.side = a.kind]), thing(a.against)})
        ELSE Fact(a.kind, {thing(a.var)})

RECURSIVE CalledFrom(_, _)
CalledFrom(p, k) ==
    LET fns == {Kept(p, k)[i].fn : i \in {j \in DOMAIN Kept(p, k) : Kept(p, k)[j].s = "call"}} \cap DOMAIN p
    IN  {k} \cup (IF IsArm(k) THEN {Parent(k)} ELSE {}) \cup UNION {CalledFrom(p, <<f>>) : f \in fns}

RECURSIVE Fails(_, _)
Fails(p, code) ==
    \E i \in DOMAIN code :
        \/ code[i].s = "off"
        \/ code[i].s = "call" /\ code[i].propagated /\ code[i].fn \in DOMAIN p /\ Fails(p, p[code[i].fn].pre)

\* Accounts a fn called from k takes one after the other: k's text has no name for them.
TakenBelow(k) ==
    UNION {{Places[n] : n \in 1..Nexts(Kept(base, g), Len(Kept(base, g)))} : g \in CalledFrom(base, k) \ {k}}

\* Facts k had and lost, about accounts it still does something with.
LostAt(k) ==
    {fact \in FactsAt(base, k) \ FactsAt(head, k) :
        {t.of : t \in {x \in fact.on : x.side # "value"}} \subseteq UsedAt(head, k) \ TakenBelow(k)}

(* native.rs, 1: "the account checks a change removes from the code itself".  What an  *)
(* instruction no longer checks, of an account it still uses, is named: on it, or on a *)
(* fn it called.                                                                       *)
EveryDroppedCheckIsNamed ==
    LET own(k) == {k} \cup (IF IsArm(k) THEN {Parent(k)} ELSE {})
    IN  \A reported \in {Changes(base, head)}, k \in {x \in Keys(base) \cap Keys(head) : ~Fails(head, Kept(head, x))} :
            \A fact \in LostAt(k) :
                \/ "variable" \in reworded
                \/ \E c \in reported : c.fn \in own(k) /\ AtomFact(c.fn, c.atom) = fact
                \/ \E c \in reported : /\ c.fn \in CalledFrom(base, k) \ own(k)
                                       /\ AtomFact(c.fn, c.atom).kind = fact.kind

\* Instructions: what no fn calls.
Entries(p) == {k \in Keys(p) : \A c \in Keys(p) : \A i \in DOMAIN Kept(p, c) : ~CallsTo(Kept(p, c)[i], k)}

\* The accounts fn f's code, or its arms', does anything with, or has a name for.
TakenIn(p, f) ==
    LET taken(code, i, env) ==
            {Meaning(code, i, env, o).of : o \in Range(OperandsIn(code[i]))}
                \cup {Places[n] : n \in {m \in DOMAIN Places : code[i].s = "let" /\ ~(BoundTo(code[i], Places[m]) \subseteq Unused)}}
    IN  UNION {UNION {taken(Kept(p, k), i, Inputs(p, <<f>>)) : i \in DOMAIN Kept(p, k)} :
                  k \in {x \in Keys(p) : x[1] = f}}

\* The check c names is one its fn made and makes no more, lost in an instruction that ran it.
IsGone(c) ==
    LET fact == AtomFact(c.fn, c.atom)
    IN  /\ fact \in FactsAt(base, c.fn) \ FactsAt(head, c.fn)
        /\ \E k \in Entries(base) :
              /\ c.fn \in CalledFrom(base, k)
              /\ \E lost \in FactsAt(base, k) \ (IF k \in Keys(head) THEN FactsAt(head, k) ELSE {}) :
                    lost.kind = fact.kind

\* A comparison of two accounts, which the text names in an order of its own.
TwoAccounts(a) == Sided(a.against)

(* docs/native-diff.md, 56: "A check moved into a helper, out of one into every caller, *)
(* or from one spelling to another is not reported."  Unless a variable the slice gives *)
(* no place got another name, what is named is gone.                                    *)
SpellingIsNotReported ==
    \A c \in Changes(base, head) : "variable" \in reworded \/ IsGone(c)

(* native.rs, 1: "the account checks a change removes from the code itself".  What is   *)
(* named was a check of the fn, on an account it still takes, and is gone; but after an *)
(* account got another name, when it compared two accounts, and after a variable did.   *)
NamedChecksAreGone ==
    \A c \in Changes(base, head) :
        /\ AtomFact(c.fn, c.atom) \in FactsAt(base, c.fn)
        /\ "variable" \in reworded \/ (reworded # {} /\ TwoAccounts(c.atom)) \/ IsGone(c)
        /\ c.atom.var.of \in Range(Places) => {c.atom.var.of, Slice} \cap TakenIn(head, c.fn[1]) # {}

(* native.rs, 799: "what changed is inside it, reported there".  A check gone from a fn *)
(* is not named again on the fns that still call it.                                    *)
NamedOnce ==
    \A reported \in {Changes(base, head)} :
        \A c \in {x \in reported : x.from # 0}, d \in reported :
          LET call == Kept(base, c.fn)[c.from]
          IN  (call.fn = d.fn[1] /\ ~IsArm(d.fn) /\ call \in Range(Kept(head, c.fn)))
                => \A got \in Through(Params(base, d.fn), call.args, Above(base, c.fn, c.from), d.atom) : got.atom # c.atom
=============================================================================
