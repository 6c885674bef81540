------------------------------ MODULE IdlDiff ------------------------------
(***************************************************************************)
(* solinv diff --base-idl --head-idl: idl_diff.rs, over IDLs as idl.rs     *)
(* reads them.  An IDL is a function from instruction names to accounts in *)
(* order, with whether it was converted from the legacy format.  An        *)
(* address and a pda are sets of at most one value; a change read from an  *)
(* IDL is one of SourceDiff's, on the path the base calls the slot.        *)
(***************************************************************************)
EXTENDS SourceDiff

\* The order of the accounts of an instruction: that of their paths.
PathBefore(p, q) ==
    \/ p[1] < q[1]
    \/ p[1] = q[1] /\ Len(p) < Len(q)
    \/ p[1] = q[1] /\ Len(p) = 2 /\ Len(q) = 2 /\ p[2] < q[2]

First(paths) == CHOOSE p \in paths : \A q \in paths : ~PathBefore(q, p)

InOrder(paths) ==
    LET left[n \in 0..Cardinality(paths)] ==
            IF n = 0 THEN paths ELSE left[n - 1] \ {First(left[n - 1])}
    IN  [k \in 1..Cardinality(paths) |-> First(left[k - 1])]

-----------------------------------------------------------------------------
(* What anchor build writes of a version, with account resolution or not.   *)

SeedsOf(slots, path) ==
    {{<<IF n = Constant THEN "const" ELSE IF Sibling(path, n) \in DOMAIN slots THEN "account" ELSE "arg", n>> :
        n \in names} : names \in slots[path].seeds}

\* The slots that declare has_one on this one.
DeclarersOf(slots, path) ==
    {Leaf(q) : q \in {x \in DOMAIN slots : Front(x) = Front(path) /\ Leaf(path) \in slots[x].has_one}}

FixedInIdl(s) == s.ty \in {"Program", "Sysvar"} \/ Constant \in AddressNames(s)

\* An optional account may be left out; one that is passed signs as its type says.
SignsIfPassed(s) == Signs([s EXCEPT !.optional = FALSE])

Account(slots, path, resolved) ==
    LET s == slots[path]
    IN  [path |-> path, writable |-> s.mutable, optional |-> s.optional,
         signer |-> SignsIfPassed(s),
         address |-> IF resolved /\ FixedInIdl(s) THEN {s.of} ELSE {},
         pda |-> IF ~resolved THEN {} ELSE SeedsOf(slots, path) \cup {{<<"ata", n>>} : n \in s.ata},
         relations |-> IF resolved THEN DeclarersOf(slots, path) ELSE {}]

AnchorIdl(version, resolved) ==
    [legacy |-> FALSE,
     ixs |-> [i \in DOMAIN version |->
        [args |-> version[i].args,
         accounts |-> LET paths == InOrder(DOMAIN version[i].slots)
                      IN  [k \in DOMAIN paths |-> Account(version[i].slots, paths[k], resolved)]]]]

\* The same in the format before 0.30: a has_one is on the slot that declares it, and no
\* slot has an address.
AsLegacy(slots, accounts) ==
    [k \in DOMAIN accounts |->
        [accounts[k] EXCEPT !.address = {}, !.relations = slots[accounts[k].path].has_one]]

LegacyIdl(version) ==
    LET idl == AnchorIdl(version, TRUE)
    IN  [i \in DOMAIN version |->
            [args |-> version[i].args, accounts |-> AsLegacy(version[i].slots, idl.ixs[i].accounts)]]

\* legacy.rs, convert: each has_one moves onto the sibling it names.
Onto(accounts, path) ==
    {Leaf(b.path) : b \in {x \in Range(accounts) : Front(x.path) = Front(path) /\ Leaf(path) \in x.relations}}

Converted(accounts) ==
    [k \in DOMAIN accounts |-> [accounts[k] EXCEPT !.relations = Onto(accounts, accounts[k].path)]]

Convert(ixs) ==
    [legacy |-> TRUE,
     ixs |-> [i \in DOMAIN ixs |-> [args |-> ixs[i].args, accounts |-> Converted(ixs[i].accounts)]]]

-----------------------------------------------------------------------------
IsSilent(a) == ~a.signer /\ a.pda = {} /\ a.address = {}

IsUnsignedWriter(ix) ==
    /\ \A a \in Range(ix.accounts) : ~a.signer
    /\ \E a \in Range(ix.accounts) : a.writable /\ IsSilent(a)

Paths(ix) == {a.path : a \in Range(ix.accounts)}

\* Whether a slot that is gone had a check worth a word: more than a fixed address.
AccountChecks(a) == a.signer \/ a.pda # {} \/ a.relations # {}

-----------------------------------------------------------------------------
(* Slots only the base has, paired with slots only the head has.            *)

ListedBy(ix, path) ==
    {Leaf(a.path) : a \in {x \in Range(ix.accounts) :
                              Front(x.path) = Front(path) /\ Leaf(path) \in x.relations}}

GoneSlots(b, h) == SelectSeq(b.accounts, LAMBDA a : a.path \notin Paths(h))

Pairs(b, h) ==
    LET gone == GoneSlots(b, h)
        free == GoneSlots(h, b)
        shared(x, y) == Cardinality(ListedBy(b, x.path) \cap ListedBy(h, y.path))
                            + Cardinality(x.relations \cap y.relations)
        bit(on) == IF on THEN 1 ELSE 0
        score(x, y) == <<shared(x, y), bit(Front(x.path) = Front(y.path)),
                         bit((x.pda = {}) = (y.pda = {})), bit(x.address = y.address)>>
        agree(x, y) == x.signer = y.signer /\ x.writable = y.writable
    IN  {[score |-> score(gone[k[1]], free[k[2]]), at |-> k,
          base |-> gone[k[1]], head |-> free[k[2]], shared |-> shared(gone[k[1]], free[k[2]])] :
            k \in {j \in (DOMAIN gone) \X (DOMAIN free) : agree(gone[j[1]], free[j[2]])}}

\* Best first, then in the order of the accounts.
Better(x, y) ==
    LET higher(s, t) == \E k \in DOMAIN s : s[k] > t[k] /\ \A j \in 1..(k-1) : s[j] = t[j]
    IN  \/ higher(x.score, y.score)
        \/ x.score = y.score /\ higher(y.at, x.at)

Renames(b, h) ==
    FoldLeft(LAMBDA chosen, x :
                IF \E y \in chosen : y.base = x.base \/ y.head = x.head THEN chosen ELSE chosen \cup {x},
             {}, SetToSortSeq(Pairs(b, h), Better))

\* Plainly a rename, and nothing to tell a reader of.
OneToOne(b, h, x) ==
    LET candidate(a) == AccountChecks(a) \/ a.address = {}
        beside(S, path) == SelectSeq(S, LAMBDA a : Front(a.path) = Front(path))
    IN  /\ Len(SelectSeq(beside(GoneSlots(b, h), x.base.path), candidate)) = 1
        /\ Len(beside(GoneSlots(h, b), x.head.path)) = 1

Plain(b, h, x) ==
    LET named == \E a \in Range(b.accounts) :
                    /\ Front(a.path) = Front(x.base.path)
                    /\ <<"account", Leaf(x.base.path)>> \in UNION a.pda
        checks == AccountChecks(x.base) \/ x.base.address # {} \/ named
    IN  OneToOne(b, h, x) /\ (x.shared > 0 \/ ~checks)

HeadPath(renames, path) ==
    IF \E x \in renames : x.base.path = path
    THEN (CHOOSE x \in renames : x.base.path = path).head.path ELSE path

\* A sibling of path, in the head's names.
HeadName(renames, path, name) == Leaf(HeadPath(renames, Sibling(path, name)))

-----------------------------------------------------------------------------
\* seed_key, same_seeds: an account is named as the head names it.
SameSeeds(renames, path, was, now) ==
    {IF s[1] = "account" THEN <<s[1], HeadName(renames, path, s[2])>> ELSE s : s \in was} = now

\* The slots that no longer declare has_one on a, c in the head.
\* Mutant: only those that kept their name are looked for.
LostHasOnesKept(renames, a, c) ==
    {r \in a.relations : HeadName(renames, a.path, r) = r /\ r \notin c.relations}
LostHasOnes(renames, a, c) == {r \in a.relations : HeadName(renames, a.path, r) \notin c.relations}

\* guessed: the head instruction was paired by shape, so nothing is sure.
\* Mutant: what a pairing finds is as sure as what the name says.
SureAlways(guessed, a, c) == TRUE
Sure(guessed, a, c) == ~guessed /\ a.path = c.path

DiffAccount(b, h, ix, a, c, renames, guessed, resolved, legacy) ==
    LET read(S, T) == \E x \in S, y \in T : ~SameSeeds(renames, a.path, x, y)
        addresses == resolved /\ ~legacy
        lostHas == IF resolved THEN LostHasOnes(renames, a, c) ELSE {}
        stays(r) == /\ HeadPath(renames, Sibling(a.path, r)) = Sibling(a.path, r)
                    /\ Sibling(a.path, r) \in Paths(h)
        removed == \/ a.signer /\ ~c.signer
                   \/ resolved /\ a.pda # {} /\ c.pda = {}
                   \/ addresses /\ a.address # {} /\ c.address = {}
                   \/ \E r \in lostHas : stays(r)
    IN  When(removed, IF Sure(guessed, a, c) THEN Regression(ix, a.path, "removed") ELSE Warning(ix, a.path, "removed"))
            \cup When(\E r \in lostHas : ~stays(r), Warning(ix, a.path, "loosened"))
            \cup When(resolved /\ read(a.pda, c.pda), Warning(ix, a.path, "seeds"))
            \cup When(addresses /\ a.address # {} /\ c.address # {} /\ a.address # c.address,
                      Warning(ix, a.path, "address"))
            \cup When(~a.optional /\ c.optional, Warning(ix, a.path, "optional"))

DiffIdlIx(b, h, ix, guessed, resolved, legacy) ==
    LET renames == Renames(b, h)
        at(path) == {c \in Range(h.accounts) : c.path = HeadPath(renames, path)}
        gone == {a \in Range(b.accounts) : at(a.path) = {}}
        kept == Range(b.accounts) \ gone
        signers(x) == Cardinality({k \in DOMAIN x.accounts : x.accounts[k].signer})
        reported == \/ \E a \in gone : a.signer
                    \/ \E a \in kept : a.signer /\ \A c \in at(a.path) : ~c.signer
    IN  {Warning(ix, x.base.path, "guess") : x \in {y \in renames : ~Plain(b, h, y)}}
            \cup {Warning(ix, a.path, "slot") : a \in {x \in gone : AccountChecks(x)}}
            \cup (UNION {DiffAccount(b, h, ix, x[1], x[2], renames, guessed, resolved, legacy) :
                            x \in {y \in kept \X Range(h.accounts) : y[2] \in at(y[1].path)}})
            \cup When(signers(h) < signers(b) /\ ~reported, Warning(ix, <<>>, "signers"))
            \cup When(~IsUnsignedWriter(b) /\ IsUnsignedWriter(h), Warning(ix, <<>>, "unsigned"))

-----------------------------------------------------------------------------
Overlap(b, h) == Cardinality(Paths(b) \cap Paths(h))

\* The last of those with the most, as max_by_key takes it.
Closest(S, b, idl) ==
    CHOOSE n \in S : \A m \in S :
        LET x == Overlap(b, idl.ixs[n]) y == Overlap(b, idl.ixs[m]) IN x > y \/ (x = y /\ n >= m)

RenamedIx(b, free, idl) ==
    LET most(h) == IF Len(b.accounts) > Len(h.accounts) THEN Len(b.accounts) ELSE Len(h.accounts)
        enough(h) == IF b.args = <<>> THEN Overlap(b, h) * 10 >= most(h) * 9
                     ELSE Overlap(b, h) * 4 >= most(h) * 3
        like == {n \in free : idl.ixs[n].args = b.args /\ enough(idl.ixs[n])}
    IN  IF b.accounts = <<>> \/ like = {} THEN {} ELSE {Closest(like, b, idl)}

\* The base instructions gone, in order, each paired with a new one no other took.
RenamedTo(base, head) ==
    FoldLeft(LAMBDA paired, old :
                LET free == (DOMAIN head.ixs \ DOMAIN base.ixs) \ {x[2] : x \in paired}
                IN  paired \cup {<<old, new>> : new \in RenamedIx(base.ixs[old], free, head)},
             {}, SetToSortSeq(DOMAIN base.ixs \ DOMAIN head.ixs, <))

BuiltWithoutResolution(base, head) ==
    LET slots(idl) == UNION {Range(idl.ixs[i].accounts) : i \in DOMAIN idl.ixs}
        baseResolved == \/ \E a \in slots(base) : a.address # {}
                        \/ base.legacy /\ \E a \in slots(base) : a.pda # {} \/ a.relations # {}
        headResolved == \E a \in slots(head) : a.address # {} \/ a.pda # {} \/ a.relations # {}
    IN  baseResolved /\ ~headResolved

DiffIdl(base, head) ==
    LET resolved == ~BuiltWithoutResolution(base, head)
        renamed == RenamedTo(base, head)
        unmatched == (DOMAIN head.ixs \ DOMAIN base.ixs) \ {x[2] : x \in renamed}
        replaced == {old \in DOMAIN base.ixs \ DOMAIN head.ixs :
                        /\ \A x \in renamed : x[1] # old
                        /\ unmatched # {} /\ \E a \in Range(base.ixs[old].accounts) : AccountChecks(a)}
        compare(old, new, guessed) ==
            DiffIdlIx(base.ixs[old], head.ixs[new], new, guessed, resolved, base.legacy \/ head.legacy)
    IN  When(~resolved, Warning(0, <<>>, "unresolved"))
            \cup {Warning(old, <<>>, "replaced") : old \in replaced}
            \cup (UNION {compare(i, i, FALSE) : i \in DOMAIN base.ixs \cap DOMAIN head.ixs})
            \cup (UNION {compare(x[1], x[2], TRUE) : x \in renamed})
            \cup {Warning(n, <<>>, "new") : n \in {m \in unmatched : IsUnsignedWriter(head.ixs[m])}}
=============================================================================
