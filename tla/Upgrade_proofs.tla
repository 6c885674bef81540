--------------------------- MODULE Upgrade_proofs ---------------------------
(***************************************************************************)
(* What is proved of Upgrade for all programs, edits and numbers of edits: *)
(* the instructions of two versions are compared one to one, unbound       *)
(* misses no account that nothing ties, and no IDL fails a build for what  *)
(* the diff guessed.                                                       *)
(***************************************************************************)
EXTENDS Upgrade, FiniteSetTheorems, SequenceTheorems, WellFoundedInduction, TLAPS

-----------------------------------------------------------------------------
(* Every edit leaves a version Anchor can build.                            *)

LEMMA SlotPathFacts ==
    ASSUME NEW p \in SlotPaths
    PROVE  /\ p \in Seq(Nat) /\ p # <<>> /\ Leaf(p) \in Nat /\ Leaf(p) # Constant
           /\ Front(p) \in Seq(Nat)
           /\ Sibling(p, Leaf(p)) = p
<1>1. p \in Seq(Nat) /\ p # <<>> /\ Leaf(p) # Constant /\ Len(p) \in Nat \ {0}
  BY DEF SlotPaths
<1>2. Leaf(p) = p[Len(p)] /\ Leaf(p) \in Nat
  BY <1>1 DEF Leaf, Last
<1>3. Front(p) = SubSeq(p, 1, Len(p) - 1) /\ Front(p) \in Seq(Nat)
  BY <1>1 DEF Front
<1>4. Append(SubSeq(p, 1, Len(p) - 1), p[Len(p)]) = p
  BY <1>1
<1> QED BY <1>1, <1>2, <1>3, <1>4 DEF Sibling

LEMMA SiblingFacts ==
    ASSUME NEW p \in SlotPaths, NEW n \in Nat
    PROVE  /\ Sibling(p, n) \in Seq(Nat) /\ Sibling(p, n) # <<>> /\ Leaf(Sibling(p, n)) = n
           /\ n # Constant => Sibling(p, n) \in SlotPaths
<1>1. Front(p) \in Seq(Nat)
  BY SlotPathFacts
<1> DEFINE f == Front(p)
<1>2. /\ Append(f, n) \in Seq(Nat) /\ Append(f, n) # <<>>
      /\ Append(f, n)[Len(Append(f, n))] = n
  <2> HIDE DEF f
  <2> QED BY <1>1 DEF f
<1> QED BY <1>2 DEF Sibling, Leaf, Last, SlotPaths

\* The slots of new that old has are the same accounts; the others have new names.
Carries(old, new) ==
    \A q \in DOMAIN new.slots :
        Leaf(q) \in Fresh \/ (q \in DOMAIN old.slots /\ new.slots[q].id = old.slots[q].id)

Follows(new, old) == Built(new) /\ Carries(old, new)

\* A version that edits of the base may have led to.
Stays(v) ==
    /\ Version(v)
    /\ AddedAreNew => \A i \in DOMAIN v \cap DOMAIN base : Carries(base[i], v[i])

LEMMA FollowsOn ==
    ASSUME NEW a, NEW b, NEW c, Carries(a, b), Carries(b, c)
    PROVE  Carries(a, c)
BY DEF Carries

LEMMA PutKeeps ==
    ASSUME NEW v, Stays(v), NEW i \in DOMAIN v, NEW ix, Follows(ix, v[i])
    PROVE  Stays([v EXCEPT ![i] = ix])
<1> DEFINE w == [v EXCEPT ![i] = ix]
<1>1. DOMAIN w = DOMAIN v /\ w[i] = ix /\ \A j \in DOMAIN v : j # i => w[j] = v[j]
  OBVIOUS
<1> HIDE DEF w
<1>2. Version(w)
  BY <1>1 DEF Version, Stays, Follows
<1>3. ASSUME AddedAreNew, NEW j \in DOMAIN w \cap DOMAIN base PROVE Carries(base[j], w[j])
  <2>1. Carries(base[j], v[j])
    BY <1>1, <1>3 DEF Stays
  <2> QED BY <1>1, <2>1, FollowsOn DEF Follows
<1> QED BY <1>2, <1>3 DEF Stays, w

\* s declares the account old did.
Kin(s, old) ==
    /\ {"id", "seeds"} \subseteq DOMAIN s
    /\ {} \notin s.seeds
    /\ s.id = old.id

LEMMA SlotsKeep ==
    ASSUME NEW ix, Built(ix), NEW slots, DOMAIN slots = DOMAIN ix.slots,
           \A p \in DOMAIN slots : Kin(slots[p], ix.slots[p])
    PROVE  Follows([ix EXCEPT !.slots = slots], ix)
<1> DEFINE new == [ix EXCEPT !.slots = slots]
<1>1. DOMAIN new = DOMAIN ix /\ new.slots = slots
  BY DEF Built
<1> HIDE DEF new
<1>2. Follows(new, ix)
  BY <1>1 DEF Built, Kin, Follows, Carries
<1> QED BY <1>2 DEF new

LEMMA OwnKin ==
    ASSUME NEW ix, Built(ix), NEW p \in DOMAIN ix.slots
    PROVE  Kin(ix.slots[p], ix.slots[p])
BY DEF Built, Kin

LEMMA SlotKeeps ==
    ASSUME NEW ix, Built(ix), NEW p \in DOMAIN ix.slots, NEW s, Kin(s, ix.slots[p])
    PROVE  Follows([ix EXCEPT !.slots[p] = s], ix)
<1> DEFINE slots == [ix.slots EXCEPT ![p] = s]
<1>1. DOMAIN slots = DOMAIN ix.slots
  OBVIOUS
<1>2. \A q \in DOMAIN slots : Kin(slots[q], ix.slots[q])
  BY OwnKin
<1>3. [ix EXCEPT !.slots[p] = s] = [ix EXCEPT !.slots = slots]
  OBVIOUS
<1> HIDE DEF slots
<1> QED BY <1>1, <1>2, <1>3, SlotsKeep

LEMMA ChecksKeep ==
    ASSUME NEW ix, Built(ix), NEW c
    PROVE  Follows([ix EXCEPT !.checks = c], ix) /\ Follows([ix EXCEPT !.args = c], ix)
<1> DEFINE new == [ix EXCEPT !.checks = c]
           other == [ix EXCEPT !.args = c]
<1>1. DOMAIN new = DOMAIN ix /\ new.slots = ix.slots /\ DOMAIN other = DOMAIN ix /\ other.slots = ix.slots
  BY DEF Built
<1> HIDE DEF new, other
<1>2. Follows(new, ix) /\ Follows(other, ix)
  BY <1>1 DEF Built, Follows, Carries
<1> QED BY <1>2 DEF new, other

LEMMA BecomesKeeps ==
    ASSUME NEW v, Stays(v), Becomes(v) PROVE Stays(head')
BY DEF Becomes

\* Every edit of one slot.
LEMMA SlotEdited ==
    ASSUME Stays(head), NEW i \in DOMAIN head, NEW p \in DOMAIN head[i].slots, NEW s, Kin(s, head[i].slots[p])
    PROVE  /\ Follows(With(i, p, s), head[i])
           /\ Put(i, With(i, p, s)) \/ Weaken(i, With(i, p, s)) => Stays(head')
           /\ \A c : Put(i, [With(i, p, s) EXCEPT !.checks = c]) => Stays(head')
           /\ \A c : Reword(i, [With(i, p, s) EXCEPT !.checks = c]) => Stays(head')
<1> DEFINE w == With(i, p, s)
<1>1. Built(head[i])
  BY DEF Version, Stays
<1>2. Follows(w, head[i])
  BY <1>1, SlotKeeps DEF With
<1> HIDE DEF w
<1>3. Put(i, w) \/ Weaken(i, w) => Stays(head')
  BY <1>2, PutKeeps, BecomesKeeps DEF Put, Weaken
<1>4. ASSUME NEW c PROVE Follows([w EXCEPT !.checks = c], head[i])
  BY <1>2, ChecksKeep, FollowsOn DEF Follows
<1>5. ASSUME NEW c, \/ Put(i, [w EXCEPT !.checks = c])
                    \/ Reword(i, [w EXCEPT !.checks = c])
      PROVE  Stays(head')
  <2> DEFINE x == [w EXCEPT !.checks = c]
  <2>1. Follows(x, head[i])
    BY <1>4
  <2> HIDE DEF x
  <2>2. Put(i, x) \/ Reword(i, x)
    BY <1>5 DEF x
  <2> QED BY <2>1, <2>2, PutKeeps, BecomesKeeps DEF Put, Reword
<1> QED BY <1>2, <1>3, <1>4, <1>5 DEF w

\* Every edit of the slots of one instruction, and of its checks.
LEMMA SlotsEdited ==
    ASSUME Stays(head), NEW i \in DOMAIN head, NEW slots, DOMAIN slots = DOMAIN head[i].slots,
           \A p \in DOMAIN slots : Kin(slots[p], head[i].slots[p]),
           Put(i, [head[i] EXCEPT !.slots = slots])
    PROVE  Stays(head')
<1> DEFINE x == [head[i] EXCEPT !.slots = slots]
<1>1. Built(head[i])
  BY DEF Version, Stays
<1>2. Follows(x, head[i])
  BY <1>1, SlotsKeep
<1> HIDE DEF x
<1>3. Put(i, x)
  BY DEF x
<1> QED BY <1>2, <1>3, PutKeeps, BecomesKeeps DEF Put

LEMMA ChecksEdited ==
    ASSUME Stays(head), NEW i \in DOMAIN head, NEW c,
           \/ Put(i, [head[i] EXCEPT !.checks = c])
           \/ Put(i, [head[i] EXCEPT !.args = c])
    PROVE  Stays(head')
<1> DEFINE x == [head[i] EXCEPT !.checks = c]
           y == [head[i] EXCEPT !.args = c]
<1>1. Built(head[i])
  BY DEF Version, Stays
<1>2. Follows(x, head[i]) /\ Follows(y, head[i])
  BY <1>1, ChecksKeep
<1> HIDE DEF x, y
<1>3. Put(i, x) \/ Put(i, y)
  BY DEF x, y
<1> QED BY <1>2, <1>3, PutKeeps, BecomesKeeps DEF Put

LEMMA SlotOfHead ==
    ASSUME Stays(head), NEW i \in DOMAIN head, NEW p \in DOMAIN head[i].slots
    PROVE  /\ p \in SlotPaths /\ Built(head[i])
           /\ {"id", "seeds"} \subseteq DOMAIN head[i].slots[p]
           /\ {} \notin head[i].slots[p].seeds
           /\ Kin(head[i].slots[p], head[i].slots[p])
BY DEF Version, Stays, Built, Kin

LEMMA OneSlotEdits ==
    ASSUME Stays(head), NEW i \in DOMAIN head, NEW p \in DOMAIN head[i].slots
    PROVE  /\ LoosenType(i, p) => Stays(head')
           /\ MakeOptional(i, p) => Stays(head')
           /\ DropAttr(i, p) => Stays(head')
           /\ DropUnlisted(i, p) => Stays(head')
           /\ SwapGate(i, p) => Stays(head')
           /\ Retire(i, p) => Stays(head')
           /\ RetireSigner(i, p) => Stays(head')
           /\ IntoHandler(i, p) => Stays(head')
           /\ FromHandler(i, p) => Stays(head')
           /\ \A name : SwapIdentity(i, p, name) => Stays(head')
<1> DEFINE s == head[i].slots[p]
<1>1. {"id", "seeds"} \subseteq DOMAIN s /\ {} \notin s.seeds
  BY SlotOfHead
<1>2. Kin(Unchecked(s), s)
  BY <1>1 DEF Kin, Unchecked
<1>3. LoosenType(i, p) => Stays(head')
  BY <1>2, SlotEdited DEF LoosenType
<1>4. MakeOptional(i, p) => Stays(head')
  <2>1. Kin([s EXCEPT !.optional = TRUE], s)
    BY <1>1 DEF Kin
  <2> QED BY <2>1, SlotEdited DEF MakeOptional
<1>5. DropAttr(i, p) => Stays(head')
  <2>1. /\ Kin([s EXCEPT !.signer = FALSE], s)
        /\ Kin([s EXCEPT !.seeds = {}], s)
        /\ Kin([s EXCEPT !.address = {}], s)
        /\ Kin([s EXCEPT !.owner = FALSE], s)
        /\ Kin([s EXCEPT !.token_mint = {}], s)
        /\ Kin([s EXCEPT !.token_owner = {}], s)
        /\ Kin([s EXCEPT !.close = {}], s)
        /\ \A t : Kin([s EXCEPT !.has_one = @ \ {t}], s)
        /\ \A c : Kin([s EXCEPT !.constraints = @ \ {c}], s)
    BY <1>1 DEF Kin
  <2> QED BY <2>1, SlotEdited DEF DropAttr
<1>6. DropUnlisted(i, p) => Stays(head')
  <2>1. Kin([s EXCEPT !.init = FALSE, !.init_if_needed = TRUE], s) /\ Kin([s EXCEPT !.ata = {}], s)
    BY <1>1 DEF Kin
  <2>2. ASSUME NEW names, NEW n \in {m \in names : names # {m}} PROVE Kin([s EXCEPT !.seeds = {names \ {n}}], s)
    BY <1>1, <2>2 DEF Kin
  <2> QED BY <2>1, <2>2, SlotEdited DEF DropUnlisted
<1>7. SwapGate(i, p) => Stays(head')
  <2>1. \A cs : Kin([s EXCEPT !.constraints = cs], s)
    BY <1>1 DEF Kin
  <2> QED BY <2>1, SlotEdited DEF SwapGate
<1>8. Retire(i, p) => Stays(head')
  <2>1. Kin([Slot(s.id, "UncheckedAccount", s.of) EXCEPT !.deprecated = TRUE], s)
    BY DEF Kin, Slot
  <2> QED BY <2>1, SlotEdited DEF Retire
<1>9. RetireSigner(i, p) => Stays(head')
  <2>1. Kin([Unchecked(s) EXCEPT !.deprecated = TRUE], s)
    BY <1>1 DEF Kin, Unchecked
  <2> QED BY <2>1, SlotEdited DEF RetireSigner
<1>10. IntoHandler(i, p) => Stays(head')
  <2>1. \A t : Kin([s EXCEPT !.has_one = @ \ {t}], s)
    BY <1>1 DEF Kin
  <2>2. ASSUME NEW slot, Kin(slot, s), NEW chk,
               Reword(i, [With(i, p, slot) EXCEPT !.checks = @ (+) SetToBag({chk})])
        PROVE  Stays(head')
    <3> DEFINE c == With(i, p, slot).checks (+) SetToBag({chk})
    <3>1. Reword(i, [With(i, p, slot) EXCEPT !.checks = c])
      BY <2>2
    <3> HIDE DEF c
    <3> QED BY <2>2, <3>1, SlotEdited
  <2> QED BY <1>2, <2>1, <2>2 DEF IntoHandler
<1>11. FromHandler(i, p) => Stays(head')
  <2>1. /\ Kin([s EXCEPT !.ty = "Signer"], s)
        /\ \A of : Kin([s EXCEPT !.ty = "Account", !.of = of], s)
        /\ \A t : Kin([s EXCEPT !.has_one = @ \cup {t}], s)
    BY <1>1 DEF Kin
  <2>2. ASSUME NEW slot, Kin(slot, s), NEW chk,
               Put(i, [With(i, p, slot) EXCEPT !.checks = @ (-) SetToBag({chk})])
        PROVE  Stays(head')
    <3> DEFINE c == With(i, p, slot).checks (-) SetToBag({chk})
    <3>1. Put(i, [With(i, p, slot) EXCEPT !.checks = c])
      BY <2>2
    <3> HIDE DEF c
    <3> QED BY <2>2, <3>1, SlotEdited
  <2> QED BY <2>1, <2>2 DEF FromHandler
<1>12. ASSUME NEW name PROVE SwapIdentity(i, p, name) => Stays(head')
  <2>1. /\ Kin([s EXCEPT !.seeds = {}, !.address = {Key(name)}], s)
        /\ Kin([s EXCEPT !.seeds = {{Constant, name}}, !.address = {}], s)
    BY <1>1 DEF Kin
  <2> QED BY <2>1, SlotEdited DEF SwapIdentity
<1> HIDE DEF s
<1> QED BY <1>3, <1>4, <1>5, <1>6, <1>7, <1>8, <1>9, <1>10, <1>11, <1>12

\* Attributes of one slot, then of another.
LEMMA TwoSlotEdits ==
    ASSUME Stays(head), NEW i \in DOMAIN head, NEW p \in DOMAIN head[i].slots, NEW q \in DOMAIN head[i].slots
    PROVE  /\ Restate(i, p, q) => Stays(head')
           /\ Move(i, p, q) => Stays(head')
<1> DEFINE slots == head[i].slots
           less(h) == [slots EXCEPT ![p].has_one = h]
           gone(c) == [slots EXCEPT ![p].constraints = c]
<1>1. \A r \in DOMAIN slots : Kin(slots[r], slots[r])
  BY SlotOfHead
<1>2. ASSUME NEW f, DOMAIN f = DOMAIN slots, \A r \in DOMAIN f : Kin(f[r], slots[r]), NEW c
      PROVE  /\ DOMAIN [f EXCEPT ![q].has_one = c] = DOMAIN slots
             /\ \A r \in DOMAIN f : Kin([f EXCEPT ![q].has_one = c][r], slots[r])
             /\ DOMAIN [f EXCEPT ![q].constraints = c] = DOMAIN slots
             /\ \A r \in DOMAIN f : Kin([f EXCEPT ![q].constraints = c][r], slots[r])
             /\ DOMAIN [f EXCEPT ![q].address = c] = DOMAIN slots
             /\ \A r \in DOMAIN f : Kin([f EXCEPT ![q].address = c][r], slots[r])
  BY <1>2 DEF Kin
<1>3. ASSUME NEW h
      PROVE  /\ DOMAIN less(h) = DOMAIN slots /\ \A r \in DOMAIN less(h) : Kin(less(h)[r], slots[r])
             /\ DOMAIN gone(h) = DOMAIN slots /\ \A r \in DOMAIN gone(h) : Kin(gone(h)[r], slots[r])
  BY <1>1 DEF Kin
<1>4. ASSUME NEW f, DOMAIN f = DOMAIN slots, \A r \in DOMAIN f : Kin(f[r], slots[r]),
             Put(i, [head[i] EXCEPT !.slots = f])
      PROVE  Stays(head')
  BY <1>4, SlotsEdited
<1>5. ASSUME NEW h, NEW c,
             \/ Put(i, [head[i] EXCEPT !.slots = [less(h) EXCEPT ![q].has_one = c]])
             \/ Put(i, [head[i] EXCEPT !.slots = [less(h) EXCEPT ![q].constraints = c]])
             \/ Put(i, [head[i] EXCEPT !.slots = [less(h) EXCEPT ![q].address = c]])
             \/ Put(i, [head[i] EXCEPT !.slots = [gone(h) EXCEPT ![q].constraints = c]])
      PROVE  Stays(head')
  <2>1. /\ DOMAIN less(h) = DOMAIN slots /\ \A r \in DOMAIN less(h) : Kin(less(h)[r], slots[r])
        /\ DOMAIN gone(h) = DOMAIN slots /\ \A r \in DOMAIN gone(h) : Kin(gone(h)[r], slots[r])
    BY <1>3
  <2> DEFINE f == less(h)
             g == gone(h)
  <2>2. \/ Put(i, [head[i] EXCEPT !.slots = [f EXCEPT ![q].has_one = c]])
        \/ Put(i, [head[i] EXCEPT !.slots = [f EXCEPT ![q].constraints = c]])
        \/ Put(i, [head[i] EXCEPT !.slots = [f EXCEPT ![q].address = c]])
        \/ Put(i, [head[i] EXCEPT !.slots = [g EXCEPT ![q].constraints = c]])
    BY <1>5
  <2>3. /\ DOMAIN f = DOMAIN slots /\ \A r \in DOMAIN f : Kin(f[r], slots[r])
        /\ DOMAIN g = DOMAIN slots /\ \A r \in DOMAIN g : Kin(g[r], slots[r])
    BY <2>1
  <2> HIDE DEF slots, f, g
  <2> DEFINE f1 == [f EXCEPT ![q].has_one = c]
             f2 == [f EXCEPT ![q].constraints = c]
             f3 == [f EXCEPT ![q].address = c]
             g1 == [g EXCEPT ![q].constraints = c]
  <2>4. /\ DOMAIN f1 = DOMAIN slots /\ \A r \in DOMAIN f : Kin(f1[r], slots[r])
        /\ DOMAIN f2 = DOMAIN slots /\ \A r \in DOMAIN f : Kin(f2[r], slots[r])
        /\ DOMAIN f3 = DOMAIN slots /\ \A r \in DOMAIN f : Kin(f3[r], slots[r])
        /\ DOMAIN g1 = DOMAIN slots /\ \A r \in DOMAIN g : Kin(g1[r], slots[r])
    BY <2>3, <1>2
  <2>5. \E x \in {f1, f2, f3, g1} : Put(i, [head[i] EXCEPT !.slots = x])
    BY <2>2
  <2> HIDE DEF f1, f2, f3, g1
  <2>6. PICK x \in {f1, f2, f3, g1} : Put(i, [head[i] EXCEPT !.slots = x])
    BY <2>5
  <2>7. DOMAIN x = DOMAIN slots /\ \A r \in DOMAIN x : Kin(x[r], slots[r])
    BY <2>3, <2>4
  <2> QED BY <2>6, <2>7, <1>4
<1>6. Restate(i, p, q) => Stays(head')
  <2> SUFFICES ASSUME Restate(i, p, q) PROVE Stays(head')
    OBVIOUS
  <2>1. \E t :
          LET f == less(slots[p].has_one \ {t})
          IN  \/ Put(i, [head[i] EXCEPT !.slots =
                      [f EXCEPT ![q].constraints = f[q].constraints \cup {Equality(Field(Leaf(p), t), Key(t))}]])
              \/ Put(i, [head[i] EXCEPT !.slots = [f EXCEPT ![q].address = {Field(Leaf(p), t)}]])
    BY DEF Restate
  <2>2. PICK t : LET f == less(slots[p].has_one \ {t})
          IN  \/ Put(i, [head[i] EXCEPT !.slots =
                      [f EXCEPT ![q].constraints = f[q].constraints \cup {Equality(Field(Leaf(p), t), Key(t))}]])
              \/ Put(i, [head[i] EXCEPT !.slots = [f EXCEPT ![q].address = {Field(Leaf(p), t)}]])
    BY <2>1
  <2> DEFINE h == slots[p].has_one \ {t}
             c == less(h)[q].constraints \cup {Equality(Field(Leaf(p), t), Key(t))}
             e == {Field(Leaf(p), t)}
  <2>3. \/ Put(i, [head[i] EXCEPT !.slots = [less(h) EXCEPT ![q].constraints = c]])
        \/ Put(i, [head[i] EXCEPT !.slots = [less(h) EXCEPT ![q].address = e]])
    BY <2>2
  <2> HIDE DEF slots, h, c, e
  <2> QED BY <2>3, <1>5
<1>7. Move(i, p, q) => Stays(head')
  <2> SUFFICES ASSUME Move(i, p, q) PROVE Stays(head')
    OBVIOUS
  <2>1. CASE \E t : Put(i, [head[i] EXCEPT !.slots =
                      [less(slots[p].has_one \ {t}) EXCEPT
                          ![q].has_one = less(slots[p].has_one \ {t})[q].has_one \cup {t}]])
    <3>1. PICK t : Put(i, [head[i] EXCEPT !.slots =
                      [less(slots[p].has_one \ {t}) EXCEPT
                          ![q].has_one = less(slots[p].has_one \ {t})[q].has_one \cup {t}]])
      BY <2>1
    <3> DEFINE h == slots[p].has_one \ {t}
               c == less(h)[q].has_one \cup {t}
    <3>2. Put(i, [head[i] EXCEPT !.slots = [less(h) EXCEPT ![q].has_one = c]])
      BY <3>1
    <3> HIDE DEF slots, h, c
    <3> QED BY <3>2, <1>5
  <2>2. CASE \E t : Put(i, [head[i] EXCEPT !.slots =
                      [gone(slots[p].constraints \ {t}) EXCEPT
                          ![q].constraints = gone(slots[p].constraints \ {t})[q].constraints \cup {t}]])
    <3>1. PICK t : Put(i, [head[i] EXCEPT !.slots =
                      [gone(slots[p].constraints \ {t}) EXCEPT
                          ![q].constraints = gone(slots[p].constraints \ {t})[q].constraints \cup {t}]])
      BY <2>2
    <3> DEFINE h == slots[p].constraints \ {t}
               c == gone(h)[q].constraints \cup {t}
    <3>2. Put(i, [head[i] EXCEPT !.slots = [gone(h) EXCEPT ![q].constraints = c]])
      BY <3>1
    <3> HIDE DEF slots, h, c
    <3> QED BY <3>2, <1>5
  <2> QED BY <2>1, <2>2 DEF Move
<1> QED BY <1>6, <1>7

LEMMA RemovedSlot ==
    ASSUME Stays(head), NEW i \in DOMAIN head, NEW p \in DOMAIN head[i].slots, RemoveSlot(i, p)
    PROVE  Stays(head')
<1> DEFINE ix == head[i]
           S == DOMAIN ix.slots \ {p}
           rest == Restrict(ix.slots, S)
           checks == [c \in {d \in BagToSet(ix.checks) : \A r \in Range(d.on) : r.path # p} |-> ix.checks[c]]
           x == [ix EXCEPT !.slots = rest, !.checks = checks]
<1>1. Put(i, x)
  BY DEF RemoveSlot
<1>2. Built(ix)
  BY DEF Version, Stays
<1>3. DOMAIN rest = S /\ \A q \in S : rest[q] = ix.slots[q]
  BY DEF Restrict
<1>4. IsFiniteSet(S)
  BY <1>2, FS_Subset DEF Built
<1>5. Follows(x, ix)
  <2> HIDE DEF rest, checks, ix, S
  <2>1. DOMAIN x = DOMAIN ix /\ x.slots = rest
    BY <1>2 DEF Built
  <2>2. S \subseteq DOMAIN ix.slots
    BY DEF S
  <2> HIDE DEF x
  <2> QED BY <1>2, <1>3, <1>4, <2>1, <2>2 DEF Built, Follows, Carries
<1> HIDE DEF x
<1> QED BY <1>1, <1>5, PutKeeps, BecomesKeeps DEF Put

LEMMA RenamedSlot ==
    ASSUME Stays(head), NEW i \in DOMAIN head, NEW p \in DOMAIN head[i].slots, NEW new \in Fresh,
           NEW data, RenameSlot(i, p, new, data)
    PROVE  Stays(head')
<1> DEFINE ix == head[i]
           old == Leaf(p)
           there == Sibling(p, new)
           to(q) == IF q = p THEN there ELSE q
           from(q) == IF q = there THEN p ELSE q
           ref(r) == Ref(to(r.path), IF data THEN RenameName(r.field, old, new) ELSE r.field)
           moved(c) == [c EXCEPT !.on = [k \in DOMAIN c.on |-> ref(c.on[k])]]
           renamed(q) == IF Front(from(q)) = Front(p)
                         THEN RenameIn(ix.slots[from(q)], Leaf(from(q)), old, new, data)
                         ELSE ix.slots[from(q)]
           checks == BagToSet(ix.checks)
           S == {to(x) : x \in DOMAIN ix.slots}
           slots == [q \in S |-> renamed(q)]
           kept == [c \in {moved(x) : x \in checks} |-> ix.checks[CHOOSE x \in checks : moved(x) = c]]
           fields == IF data THEN (new :> FieldId(ix, old)) @@ ix.fields ELSE ix.fields
           x == [ix EXCEPT !.slots = slots, !.checks = kept, !.fields = fields]
<1>1. there \notin DOMAIN ix.slots /\ Reword(i, x)
  BY DEF RenameSlot
<1>2. Built(ix) /\ p \in DOMAIN ix.slots
  BY DEF Version, Stays
<1>3. there \in SlotPaths /\ Leaf(there) \in Fresh
  <2>1. new \in Nat /\ new # Constant
    BY UpgradeAssumption
  <2>2. p \in SlotPaths
    BY <1>2 DEF Built
  <2> QED BY <2>1, <2>2, SiblingFacts
<1>4. IsFiniteSet(S)
  <2>1. S = (DOMAIN ix.slots \ {p}) \cup {there}
    BY <1>2
  <2>2. IsFiniteSet(DOMAIN ix.slots \ {p})
    BY <1>2, FS_Subset DEF Built
  <2> QED BY <2>1, <2>2, FS_AddElement
<1>5. DOMAIN slots = S /\ \A q \in S : slots[q] = renamed(q)
  OBVIOUS
<1>6. ASSUME NEW q \in S
      PROVE  from(q) \in DOMAIN ix.slots /\ q = to(from(q)) /\ (q = there \/ q = from(q)) /\ q \in SlotPaths /\ Kin(slots[q], ix.slots[from(q)])
  <2>1. PICK y \in DOMAIN ix.slots : q = to(y)
    OBVIOUS
  <2>2. from(q) = y
    BY <2>1, <1>1
  <2>3. q \in SlotPaths
    BY <2>1, <1>2, <1>3 DEF Built
  <2>4. Kin(ix.slots[y], ix.slots[y])
    BY <1>2, OwnKin
  <2>5. \A a, b, c, d : Kin(RenameIn(ix.slots[y], a, b, c, d), ix.slots[y])
    <3> DEFINE s == ix.slots[y]
    <3>1. {"id", "seeds"} \subseteq DOMAIN s /\ {} \notin s.seeds
      BY <2>4 DEF Kin
    <3> HIDE DEF s
    <3>2. ASSUME NEW b, NEW c PROVE {} \notin {RenameSet(names, b, c) : names \in s.seeds}
      BY <3>1 DEF RenameSet
    <3>3. ASSUME NEW e1, NEW e2, NEW e3, NEW e4, NEW e5, NEW e6, NEW e7, NEW e8, {} \notin e1
          PROVE  Kin([s EXCEPT !.seeds = e1, !.ata = e2, !.close = e3, !.address = e4, !.token_mint = e5,
                               !.token_owner = e6, !.has_one = e7, !.constraints = e8], s)
      BY <3>1, <3>3 DEF Kin
    <3>4. ASSUME NEW a, NEW b, NEW c, NEW d PROVE Kin(RenameIn(s, a, b, c, d), s)
      <4> DEFINE field(f) == IF d THEN RenameName(f, b, c) ELSE f
                 expr(e) == [name |-> RenameName(e.name, b, c), field |-> field(e.field)]
                 self == RenameName(a, b, c)
                 e1 == {RenameSet(names, b, c) : names \in s.seeds}
                 e2 == RenameSet(s.ata, b, c)
                 e3 == RenameSet(s.close, b, c)
                 e4 == {expr(e) : e \in s.address}
                 e5 == {expr(e) : e \in s.token_mint}
                 e6 == {expr(e) : e \in s.token_owner}
                 e7 == IF d THEN RenameSet(s.has_one, b, c) ELSE s.has_one \ {b}
                 e8 == {[g EXCEPT !.names = RenameSet(@, b, c), !.eqs = {{expr(e) : e \in eq} : eq \in @}] :
                            g \in s.constraints}
                          \cup {Equality(Field(self, t), Key(c)) : t \in IF d THEN {} ELSE s.has_one \cap {b}}
      <4>1. RenameIn(s, a, b, c, d)
              = [s EXCEPT !.seeds = e1, !.ata = e2, !.close = e3, !.address = e4, !.token_mint = e5,
                          !.token_owner = e6, !.has_one = e7, !.constraints = e8]
        BY DEF RenameIn
      <4>2. {} \notin e1
        BY <3>2
      <4> HIDE DEF e1, e2, e3, e4, e5, e6, e7, e8
      <4>3. Kin([s EXCEPT !.seeds = e1, !.ata = e2, !.close = e3, !.address = e4, !.token_mint = e5,
                          !.token_owner = e6, !.has_one = e7, !.constraints = e8], s)
        BY <4>2, <3>3
      <4> HIDE DEF field, expr, self
      <4> QED BY <4>1, <4>3
    <3> QED BY <3>4 DEF s
  <2> QED BY <2>1, <2>2, <2>3, <2>4, <2>5, <1>5
<1>7. Follows(x, ix)
  <2>1. \A q \in S : from(q) \in DOMAIN ix.slots /\ q = to(from(q))
    BY <1>6
  <2>2. \A q, r \in S : from(q) = from(r) => q = r
    BY <2>1
  <2> HIDE DEF slots, kept, fields, ix, S, from, to
  <2>3. DOMAIN x = DOMAIN ix /\ x.slots = slots
    BY <1>2 DEF Built
  <2> HIDE DEF x
  <2>4. \A q \in S : Kin(slots[q], ix.slots[from(q)])
    BY <1>6
  <2>5. S \subseteq SlotPaths
    BY <1>6
  <2>6. \A q, r \in S : slots[q].id = slots[r].id => q = r
    BY <2>1, <2>2, <2>4, <1>2 DEF Built, Kin
  <2>7. Built(x)
    BY <1>2, <1>4, <1>5, <2>3, <2>4, <2>5, <2>6 DEF Built, Kin
  <2>8. \A q \in S : q = there \/ q = from(q)
    BY <1>6
  <2>9. Carries(ix, x)
    BY <1>3, <1>5, <2>1, <2>3, <2>4, <2>8 DEF Carries, Kin
  <2> QED BY <2>7, <2>9 DEF Follows
<1> HIDE DEF x
<1> QED BY <1>1, <1>7, PutKeeps, BecomesKeeps DEF Reword

LEMMA VersionEdits ==
    ASSUME Stays(head), base \in Bases
    PROVE  /\ \A i \in DOMAIN head, new \in Fresh : RenameIx(i, new) => Stays(head')
           /\ \A i \in DOMAIN head : RemoveIx(i) => Stays(head')
           /\ \A a \in Additions[base] : AddIx(a) => Stays(head')
<1>1. IsFiniteSet(DOMAIN head) /\ DOMAIN head \subseteq Nat /\ \A i \in DOMAIN head : Built(head[i])
  BY DEF Version, Stays
<1>2. ASSUME NEW i \in DOMAIN head, NEW new \in Fresh, RenameIx(i, new) PROVE Stays(head')
  <2> DEFINE S == (DOMAIN head \ {i}) \cup {new}
             v == [j \in S |-> IF j = new THEN head[i] ELSE head[j]]
  <2>1. IsFiniteSet(DOMAIN head \ {i})
    BY <1>1, FS_Subset
  <2>2. IsFiniteSet(S)
    BY <2>1, FS_AddElement
  <2>3. S \subseteq Nat
    BY <1>1, UpgradeAssumption
  <2>4. Version(v)
    BY <1>1, <2>2, <2>3 DEF Version
  <2>5. Becomes(v)
    BY <1>2 DEF RenameIx
  <2>6. new \notin DOMAIN base
    BY UpgradeAssumption
  <2>7. Stays(v)
    BY <2>4, <2>6 DEF Stays
  <2> HIDE DEF v
  <2> QED BY <2>5, <2>7, BecomesKeeps
<1>3. ASSUME NEW i \in DOMAIN head, RemoveIx(i) PROVE Stays(head')
  <2> DEFINE v == Restrict(head, DOMAIN head \ {i})
  <2>1. IsFiniteSet(DOMAIN head \ {i})
    BY <1>1, FS_Subset
  <2>2. Version(v)
    BY <1>1, <2>1 DEF Version, Restrict
  <2>3. Becomes(v)
    BY <1>3 DEF RemoveIx
  <2>4. Stays(v)
    BY <2>2 DEF Stays, Restrict
  <2> HIDE DEF v
  <2> QED BY <2>3, <2>4, BecomesKeeps
<1>4. ASSUME NEW a \in Additions[base], AddIx(a) PROVE Stays(head')
  <2> DEFINE v == [j \in DOMAIN head \cup {a[1]} |-> IF j = a[1] THEN a[2] ELSE head[j]]
  <2>1. a[1] \in Nat /\ Built(a[2])
    BY UpgradeAssumption
  <2>2. IsFiniteSet(DOMAIN head \cup {a[1]})
    BY <1>1, FS_AddElement
  <2>3. Version(v)
    BY <1>1, <2>1, <2>2 DEF Version
  <2>4. Becomes(v)
    BY <1>4 DEF AddIx
  <2>5. AddedAreNew => a[1] \notin DOMAIN base
    BY DEF AddedAreNew
  <2>6. Stays(v)
    BY <2>3, <2>5 DEF Stays
  <2> HIDE DEF v
  <2> QED BY <2>4, <2>6, BecomesKeeps
<1> QED BY <1>2, <1>3, <1>4

LEMMA HandlerEdits ==
    ASSUME Stays(head), NEW i \in DOMAIN head
    PROVE  /\ DropCheck(i) => Stays(head')
           /\ CopyCheck(i) => Stays(head')
           /\ ChangeArgs(i) => Stays(head')
<1>1. ASSUME NEW chk, \/ Put(i, [head[i] EXCEPT !.checks = @ (-) SetToBag({chk})])
                      \/ Put(i, [head[i] EXCEPT !.checks = @ (+) SetToBag({chk})])
      PROVE  Stays(head')
  <2> DEFINE c == head[i].checks (-) SetToBag({chk})
             d == head[i].checks (+) SetToBag({chk})
  <2>1. Put(i, [head[i] EXCEPT !.checks = c]) \/ Put(i, [head[i] EXCEPT !.checks = d])
    BY <1>1
  <2> HIDE DEF c, d
  <2> QED BY <2>1, ChecksEdited
<1>2. ASSUME ChangeArgs(i) PROVE Stays(head')
  <2> DEFINE c == Append(head[i].args, 0)
  <2>1. Put(i, [head[i] EXCEPT !.args = c])
    BY <1>2 DEF ChangeArgs
  <2> HIDE DEF c
  <2> QED BY <2>1, ChecksEdited
<1> QED BY <1>1, <1>2 DEF DropCheck, CopyCheck

(* Both versions are ones Anchor can build, and an account that kept its     *)
(* path is the same one: what a comparison starts from.                      *)
VersionInv == base \in Bases /\ Version(base) /\ Stays(head)

LEMMA HeadIsVersion == VersionInv => Version(head)
BY DEF VersionInv, Stays

THEOREM VersionInvAlways == Spec => []VersionInv
<1>1. Init => VersionInv
  BY UpgradeAssumption DEF Init, VersionInv, Stays, Carries
<1>2. VersionInv /\ [Next]_vars => VersionInv'
  <2> SUFFICES ASSUME base \in Bases, Version(base), Stays(head), [Next]_vars
               PROVE  base' \in Bases /\ Version(base') /\ (Stays(head))'
    BY DEF VersionInv
  <2>1. UNCHANGED vars => base' = base
    BY DEF vars
  <2>2. base' = base
    <3>1. \A v : Becomes(v) => base' = base
      BY DEF Becomes
    <3>2. \A i, ix : Put(i, ix) \/ Reword(i, ix) \/ Weaken(i, ix) => base' = base
      BY <3>1 DEF Put, Reword, Weaken
    <3>3. ASSUME NEW i, NEW p, \/ LoosenType(i, p) \/ MakeOptional(i, p) \/ DropAttr(i, p) \/ DropUnlisted(i, p)
                               \/ SwapGate(i, p) \/ Retire(i, p) \/ RetireSigner(i, p) \/ RemoveSlot(i, p)
          PROVE  base' = base
      BY <3>2, <3>3 DEF LoosenType, MakeOptional, DropAttr, DropUnlisted, SwapGate, Retire, RetireSigner, RemoveSlot
    <3>4. ASSUME NEW i, NEW p, IntoHandler(i, p) \/ FromHandler(i, p) PROVE base' = base
      BY <3>2, <3>4 DEF IntoHandler, FromHandler
    <3>5. ASSUME NEW i, NEW p, NEW q, Restate(i, p, q) \/ Move(i, p, q) \/ SwapIdentity(i, p, q) PROVE base' = base
      BY <3>2, <3>5 DEF Restate, Move, SwapIdentity
    <3>6. ASSUME NEW i, NEW p, NEW new, NEW data, RenameSlot(i, p, new, data) PROVE base' = base
      BY <3>2, <3>6 DEF RenameSlot
    <3>7. ASSUME NEW i, NEW new, DropCheck(i) \/ CopyCheck(i) \/ ChangeArgs(i) \/ RemoveIx(i) \/ RenameIx(i, new)
          PROVE  base' = base
      BY <3>1, <3>2, <3>7 DEF DropCheck, CopyCheck, ChangeArgs, RemoveIx, RenameIx
    <3>8. (\E a \in Additions[base] : AddIx(a)) \/ BuildUnresolved => base' = base
      BY <3>1 DEF AddIx, BuildUnresolved
    <3> QED BY <2>1, <3>3, <3>4, <3>5, <3>6, <3>7, <3>8 DEF Next, vars
  <2>3. Version(base')
    BY <2>2
  <2>4. ASSUME NEW i \in DOMAIN head, NEW p \in DOMAIN head[i].slots,
               \/ LoosenType(i, p) \/ MakeOptional(i, p) \/ DropAttr(i, p) \/ DropUnlisted(i, p)
               \/ SwapGate(i, p) \/ IntoHandler(i, p) \/ FromHandler(i, p)
               \/ Retire(i, p) \/ RetireSigner(i, p) \/ RemoveSlot(i, p)
               \/ \E q \in DOMAIN head[i].slots : Restate(i, p, q) \/ Move(i, p, q)
               \/ \E q \in DOMAIN head[i].slots \cup {Argument} : SwapIdentity(i, p, Leaf(q))
               \/ \E new \in Fresh, data \in BOOLEAN : RenameSlot(i, p, new, data)
        PROVE  Stays(head')
    BY <2>4, OneSlotEdits, TwoSlotEdits, RemovedSlot, RenamedSlot
  <2>5. ASSUME NEW i \in DOMAIN head,
               \/ DropCheck(i) \/ CopyCheck(i) \/ ChangeArgs(i) \/ RemoveIx(i)
               \/ \E new \in Fresh : RenameIx(i, new)
        PROVE  Stays(head')
    BY <2>5, HandlerEdits, VersionEdits
  <2>6. ASSUME NEW addition \in Additions[base], AddIx(addition) PROVE Stays(head')
    BY <2>6, VersionEdits
  <2>7. ASSUME BuildUnresolved PROVE Stays(head')
    BY <2>7 DEF BuildUnresolved
  <2>8. Stays(head') \/ UNCHANGED vars
    BY <2>4, <2>5, <2>6, <2>7 DEF Next, vars
  <2>9. (Stays(head))'
    BY <2>2, <2>8 DEF Stays, vars
  <2> QED BY <2>2, <2>3, <2>9
<1> QED BY <1>1, <1>2, PTL DEF Spec

-----------------------------------------------------------------------------
(* What nothing ties is unbound: what unbound takes for a tie is a fact the  *)
(* runtime enforces about the account and another one, or a constant.        *)

\* An instruction of a version, none of whose accounts may be left out.
Whole(ix) == Built(ix) /\ \A q \in DOMAIN ix.slots : ~ix.slots[q].optional

LEMMA DeclaredIsEnforced ==
    ASSUME NEW ix, Whole(ix), NEW q \in DOMAIN ix.slots, NEW f \in Declares(ix, q)
    PROVE  f \in Enforced(ix)
<1>1. <<f, q>> \in HeldAt(ix)
  BY DEF HeldAt, Whole
<1>2. <<f, q>>[1] = f
  OBVIOUS
<1> QED BY <1>1, <1>2 DEF Enforced

LEMMA HandledIsEnforced ==
    ASSUME NEW ix, NEW c \in BagToSet(ix.checks)
    PROVE  HandlerFact(ix, c) \in Enforced(ix)
<1>1. <<HandlerFact(ix, c), AttachedTo(ix.slots, c)>> \in HeldAt(ix)
  BY DEF HeldAt
<1> DEFINE f == HandlerFact(ix, c)
           a == AttachedTo(ix.slots, c)
<1>2. <<f, a>>[1] = f /\ <<f, a>> \in HeldAt(ix)
  BY <1>1
<1> HIDE DEF f, a
<1>3. f \in Enforced(ix)
  BY <1>2 DEF Enforced
<1> QED BY <1>3 DEF f

\* Another slot of the instruction is another account.
LEMMA OtherAccount ==
    ASSUME NEW ix, Built(ix), NEW p \in DOMAIN ix.slots, NEW q \in DOMAIN ix.slots, p # q
    PROVE  ix.slots[p].id # ix.slots[q].id
BY DEF Built

\* A side of an equality.
LEMMA SlotSide ==
    ASSUME NEW ix, NEW path \in DOMAIN ix.slots, NEW e
    PROVE  /\ SideOf(ix, path, e)[1] = TRUE
           /\ SideOf(ix, path, e)[2] = ix.slots[path].id
BY DEF SideOf

LEMMA ConstantSide ==
    ASSUME NEW ix, Built(ix), NEW q \in DOMAIN ix.slots, NEW e
    PROVE  /\ SideOf(ix, Sibling(q, Constant), e)[1] = FALSE
           /\ SideOf(ix, Sibling(q, Constant), e)[2] = Constant
<1>1. q \in SlotPaths
  BY DEF Built
<1>2. Leaf(Sibling(q, Constant)) = Constant
  BY <1>1, SiblingFacts DEF Constant
<1>3. Sibling(q, Constant) \notin DOMAIN ix.slots
  BY <1>2 DEF Built, SlotPaths
<1> QED BY <1>2, <1>3 DEF SideOf, Leaf

\* An equality between an account and another one, or a constant.
LEMMA EqTies ==
    ASSUME NEW ix, Built(ix), NEW p \in DOMAIN ix.slots, NEW sides, EqFact(sides) \in Enforced(ix),
           NEW x \in sides, x[1] = TRUE, x[2] = ix.slots[p].id,
           NEW y \in sides,
           \/ y[1] = TRUE /\ y[2] # ix.slots[p].id
           \/ y[1] = FALSE /\ y[2] = Constant
    PROVE  Ties(ix, p) # {}
<1> DEFINE f == EqFact(sides)
           id == ix.slots[p].id
           ids == {z[2] : z \in {w \in sides : w[1]}}
<1>1. f[1] = "eq" /\ f[2] = ids /\ f[3] = sides
  BY DEF EqFact
<1>2. id \in ids
  OBVIOUS
<1>3. (\E a \in ids : a # id) \/ (\E side \in sides : ~side[1] /\ side[2] = Constant)
  <2>1. CASE y[1] = TRUE /\ y[2] # id
    BY <2>1
  <2>2. CASE y[1] = FALSE /\ y[2] = Constant
    BY <2>2
  <2> QED BY <2>1, <2>2
<1> HIDE DEF f, ids, id
<1>4. f \in Ties(ix, p)
  BY <1>1, <1>2, <1>3 DEF Ties, f, id
<1> QED BY <1>4

\* What one of Anchor's attributes says of the slots it names.
LEMMA DeclaredTies ==
    ASSUME NEW ix, Whole(ix), NEW p \in DOMAIN ix.slots, NEW q \in DOMAIN ix.slots,
           NEW eq \in DeclaredEqs(ix.slots[q], Leaf(q)),
           NEW d \in eq, Sibling(q, d.name) = p,
           NEW e \in eq,
           \/ Sibling(q, e.name) \in DOMAIN ix.slots \ {p}
           \/ e.name = Constant
    PROVE  Ties(ix, p) # {}
<1> DEFINE side(z) == SideOf(ix, Sibling(q, z.name), z)
           sides == {side(z) : z \in eq}
<1>1. EqFact(sides) \in Declares(ix, q)
  BY DEF Declares
<1>2. EqFact(sides) \in Enforced(ix)
  BY <1>1, DeclaredIsEnforced
<1>3. side(d) \in sides /\ side(e) \in sides
  OBVIOUS
<1>4. side(d)[1] = TRUE /\ side(d)[2] = ix.slots[p].id
  BY SlotSide
<1>5. \/ side(e)[1] = TRUE /\ side(e)[2] # ix.slots[p].id
      \/ side(e)[1] = FALSE /\ side(e)[2] = Constant
  <2>1. CASE Sibling(q, e.name) \in DOMAIN ix.slots \ {p}
    <3>1. side(e)[1] = TRUE /\ side(e)[2] = ix.slots[Sibling(q, e.name)].id
      BY <2>1, SlotSide
    <3>2. ix.slots[Sibling(q, e.name)].id # ix.slots[p].id
      BY <2>1, OtherAccount DEF Whole
    <3> QED BY <3>1, <3>2
  <2>2. CASE e.name = Constant
    BY <2>2, ConstantSide DEF Whole
  <2> QED BY <2>1, <2>2
<1> HIDE DEF side, sides
<1> QED BY <1>2, <1>3, <1>4, <1>5, EqTies DEF Whole

\* What seeds, or the authority of an associated token account, say of the
\* slot that has them and of those they name.
Fixing(ix, q, what, names) ==
    LET sides == {x \in {SideOf(ix, Sibling(q, n), Key(n)) : n \in names} : x[1] \/ x[2] = Constant}
    IN  <<what, {ix.slots[q].id} \cup {x[2] : x \in {y \in sides : y[1]}}, sides>>

LEMMA FixingIsEnforced ==
    ASSUME NEW ix, Whole(ix), NEW q \in DOMAIN ix.slots
    PROVE  /\ \A names \in ix.slots[q].seeds : Fixing(ix, q, "pda", names) \in Enforced(ix)
           /\ \A n \in ix.slots[q].ata : Fixing(ix, q, "ata", {n}) \in Enforced(ix)
<1>1. ASSUME NEW e PROVE SideOf(ix, Sibling(q, Key(e).name), Key(e)) = SideOf(ix, Sibling(q, e), Key(e))
  BY DEF Key
<1>2. \A names \in ix.slots[q].seeds : Fixing(ix, q, "pda", names) \in Declares(ix, q)
  BY <1>1 DEF Declares, Fixing
<1>3. \A n \in ix.slots[q].ata : Fixing(ix, q, "ata", {n}) \in Declares(ix, q)
  BY <1>1 DEF Declares, Fixing
<1> QED BY <1>2, <1>3, DeclaredIsEnforced

LEMMA FixingTies ==
    ASSUME NEW ix, Whole(ix), NEW p \in DOMAIN ix.slots, NEW q \in DOMAIN ix.slots,
           NEW what \in {"pda", "ata"}, NEW names, Fixing(ix, q, what, names) \in Enforced(ix),
           NEW n \in names,
           \/ q = p /\ (n = Constant \/ Sibling(q, n) \in DOMAIN ix.slots \ {p})
           \/ q # p /\ Sibling(q, n) = p
    PROVE  Ties(ix, p) # {}
<1> DEFINE f == Fixing(ix, q, what, names)
           id == ix.slots[p].id
           side == SideOf(ix, Sibling(q, n), Key(n))
           all == {SideOf(ix, Sibling(q, m), Key(m)) : m \in names}
           sides == {x \in all : x[1] \/ x[2] = Constant}
           ids == {ix.slots[q].id} \cup {x[2] : x \in {y \in sides : y[1]}}
<1>1. f[1] = what /\ f[2] = ids /\ f[3] = sides
  BY DEF Fixing
<1>2. side \in all
  OBVIOUS
<1>3. id \in ids /\ ((\E a \in ids : a # id) \/ \E x \in sides : ~x[1] /\ x[2] = Constant)
  <2>1. CASE q = p /\ n = Constant
    <3>1. side[1] = FALSE /\ side[2] = Constant
      BY <2>1, ConstantSide DEF Whole
    <3> HIDE DEF side
    <3> QED BY <1>2, <2>1, <3>1
  <2>2. CASE q = p /\ Sibling(q, n) \in DOMAIN ix.slots \ {p}
    <3>1. side[1] = TRUE /\ side[2] = ix.slots[Sibling(q, n)].id
      BY <2>2, SlotSide
    <3>2. ix.slots[Sibling(q, n)].id # id
      BY <2>2, OtherAccount DEF Whole
    <3> HIDE DEF side
    <3> QED BY <1>2, <2>2, <3>1, <3>2
  <2>3. CASE q # p /\ Sibling(q, n) = p
    <3>1. side[1] = TRUE /\ side[2] = id
      BY <2>3, SlotSide
    <3>2. ix.slots[q].id # id
      BY <2>3, OtherAccount DEF Whole
    <3> HIDE DEF side
    <3> QED BY <1>2, <3>1, <3>2
  <2> QED BY <2>1, <2>2, <2>3
<1>4. f \in Enforced(ix)
  OBVIOUS
<1> HIDE DEF f, id, ids, sides, side, all
<1>5. f \in Ties(ix, p)
  BY <1>1, <1>3, <1>4 DEF Ties, id
<1> QED BY <1>5

LEMMA CreatedTies ==
    ASSUME NEW ix, Whole(ix), NEW p \in DOMAIN ix.slots, ix.slots[p].init
    PROVE  Ties(ix, p) # {}
<1> DEFINE f == <<"created", {ix.slots[p].id}, {}>>
<1>1. f \in Declares(ix, p)
  BY DEF Declares
<1>2. f \in Enforced(ix)
  BY <1>1, DeclaredIsEnforced
<1>3. f \in Ties(ix, p)
  BY <1>2 DEF Ties
<1> QED BY <1>3

LEMMA HandlerTies ==
    ASSUME NEW ix, Whole(ix), NEW p \in DOMAIN ix.slots, TiedInHandler(ix, p)
    PROVE  Ties(ix, p) # {}
<1>1. PICK c \in BagToSet(ix.checks) : c.kind = "key" /\ TiedWith(ix, p, {r.path : r \in Range(c.on)}, FALSE)
  BY DEF TiedInHandler
<1> DEFINE sides == {SideOf(ix, r.path, r) : r \in Range(c.on)}
<1>2. PICK d \in Range(c.on) : d.path = p
  BY <1>1 DEF TiedWith
<1>3. PICK e \in Range(c.on) : e.path \in DOMAIN ix.slots /\ e.path # p
  BY <1>1 DEF TiedWith
<1>4. EqFact(sides) \in Enforced(ix)
  <2>1. HandlerFact(ix, c) = EqFact(sides)
    BY <1>1 DEF HandlerFact
  <2> HIDE DEF sides
  <2> QED BY <2>1, HandledIsEnforced
<1> DEFINE x == SideOf(ix, d.path, d)
           y == SideOf(ix, e.path, e)
<1>5. x \in sides /\ y \in sides
  BY <1>2, <1>3
<1>6. x[1] = TRUE /\ x[2] = ix.slots[p].id
  <2>1. x = SideOf(ix, p, d)
    BY <1>2
  <2> HIDE DEF x
  <2> QED BY <2>1, SlotSide
<1>7. y[1] = TRUE /\ y[2] = ix.slots[e.path].id
  <2> DEFINE q == e.path
  <2>1. q \in DOMAIN ix.slots
    BY <1>3
  <2>2. y = SideOf(ix, q, e)
    OBVIOUS
  <2> HIDE DEF q, y
  <2>3. y[1] = TRUE /\ y[2] = ix.slots[q].id
    BY <2>1, <2>2, SlotSide
  <2> QED BY <2>3 DEF q
<1>8. ix.slots[e.path].id # ix.slots[p].id
  BY <1>3, OtherAccount DEF Whole
<1> HIDE DEF x, y, sides
<1> QED BY <1>4, <1>5, <1>6, <1>7, <1>8, EqTies DEF Whole

\* The equalities of one slot's attributes, name by name.
LEMMA Equalities ==
    ASSUME NEW s, NEW leaf
    PROVE  /\ \A t \in s.has_one : {Field(leaf, t), Key(t)} \in DeclaredEqs(s, leaf)
           /\ \A e \in s.address : {Key(leaf), e} \in DeclaredEqs(s, leaf)
           /\ \A e \in s.token_owner : {Field(leaf, OwnerField), e} \in DeclaredEqs(s, leaf)
           /\ \A c \in s.constraints : \A eq \in c.eqs : eq \in DeclaredEqs(s, leaf)
BY DEF DeclaredEqs

LEMMA OwnTies ==
    ASSUME NEW ix, Whole(ix), NEW p \in DOMAIN ix.slots, FixesItself(ix, p)
    PROVE  Ties(ix, p) # {}
<1> DEFINE s == ix.slots[p]
<1>1. p \in SlotPaths /\ {} \notin s.seeds
  BY DEF Whole, Built
<1>2. Sibling(p, Leaf(p)) = p
  BY <1>1, SlotPathFacts
<1>3. ASSUME NEW n, Fixes(ix, p, n) PROVE n = Constant \/ Sibling(p, n) \in DOMAIN ix.slots \ {p}
  BY <1>3 DEF Fixes
<1>4. CASE Seeds(s) /\ (SeedNames(s) \subseteq {Constant} \/ \E n \in SeedNames(s) : Fixes(ix, p, n))
  <2>1. PICK names \in s.seeds : \E n \in names : n = Constant \/ Sibling(p, n) \in DOMAIN ix.slots \ {p}
    <3>1. CASE SeedNames(s) \subseteq {Constant}
      <4>1. PICK names \in s.seeds : TRUE
        BY <1>4 DEF Seeds
      <4>2. PICK n \in names : TRUE
        BY <1>1, <4>1
      <4>3. n = Constant
        BY <3>1 DEF SeedNames
      <4> QED BY <4>3
    <3>2. CASE \E n \in SeedNames(s) : Fixes(ix, p, n)
      BY <3>2, <1>3 DEF SeedNames
    <3> QED BY <1>4, <3>1, <3>2
  <2>2. PICK n \in names : n = Constant \/ Sibling(p, n) \in DOMAIN ix.slots \ {p}
    BY <2>1
  <2>3. Fixing(ix, p, "pda", names) \in Enforced(ix)
    BY FixingIsEnforced
  <2> QED BY <2>2, <2>3, FixingTies
<1>5. ASSUME NEW t \in s.has_one, Fixes(ix, p, t) PROVE Ties(ix, p) # {}
  <2> DEFINE d == Field(Leaf(p), t)
             e == Key(t)
  <2>1. {d, e} \in DeclaredEqs(s, Leaf(p))
    BY Equalities
  <2>2. Sibling(p, d.name) = p /\ e.name = t
    BY <1>2 DEF Field, Key
  <2>3. e.name = Constant \/ Sibling(p, e.name) \in DOMAIN ix.slots \ {p}
    BY <1>3, <1>5, <2>2
  <2> HIDE DEF d, e
  <2> QED BY <2>1, <2>2, <2>3, DeclaredTies
<1>6. ASSUME NEW e \in s.address, Fixes(ix, p, e.name) PROVE Ties(ix, p) # {}
  <2> DEFINE d == Key(Leaf(p))
  <2>1. {d, e} \in DeclaredEqs(s, Leaf(p))
    BY Equalities
  <2>2. Sibling(p, d.name) = p
    BY <1>2 DEF Key
  <2>3. e.name = Constant \/ Sibling(p, e.name) \in DOMAIN ix.slots \ {p}
    BY <1>3, <1>6
  <2> HIDE DEF d
  <2> QED BY <2>1, <2>2, <2>3, DeclaredTies
<1>7. ASSUME NEW n \in s.ata, Fixes(ix, p, n) PROVE Ties(ix, p) # {}
  <2>1. Fixing(ix, p, "ata", {n}) \in Enforced(ix)
    BY FixingIsEnforced
  <2> QED BY <1>3, <1>7, <2>1, FixingTies
<1>8. CASE \E n \in (s.has_one \ {Constant}) \cup AddressNames(s) \cup s.ata : Fixes(ix, p, n)
  BY <1>5, <1>6, <1>7, <1>8 DEF AddressNames
<1> QED BY <1>4, <1>8 DEF FixesItself

LEMMA OthersTie ==
    ASSUME NEW ix, Whole(ix), NEW p \in DOMAIN ix.slots, TiedByOther(ix, p)
    PROVE  Ties(ix, p) # {}
<1>1. PICK q \in DOMAIN ix.slots :
        \/ q # p /\ \E n \in ix.slots[q].has_one \cup Refs(ix.slots[q]) : Sibling(q, n) = p
        \/ \E c \in ix.slots[q].constraints : \E eq \in c.eqs : TiedByClause(ix, p, q, eq)
  BY DEF TiedByOther
<1> DEFINE s == ix.slots[q]
<1>2. q \in SlotPaths /\ Sibling(q, Leaf(q)) = q
  BY SlotPathFacts DEF Whole, Built
\* An equality of q with a slot that it names.
<1>3. ASSUME NEW d, NEW e, {d, e} \in DeclaredEqs(s, Leaf(q)), d.name = Leaf(q), Sibling(q, e.name) = p, q # p
      PROVE  Ties(ix, p) # {}
  <2>1. Sibling(q, d.name) = q /\ q \in DOMAIN ix.slots \ {p}
    BY <1>2, <1>3
  <2> QED BY <1>3, <2>1, DeclaredTies
<1>4. CASE q # p /\ \E n \in s.has_one \cup Refs(s) : Sibling(q, n) = p
  <2>1. PICK n \in s.has_one \cup Refs(s) : Sibling(q, n) = p
    BY <1>4
  <2>2. CASE n \in s.has_one
    <3> DEFINE d == Field(Leaf(q), n)
               e == Key(n)
    <3>1. {d, e} \in DeclaredEqs(s, Leaf(q)) /\ d.name = Leaf(q) /\ e.name = n
      BY <2>2, Equalities DEF Field, Key
    <3> HIDE DEF d, e
    <3> QED BY <1>3, <1>4, <2>1, <3>1
  <2>3. CASE n \in AddressNames(s)
    <3>1. PICK e \in s.address : e.name = n
      BY <2>3 DEF AddressNames
    <3> DEFINE d == Key(Leaf(q))
    <3>2. {d, e} \in DeclaredEqs(s, Leaf(q)) /\ d.name = Leaf(q)
      BY <3>1, Equalities DEF Key
    <3> HIDE DEF d
    <3> QED BY <1>3, <1>4, <2>1, <3>1, <3>2
  <2>4. CASE n \in {e.name : e \in s.token_owner}
    <3>1. PICK e \in s.token_owner : e.name = n
      BY <2>4
    <3> DEFINE d == Field(Leaf(q), OwnerField)
    <3>2. {d, e} \in DeclaredEqs(s, Leaf(q)) /\ d.name = Leaf(q)
      BY <3>1, Equalities DEF Field
    <3> HIDE DEF d
    <3> QED BY <1>3, <1>4, <2>1, <3>1, <3>2
  <2>5. CASE n \in SeedNames(s)
    <3>1. PICK names \in s.seeds : n \in names
      BY <2>5 DEF SeedNames
    <3>2. Fixing(ix, q, "pda", names) \in Enforced(ix)
      BY <3>1, FixingIsEnforced
    <3> QED BY <1>4, <2>1, <3>1, <3>2, FixingTies
  <2>6. CASE n \in s.ata
    <3>1. Fixing(ix, q, "ata", {n}) \in Enforced(ix)
      BY <2>6, FixingIsEnforced
    <3> QED BY <1>4, <2>1, <3>1, FixingTies
  <2> QED BY <2>1, <2>2, <2>3, <2>4, <2>5, <2>6 DEF Refs
<1>5. CASE \E c \in s.constraints : \E eq \in c.eqs : TiedByClause(ix, p, q, eq)
  <2> PICK c \in s.constraints : \E eq \in c.eqs : TiedByClause(ix, p, q, eq)
    BY <1>5
  <2>1. PICK eq \in c.eqs : TiedByClause(ix, p, q, eq)
    OBVIOUS
  <2>2. eq \in DeclaredEqs(s, Leaf(q))
    BY <2>1, Equalities
  <2>3. PICK d \in eq : Sibling(q, d.name) = p
    BY <2>1 DEF TiedByClause, TiedWith
  <2>4. \E e \in eq : e.name = Constant \/ Sibling(q, e.name) \in DOMAIN ix.slots \ {p}
    BY <2>1 DEF TiedByClause, TiedWith
  <2> QED BY <2>2, <2>3, <2>4, DeclaredTies
<1> QED BY <1>1, <1>4, <1>5

(* source.rs, 201: whatever edits led to it, an account that nothing in the instruction *)
(* ties to another one or to a constant is one unbound marks, so the caller's choice of  *)
(* it is never overlooked.                                                               *)
THEOREM UntiedIsUnboundAlways == Spec => []UntiedIsUnbound
<1>1. VersionInv => UntiedIsUnbound
  <2> SUFFICES ASSUME VersionInv, NEW i \in DOMAIN head, NEW p \in DOMAIN head[i].slots,
                      head[i].slots[p].ty \in AccountTypes,
                      \A q \in DOMAIN head[i].slots : ~head[i].slots[q].optional,
                      Ties(head[i], p) = {}
               PROVE  Unbound(head[i], p)
    BY DEF UntiedIsUnbound
  <2>1. Whole(head[i])
    BY HeadIsVersion DEF Whole, Version
  <2> QED BY <2>1, CreatedTies, HandlerTies, OwnTies, OthersTie DEF Unbound
<1> QED BY <1>1, VersionInvAlways, PTL

-----------------------------------------------------------------------------
(* The pairing of the instructions that are gone with the ones that are new. *)

\* Every set of numbers that is not empty has a least element.
LEMMA LeastExists ==
    ASSUME NEW T \in SUBSET Nat, T # {}
    PROVE  \E x \in T : \A y \in T : x <= y
<1> DEFINE R == {ss \in Nat \X Nat : ss[1] < ss[2]}
<1>1. IsWellFoundedOn(R, Nat)
  BY NatLessThanWellFounded DEF OpToRel
<1> HIDE DEF R
<1>2. PICK x \in T : \A y \in T : ~(<<y, x>> \in R)
  BY <1>1, WFMin
<1>3. \A y \in T : ~(y < x)
  BY <1>2 DEF R
<1> QED BY <1>2, <1>3

\* Induction over the numbers up to N, for the numbers of a set.
LEMMA UpTo ==
    ASSUME NEW N \in Nat, NEW P, 0 \in P, \A i \in 1..N : i - 1 \in P => i \in P
    PROVE  \A i \in 0..N : i \in P
<1> DEFINE T == {i \in 0..N : i \notin P}
<1>1. SUFFICES T = {}
  OBVIOUS
<1>2. SUFFICES ASSUME T # {} PROVE FALSE
  OBVIOUS
<1>3. PICK i \in T : \A j \in T : i <= j
  <2>1. T \in SUBSET Nat
    OBVIOUS
  <2> HIDE DEF T
  <2> QED BY <1>2, <2>1, LeastExists
<1>4. i \in 1..N /\ i - 1 \in 0..N /\ i - 1 \notin T
  BY <1>3
<1> QED BY <1>3, <1>4


\* What a pair and its score are.
Candidate == [old : Nat, new : Nat, shared : Nat, all : Nat \ {0}]

LEMMA CrossMultiplied ==
    ASSUME NEW a \in Nat, NEW b \in Nat \ {0}, NEW c \in Nat, NEW d \in Nat \ {0}, NEW e \in Nat, NEW f \in Nat \ {0}
    PROVE  /\ a * d > c * b /\ c * f > e * d => a * f > e * b
           /\ a * d > c * b /\ c * f = e * d => a * f > e * b
           /\ a * d = c * b /\ c * f > e * d => a * f > e * b
           /\ a * d = c * b /\ c * f = e * d => a * f = e * b
<1>1. \A x, y \in Nat, z \in Nat \ {0} : (x > y <=> x * z > y * z) /\ (x = y <=> x * z = y * z)
  <2> SUFFICES ASSUME NEW x \in Nat, NEW y \in Nat, NEW z \in Nat \ {0}
               PROVE  (x > y <=> x * z > y * z) /\ (x = y <=> x * z = y * z)
    OBVIOUS
  <2>1. CASE x > y
    <3> DEFINE k == x - y
    <3>1. k \in Nat /\ k >= 1 /\ x = y + k
      BY <2>1
    <3> HIDE DEF k
    <3>2. x * z = y * z + k * z
      BY <3>1
    <3>3. k * z >= 1 /\ k * z \in Nat
      BY <3>1
    <3> QED BY <2>1, <3>2, <3>3
  <2>2. CASE x < y
    <3> DEFINE k == y - x
    <3>1. k \in Nat /\ k >= 1 /\ y = x + k
      BY <2>2
    <3> HIDE DEF k
    <3>2. y * z = x * z + k * z
      BY <3>1
    <3>3. k * z >= 1 /\ k * z \in Nat
      BY <3>1
    <3> QED BY <2>2, <3>2, <3>3
  <2>3. CASE x = y
    BY <2>3
  <2> QED BY <2>1, <2>2, <2>3
<1> DEFINE ad == a * d
           cb == c * b
           cf == c * f
           ed == e * d
           af == a * f
           eb == e * b
<1>2. ad \in Nat /\ cb \in Nat /\ cf \in Nat /\ ed \in Nat /\ af \in Nat /\ eb \in Nat
  OBVIOUS
<1>3. ad * f = af * d /\ cb * f = cf * b /\ ed * b = eb * d
  OBVIOUS
<1> HIDE DEF ad, cb, cf, ed, af, eb
<1>4. /\ ad > cb <=> ad * f > cb * f
      /\ ad = cb <=> ad * f = cb * f
      /\ cf > ed <=> cf * b > ed * b
      /\ cf = ed <=> cf * b = ed * b
      /\ af > eb <=> af * d > eb * d
      /\ af = eb <=> af * d = eb * d
  BY <1>1, <1>2
<1> DEFINE u == ad * f
           v == cb * f
           w == ed * b
<1>5. u \in Nat /\ v \in Nat /\ w \in Nat
  BY <1>2
<1>6. /\ ad > cb <=> u > v
      /\ ad = cb <=> u = v
      /\ cf > ed <=> v > w
      /\ cf = ed <=> v = w
      /\ af > eb <=> u > w
      /\ af = eb <=> u = w
  BY <1>3, <1>4
<1> HIDE DEF u, v, w
<1>7. /\ ad > cb /\ cf > ed => af > eb
      /\ ad > cb /\ cf = ed => af > eb
      /\ ad = cb /\ cf > ed => af > eb
      /\ ad = cb /\ cf = ed => af = eb
  BY <1>5, <1>6
<1> QED BY <1>7 DEF ad, cb, cf, ed, af, eb

LEMMA BeforeIsAnOrder ==
    /\ \A x \in Candidate : ~Before(x, x)
    /\ \A x, y, z \in Candidate : Before(x, y) /\ Before(y, z) => Before(x, z)
<1>1. ASSUME NEW x \in Candidate PROVE ~Before(x, x)
  BY DEF Before, Candidate, SameScore
<1>2. ASSUME NEW x \in Candidate, NEW y \in Candidate, NEW z \in Candidate, Before(x, y), Before(y, z)
      PROVE  Before(x, z)
  <2> DEFINE more(s, t) == s.shared * t.all > t.shared * s.all
             lex(s, t) == s.old < t.old \/ (s.old = t.old /\ s.new < t.new)
  <2>1. /\ more(x, y) /\ more(y, z) => more(x, z)
        /\ more(x, y) /\ SameScore(y, z) => more(x, z)
        /\ SameScore(x, y) /\ more(y, z) => more(x, z)
        /\ SameScore(x, y) /\ SameScore(y, z) => SameScore(x, z)
    <3> DEFINE a == x.shared
               b == x.all
               c == y.shared
               d == y.all
               e == z.shared
               f == z.all
    <3>1. a \in Nat /\ b \in Nat \ {0} /\ c \in Nat /\ d \in Nat \ {0} /\ e \in Nat /\ f \in Nat \ {0}
      BY DEF Candidate
    <3>2. /\ more(x, y) <=> a * d > c * b
          /\ more(y, z) <=> c * f > e * d
          /\ more(x, z) <=> a * f > e * b
          /\ SameScore(x, y) <=> a * d = c * b
          /\ SameScore(y, z) <=> c * f = e * d
          /\ SameScore(x, z) <=> a * f = e * b
      BY DEF SameScore
    <3> HIDE DEF a, b, c, d, e, f, more
    <3>3. /\ a * d > c * b /\ c * f > e * d => a * f > e * b
          /\ a * d > c * b /\ c * f = e * d => a * f > e * b
          /\ a * d = c * b /\ c * f > e * d => a * f > e * b
          /\ a * d = c * b /\ c * f = e * d => a * f = e * b
      BY <3>1, CrossMultiplied
    <3> QED BY <3>2, <3>3
  <2>2. lex(x, y) /\ lex(y, z) => lex(x, z)
    BY DEF Candidate
  <2>3. \A s, t : Before(s, t) <=> more(s, t) \/ (SameScore(s, t) /\ lex(s, t))
    BY DEF Before
  <2> HIDE DEF more, lex
  <2> QED BY <1>2, <2>1, <2>2, <2>3
<1> QED BY <1>1, <1>2

\* There is a best one of any that are left.
LEMMA BestIsOne ==
    ASSUME NEW T \in SUBSET Candidate, IsFiniteSet(T), T # {}
    PROVE  Best(T) \in T
<1> DEFINE N == Cardinality(T)
           Has(U) == \E x \in U : \A y \in U : ~Before(y, x)
           P == {n \in 0..N : \A U \in SUBSET T : Cardinality(U) = n /\ U # {} => Has(U)}
<1>1. N \in Nat
  BY FS_CardinalityType
<1>2. \A U \in SUBSET T : IsFiniteSet(U) /\ Cardinality(U) \in Nat /\ Cardinality(U) <= N
  BY FS_Subset, FS_CardinalityType
<1>3. 0 \in P
  <2>1. \A U \in SUBSET T : Cardinality(U) = 0 => U = {}
    BY <1>2, FS_EmptySet
  <2> QED BY <1>1, <2>1
<1>4. ASSUME NEW n \in 1..N, n - 1 \in P PROVE n \in P
  <2> SUFFICES ASSUME NEW U \in SUBSET T, Cardinality(U) = n, U # {} PROVE Has(U)
    OBVIOUS
  <2>1. PICK a \in U : TRUE
    OBVIOUS
  <2> DEFINE V == U \ {a}
  <2>2. Cardinality(V) = n - 1 /\ V \in SUBSET T
    BY <1>2, <2>1, FS_RemoveElement
  <2>3. CASE V = {}
    BY <2>1, <2>3, BeforeIsAnOrder
  <2>4. CASE V # {}
    <3>1. PICK x \in V : \A y \in V : ~Before(y, x)
      BY <1>4, <2>2, <2>4
    <3>2. CASE Before(a, x)
      <4>1. \A y \in V : ~Before(y, a)
        BY <2>1, <3>1, <3>2, BeforeIsAnOrder
      <4>2. \A y \in U : ~Before(y, a)
        BY <4>1, BeforeIsAnOrder
      <4> QED BY <2>1, <4>2
    <3>3. CASE ~Before(a, x)
      BY <3>1, <3>3
    <3> QED BY <3>2, <3>3
  <2> QED BY <2>3, <2>4
<1>5. N \in P
  <2> HIDE DEF N, P
  <2> QED BY <1>1, <1>3, <1>4, UpTo
<1>6. Has(T)
  BY <1>5
<1> QED BY <1>6 DEF Best

LEMMA TellingIsFinite ==
    ASSUME NEW ix, Built(ix), NEW names
    PROVE  IsFiniteSet(Telling(ix, names))
BY FS_Subset DEF Telling, Built

LEMMA PairsAreCandidates ==
    ASSUME NEW b, Version(b), NEW h, Version(h), NEW names
    PROVE  /\ Close(Scored(b, h, names)) \in SUBSET Candidate
           /\ IsFiniteSet(Close(Scored(b, h, names)))
           /\ \A x \in Close(Scored(b, h, names)) :
                x.old \in DOMAIN b \ DOMAIN h /\ x.new \in DOMAIN h \ DOMAIN b
<1> DEFINE O == DOMAIN b \ DOMAIN h
           W == DOMAIN h \ DOMAIN b
           both(o, w) == Telling(b[o], names) \cap Telling(h[w], names)
           either(o, w) == Telling(b[o], names) \cup Telling(h[w], names)
           pair(o, w) == [old |-> o, new |-> w, shared |-> Cardinality(both(o, w)), all |-> Cardinality(either(o, w))]
           S == Scored(b, h, names)
           pairs == Close(S)
<1>1. /\ IsFiniteSet(O) /\ IsFiniteSet(W) /\ O \subseteq Nat /\ W \subseteq Nat
      /\ \A o \in O : Built(b[o])
      /\ \A w \in W : Built(h[w])
  BY FS_Subset DEF Version
<1>2. ASSUME NEW o \in O, NEW w \in W
      PROVE  /\ Cardinality(both(o, w)) \in Nat /\ Cardinality(either(o, w)) \in Nat
             /\ Cardinality(both(o, w)) <= Cardinality(either(o, w))
  <2>1. IsFiniteSet(Telling(b[o], names)) /\ IsFiniteSet(Telling(h[w], names))
    BY <1>1, TellingIsFinite
  <2>2. IsFiniteSet(either(o, w))
    BY <2>1, FS_Union
  <2>3. both(o, w) \in SUBSET either(o, w)
    OBVIOUS
  <2>4. IsFiniteSet(both(o, w)) /\ Cardinality(both(o, w)) <= Cardinality(either(o, w))
    <3> DEFINE s == both(o, w)
               t == either(o, w)
    <3>1. IsFiniteSet(t) /\ s \in SUBSET t
      BY <2>2, <2>3
    <3> HIDE DEF s, t
    <3>2. IsFiniteSet(s) /\ Cardinality(s) <= Cardinality(t)
      BY <3>1, FS_Subset
    <3> QED BY <3>2 DEF s, t
  <2> QED BY <2>2, <2>4, FS_CardinalityType
<1>3. S = {pair(r[1], r[2]) : r \in O \X W}
  <2>1. S = {pair(o, w) : o \in O, w \in W}
    BY DEF Scored
  <2> HIDE DEF S, pair, O, W
  <2>2. \A r \in O \X W : r[1] \in O /\ r[2] \in W
    OBVIOUS
  <2>3. ASSUME NEW x \in S PROVE \E r \in O \X W : x = pair(r[1], r[2])
    <3>1. PICK o \in O, w \in W : x = pair(o, w)
      BY <2>1
    <3>2. x = pair(<<o, w>>[1], <<o, w>>[2])
      BY <3>1
    <3>3. <<o, w>> \in O \X W
      OBVIOUS
    <3> WITNESS <<o, w>> \in O \X W
    <3> QED BY <3>2
  <2>4. \A x : x \in {pair(r[1], r[2]) : r \in O \X W} => x \in S
    BY <2>1, <2>2
  <2> QED BY <2>3, <2>4
<1>4. IsFiniteSet(S)
  <2>1. IsFiniteSet(O \X W)
    BY <1>1, FS_Product
  <2> DEFINE f == [r \in O \X W |-> pair(r[1], r[2])]
  <2> HIDE DEF pair, O, W
  <2>2. f \in Surjection(O \X W, S)
    <3>1. f \in [O \X W -> S]
      BY <1>3
    <3>2. \A x \in S : \E r \in O \X W : f[r] = x
      BY <1>3
    <3> HIDE DEF f, S
    <3> QED BY <3>1, <3>2 DEF Surjection
  <2> HIDE DEF f, S
  <2> QED BY <2>1, <2>2, FS_Surjection
<1>5. pairs \in SUBSET S
  BY DEF Close
<1>6. IsFiniteSet(pairs)
  <2> HIDE DEF S, pairs
  <2> QED BY <1>4, <1>5, FS_Subset
<1>7. ASSUME NEW x \in pairs PROVE x \in Candidate /\ x.old \in O /\ x.new \in W
  <2>1. x \in S /\ x.shared > 0
    BY DEF Close
  <2>2. PICK o \in O, w \in W : x = pair(o, w)
    BY <1>3, <2>1
  <2>3. /\ x.old = o /\ x.new = w /\ x.shared = Cardinality(both(o, w)) /\ x.all = Cardinality(either(o, w))
        /\ x = [old |-> x.old, new |-> x.new, shared |-> x.shared, all |-> x.all]
    BY <2>2
  <2>4. x.shared \in Nat /\ x.all \in Nat /\ x.shared <= x.all
    BY <1>2, <2>3
  <2>5. x.all # 0
    BY <2>1, <2>4
  <2> HIDE DEF both, either, pair, S, pairs
  <2> QED BY <1>1, <2>3, <2>4, <2>5 DEF Candidate
<1> QED BY <1>6, <1>7

\* What the loop keeps: the pairs made are of settled and taken instructions, one to one.
Settling(st, pairs) ==
    /\ st = [todo |-> st.todo, settled |-> st.settled, taken |-> st.taken, paired |-> st.paired]
    /\ st.todo \in SUBSET pairs
    /\ st.paired \subseteq st.settled \X st.taken
    /\ \A p \in st.paired : (\E x \in pairs : p[1] = x.old) /\ (\E x \in pairs : p[2] = x.new)
    /\ \A p, q \in st.paired : p[1] = q[1] \/ p[2] = q[2] => p = q

LEMMA SettleKeeps ==
    ASSUME NEW pairs, NEW st, Settling(st, pairs), NEW x \in st.todo
    PROVE  Settling(Settle(st, x, pairs), pairs) /\ Settle(st, x, pairs).todo = st.todo \ {x}
<1> DEFINE new == <<x.old, x.new>>
           todo == st.todo \ {x}
           settled == st.settled \cup {x.old}
           taken == st.taken \cup {x.new}
           with == st.paired \cup {new}
<1>1. /\ st = [todo |-> st.todo, settled |-> st.settled, taken |-> st.taken, paired |-> st.paired]
      /\ st.todo \in SUBSET pairs
      /\ st.paired \subseteq st.settled \X st.taken
      /\ \A p \in st.paired : (\E y \in pairs : p[1] = y.old) /\ (\E y \in pairs : p[2] = y.new)
      /\ \A p, q \in st.paired : p[1] = q[1] \/ p[2] = q[2] => p = q
  BY DEF Settling
<1>2. todo \in SUBSET pairs /\ x \in pairs
  BY <1>1
<1>3. CASE x.old \in st.settled \/ x.new \in st.taken
  <2>1. Settle(st, x, pairs) = [st EXCEPT !.todo = todo]
    BY <1>3 DEF Settle
  <2>2. [st EXCEPT !.todo = todo] = [todo |-> todo, settled |-> st.settled, taken |-> st.taken, paired |-> st.paired]
    BY <1>1
  <2>3. Settle(st, x, pairs) = [todo |-> todo, settled |-> st.settled, taken |-> st.taken, paired |-> st.paired]
    BY <2>1, <2>2
  <2> HIDE DEF todo
  <2> QED BY <1>1, <1>2, <2>3 DEF Settling, todo
<1>4. CASE ~(x.old \in st.settled \/ x.new \in st.taken)
  <2>1. PICK paired \in {st.paired, with} :
          Settle(st, x, pairs) = [todo |-> todo, settled |-> settled, taken |-> taken, paired |-> paired]
    BY <1>4 DEF Settle
  <2>2. /\ new[1] = x.old /\ new[2] = x.new
        /\ \A p \in st.paired : p[1] # new[1] /\ p[2] # new[2]
    BY <1>1, <1>4
  <2>3. /\ with \subseteq settled \X taken
        /\ st.paired \subseteq settled \X taken
    BY <1>1
  <2>4. \A p \in with : (\E y \in pairs : p[1] = y.old) /\ (\E y \in pairs : p[2] = y.new)
    BY <1>1, <1>2, <2>2
  <2> HIDE DEF new
  <2>5. \A p, q \in with : p[1] = q[1] \/ p[2] = q[2] => p = q
    BY <1>1, <2>2
  <2> HIDE DEF todo, settled, taken, with
  <2>6. /\ paired \subseteq settled \X taken
        /\ \A p \in paired : (\E y \in pairs : p[1] = y.old) /\ (\E y \in pairs : p[2] = y.new)
        /\ \A p, q \in paired : p[1] = q[1] \/ p[2] = q[2] => p = q
    BY <1>1, <2>1, <2>3, <2>4, <2>5
  <2> HIDE DEF Settling
  <2>7. Settling([todo |-> todo, settled |-> settled, taken |-> taken, paired |-> paired], pairs)
    BY <1>2, <2>6 DEF Settling
  <2> QED BY <2>1, <2>7 DEF todo
<1> QED BY <1>3, <1>4

LEMMA RenamedIsOneToOne ==
    ASSUME NEW b, Version(b), NEW h, Version(h), NEW names
    PROVE  /\ \A p \in Renamed(b, h, names) : p[1] \notin DOMAIN h /\ p[2] \notin DOMAIN b
           /\ \A p, q \in Renamed(b, h, names) : p[1] = q[1] \/ p[2] = q[2] => p = q
<1> DEFINE pairs == Close(Scored(b, h, names))
           N == Cardinality(pairs)
           from == [todo |-> pairs, settled |-> {}, taken |-> {}, paired |-> {}]
           step(st) == Settle(st, Best(st.todo), pairs)
           Next1(f, i) == IF i = 0 THEN from ELSE step(f[i - 1])
           P == {k \in 0..N : \E f : f = [i \in 0..k |-> Next1(f, i)]}
           after == CHOOSE f : f = [i \in 0..N |-> Next1(f, i)]
<1>1. /\ pairs \in SUBSET Candidate /\ IsFiniteSet(pairs)
      /\ \A x \in pairs : x.old \notin DOMAIN h /\ x.new \notin DOMAIN b
  BY PairsAreCandidates
<1>2. Renamed(b, h, names) = after[N].paired
  BY DEF Renamed
<1> HIDE DEF pairs
<1>3. N \in Nat
  BY <1>1, FS_CardinalityType
<1>4. Settling(from, pairs) /\ Cardinality(from.todo) = N - 0
  BY <1>3 DEF Settling
<1>5. ASSUME NEW i \in 1..N, NEW st, Settling(st, pairs), Cardinality(st.todo) = N - (i - 1)
      PROVE  Settling(step(st), pairs) /\ Cardinality(step(st).todo) = N - i
  <2>1. st.todo \in SUBSET Candidate /\ IsFiniteSet(st.todo)
    BY <1>1, <1>5, FS_Subset DEF Settling
  <2>2. st.todo # {}
    <3>1. Cardinality(st.todo) # 0
      BY <1>3, <1>5
    <3> QED BY <3>1, FS_EmptySet
  <2>3. Best(st.todo) \in st.todo
    BY <2>1, <2>2, BestIsOne
  <2>4. Settling(step(st), pairs) /\ step(st).todo = st.todo \ {Best(st.todo)}
    BY <1>5, <2>3, SettleKeeps
  <2>5. Cardinality(st.todo \ {Best(st.todo)}) = Cardinality(st.todo) - 1
    BY <2>1, <2>3, FS_RemoveElement
  <2> QED BY <1>3, <1>5, <2>4, <2>5
<1> HIDE DEF N, step, from
<1>6. 0 \in P
  <2> DEFINE e == [i \in 0..0 |-> from]
  <2>1. e = [i \in 0..0 |-> Next1(e, i)]
    <3>1. \A i \in 0..0 : e[i] = Next1(e, i)
      OBVIOUS
    <3>2. e = [i \in 0..0 |-> e[i]]
      OBVIOUS
    <3> HIDE DEF e, Next1
    <3> QED BY <3>1, <3>2
  <2> HIDE DEF e, Next1
  <2>2. \E f : f = [i \in 0..0 |-> Next1(f, i)]
    BY <2>1
  <2>3. 0 \in 0..N
    BY <1>3
  <2> QED BY <2>2, <2>3
<1>7. ASSUME NEW k \in 1..N, k - 1 \in P PROVE k \in P
  <2>1. PICK f : f = [i \in 0..(k - 1) |-> Next1(f, i)]
    BY <1>7
  <2> DEFINE g == [i \in 0..k |-> IF i = k THEN Next1(f, k) ELSE f[i]]
  <2>2. ASSUME NEW i \in 0..k PROVE g[i] = Next1(g, i)
    <3>1. CASE i = k
      BY <3>1, <1>3
    <3>2. CASE i # k
      <4>1. i \in 0..(k - 1) /\ (i # 0 => i - 1 \in 0..(k - 1))
        BY <3>2
      <4>2. g[i] = f[i] /\ (i # 0 => g[i - 1] = f[i - 1])
        BY <4>1
      <4>3. f[i] = Next1(f, i)
        BY <2>1, <4>1
      <4> QED BY <4>2, <4>3
    <3> QED BY <3>1, <3>2
  <2>3. g = [i \in 0..k |-> Next1(g, i)]
    <3>1. g = [i \in 0..k |-> g[i]]
      OBVIOUS
    <3> HIDE DEF g
    <3> QED BY <2>2, <3>1
  <2> HIDE DEF g, Next1
  <2> QED BY <2>3
<1> HIDE DEF P
<1>8. N \in P
  <2>1. \A k \in 0..N : k \in P
    BY <1>3, <1>6, <1>7, UpTo
  <2> QED BY <1>3, <2>1
<1>9. after = [i \in 0..N |-> Next1(after, i)]
  <2>1. \E f : f = [i \in 0..N |-> Next1(f, i)]
    BY <1>8 DEF P
  <2> HIDE DEF Next1
  <2> QED BY <2>1
<1> HIDE DEF after
<1> DEFINE Q == {k \in 0..N : Settling(after[k], pairs) /\ Cardinality(after[k].todo) = N - k}
<1>10. 0 \in Q
  <2>1. after[0] = from
    BY <1>3, <1>9
  <2> QED BY <1>3, <1>4, <2>1
<1>11. ASSUME NEW k \in 1..N, k - 1 \in Q PROVE k \in Q
  <2>1. after[k] = Next1(after, k)
    <3>1. k \in 0..N
      BY <1>3
    <3> HIDE DEF Next1
    <3> QED BY <1>9, <3>1
  <2>2. after[k] = step(after[k - 1])
    BY <2>1
  <2>3. Settling(after[k - 1], pairs) /\ Cardinality(after[k - 1].todo) = N - (k - 1)
    BY <1>11
  <2>4. Settling(step(after[k - 1]), pairs) /\ Cardinality(step(after[k - 1]).todo) = N - k
    BY <1>5, <2>3
  <2> QED BY <2>2, <2>4
<1> HIDE DEF Q
<1>12. N \in Q
  <2>1. \A k \in 0..N : k \in Q
    BY <1>3, <1>10, <1>11, UpTo
  <2> QED BY <1>3, <2>1
<1>13. Settling(after[N], pairs)
  BY <1>12 DEF Q
<1> QED BY <1>1, <1>2, <1>13 DEF Settling

(* diff.rs, 53: whatever edits led from one version to the other, an instruction of the *)
(* base is compared with at most one of the head, and no two with the same one.         *)
THEOREM ComparedOneToOneAlways == Spec => []ComparedOneToOne
<1>1. VersionInv => ComparedOneToOne
  <2> SUFFICES ASSUME VersionInv, NEW x \in Compared(base, head, Common), NEW y \in Compared(base, head, Common),
                      x[1] = y[1] \/ x[2] = y[2]
               PROVE  x = y
    BY DEF ComparedOneToOne
  <2> DEFINE R == Renamed(base, head, Common)
             K == {<<i, i>> : i \in DOMAIN base \cap DOMAIN head}
  <2>1. /\ \A p \in R : p[1] \notin DOMAIN head /\ p[2] \notin DOMAIN base
        /\ \A p, q \in R : p[1] = q[1] \/ p[2] = q[2] => p = q
    BY RenamedIsOneToOne, HeadIsVersion DEF VersionInv
  <2>2. \A p \in K : p[1] \in DOMAIN head /\ p[2] \in DOMAIN base
    OBVIOUS
  <2>3. \A p, q \in K : p[1] = q[1] \/ p[2] = q[2] => p = q
    OBVIOUS
  <2>4. x \in R \cup K /\ y \in R \cup K
    BY DEF Compared
  <2> HIDE DEF R, K
  <2> QED BY <2>1, <2>2, <2>3, <2>4
<1> QED BY <1>1, VersionInvAlways, PTL

-----------------------------------------------------------------------------
(* The accounts of an IDL are the slots of the instruction, in an order.     *)

\* Some path has none before it.
LEMMA FirstIsOne ==
    ASSUME NEW S, S # {}, S \subseteq SlotPaths
    PROVE  First(S) \in S
<1>1. \A p \in S : p \in Seq(Nat) /\ Len(p) \in Nat /\ p[1] \in Nat /\ (Len(p) = 2 => p[2] \in Nat)
  BY DEF SlotPaths
<1> DEFINE T == {p[1] : p \in S}
<1>2. PICK a \in T : \A y \in T : a <= y
  <2>1. T \in SUBSET Nat /\ T # {}
    BY <1>1
  <2> HIDE DEF T
  <2> QED BY <2>1, LeastExists
<1> DEFINE U == {Len(p) : p \in {q \in S : q[1] = a}}
<1>3. PICK b \in U : \A y \in U : b <= y
  <2>1. U \in SUBSET Nat /\ U # {}
    BY <1>1, <1>2
  <2> HIDE DEF U
  <2> QED BY <2>1, LeastExists
<1>4. PICK p \in S : p[1] = a /\ Len(p) = b
  BY <1>3
<1>5. \A q \in S : /\ q[1] \in Nat /\ Len(q) \in Nat /\ a <= q[1]
                   /\ q[1] = a => b <= Len(q)
  BY <1>1, <1>2, <1>3
<1> HIDE DEF T, U
<1>6. CASE b # 2
  <2>1. \A q \in S : ~PathBefore(q, p)
    BY <1>1, <1>4, <1>5, <1>6 DEF PathBefore
  <2> QED BY <2>1 DEF First
<1>7. CASE b = 2
  <2> DEFINE V == {q[2] : q \in {x \in S : x[1] = a /\ Len(x) = 2}}
  <2>1. PICK c \in V : \A y \in V : c <= y
    <3>1. V \in SUBSET Nat /\ V # {}
      BY <1>1, <1>4, <1>7
    <3> HIDE DEF V
    <3> QED BY <3>1, LeastExists
  <2>2. PICK r \in S : r[1] = a /\ Len(r) = 2 /\ r[2] = c
    BY <2>1
  <2>3. \A q \in S : q[1] = a /\ Len(q) = 2 => q[2] \in Nat /\ c <= q[2]
    BY <1>1, <2>1
  <2> HIDE DEF V
  <2>4. \A q \in S : ~PathBefore(q, r)
    BY <1>1, <1>5, <1>7, <2>2, <2>3 DEF PathBefore
  <2> QED BY <2>4 DEF First
<1> QED BY <1>6, <1>7

LEMMA InOrderHasAll ==
    ASSUME NEW S, S \subseteq SlotPaths, IsFiniteSet(S)
    PROVE  /\ InOrder(S) = [k \in 1..Cardinality(S) |-> InOrder(S)[k]]
           /\ Range(InOrder(S)) = S
<1> DEFINE N == Cardinality(S)
           step(T) == T \ {First(T)}
           Next1(f, i) == IF i = 0 THEN S ELSE step(f[i - 1])
           P == {k \in 0..N : \E f : f = [i \in 0..k |-> Next1(f, i)]}
           left == CHOOSE f : f = [i \in 0..N |-> Next1(f, i)]
           order == [k \in 1..N |-> First(left[k - 1])]
<1>1. N \in Nat
  BY FS_CardinalityType
<1>2. InOrder(S) = order
  BY DEF InOrder
<1>3. order = [k \in 1..N |-> order[k]]
  OBVIOUS
<1> DEFINE Left(T, i) == T \in SUBSET S /\ Cardinality(T) = N - i
<1>4. ASSUME NEW i \in 1..N, NEW T, Left(T, i - 1)
      PROVE  First(T) \in T /\ Left(step(T), i)
  <2>1. IsFiniteSet(T) /\ T \subseteq S
    BY <1>4, FS_Subset
  <2>2. T # {}
    <3>1. Cardinality(T) # 0
      BY <1>1, <1>4
    <3> QED BY <3>1, FS_EmptySet
  <2>3. First(T) \in T
    BY <2>1, <2>2, FirstIsOne
  <2>4. Cardinality(T \ {First(T)}) = Cardinality(T) - 1
    BY <2>1, <2>3, FS_RemoveElement
  <2> QED BY <1>1, <1>4, <2>1, <2>3, <2>4
<1>5. Left(S, 0)
  BY <1>1
<1> HIDE DEF N, step, Left
<1>6. 0 \in P
  <2> DEFINE e == [i \in 0..0 |-> S]
  <2>1. e = [i \in 0..0 |-> Next1(e, i)]
    <3>1. \A i \in 0..0 : e[i] = Next1(e, i)
      OBVIOUS
    <3>2. e = [i \in 0..0 |-> e[i]]
      OBVIOUS
    <3> HIDE DEF e, Next1
    <3> QED BY <3>1, <3>2
  <2> HIDE DEF e, Next1
  <2>2. \E f : f = [i \in 0..0 |-> Next1(f, i)]
    BY <2>1
  <2>3. 0 \in 0..N
    BY <1>1
  <2> QED BY <2>2, <2>3
<1>7. ASSUME NEW k \in 1..N, k - 1 \in P PROVE k \in P
  <2>1. PICK f : f = [i \in 0..(k - 1) |-> Next1(f, i)]
    BY <1>7
  <2> DEFINE g == [i \in 0..k |-> IF i = k THEN Next1(f, k) ELSE f[i]]
  <2>2. ASSUME NEW i \in 0..k PROVE g[i] = Next1(g, i)
    <3>1. CASE i = k
      BY <3>1, <1>1
    <3>2. CASE i # k
      <4>1. i \in 0..(k - 1) /\ (i # 0 => i - 1 \in 0..(k - 1))
        BY <3>2
      <4>2. g[i] = f[i] /\ (i # 0 => g[i - 1] = f[i - 1])
        BY <4>1
      <4>3. f[i] = Next1(f, i)
        BY <2>1, <4>1
      <4> QED BY <4>2, <4>3
    <3> QED BY <3>1, <3>2
  <2>3. g = [i \in 0..k |-> Next1(g, i)]
    <3>1. g = [i \in 0..k |-> g[i]]
      OBVIOUS
    <3> HIDE DEF g
    <3> QED BY <2>2, <3>1
  <2> HIDE DEF g, Next1
  <2> QED BY <2>3
<1> HIDE DEF P
<1>8. left = [i \in 0..N |-> Next1(left, i)]
  <2>1. \A k \in 0..N : k \in P
    BY <1>1, <1>6, <1>7, UpTo
  <2>2. N \in P
    BY <1>1, <2>1
  <2>3. \E f : f = [i \in 0..N |-> Next1(f, i)]
    BY <2>2 DEF P
  <2> HIDE DEF Next1
  <2> QED BY <2>3
<1> HIDE DEF left
<1>9. left[0] = S
  BY <1>1, <1>8
<1>10. ASSUME NEW k \in 1..N PROVE left[k] = step(left[k - 1])
  <2>1. left[k] = Next1(left, k)
    <3>1. k \in 0..N
      BY <1>1
    <3> HIDE DEF Next1
    <3> QED BY <1>8, <3>1
  <2> QED BY <2>1
<1> DEFINE Q == {k \in 0..N : Left(left[k], k)}
<1>11. \A k \in 0..N : k \in Q
  <2>1. 0 \in Q
    BY <1>1, <1>5, <1>9
  <2>2. ASSUME NEW k \in 1..N, k - 1 \in Q PROVE k \in Q
    <3>1. Left(left[k - 1], k - 1)
      BY <2>2
    <3>2. Left(left[k], k)
      BY <3>1, <1>4, <1>10
    <3> QED BY <3>2
  <2> HIDE DEF Q
  <2> QED BY <1>1, <2>1, <2>2, UpTo
<1>12. ASSUME NEW k \in 1..N PROVE First(left[k - 1]) \in left[k - 1] /\ left[k - 1] \subseteq S
  <2>1. k - 1 \in 0..N
    BY <1>1
  <2>2. Left(left[k - 1], k - 1)
    BY <1>11, <2>1
  <2>3. First(left[k - 1]) \in left[k - 1]
    BY <1>4, <2>2
  <2> QED BY <2>2, <2>3 DEF Left
<1>13. left[N] = {}
  <2>1. Left(left[N], N)
    BY <1>1, <1>11
  <2>2. left[N] \subseteq S /\ Cardinality(left[N]) = 0
    BY <1>1, <2>1 DEF Left
  <2> QED BY <2>2, FS_Subset, FS_EmptySet
<1>14. ASSUME NEW p \in S PROVE \E k \in 1..N : order[k] = p
  <2> DEFINE G == {k \in 0..N : p \notin left[k]}
  <2>1. PICK n \in G : \A j \in G : n <= j
    <3>1. G \in SUBSET Nat /\ G # {}
      BY <1>1, <1>13
    <3> HIDE DEF G
    <3> QED BY <3>1, LeastExists
  <2>2. n \in 1..N /\ n - 1 \in 0..N /\ n - 1 \notin G
    BY <1>1, <1>9, <2>1
  <2>3. p \in left[n - 1] /\ p \notin left[n]
    BY <2>1, <2>2
  <2>4. p = First(left[n - 1])
    BY <2>2, <2>3, <1>10 DEF step
  <2> QED BY <2>2, <2>4
<1>15. \A k \in 1..N : order[k] \in S
  BY <1>12
<1>16. Range(order) = S
  <2> HIDE DEF order
  <2> QED BY <1>3, <1>14, <1>15 DEF Range
<1> QED BY <1>2, <1>3, <1>16 DEF N

-----------------------------------------------------------------------------
(* What fails a build is gone.                                               *)

AccountsOf(slots, resolved) == {Account(slots, p, resolved) : p \in DOMAIN slots}

\* The accounts of an instruction as anchor build writes them.
LEMMA AnchorAccounts ==
    ASSUME NEW v, Version(v), NEW resolved
    PROVE  LET idl == AnchorIdl(v, resolved)
           IN  /\ idl.legacy = FALSE /\ DOMAIN idl.ixs = DOMAIN v
               /\ \A i \in DOMAIN v :
                     /\ Range(idl.ixs[i].accounts) = AccountsOf(v[i].slots, resolved)
                     /\ idl.ixs[i] = [args |-> idl.ixs[i].args, accounts |-> idl.ixs[i].accounts]
<1> DEFINE idl == AnchorIdl(v, resolved)
           paths(i) == InOrder(DOMAIN v[i].slots)
           accounts(i) == [k \in DOMAIN paths(i) |-> Account(v[i].slots, paths(i)[k], resolved)]
<1>1. idl = [legacy |-> FALSE, ixs |-> [i \in DOMAIN v |-> [args |-> v[i].args, accounts |-> accounts(i)]]]
  BY DEF AnchorIdl
<1>2. ASSUME NEW i \in DOMAIN v
      PROVE  Range(accounts(i)) = AccountsOf(v[i].slots, resolved)
  <2>1. Range(paths(i)) = DOMAIN v[i].slots
    BY InOrderHasAll DEF Version, Built
  <2> HIDE DEF paths
  <2> QED BY <2>1 DEF Range, AccountsOf
<1> HIDE DEF accounts
<1> QED BY <1>1, <1>2

\* The same in the old format, converted: what declares a has_one names it.
LegacyAccount(slots, path) ==
    [Account(slots, path, TRUE) EXCEPT !.address = {}, !.relations = DeclarersOf(slots, path)]

LegacyAccountsOf(slots) == {LegacyAccount(slots, p) : p \in DOMAIN slots}

LEMMA LegacyAccounts ==
    ASSUME NEW v, Version(v)
    PROVE  LET idl == Convert(LegacyIdl(v))
           IN  /\ idl.legacy = TRUE /\ DOMAIN idl.ixs = DOMAIN v
               /\ \A i \in DOMAIN v :
                     Range(idl.ixs[i].accounts) = LegacyAccountsOf(v[i].slots)
<1> DEFINE written == AnchorIdl(v, TRUE)
           listed(i) == written.ixs[i].accounts
           was(i) == AsLegacy(v[i].slots, listed(i))
           idl == Convert(LegacyIdl(v))
<1>1. ASSUME NEW i \in DOMAIN v
      PROVE  Range(listed(i)) = AccountsOf(v[i].slots, TRUE)
  <2>1. /\ Range(written.ixs[i].accounts) = AccountsOf(v[i].slots, TRUE)
        /\ written.ixs[i] = [args |-> written.ixs[i].args, accounts |-> written.ixs[i].accounts]
    <3> HIDE DEF listed, was, idl
    <3> QED BY AnchorAccounts
  <2> QED BY <2>1
<1>2. LegacyIdl(v) = [i \in DOMAIN v |-> [args |-> v[i].args, accounts |-> was(i)]]
  BY DEF LegacyIdl
<1> HIDE DEF was
<1>3. /\ idl.legacy = TRUE /\ DOMAIN idl.ixs = DOMAIN v
      /\ \A i \in DOMAIN v : idl.ixs[i].accounts = Converted(was(i))
  BY <1>2 DEF Convert
<1> HIDE DEF idl, listed, written
<1> USE DEF was
<1>4. ASSUME NEW i \in DOMAIN v
      PROVE  Range(Converted(was(i))) = LegacyAccountsOf(v[i].slots)
  <2> DEFINE slots == v[i].slots
             at(p) == Account(slots, p, TRUE)
             old(p) == [at(p) EXCEPT !.address = {}, !.relations = slots[p].has_one]
             acc == listed(i)
             w == was(i)
             c == Converted(w)
  <2>1. Range(acc) = {at(p) : p \in DOMAIN slots}
    BY <1>1 DEF AccountsOf
  <2>2. \A p : at(p).path = p /\ at(p) = [path |-> p, writable |-> at(p).writable, optional |-> at(p).optional,
                   signer |-> at(p).signer, address |-> at(p).address, pda |-> at(p).pda, relations |-> at(p).relations]
    BY DEF Account
  <2> HIDE DEF at, acc, slots
  <2>3. w = [k \in DOMAIN acc |-> [acc[k] EXCEPT !.address = {}, !.relations = slots[acc[k].path].has_one]]
    BY DEF AsLegacy, acc, slots
  <2> HIDE DEF w
  <2>4. ASSUME NEW k \in DOMAIN acc, NEW p, acc[k] = at(p)
        PROVE  w[k] = old(p)
    BY <2>2, <2>3, <2>4
  <2>5. \A p : old(p).path = p /\ old(p).relations = slots[p].has_one
    BY <2>2
  <2> HIDE DEF old
  <2>6. DOMAIN w = DOMAIN acc
    BY <2>3
  <2>7. Range(w) = {old(p) : p \in DOMAIN slots}
    <3>1. \A k \in DOMAIN acc : \E p \in DOMAIN slots : acc[k] = at(p)
      BY <2>1 DEF Range
    <3>2. \A p \in DOMAIN slots : \E k \in DOMAIN acc : acc[k] = at(p)
      BY <2>1 DEF Range
    <3>3. \A k \in DOMAIN w : \E p \in DOMAIN slots : w[k] = old(p)
      BY <2>4, <2>6, <3>1
    <3>4. \A p \in DOMAIN slots : \E k \in DOMAIN w : w[k] = old(p)
      BY <2>4, <2>6, <3>2
    <3> QED BY <3>3, <3>4 DEF Range
  <2>8. ASSUME NEW p \in DOMAIN slots
        PROVE  Onto(w, p) = DeclarersOf(slots, p)
    <3>1. \A q \in DOMAIN slots : old(q) \in Range(w)
      BY <2>7
    <3>2. \A x \in Range(w) : x.path \in DOMAIN slots /\ x.relations = slots[x.path].has_one
      BY <2>5, <2>7
    <3>3. Onto(w, p) \subseteq DeclarersOf(slots, p)
      BY <3>2 DEF DeclarersOf, Onto
    <3>4. DeclarersOf(slots, p) \subseteq Onto(w, p)
      BY <2>5, <3>1 DEF DeclarersOf, Onto
    <3> QED BY <3>3, <3>4
  <2>9. c = [k \in DOMAIN w |-> [w[k] EXCEPT !.relations = Onto(w, w[k].path)]]
    BY DEF Converted
  <2> HIDE DEF c
  <2>10. ASSUME NEW k \in DOMAIN w, NEW p \in DOMAIN slots, w[k] = old(p)
         PROVE  c[k] = LegacyAccount(slots, p)
    <3>1. c[k] = [old(p) EXCEPT !.relations = DeclarersOf(slots, p)]
      BY <2>5, <2>8, <2>9, <2>10
    <3>2. LegacyAccount(slots, p) = [at(p) EXCEPT !.address = {}, !.relations = DeclarersOf(slots, p)]
      BY DEF LegacyAccount, at
    <3>3. old(p) = [at(p) EXCEPT !.address = {}, !.relations = slots[p].has_one]
      BY DEF old
    <3> QED BY <2>2, <3>1, <3>2, <3>3
  <2>11. DOMAIN c = DOMAIN w
    BY <2>9
  <2>12. Range(c) = {LegacyAccount(slots, p) : p \in DOMAIN slots}
    <3>1. \A k \in DOMAIN w : \E p \in DOMAIN slots : w[k] = old(p)
      BY <2>7 DEF Range
    <3>2. \A p \in DOMAIN slots : \E k \in DOMAIN w : w[k] = old(p)
      BY <2>7 DEF Range
    <3>3. \A k \in DOMAIN c : \E p \in DOMAIN slots : c[k] = LegacyAccount(slots, p)
      BY <2>10, <2>11, <3>1
    <3>4. \A p \in DOMAIN slots : \E k \in DOMAIN c : c[k] = LegacyAccount(slots, p)
      BY <2>10, <2>11, <3>2
    <3> QED BY <3>3, <3>4 DEF Range
  <2> QED BY <2>12 DEF c, w, slots, LegacyAccountsOf
<1> HIDE DEF was
<1>5. \A i \in DOMAIN v : Range(idl.ixs[i].accounts) = LegacyAccountsOf(v[i].slots)
  BY <1>3, <1>4
<1> QED BY <1>3, <1>5 DEF idl

\* The checks an account of an IDL no longer has, where nothing else explains it.
Weakened(h, x, y, renames, resolved, legacy) ==
    \/ x.signer /\ ~y.signer
    \/ resolved /\ x.pda # {} /\ y.pda = {}
    \/ resolved /\ ~legacy /\ x.address # {} /\ y.address = {}
    \/ /\ resolved
       /\ \E r \in x.relations :
             /\ HeadName(renames, x.path, r) \notin y.relations
             /\ HeadPath(renames, Sibling(x.path, r)) = Sibling(x.path, r)
             /\ Sibling(x.path, r) \in Paths(h)

LEMMA Severities ==
    ASSUME NEW ix, NEW path, NEW why
    PROVE  /\ Warning(ix, path, why).severity # "Regression"
           /\ \A test, c : c \in When(test, Warning(ix, path, why)) => c.severity # "Regression"
           /\ Regression(ix, path, why).ix = ix /\ Regression(ix, path, why).path = path
<1>1. Warning(ix, path, why).severity # "Regression"
  BY DEF Warning, Change
<1>2. \A test, c : c \in When(test, Warning(ix, path, why)) => c = Warning(ix, path, why)
  BY DEF When
<1> QED BY <1>1, <1>2 DEF Regression, Change

\* Two accounts: a removal is read at one path, and of an instruction of the same name.
LEMMA RemovedOfAccount ==
    ASSUME NEW b, NEW h, NEW ix, NEW x, NEW y, NEW renames, NEW guessed, NEW resolved, NEW legacy,
           NEW c \in DiffAccount(b, h, ix, x, y, renames, guessed, resolved, legacy), c.severity = "Regression"
    PROVE  /\ ~guessed /\ x.path = y.path /\ c.ix = ix /\ c.path = x.path
           /\ Weakened(h, x, y, renames, resolved, legacy)
<1> DEFINE read(S, T) == \E u \in S, w \in T : ~SameSeeds(renames, x.path, u, w)
           addresses == resolved /\ ~legacy
           lostHas == IF resolved THEN LostHasOnes(renames, x, y) ELSE {}
           stays(r) == /\ HeadPath(renames, Sibling(x.path, r)) = Sibling(x.path, r)
                       /\ Sibling(x.path, r) \in Paths(h)
           removed == \/ x.signer /\ ~y.signer
                      \/ resolved /\ x.pda # {} /\ y.pda = {}
                      \/ addresses /\ x.address # {} /\ y.address = {}
                      \/ \E r \in lostHas : stays(r)
           moved == \E r \in lostHas : ~stays(r)
           reseeded == resolved /\ read(x.pda, y.pda)
           readdressed == addresses /\ x.address # {} /\ y.address # {} /\ x.address # y.address
           loosened == ~x.optional /\ y.optional
           word == IF Sure(guessed, x, y) THEN Regression(ix, x.path, "removed") ELSE Warning(ix, x.path, "removed")
<1>1. DiffAccount(b, h, ix, x, y, renames, guessed, resolved, legacy) =
        When(removed, word)
            \cup When(moved, Warning(ix, x.path, "loosened"))
            \cup When(reseeded, Warning(ix, x.path, "seeds"))
            \cup When(readdressed, Warning(ix, x.path, "address"))
            \cup When(loosened, Warning(ix, x.path, "optional"))
  BY DEF DiffAccount
<1>2. removed => Weakened(h, x, y, renames, resolved, legacy)
  BY DEF Weakened, LostHasOnes
<1> HIDE DEF removed, word, moved, reseeded, readdressed, loosened
<1>3. c \in When(removed, word)
  BY <1>1, Severities
<1>4. removed /\ c = word
  BY <1>3 DEF When
<1>5. Sure(guessed, x, y) /\ c = Regression(ix, x.path, "removed")
  BY <1>4, Severities DEF word
<1> QED BY <1>2, <1>4, <1>5, Severities DEF Sure

LEMMA RemovedOfIx ==
    ASSUME NEW b, NEW h, NEW ix, NEW guessed, NEW resolved, NEW legacy,
           NEW c \in DiffIdlIx(b, h, ix, guessed, resolved, legacy), c.severity = "Regression"
    PROVE  \E x \in Range(b.accounts), y \in Range(h.accounts) : \E renames :
              /\ ~guessed /\ x.path = y.path /\ c.ix = ix /\ c.path = x.path
              /\ Weakened(h, x, y, renames, resolved, legacy)
<1> DEFINE renames == Renames(b, h)
           at(path) == {y \in Range(h.accounts) : y.path = HeadPath(renames, path)}
           gone == {a \in Range(b.accounts) : at(a.path) = {}}
           kept == Range(b.accounts) \ gone
           signers(x) == Cardinality({k \in DOMAIN x.accounts : x.accounts[k].signer})
           reported == \/ \E a \in gone : a.signer
                       \/ \E a \in kept : a.signer /\ \A y \in at(a.path) : ~y.signer
           fewer == signers(h) < signers(b) /\ ~reported
           opened == ~IsUnsignedWriter(b) /\ IsUnsignedWriter(h)
           guesses == {y \in renames : ~Plain(b, h, y)}
           slots == {x \in gone : AccountChecks(x)}
           twos == {y \in kept \X Range(h.accounts) : y[2] \in at(y[1].path)}
           two(x) == DiffAccount(b, h, ix, x[1], x[2], renames, guessed, resolved, legacy)
<1>1. DiffIdlIx(b, h, ix, guessed, resolved, legacy) =
        {Warning(ix, x.base.path, "guess") : x \in guesses}
            \cup {Warning(ix, a.path, "slot") : a \in slots}
            \cup (UNION {two(x) : x \in twos})
            \cup When(fewer, Warning(ix, <<>>, "signers"))
            \cup When(opened, Warning(ix, <<>>, "unsigned"))
  BY DEF DiffIdlIx
<1>2. twos \subseteq Range(b.accounts) \X Range(h.accounts)
  OBVIOUS
<1> HIDE DEF guesses, slots, twos, two, fewer, opened
<1>3. PICK x \in twos : c \in two(x)
  <2>1. c \notin {Warning(ix, x.base.path, "guess") : x \in guesses}
    BY Severities
  <2>2. c \notin {Warning(ix, a.path, "slot") : a \in slots}
    BY Severities
  <2>3. c \notin When(fewer, Warning(ix, <<>>, "signers")) /\ c \notin When(opened, Warning(ix, <<>>, "unsigned"))
    BY Severities
  <2> QED BY <1>1, <2>1, <2>2, <2>3
<1>4. x[1] \in Range(b.accounts) /\ x[2] \in Range(h.accounts)
  BY <1>2
<1>5. /\ ~guessed /\ x[1].path = x[2].path /\ c.ix = ix /\ c.path = x[1].path
      /\ Weakened(h, x[1], x[2], renames, resolved, legacy)
  <2> HIDE DEF renames
  <2>1. c \in DiffAccount(b, h, ix, x[1], x[2], renames, guessed, resolved, legacy)
    BY <1>3 DEF two
  <2> QED BY <2>1, RemovedOfAccount
<1> HIDE DEF renames
<1> QED BY <1>4, <1>5

Resolved(b, h) == ~BuiltWithoutResolution(b, h)
EitherLegacy(b, h) == b.legacy \/ h.legacy

LEMMA RemovedOfIdl ==
    ASSUME NEW b, NEW h, NEW c \in Removed(DiffIdl(b, h))
    PROVE  \E i \in DOMAIN b.ixs \cap DOMAIN h.ixs :
           \E x \in Range(b.ixs[i].accounts), y \in Range(h.ixs[i].accounts) : \E renames :
              /\ x.path = y.path /\ c.ix = i /\ c.path = x.path
              /\ Weakened(h.ixs[i], x, y, renames, Resolved(b, h), EitherLegacy(b, h))
<1> DEFINE resolved == ~BuiltWithoutResolution(b, h)
           legacy == b.legacy \/ h.legacy
           renamed == RenamedTo(b, h)
           unmatched == (DOMAIN h.ixs \ DOMAIN b.ixs) \ {x[2] : x \in renamed}
           replaced == {old \in DOMAIN b.ixs \ DOMAIN h.ixs :
                           /\ \A x \in renamed : x[1] # old
                           /\ unmatched # {} /\ \E a \in Range(b.ixs[old].accounts) : AccountChecks(a)}
           compare(old, new, guessed) ==
               DiffIdlIx(b.ixs[old], h.ixs[new], new, guessed, resolved, legacy)
           writers == {m \in unmatched : IsUnsignedWriter(h.ixs[m])}
           both == DOMAIN b.ixs \cap DOMAIN h.ixs
<1>1. c \in DiffIdl(b, h) /\ c.severity = "Regression"
  BY DEF Removed
<1>2. DiffIdl(b, h) =
        When(~resolved, Warning(0, <<>>, "unresolved"))
            \cup {Warning(old, <<>>, "replaced") : old \in replaced}
            \cup (UNION {compare(i, i, FALSE) : i \in both})
            \cup (UNION {compare(x[1], x[2], TRUE) : x \in renamed})
            \cup {Warning(n, <<>>, "new") : n \in writers}
  BY DEF DiffIdl
<1> HIDE DEF resolved, legacy, renamed, replaced, writers, both
<1>3. ASSUME NEW x \in renamed, c \in compare(x[1], x[2], TRUE) PROVE FALSE
  <2> DEFINE bx == b.ixs[x[1]]
             hx == h.ixs[x[2]]
             new == x[2]
             g == TRUE
  <2>1. c \in DiffIdlIx(bx, hx, new, g, resolved, legacy)
    BY <1>3
  <2> HIDE DEF bx, hx, new, g
  <2>2. ~g
    BY <1>1, <2>1, RemovedOfIx
  <2> QED BY <2>2 DEF g
<1>4. c \notin When(~resolved, Warning(0, <<>>, "unresolved"))
  BY <1>1, Severities
<1>5. c \notin {Warning(old, <<>>, "replaced") : old \in replaced} /\ c \notin {Warning(n, <<>>, "new") : n \in writers}
  BY <1>1, Severities
<1>6. PICK i \in both : c \in compare(i, i, FALSE)
  <2> HIDE DEF compare
  <2> QED BY <1>1, <1>2, <1>3, <1>4, <1>5
<1>7. \E x \in Range(b.ixs[i].accounts), y \in Range(h.ixs[i].accounts) : \E renames :
         /\ x.path = y.path /\ c.ix = i /\ c.path = x.path
         /\ Weakened(h.ixs[i], x, y, renames, resolved, legacy)
  <2> DEFINE bx == b.ixs[i]
             hx == h.ixs[i]
             g == FALSE
  <2>1. c \in DiffIdlIx(bx, hx, i, g, resolved, legacy)
    BY <1>6
  <2> HIDE DEF bx, hx, g
  <2>2. \E x \in Range(bx.accounts), y \in Range(hx.accounts) : \E renames :
         /\ x.path = y.path /\ c.ix = i /\ c.path = x.path
         /\ Weakened(hx, x, y, renames, resolved, legacy)
    BY <1>1, <2>1, RemovedOfIx
  <2> QED BY <2>2 DEF bx, hx
<1>8. Resolved(b, h) = resolved /\ EitherLegacy(b, h) = legacy
  BY DEF Resolved, EitherLegacy, resolved, legacy
<1> QED BY <1>6, <1>7, <1>8 DEF both

\* Built without account resolution, the head shows nothing, and the base gives that away
\* wherever it shows something that is compared.
LEMMA ResolutionIsSeen ==
    ASSUME VersionInv, BasesShowResolution, built.legacy \in BOOLEAN, built.resolved = FALSE,
           ~BuiltWithoutResolution(BaseIdl, HeadIdl),
           NEW i \in DOMAIN base, NEW x \in Range(BaseIdl.ixs[i].accounts)
    PROVE  built.legacy /\ x.pda = {} /\ x.relations = {}
<1> DEFINE slots(idl) == UNION {Range(idl.ixs[k].accounts) : k \in DOMAIN idl.ixs}
<1>1. ASSUME NEW a \in slots(HeadIdl) PROVE a.address = {} /\ a.pda = {} /\ a.relations = {}
  <2>1. Version(head)
    BY HeadIsVersion
  <2> DEFINE res == FALSE
             idl == AnchorIdl(head, res)
  <2>2. idl = HeadIdl
    BY DEF HeadIdl
  <2> HIDE DEF res
  <2>3. /\ DOMAIN idl.ixs = DOMAIN head
        /\ \A k \in DOMAIN head :
              Range(idl.ixs[k].accounts) = AccountsOf(head[k].slots, res)
    BY <2>1, AnchorAccounts
  <2> HIDE DEF idl
  <2>4. PICK k \in DOMAIN head : a \in Range(idl.ixs[k].accounts)
    BY <2>2, <2>3
  <2>5. PICK p \in DOMAIN head[k].slots : a = Account(head[k].slots, p, res)
    BY <2>3, <2>4 DEF AccountsOf
  <2> QED BY <2>5 DEF Account, res
<1> DEFINE baseResolved == \/ \E a \in slots(BaseIdl) : a.address # {}
                           \/ BaseIdl.legacy /\ \E a \in slots(BaseIdl) : a.pda # {} \/ a.relations # {}
           headResolved == \E a \in slots(HeadIdl) : a.address # {} \/ a.pda # {} \/ a.relations # {}
<1>2. BuiltWithoutResolution(BaseIdl, HeadIdl) = (baseResolved /\ ~headResolved)
  BY DEF BuiltWithoutResolution
<1>3. ~headResolved
  BY <1>1
<1>4. ~baseResolved
  <2> HIDE DEF baseResolved, headResolved
  <2> QED BY <1>2, <1>3
<1>5. Version(base) /\ base \in Bases
  BY DEF VersionInv
<1>6. CASE built.legacy
  <2> DEFINE idl == Convert(LegacyIdl(base))
  <2>1. idl = BaseIdl
    BY <1>6 DEF BaseIdl
  <2>2. idl.legacy = TRUE /\ DOMAIN idl.ixs = DOMAIN base
    BY <1>5, LegacyAccounts
  <2> HIDE DEF idl
  <2>3. x \in slots(BaseIdl)
    BY <2>1, <2>2
  <2>4. \A a \in slots(BaseIdl) : a.pda = {} /\ a.relations = {}
    BY <1>4, <2>1, <2>2
  <2> HIDE DEF slots
  <2> QED BY <1>6, <2>3, <2>4
<1>7. CASE ~built.legacy
  <2> DEFINE idl == AnchorIdl(base, TRUE)
  <2>1. idl = BaseIdl
    BY <1>7 DEF BaseIdl
  <2>2. /\ DOMAIN idl.ixs = DOMAIN base
        /\ \A k \in DOMAIN base :
              Range(idl.ixs[k].accounts) = AccountsOf(base[k].slots, TRUE)
    BY <1>5, AnchorAccounts
  <2> HIDE DEF idl
  <2>3. PICK k \in DOMAIN base : \E p \in DOMAIN base[k].slots : FixedInIdl(base[k].slots[p])
    BY <1>5 DEF BasesShowResolution
  <2>4. PICK p \in DOMAIN base[k].slots : FixedInIdl(base[k].slots[p])
    BY <2>3
  <2> DEFINE a == Account(base[k].slots, p, TRUE)
  <2>5. a.address # {}
    BY <2>4 DEF Account
  <2>6. a \in Range(idl.ixs[k].accounts)
    <3> HIDE DEF a
    <3> QED BY <2>2 DEF a, AccountsOf
  <2> HIDE DEF a
  <2>7. a \in slots(BaseIdl)
    BY <2>1, <2>2, <2>6
  <2> QED BY <1>4, <2>5, <2>7
<1> QED BY <1>6, <1>7

LEMMA LeafOfSibling ==
    ASSUME NEW p \in SlotPaths, NEW n, NEW q, Sibling(p, n) = q
    PROVE  Leaf(q) = n
<1> DEFINE f == Front(p)
<1>1. f \in Seq(Nat)
  BY SlotPathFacts
<1> HIDE DEF f
<1>2. Append(f, n)[Len(Append(f, n))] = n
  BY <1>1
<1> QED BY <1>2 DEF Sibling, Leaf, Last, f

\* What an IDL shows of the account at p of the base, and not of the one at p of the head.
LEMMA LostFact ==
    ASSUME NEW old, NEW new, Built(old), Built(new), NEW p \in DOMAIN old.slots, p \in DOMAIN new.slots,
           \A q \in DOMAIN old.slots \cap DOMAIN new.slots : new.slots[q].id = old.slots[q].id
    PROVE  LET s == old.slots[p]
               t == new.slots[p]
               lost(f) == f \in IdlFacts(old) \ IdlFacts(new)
           IN  /\ SignsIfPassed(s) /\ ~SignsIfPassed(t) => lost(<<"signs", s.id, 0>>)
               /\ (Seeds(s) \/ s.ata # {}) /\ ~(Seeds(t) \/ t.ata # {}) => lost(<<"pda", s.id, 0>>)
               /\ FixedInIdl(s) /\ ~FixedInIdl(t) /\ ~built.legacy => lost(<<"address", s.id, 0>>)
               /\ \A r \in DeclarersOf(old.slots, p) \ DeclarersOf(new.slots, p) :
                     Sibling(p, r) \in DOMAIN new.slots
                        => \E q \in DOMAIN old.slots : lost(<<"has_one", old.slots[q].id, s.id>>)
<1> DEFINE s == old.slots[p]
           t == new.slots[p]
           signs(ix) == {<<"signs", ix.slots[q].id, 0>> : q \in {x \in DOMAIN ix.slots : SignsIfPassed(ix.slots[x])}}
           required(ix) == {<<"required", ix.slots[q].id, 0>> : q \in {x \in DOMAIN ix.slots : ~ix.slots[x].optional}}
           address(ix) == {<<"address", ix.slots[q].id, 0>> :
                             q \in {x \in DOMAIN ix.slots : FixedInIdl(ix.slots[x]) /\ ~built.legacy}}
           pda(ix) == {<<"pda", ix.slots[q].id, 0>> :
                         q \in {x \in DOMAIN ix.slots : Seeds(ix.slots[x]) \/ ix.slots[x].ata # {}}}
           hasOne(ix) == UNION {{<<"has_one", ix.slots[q].id, ix.slots[Sibling(q, n)].id>> :
                                   n \in {u \in ix.slots[q].has_one : Sibling(q, u) \in DOMAIN ix.slots}} :
                                q \in DOMAIN ix.slots}
<1>1. \A ix : IdlFacts(ix) = signs(ix) \cup required(ix) \cup address(ix) \cup pda(ix) \cup hasOne(ix)
  BY DEF IdlFacts
<1>2. \A ix, f : /\ f \in signs(ix) => f[1] = "signs"
                 /\ f \in required(ix) => f[1] = "required"
                 /\ f \in address(ix) => f[1] = "address"
                 /\ f \in pda(ix) => f[1] = "pda"
                 /\ f \in hasOne(ix) => f[1] = "has_one"
  OBVIOUS
<1>3. t.id = s.id /\ \A q \in DOMAIN new.slots : new.slots[q].id = s.id => q = p
  BY DEF Built
<1>4. SignsIfPassed(s) => <<"signs", s.id, 0>> \in signs(old)
  OBVIOUS
<1>5. (Seeds(s) \/ s.ata # {}) => <<"pda", s.id, 0>> \in pda(old)
  OBVIOUS
<1>6. FixedInIdl(s) /\ ~built.legacy => <<"address", s.id, 0>> \in address(old)
  OBVIOUS
<1>7. <<"signs", s.id, 0>> \in signs(new) => SignsIfPassed(t)
  BY <1>3
<1>8. <<"pda", s.id, 0>> \in pda(new) => (Seeds(t) \/ t.ata # {})
  BY <1>3
<1>9. <<"address", s.id, 0>> \in address(new) => FixedInIdl(t)
  BY <1>3
<1>10. ASSUME NEW r \in DeclarersOf(old.slots, p) \ DeclarersOf(new.slots, p), Sibling(p, r) \in DOMAIN new.slots
       PROVE  \E q \in DOMAIN old.slots :
                 <<"has_one", old.slots[q].id, s.id>> \in hasOne(old) /\ <<"has_one", old.slots[q].id, s.id>> \notin hasOne(new)
  <2>1. PICK q \in DOMAIN old.slots : Front(q) = Front(p) /\ Leaf(p) \in old.slots[q].has_one /\ r = Leaf(q)
    BY <1>10 DEF DeclarersOf
  <2>2. q \in SlotPaths /\ p \in SlotPaths
    BY DEF Built
  <2>3. Sibling(p, r) = q /\ Sibling(q, Leaf(p)) = p
    BY <2>1, <2>2, SlotPathFacts DEF Sibling
  <2> DEFINE f == <<"has_one", old.slots[q].id, s.id>>
  <2>4. f \in hasOne(old)
    <3>1. f \in {<<"has_one", old.slots[q].id, old.slots[Sibling(q, n)].id>> :
                   n \in {u \in old.slots[q].has_one : Sibling(q, u) \in DOMAIN old.slots}}
      BY <2>1, <2>3
    <3> QED BY <3>1
  <2>5. ASSUME f \in hasOne(new) PROVE FALSE
    <3>1. PICK x \in DOMAIN new.slots : \E n \in new.slots[x].has_one :
             Sibling(x, n) \in DOMAIN new.slots /\ f = <<"has_one", new.slots[x].id, new.slots[Sibling(x, n)].id>>
      BY <2>5
    <3>2. PICK n \in new.slots[x].has_one :
             Sibling(x, n) \in DOMAIN new.slots /\ f = <<"has_one", new.slots[x].id, new.slots[Sibling(x, n)].id>>
      BY <3>1
    <3>3. new.slots[x].id = old.slots[q].id /\ new.slots[Sibling(x, n)].id = s.id
      BY <3>2
    <3>4. q \in DOMAIN new.slots /\ new.slots[q].id = old.slots[q].id
      BY <1>10, <2>3
    <3>5. x = q
      BY <3>3, <3>4 DEF Built
    <3>6. Sibling(q, n) = p
      BY <1>3, <3>2, <3>3, <3>5
    <3>7. n = Leaf(p)
      BY <2>2, <3>6, LeafOfSibling
    <3>8. r \in DeclarersOf(new.slots, p)
      BY <2>1, <3>2, <3>4, <3>5, <3>7 DEF DeclarersOf
    <3> QED BY <1>10, <3>8
  <2> HIDE DEF hasOne
  <2> QED BY <2>4, <2>5
<1> HIDE DEF signs, required, address, pda, hasOne
<1> QED BY <1>1, <1>2, <1>4, <1>5, <1>6, <1>7, <1>8, <1>9, <1>10

(* Whatever was edited and renamed, and however the IDLs were built, a       *)
(* removal that fails a build is a check the account at that path no longer  *)
(* has: Upgrade!NoGuessFailsABuild, diff_account of idl_diff.rs.             *)
THEOREM NoGuessFailsABuildAlways ==
    ASSUME AddedAreNew, BasesShowResolution
    PROVE  Spec => []NoGuessFailsABuild
<1> DEFINE BuiltInv == built \in [legacy : BOOLEAN, resolved : BOOLEAN]
<1>1. Init => BuiltInv
  BY DEF Init
<1>2. BuiltInv /\ [Next]_vars => BuiltInv'
  <2> SUFFICES ASSUME BuiltInv, [Next]_vars PROVE BuiltInv'
    OBVIOUS
  <2>1. BuildUnresolved => BuiltInv'
    BY DEF BuildUnresolved
  <2> HIDE DEF BuiltInv
  <2>2. built' = built \/ BuildUnresolved
    <3>1. \A i, ix : Put(i, ix) \/ Reword(i, ix) \/ Weaken(i, ix) => built' = built
      BY DEF Put, Reword, Weaken
    <3>2. ASSUME NEW i, NEW p, \/ LoosenType(i, p) \/ MakeOptional(i, p) \/ DropAttr(i, p) \/ DropUnlisted(i, p)
                               \/ SwapGate(i, p) \/ Retire(i, p) \/ RetireSigner(i, p) \/ RemoveSlot(i, p)
          PROVE  built' = built
      BY <3>1, <3>2 DEF LoosenType, MakeOptional, DropAttr, DropUnlisted, SwapGate, Retire, RetireSigner, RemoveSlot
    <3>3. ASSUME NEW i, NEW p, IntoHandler(i, p) \/ FromHandler(i, p) PROVE built' = built
      BY <3>1, <3>3 DEF IntoHandler, FromHandler
    <3>4. ASSUME NEW i, NEW p, NEW q, Restate(i, p, q) \/ Move(i, p, q) \/ SwapIdentity(i, p, q) PROVE built' = built
      BY <3>1, <3>4 DEF Restate, Move, SwapIdentity
    <3>5. ASSUME NEW i, NEW p, NEW new, NEW data, RenameSlot(i, p, new, data) PROVE built' = built
      BY <3>1, <3>5 DEF RenameSlot
    <3>6. ASSUME NEW i, NEW new, DropCheck(i) \/ CopyCheck(i) \/ ChangeArgs(i) \/ RemoveIx(i) \/ RenameIx(i, new)
          PROVE  built' = built
      BY <3>1, <3>6 DEF DropCheck, CopyCheck, ChangeArgs, RemoveIx, RenameIx
    <3>7. (\E a \in Additions[base] : AddIx(a)) \/ UNCHANGED vars => built' = built
      BY DEF AddIx, vars
    <3> QED BY <3>2, <3>3, <3>4, <3>5, <3>6, <3>7 DEF Next
  <2> QED BY <2>1, <2>2 DEF BuiltInv
<1>3. VersionInv /\ BuiltInv => NoGuessFailsABuild
  <2> SUFFICES ASSUME VersionInv, BuiltInv, NEW c \in Removed(IdlChanges)
               PROVE  /\ c.ix \in DOMAIN base /\ c.path \in DOMAIN base[c.ix].slots
                      /\ \E f \in IdlFacts(base[c.ix]) \ IdlFacts(head[c.ix]) :
                            f[1] # "required" /\ base[c.ix].slots[c.path].id \in {f[2], f[3]}
    BY DEF NoGuessFailsABuild
  <2> DEFINE resolved == ~BuiltWithoutResolution(BaseIdl, HeadIdl)
             legacy == BaseIdl.legacy \/ HeadIdl.legacy
  <2>1. Version(base) /\ Version(head) /\ base \in Bases
    BY HeadIsVersion DEF VersionInv
  <2>2. built.legacy \in BOOLEAN /\ built.resolved \in BOOLEAN
    OBVIOUS
  <2> HIDE DEF BuiltInv
  <2>3. /\ DOMAIN BaseIdl.ixs = DOMAIN base /\ BaseIdl.legacy = built.legacy
        /\ \A i \in DOMAIN base : \A x \in Range(BaseIdl.ixs[i].accounts) : \E p \in DOMAIN base[i].slots :
              x = IF built.legacy THEN LegacyAccount(base[i].slots, p) ELSE Account(base[i].slots, p, TRUE)
    <3>1. CASE built.legacy
      <4> DEFINE idl == Convert(LegacyIdl(base))
      <4>1. /\ idl.legacy = TRUE /\ DOMAIN idl.ixs = DOMAIN base
            /\ \A i \in DOMAIN base :
                  Range(idl.ixs[i].accounts) = LegacyAccountsOf(base[i].slots)
        BY <2>1, LegacyAccounts
      <4>2. BaseIdl = idl
        BY <3>1 DEF BaseIdl
      <4> HIDE DEF idl
      <4> QED BY <2>2, <3>1, <4>1, <4>2 DEF LegacyAccountsOf
    <3>2. CASE ~built.legacy
      <4> DEFINE idl == AnchorIdl(base, TRUE)
      <4>1. /\ idl.legacy = FALSE /\ DOMAIN idl.ixs = DOMAIN base
            /\ \A i \in DOMAIN base :
                  Range(idl.ixs[i].accounts) = AccountsOf(base[i].slots, TRUE)
        BY <2>1, AnchorAccounts
      <4>2. BaseIdl = idl
        BY <3>2 DEF BaseIdl
      <4> HIDE DEF idl
      <4> QED BY <2>2, <3>2, <4>1, <4>2 DEF AccountsOf
    <3> QED BY <3>1, <3>2
  <2>4. /\ DOMAIN HeadIdl.ixs = DOMAIN head /\ HeadIdl.legacy = FALSE
        /\ \A i \in DOMAIN head : \A y \in Range(HeadIdl.ixs[i].accounts) : \E p \in DOMAIN head[i].slots :
              y = Account(head[i].slots, p, built.resolved)
    <3> DEFINE res == built.resolved
               idl == AnchorIdl(head, res)
    <3>1. HeadIdl = idl
      BY DEF HeadIdl
    <3> HIDE DEF res
    <3>2. /\ idl.legacy = FALSE /\ DOMAIN idl.ixs = DOMAIN head
          /\ \A i \in DOMAIN head :
                Range(idl.ixs[i].accounts) = AccountsOf(head[i].slots, res)
      BY <2>1, AnchorAccounts
    <3> HIDE DEF idl
    <3> QED BY <3>1, <3>2 DEF res, AccountsOf
  <2>5. PICK i \in DOMAIN base \cap DOMAIN head :
        \E x \in Range(BaseIdl.ixs[i].accounts), y \in Range(HeadIdl.ixs[i].accounts) : \E renames :
           /\ x.path = y.path /\ c.ix = i /\ c.path = x.path
           /\ Weakened(HeadIdl.ixs[i], x, y, renames, resolved, legacy)
    <3> DEFINE b == BaseIdl
               h == HeadIdl
    <3>1. c \in Removed(DiffIdl(b, h))
      BY DEF IdlChanges
    <3>2. resolved = Resolved(b, h) /\ legacy = EitherLegacy(b, h)
      BY DEF Resolved, EitherLegacy
    <3> HIDE DEF b, h, resolved, legacy
    <3>3. \E i \in DOMAIN b.ixs \cap DOMAIN h.ixs :
          \E x \in Range(b.ixs[i].accounts), y \in Range(h.ixs[i].accounts) : \E renames :
             /\ x.path = y.path /\ c.ix = i /\ c.path = x.path
             /\ Weakened(h.ixs[i], x, y, renames, resolved, legacy)
      BY <3>1, <3>2, RemovedOfIdl
    <3> QED BY <2>3, <2>4, <3>3 DEF b, h
  <2>6. PICK x \in Range(BaseIdl.ixs[i].accounts), y \in Range(HeadIdl.ixs[i].accounts) : \E renames :
           /\ x.path = y.path /\ c.ix = i /\ c.path = x.path
           /\ Weakened(HeadIdl.ixs[i], x, y, renames, resolved, legacy)
    BY <2>5
  <2>7. PICK renames : /\ x.path = y.path /\ c.ix = i /\ c.path = x.path
                       /\ Weakened(HeadIdl.ixs[i], x, y, renames, resolved, legacy)
    BY <2>6
  <2> HIDE DEF resolved, legacy
  <2> DEFINE old == base[i]
             new == head[i]
  <2>8. PICK p \in DOMAIN old.slots :
           x = IF built.legacy THEN LegacyAccount(old.slots, p) ELSE Account(old.slots, p, TRUE)
    BY <2>3
  <2>9. PICK q \in DOMAIN new.slots : y = Account(new.slots, q, built.resolved)
    BY <2>4
  <2> HIDE DEF old, new
  <2> DEFINE s == old.slots[p]
             t == new.slots[p]
  <2>10. /\ x.path = p /\ x.signer = SignsIfPassed(s) /\ x.relations = DeclarersOf(old.slots, p)
         /\ x.pda = SeedsOf(old.slots, p) \cup {{<<"ata", n>>} : n \in s.ata}
         /\ ~built.legacy => x.address = IF FixedInIdl(s) THEN {s.of} ELSE {}
    BY <2>2, <2>8 DEF LegacyAccount, Account
  <2>11. /\ y.path = q
         /\ y.signer = SignsIfPassed(new.slots[q])
         /\ built.resolved => /\ y.relations = DeclarersOf(new.slots, q)
                              /\ y.pda = SeedsOf(new.slots, q) \cup {{<<"ata", n>>} : n \in new.slots[q].ata}
                              /\ y.address = IF FixedInIdl(new.slots[q]) THEN {new.slots[q].of} ELSE {}
    BY <2>2, <2>9 DEF Account
  <2>12. q = p /\ c.ix = i /\ c.path = p
    BY <2>7, <2>10, <2>11
  <2>13. Built(old) /\ Built(new) /\ \A k \in DOMAIN old.slots \cap DOMAIN new.slots : new.slots[k].id = old.slots[k].id
    <3>1. Carries(base[i], head[i])
      BY DEF VersionInv, Stays
    <3>2. \A k \in DOMAIN base[i].slots : Leaf(k) \notin Fresh
      BY <2>1, UpgradeAssumption
    <3>3. \A k \in DOMAIN old.slots \cap DOMAIN new.slots : new.slots[k].id = old.slots[k].id
      BY <3>1, <3>2 DEF Carries, old, new
    <3> QED BY <2>1, <3>3 DEF Version, old, new
  <2>14. (SeedsOf(old.slots, p) # {} => Seeds(s)) /\ (Seeds(t) => SeedsOf(new.slots, p) # {})
    BY DEF SeedsOf, Seeds
  <2>15. resolved /\ ~built.resolved => built.legacy /\ x.pda = {} /\ x.relations = {}
    BY <2>2, ResolutionIsSeen DEF resolved
  <2>16. legacy = built.legacy
    BY <2>2, <2>3, <2>4 DEF legacy
  <2> DEFINE lost(f) == f \in IdlFacts(old) \ IdlFacts(new)
  <2>17. \E f : lost(f) /\ f[1] # "required" /\ s.id \in {f[2], f[3]}
    <3>1. CASE x.signer /\ ~y.signer
      <4>1. SignsIfPassed(s) /\ ~SignsIfPassed(t)
        BY <3>1, <2>10, <2>11, <2>12
      <4>2. lost(<<"signs", s.id, 0>>)
        BY <4>1, <2>12, <2>13, LostFact
      <4> HIDE DEF lost
      <4> QED BY <4>2
    <3>2. CASE resolved /\ x.pda # {} /\ y.pda = {}
      <4>1. (Seeds(s) \/ s.ata # {}) /\ ~(Seeds(t) \/ t.ata # {})
        <5>1. Seeds(s) \/ s.ata # {}
          <6>1. SeedsOf(old.slots, p) \cup {{<<"ata", n>>} : n \in s.ata} # {}
            BY <3>2, <2>10
          <6>2. SeedsOf(old.slots, p) # {} \/ s.ata # {}
            BY <6>1
          <6> QED BY <6>2, <2>14
        <5>2. built.resolved
          BY <3>2, <2>2, <2>15
        <5>3. SeedsOf(new.slots, p) \cup {{<<"ata", n>>} : n \in t.ata} = {}
          BY <5>2, <3>2, <2>11, <2>12
        <5>4. ~Seeds(t)
          BY <5>3, <2>14
        <5>5. t.ata = {}
          BY <5>3
        <5> QED BY <5>1, <5>4, <5>5
      <4>2. lost(<<"pda", s.id, 0>>)
        BY <4>1, <2>12, <2>13, LostFact
      <4> HIDE DEF lost
      <4> QED BY <4>2
    <3>3. CASE resolved /\ ~legacy /\ x.address # {} /\ y.address = {}
      <4>1. FixedInIdl(s) /\ ~FixedInIdl(t) /\ ~built.legacy
        BY <3>3, <2>2, <2>10, <2>11, <2>12, <2>15, <2>16
      <4>2. lost(<<"address", s.id, 0>>)
        BY <4>1, <2>12, <2>13, LostFact
      <4> HIDE DEF lost
      <4> QED BY <4>2
    <3>4. CASE /\ resolved
               /\ \E r \in x.relations :
                     /\ HeadName(renames, x.path, r) \notin y.relations
                     /\ HeadPath(renames, Sibling(x.path, r)) = Sibling(x.path, r)
                     /\ Sibling(x.path, r) \in Paths(HeadIdl.ixs[i])
      <4>1. PICK r \in x.relations :
                     /\ HeadName(renames, x.path, r) \notin y.relations
                     /\ HeadPath(renames, Sibling(x.path, r)) = Sibling(x.path, r)
                     /\ Sibling(x.path, r) \in Paths(HeadIdl.ixs[i])
        BY <3>4
      <4>2. built.resolved /\ r \in DeclarersOf(old.slots, p)
        BY <3>4, <2>2, <2>10, <2>15
      <4>3. HeadName(renames, x.path, r) = r
        <5>1. PICK k \in DOMAIN old.slots : r = Leaf(k)
          BY <4>2 DEF DeclarersOf
        <5>2. k \in SlotPaths /\ p \in SlotPaths
          BY <2>13 DEF Built
        <5>3. Leaf(Sibling(p, r)) = r
          BY <5>1, <5>2, SlotPathFacts, SiblingFacts
        <5> QED BY <4>1, <5>3, <2>10 DEF HeadName
      <4>4. r \notin DeclarersOf(new.slots, p)
        BY <4>1, <4>2, <4>3, <2>11, <2>12
      <4>5. Sibling(p, r) \in DOMAIN new.slots
        <5>1. \A a \in Range(HeadIdl.ixs[i].accounts) : a.path \in DOMAIN new.slots
          BY <2>4 DEF Account, new
        <5> QED BY <4>1, <5>1, <2>10 DEF Paths
      <4>6. PICK k \in DOMAIN old.slots : lost(<<"has_one", old.slots[k].id, s.id>>)
        BY <4>2, <4>4, <4>5, <2>12, <2>13, LostFact
      <4> HIDE DEF lost
      <4> QED BY <4>6
    <3> QED BY <2>7, <3>1, <3>2, <3>3, <3>4 DEF Weakened
  <2> QED BY <2>12, <2>17 DEF old, new
<1>4. VersionInv /\ BuiltInv => NoGuessFailsABuild
  BY <1>3
<1> QED BY <1>1, <1>2, <1>4, VersionInvAlways, PTL DEF Spec
=============================================================================
