------------------------- MODULE Differential_proofs -------------------------
(***************************************************************************)
(* Theorems about Differential and the report it writes, for all programs, *)
(* pairs of accounts, probes and toolchains.                               *)
(***************************************************************************)
EXTENDS Differential, WellFoundedInduction, TLAPS

-----------------------------------------------------------------------------
(* Numbers and sequences.                                                  *)

\* Every set of numbers that is not empty has a least element.
LEMMA LeastExists ==
    ASSUME NEW T \in SUBSET Nat, T # {}
    PROVE  \E x \in T : \A y \in T : x <= y
<1> DEFINE R == {ss \in Nat \X Nat : ss[1] < ss[2]}
<1>1. IsWellFoundedOn(R, Nat)
  BY NatLessThanWellFounded DEF OpToRel
<1> HIDE DEF R
<1>2. PICK x \in T : \A y \in T : ~(<<y, x>> \in R)
  BY <1>1, WFMin
<1>3. \A y \in T : ~(y < x)
  BY <1>2 DEF R
<1> QED BY <1>2, <1>3

\* Induction over the numbers up to n, for the numbers of a set.
LEMMA UpTo ==
    ASSUME NEW n \in Nat, NEW P, 0 \in P, \A i \in 1..n : i - 1 \in P => i \in P
    PROVE  \A i \in 0..n : i \in P
<1> DEFINE T == {i \in 0..n : i \notin P}
<1>1. SUFFICES T = {}
  OBVIOUS
<1>2. SUFFICES ASSUME T # {} PROVE FALSE
  OBVIOUS
<1>3. PICK i \in T : \A j \in T : i <= j
  <2>1. T \in SUBSET Nat
    OBVIOUS
  <2> HIDE DEF T
  <2> QED BY <1>2, <2>1, LeastExists
<1>4. i \in 1..n /\ i - 1 \in 0..n /\ i - 1 \notin T
  BY <1>3
<1> QED BY <1>3, <1>4

\* f follows the steps from f0, in the values S.
Follows(f, n, S, f0, step) ==
    /\ f \in [0..n -> S] /\ f[0] = f0
    /\ \A i \in 1..n : f[i] = step[i][f[i - 1]]

\* A recursion along 1..n, each step a value of the function `step', has a
\* function that follows it.
LEMMA RecursionExists ==
    ASSUME NEW n \in Nat, NEW S, NEW f0 \in S, NEW step \in [1..n -> [S -> S]]
    PROVE  \E f : Follows(f, n, S, f0, step)
<1> DEFINE To(m, f) ==
             /\ f \in [0..m -> S] /\ f[0] = f0
             /\ \A i \in 1..m : f[i] = step[i][f[i - 1]]
           P == {m \in 0..n : \E f : To(m, f)}
<1>1. 0 \in P
  <2>1. To(0, [i \in 0..0 |-> f0])
    OBVIOUS
  <2> HIDE DEF To
  <2> QED BY <2>1
<1>2. ASSUME NEW m \in 1..n, m - 1 \in P PROVE m \in P
  <2>1. PICK f : To(m - 1, f)
    BY <1>2
  <2> DEFINE v == step[m][f[m - 1]]
             g == [i \in 0..m |-> IF i = m THEN v ELSE f[i]]
  <2>2. m - 1 \in 0..(m - 1) /\ f[m - 1] \in S
    BY <2>1
  <2>3. v \in S
    BY <2>2
  <2> HIDE DEF v
  <2>4. g \in [0..m -> S] /\ g[0] = f0
    BY <2>1, <2>3
  <2>5. ASSUME NEW i \in 1..m PROVE g[i] = step[i][g[i - 1]]
    <3>1. CASE i = m
      <4>1. g[i] = v /\ g[i - 1] = f[m - 1]
        BY <3>1
      <4> QED BY <3>1, <4>1 DEF v
    <3>2. CASE i # m
      <4>1. i \in 1..(m - 1) /\ g[i] = f[i] /\ g[i - 1] = f[i - 1]
        BY <3>2
      <4> QED BY <2>1, <4>1
    <3> QED BY <3>1, <3>2
  <2>6. To(m, g)
    BY <2>4, <2>5
  <2> HIDE DEF To
  <2> QED BY <2>6
<1> HIDE DEF P
<1>3. \A m \in 0..n : m \in P
  BY <1>1, <1>2, UpTo
<1> QED BY <1>3 DEF P, Follows

-----------------------------------------------------------------------------
(* What a grade says.  A bundle is read as it is, whoever wrote it.         *)

\* An artifact that is not carried has no text.
Textless(a) == IsCarried(a) \/ a.text = <<>>

LEMMA BytesHad ==
    ASSUME NEW a, Textless(a)
    PROVE  (Bytes(a) # <<>>) <=> (IsCarried(a) /\ IsIntact(a))
BY DEF Textless, Bytes, IsIntact

TextlessBundle(b) ==
    /\ \A i \in DOMAIN b.programs : Textless(b.programs[i].code)
    /\ \A i \in DOMAIN b.accounts : Textless(b.accounts[i].pre)

LEMMA IntegrityMeans ==
    ASSUME NEW b
    PROVE  (IntegrityFailures(b) = {}) <=>
              /\ \A i \in DOMAIN b.programs : IsIntact(b.programs[i].code)
              /\ \A i \in DOMAIN b.accounts : IsIntact(b.accounts[i].pre)
<1>1. (IntegrityFailures(b) = {}) <=> \A x \in Artifacts(b) : IsIntact(x[2])
  BY DEF IntegrityFailures
<1>2. ASSUME \A x \in Artifacts(b) : IsIntact(x[2])
      PROVE  /\ \A i \in DOMAIN b.programs : IsIntact(b.programs[i].code)
             /\ \A i \in DOMAIN b.accounts : IsIntact(b.accounts[i].pre)
  <2>1. ASSUME NEW i \in DOMAIN b.programs PROVE IsIntact(b.programs[i].code)
    <3>1. <<<<"program", b.programs[i].side>>, b.programs[i].code>> \in Artifacts(b)
      BY DEF Artifacts
    <3> QED BY <1>2, <3>1
  <2>2. ASSUME NEW i \in DOMAIN b.accounts PROVE IsIntact(b.accounts[i].pre)
    <3>1. <<b.accounts[i].label, b.accounts[i].pre>> \in Artifacts(b)
      BY DEF Artifacts
    <3> QED BY <1>2, <3>1
  <2> QED BY <2>1, <2>2
<1>3. ASSUME \A i \in DOMAIN b.programs : IsIntact(b.programs[i].code),
             \A i \in DOMAIN b.accounts : IsIntact(b.accounts[i].pre),
             NEW x \in Artifacts(b)
      PROVE  IsIntact(x[2])
  BY <1>3 DEF Artifacts
<1> QED BY <1>1, <1>2, <1>3

\* Nothing is missing from the list of gaps, and nothing too much on it.
LEMMA CarriedMeans ==
    ASSUME NEW b, IntegrityFailures(b) = {}, TextlessBundle(b), DefinesAComparison(b)
    PROVE  /\ Carried(b) <=> Recoverable(b)
           /\ (NotCarried(b) = {}) => Carried(b)
<1>1. /\ \A i \in DOMAIN b.programs : IsIntact(b.programs[i].code)
      /\ \A i \in DOMAIN b.accounts : IsIntact(b.accounts[i].pre)
  BY IntegrityMeans
<1>2. \A i \in DOMAIN b.programs : (Bytes(b.programs[i].code) # <<>>) <=> IsCarried(b.programs[i].code)
  BY <1>1, BytesHad DEF TextlessBundle
<1>3. \A i \in DOMAIN b.accounts : (Bytes(b.accounts[i].pre) # <<>>) <=> IsCarried(b.accounts[i].pre)
  BY <1>1, BytesHad DEF TextlessBundle
<1>4. Carried(b) <=> Recoverable(b)
  BY <1>1, <1>2, <1>3 DEF Carried, Recoverable, DefinesAComparison, IsComplete, HasMeta,
                         IsReplayable, IsStated, CoversSigners
<1>5. ASSUME NotCarried(b) = {} PROVE Carried(b)
  <2>1. \A x \in Artifacts(b) : IsCarried(x[2])
    BY <1>5 DEF NotCarried
  <2>2. /\ \A i \in DOMAIN b.programs : IsCarried(b.programs[i].code)
        /\ \A i \in DOMAIN b.accounts : IsCarried(b.accounts[i].pre)
    <3>1. ASSUME NEW i \in DOMAIN b.programs PROVE IsCarried(b.programs[i].code)
      <4>1. <<<<"program", b.programs[i].side>>, b.programs[i].code>> \in Artifacts(b)
        BY DEF Artifacts
      <4> QED BY <2>1, <4>1
    <3>2. ASSUME NEW i \in DOMAIN b.accounts PROVE IsCarried(b.accounts[i].pre)
      <4>1. <<b.accounts[i].label, b.accounts[i].pre>> \in Artifacts(b)
        BY DEF Artifacts
      <4> QED BY <2>1, <4>1
    <3> QED BY <3>1, <3>2
  <2>3. \A i \in DOMAIN b.accounts : HasMeta(b.accounts[i])
    BY <1>5 DEF NotCarried
  <2>4. \A i \in DOMAIN b.actions : IsReplayable(b.actions[i])
    BY <1>5 DEF NotCarried
  <2> DEFINE gaps == {g \in {<<"pre-state">>, <<"context">>, <<"stated context">>, <<"signer policy">>} :
                \/ g = <<"pre-state">> /\ b.accounts = <<>>
                \/ g = <<"context">> /\ b.context = <<>>
                \/ /\ b.context # <<>>
                   /\ \/ g = <<"stated context">> /\ ~IsStated(b.context[1])
                      \/ /\ g = <<"signer policy">> /\ IsStated(b.context[1])
                         /\ ~CoversSigners(b.context[1], b.actions)}
  <2>5. gaps = {}
    BY <1>5 DEF NotCarried
  <2>6. <<"pre-state">> \notin gaps /\ <<"context">> \notin gaps
        /\ <<"stated context">> \notin gaps /\ <<"signer policy">> \notin gaps
    BY <2>5
  <2>7. b.accounts # <<>> /\ b.context # <<>> /\ IsStated(b.context[1])
        /\ CoversSigners(b.context[1], b.actions)
    BY <2>6
  <2> QED BY <1>1, <2>2, <2>3, <2>4, <2>7 DEF Carried, IsComplete
<1> QED BY <1>4, <1>5

LEMMA MissingMeans ==
    ASSUME NEW b, Len(b.programs) \in Nat, ~DefinesAComparison(b)
    PROVE  Missing(b) # {} /\ ~Recoverable(b)
<1>1. \/ <<"programs">> \in Missing(b)
      \/ <<"features">> \in Missing(b)
      \/ <<"actions">> \in Missing(b)
  <2>1. ~(Len(b.programs) >= 2) => Len(b.programs) < 2
    OBVIOUS
  <2> QED BY <2>1 DEF DefinesAComparison, Missing
<1> QED BY <1>1 DEF DefinesAComparison, Recoverable

\* The grade, and the gaps a page lists, from the bytes of a bundle.
LEMMA GradeMeans ==
    ASSUME NEW r, NEW b, b = r.claim.bundle, TextlessBundle(b), Len(b.programs) \in Nat
    PROVE  /\ (Markdown(r).grade = "InputsCarried") <=> Recoverable(b)
           /\ (Markdown(r).gaps = {}) <=> Recoverable(b)
           /\ (Markdown(r).grade = "Corrupt") <=> (IntegrityFailures(b) # {})
<1> DEFINE grade == Completeness(b)
<1>1. /\ Markdown(r).grade = grade
      /\ Markdown(r).gaps = CASE grade = "InputsCarried"  -> {}
                              [] grade = "IdentifiedOnly" -> NotCarried(b)
                              [] grade = "Incomplete"     -> Missing(b)
                              [] grade = "Corrupt"        -> IntegrityFailures(b)
  BY DEF Markdown
<1>2. CASE IntegrityFailures(b) # {}
  <2>1. grade = "Corrupt"
    BY <1>2 DEF Completeness
  <2>2. ~Recoverable(b)
    <3>1. CASE \E i \in DOMAIN b.programs : ~IsIntact(b.programs[i].code)
      BY <3>1 DEF Recoverable, Bytes
    <3>2. CASE \E i \in DOMAIN b.accounts : ~IsIntact(b.accounts[i].pre)
      BY <3>2 DEF Recoverable, Bytes
    <3> QED BY <1>2, <3>1, <3>2, IntegrityMeans
  <2> HIDE DEF grade
  <2> QED BY <1>1, <1>2, <2>1, <2>2
<1>3. CASE IntegrityFailures(b) = {} /\ ~DefinesAComparison(b)
  <2>1. grade = "Incomplete"
    BY <1>3 DEF Completeness
  <2>2. Missing(b) # {} /\ ~Recoverable(b)
    BY <1>3, MissingMeans
  <2> HIDE DEF grade
  <2> QED BY <1>1, <1>3, <2>1, <2>2
<1>4. CASE IntegrityFailures(b) = {} /\ DefinesAComparison(b) /\ Carried(b)
  <2>1. grade = "InputsCarried"
    BY <1>4 DEF Completeness
  <2>2. Recoverable(b)
    BY <1>4, CarriedMeans
  <2> HIDE DEF grade
  <2> QED BY <1>1, <1>4, <2>1, <2>2
<1>5. CASE IntegrityFailures(b) = {} /\ DefinesAComparison(b) /\ ~Carried(b)
  <2>1. grade = "IdentifiedOnly"
    BY <1>5 DEF Completeness
  <2>2. NotCarried(b) # {} /\ ~Recoverable(b)
    BY <1>5, CarriedMeans
  <2> HIDE DEF grade
  <2> QED BY <1>1, <1>5, <2>1, <2>2
<1> QED BY <1>2, <1>3, <1>4, <1>5

-----------------------------------------------------------------------------
(* Where the artifacts of a report come from.                              *)

IsSequence(s) == \E n \in Nat : s = [i \in 1..n |-> s[i]]

IsReport(r) ==
    /\ r = [tool |-> r.tool, claim |-> r.claim]
    /\ r.claim = [schema |-> r.claim.schema, bundle |-> r.claim.bundle,
                  divergences |-> r.claim.divergences]

IsBundle(b) ==
    b = [programs |-> b.programs, accounts |-> b.accounts, features |-> b.features,
         actions |-> b.actions, context |-> b.context]

IsProgram(x) == x = [side |-> x.side, code |-> x.code]
IsAccount(x) == x = [label |-> x.label, present |-> x.present, pre |-> x.pre, meta |-> x.meta]

\* a is what became of first on the way: it names the same, and is carried only
\* if first was.
Descends(a, first) ==
    /\ a = [carrier |-> a.carrier, names |-> a.names, text |-> a.text]
    /\ a.names = first.names
    /\ Textless(a)
    /\ IsCarried(a) => IsCarried(first)

ProgramsFrom(s, first) ==
    /\ IsSequence(s) /\ s # <<>>
    /\ \A i \in DOMAIN s :
         IsProgram(s[i]) /\ i \in DOMAIN first /\ Descends(s[i].code, first[i].code)

AccountsFrom(s, first) ==
    /\ IsSequence(s)
    /\ \A i \in DOMAIN s :
         /\ IsAccount(s[i]) /\ i \in DOMAIN first
         /\ s[i].label = first[i].label /\ Descends(s[i].pre, first[i].pre)

Lineage(b, first) ==
    /\ IsBundle(b)
    /\ ProgramsFrom(b.programs, first.programs)
    /\ AccountsFrom(b.accounts, first.accounts)

\* What a process writes: every artifact is what it names, or is not carried.
GenuineReport(r) ==
    LET b == r.claim.bundle
    IN  /\ IsReport(r) /\ Lineage(b, b)
        /\ \A i \in DOMAIN b.programs : IsIntact(b.programs[i].code)
        /\ \A i \in DOMAIN b.accounts : IsIntact(b.accounts[i].pre)

LEMMA MadeGenuine ==
    ASSUME NEW bytes, NEW a \in {ArtifactDigest(bytes), ArtifactInline(bytes)}
    PROVE  Descends(a, a) /\ IsIntact(a)
BY DEF Descends, Textless, IsCarried, IsIntact, ArtifactDigest, ArtifactInline

LEMMA DamagedDescends ==
    ASSUME NEW a, NEW first, Descends(a, first), NEW other, NEW d \in Damaged(a, other)
    PROVE  Descends(d, first)
BY DEF Damaged, Descends, Textless, IsCarried, ArtifactDigest

LEMMA CodeReplaced ==
    ASSUME NEW s, NEW first, ProgramsFrom(s, first), NEW i \in DOMAIN s, NEW a,
           Descends(a, first[i].code)
    PROVE  ProgramsFrom([s EXCEPT ![i].code = a], first)
<1> DEFINE d == [s EXCEPT ![i].code = a]
<1>1. PICK n \in Nat : s = [j \in 1..n |-> s[j]]
  BY DEF ProgramsFrom, IsSequence
<1>2. /\ DOMAIN d = DOMAIN s /\ d[i] = [s[i] EXCEPT !.code = a]
      /\ \A j \in DOMAIN s \ {i} : d[j] = s[j]
      /\ d = [j \in 1..n |-> d[j]]
  BY <1>1
<1> HIDE DEF d
<1>3. s[i] = [side |-> s[i].side, code |-> s[i].code]
  BY DEF ProgramsFrom, IsProgram
<1>4. IsProgram(d[i]) /\ d[i].code = a
  <2> DEFINE x == s[i].side
             y == s[i].code
  <2> HIDE DEF x, y
  <2>1. s[i] = [side |-> x, code |-> y]
    BY <1>3 DEF x, y
  <2>2. d[i] = [side |-> x, code |-> a]
    BY <1>2, <2>1
  <2> QED BY <2>2 DEF IsProgram
<1>5. \A j \in DOMAIN d :
         IsProgram(d[j]) /\ j \in DOMAIN first /\ Descends(d[j].code, first[j].code)
  <2> TAKE j \in DOMAIN d
  <2>1. CASE j = i
    BY <1>4, <2>1 DEF ProgramsFrom
  <2>2. CASE j # i
    BY <1>2, <2>2 DEF ProgramsFrom
  <2> QED BY <2>1, <2>2
<1>6. d # <<>>
  BY <1>2
<1> QED BY <1>2, <1>5, <1>6 DEF ProgramsFrom, IsSequence, d

LEMMA PreReplaced ==
    ASSUME NEW s, NEW first, AccountsFrom(s, first), NEW i \in DOMAIN s, NEW a,
           Descends(a, first[i].pre)
    PROVE  AccountsFrom([s EXCEPT ![i].pre = a], first)
<1> DEFINE d == [s EXCEPT ![i].pre = a]
<1>1. PICK n \in Nat : s = [j \in 1..n |-> s[j]]
  BY DEF AccountsFrom, IsSequence
<1>2. /\ DOMAIN d = DOMAIN s /\ d[i] = [s[i] EXCEPT !.pre = a]
      /\ \A j \in DOMAIN s \ {i} : d[j] = s[j]
      /\ d = [j \in 1..n |-> d[j]]
  BY <1>1
<1> HIDE DEF d
<1>3. IsAccount(s[i])
  BY DEF AccountsFrom
<1>4. IsAccount(d[i]) /\ d[i].pre = a /\ d[i].label = s[i].label
  <2> DEFINE x == s[i].label
             y == s[i].present
             z == s[i].pre
             m == s[i].meta
  <2> HIDE DEF x, y, z, m
  <2>1. s[i] = [label |-> x, present |-> y, pre |-> z, meta |-> m]
    BY <1>3 DEF IsAccount, x, y, z, m
  <2>2. d[i] = [label |-> x, present |-> y, pre |-> a, meta |-> m]
    BY <1>2, <2>1
  <2> QED BY <2>2 DEF IsAccount, x
<1>5. \A j \in DOMAIN d :
         /\ IsAccount(d[j]) /\ j \in DOMAIN first
         /\ d[j].label = first[j].label /\ Descends(d[j].pre, first[j].pre)
  <2> TAKE j \in DOMAIN d
  <2>1. CASE j = i
    BY <1>4, <2>1 DEF AccountsFrom
  <2>2. CASE j # i
    BY <1>2, <2>2 DEF AccountsFrom
  <2> QED BY <2>1, <2>2
<1> QED BY <1>2, <1>5 DEF AccountsFrom, IsSequence, d

LEMMA MetaReplaced ==
    ASSUME NEW s, NEW first, AccountsFrom(s, first), NEW i \in DOMAIN s, NEW v
    PROVE  AccountsFrom([s EXCEPT ![i].meta = v], first)
<1> DEFINE d == [s EXCEPT ![i].meta = v]
<1>1. PICK n \in Nat : s = [j \in 1..n |-> s[j]]
  BY DEF AccountsFrom, IsSequence
<1>2. /\ DOMAIN d = DOMAIN s /\ d[i] = [s[i] EXCEPT !.meta = v]
      /\ \A j \in DOMAIN s \ {i} : d[j] = s[j]
      /\ d = [j \in 1..n |-> d[j]]
  BY <1>1
<1> HIDE DEF d
<1>3. IsAccount(s[i])
  BY DEF AccountsFrom
<1>4. IsAccount(d[i]) /\ d[i].pre = s[i].pre /\ d[i].label = s[i].label
  <2> DEFINE x == s[i].label
             y == s[i].present
             z == s[i].pre
             m == s[i].meta
  <2> HIDE DEF x, y, z, m
  <2>1. s[i] = [label |-> x, present |-> y, pre |-> z, meta |-> m]
    BY <1>3 DEF IsAccount, x, y, z, m
  <2>2. d[i] = [label |-> x, present |-> y, pre |-> z, meta |-> v]
    BY <1>2, <2>1
  <2> QED BY <2>2 DEF IsAccount, x, z
<1>5. \A j \in DOMAIN d :
         /\ IsAccount(d[j]) /\ j \in DOMAIN first
         /\ d[j].label = first[j].label /\ Descends(d[j].pre, first[j].pre)
  <2> TAKE j \in DOMAIN d
  <2>1. CASE j = i
    BY <1>4, <2>1 DEF AccountsFrom
  <2>2. CASE j # i
    BY <1>2, <2>2 DEF AccountsFrom
  <2> QED BY <2>1, <2>2
<1> QED BY <1>2, <1>5 DEF AccountsFrom, IsSequence, d

LEMMA ProgramsCut ==
    ASSUME NEW s, NEW first, ProgramsFrom(s, first)
    PROVE  ProgramsFrom(SubSeq(s, 1, 1), first)
<1>1. PICK n \in Nat : s = [j \in 1..n |-> s[j]]
  BY DEF ProgramsFrom, IsSequence
<1>2. n # 0 /\ 1 \in DOMAIN s
  <2>1. n = 0 => s = <<>>
    BY <1>1
  <2> QED BY <1>1, <2>1 DEF ProgramsFrom
<1>3. s \in Seq({s[j] : j \in DOMAIN s}) /\ Len(s) = n
  BY <1>1
<1> DEFINE d == SubSeq(s, 1, 1)
<1>4. d = [j \in 1..1 |-> d[j]] /\ DOMAIN d = 1..1 /\ d[1] = s[1]
  BY <1>2, <1>3
<1> HIDE DEF d
<1>5. d # <<>>
  BY <1>4
<1>6. \A j \in DOMAIN d : j = 1
  BY <1>4
<1> QED BY <1>2, <1>4, <1>5, <1>6 DEF ProgramsFrom, IsSequence, d

\* A bundle with one part replaced is a bundle with the other parts as they were.
LEMMA BundlePart ==
    ASSUME NEW b, IsBundle(b), NEW v
    PROVE  /\ LET c == [b EXCEPT !.programs = v]
              IN  IsBundle(c) /\ c.programs = v /\ c.accounts = b.accounts
           /\ LET c == [b EXCEPT !.accounts = v]
              IN  IsBundle(c) /\ c.programs = b.programs /\ c.accounts = v
           /\ LET c == [b EXCEPT !.actions = v]
              IN  IsBundle(c) /\ c.programs = b.programs /\ c.accounts = b.accounts
           /\ LET c == [b EXCEPT !.features = v]
              IN  IsBundle(c) /\ c.programs = b.programs /\ c.accounts = b.accounts
           /\ LET c == [b EXCEPT !.context = v]
              IN  IsBundle(c) /\ c.programs = b.programs /\ c.accounts = b.accounts
BY DEF IsBundle

LEMMA EditedLineage ==
    ASSUME NEW b, NEW first, Lineage(b, first), NEW e \in EditedBundles(b)
    PROVE  Lineage(e, first)
<1>1. IsBundle(b) /\ ProgramsFrom(b.programs, first.programs) /\ AccountsFrom(b.accounts, first.accounts)
  BY DEF Lineage
<1>2. ASSUME NEW i \in DOMAIN b.programs,
             NEW a \in Damaged(b.programs[i].code, NoCode),
             e = [b EXCEPT !.programs[i].code = a]
      PROVE  Lineage(e, first)
  <2>1. Descends(a, first.programs[i].code)
    BY <1>1, DamagedDescends DEF ProgramsFrom
  <2> DEFINE v == [b.programs EXCEPT ![i].code = a]
  <2>2. ProgramsFrom(v, first.programs)
    BY <1>1, <2>1, CodeReplaced
  <2>3. e = [b EXCEPT !.programs = v]
    BY <1>1, <1>2 DEF IsBundle
  <2> HIDE DEF v
  <2> QED BY <1>1, <2>2, <2>3, BundlePart DEF Lineage
<1>3. ASSUME NEW i \in DOMAIN b.accounts,
             NEW a \in Damaged(b.accounts[i].pre, Append(b.accounts[i].pre.names, 0)),
             e = [b EXCEPT !.accounts[i].pre = a]
      PROVE  Lineage(e, first)
  <2>1. Descends(a, first.accounts[i].pre)
    BY <1>1, DamagedDescends DEF AccountsFrom
  <2> DEFINE v == [b.accounts EXCEPT ![i].pre = a]
  <2>2. AccountsFrom(v, first.accounts)
    BY <1>1, <2>1, PreReplaced
  <2>3. e = [b EXCEPT !.accounts = v]
    BY <1>1, <1>3 DEF IsBundle
  <2> HIDE DEF v
  <2> QED BY <1>1, <2>2, <2>3, BundlePart DEF Lineage
<1>4. ASSUME NEW i \in DOMAIN b.accounts, e = [b EXCEPT !.accounts[i].meta = <<>>]
      PROVE  Lineage(e, first)
  <2> DEFINE v == [b.accounts EXCEPT ![i].meta = <<>>]
  <2>2. AccountsFrom(v, first.accounts)
    BY <1>1, MetaReplaced
  <2>3. e = [b EXCEPT !.accounts = v]
    BY <1>1, <1>4 DEF IsBundle
  <2> HIDE DEF v
  <2> QED BY <1>1, <2>2, <2>3, BundlePart DEF Lineage
<1>5. CASE e = [b EXCEPT !.programs = SubSeq(@, 1, 1)]
  <2> DEFINE v == SubSeq(b.programs, 1, 1)
  <2>1. e = [b EXCEPT !.programs = v] /\ ProgramsFrom(v, first.programs)
    BY <1>1, <1>5, ProgramsCut
  <2> HIDE DEF v
  <2> QED BY <1>1, <2>1, BundlePart DEF Lineage
<1>6. CASE e = [b EXCEPT !.accounts = <<>>]
  <2>1. AccountsFrom(<<>>, first.accounts)
    <3>1. IsSequence(<<>>)
      <4>1. <<>> = [i \in 1..0 |-> <<>>[i]]
        OBVIOUS
      <4> QED BY <4>1 DEF IsSequence
    <3> QED BY <3>1 DEF AccountsFrom
  <2> QED BY <1>1, <1>6, <2>1, BundlePart DEF Lineage
<1>7. ASSUME NEW v,
             \/ e = [b EXCEPT !.actions = v]
             \/ e = [b EXCEPT !.features = v]
             \/ e = [b EXCEPT !.context = v]
      PROVE  Lineage(e, first)
  <2>1. CASE e = [b EXCEPT !.actions = v]
    BY <1>1, <2>1, BundlePart DEF Lineage
  <2>2. CASE e = [b EXCEPT !.features = v]
    BY <1>1, <2>2, BundlePart DEF Lineage
  <2>3. CASE e = [b EXCEPT !.context = v]
    BY <1>1, <2>3, BundlePart DEF Lineage
  <2> QED BY <1>7, <2>1, <2>2, <2>3
<1>8. ASSUME NEW i \in DOMAIN b.actions, e = [b EXCEPT !.actions[i].data = <<>>]
      PROVE  Lineage(e, first)
  <2>1. e = [b EXCEPT !.actions = [b.actions EXCEPT ![i].data = <<>>]]
    BY <1>1, <1>8 DEF IsBundle
  <2> QED BY <1>7, <2>1
<1>9. \/ e \in UNION {{[b EXCEPT !.programs[i].code = a] :
                          a \in Damaged(b.programs[i].code, NoCode)} : i \in DOMAIN b.programs}
      \/ e \in UNION {{[b EXCEPT !.accounts[i].pre = a] :
                          a \in Damaged(b.accounts[i].pre, Append(b.accounts[i].pre.names, 0))} :
                        i \in DOMAIN b.accounts}
      \/ e \in {[b EXCEPT !.accounts[i].meta = <<>>] : i \in DOMAIN b.accounts}
      \/ e \in {[b EXCEPT !.actions[i].data = <<>>] : i \in DOMAIN b.actions}
      \/ e \in {[b EXCEPT !.programs = SubSeq(@, 1, 1)], [b EXCEPT !.accounts = <<>>],
                [b EXCEPT !.actions = <<>>], [b EXCEPT !.features = FALSE], [b EXCEPT !.context = <<>>]}
      \/ e \in {[b EXCEPT !.context = <<[c EXCEPT !.clock = <<>>]>>] :
                   c \in {b.context[i] : i \in DOMAIN b.context}}
      \/ e \in {[b EXCEPT !.context = <<[c EXCEPT !.policy.verified = TRUE]>>] :
                   c \in {b.context[i] : i \in DOMAIN b.context}}
  BY Zenon DEF EditedBundles
<1>10. CASE e \in UNION {{[b EXCEPT !.programs[i].code = a] :
                          a \in Damaged(b.programs[i].code, NoCode)} : i \in DOMAIN b.programs}
  <2>1. PICK i \in DOMAIN b.programs :
          e \in {[b EXCEPT !.programs[i].code = a] : a \in Damaged(b.programs[i].code, NoCode)}
    BY <1>10
  <2>2. PICK a \in Damaged(b.programs[i].code, NoCode) : e = [b EXCEPT !.programs[i].code = a]
    BY <2>1
  <2> QED BY <1>2, <2>2
<1>11. CASE e \in UNION {{[b EXCEPT !.accounts[i].pre = a] :
                          a \in Damaged(b.accounts[i].pre, Append(b.accounts[i].pre.names, 0))} :
                        i \in DOMAIN b.accounts}
  <2>1. PICK i \in DOMAIN b.accounts :
          e \in {[b EXCEPT !.accounts[i].pre = a] :
                   a \in Damaged(b.accounts[i].pre, Append(b.accounts[i].pre.names, 0))}
    BY <1>11
  <2>2. PICK a \in Damaged(b.accounts[i].pre, Append(b.accounts[i].pre.names, 0)) :
          e = [b EXCEPT !.accounts[i].pre = a]
    BY <2>1
  <2> QED BY <1>3, <2>2
<1>12. CASE e \in {[b EXCEPT !.accounts[i].meta = <<>>] : i \in DOMAIN b.accounts}
  BY <1>4, <1>12
<1>13. CASE e \in {[b EXCEPT !.actions[i].data = <<>>] : i \in DOMAIN b.actions}
  BY <1>8, <1>13
<1>14. CASE e \in {[b EXCEPT !.programs = SubSeq(@, 1, 1)], [b EXCEPT !.accounts = <<>>],
                   [b EXCEPT !.actions = <<>>], [b EXCEPT !.features = FALSE], [b EXCEPT !.context = <<>>]}
  BY <1>5, <1>6, <1>7, <1>14
<1>15. CASE e \in {[b EXCEPT !.context = <<[c EXCEPT !.clock = <<>>]>>] :
                      c \in {b.context[i] : i \in DOMAIN b.context}}
  BY <1>7, <1>15
<1>16. CASE e \in {[b EXCEPT !.context = <<[c EXCEPT !.policy.verified = TRUE]>>] :
                      c \in {b.context[i] : i \in DOMAIN b.context}}
  BY <1>7, <1>16
<1> QED BY <1>9, <1>10, <1>11, <1>12, <1>13, <1>14, <1>15, <1>16, Zenon

-----------------------------------------------------------------------------
(* What a process puts into its report.                                    *)

LEMMA BothSidesItems ==
    ASSUME NEW of, NEW n \in Nat, Len(of["anchor"]) = n
    PROVE  /\ BothSides(of) = [k \in 1..(2 * n) |-> BothSides(of)[k]]
           /\ Len(BothSides(of)) = 2 * n /\ DOMAIN BothSides(of) = 1..(2 * n)
           /\ \A i \in 1..n : /\ BothSides(of)[2 * i - 1] = of["anchor"][i]
                              /\ BothSides(of)[2 * i] = of["pinocchio"][i]
           /\ \A k \in 1..(2 * n) : \E i \in 1..n, s \in Sides : BothSides(of)[k] = of[s][i]
<1>1. BothSides(of) = [k \in 1..(2 * n) |->
                          of[IF k % 2 = 1 THEN "anchor" ELSE "pinocchio"][(k + 1) \div 2]]
  BY DEF BothSides
<1>2. ASSUME NEW i \in 1..n
      PROVE  /\ BothSides(of)[2 * i - 1] = of["anchor"][i]
             /\ BothSides(of)[2 * i] = of["pinocchio"][i]
  <2>1. /\ 2 * i - 1 \in 1..(2 * n) /\ (2 * i - 1) % 2 = 1 /\ ((2 * i - 1) + 1) \div 2 = i
        /\ 2 * i \in 1..(2 * n) /\ (2 * i) % 2 # 1 /\ (2 * i + 1) \div 2 = i
    OBVIOUS
  <2> DEFINE k == 2 * i - 1
             l == 2 * i
  <2>2. /\ k \in 1..(2 * n) /\ k % 2 = 1 /\ (k + 1) \div 2 = i
        /\ l \in 1..(2 * n) /\ l % 2 # 1 /\ (l + 1) \div 2 = i
    BY <2>1
  <2> HIDE DEF k, l
  <2>3. /\ BothSides(of)[k] = of[IF k % 2 = 1 THEN "anchor" ELSE "pinocchio"][(k + 1) \div 2]
        /\ BothSides(of)[l] = of[IF l % 2 = 1 THEN "anchor" ELSE "pinocchio"][(l + 1) \div 2]
    BY <1>1, <2>2
  <2>4. BothSides(of)[k] = of["anchor"][i] /\ BothSides(of)[l] = of["pinocchio"][i]
    BY <2>2, <2>3
  <2> QED BY <2>4 DEF k, l
<1>3. ASSUME NEW k \in 1..(2 * n)
      PROVE  \E i \in 1..n, s \in Sides : BothSides(of)[k] = of[s][i]
  <2>1. (k + 1) \div 2 \in 1..n
    OBVIOUS
  <2>2. BothSides(of)[k] = of[IF k % 2 = 1 THEN "anchor" ELSE "pinocchio"][(k + 1) \div 2]
    BY <1>1
  <2> QED BY <2>1, <2>2 DEF Sides
<1>4. /\ BothSides(of) = [k \in 1..(2 * n) |-> BothSides(of)[k]]
      /\ Len(BothSides(of)) = 2 * n /\ DOMAIN BothSides(of) = 1..(2 * n)
  BY <1>1
<1> QED BY <1>2, <1>3, <1>4

\* Kept leaves out what is absent, and nothing else.
LEMMA KeptItems ==
    ASSUME NEW n \in Nat, NEW items, Len(items) = n
    PROVE  /\ IsSequence(Kept(items))
           /\ \A j \in DOMAIN Kept(items) : \E k \in 1..n :
                 items[k].present /\ Kept(items)[j] = items[k]
           /\ \A k \in 1..n : items[k].present =>
                 \E j \in DOMAIN Kept(items) : Kept(items)[j] = items[k]
<1> DEFINE T == {items[k] : k \in {i \in 1..n : items[i].present}}
           Next1(k, s) == IF items[k].present THEN Append(s, items[k]) ELSE s
           step == [k \in 1..n |-> [s \in Seq(T) |-> Next1(k, s)]]
           Def(f) == f = [k \in 0..n |-> IF k = 0 THEN <<>>
                             ELSE IF items[k].present THEN Append(f[k - 1], items[k]) ELSE f[k - 1]]
           kept == CHOOSE f : Def(f)
<1>1. Kept(items) = kept[n]
  BY DEF Kept
<1>2. ASSUME NEW k \in 1..n, NEW s \in Seq(T) PROVE Next1(k, s) \in Seq(T)
  <2>1. CASE items[k].present
    <3>1. items[k] \in T
      BY <2>1
    <3> HIDE DEF T
    <3> QED BY <2>1, <3>1
  <2>2. CASE ~items[k].present
    BY <2>2
  <2> QED BY <2>1, <2>2
<1>3. step \in [1..n -> [Seq(T) -> Seq(T)]]
  <2> HIDE DEF T, Next1
  <2> QED BY <1>2
<1>4. <<>> \in Seq(T)
  <2> HIDE DEF T
  <2> QED OBVIOUS
<1>5. PICK f \in [0..n -> Seq(T)] :
        f[0] = <<>> /\ \A i \in 1..n : f[i] = step[i][f[i - 1]]
  <2> DEFINE S == Seq(T)
             f0 == <<>>
  <2>1. step \in [1..n -> [S -> S]] /\ f0 \in S
    BY <1>3, <1>4
  <2> HIDE DEF S, f0, step
  <2>2. \E f : Follows(f, n, S, f0, step)
    BY <2>1, RecursionExists
  <2> QED BY <2>2 DEF Follows, S, f0
<1>6. \A i \in 1..n : f[i] = Next1(i, f[i - 1])
  <2> TAKE i \in 1..n
  <2>1. i - 1 \in 0..n /\ f[i - 1] \in Seq(T)
    <3> HIDE DEF T
    <3> QED BY <1>5
  <2>3. step[i][f[i - 1]] = Next1(i, f[i - 1])
    <3> HIDE DEF T, Next1
    <3> QED BY <2>1
  <2> QED BY <1>5, <2>3
<1>7. Def(f)
  <2>1. f = [k \in 0..n |-> f[k]]
    <3> HIDE DEF T
    <3> QED BY <1>5
  <2>2. \A k \in 0..n : f[k] = IF k = 0 THEN <<>>
             ELSE IF items[k].present THEN Append(f[k - 1], items[k]) ELSE f[k - 1]
    <3> TAKE k \in 0..n
    <3>1. CASE k = 0
      BY <1>5, <3>1
    <3>2. CASE k # 0
      <4>1. k \in 1..n
        BY <3>2
      <4> QED BY <1>6, <3>2, <4>1
    <3> QED BY <3>1, <3>2
  <2> QED BY <2>1, <2>2
<1>8. Def(kept)
  <2> HIDE DEF Def
  <2> QED BY <1>7
<1> DEFINE P == {k \in 0..n : /\ kept[k] \in Seq(T)
                              /\ \A i \in 1..k : items[i].present =>
                                    \E j \in DOMAIN kept[k] : kept[k][j] = items[i]}
<1>9. /\ kept[0] = <<>>
      /\ \A k \in 1..n : kept[k] = Next1(k, kept[k - 1])
  <2>1. kept = [k \in 0..n |-> IF k = 0 THEN <<>>
                  ELSE IF items[k].present THEN Append(kept[k - 1], items[k]) ELSE kept[k - 1]]
    <3> HIDE DEF kept
    <3> QED BY <1>8
  <2> HIDE DEF kept
  <2>2. \A k \in 0..n : kept[k] = IF k = 0 THEN <<>>
                  ELSE IF items[k].present THEN Append(kept[k - 1], items[k]) ELSE kept[k - 1]
    <3> TAKE k \in 0..n
    <3> QED BY <2>1
  <2>3. kept[0] = <<>>
    BY <2>2
  <2>4. ASSUME NEW k \in 1..n PROVE kept[k] = Next1(k, kept[k - 1])
    <3>1. k \in 0..n /\ k # 0
      OBVIOUS
    <3> QED BY <2>2, <3>1
  <2> QED BY <2>3, <2>4
<1>10. 0 \in P
  <2> HIDE DEF kept, T
  <2>1. 0 \in 0..n /\ 1..0 = {}
    OBVIOUS
  <2> QED BY <1>4, <1>9, <2>1
<1>11. ASSUME NEW k \in 1..n, k - 1 \in P PROVE k \in P
  <2>1. /\ kept[k - 1] \in Seq(T)
        /\ \A i \in 1..(k - 1) : items[i].present =>
              \E j \in DOMAIN kept[k - 1] : kept[k - 1][j] = items[i]
    BY <1>11
  <2> DEFINE s == kept[k - 1]
             t == kept[k]
  <2>2. t = Next1(k, s)
    BY <1>9
  <2> HIDE DEF s, t, kept
  <2>3. t \in Seq(T)
    BY <1>2, <2>1, <2>2 DEF s
  <2>4. /\ DOMAIN s \subseteq DOMAIN t /\ \A j \in DOMAIN s : t[j] = s[j]
        /\ items[k].present => \E j \in DOMAIN t : t[j] = items[k]
    <3>1. CASE items[k].present
      <4>1. t = Append(s, items[k]) /\ s \in Seq(T)
        BY <2>1, <2>2, <3>1 DEF s
      <4> HIDE DEF T
      <4>2. /\ DOMAIN s \subseteq DOMAIN t /\ \A j \in DOMAIN s : t[j] = s[j]
            /\ Len(s) + 1 \in DOMAIN t /\ t[Len(s) + 1] = items[k]
        BY <4>1
      <4> QED BY <4>2
    <3>2. CASE ~items[k].present
      BY <2>2, <3>2
    <3> QED BY <3>1, <3>2
  <2>5. ASSUME NEW i \in 1..k, items[i].present PROVE \E j \in DOMAIN t : t[j] = items[i]
    <3>1. CASE i = k
      BY <2>4, <2>5, <3>1
    <3>2. CASE i # k
      <4>1. PICK j \in DOMAIN s : s[j] = items[i]
        BY <2>1, <2>5, <3>2 DEF s
      <4> QED BY <2>4, <4>1
    <3> QED BY <3>1, <3>2
  <2> HIDE DEF T
  <2>6. k \in 0..n
    BY <1>2
  <2>7. kept[k] \in Seq(T)
    BY <2>3 DEF t
  <2>8. \A i \in 1..k : items[i].present => \E j \in DOMAIN kept[k] : kept[k][j] = items[i]
    BY <2>5 DEF t
  <2> QED BY <2>6, <2>7, <2>8
<1> HIDE DEF P
<1>12. n \in P
  BY <1>10, <1>11, UpTo
<1>13. /\ kept[n] \in Seq(T)
       /\ \A i \in 1..n : items[i].present => \E j \in DOMAIN kept[n] : kept[n][j] = items[i]
  BY <1>12 DEF P
<1> DEFINE t == kept[n]
<1> HIDE DEF kept
<1>14. IsSequence(t)
  <2>1. t = [j \in 1..Len(t) |-> t[j]] /\ Len(t) \in Nat
    <3> HIDE DEF T, t
    <3> QED BY <1>13 DEF t
  <2> QED BY <2>1 DEF IsSequence
<1>15. \A j \in DOMAIN t : t[j] \in T
  <2> HIDE DEF T
  <2> QED BY <1>13
<1>16. \A j \in DOMAIN t : \E k \in 1..n : items[k].present /\ t[j] = items[k]
  BY <1>15
<1> QED BY <1>1, <1>13, <1>14, <1>16

LEMMA AccountFields ==
    ASSUME NEW i, NEW s, NEW x, x = AccountItem(i, s)
    PROVE  /\ IsAccount(x)
           /\ x.label = <<"account", s, PairSeq[i]>>
           /\ x.present <=> run.pre[s][PairSeq[i]] # <<>>
           /\ x.pre = Artifact(IF run.pre[s][PairSeq[i]] # <<>>
                               THEN run.pre[s][PairSeq[i]][1] ELSE <<>>)
<1> DEFINE l == <<"account", s, PairSeq[i]>>
           h == run.pre[s][PairSeq[i]] # <<>>
           b == Artifact(IF run.pre[s][PairSeq[i]] # <<>>
                         THEN run.pre[s][PairSeq[i]][1] ELSE <<>>)
           m == <<"owner, lamports, executable, rent epoch">>
<1>1. x = [label |-> l, present |-> h, pre |-> b, meta |-> m]
  BY DEF AccountItem
<1> HIDE DEF l, h, b, m
<1>2. x.label = l /\ x.present = h /\ x.pre = b /\ x.meta = m
  BY <1>1
<1>3. IsAccount(x)
  BY <1>1, <1>2 DEF IsAccount
<1> QED BY <1>2, <1>3 DEF l, h, b

\* What build_report makes: the programs of both sides ...
LEMMA BuiltPrograms ==
    ASSUME NEW d, NEW p, p = BuildReport(d).claim.bundle.programs
    PROVE  /\ p = [k \in 1..2 |-> p[k]] /\ Len(p) = 2 /\ DOMAIN p = 1..2
           /\ p[1] = ProgramItem(1, "anchor") /\ p[2] = ProgramItem(1, "pinocchio")
<1> DEFINE of == [s \in Sides |-> <<ProgramItem(1, s)>>]
<1>1. p = BothSides(of)
  BY DEF BuildReport
<1>2. Len(of["anchor"]) = 1 /\ of["anchor"][1] = ProgramItem(1, "anchor")
      /\ of["pinocchio"][1] = ProgramItem(1, "pinocchio")
  <2> HIDE DEF ProgramItem
  <2> QED BY DEF Sides
<1> HIDE DEF of
<1> DEFINE n == 1
<1>3. n \in Nat /\ Len(of["anchor"]) = n
  BY <1>2
<1> HIDE DEF n
<1>4. /\ p = [k \in 1..(2 * n) |-> p[k]]
      /\ Len(p) = 2 * n /\ DOMAIN p = 1..(2 * n)
      /\ \A i \in 1..n : /\ p[2 * i - 1] = of["anchor"][i]
                         /\ p[2 * i] = of["pinocchio"][i]
  BY <1>1, <1>3, BothSidesItems
<1>5. /\ p = [k \in 1..(2 * 1) |-> p[k]]
      /\ Len(p) = 2 * 1 /\ DOMAIN p = 1..(2 * 1)
      /\ \A i \in 1..1 : /\ p[2 * i - 1] = of["anchor"][i]
                         /\ p[2 * i] = of["pinocchio"][i]
  BY <1>4 DEF n
<1>6. p[2 * 1 - 1] = of["anchor"][1] /\ p[2 * 1] = of["pinocchio"][1]
  BY <1>5
<1> QED BY <1>2, <1>5, <1>6

\* ... the accounts of both sides that are there ...
LEMMA BuiltAccounts ==
    ASSUME NEW d, NEW a, a = BuildReport(d).claim.bundle.accounts
    PROVE  /\ IsSequence(a)
           /\ \A j \in DOMAIN a : \E i \in DOMAIN PairSeq, s \in Sides :
                 AccountItem(i, s).present /\ a[j] = AccountItem(i, s)
           /\ \A i \in DOMAIN PairSeq, s \in Sides :
                 AccountItem(i, s).present => \E j \in DOMAIN a : a[j] = AccountItem(i, s)
<1> DEFINE of == [s \in Sides |-> [i \in DOMAIN PairSeq |-> AccountItem(i, s)]]
           n == Len(PairSeq)
           items == BothSides(of)
<1>1. a = Kept(items)
  BY DEF BuildReport
<1>2. n \in Nat /\ DOMAIN PairSeq = 1..n
  BY DifferentialAssumption DEF DifferentialAssumption
<1> HIDE DEF n
<1>3. /\ Len(of["anchor"]) = n
      /\ \A i \in 1..n, s \in Sides : of[s][i] = AccountItem(i, s)
  <2> HIDE DEF AccountItem
  <2> QED BY <1>2 DEF Sides
<1> HIDE DEF of
<1>4. /\ Len(items) = 2 * n
      /\ \A i \in 1..n : /\ items[2 * i - 1] = of["anchor"][i]
                         /\ items[2 * i] = of["pinocchio"][i]
      /\ \A k \in 1..(2 * n) : \E i \in 1..n, s \in Sides : items[k] = of[s][i]
  <2>1. n \in Nat /\ Len(of["anchor"]) = n
    BY <1>2, <1>3
  <2>2. Len(items) = 2 * n
    BY <2>1, BothSidesItems
  <2>3. \A i \in 1..n : items[2 * i - 1] = of["anchor"][i] /\ items[2 * i] = of["pinocchio"][i]
    BY <2>1, BothSidesItems
  <2>4. \A k \in 1..(2 * n) : \E i \in 1..n, s \in Sides : items[k] = of[s][i]
    BY <2>1, BothSidesItems
  <2> HIDE DEF items
  <2> QED BY <2>2, <2>3, <2>4
<1> HIDE DEF items
<1> DEFINE m == 2 * n
<1>5. m \in Nat /\ Len(items) = m
  BY <1>2, <1>4
<1>6. \A i \in 1..n : 2 * i - 1 \in 1..m /\ 2 * i \in 1..m
  BY <1>2
<1> HIDE DEF m
<1>7. /\ IsSequence(a)
      /\ \A j \in DOMAIN a : \E k \in 1..m : items[k].present /\ a[j] = items[k]
      /\ \A k \in 1..m : items[k].present => \E j \in DOMAIN a : a[j] = items[k]
  BY <1>1, <1>5, KeptItems
<1>8. ASSUME NEW j \in DOMAIN a
      PROVE  \E i \in DOMAIN PairSeq, s \in Sides :
                AccountItem(i, s).present /\ a[j] = AccountItem(i, s)
  <2>1. PICK k \in 1..m : items[k].present /\ a[j] = items[k]
    BY <1>7
  <2>2. PICK i \in 1..n, s \in Sides : items[k] = of[s][i]
    BY <1>4 DEF m
  <2> QED BY <1>2, <1>3, <2>1, <2>2
<1>9. ASSUME NEW i \in DOMAIN PairSeq, NEW s \in Sides, AccountItem(i, s).present
      PROVE  \E j \in DOMAIN a : a[j] = AccountItem(i, s)
  <2>1. PICK k \in 1..m : items[k] = AccountItem(i, s)
    <3>1. i \in 1..n /\ of[s][i] = AccountItem(i, s)
      BY <1>2, <1>3
    <3>2. CASE s = "anchor"
      BY <1>4, <1>6, <3>1, <3>2
    <3>3. CASE s = "pinocchio"
      BY <1>4, <1>6, <3>1, <3>3
    <3> QED BY <3>2, <3>3 DEF Sides
  <2> HIDE DEF AccountItem
  <2> QED BY <1>7, <1>9, <2>1
<1> QED BY <1>7, <1>8, <1>9

\* The actions a are the probes, to each side in turn.
AsksProbes(a, n) ==
    /\ Len(a) = 2 * n /\ DOMAIN a = 1..(2 * n)
    /\ \A i \in 1..n :
         /\ a[2 * i - 1].target = <<"anchor">> /\ a[2 * i - 1].data = <<ProbeSeq[i]>>
         /\ a[2 * i].target = <<"pinocchio">> /\ a[2 * i].data = <<ProbeSeq[i]>>

\* ... and the probes, to the anchor and then to its rewrite.
LEMMA BuiltActions ==
    ASSUME NEW d, NEW a, a = BuildReport(d).claim.bundle.actions,
           NEW n \in Nat, Len(run.probes) = n, DOMAIN run.probes = 1..n,
           \A i \in 1..n : run.probes[i].amount = ProbeSeq[i]
    PROVE  AsksProbes(a, n)
<1> DEFINE of == [s \in Sides |-> [i \in DOMAIN run.probes |-> ActionItem(i, s)]]
<1>1. a = BothSides(of)
  BY DEF BuildReport
<1>2. /\ Len(of["anchor"]) = n
      /\ \A i \in 1..n, s \in Sides : of[s][i] = ActionItem(i, s)
  <2> HIDE DEF ActionItem
  <2> QED BY DEF Sides
<1> HIDE DEF of
<1>3. /\ Len(a) = 2 * n /\ DOMAIN a = 1..(2 * n)
      /\ \A i \in 1..n : /\ a[2 * i - 1] = of["anchor"][i]
                         /\ a[2 * i] = of["pinocchio"][i]
  BY <1>1, <1>2, BothSidesItems
<1>4. \A i \in 1..n, s \in Sides :
         ActionItem(i, s).target = <<s>> /\ ActionItem(i, s).data = <<ProbeSeq[i]>>
  BY DEF ActionItem
<1> QED BY <1>2, <1>3, <1>4 DEF AsksProbes, Sides

LEMMA ArtifactMade ==
    ASSUME NEW bytes
    PROVE  Artifact(bytes) \in {ArtifactDigest(bytes), ArtifactInline(bytes)}
BY DEF Artifact

\* Every artifact of a report is what it names, or is not carried.
LEMMA BuiltGenuine ==
    ASSUME NEW d
    PROVE  GenuineReport(BuildReport(d))
<1> DEFINE r == BuildReport(d)
           b == r.claim.bundle
           p == b.programs
           a == b.accounts
<1>1. IsReport(r) /\ IsBundle(b)
  BY DEF BuildReport, IsReport, IsBundle
<1>2. /\ p = [k \in 1..2 |-> p[k]] /\ DOMAIN p = 1..2
      /\ p[1] = ProgramItem(1, "anchor") /\ p[2] = ProgramItem(1, "pinocchio")
  BY BuiltPrograms
<1>3. /\ IsSequence(a)
      /\ \A j \in DOMAIN a : \E i \in DOMAIN PairSeq, s \in Sides : a[j] = AccountItem(i, s)
  <2>1. a = BuildReport(d).claim.bundle.accounts
    OBVIOUS
  <2> HIDE DEF a
  <2> QED BY <2>1, BuiltAccounts
<1> HIDE DEF p, a
<1>4. ASSUME NEW i \in DOMAIN p
      PROVE  IsProgram(p[i]) /\ Descends(p[i].code, p[i].code) /\ IsIntact(p[i].code)
  <2>1. PICK s \in Sides : p[i] = ProgramItem(1, s)
    BY <1>2 DEF Sides
  <2>2. IsProgram(p[i]) /\ p[i].code = Artifact(disk[s])
    BY <2>1 DEF ProgramItem, IsProgram
  <2> QED BY <2>2, ArtifactMade, MadeGenuine
<1>5. ASSUME NEW j \in DOMAIN a
      PROVE  IsAccount(a[j]) /\ Descends(a[j].pre, a[j].pre) /\ IsIntact(a[j].pre)
  <2>1. PICK i \in DOMAIN PairSeq, s \in Sides : a[j] = AccountItem(i, s)
    BY <1>3
  <2> DEFINE bytes == IF run.pre[s][PairSeq[i]] # <<>> THEN run.pre[s][PairSeq[i]][1] ELSE <<>>
  <2>2. IsAccount(a[j]) /\ a[j].pre = Artifact(bytes)
    BY <2>1, AccountFields
  <2> HIDE DEF bytes
  <2> QED BY <2>2, ArtifactMade, MadeGenuine
<1>6. IsSequence(p) /\ p # <<>>
  <2>1. 2 \in Nat /\ 1 \in DOMAIN p
    BY <1>2
  <2> QED BY <1>2, <2>1 DEF IsSequence
<1>7. ProgramsFrom(p, p) /\ AccountsFrom(a, a)
  BY <1>3, <1>4, <1>5, <1>6 DEF ProgramsFrom, AccountsFrom
<1> QED BY <1>1, <1>4, <1>5, <1>7 DEF GenuineReport, Lineage, p, a

-----------------------------------------------------------------------------
(* What a reader holds.                                                    *)

Whole(doc) == doc = <<doc[1]>>

\* The copy is what became of a genuine report.
CopyDescends(c) ==
    /\ c = <<[of |-> c[1].of, doc |-> c[1].doc, edits |-> c[1].edits]>>
    /\ GenuineReport(c[1].of)
    /\ c[1].doc # <<>> =>
         /\ Whole(c[1].doc) /\ IsReport(c[1].doc[1])
         /\ Lineage(c[1].doc[1].claim.bundle, c[1].of.claim.bundle)

\* A report is held from where it is built to the assertion, and no longer.
Writing == pending # <<>> <=> pc \in {"json", "assert"}

ReaderInv ==
    /\ Writing
    /\ pending # <<>> => Whole(pending) /\ GenuineReport(pending[1])
    /\ json # <<>> => Whole(json) /\ GenuineReport(json[1])
    /\ copy # <<>> => CopyDescends(copy)

LEMMA ReaderInit == Init => ReaderInv
BY DEF Init, ReaderInv, Writing

\* What Edit makes of a copy.
LEMMA EditDescends ==
    ASSUME copy # <<>>, CopyDescends(copy), Edit
    PROVE  CopyDescends(copy')
<1> DEFINE of == copy[1].of
           old == copy[1].doc[1]
           n == copy[1].edits + 1
<1>1. PICK doc \in {<<>>, <<[old EXCEPT !.tool = "another"]>>,
                    <<[old EXCEPT !.claim.schema = SCHEMA_VERSION + 1]>>}
                  \cup {<<[old EXCEPT !.claim.bundle = b]>> : b \in EditedBundles(old.claim.bundle)} :
         copy' = <<[of |-> of, doc |-> doc, edits |-> n]>>
  BY DEF Edit
<1>2. GenuineReport(of) /\ IsReport(old) /\ Lineage(old.claim.bundle, of.claim.bundle)
  BY DEF Edit, CopyDescends
<1> HIDE DEF of, old, n
<1>3. copy'[1].of = of /\ copy'[1].doc = doc /\ copy'[1].edits = n
  BY <1>1
<1>4. SUFFICES doc # <<>> =>
         /\ Whole(doc) /\ IsReport(doc[1])
         /\ Lineage(doc[1].claim.bundle, of.claim.bundle)
  BY <1>1, <1>2, <1>3 DEF CopyDescends
<1> DEFINE t == old.tool
           s == old.claim.schema
           b == old.claim.bundle
           v == old.claim.divergences
<1>5. old = [tool |-> t, claim |-> [schema |-> s, bundle |-> b, divergences |-> v]]
  BY <1>2 DEF IsReport
<1>6. Lineage(b, of.claim.bundle)
  BY <1>2
<1> HIDE DEF t, s, b, v
<1>7. CASE doc = <<>>
  BY <1>7
<1>8. CASE doc = <<[old EXCEPT !.tool = "another"]>>
  <2>1. doc[1] = [tool |-> "another", claim |-> [schema |-> s, bundle |-> b, divergences |-> v]]
    BY <1>5, <1>8
  <2> QED BY <1>6, <1>8, <2>1 DEF Whole, IsReport
<1>9. CASE doc = <<[old EXCEPT !.claim.schema = SCHEMA_VERSION + 1]>>
  <2> DEFINE z == SCHEMA_VERSION + 1
  <2> HIDE DEF z
  <2>1. doc[1] = [tool |-> t, claim |-> [schema |-> z, bundle |-> b, divergences |-> v]]
    BY <1>5, <1>9 DEF z
  <2> QED BY <1>6, <1>9, <2>1 DEF Whole, IsReport
<1>10. ASSUME NEW e \in EditedBundles(old.claim.bundle), doc = <<[old EXCEPT !.claim.bundle = e]>>
       PROVE  Whole(doc) /\ IsReport(doc[1]) /\ Lineage(doc[1].claim.bundle, of.claim.bundle)
  <2>1. doc[1] = [tool |-> t, claim |-> [schema |-> s, bundle |-> e, divergences |-> v]]
    BY <1>5, <1>10
  <2>2. Lineage(e, of.claim.bundle)
    BY <1>2, <1>10, EditedLineage
  <2> QED BY <1>10, <2>1, <2>2 DEF Whole, IsReport
<1> QED BY <1>1, <1>7, <1>8, <1>9, <1>10

LEMMA ReaderNext == ReaderInv /\ [Next]_vars => ReaderInv'
<1> SUFFICES ASSUME ReaderInv, [Next]_vars PROVE ReaderInv'
  OBVIOUS
<1>1. ASSUME UNCHANGED <<json, copy, pending>>, Writing' PROVE ReaderInv'
  BY <1>1 DEF ReaderInv
<1>2. CASE UNCHANGED vars
  BY <1>1, <1>2 DEF vars, ReaderInv, Writing
<1>3. CASE FuzzAction
  BY <1>1, <1>3 DEF FuzzAction, files, environment, ReaderInv, Writing
<1>4. CASE CheckPairs \/ CheckProduct
  BY <1>1, <1>4 DEF CheckPairs, CheckProduct, Fail, files, environment, ReaderInv, Writing
<1>5. CASE BeginProbes \/ SendProbe
  BY <1>1, <1>5 DEF BeginProbes, SendProbe, files, environment, ReaderInv, Writing
<1>6. CASE CheckEvidence
  BY <1>1, <1>6 DEF CheckEvidence, Fail, files, environment, ReaderInv, Writing
<1>7. CASE CheckParity \/ CheckCost
  <2>1. PICK d : Conclude(d)
    BY <1>7 DEF CheckParity, CheckCost
  <2>2. pending = <<>> /\ UNCHANGED <<json, copy>>
    BY <1>7, <2>1 DEF CheckParity, CheckCost, Conclude, files, environment, ReaderInv, Writing
  <2>3. CASE pc' = "json" /\ pending' = <<BuildReport(d)>>
    <3>1. GenuineReport(BuildReport(d))
      BY BuiltGenuine
    <3>2. Whole(pending') /\ GenuineReport(pending'[1]) /\ pending' # <<>>
      BY <2>3, <3>1 DEF Whole
    <3> QED BY <2>2, <2>3, <3>2 DEF ReaderInv, Writing
  <2>4. CASE pc' \in {"clean", "over"} /\ UNCHANGED pending
    BY <1>1, <2>2, <2>4 DEF ReaderInv, Writing
  <2> QED BY <2>1, <2>3, <2>4 DEF Conclude, Fail
<1>8. CASE EmitJson
  <2>1. GenuineReport(pending[1]) /\ pending # <<>> /\ Whole(pending)
    BY <1>8 DEF EmitJson, ReaderInv, Writing
  <2>2. json' \in {<<pending[1]>>, json, <<>>}
    BY <1>8 DEF EmitJson, Written, CanonicalJson
  <2>3. json' # <<>> => Whole(json') /\ GenuineReport(json'[1])
    BY <2>1, <2>2 DEF ReaderInv, Whole
  <2> QED BY <1>8, <2>1, <2>3 DEF EmitJson, ReaderInv, Writing
<1>9. CASE FuzzAssert
  BY <1>9 DEF FuzzAssert, Fail, files, environment, ReaderInv, Writing
<1>10. CASE EndBody \/ NewIteration
  BY <1>1, <1>10 DEF EndBody, NewIteration, files, environment, ReaderInv, Writing
<1>11. CASE Stop
  BY <1>11 DEF Stop, environment, ReaderInv, Writing
<1>12. CASE Restart
  BY <1>1, <1>12 DEF Restart, files, ReaderInv, Writing
<1>13. CASE Rebuild
  BY <1>1, <1>13 DEF Rebuild, files, ReaderInv, Writing
<1>14. CASE Take
  <2>1. Whole(json) /\ GenuineReport(json[1]) /\ json # <<>>
    BY <1>14 DEF Take, ReaderInv
  <2>2. copy' = <<[of |-> json[1], doc |-> json, edits |-> 0]>>
    BY <1>14 DEF Take
  <2>3. CopyDescends(copy')
    BY <2>1, <2>2 DEF CopyDescends, GenuineReport
  <2> QED BY <1>14, <2>3 DEF Take, files, ReaderInv, Writing
<1>15. CASE Edit
  <2>1. CopyDescends(copy')
    BY <1>15, EditDescends DEF Edit, ReaderInv
  <2> QED BY <1>15, <2>1 DEF Edit, files, ReaderInv, Writing
<1> QED BY <1>2, <1>3, <1>4, <1>5, <1>6, <1>7, <1>8, <1>9, <1>10, <1>11, <1>12, <1>13, <1>14,
           <1>15 DEF Next, Harness

THEOREM ReaderInvAlways == Spec => []ReaderInv
<1>1. Init => ReaderInv
  BY ReaderInit
<1>2. ReaderInv /\ [Next]_vars => ReaderInv'
  BY ReaderNext
<1> QED BY <1>1, <1>2, PTL DEF Spec

\* GradeIsJustified: a page says that the inputs are carried, lists no gap, or
\* speaks of corruption, exactly when the bytes bear it out, whatever happened
\* to the report on its way.
THEOREM GradeIsJustifiedAlways == Spec => []GradeIsJustified
<1>1. ReaderInv => GradeIsJustified
  <2> SUFFICES ASSUME ReaderInv, Accepted # <<>> PROVE GradeIsJustified
    BY DEF GradeIsJustified
  <2> DEFINE r == Accepted[1]
             b == r.claim.bundle
             first == copy[1].of.claim.bundle
  <2>1. copy # <<>> /\ CopyDescends(copy) /\ copy[1].doc # <<>> /\ Accepted = copy[1].doc
    BY DEF ReaderInv, Accepted, FromJson
  <2>2. Lineage(b, first)
    BY <2>1 DEF CopyDescends
  <2> HIDE DEF r, first
  <2>3. TextlessBundle(b)
    BY <2>2 DEF Lineage, ProgramsFrom, AccountsFrom, Descends, TextlessBundle
  <2>4. Len(b.programs) \in Nat
    BY <2>2 DEF Lineage, ProgramsFrom, IsSequence
  <2> HIDE DEF b
  <2>5. b = r.claim.bundle
    BY DEF b
  <2>6. /\ (Markdown(r).grade = "InputsCarried") <=> Recoverable(b)
        /\ (Markdown(r).gaps = {}) <=> Recoverable(b)
        /\ (Markdown(r).grade = "Corrupt") <=> (IntegrityFailures(b) # {})
    BY <2>3, <2>4, <2>5, GradeMeans
  <2>7. (IntegrityFailures(b) # {}) <=>
           \/ \E i \in DOMAIN b.programs :
                 IsCarried(b.programs[i].code) /\ Bytes(b.programs[i].code) = <<>>
           \/ \E i \in DOMAIN b.accounts :
                 IsCarried(b.accounts[i].pre) /\ Bytes(b.accounts[i].pre) = <<>>
    <3>1. ASSUME NEW a, Textless(a)
          PROVE  ~IsIntact(a) <=> (IsCarried(a) /\ Bytes(a) = <<>>)
      BY <3>1 DEF Textless, Bytes, IsIntact
    <3> QED BY <2>3, <3>1, IntegrityMeans DEF TextlessBundle
  <2> DEFINE R == Recoverable(b)
             corrupt == \/ \E i \in DOMAIN b.programs :
                              IsCarried(b.programs[i].code) /\ Bytes(b.programs[i].code) = <<>>
                        \/ \E i \in DOMAIN b.accounts :
                              IsCarried(b.accounts[i].pre) /\ Bytes(b.accounts[i].pre) = <<>>
             page == Markdown(r)
  <2>8. R \in BOOLEAN /\ corrupt \in BOOLEAN
    BY DEF Recoverable
  <2>9. /\ (page.grade = "InputsCarried") <=> R
        /\ (page.gaps = {}) <=> R
        /\ (page.grade = "Corrupt") <=> corrupt
    BY <2>6, <2>7
  <2> HIDE DEF R, corrupt, page
  <2>10. /\ (page.grade = "InputsCarried") = R
         /\ (page.gaps = {}) = R
         /\ (page.grade = "Corrupt") = corrupt
    BY <2>8, <2>9
  <2> QED BY <2>10 DEF GradeIsJustified, R, corrupt, page, r, b
<1> QED BY <1>1, ReaderInvAlways, PTL

\* DamageNeverCarried: what a reader takes for whole is, under each name, what
\* the process that wrote the report had there.
THEOREM DamageNeverCarriedAlways == Spec => []DamageNeverCarried
<1>1. ReaderInv => DamageNeverCarried
  <2> DEFINE b == Accepted[1].claim.bundle
             first == copy[1].of.claim.bundle
  <2> SUFFICES ASSUME ReaderInv, Accepted # <<>>, Completeness(b) = "InputsCarried"
               PROVE  DamageNeverCarried
    BY DEF DamageNeverCarried
  <2>1. copy # <<>> /\ CopyDescends(copy) /\ copy[1].doc # <<>> /\ Accepted = copy[1].doc
    BY DEF ReaderInv, Accepted, FromJson
  <2>2. Lineage(b, first)
    BY <2>1 DEF CopyDescends
  <2>3. /\ \A i \in DOMAIN first.programs : IsIntact(first.programs[i].code)
        /\ \A i \in DOMAIN first.accounts : IsIntact(first.accounts[i].pre)
    BY <2>1 DEF CopyDescends, GenuineReport
  <2> HIDE DEF b, first
  <2>4. IntegrityFailures(b) = {} /\ Carried(b)
    BY DEF Completeness
  <2>5. /\ \A i \in DOMAIN b.programs : IsIntact(b.programs[i].code)
        /\ \A i \in DOMAIN b.accounts : IsIntact(b.accounts[i].pre)
    BY <2>4, IntegrityMeans
  <2>6. /\ \A i \in DOMAIN b.programs : IsCarried(b.programs[i].code)
        /\ \A i \in DOMAIN b.accounts : IsCarried(b.accounts[i].pre)
    BY <2>4 DEF Carried, IsComplete
  <2>7. ASSUME NEW a, NEW f, Descends(a, f), IsCarried(a), IsIntact(a), IsIntact(f)
        PROVE  a.text = f.text
    BY <2>7 DEF Descends, IsIntact
  <2>8. \A i \in DOMAIN b.programs : b.programs[i].code.text = first.programs[i].code.text
    BY <2>2, <2>3, <2>5, <2>6, <2>7 DEF Lineage, ProgramsFrom
  <2>9. \A i \in DOMAIN b.accounts : \E j \in DOMAIN first.accounts :
            /\ b.accounts[i].label = first.accounts[j].label
            /\ b.accounts[i].pre.text = first.accounts[j].pre.text
    BY <2>2, <2>3, <2>5, <2>6, <2>7 DEF Lineage, AccountsFrom
  <2> QED BY <2>8, <2>9 DEF DamageNeverCarried, b, first
<1> QED BY <1>1, ReaderInvAlways, PTL

-----------------------------------------------------------------------------
(* What a process does before it has anything to say.                       *)

LEMMA SeqIsSequence ==
    ASSUME NEW T, NEW t \in Seq(T)
    PROVE  IsSequence(t)
<1>1. t = [j \in 1..Len(t) |-> t[j]] /\ Len(t) \in Nat
  OBVIOUS
<1> QED BY <1>1 DEF IsSequence

\* t is s with x at its end.
Longer(t, s, x) ==
    /\ IsSequence(t) /\ Len(s) \in Nat /\ Len(t) = Len(s) + 1
    /\ DOMAIN s = 1..Len(s) /\ DOMAIN t = 1..(Len(s) + 1)
    /\ t[Len(s) + 1] = x /\ \A i \in 1..Len(s) : t[i] = s[i]

LEMMA AppendItems ==
    ASSUME NEW s, IsSequence(s), NEW x
    PROVE  Longer(Append(s, x), s, x)
<1>1. PICK n \in Nat : s = [j \in 1..n |-> s[j]]
  BY DEF IsSequence
<1> DEFINE T == {s[j] : j \in DOMAIN s} \cup {x}
           t == Append(s, x)
<1>2. s \in Seq(T) /\ x \in T /\ Len(s) = n /\ DOMAIN s = 1..n
  BY <1>1
<1> HIDE DEF T
<1>3. /\ t \in Seq(T) /\ Len(t) = n + 1 /\ DOMAIN t = 1..(n + 1)
      /\ t[n + 1] = x /\ \A i \in 1..n : t[i] = s[i]
  BY <1>2
<1>4. IsSequence(t)
  BY <1>3, SeqIsSequence
<1>5. Len(s) = n /\ Len(t) = n + 1 /\ n \in Nat
  BY <1>2, <1>3
<1> QED BY <1>2, <1>3, <1>4, <1>5 DEF Longer

LEMMA SequenceLength ==
    ASSUME NEW s, IsSequence(s)
    PROVE  /\ Len(s) \in Nat /\ DOMAIN s = 1..Len(s)
           /\ s = [i \in 1..Len(s) |-> s[i]]
BY DEF IsSequence

\* The accounts of a side before the first probe of a run, and after the i-th.
PostOf(r, i, s) == IF i = 0 THEN r.pre[s] ELSE r.probes[i].result[s][1].post

Unfailed(r) == \A i \in DOMAIN r.probes : ~SendFailed(r.probes[i])

\* Every result is what the program of its side makes of the accounts that the
\* probe before has left.
RanOn(r, loaded) ==
    \A i \in DOMAIN r.probes, s \in Sides :
        r.probes[i].result[s] = <<Exec(s, loaded[s], PostOf(r, i - 1, s), ProbeSeq[i])>>

ProbeVariants == {"smoke", "parity", "cost"}

\* All probes are sent, and none was lost.
Concluding == pc \in {"parity", "cost", "json", "assert"} \/ (pc = "clean" /\ proc.variant \in ProbeVariants)

Route ==
    /\ proc.variant \in Variants
    /\ pc = "pairs" => proc.variant \in {"smoke", "pool", "tokens"}
    /\ pc = "product" => proc.variant \in {"smoke", "product"}
    /\ pc \in {"begin", "probe"} => proc.variant \in ProbeVariants
    /\ pc = "parity" => proc.variant \in {"smoke", "parity"}
    /\ pc = "cost" => proc.variant = "cost"

AtRest == pc = "stopped" => accts = Setup /\ run = NoRun /\ found = <<>> /\ lost = FALSE

RunShape ==
    /\ run = [pre |-> run.pre, probes |-> run.probes]
    /\ IsSequence(run.probes) /\ Len(run.probes) <= Len(ProbeSeq)
    /\ \A i \in DOMAIN run.probes : run.probes[i].amount = ProbeSeq[i]

RunInv ==
    /\ Route /\ AtRest /\ RunShape
    /\ Unfailed(run) => RanOn(run, proc.loaded)
    /\ Unfailed(run) /\ (pc = "probe" \/ Concluding) =>
          \A s \in Sides : accts[s] = PostOf(run, Len(run.probes), s)
    /\ Concluding => Unfailed(run) /\ Len(run.probes) = Len(ProbeSeq)

LEMMA NoRunRuns ==
    /\ NoRun = [pre |-> NoRun.pre, probes |-> NoRun.probes] /\ NoRun.probes = <<>>
    /\ IsSequence(NoRun.probes) /\ Len(NoRun.probes) = 0 /\ DOMAIN NoRun.probes = {}
    /\ Len(NoRun.probes) <= Len(ProbeSeq)
    /\ Unfailed(NoRun) /\ \A loaded : RanOn(NoRun, loaded)
<1>1. NoRun.probes = <<>> /\ NoRun = [pre |-> NoRun.pre, probes |-> NoRun.probes]
  BY DEF NoRun
<1>2. IsSequence(<<>>)
  <2>1. 0 \in Nat /\ <<>> = [i \in 1..0 |-> <<>>[i]]
    OBVIOUS
  <2> QED BY <2>1 DEF IsSequence
<1>3. Len(ProbeSeq) \in Nat
  BY DifferentialAssumption DEF DifferentialAssumption
<1>4. Len(<<>>) = 0 /\ DOMAIN <<>> = {}
  OBVIOUS
<1> QED BY <1>1, <1>2, <1>3, <1>4 DEF Unfailed, RanOn

LEMMA RunInit == Init => RunInv
<1> SUFFICES ASSUME Init PROVE RunInv
  OBVIOUS
<1>1. run = NoRun /\ pc = "loop" /\ proc.variant \in Variants
  BY DEF Init, Process
<1> QED BY <1>1, NoRunRuns DEF RunInv, Route, AtRest, RunShape, Concluding

\* One probe more: it was lost, or it ran on what the last one has left.
LEMMA ProbeSent ==
    ASSUME RunInv, SendProbe
    PROVE  /\ RunShape' /\ Len(run'.probes) = Len(run.probes) + 1
           /\ Unfailed(run') => /\ RanOn(run', proc.loaded)
                                /\ \A s \in Sides : accts'[s] = PostOf(run', Len(run'.probes), s)
<1> DEFINE old == run.probes
           n == Len(old)
           amount == ProbeSeq[n + 1]
<1>1. PICK gone \in Lost("probe") :
        /\ run' = [run EXCEPT !.probes = Append(@,
                     [amount |-> amount,
                      result |-> [s \in Sides |-> IF s \in gone THEN <<>> ELSE <<Outcome(s, amount)>>]])]
        /\ accts' = [s \in Sides |-> IF s \in gone THEN accts[s] ELSE Outcome(s, amount).post]
  BY DEF SendProbe
<1> DEFINE result == [s \in Sides |-> IF s \in gone THEN <<>> ELSE <<Outcome(s, amount)>>]
           x == [amount |-> amount, result |-> result]
           new == Append(old, x)
<1>2. run = [pre |-> run.pre, probes |-> old] /\ IsSequence(old) /\ n <= Len(ProbeSeq)
      /\ \A i \in DOMAIN old : old[i].amount = ProbeSeq[i]
  BY DEF RunInv, RunShape
<1>3. gone \subseteq Sides /\ n < Len(ProbeSeq) /\ pc = "probe" /\ Len(ProbeSeq) \in Nat
  <2>1. gone \subseteq Sides
    BY DEF Lost
  <2>2. n < Len(ProbeSeq) /\ pc = "probe"
    BY DEF SendProbe
  <2>3. Len(ProbeSeq) \in Nat
    BY DifferentialAssumption DEF DifferentialAssumption
  <2> QED BY <2>1, <2>2, <2>3
<1>4. x.amount = amount /\ x.result = result
  OBVIOUS
<1>5. run' = [run EXCEPT !.probes = new]
  BY <1>1
<1> HIDE DEF x
<1>6. run' = [pre |-> run.pre, probes |-> new]
  <2> DEFINE p == run.pre
  <2> HIDE DEF p, old, new
  <2>1. run = [pre |-> p, probes |-> old]
    BY <1>2 DEF p
  <2>2. run' = [pre |-> p, probes |-> new]
    BY <1>5, <2>1
  <2> QED BY <2>2 DEF p
<1>7. run'.pre = run.pre /\ run'.probes = new
  BY <1>6
<1>8. /\ IsSequence(new) /\ n \in Nat /\ Len(new) = n + 1
      /\ DOMAIN old = 1..n /\ DOMAIN new = 1..(n + 1)
      /\ new[n + 1] = x /\ \A i \in 1..n : new[i] = old[i]
  <2> HIDE DEF old, new, n
  <2>1. Longer(new, old, x)
    BY <1>2, AppendItems DEF new
  <2> QED BY <2>1 DEF n, Longer
<1> HIDE DEF old, new, n
<1>9. RunShape'
  <2>1. \A i \in DOMAIN new : new[i].amount = ProbeSeq[i]
    <3>1. \A i \in 1..n : new[i].amount = ProbeSeq[i]
      BY <1>2, <1>8
    <3>2. new[n + 1].amount = ProbeSeq[n + 1]
      BY <1>4, <1>8
    <3>3. \A i \in DOMAIN new : i \in 1..n \/ i = n + 1
      BY <1>8
    <3> QED BY <3>1, <3>2, <3>3
  <2>2. Len(new) <= Len(ProbeSeq)
    BY <1>3, <1>8
  <2> QED BY <1>6, <1>7, <1>8, <2>1, <2>2 DEF RunShape
<1>10. Len(run'.probes) = Len(run.probes) + 1
  BY <1>7, <1>8 DEF n, old
<1>11. ASSUME Unfailed(run')
       PROVE  /\ RanOn(run', proc.loaded)
              /\ \A s \in Sides : accts'[s] = PostOf(run', Len(run'.probes), s)
  <2>1. gone = {}
    <3>1. n + 1 \in DOMAIN new
      BY <1>8
    <3>2. ~SendFailed(x)
      BY <1>7, <1>8, <1>11, <3>1 DEF Unfailed
    <3>3. \A s \in Sides : result[s] # <<>>
      BY <1>4, <3>2 DEF SendFailed
    <3>4. \A s \in gone : s \in Sides /\ result[s] = <<>>
      BY <1>3
    <3> QED BY <3>3, <3>4
  <2>2. Unfailed(run)
    BY <1>7, <1>8, <1>11 DEF Unfailed, SendFailed, old
  <2>3. RanOn(run, proc.loaded) /\ \A s \in Sides : accts[s] = PostOf(run, n, s)
    BY <1>3, <2>2 DEF RunInv, n, old
  <2>4. ASSUME NEW s \in Sides, NEW i \in 0..n PROVE PostOf(run', i, s) = PostOf(run, i, s)
    <3>1. i = 0 \/ i \in 1..n
      BY <1>8
    <3> QED BY <1>7, <1>8, <3>1 DEF PostOf, old
  <2>5. ASSUME NEW s \in Sides PROVE x.result[s] = <<Exec(s, proc.loaded[s], PostOf(run', n, s), amount)>>
    <3>1. n \in 0..n
      BY <1>8
    <3>2. PostOf(run', n, s) = accts[s]
      BY <2>3, <2>4, <3>1
    <3>3. result[s] = <<Outcome(s, amount)>>
      BY <2>1
    <3> QED BY <1>4, <3>2, <3>3 DEF Outcome
  <2>6. ASSUME NEW i \in DOMAIN run'.probes, NEW s \in Sides
        PROVE  run'.probes[i].result[s]
                 = <<Exec(s, proc.loaded[s], PostOf(run', i - 1, s), ProbeSeq[i])>>
    <3>1. CASE i \in 1..n
      <4>1. i - 1 \in 0..n
        BY <1>8, <3>1
      <4>2. run.probes[i].result[s] = <<Exec(s, proc.loaded[s], PostOf(run, i - 1, s), ProbeSeq[i])>>
        BY <1>8, <2>3, <3>1 DEF RanOn, old
      <4>3. run'.probes[i] = run.probes[i]
        BY <1>7, <1>8, <3>1 DEF old
      <4> QED BY <2>4, <4>1, <4>2, <4>3
    <3>2. CASE i = n + 1
      <4>1. i - 1 = n
        BY <1>8, <3>2
      <4> QED BY <1>7, <1>8, <2>5, <3>2, <4>1
    <3> QED BY <1>7, <1>8, <3>1, <3>2
  <2>7. ASSUME NEW s \in Sides PROVE accts'[s] = PostOf(run', n + 1, s)
    <3>1. n + 1 # 0
      BY <1>8
    <3>2. PostOf(run', n + 1, s) = x.result[s][1].post
      BY <1>7, <1>8, <3>1 DEF PostOf
    <3>3. result[s] = <<Outcome(s, amount)>> /\ accts'[s] = Outcome(s, amount).post
      BY <1>1, <2>1
    <3> HIDE DEF result
    <3> QED BY <1>4, <3>2, <3>3
  <2> QED BY <1>7, <1>8, <2>6, <2>7 DEF RanOn
<1> QED BY <1>9, <1>10, <1>11

LEMMA RunNext == RunInv /\ [Next]_vars => RunInv'
<1> SUFFICES ASSUME RunInv, [Next]_vars PROVE RunInv'
  OBVIOUS
<1> USE DEF environment, files
<1>1. ASSUME UNCHANGED <<proc, run>>, Route', AtRest',
             pc' = "probe" \/ Concluding' =>
                 UNCHANGED accts /\ (pc = "probe" \/ Concluding),
             Concluding' => Concluding \/ (Unfailed(run) /\ Len(run.probes) = Len(ProbeSeq))
      PROVE  RunInv'
  <2>1. RunShape'
    BY <1>1 DEF RunInv, RunShape
  <2>2. /\ Unfailed(run') => RanOn(run', proc'.loaded)
        /\ Unfailed(run') /\ (pc' = "probe" \/ Concluding') =>
              \A s \in Sides : accts'[s] = PostOf(run', Len(run'.probes), s)
        /\ Concluding' => Unfailed(run') /\ Len(run'.probes) = Len(ProbeSeq)
    BY <1>1 DEF RunInv
  <2> QED BY <1>1, <2>1, <2>2 DEF RunInv
<1>2. ASSUME run' = NoRun, Route', AtRest', pc' # "probe", ~Concluding'
      PROVE  RunInv'
  BY <1>2, NoRunRuns DEF RunInv, RunShape
<1>3. CASE UNCHANGED vars
  BY <1>1, <1>3 DEF vars, RunInv, Route, AtRest, Concluding
<1>4. CASE FuzzAction
  <2>1. UNCHANGED <<proc, run>> /\ pc = "loop" /\ proc.variant \in Variants
    BY <1>4 DEF FuzzAction, RunInv, Route
  <2>2. pc' = CASE proc.variant \in {"smoke", "pool", "tokens"} -> "pairs"
               [] proc.variant = "product"                     -> "product"
               [] OTHER                                        -> "begin"
    BY <1>4 DEF FuzzAction
  <2>3. \/ pc' = "pairs" /\ proc.variant \in {"smoke", "pool", "tokens"}
        \/ pc' = "product" /\ proc.variant = "product"
        \/ pc' = "begin" /\ proc.variant \in ProbeVariants
    BY <2>1, <2>2 DEF Variants, ProbeVariants
  <2> QED BY <1>1, <2>1, <2>3 DEF Route, AtRest, Concluding
<1>5. CASE CheckPairs
  BY <1>1, <1>5 DEF CheckPairs, Fail, RunInv, Route, AtRest, Concluding, ProbeVariants
<1>6. CASE CheckProduct
  BY <1>1, <1>6 DEF CheckProduct, Fail, RunInv, Route, AtRest, Concluding, ProbeVariants
<1>7. CASE BeginProbes
  <2>1. run' = [pre |-> accts, probes |-> <<>>] /\ UNCHANGED <<proc, accts>> /\ pc' = "probe" /\ pc = "begin"
    BY <1>7 DEF BeginProbes, SnapshotPreState
  <2>2. run'.pre = accts /\ run'.probes = <<>> /\ run' = [pre |-> run'.pre, probes |-> run'.probes]
    BY <2>1
  <2>3. /\ IsSequence(<<>>) /\ Len(<<>>) = 0 /\ DOMAIN <<>> = {} /\ 0 <= Len(ProbeSeq)
    BY NoRunRuns
  <2>4. RunShape' /\ RanOn(run', proc'.loaded)
    BY <2>2, <2>3 DEF RunShape, RanOn
  <2>5. \A s \in Sides : accts'[s] = PostOf(run', Len(run'.probes), s)
    BY <2>1, <2>2, <2>3 DEF PostOf
  <2>6. Route' /\ AtRest' /\ ~Concluding'
    BY <2>1 DEF RunInv, Route, AtRest, Concluding
  <2> QED BY <2>4, <2>5, <2>6 DEF RunInv
<1>8. CASE SendProbe
  <2>1. UNCHANGED <<proc, pc>> /\ pc = "probe"
    BY <1>8 DEF SendProbe
  <2>2. Route' /\ AtRest' /\ ~Concluding'
    BY <2>1 DEF RunInv, Route, AtRest, Concluding
  <2> QED BY <1>8, <2>1, <2>2, ProbeSent DEF RunInv
<1>9. CASE CheckEvidence
  <2>1. UNCHANGED <<proc, run, accts>> /\ pc = "probe" /\ Len(run.probes) = Len(ProbeSeq)
    BY <1>9 DEF CheckEvidence
  <2>2. CASE Unfailed(run)
    <3>1. pc' = IF proc.variant = "cost" THEN "cost" ELSE "parity"
      BY <1>9, <2>2 DEF CheckEvidence, Unfailed
    <3>2. Route' /\ AtRest'
      BY <2>1, <3>1 DEF RunInv, Route, AtRest, ProbeVariants
    <3> QED BY <1>1, <2>1, <2>2, <3>2
  <2>3. CASE ~Unfailed(run)
    <3>1. pc' = "over"
      BY <1>9, <2>3 DEF CheckEvidence, Unfailed, Fail
    <3>2. Route' /\ AtRest' /\ ~Concluding'
      BY <2>1, <3>1 DEF RunInv, Route, AtRest, Concluding
    <3> QED BY <1>1, <2>1, <3>1, <3>2
  <2> QED BY <2>2, <2>3
<1>10. CASE CheckParity \/ CheckCost
  <2>1. PICK d : Conclude(d)
    BY <1>10 DEF CheckParity, CheckCost
  <2>2. UNCHANGED <<proc, run, accts>> /\ pc' \in {"clean", "over", "json"} /\ pc \in {"parity", "cost"}
    BY <1>10, <2>1 DEF CheckParity, CheckCost, Conclude, Fail
  <2>3. Route' /\ AtRest' /\ Concluding
    BY <2>2 DEF RunInv, Route, AtRest, Concluding
  <2> QED BY <1>1, <2>2, <2>3
<1>11. CASE EmitJson
  BY <1>1, <1>11 DEF EmitJson, RunInv, Route, AtRest, Concluding
<1>12. CASE FuzzAssert
  BY <1>1, <1>12 DEF FuzzAssert, Fail, RunInv, Route, AtRest, Concluding
<1>13. CASE EndBody
  BY <1>2, <1>13 DEF EndBody, RunInv, Route, AtRest, Concluding
<1>14. CASE NewIteration
  BY <1>2, <1>14 DEF NewIteration, RunInv, Route, AtRest, Concluding
<1>15. CASE Stop
  BY <1>2, <1>15 DEF Stop, RunInv, Route, AtRest, Concluding
<1>16. CASE Restart
  <2>1. run' = NoRun /\ pc' = "loop" /\ proc'.variant = proc.variant
    BY <1>16 DEF Restart, RunInv, AtRest, Process
  <2> QED BY <1>2, <2>1 DEF RunInv, Route, AtRest, Concluding
<1>17. CASE Rebuild \/ Take \/ Edit
  <2>1. UNCHANGED <<proc, run, accts, pc, found, lost>>
    BY <1>17 DEF Rebuild, Take, Edit
  <2> QED BY <1>1, <2>1 DEF RunInv, Route, AtRest, Concluding
<1> QED BY <1>3, <1>4, <1>5, <1>6, <1>7, <1>8, <1>9, <1>10, <1>11, <1>12, <1>13, <1>14, <1>15,
           <1>16, <1>17 DEF Next, Harness

THEOREM RunInvAlways == Spec => []RunInv
<1>1. Init => RunInv
  BY RunInit
<1>2. RunInv /\ [Next]_vars => RunInv'
  BY RunNext
<1> QED BY <1>1, <1>2, PTL DEF Spec

-----------------------------------------------------------------------------
(* What is said of a run, and what the programs make of it.                 *)

\* The first thing said, in the order of the probes.
FirstOf(finding, says) ==
    \/ finding = <<>> /\ \A i \in DOMAIN says : says[i] = <<>>
    \/ /\ finding # <<>>
       /\ \E i \in DOMAIN says :
             finding = says[i] /\ \A j \in DOMAIN says : j < i => says[j] = <<>>

LEMMA FirstFindingMeans ==
    ASSUME NEW says, DOMAIN says \subseteq Nat
    PROVE  FirstOf(FirstFinding(says), says)
<1> DEFINE at == {i \in DOMAIN says : says[i] # <<>>}
<1>1. FirstFinding(says) = IF at = {} THEN <<>> ELSE says[CHOOSE i \in at : \A j \in at : i <= j]
  BY DEF FirstFinding
<1>2. CASE at = {}
  BY <1>1, <1>2 DEF FirstOf
<1>3. CASE at # {}
  <2>1. at \in SUBSET Nat
    OBVIOUS
  <2> DEFINE i == CHOOSE k \in at : \A j \in at : k <= j
  <2>2. i \in at /\ \A j \in at : i <= j
    <3> HIDE DEF at
    <3> QED BY <1>3, <2>1, LeastExists
  <2>3. FirstFinding(says) = says[i]
    BY <1>1, <1>3
  <2> HIDE DEF i
  <2>4. i \in Nat /\ i \in DOMAIN says /\ says[i] # <<>>
    BY <2>1, <2>2
  <2>5. \A j \in DOMAIN says : j < i => says[j] = <<>>
    <3> SUFFICES ASSUME NEW j \in DOMAIN says, j < i, says[j] # <<>> PROVE FALSE
      OBVIOUS
    <3>1. j \in Nat /\ i <= j
      BY <2>2
    <3> QED BY <2>4, <3>1
  <2> QED BY <2>3, <2>4, <2>5 DEF FirstOf
<1> QED BY <1>2, <1>3

\* at is a course of the programs `ran' from the accounts `pre'.
IsCourse(at, ran, pre, amounts, n) ==
    /\ at = [i \in 0..n |-> at[i]] /\ at[0] = pre
    /\ \A i \in 1..n : at[i] = [s \in Sides |-> Exec(s, ran[s], at[i - 1][s], amounts[i]).post]

LEMMA CourseIs ==
    ASSUME NEW ran, NEW pre, NEW amounts, NEW n \in Nat, Len(amounts) = n,
           NEW at, IsCourse(at, ran, pre, amounts, n)
    PROVE  Course(ran, pre, amounts) = at
<1> DEFINE Def(f) == f = [i \in 0..n |-> IF i = 0 THEN pre
                             ELSE [s \in Sides |-> Exec(s, ran[s], f[i - 1][s], amounts[i]).post]]
           c == CHOOSE f : Def(f)
<1>1. Course(ran, pre, amounts) = c
  BY DEF Course
<1>2. Def(at)
  <2>1. \A i \in 0..n : at[i] = IF i = 0 THEN pre
              ELSE [s \in Sides |-> Exec(s, ran[s], at[i - 1][s], amounts[i]).post]
    <3> TAKE i \in 0..n
    <3>1. i = 0 \/ i \in 1..n
      OBVIOUS
    <3> QED BY <3>1 DEF IsCourse
  <2>2. at = [i \in 0..n |-> at[i]]
    BY DEF IsCourse
  <2> QED BY <2>1, <2>2
<1>3. Def(c)
  <2> HIDE DEF Def
  <2> QED BY <1>2
<1> DEFINE same == {i \in 0..n : c[i] = at[i]}
<1>4. /\ c = [i \in 0..n |-> c[i]] /\ c[0] = pre
      /\ \A i \in 1..n : c[i] = [s \in Sides |-> Exec(s, ran[s], c[i - 1][s], amounts[i]).post]
  <2> HIDE DEF c
  <2>1. c = [i \in 0..n |-> IF i = 0 THEN pre
                             ELSE [s \in Sides |-> Exec(s, ran[s], c[i - 1][s], amounts[i]).post]]
    BY <1>3
  <2>2. \A i \in 0..n : c[i] = IF i = 0 THEN pre
                             ELSE [s \in Sides |-> Exec(s, ran[s], c[i - 1][s], amounts[i]).post]
    <3> TAKE i \in 0..n
    <3> QED BY <2>1
  <2>3. c[0] = pre
    <3>1. 0 \in 0..n
      OBVIOUS
    <3> QED BY <2>2, <3>1
  <2>4. ASSUME NEW i \in 1..n
        PROVE  c[i] = [s \in Sides |-> Exec(s, ran[s], c[i - 1][s], amounts[i]).post]
    <3>1. i \in 0..n /\ i # 0
      OBVIOUS
    <3> QED BY <2>2, <3>1
  <2>5. c = [i \in 0..n |-> c[i]]
    BY <2>1
  <2> QED BY <2>3, <2>4, <2>5
<1> HIDE DEF c
<1>5. 0 \in same
  BY <1>4 DEF IsCourse
<1>6. ASSUME NEW i \in 1..n, i - 1 \in same PROVE i \in same
  <2>1. i \in 0..n /\ c[i - 1] = at[i - 1]
    BY <1>6
  <2>2. c[i] = [s \in Sides |-> Exec(s, ran[s], c[i - 1][s], amounts[i]).post]
    BY <1>4
  <2>3. at[i] = [s \in Sides |-> Exec(s, ran[s], at[i - 1][s], amounts[i]).post]
    BY DEF IsCourse
  <2>4. c[i] = at[i]
    BY <2>1, <2>2, <2>3
  <2> QED BY <2>1, <2>4
<1> HIDE DEF same
<1>7. \A i \in 0..n : i \in same
  BY <1>5, <1>6, UpTo
<1>8. \A i \in 0..n : c[i] = at[i]
  BY <1>7 DEF same
<1>9. c = [i \in 0..n |-> c[i]] /\ at = [i \in 0..n |-> at[i]]
  BY <1>4 DEF IsCourse
<1>10. [i \in 0..n |-> c[i]] = [i \in 0..n |-> at[i]]
  BY <1>8
<1> QED BY <1>1, <1>9, <1>10

\* The results of a run that lost nothing are those of the course from its
\* accounts.
LEMMA RunIsFaithful ==
    ASSUME RunInv, Concluding
    PROVE  LET out == Faithful(proc.loaded, run.pre, ProbeSeq)
           IN  /\ DOMAIN out = DOMAIN run.probes
               /\ \A i \in DOMAIN run.probes :
                     /\ ~SendFailed(run.probes[i])
                     /\ \A s \in Sides : out[i][s] = Outcomes(i)[s]
<1> DEFINE n == Len(ProbeSeq)
           loaded == proc.loaded
           pre == run.pre
           at == [i \in 0..n |-> IF i = 0 THEN pre ELSE [s \in Sides |-> PostOf(run, i, s)]]
           out == Faithful(loaded, pre, ProbeSeq)
<1>1. n \in Nat /\ DOMAIN ProbeSeq = 1..n
  BY DifferentialAssumption DEF DifferentialAssumption
<1>2. Unfailed(run) /\ RanOn(run, loaded) /\ DOMAIN run.probes = 1..n
  BY SequenceLength DEF RunInv, RunShape
<1> HIDE DEF n, loaded
<1>3. ASSUME NEW i \in 1..n, NEW s \in Sides
      PROVE  /\ at[i - 1][s] = PostOf(run, i - 1, s)
             /\ run.probes[i].result[s] = <<Exec(s, loaded[s], at[i - 1][s], ProbeSeq[i])>>
  <2>1. i - 1 \in 0..n
    BY <1>1
  <2>2. at[i - 1][s] = PostOf(run, i - 1, s)
    <3> DEFINE j == i - 1
    <3>1. j \in 0..n
      BY <2>1
    <3> HIDE DEF j
    <3>2. at[j][s] = PostOf(run, j, s)
      BY <3>1 DEF PostOf
    <3> QED BY <3>2 DEF j
  <2> HIDE DEF at
  <2> QED BY <1>2, <2>2 DEF RanOn
<1>4. at[0] = pre
  BY <1>1
<1>5. ASSUME NEW i \in 1..n
      PROVE  at[i] = [s \in Sides |-> Exec(s, loaded[s], at[i - 1][s], ProbeSeq[i]).post]
  <2>1. i \in 0..n /\ i # 0
    BY <1>1
  <2>2. at[i] = [s \in Sides |-> PostOf(run, i, s)]
    BY <2>1
  <2>3. ASSUME NEW s \in Sides
        PROVE  PostOf(run, i, s) = Exec(s, loaded[s], at[i - 1][s], ProbeSeq[i]).post
    <3>1. run.probes[i].result[s] = <<Exec(s, loaded[s], at[i - 1][s], ProbeSeq[i])>>
      BY <1>3
    <3> HIDE DEF at
    <3> QED BY <2>1, <3>1 DEF PostOf
  <2> HIDE DEF at
  <2> QED BY <2>2, <2>3
<1>6. at = [i \in 0..n |-> at[i]]
  OBVIOUS
<1> HIDE DEF at, pre
<1>7. Course(loaded, pre, ProbeSeq) = at
  <2>1. IsCourse(at, loaded, pre, ProbeSeq, n)
    BY <1>4, <1>5, <1>6 DEF IsCourse
  <2>2. Len(ProbeSeq) = n
    BY DEF n
  <2> QED BY <1>1, <2>1, <2>2, CourseIs
<1>8. out = [i \in 1..n |-> [s \in Sides |-> Exec(s, loaded[s], at[i - 1][s], ProbeSeq[i])]]
  BY <1>1, <1>7 DEF Faithful
<1> HIDE DEF out
<1>9. ASSUME NEW i \in 1..n, NEW s \in Sides PROVE out[i][s] = Outcomes(i)[s]
  <2>1. out[i][s] = Exec(s, loaded[s], at[i - 1][s], ProbeSeq[i])
    BY <1>8
  <2> QED BY <1>3, <2>1 DEF Outcomes
<1>10. DOMAIN out = 1..n
  BY <1>8
<1> QED BY <1>2, <1>9, <1>10 DEF Unfailed, out, loaded, pre

\* What the comparisons of a body that ended have seen.
CleanInv ==
    pc = "clean" =>
        /\ proc.variant \in {"smoke", "parity"} =>
             \A i \in DOMAIN run.probes : ParityAt(i) = <<>>
        /\ proc.variant = "cost" => \A i \in DOMAIN run.probes : RegressionAt(i) = <<>>
        /\ proc.variant = "pool" => ~Differ(PairSeq[1])
        /\ proc.variant = "tokens" => \A q \in Pairs \ {PairSeq[1]} : ~Differ(q)

\* No pair of some differs if none is said to.
LEMMA NoneDiffers ==
    ASSUME NEW some, some \subseteq Pairs, FirstDivergence(some) = <<>>
    PROVE  \A q \in some : ~Differ(q)
<1> SUFFICES ASSUME NEW q \in some, Differ(q) PROVE FALSE
  OBVIOUS
<1>1. PICK i \in DOMAIN PairSeq : PairSeq[i] = q
  BY DEF Pairs
<1> DEFINE at == {k \in DOMAIN PairSeq : PairSeq[k] \in some /\ Differ(PairSeq[k])}
<1>2. at # {}
  BY <1>1
<1>3. FirstDivergence(some) = BodyDivergence(PairSeq[CHOOSE k \in at : \A j \in at : k <= j])
  BY <1>2 DEF FirstDivergence
<1>4. \A x : BodyDivergence(x) # <<>>
  BY DEF BodyDivergence
<1> QED BY <1>3, <1>4

LEMMA ProbesNumbered ==
    ASSUME RunInv PROVE DOMAIN run.probes \subseteq Nat
BY SequenceLength DEF RunInv, RunShape

\* What is said of a probe, from the probe alone and the toolchain.
SideOf(build, o) ==
    IF o.ok THEN [ok |-> TRUE, code |-> <<>>, reason |-> <<>>]
    ELSE IF o.code # <<>>
      THEN [ok |-> FALSE, code |-> o.code, reason |-> <<[form |-> "custom", text |-> o.code]>>]
      ELSE [ok |-> FALSE, code |-> <<>>,
            reason |-> <<[form |-> "builtin", text |-> <<o.variant, build>>]>>]

ParityOf(build, label, a, p) ==
    IF SideOf(build, a) = SideOf(build, p) THEN <<>>
    ELSE <<[kind |-> "parity", label |-> label, left |-> SideOf(build, a), right |-> SideOf(build, p)]>>

SaidParity(build, i, probe) ==
    IF SendFailed(probe) THEN <<>>
    ELSE ParityOf(build, Label(i), probe.result["anchor"][1], probe.result["pinocchio"][1])

SaidCost(i, probe) ==
    IF SendFailed(probe) THEN <<>>
    ELSE Regression(Label(i), probe.result["anchor"][1], probe.result["pinocchio"][1])

LEMMA SaidOf ==
    ASSUME NEW i
    PROVE  /\ ParityAt(i) = SaidParity(proc.build, i, run.probes[i])
           /\ RegressionAt(i) = SaidCost(i, run.probes[i])
<1>1. \A o : SideResult(o) = SideOf(proc.build, o)
  BY DEF SideResult, SideOf
<1>2. \A l, a, p : ParityDivergence(l, a, p) = ParityOf(proc.build, l, a, p)
  BY <1>1 DEF ParityDivergence, ParityOf, SameResult
<1>3. /\ Outcomes(i)["anchor"] = run.probes[i].result["anchor"][1]
      /\ Outcomes(i)["pinocchio"] = run.probes[i].result["pinocchio"][1]
  BY DEF Outcomes, Sides
<1>4. ParityAt(i) = SaidParity(proc.build, i, run.probes[i])
  BY <1>2, <1>3 DEF ParityAt, SaidParity
<1>5. RegressionAt(i) = SaidCost(i, run.probes[i])
  BY <1>3 DEF RegressionAt, SaidCost
<1> QED BY <1>4, <1>5

LEMMA SaidUnchanged ==
    ASSUME UNCHANGED <<proc, run>>, NEW i
    PROVE  ParityAt(i)' = ParityAt(i) /\ RegressionAt(i)' = RegressionAt(i)
<1>1. (ParityAt(i) = SaidParity(proc.build, i, run.probes[i]))'
  BY SaidOf, PTL
<1>2. (RegressionAt(i) = SaidCost(i, run.probes[i]))'
  BY SaidOf, PTL
<1> QED BY <1>1, <1>2, SaidOf DEF SaidParity, SaidCost, SendFailed

LEMMA CleanNext == RunInv /\ RunInv' /\ CleanInv /\ [Next]_vars => CleanInv'
<1> SUFFICES ASSUME RunInv, RunInv', CleanInv, [Next]_vars, pc' = "clean" PROVE CleanInv'
  BY DEF CleanInv
<1>1. CASE pc = "clean" /\ UNCHANGED <<proc, run, accts>>
  <2>1. \A i : ParityAt(i)' = ParityAt(i) /\ RegressionAt(i)' = RegressionAt(i)
    BY <1>1, SaidUnchanged
  <2>2. \A q : Differ(q)' <=> Differ(q)
    BY <1>1 DEF Differ, Body
  <2> QED BY <1>1, <2>1, <2>2 DEF CleanInv
<1>2. CASE CheckPairs
  <2>1. /\ FirstDivergence(Compared) = <<>> /\ UNCHANGED <<proc, run, accts>> /\ pc = "pairs"
        /\ proc.variant \in {"pool", "tokens"}
    BY <1>2 DEF CheckPairs, Fail, RunInv, Route, environment
  <2>2. Compared \subseteq Pairs
    <3>1. 1 \in DOMAIN PairSeq
      BY DifferentialAssumption DEF DifferentialAssumption
    <3> QED BY <2>1, <3>1 DEF Compared, Pairs
  <2>3. \A q \in Compared : ~Differ(q)
    BY <2>1, <2>2, NoneDiffers
  <2>4. \A q : Differ(q)' <=> Differ(q)
    BY <2>1 DEF Differ, Body
  <2>5. proc.variant = "pool" => ~Differ(PairSeq[1])
    BY <2>3 DEF Compared
  <2>6. proc.variant = "tokens" => \A q \in Pairs \ {PairSeq[1]} : ~Differ(q)
    BY <2>3 DEF Compared
  <2> QED BY <2>1, <2>4, <2>5, <2>6 DEF CleanInv
<1>3. CASE CheckProduct
  <2>1. proc'.variant = "product"
    BY <1>3 DEF CheckProduct, Fail, RunInv, Route, environment
  <2> QED BY <2>1 DEF CleanInv
<1>4. CASE CheckParity
  <2> DEFINE says == [i \in DOMAIN run.probes |-> ParityAt(i)]
  <2>1. UNCHANGED <<proc, run, accts>> /\ FirstFinding(says) = <<>> /\ pc = "parity"
    BY <1>4 DEF CheckParity, Conclude, Fail, environment
  <2>2. proc.variant \in {"smoke", "parity"}
    BY <2>1 DEF RunInv, Route
  <2>3. FirstOf(FirstFinding(says), says)
    BY ProbesNumbered, FirstFindingMeans
  <2>4. \A i \in DOMAIN run.probes : says[i] = <<>>
    <3> HIDE DEF says
    <3>1. \A i \in DOMAIN says : says[i] = <<>>
      BY <2>1, <2>3 DEF FirstOf
    <3>2. DOMAIN says = DOMAIN run.probes
      BY DEF says
    <3> QED BY <3>1, <3>2
  <2>5. \A i \in DOMAIN run.probes : ParityAt(i) = <<>>
    BY <2>4
  <2>6. \A i : ParityAt(i)' = ParityAt(i)
    BY <2>1, SaidUnchanged
  <2> QED BY <2>1, <2>2, <2>5, <2>6 DEF CleanInv
<1>5. CASE CheckCost
  <2> DEFINE says == [i \in DOMAIN run.probes |-> RegressionAt(i)]
  <2>1. UNCHANGED <<proc, run, accts>> /\ FirstFinding(says) = <<>> /\ pc = "cost"
    BY <1>5 DEF CheckCost, Conclude, Fail, environment
  <2>2. proc.variant = "cost"
    BY <2>1 DEF RunInv, Route
  <2>3. FirstOf(FirstFinding(says), says)
    BY ProbesNumbered, FirstFindingMeans
  <2>4. \A i \in DOMAIN run.probes : says[i] = <<>>
    <3> HIDE DEF says
    <3>1. \A i \in DOMAIN says : says[i] = <<>>
      BY <2>1, <2>3 DEF FirstOf
    <3>2. DOMAIN says = DOMAIN run.probes
      BY DEF says
    <3> QED BY <3>1, <3>2
  <2>5. \A i \in DOMAIN run.probes : RegressionAt(i) = <<>>
    BY <2>4
  <2>6. \A i : RegressionAt(i)' = RegressionAt(i)
    BY <2>1, SaidUnchanged
  <2> QED BY <2>1, <2>2, <2>5, <2>6 DEF CleanInv
<1>6. CASE FuzzAction
  <2>1. pc' # "clean"
    <3>1. pc' = CASE proc.variant \in {"smoke", "pool", "tokens"} -> "pairs"
                  [] proc.variant = "product"                     -> "product"
                  [] OTHER                                        -> "begin"
      BY <1>6 DEF FuzzAction
    <3> QED BY <3>1 DEF RunInv, Route, Variants
  <2> QED BY <2>1
<1>7. CASE BeginProbes \/ SendProbe \/ CheckEvidence \/ EmitJson \/ FuzzAssert
             \/ EndBody \/ NewIteration \/ Stop \/ Restart
  BY <1>7 DEF BeginProbes, SendProbe, CheckEvidence, EmitJson, FuzzAssert, EndBody, NewIteration,
              Stop, Restart, Fail
<1>8. CASE Rebuild \/ Take \/ Edit \/ UNCHANGED vars
  BY <1>1, <1>8 DEF Rebuild, Take, Edit, vars
<1> QED BY <1>2, <1>3, <1>4, <1>5, <1>6, <1>7, <1>8 DEF Next, Harness

\* CleanMeansAgreed: a body that ends without a finding had none to make.
THEOREM CleanMeansAgreedAlways == Spec => []CleanMeansAgreed
<1>1. Init => CleanInv
  BY DEF Init, CleanInv
<1>2. RunInv /\ RunInv' /\ CleanInv /\ [Next]_vars => CleanInv'
  BY CleanNext
<1>3. RunInv /\ CleanInv => CleanMeansAgreed
  <2> SUFFICES ASSUME RunInv, CleanInv, pc = "clean" PROVE CleanMeansAgreed
    BY DEF CleanMeansAgreed
  <2> DEFINE out == Faithful(proc.loaded, run.pre, ProbeSeq)
  <2>1. ASSUME proc.variant \in {"smoke", "parity"}, NEW i \in DOMAIN out
        PROVE  SideResult(out[i]["anchor"]) = SideResult(out[i]["pinocchio"])
    <3>1. Concluding
      BY <2>1 DEF Concluding, ProbeVariants
    <3>2. /\ i \in DOMAIN run.probes /\ ~SendFailed(run.probes[i])
          /\ out[i]["anchor"] = Outcomes(i)["anchor"]
          /\ out[i]["pinocchio"] = Outcomes(i)["pinocchio"]
      BY <2>1, <3>1, RunIsFaithful DEF Sides
    <3> HIDE DEF out
    <3>3. ParityAt(i) = <<>>
      BY <2>1, <3>2 DEF CleanInv
    <3> QED BY <3>2, <3>3 DEF ParityAt, ParityDivergence, SameResult
  <2>2. ASSUME proc.variant = "cost", NEW i \in DOMAIN out
        PROVE  Regression(Label(i), out[i]["anchor"], out[i]["pinocchio"]) = <<>>
    <3>1. Concluding
      BY <2>2 DEF Concluding, ProbeVariants
    <3>2. /\ i \in DOMAIN run.probes /\ ~SendFailed(run.probes[i])
          /\ out[i]["anchor"] = Outcomes(i)["anchor"]
          /\ out[i]["pinocchio"] = Outcomes(i)["pinocchio"]
      BY <2>2, <3>1, RunIsFaithful DEF Sides
    <3> HIDE DEF out
    <3>3. RegressionAt(i) = <<>>
      BY <2>2, <3>2 DEF CleanInv
    <3> QED BY <3>2, <3>3 DEF RegressionAt
  <2> HIDE DEF out
  <2> QED BY <2>1, <2>2 DEF CleanMeansAgreed, CleanInv, out
<1> QED BY <1>1, <1>2, <1>3, RunInvAlways, PTL DEF Spec

-----------------------------------------------------------------------------
(* Programs that behave alike.                                             *)

\* The accounts `at' of the two sides are related.
Related(at, R) == <<at["anchor"], at["pinocchio"]>> \in R

PairLoaded(a, p) == proc.loaded["anchor"] = a /\ proc.loaded["pinocchio"] = p

AlikeInv(a, p, R) ==
    PairLoaded(a, p) /\ ~lost =>
        /\ pending = <<>>
        /\ found # <<>> => found[1].kind \in {"no evidence", "product"}
        /\ pc \notin {"over", "probe"} => Related(accts, R)
        /\ pc = "probe" \/ Concluding => Related(run.pre, R)

\* From related accounts, a run that lost nothing keeps them related, and
\* there is nothing to say of it.
LEMMA AlikeRun ==
    ASSUME NEW a, NEW p, NEW R, Alike(a, p, R), PairLoaded(a, p),
           RunInv, Unfailed(run), Related(run.pre, R)
    PROVE  /\ <<PostOf(run, Len(run.probes), "anchor"), PostOf(run, Len(run.probes), "pinocchio")>> \in R
           /\ \A i \in DOMAIN run.probes : ParityAt(i) = <<>> /\ RegressionAt(i) = <<>>
<1> DEFINE n == Len(run.probes)
           P == {i \in 0..n : <<PostOf(run, i, "anchor"), PostOf(run, i, "pinocchio")>> \in R}
<1>1. n \in Nat /\ DOMAIN run.probes = 1..n /\ RanOn(run, proc.loaded)
  BY SequenceLength DEF RunInv, RunShape
<1>2. \A i \in 1..n : ProbeSeq[i] \in Spent
  <2>1. n <= Len(ProbeSeq) /\ Len(ProbeSeq) \in Nat /\ DOMAIN ProbeSeq = 1..Len(ProbeSeq)
    BY DifferentialAssumption DEF RunInv, RunShape, DifferentialAssumption
  <2>2. \A i \in 1..n : i \in DOMAIN ProbeSeq
    BY <1>1, <2>1
  <2> QED BY <2>2 DEF Spent
<1> HIDE DEF n
<1>3. 0 \in P
  BY <1>1 DEF PostOf, Related
<1>4. ASSUME NEW i \in 1..n, i - 1 \in P
      PROVE  /\ i \in P
             /\ ParityAt(i) = <<>> /\ RegressionAt(i) = <<>>
  <2> DEFINE at == <<PostOf(run, i - 1, "anchor"), PostOf(run, i - 1, "pinocchio")>>
             l == Exec("anchor", a, at[1], ProbeSeq[i])
             r == Exec("pinocchio", p, at[2], ProbeSeq[i])
  <2>1. at \in R
    BY <1>4
  <2>2. /\ l.ok = r.ok
        /\ ~l.ok => l.code = r.code /\ (l.code = <<>> => l.variant = r.variant)
        /\ Regression(<<>>, l, r) = <<>>
        /\ <<l.post, r.post>> \in R
    <3>1. ProbeSeq[i] \in Spent
      BY <1>2
    <3> HIDE DEF at
    <3> QED BY <2>1, <3>1 DEF Alike
  <2>3. /\ run.probes[i].result["anchor"] = <<l>>
        /\ run.probes[i].result["pinocchio"] = <<r>>
    BY <1>1 DEF RanOn, PairLoaded, Sides
  <2> HIDE DEF at, l, r
  <2>4. i # 0 /\ i \in 0..n
    BY <1>1
  <2>5. PostOf(run, i, "anchor") = l.post /\ PostOf(run, i, "pinocchio") = r.post
    BY <2>3, <2>4 DEF PostOf
  <2>6. i \in P
    BY <2>2, <2>4, <2>5
  <2>7. /\ run.probes[i].result["anchor"][1] = l
        /\ run.probes[i].result["pinocchio"][1] = r
    BY <2>3
  <2>8. SideOf(proc.build, l) = SideOf(proc.build, r)
    BY <2>2 DEF SideOf
  <2>9. ParityAt(i) = <<>>
    BY <2>7, <2>8, SaidOf DEF SaidParity, ParityOf
  <2>10. Regression(Label(i), l, r) = <<>>
    <3>1. ~(l.cu # <<>> /\ r.cu # <<>> /\ r.cu[1] > l.cu[1])
      BY <2>2 DEF Regression
    <3> QED BY <3>1 DEF Regression
  <2>11. RegressionAt(i) = <<>>
    BY <2>7, <2>10, SaidOf DEF SaidCost
  <2> QED BY <2>6, <2>9, <2>11
<1> HIDE DEF P
<1>5. \A i \in 0..n : i \in P
  BY <1>1, <1>3, <1>4, UpTo
<1>6. n \in P
  BY <1>1, <1>5
<1>7. \A i \in 1..n : ParityAt(i) = <<>> /\ RegressionAt(i) = <<>>
  <2> TAKE i \in 1..n
  <2>1. i - 1 \in P
    BY <1>1, <1>5
  <2> QED BY <1>4, <2>1
<1> QED BY <1>1, <1>6, <1>7 DEF P, n

\* Nothing is found if nothing is said.
LEMMA NothingSaid ==
    ASSUME RunInv, NEW says, DOMAIN says = DOMAIN run.probes, \A i \in DOMAIN says : says[i] = <<>>
    PROVE  FirstFinding(says) = <<>>
<1>1. FirstOf(FirstFinding(says), says)
  BY ProbesNumbered, FirstFindingMeans
<1> QED BY <1>1 DEF FirstOf

LEMMA AlikeNext ==
    ASSUME NEW a, NEW p, NEW R, Alike(a, p, R), RunInv, RunInv', Writing, AlikeInv(a, p, R), [Next]_vars
    PROVE  AlikeInv(a, p, R)'
<1> SUFFICES ASSUME PairLoaded(a, p)', ~lost'
             PROVE  /\ pending' = <<>>
                    /\ found' # <<>> => found'[1].kind \in {"no evidence", "product"}
                    /\ pc' \notin {"over", "probe"} => Related(accts', R)
                    /\ pc' = "probe" \/ Concluding' => Related(run'.pre, R)
  BY DEF AlikeInv
<1> USE DEF environment, files
<1>1. Related(Setup, R)
  BY DEF Alike, Related
<1>2. ASSUME UNCHANGED proc, ~lost
      PROVE  /\ PairLoaded(a, p)
             /\ pending = <<>>
             /\ found # <<>> => found[1].kind \in {"no evidence", "product"}
             /\ pc \notin {"over", "probe"} => Related(accts, R)
             /\ pc = "probe" \/ Concluding => Related(run.pre, R)
  BY <1>2 DEF AlikeInv, PairLoaded
<1>3. CASE UNCHANGED vars
  BY <1>2, <1>3 DEF vars, Concluding
<1>4. CASE FuzzAction
  <2>1. PICK amount \in Amounts, gone \in Lost("action") :
         /\ accts' = [s \in Sides |-> IF s \in gone THEN accts[s] ELSE Outcome(s, amount).post]
         /\ lost' = (lost \/ gone # {})
    BY <1>4 DEF FuzzAction
  <2>2. UNCHANGED <<proc, pending, found>> /\ ~lost /\ gone = {} /\ pc = "loop"
    BY <1>4, <2>1 DEF FuzzAction
  <2>3. pc' \in {"pairs", "product", "begin"}
    <3>1. pc' = CASE proc.variant \in {"smoke", "pool", "tokens"} -> "pairs"
                  [] proc.variant = "product"                     -> "product"
                  [] OTHER                                        -> "begin"
      BY <1>4 DEF FuzzAction
    <3> QED BY <3>1 DEF RunInv, Route, Variants
  <2>4. Related(accts, R)
    BY <1>2, <2>2
  <2>5. /\ accts'["anchor"] = Exec("anchor", a, accts["anchor"], amount).post
        /\ accts'["pinocchio"] = Exec("pinocchio", p, accts["pinocchio"], amount).post
    BY <1>2, <2>1, <2>2 DEF Outcome, PairLoaded, Sides
  <2>6. Related(accts', R)
    <3> DEFINE at == <<accts["anchor"], accts["pinocchio"]>>
    <3>1. at \in R /\ at[1] = accts["anchor"] /\ at[2] = accts["pinocchio"] /\ amount \in Spent
      BY <2>4 DEF Related, Spent
    <3> HIDE DEF at
    <3>2. <<Exec("anchor", a, at[1], amount).post, Exec("pinocchio", p, at[2], amount).post>> \in R
      BY <3>1 DEF Alike
    <3> QED BY <2>5, <3>1, <3>2 DEF Related
  <2> QED BY <1>2, <2>2, <2>3, <2>6 DEF Concluding
<1>5. CASE CheckPairs
  <2>1. UNCHANGED <<proc, accts, pending, run, lost>> /\ pc = "pairs"
    BY <1>5 DEF CheckPairs
  <2>2. proc.variant \in {"smoke", "pool", "tokens"} /\ Related(accts, R)
    BY <1>2, <2>1 DEF RunInv, Route
  <2>3. ASSUME NEW q \in Pairs PROVE ~Differ(q)
    <3> DEFINE at == <<accts["anchor"], accts["pinocchio"]>>
    <3>1. at \in R /\ at[1] = accts["anchor"] /\ at[2] = accts["pinocchio"]
      BY <2>2 DEF Related
    <3> HIDE DEF at
    <3>2. LET l == BodyOf("anchor", q, at[1][q])
              r == BodyOf("pinocchio", q, at[2][q])
          IN  l = <<>> \/ r = <<>> \/ l = r
      BY <3>1 DEF Alike
    <3> QED BY <3>1, <3>2 DEF Differ, Body
  <2>4. Compared \subseteq Pairs
    <3>1. 1 \in DOMAIN PairSeq
      BY DifferentialAssumption DEF DifferentialAssumption
    <3> QED BY <2>2, <3>1 DEF Compared, Pairs
  <2>5. FirstDivergence(Compared) = <<>>
    <3>1. {i \in DOMAIN PairSeq : PairSeq[i] \in Compared /\ Differ(PairSeq[i])} = {}
      BY <2>3, <2>4
    <3> QED BY <3>1 DEF FirstDivergence
  <2>6. pc' \in {"product", "clean"} /\ UNCHANGED found /\ (pc' = "clean" => proc.variant # "smoke")
    BY <1>5, <2>5 DEF CheckPairs
  <2> QED BY <1>2, <2>1, <2>2, <2>6 DEF Concluding, ProbeVariants
<1>6. CASE CheckProduct
  <2>1. UNCHANGED <<proc, accts, pending, run, lost>> /\ pc = "product"
    BY <1>6 DEF CheckProduct
  <2>2. proc.variant \in {"smoke", "product"} /\ Related(accts, R)
    BY <1>2, <2>1 DEF RunInv, Route
  <2>3. \/ pc' = "over" /\ found' = <<[kind |-> "product"]>>
        \/ pc' \in {"begin", "clean"} /\ UNCHANGED found /\ (pc' = "clean" => proc.variant # "smoke")
    BY <1>6 DEF CheckProduct, Fail
  <2>4. ~Concluding' /\ pc' # "probe" /\ Related(accts', R) /\ pending' = <<>>
    BY <1>2, <2>1, <2>2, <2>3 DEF Concluding, ProbeVariants
  <2>5. found' # <<>> => found'[1].kind \in {"no evidence", "product"}
    <3>1. CASE found' = <<[kind |-> "product"]>>
      BY <3>1
    <3>2. CASE UNCHANGED found
      BY <1>2, <2>1, <3>2
    <3> QED BY <2>3, <3>1, <3>2
  <2> QED BY <2>4, <2>5
<1>7. CASE BeginProbes
  <2>1. /\ run' = [pre |-> accts, probes |-> <<>>] /\ pc = "begin" /\ pc' = "probe"
        /\ UNCHANGED <<proc, accts, pending, found, lost>>
    BY <1>7 DEF BeginProbes, SnapshotPreState
  <2>2. run'.pre = accts /\ Related(accts, R)
    BY <1>2, <2>1
  <2> QED BY <1>2, <2>1, <2>2
<1>8. CASE SendProbe
  <2>1. UNCHANGED <<proc, pending, found, lost, pc>> /\ pc = "probe"
    BY <1>8 DEF SendProbe
  <2>2. run'.pre = run.pre
    <3>1. \E v : run' = [run EXCEPT !.probes = v]
      BY <1>8 DEF SendProbe
    <3>2. run = [pre |-> run.pre, probes |-> run.probes]
      BY DEF RunInv, RunShape
    <3> QED BY <3>1, <3>2
  <2> QED BY <1>2, <2>1, <2>2
<1>9. CASE CheckEvidence
  <2>1. UNCHANGED <<proc, pending, accts, run, lost>> /\ pc = "probe"
    BY <1>9 DEF CheckEvidence
  <2>2. CASE Unfailed(run)
    <3>1. pc' \in {"cost", "parity"} /\ UNCHANGED found
      BY <1>9, <2>2 DEF CheckEvidence, Unfailed
    <3>2. Related(run.pre, R) /\ PairLoaded(a, p)
      BY <1>2, <2>1
    <3>3. <<PostOf(run, Len(run.probes), "anchor"), PostOf(run, Len(run.probes), "pinocchio")>> \in R
      BY <2>2, <3>2, AlikeRun
    <3>4. Related(accts, R)
      BY <2>1, <2>2, <3>3 DEF RunInv, Related, Sides
    <3> QED BY <1>2, <2>1, <3>1, <3>2, <3>4
  <2>3. CASE ~Unfailed(run)
    <3>1. pc' = "over" /\ found' = <<[kind |-> "no evidence"]>>
      BY <1>9, <2>3 DEF CheckEvidence, Unfailed, Fail
    <3> QED BY <1>2, <2>1, <3>1 DEF Concluding
  <2> QED BY <2>2, <2>3
<1>10. CASE CheckParity \/ CheckCost
  <2>1. UNCHANGED <<proc, accts, run, lost>> /\ Concluding /\ pc \in {"parity", "cost"}
    BY <1>10 DEF CheckParity, CheckCost, Conclude, Concluding
  <2>2. Related(run.pre, R) /\ PairLoaded(a, p) /\ Unfailed(run) /\ Related(accts, R)
    BY <1>2, <2>1 DEF RunInv
  <2>3. \A i \in DOMAIN run.probes : ParityAt(i) = <<>> /\ RegressionAt(i) = <<>>
    BY <2>2, AlikeRun
  <2>4. /\ FirstFinding([i \in DOMAIN run.probes |-> ParityAt(i)]) = <<>>
        /\ FirstFinding([i \in DOMAIN run.probes |-> RegressionAt(i)]) = <<>>
    <3> DEFINE x == [i \in DOMAIN run.probes |-> ParityAt(i)]
               y == [i \in DOMAIN run.probes |-> RegressionAt(i)]
    <3>1. /\ DOMAIN x = DOMAIN run.probes /\ \A i \in DOMAIN x : x[i] = <<>>
          /\ DOMAIN y = DOMAIN run.probes /\ \A i \in DOMAIN y : y[i] = <<>>
      BY <2>3
    <3> HIDE DEF x, y
    <3>2. FirstFinding(x) = <<>> /\ FirstFinding(y) = <<>>
      BY <3>1, NothingSaid
    <3> QED BY <3>2 DEF x, y
  <2>5. pc' = "clean" /\ UNCHANGED <<found, pending>>
    BY <1>10, <2>4 DEF CheckParity, CheckCost, Conclude
  <2> QED BY <1>2, <2>1, <2>2, <2>5
<1>11. CASE EmitJson \/ FuzzAssert
  <2>1. UNCHANGED <<proc, lost>> /\ pending # <<>>
    BY <1>11 DEF EmitJson, FuzzAssert, Writing
  <2> QED BY <1>2, <2>1
<1>12. CASE EndBody
  <2>1. UNCHANGED <<proc, accts, pending, found, lost>> /\ pc = "clean" /\ pc' = "loop"
    BY <1>12 DEF EndBody
  <2> QED BY <1>2, <2>1 DEF Concluding
<1>13. CASE NewIteration
  <2>1. accts' = Setup /\ pc' = "loop" /\ found' = <<>> /\ pending' = pending /\ pending = <<>>
    BY <1>13 DEF NewIteration, Writing
  <2> QED BY <1>1, <2>1 DEF Concluding
<1>14. CASE Stop
  BY <1>1, <1>14 DEF Stop, Concluding
<1>15. CASE Restart
  <2>1. accts' = Setup /\ pc' = "loop" /\ found' = <<>> /\ pending' = pending /\ pending = <<>>
    BY <1>15 DEF Restart, Writing, RunInv, AtRest
  <2> QED BY <1>1, <2>1 DEF Concluding
<1>16. CASE Rebuild \/ Take \/ Edit
  <2>1. UNCHANGED <<proc, accts, pending, found, lost, run, pc>>
    BY <1>16 DEF Rebuild, Take, Edit
  <2> QED BY <1>2, <2>1 DEF Concluding
<1> QED BY <1>3, <1>4, <1>5, <1>6, <1>7, <1>8, <1>9, <1>10, <1>11, <1>12, <1>13, <1>14, <1>15,
           <1>16 DEF Next, Harness

AllAlikeInv == \A a, p, R : Alike(a, p, R) => AlikeInv(a, p, R)

\* The pairs that are said to behave alike do.
EquivalentAlike == \A e \in Equivalent : \E R : Alike(e[1], e[2], R)

\* NoFalseDivergence: of programs that behave alike no process ever says that
\* they diverge, if every action reached both.
THEOREM NoFalseDivergenceAlways ==
    ASSUME EquivalentAlike
    PROVE  Spec => []NoFalseDivergence
<1>1. Init => AllAlikeInv
  <2> SUFFICES ASSUME Init, NEW a, NEW p, NEW R, Alike(a, p, R) PROVE AlikeInv(a, p, R)
    BY DEF AllAlikeInv
  <2> QED BY DEF Init, AlikeInv, Alike, Related, Concluding
<1>2. RunInv /\ RunInv' /\ ReaderInv /\ AllAlikeInv /\ [Next]_vars => AllAlikeInv'
  <2> SUFFICES ASSUME RunInv, RunInv', ReaderInv, AllAlikeInv, [Next]_vars,
                      NEW a, NEW p, NEW R, Alike(a, p, R)
               PROVE  AlikeInv(a, p, R)'
    BY DEF AllAlikeInv
  <2>1. Writing /\ AlikeInv(a, p, R)
    BY DEF ReaderInv, AllAlikeInv
  <2> QED BY <2>1, AlikeNext
<1>3. AllAlikeInv => NoFalseDivergence
  <2> SUFFICES ASSUME AllAlikeInv, found # <<>>, ~lost,
                      <<proc.loaded["anchor"], proc.loaded["pinocchio"]>> \in Equivalent
               PROVE  found[1].kind \in {"no evidence", "product"}
    BY DEF NoFalseDivergence
  <2>1. PICK R : Alike(proc.loaded["anchor"], proc.loaded["pinocchio"], R)
    BY DEF EquivalentAlike
  <2>2. AlikeInv(proc.loaded["anchor"], proc.loaded["pinocchio"], R)
    BY <2>1 DEF AllAlikeInv
  <2> QED BY <2>2 DEF AlikeInv, PairLoaded
<1> QED BY <1>1, <1>2, <1>3, RunInvAlways, ReaderInvAlways, PTL DEF Spec

-----------------------------------------------------------------------------
(* What a report says, and of what.                                        *)

Saying(kind, build, label, l, r) ==
    IF kind = "cu" THEN Regression(label, l, r) ELSE ParityOf(build, label, l, r)

\* The accounts a are those of `pre' that are there.
HoldsPre(a, pre) ==
    /\ \A j \in DOMAIN a : \E i \in DOMAIN PairSeq, s \in Sides :
         /\ pre[s][PairSeq[i]] # <<>>
         /\ a[j].label = <<"account", s, PairSeq[i]>>
         /\ a[j].pre.names = pre[s][PairSeq[i]][1]
    /\ \A i \in DOMAIN PairSeq, s \in Sides :
         pre[s][PairSeq[i]] # <<>> =>
            \E j \in DOMAIN a : a[j].label = <<"account", s, PairSeq[i]>>

\* r says of the programs `ran', from the accounts `pre', what is first to say.
SaysFirst(r, ran, pre, kind, i) ==
    LET out == Faithful(ran, pre, ProbeSeq)
        says(j) == Saying(kind, r.tool, Label(j), out[j]["anchor"], out[j]["pinocchio"])
    IN  /\ r.claim.divergences = says(i) /\ says(i) # <<>>
        /\ \A j \in DOMAIN ProbeSeq : j < i => says(j) = <<>>

Claims(r) ==
    r.claim = [schema |-> SCHEMA_VERSION, bundle |-> r.claim.bundle,
               divergences |-> r.claim.divergences]

Stems(r, ran, pre) ==
    LET b == r.claim.bundle
    IN  /\ Claims(r)
        /\ DOMAIN b.programs = 1..2
        /\ b.programs[1].side = "anchor" /\ b.programs[2].side = "pinocchio"
        /\ HoldsPre(b.accounts, pre)
        /\ AsksProbes(b.actions, Len(ProbeSeq))
        /\ \E kind \in {"parity", "cu"}, i \in DOMAIN ProbeSeq : SaysFirst(r, ran, pre, kind, i)

LEMMA BuiltHoldsPre ==
    ASSUME NEW d, NEW a, a = BuildReport(d).claim.bundle.accounts
    PROVE  HoldsPre(a, run.pre)
<1>1. /\ \A j \in DOMAIN a : \E i \in DOMAIN PairSeq, s \in Sides :
                 AccountItem(i, s).present /\ a[j] = AccountItem(i, s)
      /\ \A i \in DOMAIN PairSeq, s \in Sides :
                 AccountItem(i, s).present => \E j \in DOMAIN a : a[j] = AccountItem(i, s)
  BY BuiltAccounts
<1>2. ASSUME NEW i, NEW s
      PROVE  /\ AccountItem(i, s).present <=> run.pre[s][PairSeq[i]] # <<>>
             /\ AccountItem(i, s).label = <<"account", s, PairSeq[i]>>
             /\ run.pre[s][PairSeq[i]] # <<>> =>
                   AccountItem(i, s).pre.names = run.pre[s][PairSeq[i]][1]
  <2> DEFINE x == AccountItem(i, s)
             bytes == IF run.pre[s][PairSeq[i]] # <<>> THEN run.pre[s][PairSeq[i]][1] ELSE <<>>
  <2>1. x = AccountItem(i, s)
    OBVIOUS
  <2> HIDE DEF x
  <2>2. /\ x.label = <<"account", s, PairSeq[i]>>
        /\ x.present <=> run.pre[s][PairSeq[i]] # <<>>
        /\ x.pre = Artifact(bytes)
    BY <2>1, AccountFields
  <2>3. x.pre.names = bytes
    <3> HIDE DEF bytes
    <3> QED BY <2>2, ArtifactMade DEF ArtifactDigest, ArtifactInline
  <2> QED BY <2>1, <2>2, <2>3
<1>3. ASSUME NEW j \in DOMAIN a
      PROVE  \E i \in DOMAIN PairSeq, s \in Sides :
                /\ run.pre[s][PairSeq[i]] # <<>>
                /\ a[j].label = <<"account", s, PairSeq[i]>>
                /\ a[j].pre.names = run.pre[s][PairSeq[i]][1]
  <2>1. PICK i \in DOMAIN PairSeq, s \in Sides :
           AccountItem(i, s).present /\ a[j] = AccountItem(i, s)
    BY <1>1
  <2> QED BY <1>2, <2>1
<1>4. ASSUME NEW i \in DOMAIN PairSeq, NEW s \in Sides, run.pre[s][PairSeq[i]] # <<>>
      PROVE  \E j \in DOMAIN a : a[j].label = <<"account", s, PairSeq[i]>>
  <2>1. PICK j \in DOMAIN a : a[j] = AccountItem(i, s)
    BY <1>1, <1>2, <1>4
  <2> QED BY <1>2, <2>1
<1> QED BY <1>3, <1>4 DEF HoldsPre

\* What is written stems from the run it was written after.
LEMMA ReportStems ==
    ASSUME RunInv, CheckParity \/ CheckCost, pc' = "json"
    PROVE  pending' # <<>> /\ Stems(pending'[1], proc.loaded, run.pre)
<1> DEFINE kind == IF pc = "cost" THEN "cu" ELSE "parity"
           n == Len(ProbeSeq)
           said(i) == IF kind = "cu" THEN SaidCost(i, run.probes[i])
                      ELSE SaidParity(proc.build, i, run.probes[i])
           says == [i \in DOMAIN run.probes |-> said(i)]
           d == FirstFinding(says)
           r == BuildReport(d)
           b == r.claim.bundle
           out == Faithful(proc.loaded, run.pre, ProbeSeq)
<1>1. Concluding /\ n \in Nat /\ DOMAIN ProbeSeq = 1..n
      /\ Len(run.probes) = n /\ DOMAIN run.probes = 1..n
      /\ \A i \in 1..n : run.probes[i].amount = ProbeSeq[i]
  <2>1. Concluding
    BY DEF CheckParity, CheckCost, Concluding
  <2>2. n \in Nat /\ DOMAIN ProbeSeq = 1..n
    BY DifferentialAssumption DEF DifferentialAssumption
  <2>3. Len(run.probes) = n /\ DOMAIN run.probes = 1..n
    BY <2>1, SequenceLength DEF RunInv, RunShape
  <2> QED BY <2>1, <2>2, <2>3 DEF RunInv, RunShape
<1>2. /\ pc = "parity" => [i \in DOMAIN run.probes |-> ParityAt(i)] = says
      /\ pc = "cost" => [i \in DOMAIN run.probes |-> RegressionAt(i)] = says
  BY SaidOf
<1>3. Conclude(d) /\ d # <<>> /\ pending' = <<r>>
  <2>1. Conclude(d)
    BY <1>2 DEF CheckParity, CheckCost
  <2> HIDE DEF d
  <2>2. d # <<>> /\ pending' = <<r>>
    BY <2>1 DEF Conclude, Fail
  <2> QED BY <2>1, <2>2
<1>4. FirstOf(d, says)
  <2>1. DOMAIN says \subseteq Nat
    BY ProbesNumbered
  <2> HIDE DEF says
  <2> QED BY <2>1, FirstFindingMeans
<1>5. /\ DOMAIN out = 1..n
      /\ \A i \in 1..n : /\ ~SendFailed(run.probes[i])
                         /\ \A s \in Sides : out[i][s] = run.probes[i].result[s][1]
  <2>1. /\ DOMAIN out = DOMAIN run.probes
        /\ \A i \in DOMAIN run.probes :
              /\ ~SendFailed(run.probes[i])
              /\ \A s \in Sides : out[i][s] = Outcomes(i)[s]
    BY <1>1, RunIsFaithful
  <2>2. \A i : \A s \in Sides : Outcomes(i)[s] = run.probes[i].result[s][1]
    BY DEF Outcomes
  <2> HIDE DEF out
  <2> QED BY <1>1, <2>1, <2>2
<1> HIDE DEF d, out, says
<1>6. r.tool = proc.build /\ r.claim.divergences = d /\ Claims(r)
  BY DEF BuildReport, Claims
<1>7. ASSUME NEW i \in 1..n
      PROVE  said(i) = Saying(kind, r.tool, Label(i), out[i]["anchor"], out[i]["pinocchio"])
  <2>1. ~SendFailed(run.probes[i]) /\ r.tool = proc.build
    BY <1>5, <1>6
  <2>2. /\ out[i]["anchor"] = run.probes[i].result["anchor"][1]
        /\ out[i]["pinocchio"] = run.probes[i].result["pinocchio"][1]
    BY <1>5 DEF Sides
  <2> HIDE DEF r, kind
  <2> QED BY <2>1, <2>2 DEF Saying, SaidCost, SaidParity
<1>8. \E i \in DOMAIN ProbeSeq : SaysFirst(r, proc.loaded, run.pre, kind, i)
  <2>1. PICK i \in DOMAIN says : d = says[i] /\ \A j \in DOMAIN says : j < i => says[j] = <<>>
    BY <1>3, <1>4 DEF FirstOf
  <2>2. DOMAIN says = 1..n /\ \A j \in 1..n : says[j] = said(j)
    BY <1>1 DEF says
  <2> HIDE DEF said, r, kind
  <2>3. /\ d = Saying(kind, r.tool, Label(i), out[i]["anchor"], out[i]["pinocchio"])
        /\ \A j \in 1..n : j < i =>
              Saying(kind, r.tool, Label(j), out[j]["anchor"], out[j]["pinocchio"]) = <<>>
    BY <1>7, <2>1, <2>2
  <2>4. i \in DOMAIN ProbeSeq /\ DOMAIN ProbeSeq = 1..n
    BY <1>1, <2>1, <2>2
  <2>5. SaysFirst(r, proc.loaded, run.pre, kind, i)
    BY <1>3, <1>6, <2>3, <2>4 DEF SaysFirst, out
  <2> QED BY <2>4, <2>5
<1>9. DOMAIN b.programs = 1..2 /\ b.programs[1].side = "anchor" /\ b.programs[2].side = "pinocchio"
  <2> DEFINE p == b.programs
  <2>1. p = BuildReport(d).claim.bundle.programs
    OBVIOUS
  <2> HIDE DEF p
  <2>2. DOMAIN p = 1..2 /\ p[1] = ProgramItem(1, "anchor") /\ p[2] = ProgramItem(1, "pinocchio")
    BY <2>1, BuiltPrograms
  <2>3. p[1].side = "anchor" /\ p[2].side = "pinocchio"
    BY <2>2 DEF ProgramItem
  <2> QED BY <2>2, <2>3 DEF p
<1>10. HoldsPre(b.accounts, run.pre)
  <2> DEFINE a == b.accounts
  <2>1. a = BuildReport(d).claim.bundle.accounts
    OBVIOUS
  <2> HIDE DEF a
  <2>2. HoldsPre(a, run.pre)
    BY <2>1, BuiltHoldsPre
  <2> QED BY <2>2 DEF a
<1>11. AsksProbes(b.actions, Len(ProbeSeq))
  <2> DEFINE a == b.actions
  <2>1. a = BuildReport(d).claim.bundle.actions
    OBVIOUS
  <2> HIDE DEF a, n
  <2>2. AsksProbes(a, n)
    BY <1>1, <2>1, BuiltActions
  <2> QED BY <2>2 DEF a, n
<1>12. pending'[1] = r /\ pending' # <<>>
  BY <1>3
<1>13. kind \in {"parity", "cu"}
  OBVIOUS
<1> HIDE DEF r, kind
<1>14. Stems(r, proc.loaded, run.pre)
  BY <1>6, <1>8, <1>9, <1>10, <1>11, <1>13 DEF Stems
<1> QED BY <1>12, <1>14

\* What every report says, whatever it is of: one thing.
Shaped(r) ==
    /\ Claims(r)
    /\ r.claim.divergences # <<>>
    /\ \E kind \in {"parity", "cu"} : \E build, label, a, p :
          r.claim.divergences = Saying(kind, build, label, a, p)

LEMMA StemsShaped ==
    ASSUME NEW r, NEW ran, NEW pre, Stems(r, ran, pre)
    PROVE  Shaped(r)
BY DEF Stems, SaysFirst, Shaped

\* Where reports are written: of the run, if P holds of what stems from it.
ShapedInv ==
    /\ pending # <<>> => Shaped(pending[1])
    /\ \A e \in reports : Shaped(e.report)

LEMMA ShapedNext == RunInv /\ Writing /\ ShapedInv /\ [Next]_vars => ShapedInv'
<1> SUFFICES ASSUME RunInv, Writing, ShapedInv, [Next]_vars PROVE ShapedInv'
  OBVIOUS
<1> USE DEF environment, files
<1>1. CASE UNCHANGED <<pending, reports>> \/ (pending' = <<>> /\ UNCHANGED reports)
  BY <1>1 DEF ShapedInv
<1>2. CASE UNCHANGED vars \/ FuzzAction \/ CheckPairs \/ CheckProduct \/ BeginProbes \/ SendProbe
             \/ CheckEvidence \/ EndBody \/ NewIteration \/ Restart \/ Rebuild \/ Take \/ Edit
  <2>1. UNCHANGED <<pending, reports>>
    BY <1>2 DEF vars, FuzzAction, CheckPairs, CheckProduct, BeginProbes, SendProbe, CheckEvidence,
                EndBody, NewIteration, Restart, Rebuild, Take, Edit
  <2> QED BY <1>1, <2>1
<1>3. CASE FuzzAssert \/ Stop
  BY <1>1, <1>3 DEF FuzzAssert, Stop
<1>4. CASE CheckParity \/ CheckCost
  <2>1. PICK d : Conclude(d)
    BY <1>4 DEF CheckParity, CheckCost
  <2>2. UNCHANGED reports /\ (pc' = "json" \/ UNCHANGED pending)
    BY <2>1 DEF Conclude
  <2>3. CASE pc' = "json"
    BY <1>4, <2>2, <2>3, ReportStems, StemsShaped DEF ShapedInv
  <2> QED BY <1>1, <2>2, <2>3
<1>5. CASE EmitJson
  <2>1. /\ pending # <<>> /\ UNCHANGED pending
        /\ reports' = reports \cup {[report |-> pending[1], ran |-> proc.loaded]}
    BY <1>5 DEF EmitJson, Writing
  <2> QED BY <2>1 DEF ShapedInv
<1> QED BY <1>2, <1>3, <1>4, <1>5 DEF Next, Harness

\* The sides of a finding.
Succeeded == [ok |-> TRUE, code |-> <<>>, reason |-> <<>>]
Refused(code, form, text) ==
    [ok |-> FALSE, code |-> code, reason |-> <<[form |-> form, text |-> text]>>]

LEMMA SideForms ==
    ASSUME NEW build, NEW o
    PROVE  SideOf(build, o) = IF o.ok THEN Succeeded
                              ELSE IF o.code # <<>> THEN Refused(o.code, "custom", o.code)
                              ELSE Refused(<<>>, "builtin", <<o.variant, build>>)
BY DEF SideOf, Succeeded, Refused

LEMMA RefusedParts ==
    ASSUME NEW c, NEW f, NEW t, NEW x, x = Refused(c, f, t)
    PROVE  /\ x.code = c /\ x.reason # <<>> /\ x.reason[1].form = f /\ x.reason[1].text = t
           /\ x # Succeeded
           /\ Unbuilt(x) = Refused(c, f, t[1])
<1> DEFINE why == <<[form |-> f, text |-> t]>>
<1>1. x = [ok |-> FALSE, code |-> c, reason |-> why] /\ why # <<>> /\ why[1].form = f /\ why[1].text = t
  BY DEF Refused
<1> HIDE DEF why
<1>2. x.ok = FALSE /\ x.code = c /\ x.reason = why
  BY <1>1
<1>3. x # Succeeded
  BY <1>2 DEF Succeeded
<1>4. Unbuilt(x) = [x EXCEPT !.reason = <<[form |-> f, text |-> t[1]]>>]
  BY <1>1, <1>2 DEF Unbuilt
<1> DEFINE less == <<[form |-> f, text |-> t[1]]>>
<1>5. Refused(c, f, t[1]) = [ok |-> FALSE, code |-> c, reason |-> less]
  BY DEF Refused
<1> HIDE DEF less
<1>6. [x EXCEPT !.reason = less] = [ok |-> FALSE, code |-> c, reason |-> less]
  <2>1. x = [ok |-> FALSE, code |-> c, reason |-> why]
    BY <1>1
  <2> DEFINE z == [ok |-> FALSE, code |-> c, reason |-> why]
  <2>2. [z EXCEPT !.reason = less] = [ok |-> FALSE, code |-> c, reason |-> less]
    <3> DEFINE no == FALSE
    <3> HIDE DEF no
    <3>1. [[ok |-> no, code |-> c, reason |-> why] EXCEPT !.reason = less]
            = [ok |-> no, code |-> c, reason |-> less]
      OBVIOUS
    <3> QED BY <3>1, Zenon DEF no
  <2>3. x = z
    BY <2>1
  <2> HIDE DEF z
  <2> QED BY <2>2, <2>3, Zenon
<1> QED BY <1>1, <1>2, <1>3, <1>4, <1>5, <1>6 DEF less

LEMMA SucceededUnbuilt == Unbuilt(Succeeded) = Succeeded /\ Succeeded.reason = <<>>
BY DEF Unbuilt, Succeeded

\* Unless a side has a token that a build puts there, it is told by the rest.
LEMMA UnbuiltTells ==
    ASSUME NEW b1, NEW o1, NEW x, x = SideOf(b1, o1),
           NEW b2, NEW o2, NEW y, y = SideOf(b2, o2),
           Unbuilt(x) = Unbuilt(y), ~(x.reason # <<>> /\ x.reason[1].form = "builtin")
    PROVE  x = y
<1>1. x = Succeeded \/ \E c : x = Refused(c, "custom", c)
  <2>1. CASE ~o1.ok /\ o1.code = <<>>
    <3>1. x = Refused(<<>>, "builtin", <<o1.variant, b1>>)
      BY <2>1, SideForms
    <3> QED BY <3>1, RefusedParts
  <2> QED BY <2>1, SideForms
<1>2. y = Succeeded \/ (\E c : y = Refused(c, "custom", c)) \/ \E t : y = Refused(<<>>, "builtin", t)
  BY SideForms
<1>3. CASE x = Succeeded
  <2>1. Unbuilt(y) = Succeeded
    BY <1>3, SucceededUnbuilt
  <2>2. ASSUME NEW c, NEW f, NEW t, y = Refused(c, f, t) PROVE FALSE
    <3>1. Unbuilt(y) = Refused(c, f, t[1])
      BY <2>2, RefusedParts
    <3> QED BY <2>1, <3>1, RefusedParts
  <2> QED BY <1>2, <1>3, <2>2
<1>4. ASSUME NEW c, x = Refused(c, "custom", c) PROVE x = y
  <2>1. Unbuilt(x) = Refused(c, "custom", c[1])
    BY <1>4, RefusedParts
  <2>2. y # Succeeded
    <3>1. Unbuilt(x) # Succeeded
      BY <2>1, RefusedParts
    <3>2. Unbuilt(y) # Succeeded
      BY <3>1
    <3> QED BY <3>2, SucceededUnbuilt
  <2>3. ASSUME NEW d, NEW f, NEW t, y = Refused(d, f, t) PROVE d = c /\ f = "custom"
    <3>1. Refused(d, f, t[1]) = Refused(c, "custom", c[1])
      <4>1. Unbuilt(y) = Refused(d, f, t[1])
        BY <2>3, RefusedParts
      <4> QED BY <2>1, <4>1
    <3>2. Refused(d, f, t[1]).code = d /\ Refused(d, f, t[1]).reason[1].form = f
      BY RefusedParts
    <3>3. Refused(c, "custom", c[1]).code = c /\ Refused(c, "custom", c[1]).reason[1].form = "custom"
      BY RefusedParts
    <3> QED BY <3>1, <3>2, <3>3
  <2>4. ASSUME NEW t, y = Refused(<<>>, "builtin", t) PROVE FALSE
    <3>1. "builtin" = "custom"
      BY <2>3, <2>4
    <3> QED BY <3>1
  <2>5. PICK d : y = Refused(d, "custom", d)
    BY <1>2, <2>2, <2>4
  <2> QED BY <1>4, <2>3, <2>5
<1> QED BY <1>1, <1>3, <1>4

\* What is said, and what is left of it without the build's part.
SaysOne(d, kind, build, label, a, p) ==
    /\ DOMAIN d = {1} /\ d = <<d[1]>> /\ d[1].kind = kind
    /\ d[1] = [kind |-> kind, label |-> label, left |-> d[1].left, right |-> d[1].right]
    /\ kind = "cu" => /\ Plain(d[1]) = d[1]
                      /\ d[1].left = a.cu /\ d[1].right = p.cu
                      /\ a.cu # <<>> /\ p.cu # <<>> /\ p.cu[1] > a.cu[1]
    /\ kind = "parity" =>
          /\ d[1].left = SideOf(build, a) /\ d[1].right = SideOf(build, p)
          /\ SideOf(build, a) # SideOf(build, p)
          /\ Plain(d[1]) = [kind |-> kind, label |-> label,
                            left |-> Unbuilt(SideOf(build, a)),
                            right |-> Unbuilt(SideOf(build, p))]

LEMMA SayingForms ==
    ASSUME NEW kind \in {"parity", "cu"}, NEW build, NEW label, NEW a, NEW p,
           NEW d, d = Saying(kind, build, label, a, p), d # <<>>
    PROVE  SaysOne(d, kind, build, label, a, p)
<1>1. CASE kind = "cu"
  <2> DEFINE l == a.cu
             r == p.cu
             x == [kind |-> kind, label |-> label, left |-> l, right |-> r]
  <2>1. d = <<x>> /\ l # <<>> /\ r # <<>> /\ r[1] > l[1]
    BY <1>1 DEF Saying, Regression
  <2> HIDE DEF l, r
  <2>2. d[1] = x /\ x.kind = kind /\ x.left = l /\ x.right = r /\ DOMAIN d = {1} /\ d = <<d[1]>>
    BY <2>1
  <2>3. Plain(d[1]) = d[1]
    BY <1>1, <2>2 DEF Plain
  <2> QED BY <1>1, <2>1, <2>2, <2>3 DEF l, r, SaysOne
<1>2. CASE kind = "parity"
  <2> DEFINE l == SideOf(build, a)
             r == SideOf(build, p)
             x == [kind |-> kind, label |-> label, left |-> l, right |-> r]
  <2>1. d = <<x>> /\ l # r
    BY <1>2 DEF Saying, ParityOf
  <2> HIDE DEF l, r
  <2>2. d[1] = x /\ x.kind = kind /\ x.left = l /\ x.right = r /\ DOMAIN d = {1} /\ d = <<d[1]>>
    BY <2>1
  <2>3. Plain(d[1]) = [kind |-> kind, label |-> label, left |-> Unbuilt(l), right |-> Unbuilt(r)]
    <3>1. d[1].kind = "parity" /\ d[1].label = label /\ d[1].left = l /\ d[1].right = r
      BY <1>2, <2>2
    <3> QED BY <1>2, <3>1 DEF Plain
  <2> QED BY <1>2, <2>1, <2>2, <2>3 DEF l, r, SaysOne
<1> QED BY <1>1, <1>2

LEMMA SayingSingle ==
    ASSUME NEW kind, NEW build, NEW label, NEW a, NEW p, Saying(kind, build, label, a, p) # <<>>
    PROVE  DOMAIN Saying(kind, build, label, a, p) = {1}
BY DEF Saying, Regression, ParityOf

\* Two things said that are the same but for what builds put there are the
\* same, if there is no such thing in the first.
LEMMA PlainTells ==
    ASSUME NEW k1 \in {"parity", "cu"}, NEW b1, NEW l1, NEW a1, NEW p1,
           NEW d, d = Saying(k1, b1, l1, a1, p1), d # <<>>,
           NEW k2 \in {"parity", "cu"}, NEW b2, NEW l2, NEW a2, NEW p2,
           NEW f, f = Saying(k2, b2, l2, a2, p2), f # <<>>,
           Plain(d[1]) = Plain(f[1]), ~HasBuildScopedToken(d[1])
    PROVE  d = f
<1> DEFINE x == d[1]
           y == f[1]
<1>1. /\ d = <<x>> /\ x.kind = k1
      /\ x = [kind |-> k1, label |-> l1, left |-> x.left, right |-> x.right]
      /\ k1 = "cu" => Plain(x) = x
      /\ k1 = "parity" =>
            /\ x.left = SideOf(b1, a1) /\ x.right = SideOf(b1, p1)
            /\ Plain(x) = [kind |-> k1, label |-> l1,
                           left |-> Unbuilt(SideOf(b1, a1)), right |-> Unbuilt(SideOf(b1, p1))]
  BY SayingForms DEF SaysOne
<1>2. /\ f = <<y>> /\ y.kind = k2
      /\ y = [kind |-> k2, label |-> l2, left |-> y.left, right |-> y.right]
      /\ k2 = "cu" => Plain(y) = y
      /\ k2 = "parity" =>
            /\ y.left = SideOf(b2, a2) /\ y.right = SideOf(b2, p2)
            /\ Plain(y) = [kind |-> k2, label |-> l2,
                           left |-> Unbuilt(SideOf(b2, a2)), right |-> Unbuilt(SideOf(b2, p2))]
  BY SayingForms DEF SaysOne
<1>3. Plain(x) = Plain(y) /\ ~HasBuildScopedToken(x)
  OBVIOUS
<1> HIDE DEF x, y
<1>4. Plain(x).kind = k1 /\ Plain(y).kind = k2
  <2>1. Plain(x).kind = k1
    BY <1>1
  <2>2. Plain(y).kind = k2
    BY <1>2
  <2> QED BY <2>1, <2>2
<1>5. CASE k1 = "cu"
  BY <1>1, <1>2, <1>3, <1>4, <1>5
<1>6. CASE k1 = "parity"
  <2>1. k2 = "parity"
    BY <1>3, <1>4, <1>6
  <2>2. /\ ~(x.left.reason # <<>> /\ x.left.reason[1].form = "builtin")
        /\ ~(x.right.reason # <<>> /\ x.right.reason[1].form = "builtin")
    BY <1>1, <1>3, <1>6 DEF HasBuildScopedToken
  <2> DEFINE ua == Unbuilt(SideOf(b1, a1))
             up == Unbuilt(SideOf(b1, p1))
             va == Unbuilt(SideOf(b2, a2))
             vp == Unbuilt(SideOf(b2, p2))
  <2>3. [kind |-> k1, label |-> l1, left |-> ua, right |-> up]
          = [kind |-> k2, label |-> l2, left |-> va, right |-> vp]
    BY <1>1, <1>2, <1>3, <1>6, <2>1
  <2>4. l1 = l2 /\ ua = va /\ up = vp
    <3> HIDE DEF ua, up, va, vp
    <3> QED BY <2>3
  <2>5. x.left = y.left
    <3>1. x.left = SideOf(b1, a1) /\ y.left = SideOf(b2, a2) /\ Unbuilt(x.left) = Unbuilt(y.left)
      BY <1>1, <1>2, <1>6, <2>1, <2>4
    <3> QED BY <2>2, <3>1, UnbuiltTells
  <2>6. x.right = y.right
    <3>1. x.right = SideOf(b1, p1) /\ y.right = SideOf(b2, p2) /\ Unbuilt(x.right) = Unbuilt(y.right)
      BY <1>1, <1>2, <1>6, <2>1, <2>4
    <3> QED BY <2>2, <3>1, UnbuiltTells
  <2>7. x = y
    BY <1>1, <1>2, <1>6, <2>1, <2>4, <2>5, <2>6
  <2> QED BY <1>1, <1>2, <2>7
<1> QED BY <1>5, <1>6

\* PortableNamesFinding: whatever toolchains two reports are of, a claim that
\* is called portable has one digest for one finding.
THEOREM PortableNamesFindingAlways == Spec => []PortableNamesFinding
<1>1. Init => ShapedInv
  BY DEF Init, ShapedInv
<1>2. RunInv /\ ReaderInv /\ ShapedInv /\ [Next]_vars => ShapedInv'
  BY ShapedNext DEF ReaderInv
<1>3. ShapedInv => PortableNamesFinding
  <2> SUFFICES ASSUME ShapedInv, NEW e \in reports, NEW g \in reports,
                      Finding(e.report) = Finding(g.report), ClaimDigestIsPortable(e.report)
               PROVE  ClaimDigest(e.report) = ClaimDigest(g.report)
    BY DEF PortableNamesFinding
  <2> DEFINE r == e.report
             q == g.report
             d == r.claim.divergences
             f == q.claim.divergences
  <2>1. Shaped(r) /\ Shaped(q)
    BY DEF ShapedInv
  <2>2. Finding(r) = Finding(q) /\ ClaimDigestIsPortable(r)
    OBVIOUS
  <2> HIDE DEF r, q
  <2>3. PICK k1 \in {"parity", "cu"} : \E b1, l1, a1, p1 : d = Saying(k1, b1, l1, a1, p1)
    BY <2>1 DEF Shaped
  <2>4. PICK b1, l1, a1, p1 : d = Saying(k1, b1, l1, a1, p1)
    BY <2>3
  <2>5. PICK k2 \in {"parity", "cu"} : \E b2, l2, a2, p2 : f = Saying(k2, b2, l2, a2, p2)
    BY <2>1 DEF Shaped
  <2>6. PICK b2, l2, a2, p2 : f = Saying(k2, b2, l2, a2, p2)
    BY <2>5
  <2>7. d # <<>> /\ f # <<>>
    BY <2>1 DEF Shaped
  <2>8. DOMAIN d = {1} /\ DOMAIN f = {1}
    <3> HIDE DEF d, f
    <3>1. DOMAIN d = {1}
      BY <2>4, <2>7, SayingSingle
    <3>2. DOMAIN f = {1}
      BY <2>6, <2>7, SayingSingle
    <3> QED BY <3>1, <3>2
  <2>9. r.claim.bundle = q.claim.bundle /\ Plain(d[1]) = Plain(f[1])
    <3> DEFINE pd == [i \in DOMAIN d |-> Plain(d[i])]
               pf == [i \in DOMAIN f |-> Plain(f[i])]
    <3>1. [bundle |-> r.claim.bundle, divergences |-> pd] = [bundle |-> q.claim.bundle, divergences |-> pf]
      BY <2>2 DEF Finding
    <3>2. pd[1] = Plain(d[1]) /\ pf[1] = Plain(f[1])
      BY <2>8
    <3> HIDE DEF pd, pf
    <3> QED BY <3>1, <3>2
  <2>10. ~HasBuildScopedToken(d[1])
    BY <2>2, <2>8 DEF ClaimDigestIsPortable
  <2> HIDE DEF d, f
  <2>11. d = f
    BY <2>4, <2>6, <2>7, <2>9, <2>10, PlainTells
  <2>12. r.claim = q.claim
    BY <2>1, <2>9, <2>11 DEF Shaped, Claims, d, f
  <2> QED BY <2>12 DEF ClaimDigest, r, q
<1> QED BY <1>1, <1>2, <1>3, RunInvAlways, ReaderInvAlways, PTL DEF Spec

-----------------------------------------------------------------------------
(* Replaying a report.                                                     *)

LEMMA SideSucceeds ==
    ASSUME NEW b, NEW o
    PROVE  SideOf(b, o) = Succeeded <=> o.ok
<1>1. CASE o.ok
  BY <1>1, SideForms
<1>2. ASSUME NEW c, NEW f, NEW t PROVE Refused(c, f, t) # Succeeded
  BY RefusedParts
<1>3. CASE ~o.ok
  BY <1>2, <1>3, SideForms
<1> QED BY <1>1, <1>3

LEMMA ParityPlain ==
    ASSUME NEW build, NEW label, NEW a, NEW p, NEW l, l = Unbuilt(SideOf(build, a)),
           NEW r, r = Unbuilt(SideOf(build, p)), ParityOf(build, label, a, p) # <<>>
    PROVE  Plain(ParityOf(build, label, a, p)[1])
             = [kind |-> "parity", label |-> label, left |-> l, right |-> r]
<1> DEFINE x == [kind |-> "parity", label |-> label, left |-> SideOf(build, a), right |-> SideOf(build, p)]
<1>1. ParityOf(build, label, a, p)[1] = x
  BY DEF ParityOf
<1>2. x.kind = "parity" /\ x.label = label /\ x.left = SideOf(build, a) /\ x.right = SideOf(build, p)
  OBVIOUS
<1> HIDE DEF x
<1> QED BY <1>1, <1>2 DEF Plain

\* What builds put aside, the same is said by all of them.
LEMMA SayingAnywhere ==
    ASSUME NEW kind \in {"parity", "cu"}, NEW b1, NEW b2, NEW label, NEW a, NEW p,
           NEW d, d = Saying(kind, b1, label, a, p), NEW f, f = Saying(kind, b2, label, a, p)
    PROVE  /\ d = <<>> <=> f = <<>>
           /\ d # <<>> => Plain(d[1]) = Plain(f[1])
<1>1. CASE kind = "cu"
  BY <1>1 DEF Saying
<1>2. CASE kind = "parity"
  <2>1. ASSUME NEW o PROVE Unbuilt(SideOf(b1, o)) = Unbuilt(SideOf(b2, o))
    <3>1. CASE o.ok \/ o.code # <<>>
      BY <3>1, SideForms
    <3>2. CASE ~o.ok /\ o.code = <<>>
      <4> DEFINE t1 == <<o.variant, b1>>
                 t2 == <<o.variant, b2>>
      <4>1. SideOf(b1, o) = Refused(<<>>, "builtin", t1) /\ SideOf(b2, o) = Refused(<<>>, "builtin", t2)
        BY <3>2, SideForms
      <4>2. t1[1] = t2[1]
        OBVIOUS
      <4> HIDE DEF t1, t2
      <4>3. /\ Unbuilt(SideOf(b1, o)) = Refused(<<>>, "builtin", t1[1])
            /\ Unbuilt(SideOf(b2, o)) = Refused(<<>>, "builtin", t2[1])
        BY <4>1, RefusedParts
      <4> QED BY <4>2, <4>3
    <3> QED BY <3>1, <3>2
  <2>2. ASSUME NEW b \in {b1, b2}, NEW c \in {b1, b2}, SideOf(b, a) = SideOf(b, p)
        PROVE  SideOf(c, a) = SideOf(c, p)
    <3>1. CASE a.ok
      <4>1. p.ok
        BY <2>2, <3>1, SideSucceeds
      <4> QED BY <3>1, <4>1, SideForms
    <3>2. CASE p.ok
      <4>1. a.ok
        BY <2>2, <3>2, SideSucceeds
      <4> QED BY <3>2, <4>1, SideForms
    <3>3. CASE ~a.ok /\ ~p.ok
      <4> DEFINE fa == IF a.code # <<>> THEN "custom" ELSE "builtin"
                 fp == IF p.code # <<>> THEN "custom" ELSE "builtin"
                 ta(x) == IF a.code # <<>> THEN a.code ELSE <<a.variant, x>>
                 tp(x) == IF p.code # <<>> THEN p.code ELSE <<p.variant, x>>
      <4>1. \A x : SideOf(x, a) = Refused(a.code, fa, ta(x)) /\ SideOf(x, p) = Refused(p.code, fp, tp(x))
        BY <3>3, SideForms
      <4> HIDE DEF fa, fp, ta, tp
      <4>2. a.code = p.code /\ fa = fp /\ ta(b) = tp(b)
        <5>1. Refused(a.code, fa, ta(b)) = Refused(p.code, fp, tp(b))
          BY <2>2, <4>1
        <5>2. /\ Refused(a.code, fa, ta(b)).code = a.code
              /\ Refused(a.code, fa, ta(b)).reason[1].form = fa
              /\ Refused(a.code, fa, ta(b)).reason[1].text = ta(b)
          BY RefusedParts
        <5>3. /\ Refused(p.code, fp, tp(b)).code = p.code
              /\ Refused(p.code, fp, tp(b)).reason[1].form = fp
              /\ Refused(p.code, fp, tp(b)).reason[1].text = tp(b)
          BY RefusedParts
        <5> QED BY <5>1, <5>2, <5>3
      <4>3. ta(c) = tp(c)
        BY <4>2 DEF ta, tp
      <4> QED BY <4>1, <4>2, <4>3
    <3> QED BY <3>1, <3>2, <3>3
  <2>3. d = <<>> <=> f = <<>>
    BY <1>2, <2>2 DEF Saying, ParityOf
  <2>4. d # <<>> => Plain(d[1]) = Plain(f[1])
    <3> SUFFICES ASSUME d # <<>> PROVE Plain(d[1]) = Plain(f[1])
      OBVIOUS
    <3> DEFINE l == Unbuilt(SideOf(b1, a))
               r == Unbuilt(SideOf(b1, p))
    <3>1. l = Unbuilt(SideOf(b2, a)) /\ r = Unbuilt(SideOf(b2, p))
      BY <2>1
    <3>2. l = Unbuilt(SideOf(b1, a)) /\ r = Unbuilt(SideOf(b1, p))
      OBVIOUS
    <3> HIDE DEF l, r
    <3>3. d = ParityOf(b1, label, a, p) /\ f = ParityOf(b2, label, a, p) /\ d # <<>> /\ f # <<>>
      BY <1>2, <2>3 DEF Saying
    <3>4. Plain(ParityOf(b1, label, a, p)[1])
            = [kind |-> "parity", label |-> label, left |-> l, right |-> r]
      BY <3>2, <3>3, ParityPlain
    <3>5. Plain(ParityOf(b2, label, a, p)[1])
            = [kind |-> "parity", label |-> label, left |-> l, right |-> r]
      BY <3>1, <3>3, ParityPlain
    <3> QED BY <3>3, <3>4, <3>5
  <2> QED BY <2>3, <2>4
<1> QED BY <1>1, <1>2

\* Every run has a course.
LEMMA CourseExists ==
    ASSUME NEW ran, NEW pre, NEW amounts, NEW n \in Nat, Len(amounts) = n
    PROVE  IsCourse(Course(ran, pre, amounts), ran, pre, amounts, n)
<1> DEFINE P == {m \in 0..n : \E f : IsCourse(f, ran, pre, amounts, m)}
<1>1. 0 \in P
  <2>1. IsCourse([i \in 0..0 |-> pre], ran, pre, amounts, 0)
    BY DEF IsCourse
  <2> QED BY <2>1
<1>2. ASSUME NEW m \in 1..n, m - 1 \in P PROVE m \in P
  <2>1. PICK f : IsCourse(f, ran, pre, amounts, m - 1)
    BY <1>2
  <2> DEFINE v == [s \in Sides |-> Exec(s, ran[s], f[m - 1][s], amounts[m]).post]
             g == [i \in 0..m |-> IF i = m THEN v ELSE f[i]]
  <2>2. g[0] = pre /\ g = [i \in 0..m |-> g[i]]
    BY <2>1 DEF IsCourse
  <2>3. ASSUME NEW i \in 1..m
        PROVE  g[i] = [s \in Sides |-> Exec(s, ran[s], g[i - 1][s], amounts[i]).post]
    <3>1. CASE i = m
      <4> HIDE DEF v
      <4>1. g[i] = v /\ g[i - 1] = f[m - 1]
        BY <3>1
      <4> QED BY <3>1, <4>1 DEF v
    <3>2. CASE i # m
      <4> HIDE DEF v
      <4>1. i \in 1..(m - 1) /\ g[i] = f[i] /\ g[i - 1] = f[i - 1]
        BY <3>2
      <4> HIDE DEF g
      <4> QED BY <2>1, <4>1 DEF IsCourse
    <3> QED BY <3>1, <3>2
  <2> HIDE DEF g
  <2>4. IsCourse(g, ran, pre, amounts, m)
    BY <2>2, <2>3 DEF IsCourse
  <2> QED BY <2>4
<1> HIDE DEF P
<1>3. \A m \in 0..n : m \in P
  BY <1>1, <1>2, UpTo
<1>4. PICK f : IsCourse(f, ran, pre, amounts, n)
  BY <1>3 DEF P
<1> QED BY <1>4, CourseIs

\* A sequence of no more than one item, and of some.
LEMMA Single ==
    ASSUME NEW T, NEW o \in Seq(T), Len(o) <= 1, o # <<>>
    PROVE  o = <<o[1]>>
<1>1. Len(o) \in Nat /\ o \in [1..Len(o) -> T]
  OBVIOUS
<1>2. Len(o) # 0
  OBVIOUS
<1>3. Len(o) = 1
  BY <1>1, <1>2
<1> QED BY <1>3

\* What a reader restores from a whole bundle is what the process started from.
LEMMA CarriedPre ==
    ASSUME NEW b, NEW pre, HoldsPre(b.accounts, pre),
           \A j \in DOMAIN b.accounts : IsCarried(b.accounts[j].pre) /\ IsIntact(b.accounts[j].pre),
           NEW s \in Sides, pre[s] \in AccountStates
    PROVE  CarriedAccounts(b, s) = pre[s]
<1> DEFINE at(q) == {j \in DOMAIN b.accounts : b.accounts[j].label = <<"account", s, q>>}
           had(q) == IF at(q) = {} THEN <<>> ELSE Bytes(b.accounts[CHOOSE j \in at(q) : TRUE].pre)
<1>1. CarriedAccounts(b, s) = [q \in Pairs |-> had(q)]
  BY DEF CarriedAccounts
<1>2. pre[s] = [q \in Pairs |-> pre[s][q]]
  BY DEF AccountStates
<1>3. ASSUME NEW q \in Pairs PROVE had(q) = pre[s][q]
  <2>1. pre[s][q] \in Seq(Seq(Nat)) /\ Len(pre[s][q]) <= 1
    BY DEF AccountStates
  <2>2. ASSUME NEW j \in at(q)
        PROVE  pre[s][q] # <<>> /\ Bytes(b.accounts[j].pre) = <<pre[s][q][1]>>
    <3>1. PICK i \in DOMAIN PairSeq, t \in Sides :
            /\ pre[t][PairSeq[i]] # <<>>
            /\ b.accounts[j].label = <<"account", t, PairSeq[i]>>
            /\ b.accounts[j].pre.names = pre[t][PairSeq[i]][1]
      BY DEF HoldsPre
    <3>2. t = s /\ PairSeq[i] = q
      BY <3>1
    <3>3. Bytes(b.accounts[j].pre) = <<b.accounts[j].pre.names>>
      BY DEF Bytes, IsIntact
    <3> QED BY <3>1, <3>2, <3>3
  <2>3. CASE pre[s][q] = <<>>
    <3>1. at(q) = {}
      BY <2>2, <2>3
    <3> QED BY <2>3, <3>1
  <2>4. CASE pre[s][q] # <<>>
    <3>1. PICK i \in DOMAIN PairSeq : PairSeq[i] = q
      BY DEF Pairs
    <3>2. at(q) # {}
      BY <2>4, <3>1 DEF HoldsPre
    <3> DEFINE j == CHOOSE k \in at(q) : TRUE
    <3>3. j \in at(q)
      <4> HIDE DEF at
      <4> QED BY <3>2
    <3>4. had(q) = Bytes(b.accounts[j].pre)
      BY <3>2
    <3> HIDE DEF j, had
    <3>5. had(q) = <<pre[s][q][1]>>
      BY <2>2, <3>3, <3>4
    <3>6. pre[s][q] = <<pre[s][q][1]>>
      <4> DEFINE o == pre[s][q]
                 T == Seq(Nat)
      <4>1. o \in Seq(T) /\ Len(o) <= 1 /\ o # <<>>
        BY <2>1, <2>4
      <4> HIDE DEF o, T
      <4>2. o = <<o[1]>>
        BY <4>1, Single
      <4> QED BY <4>2 DEF o
    <3> QED BY <3>5, <3>6
  <2> QED BY <2>3, <2>4
<1> HIDE DEF had
<1>4. [q \in Pairs |-> had(q)] = [q \in Pairs |-> pre[s][q]]
  BY <1>3
<1> QED BY <1>1, <1>2, <1>4

IsReplay(w, b, n) ==
    /\ w = [i \in 0..n |-> w[i]] /\ w[0] = [s \in Sides |-> CarriedAccounts(b, s)]
    /\ \A i \in 1..n :
         w[i] = [w[i - 1] EXCEPT ![b.actions[i].target[1]] = Redone(b, i, w[i - 1]).post]

LEMMA ReplayIs ==
    ASSUME NEW b, NEW n \in Nat, Len(b.actions) = n, NEW w, IsReplay(w, b, n)
    PROVE  Replay(b) = w
<1> DEFINE first == [s \in Sides |-> CarriedAccounts(b, s)]
           Def(f) == f = [i \in 0..n |-> IF i = 0 THEN first
                             ELSE [f[i - 1] EXCEPT ![b.actions[i].target[1]] = Redone(b, i, f[i - 1]).post]]
           c == CHOOSE f : Def(f)
<1>1. Replay(b) = c
  BY DEF Replay
<1>2. Def(w)
  <2> HIDE DEF first
  <2>1. \A i \in 0..n : w[i] = IF i = 0 THEN first
              ELSE [w[i - 1] EXCEPT ![b.actions[i].target[1]] = Redone(b, i, w[i - 1]).post]
    <3> TAKE i \in 0..n
    <3>1. i = 0 \/ i \in 1..n
      OBVIOUS
    <3> QED BY <3>1 DEF IsReplay, first
  <2>2. w = [i \in 0..n |-> w[i]]
    BY DEF IsReplay
  <2> QED BY <2>1, <2>2
<1> HIDE DEF first
<1>3. Def(c)
  <2> HIDE DEF Def
  <2> QED BY <1>2
<1> DEFINE same == {i \in 0..n : c[i] = w[i]}
<1>4. /\ c = [i \in 0..n |-> c[i]] /\ c[0] = first
      /\ \A i \in 1..n : c[i] = [c[i - 1] EXCEPT ![b.actions[i].target[1]] = Redone(b, i, c[i - 1]).post]
  <2> HIDE DEF c
  <2>1. c = [i \in 0..n |-> IF i = 0 THEN first
                ELSE [c[i - 1] EXCEPT ![b.actions[i].target[1]] = Redone(b, i, c[i - 1]).post]]
    BY <1>3
  <2>2. \A i \in 0..n : c[i] = IF i = 0 THEN first
                ELSE [c[i - 1] EXCEPT ![b.actions[i].target[1]] = Redone(b, i, c[i - 1]).post]
    <3> TAKE i \in 0..n
    <3> QED BY <2>1
  <2>3. c[0] = first
    <3>1. 0 \in 0..n
      OBVIOUS
    <3> QED BY <2>2, <3>1
  <2>4. ASSUME NEW i \in 1..n
        PROVE  c[i] = [c[i - 1] EXCEPT ![b.actions[i].target[1]] = Redone(b, i, c[i - 1]).post]
    <3>1. i \in 0..n /\ i # 0
      OBVIOUS
    <3> QED BY <2>2, <3>1
  <2>5. c = [i \in 0..n |-> c[i]]
    BY <2>1
  <2> QED BY <2>3, <2>4, <2>5
<1> HIDE DEF c
<1>5. 0 \in same
  BY <1>4 DEF IsReplay, first
<1>6. ASSUME NEW i \in 1..n, i - 1 \in same PROVE i \in same
  <2>1. i \in 0..n /\ c[i - 1] = w[i - 1]
    BY <1>6
  <2>2. c[i] = [c[i - 1] EXCEPT ![b.actions[i].target[1]] = Redone(b, i, c[i - 1]).post]
    BY <1>4
  <2>3. w[i] = [w[i - 1] EXCEPT ![b.actions[i].target[1]] = Redone(b, i, w[i - 1]).post]
    BY DEF IsReplay
  <2>4. c[i] = w[i]
    BY <2>1, <2>2, <2>3
  <2> QED BY <2>1, <2>4
<1> HIDE DEF same
<1>7. \A i \in 0..n : i \in same
  BY <1>5, <1>6, UpTo
<1>8. \A i \in 0..n : c[i] = w[i]
  BY <1>7 DEF same
<1>9. c = [i \in 0..n |-> c[i]] /\ w = [i \in 0..n |-> w[i]]
  BY <1>4 DEF IsReplay
<1>10. [i \in 0..n |-> c[i]] = [i \in 0..n |-> w[i]]
  BY <1>8
<1> QED BY <1>1, <1>9, <1>10
\* The accounts that lie between those of a and those of p: the anchor's of a,
\* its rewrite's of p.
Between(a, p) == [s \in Sides |-> IF s = "anchor" THEN a["anchor"] ELSE p["pinocchio"]]

LEMMA BetweenParts ==
    ASSUME NEW a, NEW p, NEW m, m = Between(a, p), NEW x
    PROVE  /\ m["anchor"] = a["anchor"] /\ m["pinocchio"] = p["pinocchio"]
           /\ [m EXCEPT !["anchor"] = x["anchor"]] = Between(x, p)
           /\ [m EXCEPT !["pinocchio"] = x["pinocchio"]] = Between(a, x)
BY DEF Between, Sides

LEMMA Halves ==
    ASSUME NEW n \in Nat, NEW i \in 1..n
    PROVE  /\ 2 * i - 2 \in 0..(2 * n) /\ 2 * i - 1 \in 0..(2 * n) /\ 2 * i \in 0..(2 * n)
           /\ (2 * i - 2 + 1) \div 2 = i - 1 /\ (2 * i - 2) \div 2 = i - 1
           /\ (2 * i - 1 + 1) \div 2 = i /\ (2 * i - 1) \div 2 = i - 1
           /\ (2 * i + 1) \div 2 = i /\ (2 * i) \div 2 = i
<1>1. 2 * i - 2 \in 0..(2 * n) /\ 2 * i - 1 \in 0..(2 * n) /\ 2 * i \in 0..(2 * n)
  OBVIOUS
<1>2. (2 * i - 2 + 1) \div 2 = i - 1
  OBVIOUS
<1>3. (2 * i - 2) \div 2 = i - 1
  OBVIOUS
<1>4. (2 * i - 1 + 1) \div 2 = i
  OBVIOUS
<1>5. (2 * i - 1) \div 2 = i - 1
  OBVIOUS
<1>6. (2 * i + 1) \div 2 = i
  OBVIOUS
<1>7. (2 * i) \div 2 = i
  OBVIOUS
<1> QED BY <1>1, <1>2, <1>3, <1>4, <1>5, <1>6, <1>7

\* A reader who has the programs sends each of them every probe in turn.
RedoneSends(b, k, s, ran, amount, at) ==
    b.actions[k].target[1] = s /\ Redone(b, k, at) = Exec(s, ran[s], at[s], amount)

LEMMA RedoneAlternates ==
    ASSUME NEW b, NEW ran, \A s \in Sides : CarriedProgram(b, s) = ran[s],
           NEW n \in Nat, AsksProbes(b.actions, n), NEW i \in 1..n, NEW at
    PROVE  /\ RedoneSends(b, 2 * i - 1, "anchor", ran, ProbeSeq[i], at)
           /\ RedoneSends(b, 2 * i, "pinocchio", ran, ProbeSeq[i], at)
<1>1. /\ CarriedProgram(b, "anchor") = ran["anchor"]
      /\ CarriedProgram(b, "pinocchio") = ran["pinocchio"]
  BY DEF Sides
<1>2. /\ b.actions[2 * i - 1].target[1] = "anchor" /\ b.actions[2 * i - 1].data[1] = ProbeSeq[i]
      /\ b.actions[2 * i].target[1] = "pinocchio" /\ b.actions[2 * i].data[1] = ProbeSeq[i]
  BY DEF AsksProbes
<1> QED BY <1>1, <1>2 DEF Redone, RedoneSends

\* The courses of a reader and of the process that wrote are one.
ReplaysAs(b, out, n) ==
    \A i \in 1..n : Replayed(b)[2 * i - 1] = out[i]["anchor"] /\ Replayed(b)[2 * i] = out[i]["pinocchio"]

LEMMA ReplayFollows ==
    ASSUME NEW b, NEW ran, \A s \in Sides : CarriedProgram(b, s) = ran[s],
           NEW pre, \A s \in Sides : CarriedAccounts(b, s) = pre[s],
           NEW n \in Nat, n = Len(ProbeSeq), AsksProbes(b.actions, n)
    PROVE  ReplaysAs(b, Faithful(ran, pre, ProbeSeq), n)
<1> DEFINE c == Course(ran, pre, ProbeSeq)
           w == [k \in 0..(2 * n) |-> Between(c[(k + 1) \div 2], c[k \div 2])]
           out == Faithful(ran, pre, ProbeSeq)
<1>1. IsCourse(c, ran, pre, ProbeSeq, n)
  BY CourseExists
<1>2. DOMAIN ProbeSeq = 1..n
  BY DifferentialAssumption DEF DifferentialAssumption
<1>3. out = [i \in 1..n |-> [s \in Sides |-> Exec(s, ran[s], c[i - 1][s], ProbeSeq[i])]]
  <2>1. out = [i \in DOMAIN ProbeSeq |-> [s \in Sides |-> Exec(s, ran[s], c[i - 1][s], ProbeSeq[i])]]
    BY DEF Faithful
  <2> HIDE DEF out, c
  <2> QED BY <1>2, <2>1
<1> HIDE DEF c, out
<1>4. c[0] = pre /\ \A i \in 1..n : c[i] = [s \in Sides |-> Exec(s, ran[s], c[i - 1][s], ProbeSeq[i]).post]
  BY <1>1 DEF IsCourse
<1>5. ASSUME NEW i \in 1..n
      PROVE  /\ c[i]["anchor"] = Exec("anchor", ran["anchor"], c[i - 1]["anchor"], ProbeSeq[i]).post
             /\ c[i]["pinocchio"] = Exec("pinocchio", ran["pinocchio"], c[i - 1]["pinocchio"], ProbeSeq[i]).post
             /\ out[i]["anchor"] = Exec("anchor", ran["anchor"], c[i - 1]["anchor"], ProbeSeq[i])
             /\ out[i]["pinocchio"] = Exec("pinocchio", ran["pinocchio"], c[i - 1]["pinocchio"], ProbeSeq[i])
  BY <1>3, <1>4 DEF Sides
<1>6. ASSUME NEW i \in 1..n
      PROVE  /\ w[2 * i - 2] = Between(c[i - 1], c[i - 1])
             /\ w[2 * i - 1] = Between(c[i], c[i - 1])
             /\ w[2 * i] = Between(c[i], c[i])
  <2>1. /\ 2 * i - 2 \in 0..(2 * n) /\ 2 * i - 1 \in 0..(2 * n) /\ 2 * i \in 0..(2 * n)
        /\ (2 * i - 2 + 1) \div 2 = i - 1 /\ (2 * i - 2) \div 2 = i - 1
        /\ (2 * i - 1 + 1) \div 2 = i /\ (2 * i - 1) \div 2 = i - 1
        /\ (2 * i + 1) \div 2 = i /\ (2 * i) \div 2 = i
    BY Halves
  <2> QED BY <2>1
<1>7. w[0] = [s \in Sides |-> CarriedAccounts(b, s)]
  <2>1. 0 \in 0..(2 * n) /\ (0 + 1) \div 2 = 0 /\ 0 \div 2 = 0
    OBVIOUS
  <2>2. w[0] = Between(pre, pre)
    BY <1>4, <2>1
  <2>3. Between(pre, pre) = [s \in Sides |-> pre[s]]
    BY DEF Between, Sides
  <2> HIDE DEF w
  <2> QED BY <2>2, <2>3
<1>8. w = [k \in 0..(2 * n) |-> w[k]]
  OBVIOUS
<1> HIDE DEF w
<1>9. ASSUME NEW i \in 1..n
      PROVE  /\ Redone(b, 2 * i - 1, w[2 * i - 2]) = out[i]["anchor"]
             /\ Redone(b, 2 * i, w[2 * i - 1]) = out[i]["pinocchio"]
             /\ w[2 * i - 1] = [w[2 * i - 2] EXCEPT ![b.actions[2 * i - 1].target[1]] = Redone(b, 2 * i - 1, w[2 * i - 2]).post]
             /\ w[2 * i] = [w[2 * i - 1] EXCEPT ![b.actions[2 * i].target[1]] = Redone(b, 2 * i, w[2 * i - 1]).post]
  <2> DEFINE u == w[2 * i - 2]
             v == w[2 * i - 1]
  <2>1. u = Between(c[i - 1], c[i - 1]) /\ v = Between(c[i], c[i - 1]) /\ w[2 * i] = Between(c[i], c[i])
    BY <1>6
  <2> HIDE DEF u, v
  <2>2. /\ u["anchor"] = c[i - 1]["anchor"] /\ v["pinocchio"] = c[i - 1]["pinocchio"]
        /\ [u EXCEPT !["anchor"] = c[i]["anchor"]] = Between(c[i], c[i - 1])
        /\ [v EXCEPT !["pinocchio"] = c[i]["pinocchio"]] = Between(c[i], c[i])
    <3> DEFINE x == c[i - 1]
               y == c[i]
    <3>1. u = Between(x, x) /\ v = Between(y, x)
      BY <2>1
    <3> HIDE DEF x, y
    <3>2. u["anchor"] = x["anchor"] /\ [u EXCEPT !["anchor"] = y["anchor"]] = Between(y, x)
      <4>1. u = Between(x, x)
        BY <3>1
      <4> QED BY <4>1, BetweenParts
    <3>3. v["pinocchio"] = x["pinocchio"] /\ [v EXCEPT !["pinocchio"] = y["pinocchio"]] = Between(y, y)
      <4>1. v = Between(y, x)
        BY <3>1
      <4> QED BY <4>1, BetweenParts
    <3> QED BY <3>2, <3>3 DEF x, y
  <2>3. /\ b.actions[2 * i - 1].target[1] = "anchor" /\ b.actions[2 * i].target[1] = "pinocchio"
        /\ Redone(b, 2 * i - 1, u) = Exec("anchor", ran["anchor"], u["anchor"], ProbeSeq[i])
        /\ Redone(b, 2 * i, v) = Exec("pinocchio", ran["pinocchio"], v["pinocchio"], ProbeSeq[i])
    <3>1. RedoneSends(b, 2 * i - 1, "anchor", ran, ProbeSeq[i], u)
      BY RedoneAlternates
    <3>2. RedoneSends(b, 2 * i, "pinocchio", ran, ProbeSeq[i], v)
      BY RedoneAlternates
    <3> QED BY <3>1, <3>2 DEF RedoneSends
  <2>4. Redone(b, 2 * i - 1, u) = out[i]["anchor"] /\ Redone(b, 2 * i, v) = out[i]["pinocchio"]
    BY <1>5, <2>2, <2>3
  <2>5. Redone(b, 2 * i - 1, u).post = c[i]["anchor"] /\ Redone(b, 2 * i, v).post = c[i]["pinocchio"]
    BY <1>5, <2>4
  <2>6. /\ v = [u EXCEPT ![b.actions[2 * i - 1].target[1]] = Redone(b, 2 * i - 1, u).post]
        /\ w[2 * i] = [v EXCEPT ![b.actions[2 * i].target[1]] = Redone(b, 2 * i, v).post]
    BY <2>1, <2>2, <2>3, <2>5
  <2> QED BY <2>4, <2>6 DEF u, v
<1>10. Len(b.actions) = 2 * n /\ DOMAIN b.actions = 1..(2 * n) /\ 2 * n \in Nat
  BY DEF AsksProbes
<1>11. ASSUME NEW k \in 1..(2 * n)
       PROVE  w[k] = [w[k - 1] EXCEPT ![b.actions[k].target[1]] = Redone(b, k, w[k - 1]).post]
  <2> DEFINE i == (k + 1) \div 2
  <2>1. i \in 1..n /\ (k = 2 * i - 1 \/ k = 2 * i)
    OBVIOUS
  <2> HIDE DEF i
  <2>2. CASE k = 2 * i - 1
    <3>1. k - 1 = 2 * i - 2
      BY <2>1, <2>2
    <3> QED BY <1>9, <2>1, <2>2, <3>1
  <2>3. CASE k = 2 * i
    <3>1. k - 1 = 2 * i - 1
      BY <2>1, <2>3
    <3> QED BY <1>9, <2>1, <2>3, <3>1
  <2> QED BY <2>1, <2>2, <2>3
<1>12. IsReplay(w, b, 2 * n)
  BY <1>7, <1>8, <1>11 DEF IsReplay
<1>13. Replay(b) = w
  <2> DEFINE m == 2 * n
  <2>1. m \in Nat /\ Len(b.actions) = m /\ IsReplay(w, b, m)
    BY <1>10, <1>12
  <2> HIDE DEF m
  <2> QED BY <2>1, ReplayIs
<1>14. Replayed(b) = [k \in 1..(2 * n) |-> Redone(b, k, w[k - 1])]
  BY <1>10, <1>13 DEF Replayed
<1>15. ASSUME NEW i \in 1..n
       PROVE  Replayed(b)[2 * i - 1] = out[i]["anchor"] /\ Replayed(b)[2 * i] = out[i]["pinocchio"]
  <2>1. /\ 2 * i - 1 \in 1..(2 * n) /\ 2 * i \in 1..(2 * n)
        /\ (2 * i - 1) - 1 = 2 * i - 2
    OBVIOUS
  <2>2. /\ Replayed(b)[2 * i - 1] = Redone(b, 2 * i - 1, w[(2 * i - 1) - 1])
        /\ Replayed(b)[2 * i] = Redone(b, 2 * i, w[2 * i - 1])
    BY <1>14, <2>1
  <2> QED BY <1>9, <2>1, <2>2
<1>16. ReplaysAs(b, out, n)
  BY <1>15 DEF ReplaysAs
<1> QED BY <1>16 DEF out
\* Nothing is said but faults, one at a time.
LEMMA SayingFault ==
    ASSUME NEW kind \in {"parity", "cu"}, NEW build, NEW label, NEW a, NEW p,
           NEW d, d = Saying(kind, build, label, a, p), d # <<>>
    PROVE  d[1].kind = kind /\ d = <<d[1]>> /\ DOMAIN d = {1} /\ IsFault(d[1])
<1>1. SaysOne(d, kind, build, label, a, p)
  BY SayingForms
<1>2. IsFault(d[1])
  BY <1>1 DEF SaysOne, IsFault
<1> QED BY <1>1, <1>2 DEF SaysOne

\* Executing r again, by a tool of build `build', finds the same fault at the
\* same probe.
Repeats(r, build) ==
    LET b == r.claim.bundle
        d == r.claim.divergences[1]
        out == Replayed(b)
        again(i) == Saying(d.kind, build, Label(i), out[2 * i - 1], out[2 * i])
    IN  /\ IsFault(d) /\ HasFault(r)
        /\ \E i \in 1..(Len(b.actions) \div 2) :
              /\ again(i) # <<>> /\ Plain(again(i)[1]) = Plain(d)
              /\ \A j \in 1..(i - 1) : again(j) = <<>>

LEMMA StemsRepeats ==
    ASSUME NEW r, NEW ran, NEW pre, Stems(r, ran, pre),
           \A s \in Sides : pre[s] \in AccountStates,
           Completeness(r.claim.bundle) = "InputsCarried",
           \A s \in Sides : CarriedProgram(r.claim.bundle, s) = ran[s],
           NEW build
    PROVE  Repeats(r, build)
<1> DEFINE b == r.claim.bundle
           n == Len(ProbeSeq)
           first == Faithful(ran, pre, ProbeSeq)
           out == Replayed(b)
           d == r.claim.divergences
           said(k, i) == Saying(k, r.tool, Label(i), first[i]["anchor"], first[i]["pinocchio"])
           again(i) == Saying(d[1].kind, build, Label(i), out[2 * i - 1], out[2 * i])
<1>1. n \in Nat /\ DOMAIN ProbeSeq = 1..n
  BY DifferentialAssumption DEF DifferentialAssumption
<1>2. HoldsPre(b.accounts, pre) /\ AsksProbes(b.actions, n)
  BY DEF Stems
<1>3. PICK kind \in {"parity", "cu"}, i \in 1..n :
        d = said(kind, i) /\ d # <<>> /\ \A j \in 1..n : j < i => said(kind, j) = <<>>
  <2>1. PICK kind \in {"parity", "cu"}, i \in DOMAIN ProbeSeq : SaysFirst(r, ran, pre, kind, i)
    BY DEF Stems
  <2>2. d = said(kind, i) /\ d # <<>> /\ \A j \in DOMAIN ProbeSeq : j < i => said(kind, j) = <<>>
    BY <2>1 DEF SaysFirst
  <2> QED BY <1>1, <2>2
<1>4. \A j \in DOMAIN b.accounts : IsCarried(b.accounts[j].pre) /\ IsIntact(b.accounts[j].pre)
  <2>1. Carried(b)
    BY DEF Completeness
  <2> QED BY <2>1 DEF Carried, IsComplete
<1>5. ASSUME NEW s \in Sides PROVE CarriedAccounts(b, s) = pre[s]
  <2> DEFINE x == b
  <2>1. /\ HoldsPre(x.accounts, pre) /\ pre[s] \in AccountStates
        /\ \A j \in DOMAIN x.accounts : IsCarried(x.accounts[j].pre) /\ IsIntact(x.accounts[j].pre)
    BY <1>2, <1>4
  <2> HIDE DEF b, x
  <2>2. CarriedAccounts(x, s) = pre[s]
    BY <2>1, CarriedPre
  <2> QED BY <2>2 DEF x
<1>6. ReplaysAs(b, first, n)
  <2> DEFINE x == b
             m == n
  <2>1. /\ \A s \in Sides : CarriedProgram(x, s) = ran[s]
        /\ \A s \in Sides : CarriedAccounts(x, s) = pre[s]
        /\ m \in Nat /\ m = Len(ProbeSeq) /\ AsksProbes(x.actions, m)
    BY <1>1, <1>2, <1>5
  <2> HIDE DEF b, n, x, m, first
  <2>2. ReplaysAs(x, Faithful(ran, pre, ProbeSeq), m)
    BY <2>1, ReplayFollows
  <2> QED BY <2>2 DEF x, m, first
<1> HIDE DEF b, n, first, out, d
<1>7. d[1].kind = kind /\ d = <<d[1]>> /\ DOMAIN d = {1} /\ IsFault(d[1])
  <2> DEFINE l == first[i]["anchor"]
             p == first[i]["pinocchio"]
  <2>1. d = Saying(kind, r.tool, Label(i), l, p) /\ d # <<>>
    BY <1>3
  <2> HIDE DEF l, p, said
  <2> QED BY <2>1, SayingFault
<1>8. ASSUME NEW j \in 1..n
      PROVE  /\ again(j) = <<>> <=> said(kind, j) = <<>>
             /\ said(kind, j) # <<>> => Plain(again(j)[1]) = Plain(said(kind, j)[1])
  <2> DEFINE l == first[j]["anchor"]
             p == first[j]["pinocchio"]
             x == again(j)
             y == said(kind, j)
  <2>1. out[2 * j - 1] = l /\ out[2 * j] = p
    BY <1>6 DEF ReplaysAs, out
  <2>2. x = Saying(kind, build, Label(j), l, p) /\ y = Saying(kind, r.tool, Label(j), l, p)
    BY <1>7, <2>1
  <2> HIDE DEF l, p, x, y
  <2>3. (y = <<>> <=> x = <<>>) /\ (y # <<>> => Plain(y[1]) = Plain(x[1]))
    BY <2>2, SayingAnywhere
  <2> QED BY <2>3 DEF x, y
<1>9. Len(b.actions) \div 2 = n
  <2>1. Len(b.actions) = 2 * n
    BY <1>2 DEF AsksProbes
  <2> QED BY <1>1, <2>1
<1>10. /\ again(i) # <<>> /\ Plain(again(i)[1]) = Plain(d[1])
       /\ \A j \in 1..(i - 1) : again(j) = <<>>
  <2>1. again(i) # <<>> /\ Plain(again(i)[1]) = Plain(d[1])
    BY <1>3, <1>8
  <2>2. ASSUME NEW j \in 1..(i - 1) PROVE again(j) = <<>>
    <3>1. j \in 1..n /\ j < i
      BY <1>1
    <3> QED BY <1>3, <1>8, <3>1
  <2> QED BY <2>1, <2>2
<1>11. HasFault(r)
  BY <1>7 DEF HasFault, d
<1>12. \E k \in 1..(Len(b.actions) \div 2) :
              /\ again(k) # <<>> /\ Plain(again(k)[1]) = Plain(d[1])
              /\ \A j \in 1..(k - 1) : again(j) = <<>>
  BY <1>9, <1>10
<1> QED BY <1>7, <1>11, <1>12 DEF Repeats, b, d, out

\* The accounts a process starts its probes from, and the programs it has, are
\* those that its side knows.
OfSide(A, pre) == \A s \in Sides : pre[s] \in A[s]

ClosedInv(A) ==
    /\ disk = [s \in Sides |-> disk[s]] /\ \A s \in Sides : disk[s] \in Programs(s)
    /\ \A s \in Sides : proc.loaded[s] \in Programs(s)
    /\ OfSide(A, accts) /\ OfSide(A, run.pre)
    /\ pending # <<>> => \E pre : OfSide(A, pre) /\ Stems(pending[1], proc.loaded, pre)
    /\ \A e \in reports : \E pre : OfSide(A, pre) /\ Stems(e.report, e.ran, pre)

LEMMA ClosedInit == ASSUME NEW A, Closed(A), Init PROVE ClosedInv(A)
<1>1. disk \in Targets /\ accts = Setup /\ run = NoRun /\ pending = <<>> /\ reports = {}
  BY DEF Init
<1>2. proc.loaded = disk
  BY DEF Init, Process
<1>3. disk = [s \in Sides |-> disk[s]] /\ \A s \in Sides : disk[s] \in Programs(s)
  BY <1>1, DifferentialAssumption DEF DifferentialAssumption, Programs
<1>4. OfSide(A, Setup) /\ run.pre = Setup
  BY <1>1 DEF Closed, OfSide, NoRun
<1> QED BY <1>1, <1>2, <1>3, <1>4 DEF ClosedInv
\* What a program makes of the accounts of its side is of its side.
LEMMA ClosedStep ==
    ASSUME NEW A, Closed(A), ClosedInv(A), NEW amount \in Spent, NEW gone,
           NEW post, post = [s \in Sides |-> IF s \in gone THEN accts[s] ELSE Outcome(s, amount).post]
    PROVE  OfSide(A, post)
<1>1. ASSUME NEW s \in Sides PROVE Outcome(s, amount).post \in A[s] /\ accts[s] \in A[s]
  <2>1. proc.loaded[s] \in Programs(s) /\ accts[s] \in A[s]
    BY DEF ClosedInv, OfSide
  <2> QED BY <2>1 DEF Closed, Outcome
<1> QED BY <1>1 DEF OfSide

LEMMA ClosedNext ==
    ASSUME NEW A, Closed(A), RunInv, Writing, ClosedInv(A), [Next]_vars
    PROVE  ClosedInv(A)'
<1> USE DEF environment, files
<1>1. OfSide(A, Setup) /\ OfSide(A, NoRun.pre)
  BY DEF Closed, OfSide, NoRun
<1>2. ASSUME UNCHANGED <<disk, proc>>, OfSide(A, accts'), OfSide(A, run'.pre),
             UNCHANGED <<pending, reports>> \/ (pending' = <<>> /\ UNCHANGED reports)
      PROVE  ClosedInv(A)'
  BY <1>2 DEF ClosedInv, OfSide
<1>3. ASSUME UNCHANGED <<disk, proc, accts, run, pending, reports>>
      PROVE  ClosedInv(A)'
  BY <1>3 DEF ClosedInv, OfSide
<1>4. CASE UNCHANGED vars \/ CheckPairs \/ CheckProduct \/ CheckEvidence \/ Take \/ Edit
  BY <1>3, <1>4 DEF vars, CheckPairs, CheckProduct, CheckEvidence, Take, Edit
<1>5. CASE FuzzAction
  <2>1. PICK amount \in Amounts, gone \in Lost("action") :
           accts' = [s \in Sides |-> IF s \in gone THEN accts[s] ELSE Outcome(s, amount).post]
    BY <1>5 DEF FuzzAction
  <2>2. OfSide(A, accts')
    BY <2>1, ClosedStep DEF Spent
  <2>3. UNCHANGED <<disk, proc, run, pending, reports>>
    BY <1>5 DEF FuzzAction
  <2> QED BY <1>2, <2>2, <2>3 DEF ClosedInv
<1>6. CASE BeginProbes
  <2>1. UNCHANGED <<disk, proc, accts, pending, reports>> /\ run' = [pre |-> accts, probes |-> <<>>]
    BY <1>6 DEF BeginProbes, SnapshotPreState
  <2>2. run'.pre = accts
    BY <2>1
  <2> QED BY <1>2, <2>1, <2>2 DEF ClosedInv
<1>7. CASE SendProbe
  <2> DEFINE amount == ProbeSeq[Len(run.probes) + 1]
  <2>1. PICK gone \in Lost("probe") :
           /\ accts' = [s \in Sides |-> IF s \in gone THEN accts[s] ELSE Outcome(s, amount).post]
           /\ run' = [run EXCEPT !.probes = Append(@,
                        [amount |-> amount,
                         result |-> [s \in Sides |-> IF s \in gone THEN <<>> ELSE <<Outcome(s, amount)>>]])]
    BY <1>7 DEF SendProbe
  <2>2. amount \in Spent
    <3>1. Len(run.probes) \in Nat /\ Len(ProbeSeq) \in Nat /\ DOMAIN ProbeSeq = 1..Len(ProbeSeq)
      BY SequenceLength, DifferentialAssumption DEF RunInv, RunShape, DifferentialAssumption
    <3>2. Len(run.probes) + 1 \in DOMAIN ProbeSeq
      BY <1>7, <3>1 DEF SendProbe
    <3> QED BY <3>2 DEF Spent
  <2>3. OfSide(A, accts')
    <3> HIDE DEF amount
    <3> QED BY <2>1, <2>2, ClosedStep
  <2>4. run'.pre = run.pre
    <3> DEFINE x == Append(run.probes, [amount |-> amount,
                         result |-> [s \in Sides |-> IF s \in gone THEN <<>> ELSE <<Outcome(s, amount)>>]])
    <3>1. run' = [run EXCEPT !.probes = x] /\ run = [pre |-> run.pre, probes |-> run.probes]
      BY <2>1 DEF RunInv, RunShape
    <3> HIDE DEF x
    <3> QED BY <3>1
  <2>5. UNCHANGED <<disk, proc, pending, reports>>
    BY <1>7 DEF SendProbe
  <2> QED BY <1>2, <2>3, <2>4, <2>5 DEF ClosedInv
<1>8. CASE CheckParity \/ CheckCost
  <2>1. PICK d : Conclude(d)
    BY <1>8 DEF CheckParity, CheckCost
  <2>2. UNCHANGED <<disk, proc, accts, run, reports>> /\ (pc' = "json" \/ UNCHANGED pending)
    BY <2>1 DEF Conclude
  <2>3. CASE pc' = "json"
    <3>1. pending' # <<>> /\ Stems(pending'[1], proc.loaded, run.pre)
      BY <1>8, <2>3, ReportStems
    <3>2. OfSide(A, run.pre) /\ proc'.loaded = proc.loaded
      BY <2>2 DEF ClosedInv
    <3>3. \E pre : OfSide(A, pre) /\ Stems(pending'[1], proc'.loaded, pre)
      BY <3>1, <3>2
    <3> QED BY <2>2, <3>3 DEF ClosedInv, OfSide
  <2> QED BY <1>3, <2>2, <2>3
<1>9. CASE EmitJson
  <2>1. /\ pending # <<>> /\ UNCHANGED <<disk, proc, accts, run, pending>>
        /\ reports' = reports \cup {[report |-> pending[1], ran |-> proc.loaded]}
    BY <1>9 DEF EmitJson, Writing
  <2>2. \E pre : OfSide(A, pre) /\ Stems(pending[1], proc.loaded, pre)
    BY <2>1 DEF ClosedInv
  <2>3. \A e \in reports' : \E pre : OfSide(A, pre) /\ Stems(e.report, e.ran, pre)
    BY <2>1, <2>2 DEF ClosedInv
  <2>4. ClosedInv(A)' <=>
          /\ disk = [s \in Sides |-> disk[s]] /\ \A s \in Sides : disk[s] \in Programs(s)
          /\ \A s \in Sides : proc.loaded[s] \in Programs(s)
          /\ OfSide(A, accts) /\ OfSide(A, run.pre)
          /\ pending # <<>> => \E pre : OfSide(A, pre) /\ Stems(pending[1], proc.loaded, pre)
          /\ \A e \in reports' : \E pre : OfSide(A, pre) /\ Stems(e.report, e.ran, pre)
    BY <2>1 DEF ClosedInv
  <2> QED BY <2>3, <2>4 DEF ClosedInv
<1>10. CASE FuzzAssert \/ EndBody \/ NewIteration \/ Stop
  <2>1. /\ UNCHANGED <<disk, proc, reports>> /\ accts' \in {accts, Setup} /\ run' \in {run, NoRun}
        /\ pending' = pending \/ pending' = <<>>
    BY <1>10 DEF FuzzAssert, EndBody, NewIteration, Stop
  <2>2. OfSide(A, accts') /\ OfSide(A, run'.pre)
    BY <1>1, <2>1 DEF ClosedInv
  <2> QED BY <1>2, <2>1, <2>2
<1>11. CASE Restart
  <2>1. pc = "stopped" /\ UNCHANGED <<disk, accts, run, pending, reports>> /\ proc'.loaded = disk
    BY <1>11 DEF Restart, Process
  <2>2. pending = <<>>
    BY <2>1 DEF Writing
  <2> QED BY <2>1, <2>2 DEF ClosedInv, OfSide
<1>12. CASE Rebuild
  <2>1. PICK s \in Sides : \E x \in Later[s] : disk' = [disk EXCEPT ![s] = x]
    BY <1>12 DEF Rebuild
  <2>0. PICK x \in Later[s] : disk' = [disk EXCEPT ![s] = x]
    BY <2>1
  <2>2. UNCHANGED <<proc, accts, run, pending, reports>>
    BY <1>12 DEF Rebuild
  <2>3. disk' = [t \in Sides |-> disk'[t]] /\ \A t \in Sides : disk'[t] \in Programs(t)
    <3>1. disk = [t \in Sides |-> disk[t]] /\ \A t \in Sides : disk[t] \in Programs(t)
      BY DEF ClosedInv
    <3>2. x \in Programs(s)
      BY DEF Programs
    <3>3. disk' = [t \in Sides |-> IF t = s THEN x ELSE disk[t]]
      BY <2>0, <3>1
    <3> QED BY <3>1, <3>2, <3>3
  <2> QED BY <2>2, <2>3 DEF ClosedInv, OfSide
<1> QED BY <1>4, <1>5, <1>6, <1>7, <1>8, <1>9, <1>10, <1>11, <1>12 DEF Next, Harness

\* A report graded InputsCarried is enough to find its fault again, at the
\* probe it was found at, as long as what it carries are the programs that ran
\* (they are read off the disk when it is written); whatever the programs, as
\* long as they leave the accounts of a side such as its programs take.
THEOREM ReportReplaysAlways ==
    ASSUME NEW A, Closed(A)
    PROVE  Spec => []ReportReplays
<1>1. Init => ClosedInv(A)
  BY ClosedInit
<1>2. RunInv /\ Writing /\ ClosedInv(A) /\ [Next]_vars => ClosedInv(A)'
  BY ClosedNext
<1>3. ClosedInv(A) => ReportReplays
  <2> SUFFICES ASSUME ClosedInv(A), NEW e \in reports,
                      Completeness(e.report.claim.bundle) = "InputsCarried",
                      \A s \in Sides : CarriedProgram(e.report.claim.bundle, s) = e.ran[s]
               PROVE  LET b == e.report.claim.bundle
                          d == e.report.claim.divergences[1]
                          out == Replayed(b)
                          again(i) == IF d.kind = "cu" THEN Regression(Label(i), out[2 * i - 1], out[2 * i])
                                      ELSE ParityDivergence(Label(i), out[2 * i - 1], out[2 * i])
                      IN  /\ IsFault(d) /\ HasFault(e.report)
                          /\ \E i \in 1..(Len(b.actions) \div 2) :
                                /\ again(i) # <<>> /\ Plain(again(i)[1]) = Plain(d)
                                /\ \A j \in 1..(i - 1) : again(j) = <<>>
    BY DEF ReportReplays
  <2> DEFINE r == e.report
             ran == e.ran
             build == proc.build
  <2>1. PICK pre : OfSide(A, pre) /\ Stems(r, ran, pre)
    BY DEF ClosedInv
  <2>2. \A s \in Sides : pre[s] \in AccountStates
    BY <2>1 DEF OfSide, Closed
  <2>3. /\ Completeness(r.claim.bundle) = "InputsCarried"
        /\ \A s \in Sides : CarriedProgram(r.claim.bundle, s) = ran[s]
    OBVIOUS
  <2> HIDE DEF r, ran, build
  <2>4. Repeats(r, build)
    BY <2>1, <2>2, <2>3, StemsRepeats
  <2>5. \A o : SideResult(o) = SideOf(proc.build, o)
    BY DEF SideResult, SideOf
  <2>6. \A l, a, p : ParityDivergence(l, a, p) = ParityOf(proc.build, l, a, p)
    BY <2>5 DEF ParityDivergence, ParityOf, SameResult
  <2> QED BY <2>4, <2>6 DEF Repeats, Saying, r, build
<1> QED BY <1>1, <1>2, <1>3, RunInvAlways, ReaderInvAlways, PTL DEF Spec, ReaderInv

=============================================================================
