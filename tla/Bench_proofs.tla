---------------------------- MODULE Bench_proofs ----------------------------
(***************************************************************************)
(* Theorems about Bench: for every program with some of the plants, every  *)
(* book, pool, vault and feed, and iterations of any length.               *)
(***************************************************************************)
EXTENDS Bench, SequenceTheorems, WellFoundedInduction, TLAPS

-----------------------------------------------------------------------------
(* The binary search.                                                      *)

\* Every set of numbers that is not empty has a least element.
LEMMA LeastExists ==
    ASSUME NEW T \in SUBSET Nat, T # {}
    PROVE  \E x \in T : \A y \in T : x <= y
<1> DEFINE R == {ss \in Nat \X Nat : ss[1] < ss[2]}
<1>1. IsWellFoundedOn(R, Nat)
  BY NatLessThanWellFounded DEF OpToRel
<1> HIDE DEF R
<1>2. PICK x \in T : \A y \in T : ~(<<y, x>> \in R)
  BY <1>1, WFMin
<1>3. \A y \in T : ~(y < x)
  BY <1>2 DEF R
<1> QED BY <1>2, <1>3

\* Induction over the numbers up to N, for the numbers of a set.
LEMMA UpTo ==
    ASSUME NEW N \in Nat, NEW P, 0 \in P, \A i \in 1..N : i - 1 \in P => i \in P
    PROVE  \A i \in 0..N : i \in P
<1> DEFINE T == {i \in 0..N : i \notin P}
<1>1. SUFFICES T = {}
  OBVIOUS
<1>2. SUFFICES ASSUME T # {} PROVE FALSE
  OBVIOUS
<1>3. PICK i \in T : \A j \in T : i <= j
  <2>1. T \in SUBSET Nat
    OBVIOUS
  <2> HIDE DEF T
  <2> QED BY <1>2, <2>1, LeastExists
<1>4. i \in 1..N /\ i - 1 \in 0..N /\ i - 1 \notin T
  BY <1>3
<1> QED BY <1>3, <1>4

\* What the search does with a span, once it knows the spans in it.
Spans == (0..NTicks) \X (0..NTicks)
Mid(r) == (r[1] + r[2]) \div 2
Searched(f, ticks, price, r) ==
    IF r[1] >= r[2] THEN r[1]
    ELSE IF ticks[Mid(r) + 1].price < price THEN f[<<Mid(r) + 1, r[2]>>]
    ELSE f[<<r[1], Mid(r)>>]

Width(r) == r[2] - r[1]

\* Both halves of a span that is not empty are spans, and shorter.
LEMMA Halves ==
    ASSUME NEW r \in Spans, r[1] < r[2]
    PROVE  /\ <<Mid(r) + 1, r[2]>> \in Spans /\ Width(<<Mid(r) + 1, r[2]>>) < Width(r)
           /\ <<r[1], Mid(r)>> \in Spans /\ Width(<<r[1], Mid(r)>>) < Width(r)
           /\ Mid(r) \in r[1]..(r[2] - 1)
<1>1. r[1] \in 0..NTicks /\ r[2] \in 0..NTicks /\ NTicks \in Nat
  BY PlantedAssumption DEF Spans
<1>2. Mid(r) \in Int /\ 2 * Mid(r) <= r[1] + r[2] /\ r[1] + r[2] <= 2 * Mid(r) + 1
  BY <1>1 DEF Mid
<1>3. Mid(r) \in r[1]..(r[2] - 1)
  BY <1>1, <1>2
<1>4. <<Mid(r) + 1, r[2]>> \in Spans /\ <<r[1], Mid(r)>> \in Spans
  BY <1>1, <1>3 DEF Spans
<1>5. Width(<<Mid(r) + 1, r[2]>>) < Width(r) /\ Width(<<r[1], Mid(r)>>) < Width(r)
  BY <1>1, <1>3 DEF Width
<1> QED BY <1>3, <1>4, <1>5

\* The recursion of the search has a function that follows it.
LEMMA SearchExists ==
    ASSUME NEW ticks, NEW price
    PROVE  \E f : f = [r \in Spans |-> Searched(f, ticks, price, r)]
<1> DEFINE To(w, f) == f = [r \in Spans |-> f[r]]
                       /\ \A r \in Spans : Width(r) <= w => f[r] = Searched(f, ticks, price, r)
           P == {w \in 0..NTicks : \E f : To(w, f)}
<1>n. NTicks \in Nat
  BY PlantedAssumption
<1>0. \A r \in Spans : r[1] \in 0..NTicks /\ r[2] \in 0..NTicks /\ Width(r) \in Int /\ Width(r) <= NTicks
  BY <1>n DEF Spans, Width
<1>1. 0 \in P
  <2> DEFINE f == [r \in Spans |-> r[1]]
  <2>1. ASSUME NEW r \in Spans, Width(r) <= 0 PROVE f[r] = Searched(f, ticks, price, r)
    BY <1>0, <2>1 DEF Width, Searched
  <2>2. To(0, f)
    BY <2>1
  <2> HIDE DEF To, f
  <2> QED BY <2>2, <1>n
<1>2. ASSUME NEW w \in 1..NTicks, w - 1 \in P PROVE w \in P
  <2>1. PICK f : To(w - 1, f)
    BY <1>2
  <2> DEFINE g == [r \in Spans |-> Searched(f, ticks, price, r)]
  <2>2. ASSUME NEW r \in Spans, Width(r) <= w - 1 PROVE g[r] = f[r]
    BY <2>1, <2>2
  <2>3. ASSUME NEW r \in Spans, Width(r) <= w PROVE g[r] = Searched(g, ticks, price, r)
    <3>1. CASE r[1] >= r[2]
      BY <3>1 DEF Searched
    <3>2. CASE ~(r[1] >= r[2])
      <4>1. r[1] < r[2]
        BY <1>0, <3>2
      <4> DEFINE a == <<Mid(r) + 1, r[2]>>
                 b == <<r[1], Mid(r)>>
      <4>2. a \in Spans /\ Width(a) < Width(r) /\ b \in Spans /\ Width(b) < Width(r)
        BY <4>1, Halves
      <4>3. Width(a) <= w - 1 /\ Width(b) <= w - 1
        <5> HIDE DEF a, b
        <5> QED BY <4>2, <2>3, <1>0
      <4>4. g[a] = f[a] /\ g[b] = f[b]
        <5> HIDE DEF a, b, g
        <5> QED BY <4>2, <4>3, <2>2
      <4>5. g[r] = IF ticks[Mid(r) + 1].price < price THEN f[a] ELSE f[b]
        BY <3>2 DEF Searched
      <4>6. Searched(g, ticks, price, r) = IF ticks[Mid(r) + 1].price < price THEN g[a] ELSE g[b]
        <5> HIDE DEF g
        <5> QED BY <3>2 DEF Searched
      <4> HIDE DEF g, a, b
      <4> QED BY <4>4, <4>5, <4>6
    <3> QED BY <3>1, <3>2
  <2>4. To(w, g)
    <3>1. g = [r \in Spans |-> g[r]]
      OBVIOUS
    <3> HIDE DEF g
    <3> QED BY <2>3, <3>1
  <2> HIDE DEF To, g
  <2> QED BY <2>4
<1> HIDE DEF P
<1>3. \A w \in 0..NTicks : w \in P
  BY <1>1, <1>2, <1>n, UpTo
<1>4. PICK f : To(NTicks, f)
  BY <1>3, <1>n DEF P
<1>5. \A r \in Spans : f[r] = Searched(f, ticks, price, r)
  BY <1>0, <1>4
<1>6. f = [r \in Spans |-> Searched(f, ticks, price, r)]
  <2>1. f = [r \in Spans |-> f[r]]
    BY <1>4
  <2> QED BY <1>5, <2>1
<1> QED BY <1>6

\* A tick of a book: orders of the user, or, with the plant, of no one.
Ticks == [price : Nat, n_orders : Nat, owners : Seq({User, Zero})]

Sorted(ticks) == \A i \in 1..Len(ticks) : \A j \in 1..Len(ticks) :
                     i < j => ticks[i].price < ticks[j].price

\* Where a price belongs in a span of the ticks.
Bounds(ticks, price, r, at) ==
    /\ at \in r[1]..r[2]
    /\ Sorted(ticks) =>
          /\ \A i \in (r[1] + 1)..at : ticks[i].price < price
          /\ \A i \in (at + 1)..r[2] : ticks[i].price >= price

\* The search finds where the price belongs, and when the ticks are out of
\* order still some place between them.
LEMMA BoundFound ==
    ASSUME NEW ticks \in Seq(Ticks), Len(ticks) <= NTicks, NEW price \in Nat
    PROVE  Bounds(ticks, price, <<0, Len(ticks)>>, LowerBound(ticks, price))
<1> DEFINE from == CHOOSE f : f = [r \in Spans |-> Searched(f, ticks, price, r)]
           N == Len(ticks)
<1>n. NTicks \in Nat /\ N \in 0..NTicks
  BY PlantedAssumption
<1>1. from = [r \in Spans |-> Searched(from, ticks, price, r)]
  <2> HIDE DEF N
  <2> QED BY SearchExists
<1>2. LowerBound(ticks, price) = from[<<0, N>>]
  BY DEF LowerBound, Spans, Searched, Mid
<1> HIDE DEF from
<1>3. \A r \in Spans : from[r] = Searched(from, ticks, price, r)
  BY <1>1
<1> DEFINE Within(r) == r[1] <= r[2] /\ r[2] <= N
           P == {w \in 0..NTicks : \A r \in Spans :
                    Within(r) /\ Width(r) <= w => Bounds(ticks, price, r, from[r])}
<1>4. \A r \in Spans : r[1] \in 0..NTicks /\ r[2] \in 0..NTicks
                       /\ (Within(r) => Width(r) \in 0..NTicks)
  BY <1>n DEF Spans, Width
<1>5. ASSUME NEW r \in Spans, Within(r), ~(r[1] < r[2])
      PROVE  Bounds(ticks, price, r, from[r])
  <2>1. r[1] = r[2]
    BY <1>4, <1>5
  <2>3. from[r] = Searched(from, ticks, price, r)
    BY <1>3
  <2>2. from[r] = r[1]
    BY <2>1, <2>3, <1>4 DEF Searched
  <2> QED BY <2>1, <2>2, <1>4 DEF Bounds
<1>6. 0 \in P
  <2>1. ASSUME NEW r \in Spans, Within(r), Width(r) <= 0 PROVE Bounds(ticks, price, r, from[r])
    <3>1. ~(r[1] < r[2])
      BY <1>4, <2>1 DEF Width
    <3> QED BY <1>5, <2>1, <3>1
  <2> QED BY <2>1, <1>n
<1>7. ASSUME NEW w \in 1..NTicks, w - 1 \in P PROVE w \in P
  <2>1. ASSUME NEW r \in Spans, Within(r), Width(r) <= w PROVE Bounds(ticks, price, r, from[r])
    <3>1. CASE ~(r[1] < r[2])
      BY <1>5, <2>1, <3>1
    <3>2. CASE r[1] < r[2]
      <4> DEFINE m == Mid(r)
                 a == <<m + 1, r[2]>>
                 b == <<r[1], m>>
                 v == from[r]
      <4>1. /\ a \in Spans /\ Width(a) < Width(r) /\ b \in Spans /\ Width(b) < Width(r)
            /\ m \in r[1]..(r[2] - 1)
        BY <3>2, Halves
      <4> HIDE DEF m
      <4>2. Within(a) /\ Within(b)
        BY <1>4, <1>n, <2>1, <4>1
      <4>3. Width(a) <= w - 1 /\ Width(b) <= w - 1
        <5> HIDE DEF a, b
        <5> QED BY <1>4, <2>1, <4>1, <4>2
      <4>4. Bounds(ticks, price, a, from[a]) /\ Bounds(ticks, price, b, from[b])
        <5> HIDE DEF a, b
        <5> QED BY <1>7, <4>1, <4>2, <4>3
      <4>5. v = IF ticks[m + 1].price < price THEN from[a] ELSE from[b]
        BY <1>3, <1>4, <3>2 DEF Searched, m
      <4>6. m + 1 \in 1..N /\ ticks[m + 1] \in Ticks
        BY <1>4, <1>n, <2>1, <4>1
      <4>7. \A i \in 1..N : ticks[i].price \in Nat
        <5>1. \A i \in 1..N : ticks[i] \in Ticks
          OBVIOUS
        <5> QED BY <5>1 DEF Ticks
      <4> HIDE DEF v, N
      <4>8. CASE ticks[m + 1].price < price
        <5>1. Bounds(ticks, price, a, v)
          <6> HIDE DEF a
          <6> QED BY <4>4, <4>5, <4>8
        <5>2. v \in (m + 1)..r[2]
          BY <5>1 DEF Bounds
        <5>3. v \in r[1]..r[2]
          BY <5>2, <4>1, <1>4
        <5>4. ASSUME Sorted(ticks), NEW i \in (r[1] + 1)..v PROVE ticks[i].price < price
          <6>1. i \in 1..N
            BY <5>2, <5>4, <1>4, <2>1, <1>n
          <6>2. CASE i > m + 1
            <7>1. i \in (m + 1 + 1)..v
              BY <6>2, <5>4, <4>1, <1>4, <5>2
            <7> QED BY <5>1, <5>4, <7>1 DEF Bounds
          <6>3. CASE i < m + 1
            <7>1. ticks[i].price < ticks[m + 1].price
              BY <5>4, <6>1, <6>3, <4>6 DEF Sorted, N
            <7> QED BY <7>1, <4>6, <4>7, <4>8, <6>1
          <6>4. CASE i = m + 1
            BY <6>4, <4>8
          <6> QED BY <6>1, <6>2, <6>3, <6>4, <4>6, <1>n
        <5>5. ASSUME Sorted(ticks), NEW i \in (v + 1)..r[2] PROVE ticks[i].price >= price
          BY <5>1, <5>5 DEF Bounds
        <5> QED BY <5>3, <5>4, <5>5 DEF Bounds, v
      <4>9. CASE ~(ticks[m + 1].price < price)
        <5>1. Bounds(ticks, price, b, v)
          <6> HIDE DEF b
          <6> QED BY <4>4, <4>5, <4>9
        <5>2. v \in r[1]..m
          BY <5>1 DEF Bounds
        <5>3. v \in r[1]..r[2]
          BY <5>2, <4>1, <1>4
        <5>4. ASSUME Sorted(ticks), NEW i \in (r[1] + 1)..v PROVE ticks[i].price < price
          BY <5>1, <5>4 DEF Bounds
        <5>5. ASSUME Sorted(ticks), NEW i \in (v + 1)..r[2] PROVE ticks[i].price >= price
          <6>1. i \in 1..N
            BY <5>2, <5>5, <1>4, <2>1, <1>n
          <6>2. CASE i <= m
            <7>1. i \in (v + 1)..m
              BY <6>2, <5>5, <4>1, <1>4, <5>2
            <7> QED BY <5>1, <5>5, <7>1 DEF Bounds
          <6>3. CASE i > m + 1
            <7>1. ticks[m + 1].price < ticks[i].price
              BY <5>5, <6>1, <6>3, <4>6 DEF Sorted, N
            <7> QED BY <7>1, <4>6, <4>7, <4>9, <6>1
          <6>4. CASE i = m + 1
            BY <6>4, <4>9, <4>6, <4>7
          <6> QED BY <6>1, <6>2, <6>3, <6>4, <4>1, <1>4
        <5> QED BY <5>3, <5>4, <5>5 DEF Bounds, v
      <4> QED BY <4>8, <4>9
    <3> QED BY <3>1, <3>2
  <2> QED BY <2>1
<1> HIDE DEF P, Within
<1>8. \A w \in 0..NTicks : w \in P
  BY <1>6, <1>7, <1>n, UpTo
<1>9. <<0, N>> \in Spans /\ Within(<<0, N>>) /\ Width(<<0, N>>) <= NTicks
  BY <1>n DEF Spans, Within, Width
<1>10. NTicks \in P
  BY <1>8, <1>n
<1> DEFINE r == <<0, N>>
<1>11. Bounds(ticks, price, r, from[r])
  <2> HIDE DEF N, r
  <2> QED BY <1>9, <1>10 DEF P, r
<1> QED BY <1>2, <1>11

-----------------------------------------------------------------------------
(* The book.                                                               *)

IsInserted(S, x, q, i, e) ==
    /\ x \in Seq(S) /\ Len(x) = Len(q) + 1
    /\ \A j \in 1..(Len(q) + 1) :
          x[j] = IF j < i THEN q[j] ELSE IF j = i THEN e ELSE q[j - 1]

\* InsertAt(s, i, e) is s with e at i, and what was there one further on.
LEMMA Inserted ==
    ASSUME NEW S, NEW q \in Seq(S), NEW i \in 1..(Len(q) + 1), NEW e \in S
    PROVE  IsInserted(S, InsertAt(q, i, e), q, i, e)
<1> DEFINE N == Len(q)
           a == SubSeq(q, 1, i - 1)
           b == <<e>>
           c == SubSeq(q, i, N)
           ab == a \o b
<1>0. N \in Nat /\ q \in [1..N -> S]
  OBVIOUS
<1>1. a \in Seq(S) /\ Len(a) = i - 1 /\ \A j \in 1..(i - 1) : a[j] = q[j]
  <2>1. \A j \in 1..(i - 1) : q[j] \in S
    BY <1>0
  <2>2. i - 1 \in Int /\ 1 \in Int
    BY <1>0
  <2> HIDE DEF N
  <2>3. /\ a \in Seq(S) /\ Len(a) = IF 1 <= i - 1 THEN i - 1 - 1 + 1 ELSE 0
        /\ \A j \in 1..(i - 1 - 1 + 1) : a[j] = q[1 + j - 1]
    BY <2>1, <2>2, SubSeqProperties
  <2> HIDE DEF a
  <2> QED BY <2>3, <1>0
<1>2. c \in Seq(S) /\ Len(c) = N - i + 1 /\ \A j \in 1..(N - i + 1) : c[j] = q[i + j - 1]
  <2>1. \A j \in i..N : q[j] \in S
    BY <1>0
  <2>2. i \in Int /\ N \in Int
    BY <1>0
  <2> HIDE DEF N
  <2>3. /\ c \in Seq(S) /\ Len(c) = IF i <= N THEN N - i + 1 ELSE 0
        /\ \A j \in 1..(N - i + 1) : c[j] = q[i + j - 1]
    BY <2>1, <2>2, SubSeqProperties
  <2>4. i <= N + 1
    BY DEF N
  <2> HIDE DEF c
  <2> QED BY <2>3, <2>4, <1>0
<1>3. b \in Seq(S) /\ Len(b) = 1 /\ b[1] = e
  OBVIOUS
<1> HIDE DEF a, b, c
<1>4. /\ ab \in Seq(S) /\ Len(ab) = Len(a) + Len(b)
      /\ \A j \in 1..(Len(a) + Len(b)) : ab[j] = IF j <= Len(a) THEN a[j] ELSE b[j - Len(a)]
  BY <1>1, <1>3, ConcatProperties
<1> DEFINE x == ab \o c
<1> HIDE DEF ab
<1>5. /\ x \in Seq(S) /\ Len(x) = Len(ab) + Len(c)
      /\ \A j \in 1..(Len(ab) + Len(c)) : x[j] = IF j <= Len(ab) THEN ab[j] ELSE c[j - Len(ab)]
  <2>1. ab \in Seq(S) /\ c \in Seq(S)
    BY <1>2, <1>4
  <2> QED BY <2>1, ConcatProperties
<1>6. InsertAt(q, i, e) = x
  BY DEF InsertAt, x, ab, a, b, c
<1> HIDE DEF x
<1>7. Len(ab) = i /\ Len(x) = N + 1
  BY <1>0, <1>1, <1>2, <1>3, <1>4, <1>5
<1>8. ASSUME NEW j \in 1..(N + 1)
      PROVE  x[j] = IF j < i THEN q[j] ELSE IF j = i THEN e ELSE q[j - 1]
  <2>1. CASE j < i
    <3>1. j \in 1..(i - 1) /\ j <= Len(ab) /\ j <= Len(a)
      BY <2>1, <1>0, <1>1, <1>7
    <3>2. x[j] = ab[j]
      BY <3>1, <1>5, <1>7, <1>2, <1>0
    <3>3. ab[j] = a[j]
      BY <3>1, <1>4, <1>1, <1>3
    <3> QED BY <3>1, <3>2, <3>3, <1>1, <2>1
  <2>2. CASE j = i
    <3>2. x[j] = ab[j]
      BY <2>2, <1>5, <1>7, <1>2, <1>0
    <3>3. ab[j] = b[1]
      BY <2>2, <1>4, <1>1, <1>3
    <3> QED BY <3>2, <3>3, <1>3, <2>2
  <2>3. CASE j > i
    <3>1. j - i \in 1..(N - i + 1) /\ i + (j - i) - 1 = j - 1
      BY <2>3, <1>0
    <3>2. x[j] = c[j - i]
      BY <2>3, <1>5, <1>7, <1>2, <1>0
    <3>3. c[j - i] = q[j - 1]
      BY <3>1, <1>2
    <3> QED BY <3>2, <3>3, <2>3
  <2> QED BY <2>1, <2>2, <2>3, <1>0
<1> QED BY <1>5, <1>6, <1>7, <1>8 DEF IsInserted

\* A tick says how many orders it holds, and they are the user's.
Counted(tick) == tick.n_orders = Len(tick.owners) /\ tick.n_orders <= TickDepth
Owned(tick) == \A d \in DOMAIN tick.owners : tick.owners[d] = User

\* What a book is in spite of the plants `with'.
Keeping(with, ticks) ==
    /\ ticks \in Seq(Ticks) /\ Len(ticks) <= NTicks
    /\ "sort" \notin with => Sorted(ticks)
    /\ "orders" \notin with => \A i \in 1..Len(ticks) : Counted(ticks[i])
    /\ "owner" \notin with => \A i \in 1..Len(ticks) : Owned(ticks[i])

\* One order more keeps it so.
LEMMA OnePlaced ==
    ASSUME NEW with, NEW ticks, Keeping(with, ticks), NEW price \in Nat,
           NEW owner \in {User, Zero}, "owner" \notin with => owner = User,
           NEW opened \in Nat, "orders" \notin with => opened = 1,
           NEW at, at = IF "sort" \in with THEN Len(ticks) + 1 ELSE LowerBound(ticks, price) + 1
    PROVE  Keeping(with, PlaceIn(ticks, price, owner, at, opened).to)
<1> DEFINE N == Len(ticks)
           bound == LowerBound(ticks, price)
           lo == bound + 1
           old == ticks[lo]
           joined == [price |-> price, n_orders |-> old.n_orders + 1, owners |-> Append(old.owners, owner)]
           fresh == [price |-> price, n_orders |-> opened, owners |-> <<owner>>]
           more == [ticks EXCEPT ![lo] = joined]
           longer == InsertAt(ticks, at, fresh)
           placed == PlaceIn(ticks, price, owner, at, opened)
<1>1. ticks \in Seq(Ticks) /\ N <= NTicks /\ N \in Nat /\ NTicks \in Nat /\ TickDepth \in Nat
      /\ TickDepth >= 2
  BY PlantedAssumption DEF Keeping
<1>2. Bounds(ticks, price, <<0, N>>, bound)
  BY <1>1, BoundFound
<1>3. bound \in 0..N
  BY <1>2 DEF Bounds
<1>4. \A i \in 1..N : /\ ticks[i] = [price |-> ticks[i].price, n_orders |-> ticks[i].n_orders,
                                     owners |-> ticks[i].owners]
                      /\ ticks[i].price \in Nat /\ ticks[i].n_orders \in Nat
                      /\ ticks[i].owners \in Seq({User, Zero})
  <2>1. \A i \in 1..N : ticks[i] \in Ticks
    BY <1>1
  <2> HIDE DEF N
  <2> QED BY <2>1 DEF Ticks
<1>5. \/ placed.to = ticks
      \/ lo <= N /\ old.price = price /\ old.n_orders < TickDepth /\ placed.to = more
      \/ ~(lo <= N /\ old.price = price) /\ N < NTicks /\ placed.to = longer
  BY DEF PlaceIn, Accepted, Refused
<1>8. \A i \in 1..N : ticks[i].price \in Nat
  <2> HIDE DEF N
  <2> QED BY <1>4
<1>s. SUFFICES Keeping(with, placed.to)
  OBVIOUS
<1> HIDE DEF placed, bound
<1>6. CASE lo <= N /\ old.price = price /\ old.n_orders < TickDepth /\ placed.to = more
  <2>1. lo \in 1..N
    BY <1>1, <1>3, <1>6
  <2>2. old.owners \in Seq({User, Zero}) /\ old.n_orders \in Nat
    BY <1>4, <2>1
  <2>3. joined \in Ticks
    <3>1. Append(old.owners, owner) \in Seq({User, Zero})
      <4> HIDE DEF old
      <4> QED BY <2>2
    <3> HIDE DEF old
    <3> QED BY <3>1, <2>2 DEF Ticks
  <2>4. joined.price = price /\ joined.n_orders = old.n_orders + 1
        /\ joined.owners = Append(old.owners, owner)
    OBVIOUS
  <2> HIDE DEF old, joined
  <2>5. /\ more \in Seq(Ticks) /\ Len(more) = N
        /\ \A i \in 1..N : more[i] = IF i = lo THEN joined ELSE ticks[i]
    <3> HIDE DEF lo
    <3> QED BY <1>1, <2>1, <2>3
  <2>6. \A i \in 1..N : more[i].price = ticks[i].price
    BY <2>1, <2>4, <2>5, <1>6 DEF old
  <2> HIDE DEF more, lo
  <2>7. ASSUME "sort" \notin with PROVE Sorted(more)
    <3>1. Sorted(ticks)
      BY <2>7 DEF Keeping
    <3> QED BY <3>1, <2>5, <2>6 DEF Sorted
  <2>8. ASSUME "orders" \notin with, NEW i \in 1..N PROVE Counted(more[i])
    <3>1. Counted(ticks[i])
      BY <2>8 DEF Keeping
    <3>2. CASE i = lo
      <4>1. Counted(old)
        BY <3>1, <3>2 DEF old
      <4>2. Len(Append(old.owners, owner)) = Len(old.owners) + 1
        BY <2>2
      <4>3. Counted(joined)
        BY <4>1, <4>2, <2>2, <2>4, <1>1, <1>6 DEF Counted
      <4> QED BY <4>3, <2>5, <3>2
    <3>3. CASE i # lo
      BY <3>1, <3>3, <2>5
    <3> QED BY <3>2, <3>3
  <2>9. ASSUME "owner" \notin with, NEW i \in 1..N PROVE Owned(more[i])
    <3>1. Owned(ticks[i])
      BY <2>9 DEF Keeping
    <3>2. CASE i = lo
      <4>1. Owned(old) /\ owner = User
        BY <3>1, <3>2, <2>9 DEF old
      <4> DEFINE q == old.owners
      <4>2. \A d \in DOMAIN Append(q, owner) : Append(q, owner)[d] = User
        <5>1. q \in Seq({User, Zero}) /\ \A d \in DOMAIN q : q[d] = User
          BY <2>2, <4>1 DEF Owned
        <5> HIDE DEF q
        <5> QED BY <5>1, <4>1
      <4>3. Owned(joined)
        BY <4>2, <2>4 DEF Owned
      <4> QED BY <4>3, <2>5, <3>2
    <3>3. CASE i # lo
      BY <3>1, <3>3, <2>5
    <3> QED BY <3>2, <3>3
  <2>10. Keeping(with, more)
    BY <1>1, <2>5, <2>7, <2>8, <2>9 DEF Keeping
  <2> QED BY <1>6, <2>10
<1>7. CASE ~(lo <= N /\ old.price = price) /\ N < NTicks /\ placed.to = longer
  <2>1. at \in 1..(N + 1) /\ ("sort" \notin with => at = lo)
    BY <1>1, <1>3 DEF bound
  <2>2. fresh \in Ticks /\ fresh.price = price /\ fresh.n_orders = opened /\ fresh.owners = <<owner>>
    BY DEF Ticks
  <2> HIDE DEF fresh
  <2>3. /\ longer \in Seq(Ticks) /\ Len(longer) = N + 1
        /\ \A j \in 1..(N + 1) : longer[j] =
              IF j < at THEN ticks[j] ELSE IF j = at THEN fresh ELSE ticks[j - 1]
    <3>1. IsInserted(Ticks, longer, ticks, at, fresh)
      BY <1>1, <2>1, <2>2, Inserted
    <3> HIDE DEF longer
    <3> QED BY <3>1 DEF IsInserted
  <2> HIDE DEF longer, N
  <2>4. \A j \in 1..(N + 1) : \/ j < at /\ j \in 1..N /\ longer[j] = ticks[j]
                              \/ j = at /\ longer[j] = fresh
                              \/ j > at /\ j - 1 \in 1..N /\ longer[j] = ticks[j - 1]
    BY <1>1, <2>1, <2>3
  <2>5. ASSUME "sort" \notin with PROVE Sorted(longer)
    <3>1. Sorted(ticks) /\ at = bound + 1
      BY <2>1, <2>5 DEF Keeping
    <3>2. \A i \in 1..bound : ticks[i].price < price
      BY <3>1, <1>2 DEF Bounds
    <3>3. \A i \in (bound + 1)..N : ticks[i].price >= price
      BY <3>1, <1>2 DEF Bounds
    <3>4. \A i \in (bound + 1)..N : ticks[i].price > price
      <4> TAKE i \in (bound + 1)..N
      <4>1. CASE i = bound + 1
        <5>1. lo <= N /\ i \in 1..N
          BY <4>1, <1>1, <1>3
        <5>2. old.price # price /\ ticks[i].price # price
          BY <5>1, <1>7, <4>1
        <5> QED BY <5>1, <5>2, <3>3, <1>8
      <4>2. CASE i > bound + 1
        <5>1. bound + 1 \in 1..N /\ bound + 1 \in (bound + 1)..N /\ i \in 1..N
          BY <4>2, <1>1, <1>3
        <5>2. ticks[bound + 1].price < ticks[i].price
          BY <5>1, <4>2, <3>1 DEF Sorted, N
        <5>3. ticks[bound + 1].price >= price
          BY <3>3, <5>1
        <5> QED BY <5>1, <5>2, <5>3, <1>8
      <4> QED BY <4>1, <4>2, <1>1, <1>3
    <3>5. ASSUME NEW i \in 1..(N + 1), NEW j \in 1..(N + 1), i < j
          PROVE  longer[i].price < longer[j].price
      <4>1. CASE j < at
        <5>1. i < at /\ i \in 1..N /\ j \in 1..N /\ longer[i] = ticks[i] /\ longer[j] = ticks[j]
          BY <2>3, <3>5, <4>1, <1>1, <2>1
        <5> QED BY <5>1, <3>5, <3>1 DEF Sorted, N
      <4>2. CASE j = at
        <5>0. i < at /\ i \in 1..bound
          BY <3>1, <3>5, <4>2, <1>1, <1>3
        <5>1. i \in 1..bound /\ longer[i] = ticks[i] /\ longer[j] = fresh
          BY <2>3, <5>0, <4>2, <2>1
        <5> QED BY <5>1, <3>2, <2>2
      <4>3. CASE j > at /\ i < at
        <5>1. /\ i \in 1..bound /\ i \in 1..N /\ j - 1 \in (bound + 1)..N /\ j - 1 \in 1..N
              /\ longer[i] = ticks[i] /\ longer[j] = ticks[j - 1]
          BY <2>3, <3>1, <3>5, <4>3, <1>1, <1>3, <2>1
        <5>2. ticks[i].price < price /\ ticks[j - 1].price > price
          BY <5>1, <3>2, <3>4
        <5> QED BY <5>1, <5>2, <1>8
      <4>4. CASE j > at /\ i = at
        <5>1. j - 1 \in (bound + 1)..N /\ j - 1 \in 1..N /\ longer[i] = fresh /\ longer[j] = ticks[j - 1]
          BY <2>3, <3>1, <3>5, <4>4, <1>1, <1>3, <2>1
        <5> QED BY <5>1, <3>4, <2>2, <1>8
      <4>5. CASE j > at /\ i > at
        <5>1. /\ i - 1 \in 1..N /\ j - 1 \in 1..N /\ i - 1 < j - 1
              /\ longer[i] = ticks[i - 1] /\ longer[j] = ticks[j - 1]
          BY <2>3, <3>5, <4>5, <1>1, <2>1
        <5> QED BY <5>1, <3>1 DEF Sorted, N
      <4> QED BY <4>1, <4>2, <4>3, <4>4, <4>5, <2>1, <1>1
    <3> QED BY <3>5, <2>3 DEF Sorted
  <2>6. ASSUME "orders" \notin with, NEW i \in 1..(N + 1) PROVE Counted(longer[i])
    <3>1. \A j \in 1..N : Counted(ticks[j])
      BY <2>6 DEF Keeping, N
    <3>2. Counted(fresh)
      BY <2>2, <2>6, <1>1 DEF Counted
    <3> QED BY <2>4, <3>1, <3>2
  <2>7. ASSUME "owner" \notin with, NEW i \in 1..(N + 1) PROVE Owned(longer[i])
    <3>1. \A j \in 1..N : Owned(ticks[j])
      BY <2>7 DEF Keeping, N
    <3>2. Owned(fresh)
      BY <2>2, <2>7 DEF Owned
    <3> QED BY <2>4, <3>1, <3>2
  <2>8. Keeping(with, longer)
    BY <1>1, <1>7, <2>3, <2>5, <2>6, <2>7 DEF Keeping
  <2> QED BY <1>7, <2>8
<1> QED BY <1>5, <1>6, <1>7


-----------------------------------------------------------------------------
(* What each program leaves of its accounts, whatever its plants.          *)

\* Nothing refused changes anything, and what is accepted is either.
LEMMA Placement ==
    ASSUME NEW a, NEW q, NEW book
    PROVE  \/ Placed(a, q, book) = Refused(a)
           \/ Placed(a, q, book) = Accepted([sequence |-> q, ticks |-> book.to])
BY DEF Placed

IsBook(with, a) ==
    /\ a = [sequence |-> a.sequence, ticks |-> a.ticks] /\ a.sequence \in Nat
    /\ Keeping(with, a.ticks)

LEMMA AnchorKeeps ==
    ASSUME NEW with, NEW a, IsBook(with, a), NEW price \in Nat
    PROVE  IsBook(with, PlaceOrderAnchor(with, a, price, User, TRUE).to)
<1> DEFINE q == IF "sequence" \in with /\ a.sequence % 2 = 1 THEN 0 ELSE a.sequence + 1
           owner == IF "owner" \in with THEN Zero ELSE User
           at == IF "sort" \in with THEN Len(a.ticks) + 1 ELSE LowerBound(a.ticks, price) + 1
           opened == IF "orders" \in with THEN TickDepth + 1 ELSE 1
           book == PlaceIn(a.ticks, price, owner, at, opened)
<1>1. q \in Nat /\ owner \in {User, Zero} /\ ("owner" \notin with => owner = User)
      /\ opened \in Nat /\ ("orders" \notin with => opened = 1)
  BY PlantedAssumption DEF IsBook
<1>2. PlaceOrderAnchor(with, a, price, User, TRUE) = Placed(a, q, book)
  BY DEF PlaceOrderAnchor
<1>3. Keeping(with, a.ticks) /\ at = IF "sort" \in with THEN Len(a.ticks) + 1
                                     ELSE LowerBound(a.ticks, price) + 1
  BY DEF IsBook
<1> HIDE DEF q, owner, opened, at
<1>4. Keeping(with, book.to)
  BY <1>1, <1>3, OnePlaced
<1> HIDE DEF book
<1>5. IsBook(with, [sequence |-> q, ticks |-> book.to])
  BY <1>1, <1>4 DEF IsBook
<1>6. \/ Placed(a, q, book) = Refused(a)
      \/ Placed(a, q, book) = Accepted([sequence |-> q, ticks |-> book.to])
  BY Placement
<1>7. \/ Placed(a, q, book).to = a
      \/ Placed(a, q, book).to = [sequence |-> q, ticks |-> book.to]
  BY <1>6 DEF Accepted, Refused
<1> QED BY <1>2, <1>5, <1>7

LEMMA PinocchioKeeps ==
    ASSUME NEW with, NEW a, IsBook(with, a), NEW price \in Nat
    PROVE  IsBook(with, PlaceOrderPinocchio(with, a, price, User, TRUE).to)
<1> DEFINE q == a.sequence + 1
           at == IF "sort" \in with THEN Len(a.ticks) + 1 ELSE LowerBound(a.ticks, price) + 1
           book == PlaceIn(a.ticks, price, User, at, 1)
<1>1. q \in Nat /\ User \in {User, Zero} /\ 1 \in Nat
  BY DEF IsBook
<1>2. PlaceOrderPinocchio(with, a, price, User, TRUE) = Placed(a, q, book)
  BY DEF PlaceOrderPinocchio
<1>3. Keeping(with, a.ticks) /\ at = IF "sort" \in with THEN Len(a.ticks) + 1
                                     ELSE LowerBound(a.ticks, price) + 1
  BY DEF IsBook
<1> HIDE DEF q, at
<1>4. Keeping(with, book.to)
  BY <1>1, <1>3, OnePlaced
<1> HIDE DEF book
<1>5. IsBook(with, [sequence |-> q, ticks |-> book.to])
  BY <1>1, <1>4 DEF IsBook
<1>6. \/ Placed(a, q, book) = Refused(a)
      \/ Placed(a, q, book) = Accepted([sequence |-> q, ticks |-> book.to])
  BY Placement
<1>7. \/ Placed(a, q, book).to = a
      \/ Placed(a, q, book).to = [sequence |-> q, ticks |-> book.to]
  BY <1>6 DEF Accepted, Refused
<1> QED BY <1>2, <1>5, <1>7

\* A pool reports as much as it pays out, but perhaps more than it took in.
IsPool(a) ==
    /\ a = [reserveIn |-> a.reserveIn, reserveOut |-> a.reserveOut, userSrc |-> a.userSrc,
            userDst |-> a.userDst, vaultIn |-> a.vaultIn, vaultOut |-> a.vaultOut]
    /\ a.reserveIn \in Nat \ {0} /\ a.reserveOut \in Nat /\ a.userSrc \in Nat
    /\ a.userDst \in Nat /\ a.vaultIn \in Nat /\ a.vaultOut = a.reserveOut

\* What a swap pays, rounded down, leaves the product of the reserves.
LEMMA ProductKept ==
    ASSUME NEW ri \in Nat \ {0}, NEW ro \in Nat, NEW f \in Nat, NEW a \in Nat, f <= a,
           NEW out \in Nat, out <= ro, out = (ro * f) \div (ri + f), NEW drift \in Nat
    PROVE  (ri + a + drift) * (ro - out) >= ri * ro
<1>1. out * (ri + f) <= ro * f
  <2> DEFINE x == ro * f
             y == ri + f
  <2>1. x \in Nat /\ y \in Nat /\ y > 0 /\ out = x \div y
    OBVIOUS
  <2> HIDE DEF x, y
  <2>2. out * y <= x
    BY <2>1
  <2> QED BY <2>2 DEF x, y
<1> DEFINE left == ro - out
<1>2. left \in Nat /\ ro = left + out
  OBVIOUS
<1>3. (ri + f) * left >= ri * ro
  <2>1. (ri + f) * left = (ri + f) * ro - (ri + f) * out
    BY <1>2
  <2>2. (ri + f) * ro = ri * ro + ro * f
    OBVIOUS
  <2> QED BY <1>1, <2>1, <2>2
<1>4. (ri + a + drift) * left >= (ri + f) * left
  <2> DEFINE more == a - f + drift
  <2>1. more \in Nat /\ ri + a + drift = (ri + f) + more
    OBVIOUS
  <2> HIDE DEF more, left
  <2>2. ((ri + f) + more) * left = (ri + f) * left + more * left
    BY <1>2, <2>1
  <2>3. more * left >= 0
    BY <1>2, <2>1
  <2> QED BY <2>1, <2>2, <2>3, <1>2
<1> QED BY <1>2, <1>3, <1>4

Kept(with, a, b) ==
    /\ "out" \notin with => b.reserveIn * b.reserveOut >= a.reserveIn * a.reserveOut
    /\ "in" \notin with => /\ b.reserveIn - a.reserveIn = b.vaultIn - a.vaultIn
                           /\ b.reserveOut - a.reserveOut = b.vaultOut - a.vaultOut

LEMMA SwapKeeps ==
    ASSUME NEW with, NEW a, IsPool(a), NEW amount \in Nat
    PROVE  LET out == Swap(with, a, amount) IN IsPool(out.to) /\ (out.ok => Kept(with, a, out.to))
<1> DEFINE f == (amount * (10000 - FeeBps)) \div 10000
           times == IF "out" \in with THEN 2 ELSE 1
           paid == (a.reserveOut * f * times) \div (a.reserveIn + f)
           drift == IF "in" \in with THEN 1 ELSE 0
           b == [reserveIn |-> a.reserveIn + amount + drift, reserveOut |-> a.reserveOut - paid,
                 userSrc |-> a.userSrc - amount, userDst |-> a.userDst + paid,
                 vaultIn |-> a.vaultIn + amount, vaultOut |-> a.vaultOut - paid]
           out == Swap(with, a, amount)
<1>1. FeeBps \in 0..10000
  BY PlantedAssumption
<1>2. f \in Nat /\ f <= amount
  <2>1. 10000 - FeeBps \in Nat /\ 10000 - FeeBps <= 10000
    BY <1>1
  <2> DEFINE rate == 10000 - FeeBps
             x == amount * rate
  <2> HIDE DEF rate
  <2>2. rate \in Nat /\ rate <= 10000
    BY <2>1 DEF rate
  <2>3. x \in Nat /\ x <= amount * 10000
    BY <2>2
  <2>4. f = x \div 10000
    BY DEF rate
  <2> HIDE DEF f, x
  <2> QED BY <2>3, <2>4
<1>3. /\ a.reserveIn \in Nat \ {0} /\ a.reserveOut \in Nat /\ a.userSrc \in Nat
      /\ a.userDst \in Nat /\ a.vaultIn \in Nat /\ a.vaultOut = a.reserveOut
  BY DEF IsPool
<1>4. drift \in Nat /\ times \in Nat /\ ("in" \notin with => drift = 0)
      /\ ("out" \notin with => times = 1)
  OBVIOUS
<1>5. paid \in Nat
  <2> HIDE DEF f, times
  <2> DEFINE x == a.reserveOut * f * times
             y == a.reserveIn + f
  <2>1. x \in Nat /\ y \in Nat /\ y > 0
    BY <1>2, <1>3, <1>4
  <2>2. paid = x \div y
    OBVIOUS
  <2> HIDE DEF x, y, paid
  <2> QED BY <2>1, <2>2
<1>6. \/ out = Refused(a)
      \/ amount <= a.userSrc /\ paid <= a.vaultOut /\ out = Accepted(b)
  BY DEF Swap, AfterFee
<1>7. CASE out = Refused(a)
  BY <1>7 DEF Refused
<1>8. CASE amount <= a.userSrc /\ paid <= a.vaultOut /\ out = Accepted(b)
  <2>1. "out" \notin with => paid = (a.reserveOut * f) \div (a.reserveIn + f)
    <3> HIDE DEF f
    <3> SUFFICES ASSUME "out" \notin with PROVE a.reserveOut * f * times = a.reserveOut * f
      OBVIOUS
    <3> QED BY <1>2, <1>3, <1>4
  <2> HIDE DEF f, times, paid, drift, out
  <2>2. IsPool(b)
    BY <1>3, <1>4, <1>5, <1>8 DEF IsPool
  <2>3. ASSUME "out" \notin with PROVE b.reserveIn * b.reserveOut >= a.reserveIn * a.reserveOut
    <3>1. (a.reserveIn + amount + drift) * (a.reserveOut - paid) >= a.reserveIn * a.reserveOut
      <4> DEFINE ri == a.reserveIn
                 ro == a.reserveOut
      <4>1. ri \in Nat \ {0} /\ ro \in Nat /\ paid <= ro /\ paid = (ro * f) \div (ri + f)
        BY <1>3, <1>8, <2>1, <2>3
      <4> HIDE DEF ri, ro
      <4>2. (ri + amount + drift) * (ro - paid) >= ri * ro
        BY <1>2, <1>4, <1>5, <4>1, ProductKept
      <4> QED BY <4>2 DEF ri, ro
    <3> QED BY <3>1
  <2>4. ASSUME "in" \notin with
        PROVE  /\ b.reserveIn - a.reserveIn = b.vaultIn - a.vaultIn
               /\ b.reserveOut - a.reserveOut = b.vaultOut - a.vaultOut
    BY <1>3, <1>4, <1>5, <2>4
  <2> HIDE DEF b
  <2> QED BY <1>8, <2>2, <2>3, <2>4 DEF Accepted, Kept, out
<1> HIDE DEF out
<1>9. IsPool(out.to) /\ (out.ok => Kept(with, a, out.to))
  BY <1>6, <1>7, <1>8 DEF out
<1> QED BY <1>9 DEF out


IsPosition(a) ==
    /\ a = [slotA |-> a.slotA, slotB |-> a.slotB, health |-> a.health]
    /\ a.slotA \in Nat /\ a.slotB \in Nat /\ a.health \in Nat

\* The obligation is worth something.
LEMMA Healthy == Health \in Nat /\ Health > 0
<1> DEFINE x == DepositAmount * PriceA * 10000
           debt == BorrowAmount * PriceB
           y == IF debt = 0 THEN 1 ELSE debt
<1>1. x \in Nat /\ debt \in Nat /\ x > 0 /\ debt <= x
  BY PlantedAssumption
<1>2. Health = x \div y
  BY DEF Health
<1> HIDE DEF x, debt
<1>3. y \in Nat /\ y > 0 /\ y <= x
  BY <1>1
<1> HIDE DEF y
<1>4. x \div y \in Nat /\ x \div y > 0
  BY <1>1, <1>3
<1> QED BY <1>2, <1>4

LEMMA RefreshKeeps ==
    ASSUME NEW with, NEW a, IsPosition(a), NEW slot \in Nat
    PROVE  LET out == Refresh(with, a, slot) IN
           /\ out.ok /\ IsPosition(out.to)
           /\ "slot" \notin with => out.to.slotA = slot
           /\ "health" \notin with => out.to.health > 0
<1> DEFINE b == [slotA |-> IF "slot" \in with THEN a.slotA ELSE slot, slotB |-> slot,
                 health |-> IF "health" \in with THEN 0 ELSE Health]
<1>1. Refresh(with, a, slot) = Accepted(b)
  BY DEF Refresh, IsPosition
<1>2. IsPosition(b) /\ ("slot" \notin with => b.slotA = slot) /\ ("health" \notin with => b.health > 0)
  BY Healthy DEF IsPosition
<1> HIDE DEF b
<1> QED BY <1>1, <1>2 DEF Accepted

IsVault(a) ==
    /\ a = [totalAssets |-> a.totalAssets, totalShares |-> a.totalShares,
            position |-> a.position, user |-> a.user, vault |-> a.vault]
    /\ a.totalAssets \in Nat /\ a.totalShares \in Nat /\ a.position \in Nat
    /\ a.user \in Nat /\ a.vault \in Nat

DepositKept(with, a, b) ==
    /\ "shares" \notin with => b.totalShares - a.totalShares = b.position - a.position
    /\ "assets" \notin with => b.totalAssets - a.totalAssets = b.vault - a.vault

LEMMA DepositKeeps ==
    ASSUME NEW with, NEW a, IsVault(a), NEW amount \in Nat
    PROVE  LET out == Deposit(with, a, amount) IN
           IsVault(out.to) /\ (out.ok => DepositKept(with, a, out.to))
<1> DEFINE shares == IF a.totalShares = 0 THEN amount ELSE (amount * a.totalShares) \div a.totalAssets
           drift == IF "assets" \in with THEN 1 ELSE 0
           b == [totalAssets |-> a.totalAssets + amount + drift,
                 totalShares |-> a.totalShares + shares,
                 position |-> IF "shares" \in with THEN a.position ELSE a.position + shares,
                 user |-> a.user - amount, vault |-> a.vault + amount]
           out == Deposit(with, a, amount)
<1>1. \/ out = Refused(a)
      \/ /\ a.totalShares # 0 => a.totalAssets > 0
         /\ amount <= a.user /\ out = Accepted(b)
  BY DEF Deposit
<1>2. CASE out = Refused(a)
  BY <1>2 DEF Refused
<1>3. CASE /\ a.totalShares # 0 => a.totalAssets > 0
           /\ amount <= a.user /\ out = Accepted(b)
  <2>1. /\ a.totalAssets \in Nat /\ a.totalShares \in Nat /\ a.position \in Nat
        /\ a.user \in Nat /\ a.vault \in Nat
    BY DEF IsVault
  <2>2. shares \in Nat
    <3>1. CASE a.totalShares = 0
      BY <3>1
    <3>2. CASE a.totalShares # 0
      <4> DEFINE x == amount * a.totalShares
                 y == a.totalAssets
      <4>1. x \in Nat /\ y \in Nat /\ y > 0 /\ shares = x \div y
        BY <1>3, <2>1, <3>2
      <4> HIDE DEF x, y, shares
      <4> QED BY <4>1
    <3> QED BY <3>1, <3>2
  <2>3. drift \in Nat /\ ("assets" \notin with => drift = 0)
    OBVIOUS
  <2> HIDE DEF shares, drift, out
  <2>4. IsVault(b)
    BY <1>3, <2>1, <2>2, <2>3 DEF IsVault
  <2>5. DepositKept(with, a, b)
    BY <2>1, <2>2, <2>3 DEF DepositKept
  <2> HIDE DEF b
  <2> QED BY <1>3, <2>4, <2>5 DEF Accepted, out
<1> HIDE DEF out
<1>4. IsVault(out.to) /\ (out.ok => DepositKept(with, a, out.to))
  BY <1>1, <1>2, <1>3 DEF out
<1> QED BY <1>4 DEF out

IsFeed(a) ==
    a = [lastSlot |-> a.lastSlot, count |-> a.count] /\ a.lastSlot \in Nat /\ a.count \in Nat

LEMMA PublishKeeps ==
    ASSUME NEW with, NEW a, IsFeed(a), NEW slot \in Nat
    PROVE  LET out == PublishAnchor(with, a, slot, TRUE) IN
           /\ IsFeed(out.to)
           /\ out.ok => /\ "slot" \notin with => out.to.lastSlot = slot
                        /\ "count" \notin with => out.to.count > a.count
<1> DEFINE b == [lastSlot |-> IF "slot" \in with THEN a.lastSlot ELSE slot,
                 count |-> IF "count" \in with /\ a.count % 2 = 1 THEN 0 ELSE a.count + 1]
           out == PublishAnchor(with, a, slot, TRUE)
<1>1. out = Refused(a) \/ out = Accepted(b)
  BY DEF PublishAnchor
<1>2. IsFeed(b) /\ ("slot" \notin with => b.lastSlot = slot) /\ ("count" \notin with => b.count > a.count)
  BY DEF IsFeed
<1> HIDE DEF b, out
<1>3. IsFeed(out.to) /\ (out.ok => /\ "slot" \notin with => out.to.lastSlot = slot
                                   /\ "count" \notin with => out.to.count > a.count)
  BY <1>1, <1>2 DEF Accepted, Refused
<1> QED BY <1>3 DEF out

LEMMA PinoPublishKeeps ==
    ASSUME NEW with, NEW a, IsFeed(a), NEW slot \in Nat
    PROVE  LET out == PublishPinocchio(with, a, slot, TRUE) IN
           /\ IsFeed(out.to)
           /\ out.ok /\ "slot" \notin with => out.to.lastSlot = slot
<1> DEFINE b == [lastSlot |-> IF "slot" \in with THEN a.lastSlot ELSE slot, count |-> a.count + 1]
           out == PublishPinocchio(with, a, slot, TRUE)
<1>1. out = Refused(a) \/ out = Accepted(b)
  BY DEF PublishPinocchio
<1>2. IsFeed(b) /\ ("slot" \notin with => b.lastSlot = slot)
  BY DEF IsFeed
<1> HIDE DEF b, out
<1>3. IsFeed(out.to) /\ (out.ok /\ "slot" \notin with => out.to.lastSlot = slot)
  BY <1>1, <1>2 DEF Accepted, Refused
<1> QED BY <1>3 DEF out

-----------------------------------------------------------------------------
(* The invariant: what each harness's accounts and notes are, and what the *)
(* plants that are not in its program have left true of them.              *)

Chosen == h \in Harnesses /\ test \in TestsOf(h) /\ plants \subseteq PlantsIn(h)

BookInv == IsBook(plants, s) /\ fx = [ok |-> fx.ok]

PoolInv ==
    /\ IsPool(s) /\ fx = [pre |-> fx.pre, ok |-> fx.ok]
    /\ "out" \notin plants => CheckKNonDecreasing
    /\ "in" \notin plants => CheckReserveVaultConsistent

PositionInv ==
    /\ IsPosition(s) /\ fx = [slot |-> fx.slot, ok |-> fx.ok]
    /\ "slot" \notin plants => CheckReserveASlotTracks
    /\ "health" \notin plants => CheckHealthPositive

VaultInv ==
    /\ IsVault(s) /\ fx = [pre |-> fx.pre, ok |-> fx.ok]
    /\ "shares" \notin plants => CheckShareSupplyConsistent
    /\ "assets" \notin plants => CheckAssetsVaultConsistent

FeedInv ==
    /\ IsFeed(s) /\ fx.next \in Nat
    /\ fx = [pre |-> fx.pre, next |-> fx.next, slot |-> fx.slot, ok |-> fx.ok]
    /\ "slot" \notin plants => CheckLastSlotTracks
    /\ "count" \notin plants => CheckPublishCountStrictlyIncreases

PinoFeedInv ==
    /\ IsFeed(s) /\ fx.next \in Nat
    /\ fx = [next |-> fx.next, slot |-> fx.slot, ok |-> fx.ok]
    /\ "slot" \notin plants => CheckLastSlotTracks

HarnessInv ==
    /\ h \in Book => BookInv
    /\ h = "amm-buggy" => PoolInv
    /\ h = "refresh-buggy" => PositionInv
    /\ h = "vault-buggy" => VaultInv
    /\ h = "oracle-buggy" => FeedInv
    /\ h = "oracle-pino-buggy" => PinoFeedInv

BenchInv == Chosen /\ HarnessInv

\* The plants a harness is not asked about are not in its program.
LEMMA NoneBesides ==
    ASSUME Chosen
    PROVE  h = "matching-pino-buggy" => "orders" \notin plants /\ "owner" \notin plants
BY DEF Chosen, PlantsIn, PlantOf, SmokeOf, Range, Anchor4

LEMMA SetupInv ==
    ASSUME Chosen, s = SetupOf(h).accounts, fx = SetupOf(h).notes
    PROVE  HarnessInv
<1>1. ASSUME h \in Book PROVE BookInv
  <2>1. SetupOf(h) = [accounts |-> [sequence |-> 0, ticks |-> <<>>], notes |-> [ok |-> FALSE]]
    BY <1>1 DEF SetupOf, MatchingSetup, MatchingPinoSetup, Book, Anchor4
  <2>2. s = [sequence |-> 0, ticks |-> <<>>] /\ fx = [ok |-> FALSE]
    BY <2>1
  <2>3. Keeping(plants, <<>>)
    BY PlantedAssumption DEF Keeping, Sorted
  <2> QED BY <2>2, <2>3 DEF BookInv, IsBook
<1>2. ASSUME h = "amm-buggy" PROVE PoolInv
  <2>1. SetupOf(h) = AmmSetup
    BY <1>2 DEF SetupOf, Anchor4
  <2> QED BY <2>1, BenchAssumption
      DEF AmmSetup, PoolInv, IsPool, CheckKNonDecreasing, CheckReserveVaultConsistent
<1>3. ASSUME h = "refresh-buggy" PROVE PositionInv
  <2>1. SetupOf(h) = RefreshSetup
    BY <1>3 DEF SetupOf, Anchor4
  <2> QED BY <2>1
      DEF RefreshSetup, PositionInv, IsPosition, CheckReserveASlotTracks, CheckHealthPositive
<1>4. ASSUME h = "vault-buggy" PROVE VaultInv
  <2>1. SetupOf(h) = VaultSetup
    BY <1>4 DEF SetupOf, Anchor4
  <2> QED BY <2>1, BenchAssumption
      DEF VaultSetup, VaultInv, IsVault, CheckShareSupplyConsistent, CheckAssetsVaultConsistent
<1>5. ASSUME h = "oracle-buggy" PROVE FeedInv
  <2>1. SetupOf(h) = OracleSetup
    BY <1>5 DEF SetupOf, Anchor4
  <2> QED BY <2>1
      DEF OracleSetup, FeedInv, IsFeed, CheckLastSlotTracks, CheckPublishCountStrictlyIncreases
<1>6. ASSUME h = "oracle-pino-buggy" PROVE PinoFeedInv
  <2>1. SetupOf(h) = OraclePinoSetup
    BY <1>6 DEF SetupOf, Anchor4
  <2> QED BY <2>1 DEF OraclePinoSetup, PinoFeedInv, IsFeed, CheckLastSlotTracks
<1> QED BY <1>1, <1>2, <1>3, <1>4, <1>5, <1>6 DEF HarnessInv


\* What a send leaves: the notes taken before it, and whether it landed.
Sent(arg, notes) ==
    LET out == Run(plants, s, arg, TRUE) IN
    \/ s' = out.to /\ fx' = [notes EXCEPT !.ok = out.ok]
    \/ s' = s /\ fx' = [notes EXCEPT !.ok = FALSE]

LEMMA SendLeaves ==
    ASSUME NEW arg, NEW notes, Sends(arg, notes)
    PROVE  Sent(arg, notes) /\ h' = h /\ test' = test /\ plants' = plants
<1>1. PICK out \in {Run(plants, s, arg, TRUE), Refused(s)} :
          s' = out.to /\ fx' = [notes EXCEPT !.ok = out.ok]
  BY DEF Sends
<1>2. h' = h /\ test' = test /\ plants' = plants
  BY DEF Sends
<1>3. CASE out = Refused(s)
  <2>1. out.to = s /\ out.ok = FALSE
    BY <1>3 DEF Refused
  <2> QED BY <1>1, <1>2, <2>1 DEF Sent
<1>4. CASE out = Run(plants, s, arg, TRUE)
  BY <1>1, <1>2, <1>4 DEF Sent
<1> QED BY <1>1, <1>3, <1>4

LEMMA PlaceOrderInv == BenchInv /\ ActionPlaceOrder => HarnessInv'
<1> SUFFICES ASSUME BenchInv, ActionPlaceOrder PROVE HarnessInv'
  OBVIOUS
<1>1. PICK price \in Prices : Sends(price, fx)
  BY DEF ActionPlaceOrder
<1>2. h \in Book /\ price \in Nat
  BY BenchAssumption DEF ActionPlaceOrder
<1>3. Sent(price, fx) /\ h' = h /\ plants' = plants
  BY <1>1, SendLeaves
<1>4. IsBook(plants, s) /\ fx = [ok |-> fx.ok]
  BY <1>2 DEF BenchInv, HarnessInv, BookInv
<1>5. IsBook(plants, Run(plants, s, price, TRUE).to)
  <2>1. CASE h \in Anchor4
    <3>1. Run(plants, s, price, TRUE) = PlaceOrderAnchor(plants, s, price, User, TRUE)
      BY <2>1 DEF Run, Anchor4
    <3> QED BY <3>1, <1>2, <1>4, AnchorKeeps
  <2>2. CASE h = "matching-pino-buggy"
    <3>1. Run(plants, s, price, TRUE) = PlaceOrderPinocchio(plants, s, price, User, TRUE)
      BY <2>2 DEF Run, Anchor4
    <3> QED BY <3>1, <1>2, <1>4, PinocchioKeeps
  <2> QED BY <1>2, <2>1, <2>2 DEF Book
<1>6. IsBook(plants, s') /\ fx' = [ok |-> fx'.ok]
  <2> DEFINE out == Run(plants, s, price, TRUE)
  <2>1. \/ s' = out.to /\ fx' = [fx EXCEPT !.ok = out.ok]
        \/ s' = s /\ fx' = [fx EXCEPT !.ok = FALSE]
    BY <1>3 DEF Sent
  <2>2. s' = out.to \/ s' = s
    BY <2>1
  <2>3. IsBook(plants, s')
    BY <2>2, <1>4, <1>5
  <2> HIDE DEF out
  <2>4. ASSUME NEW no, fx' = [fx EXCEPT !.ok = no] PROVE fx' = [ok |-> fx'.ok]
    BY <2>4, <1>4
  <2>5. fx' = [ok |-> fx'.ok]
    BY <2>1, <2>4
  <2> QED BY <2>3, <2>5
<1>7. BookInv'
  BY <1>3, <1>6 DEF BookInv
<1> QED BY <1>2, <1>3, <1>7 DEF HarnessInv, Book, Anchor4

\* The notes of a pool or a vault, after the accounts are noted and the send.
LEMMA Noted ==
    ASSUME NEW f, f = [pre |-> f.pre, ok |-> f.ok], NEW w, NEW no
    PROVE  [[f EXCEPT !.pre = w] EXCEPT !.ok = no] = [pre |-> w, ok |-> no]
<1> DEFINE g == [f EXCEPT !.pre = w]
<1>1. g = [pre |-> w, ok |-> f.ok]
  OBVIOUS
<1> HIDE DEF g
<1>2. [g EXCEPT !.ok = no] = [pre |-> w, ok |-> no]
  BY <1>1
<1> QED BY <1>2 DEF g

LEMMA SwapInv == BenchInv /\ ActionSwap => HarnessInv'
<1> SUFFICES ASSUME BenchInv, ActionSwap PROVE HarnessInv'
  OBVIOUS
<1>1. PICK a \in Amounts : Sends(a, [fx EXCEPT !.pre = AmmWatched(s)])
  BY DEF ActionSwap
<1>2. h = "amm-buggy" /\ a \in Nat
  BY BenchAssumption DEF ActionSwap
<1>3. Sent(a, [fx EXCEPT !.pre = AmmWatched(s)]) /\ h' = h /\ plants' = plants
  BY <1>1, SendLeaves
<1>4. IsPool(s) /\ fx = [pre |-> fx.pre, ok |-> fx.ok]
  BY <1>2 DEF BenchInv, HarnessInv, PoolInv
<1> DEFINE out == Swap(plants, s, a)
<1>5. IsPool(out.to) /\ (out.ok => Kept(plants, s, out.to))
  BY <1>2, <1>4, SwapKeeps
<1>6. Run(plants, s, a, TRUE) = out
  BY <1>2 DEF Run, Anchor4
<1> DEFINE watched == AmmWatched(s)
<1>7. /\ watched.reserveIn = s.reserveIn /\ watched.reserveOut = s.reserveOut
      /\ watched.vaultIn = s.vaultIn /\ watched.vaultOut = s.vaultOut
  BY DEF AmmWatched
<1> HIDE DEF watched, out
<1>8. \/ s' = out.to /\ fx' = [pre |-> watched, ok |-> out.ok]
      \/ s' = s /\ fx' = [pre |-> watched, ok |-> FALSE]
  <2>1. \/ s' = out.to /\ fx' = [[fx EXCEPT !.pre = watched] EXCEPT !.ok = out.ok]
        \/ s' = s /\ fx' = [[fx EXCEPT !.pre = watched] EXCEPT !.ok = FALSE]
    BY <1>3, <1>6 DEF Sent, watched
  <2>2. [[fx EXCEPT !.pre = watched] EXCEPT !.ok = out.ok] = [pre |-> watched, ok |-> out.ok]
    BY <1>4, Noted
  <2> DEFINE no == FALSE
  <2> HIDE DEF no
  <2>3. [[fx EXCEPT !.pre = watched] EXCEPT !.ok = no] = [pre |-> watched, ok |-> no]
    BY <1>4, Noted
  <2> QED BY <2>1, <2>2, <2>3 DEF no
<1>9. /\ fx' = [pre |-> watched, ok |-> fx'.ok]
      /\ \/ s' = out.to /\ fx'.ok = out.ok
         \/ s' = s /\ fx'.ok = FALSE
  BY <1>8
<1>10. IsPool(s') /\ (fx'.ok => Kept(plants, s, s'))
  BY <1>4, <1>5, <1>9
<1>11. fx'.pre = watched /\ fx' = [pre |-> fx'.pre, ok |-> fx'.ok]
  BY <1>9
<1>12. PoolInv'
  BY <1>3, <1>7, <1>10, <1>11 DEF PoolInv, Kept, CheckKNonDecreasing, CheckReserveVaultConsistent
<1> QED BY <1>2, <1>3, <1>12 DEF HarnessInv, Book, Anchor4


LEMMA DepositInv == BenchInv /\ ActionDeposit => HarnessInv'
<1> SUFFICES ASSUME BenchInv, ActionDeposit PROVE HarnessInv'
  OBVIOUS
<1>1. PICK a \in Deposits : Sends(a, [fx EXCEPT !.pre = VaultWatched(s)])
  BY DEF ActionDeposit
<1>2. h = "vault-buggy" /\ a \in Nat
  BY BenchAssumption DEF ActionDeposit
<1>3. Sent(a, [fx EXCEPT !.pre = VaultWatched(s)]) /\ h' = h /\ plants' = plants
  BY <1>1, SendLeaves
<1>4. IsVault(s) /\ fx = [pre |-> fx.pre, ok |-> fx.ok]
  BY <1>2 DEF BenchInv, HarnessInv, VaultInv
<1> DEFINE out == Deposit(plants, s, a)
<1>5. IsVault(out.to) /\ (out.ok => DepositKept(plants, s, out.to))
  BY <1>2, <1>4, DepositKeeps
<1>6. Run(plants, s, a, TRUE) = out
  BY <1>2 DEF Run, Anchor4
<1> DEFINE watched == VaultWatched(s)
<1>7. /\ watched.totalAssets = s.totalAssets /\ watched.totalShares = s.totalShares
      /\ watched.position = s.position /\ watched.vault = s.vault
  BY DEF VaultWatched
<1> HIDE DEF watched, out
<1>8. \/ s' = out.to /\ fx' = [pre |-> watched, ok |-> out.ok]
      \/ s' = s /\ fx' = [pre |-> watched, ok |-> FALSE]
  <2>1. \/ s' = out.to /\ fx' = [[fx EXCEPT !.pre = watched] EXCEPT !.ok = out.ok]
        \/ s' = s /\ fx' = [[fx EXCEPT !.pre = watched] EXCEPT !.ok = FALSE]
    BY <1>3, <1>6 DEF Sent, watched
  <2>2. [[fx EXCEPT !.pre = watched] EXCEPT !.ok = out.ok] = [pre |-> watched, ok |-> out.ok]
    BY <1>4, Noted
  <2> DEFINE no == FALSE
  <2> HIDE DEF no
  <2>3. [[fx EXCEPT !.pre = watched] EXCEPT !.ok = no] = [pre |-> watched, ok |-> no]
    BY <1>4, Noted
  <2> QED BY <2>1, <2>2, <2>3 DEF no
<1>9. /\ fx' = [pre |-> watched, ok |-> fx'.ok]
      /\ \/ s' = out.to /\ fx'.ok = out.ok
         \/ s' = s /\ fx'.ok = FALSE
  BY <1>8
<1>10. IsVault(s') /\ (fx'.ok => DepositKept(plants, s, s'))
  BY <1>4, <1>5, <1>9
<1>11. fx'.pre = watched /\ fx' = [pre |-> fx'.pre, ok |-> fx'.ok]
  BY <1>9
<1>12. VaultInv'
  BY <1>3, <1>7, <1>10, <1>11
  DEF VaultInv, DepositKept, CheckShareSupplyConsistent, CheckAssetsVaultConsistent
<1> QED BY <1>2, <1>3, <1>12 DEF HarnessInv, Book, Anchor4

LEMMA RefreshInv == BenchInv /\ ActionRefresh => HarnessInv'
<1> SUFFICES ASSUME BenchInv, ActionRefresh PROVE HarnessInv'
  OBVIOUS
<1>1. PICK t \in Slots : Sends(t, [fx EXCEPT !.slot = t])
  BY DEF ActionRefresh
<1>2. h = "refresh-buggy" /\ t \in Nat
  BY BenchAssumption DEF ActionRefresh
<1>3. Sent(t, [fx EXCEPT !.slot = t]) /\ h' = h /\ plants' = plants
  BY <1>1, SendLeaves
<1>4. IsPosition(s) /\ fx = [slot |-> fx.slot, ok |-> fx.ok]
  BY <1>2 DEF BenchInv, HarnessInv, PositionInv
<1> DEFINE out == Refresh(plants, s, t)
<1>5. /\ IsPosition(out.to)
      /\ "slot" \notin plants => out.to.slotA = t
      /\ "health" \notin plants => out.to.health > 0
  BY <1>2, <1>4, RefreshKeeps
<1>6. Run(plants, s, t, TRUE) = out
  BY <1>2 DEF Run, Anchor4
<1> HIDE DEF out
<1> DEFINE g == [fx EXCEPT !.slot = t]
<1>7. g = [slot |-> t, ok |-> fx.ok]
  BY <1>4
<1> HIDE DEF g
<1>8. \/ s' = out.to /\ fx' = [g EXCEPT !.ok = out.ok]
      \/ s' = s /\ fx' = [g EXCEPT !.ok = FALSE]
  BY <1>3, <1>6 DEF Sent, g
<1>9. ASSUME NEW no PROVE [g EXCEPT !.ok = no] = [slot |-> t, ok |-> no]
  BY <1>7
<1>10. \/ s' = out.to /\ fx' = [slot |-> t, ok |-> out.ok]
       \/ s' = s /\ fx' = [slot |-> t, ok |-> FALSE]
  <2> DEFINE no == FALSE
  <2> HIDE DEF no
  <2>1. [g EXCEPT !.ok = no] = [slot |-> t, ok |-> no]
    BY <1>9
  <2>2. [g EXCEPT !.ok = out.ok] = [slot |-> t, ok |-> out.ok]
    BY <1>9
  <2> QED BY <1>8, <2>1, <2>2 DEF no
<1>11. /\ fx' = [slot |-> fx'.slot, ok |-> fx'.ok] /\ fx'.slot = t
       /\ s' = out.to \/ (s' = s /\ fx'.ok = FALSE)
  BY <1>10
<1>12. PositionInv'
  BY <1>3, <1>4, <1>5, <1>11 DEF PositionInv, CheckReserveASlotTracks, CheckHealthPositive
<1> QED BY <1>2, <1>3, <1>12 DEF HarnessInv, Book, Anchor4

LEMMA PublishInv == BenchInv /\ ActionPublish => HarnessInv'
<1> SUFFICES ASSUME BenchInv, ActionPublish PROVE HarnessInv'
  OBVIOUS
<1> DEFINE t == fx.next
           g == [pre |-> s.count, next |-> t + 1, slot |-> t, ok |-> fx.ok]
<1>1. Sends(t, g) /\ h = "oracle-buggy"
  BY DEF ActionPublish
<1> HIDE DEF g
<1>3. Sent(t, g) /\ h' = h /\ plants' = plants
  BY <1>1, SendLeaves
<1>4. IsFeed(s) /\ t \in Nat
  BY <1>1 DEF BenchInv, HarnessInv, FeedInv
<1> DEFINE out == PublishAnchor(plants, s, t, TRUE)
<1>6. Run(plants, s, t, TRUE) = out
  BY <1>1 DEF Run, Anchor4
<1> HIDE DEF t
<1>5. /\ IsFeed(out.to)
      /\ out.ok => /\ "slot" \notin plants => out.to.lastSlot = t
                   /\ "count" \notin plants => out.to.count > s.count
  BY <1>4, PublishKeeps
<1> HIDE DEF out
<1>8. \/ s' = out.to /\ fx' = [g EXCEPT !.ok = out.ok]
      \/ s' = s /\ fx' = [g EXCEPT !.ok = FALSE]
  BY <1>3, <1>6 DEF Sent
<1>9. ASSUME NEW no
      PROVE  [g EXCEPT !.ok = no] = [pre |-> s.count, next |-> t + 1, slot |-> t, ok |-> no]
  BY DEF g
<1>10. \/ s' = out.to /\ fx' = [pre |-> s.count, next |-> t + 1, slot |-> t, ok |-> out.ok]
       \/ s' = s /\ fx' = [pre |-> s.count, next |-> t + 1, slot |-> t, ok |-> FALSE]
  <2> DEFINE no == FALSE
  <2> HIDE DEF no
  <2>1. [g EXCEPT !.ok = no] = [pre |-> s.count, next |-> t + 1, slot |-> t, ok |-> no]
    BY <1>9
  <2>2. [g EXCEPT !.ok = out.ok] = [pre |-> s.count, next |-> t + 1, slot |-> t, ok |-> out.ok]
    BY <1>9
  <2> QED BY <1>8, <2>1, <2>2 DEF no
<1>11. /\ fx' = [pre |-> fx'.pre, next |-> fx'.next, slot |-> fx'.slot, ok |-> fx'.ok]
       /\ fx'.slot = t /\ fx'.next \in Nat /\ fx'.pre = s.count
       /\ (s' = out.to /\ fx'.ok = out.ok) \/ (s' = s /\ fx'.ok = FALSE)
  BY <1>10, <1>4
<1>12. FeedInv'
  BY <1>3, <1>4, <1>5, <1>11 DEF FeedInv, CheckLastSlotTracks, CheckPublishCountStrictlyIncreases
<1> QED BY <1>1, <1>3, <1>12 DEF HarnessInv, Book, Anchor4

LEMMA PublishPinoInv == BenchInv /\ ActionPublishPino => HarnessInv'
<1> SUFFICES ASSUME BenchInv, ActionPublishPino PROVE HarnessInv'
  OBVIOUS
<1> DEFINE t == fx.next
           g == [next |-> t + 1, slot |-> t, ok |-> fx.ok]
<1>1. Sends(t, g) /\ h = "oracle-pino-buggy"
  BY DEF ActionPublishPino
<1> HIDE DEF g
<1>3. Sent(t, g) /\ h' = h /\ plants' = plants
  BY <1>1, SendLeaves
<1>4. IsFeed(s) /\ t \in Nat
  BY <1>1 DEF BenchInv, HarnessInv, PinoFeedInv
<1> DEFINE out == PublishPinocchio(plants, s, t, TRUE)
<1>6. Run(plants, s, t, TRUE) = out
  BY <1>1 DEF Run, Anchor4
<1> HIDE DEF t
<1>5. /\ IsFeed(out.to)
      /\ out.ok /\ "slot" \notin plants => out.to.lastSlot = t
  BY <1>4, PinoPublishKeeps
<1> HIDE DEF out
<1>8. \/ s' = out.to /\ fx' = [g EXCEPT !.ok = out.ok]
      \/ s' = s /\ fx' = [g EXCEPT !.ok = FALSE]
  BY <1>3, <1>6 DEF Sent
<1>9. ASSUME NEW no
      PROVE  [g EXCEPT !.ok = no] = [next |-> t + 1, slot |-> t, ok |-> no]
  BY DEF g
<1>10. \/ s' = out.to /\ fx' = [next |-> t + 1, slot |-> t, ok |-> out.ok]
       \/ s' = s /\ fx' = [next |-> t + 1, slot |-> t, ok |-> FALSE]
  <2> DEFINE no == FALSE
  <2> HIDE DEF no
  <2>1. [g EXCEPT !.ok = no] = [next |-> t + 1, slot |-> t, ok |-> no]
    BY <1>9
  <2>2. [g EXCEPT !.ok = out.ok] = [next |-> t + 1, slot |-> t, ok |-> out.ok]
    BY <1>9
  <2> QED BY <1>8, <2>1, <2>2 DEF no
<1>11. /\ fx' = [next |-> fx'.next, slot |-> fx'.slot, ok |-> fx'.ok]
       /\ fx'.slot = t /\ fx'.next \in Nat
       /\ (s' = out.to /\ fx'.ok = out.ok) \/ (s' = s /\ fx'.ok = FALSE)
  BY <1>10, <1>4
<1>12. PinoFeedInv'
  BY <1>3, <1>4, <1>5, <1>11 DEF PinoFeedInv, CheckLastSlotTracks
<1> QED BY <1>1, <1>3, <1>12 DEF HarnessInv, Book, Anchor4


LEMMA BenchInit == Init => BenchInv
<1> SUFFICES ASSUME Init PROVE BenchInv
  OBVIOUS
<1>1. Chosen
  BY DEF Init, Chosen
<1>2. HarnessInv
  BY <1>1, SetupInv DEF Init
<1> QED BY <1>1, <1>2 DEF BenchInv

LEMMA BenchNext == BenchInv /\ [Next]_vars => BenchInv'
<1> SUFFICES ASSUME BenchInv, [Next]_vars PROVE BenchInv'
  OBVIOUS
<1>1. ASSUME h' = h, test' = test, plants' = plants PROVE Chosen'
  BY <1>1 DEF BenchInv, Chosen
<1>2. ASSUME h' = h, plants' = plants, s' = s, fx' = fx PROVE HarnessInv'
  BY <1>2 DEF BenchInv, HarnessInv, BookInv, PoolInv, PositionInv, VaultInv, FeedInv, PinoFeedInv,
     CheckKNonDecreasing, CheckReserveVaultConsistent, CheckReserveASlotTracks, CheckHealthPositive,
     CheckShareSupplyConsistent, CheckAssetsVaultConsistent, CheckLastSlotTracks,
     CheckPublishCountStrictlyIncreases
<1>3. h' = h /\ test' = test /\ plants' = plants
  BY DEF Next, vars, ActionPlaceOrder, ActionSwap, ActionRefresh, ActionDeposit, ActionPublish,
     ActionPublishPino, Sends, Body, NextIteration
<1>4. Chosen'
  BY <1>1, <1>3
<1>5. CASE ActionPlaceOrder
  BY <1>4, <1>5, PlaceOrderInv DEF BenchInv
<1>6. CASE ActionSwap
  BY <1>4, <1>6, SwapInv DEF BenchInv
<1>7. CASE ActionRefresh
  BY <1>4, <1>7, RefreshInv DEF BenchInv
<1>8. CASE ActionDeposit
  BY <1>4, <1>8, DepositInv DEF BenchInv
<1>9. CASE ActionPublish
  BY <1>4, <1>9, PublishInv DEF BenchInv
<1>10. CASE ActionPublishPino
  BY <1>4, <1>10, PublishPinoInv DEF BenchInv
<1>11. CASE Body
  BY <1>2, <1>3, <1>4, <1>11 DEF BenchInv, Body
<1>12. CASE NextIteration
  <2>1. s' = SetupOf(h').accounts /\ fx' = SetupOf(h').notes
    BY <1>3, <1>12 DEF NextIteration, Begun
  <2>2. Chosen' /\ (s = SetupOf(h).accounts)' /\ (fx = SetupOf(h).notes)' => HarnessInv'
    BY SetupInv, PTL
  <2>3. (s = SetupOf(h).accounts)' /\ (fx = SetupOf(h).notes)'
    BY <2>1
  <2> QED BY <1>4, <2>2, <2>3 DEF BenchInv
<1>13. CASE UNCHANGED vars
  BY <1>2, <1>4, <1>13 DEF BenchInv, vars
<1> QED
  BY <1>5, <1>6, <1>7, <1>8, <1>9, <1>10, <1>11, <1>12, <1>13 DEF Next

\* What a harness's accounts and notes are, whatever its program's plants.
THEOREM BenchInvAlways == Spec => []BenchInv
<1>1. BenchInv /\ UNCHANGED vars => BenchInv'
  BY BenchNext
<1> QED BY BenchInit, BenchNext, PTL DEF Spec

-----------------------------------------------------------------------------
(* A test reports a bug that is there.                                     *)

\* Or, of the clean harness, what its owner check reads beyond the orders.
Accounted(c) ==
    \/ PlantOf[c] \in plants
    \/ h = "matching" /\ c = "owner_attribution" /\ "orders" \in plants

BookChecks == {"signer_skip", "unchecked_math", "tick_sort", "count_consistency", "owner_attribution"}

LEMMA BookCheckHolds ==
    ASSUME BenchInv, h \in Book, NEW c \in Range(SmokeOf(h)), ~Accounted(c)
    PROVE  Holds(c)
<1>1. c \in BookChecks /\ (h = "matching-pino-buggy" => c \in {"signer_skip", "tick_sort"})
  BY DEF SmokeOf, MatchingSmoke, Range, Book, Anchor4, BookChecks
<1>2. IsBook(plants, s)
  BY DEF BenchInv, HarnessInv, BookInv
<1> DEFINE ticks == s.ticks
<1>3. Keeping(plants, ticks) /\ ticks \in Seq(Ticks) /\ s.sequence \in Nat
  BY <1>2 DEF IsBook, Keeping
<1>4. CASE c = "tick_sort"
  <2>1. "sort" \notin plants
    BY <1>4 DEF Accounted, PlantOf
  <2>2. Sorted(ticks)
    BY <1>3, <2>1 DEF Keeping
  <2>3. CheckTickSort
    <3>1. ASSUME NEW i \in 1..(Len(ticks) - 1) PROVE ticks[i].price < ticks[i + 1].price
      <4>1. Len(ticks) \in Nat
        BY <1>3
      <4>2. i \in 1..Len(ticks) /\ i + 1 \in 1..Len(ticks) /\ i < i + 1
        BY <4>1
      <4> HIDE DEF ticks
      <4> QED BY <4>2, <2>2 DEF Sorted
    <3> QED BY <3>1 DEF CheckTickSort
  <2> QED BY <1>4, <2>3 DEF Holds
<1>5. CASE c = "count_consistency"
  <2>1. "orders" \notin plants
    BY <1>5 DEF Accounted, PlantOf
  <2>2. \A i \in 1..Len(ticks) : Counted(ticks[i])
    BY <1>3, <2>1 DEF Keeping
  <2>3. DOMAIN ticks = 1..Len(ticks)
    BY <1>3
  <2>4. CheckCountConsistency
    BY <2>2, <2>3 DEF CheckCountConsistency, Counted
  <2> QED BY <1>5, <2>4 DEF Holds
<1>6. CASE c = "owner_attribution"
  <2>1. "owner" \notin plants
    BY <1>6 DEF Accounted, PlantOf
  <2>2. \A i \in 1..Len(ticks) : Owned(ticks[i])
    BY <1>3, <2>1 DEF Keeping
  <2>3. DOMAIN ticks = 1..Len(ticks)
    BY <1>3
  <2>4. CASE h = "matching"
    <3>1. "orders" \notin plants
      BY <1>6, <2>4 DEF Accounted
    <3>2. \A i \in 1..Len(ticks) : Counted(ticks[i])
      BY <1>3, <3>1 DEF Keeping
    <3>3. ASSUME NEW i \in DOMAIN ticks, NEW d \in 1..ticks[i].n_orders
          PROVE  OwnerRead(i, d) \in {User, Zero}
      <4>1. i \in 1..Len(ticks) /\ ticks[i] \in Ticks
        BY <1>3, <2>3
      <4>2. ticks[i].owners \in Seq({User, Zero})
        BY <4>1 DEF Ticks
      <4>3. ticks[i].n_orders = Len(ticks[i].owners)
        BY <3>2, <4>1 DEF Counted
      <4>4. d \in DOMAIN ticks[i].owners
        BY <4>2, <4>3
      <4>5. ticks[i].owners[d] = User
        BY <2>2, <4>1, <4>4 DEF Owned
      <4> QED BY <4>4, <4>5 DEF OwnerRead
    <3>4. CleanOwnerAttribution
      BY <3>3 DEF CleanOwnerAttribution
    <3> QED BY <1>6, <2>4, <3>4 DEF Holds
  <2>5. CASE h # "matching"
    <3>1. CheckOwnerAttribution
      BY <2>2, <2>3 DEF CheckOwnerAttribution, Owned
    <3> QED BY <1>6, <2>5, <3>1 DEF Holds
  <2> QED BY <2>4, <2>5
<1>7. CASE c = "unchecked_math"
  <2>1. h \in Anchor4 /\ "sequence" \notin plants
    BY <1>1, <1>7 DEF Accounted, PlantOf, Book
  <2> DEFINE sample == SpecOf.sample
             out == Run(plants, s, sample, TRUE)
  <2> HIDE DEF sample
  <2>2. out = PlaceOrderAnchor(plants, s, sample, User, TRUE)
    BY <2>1 DEF Run, Anchor4
  <2> HIDE DEF out
  <2>3. out.ok => out.to.sequence = s.sequence + 1
    BY <2>1, <2>2 DEF PlaceOrderAnchor, Placed, Accepted, Refused
  <2>5. out.ok => out.to.sequence >= s.sequence
    BY <1>3, <2>3
  <2>4. UncheckedMath
    BY <2>5 DEF UncheckedMath, out, sample
  <2> QED BY <1>7, <2>4 DEF Holds
<1>8. CASE c = "signer_skip"
  <2>1. "signer" \notin plants
    BY <1>8 DEF Accounted, PlantOf
  <2> DEFINE sample == SpecOf.sample
             out == Run(plants, s, sample, FALSE)
  <2> HIDE DEF sample
  <2>2. \/ out = PlaceOrderAnchor(plants, s, sample, User, FALSE)
        \/ out = PlaceOrderPinocchio(plants, s, sample, User, FALSE)
    BY DEF Run, Book, Anchor4
  <2> HIDE DEF out
  <2>3. out = Refused(s)
    BY <2>1, <2>2 DEF PlaceOrderAnchor, PlaceOrderPinocchio
  <2>5. ~out.ok
    BY <2>3 DEF Refused
  <2>4. SignerSkip
    BY <2>5 DEF SignerSkip, out, sample
  <2> QED BY <1>8, <2>4 DEF Holds
<1> QED BY <1>1, <1>4, <1>5, <1>6, <1>7, <1>8 DEF BookChecks

LEMMA CheckHolds ==
    ASSUME BenchInv, NEW c \in Range(SmokeOf(h)), ~Accounted(c)
    PROVE  Holds(c)
<1>1. CASE h \in Book
  BY <1>1, BookCheckHolds
<1>2. CASE h = "amm-buggy"
  <2>1. c \in {"k_non_decreasing", "reserve_vault"} /\ PoolInv
    BY <1>2 DEF SmokeOf, Range, Anchor4, BenchInv, HarnessInv
  <2>2. CASE c = "k_non_decreasing"
    BY <2>1, <2>2 DEF PoolInv, Holds, Accounted, PlantOf
  <2>3. CASE c = "reserve_vault"
    BY <2>1, <2>3 DEF PoolInv, Holds, Accounted, PlantOf
  <2> QED BY <2>1, <2>2, <2>3
<1>3. CASE h = "refresh-buggy"
  <2>1. c \in {"reserve_slot", "health_positive"} /\ PositionInv
    BY <1>3 DEF SmokeOf, Range, Anchor4, BenchInv, HarnessInv
  <2>2. CASE c = "reserve_slot"
    BY <2>1, <2>2 DEF PositionInv, Holds, Accounted, PlantOf
  <2>3. CASE c = "health_positive"
    BY <2>1, <2>3 DEF PositionInv, Holds, Accounted, PlantOf
  <2> QED BY <2>1, <2>2, <2>3
<1>4. CASE h = "vault-buggy"
  <2>1. c \in {"share_supply", "assets_vault"} /\ VaultInv
    BY <1>4 DEF SmokeOf, Range, Anchor4, BenchInv, HarnessInv
  <2>2. CASE c = "share_supply"
    BY <2>1, <2>2 DEF VaultInv, Holds, Accounted, PlantOf
  <2>3. CASE c = "assets_vault"
    BY <2>1, <2>3 DEF VaultInv, Holds, Accounted, PlantOf
  <2> QED BY <2>1, <2>2, <2>3
<1>5. CASE h = "oracle-buggy"
  <2>1. c \in {"last_slot", "publish_count"} /\ FeedInv
    BY <1>5 DEF SmokeOf, Range, Anchor4, BenchInv, HarnessInv
  <2>2. CASE c = "last_slot"
    BY <2>1, <2>2 DEF FeedInv, Holds, Accounted, PlantOf
  <2>3. CASE c = "publish_count"
    BY <2>1, <2>3 DEF FeedInv, Holds, Accounted, PlantOf
  <2> QED BY <2>1, <2>2, <2>3
<1>6. CASE h = "oracle-pino-buggy"
  <2>1. c \in {"signer_skip", "last_slot"} /\ PinoFeedInv
    BY <1>6 DEF SmokeOf, Range, Anchor4, BenchInv, HarnessInv
  <2>2. CASE c = "last_slot"
    BY <2>1, <2>2 DEF PinoFeedInv, Holds, Accounted, PlantOf
  <2>3. CASE c = "signer_skip"
    <3>1. "signer" \notin plants
      BY <2>3 DEF Accounted, PlantOf
    <3> DEFINE sample == SpecOf.sample
               out == Run(plants, s, sample, FALSE)
    <3> HIDE DEF sample
    <3>2. out = PublishPinocchio(plants, s, sample, FALSE)
      BY <1>6 DEF Run, Anchor4
    <3> HIDE DEF out
    <3>3. out = Refused(s)
      BY <3>1, <3>2 DEF PublishPinocchio
    <3>5. ~out.ok
      BY <3>3 DEF Refused
    <3>4. SignerSkip
      BY <3>5 DEF SignerSkip, out, sample
    <3> QED BY <2>3, <3>4 DEF Holds
  <2> QED BY <2>1, <2>2, <2>3
<1>7. h \in Harnesses
  BY DEF BenchInv, Chosen
<1> QED BY <1>1, <1>2, <1>3, <1>4, <1>5, <1>6, <1>7 DEF Harnesses, Feed

LEMMA SmokeIsSeq ==
    ASSUME h \in Harnesses
    PROVE  DOMAIN SmokeOf(h) = 1..Len(SmokeOf(h)) /\ Len(SmokeOf(h)) \in Nat
<1>1. CASE h \in Anchor4
  <2>1. SmokeOf(h) = MatchingSmoke
    BY <1>1 DEF SmokeOf, Anchor4
  <2> QED BY <2>1 DEF MatchingSmoke
<1>2. CASE h = "matching-pino-buggy"
  <2>1. SmokeOf(h) = <<"signer_skip", "tick_sort">>
    BY <1>2 DEF SmokeOf, Anchor4
  <2> QED BY <2>1
<1>3. CASE h = "amm-buggy"
  <2>1. SmokeOf(h) = <<"k_non_decreasing", "reserve_vault">>
    BY <1>3 DEF SmokeOf, Anchor4
  <2> QED BY <2>1
<1>4. CASE h = "refresh-buggy"
  <2>1. SmokeOf(h) = <<"reserve_slot", "health_positive">>
    BY <1>4 DEF SmokeOf, Anchor4
  <2> QED BY <2>1
<1>5. CASE h = "vault-buggy"
  <2>1. SmokeOf(h) = <<"share_supply", "assets_vault">>
    BY <1>5 DEF SmokeOf, Anchor4
  <2> QED BY <2>1
<1>6. CASE h = "oracle-buggy"
  <2>1. SmokeOf(h) = <<"last_slot", "publish_count">>
    BY <1>6 DEF SmokeOf, Anchor4
  <2> QED BY <2>1
<1>7. CASE h = "oracle-pino-buggy"
  <2>1. SmokeOf(h) = <<"signer_skip", "last_slot">>
    BY <1>7 DEF SmokeOf, Anchor4
  <2> QED BY <2>1
<1> QED BY <1>1, <1>2, <1>3, <1>4, <1>5, <1>6, <1>7 DEF Harnesses, Book, Feed

\* The body of a test makes checks of the harness, all of them to the first
\* that fails.
LEMMA BodyMakes ==
    ASSUME BenchInv, Body
    PROVE  \/ /\ violation' = NoViolation
              /\ \A c \in Range(test) : Holds(c)
           \/ /\ violation' \in Range(SmokeOf(h))
              /\ ~Holds(violation')
<1> DEFINE I == {i \in 1..Len(test) : ~Holds(test[i])}
           failing == IF I # {} THEN Min(I) ELSE 0
<1>1. violation' = IF failing = 0 THEN NoViolation ELSE test[failing]
  BY DEF Body, SelectInSeq
<1>2. DOMAIN test = 1..Len(test) /\ Len(test) \in Nat /\ Range(test) \subseteq Range(SmokeOf(h))
  <2>1. h \in Harnesses /\ (test = SmokeOf(h) \/ \E c \in Range(SmokeOf(h)) : test = <<c>>)
    BY DEF BenchInv, Chosen, TestsOf
  <2>2. CASE test = SmokeOf(h)
    <3>1. DOMAIN SmokeOf(h) = 1..Len(SmokeOf(h)) /\ Len(SmokeOf(h)) \in Nat
      BY <2>1, SmokeIsSeq
    <3> QED BY <2>2, <3>1
  <2>3. CASE \E c \in Range(SmokeOf(h)) : test = <<c>>
    <3>1. PICK c \in Range(SmokeOf(h)) : test = <<c>>
      BY <2>3
    <3>2. DOMAIN test = 1..Len(test) /\ Len(test) = 1
      BY <3>1
    <3>3. Range(test) = {c}
      BY <3>1 DEF Range
    <3> QED BY <3>2, <3>3
  <2> QED BY <2>1, <2>2, <2>3
<1>3. CASE I = {}
  <2>1. \A c \in Range(test) : Holds(c)
    BY <1>2, <1>3 DEF Range
  <2> QED BY <1>1, <1>3, <2>1
<1>4. CASE I # {}
  <2>1. I \in SUBSET Nat
    BY <1>2
  <2>2. PICK i \in I : \A j \in I : i <= j
    <3> HIDE DEF I
    <3> QED BY <1>4, <2>1, LeastExists
  <2>3. Min(I) \in I
    <3> HIDE DEF I
    <3> QED BY <2>2 DEF Min
  <2> DEFINE m == Min(I)
  <2> HIDE DEF m
  <2>4. m \in 1..Len(test) /\ ~Holds(test[m]) /\ failing = m
    BY <1>4, <2>3 DEF m
  <2>5. test[m] \in Range(test) /\ m # 0
    BY <1>2, <2>4 DEF Range
  <2>6. violation' = test[m]
    BY <1>1, <2>4, <2>5
  <2> QED BY <1>2, <2>4, <2>5, <2>6
<1> QED BY <1>3, <1>4

\* OnlyItsPlant: the check that fails is that of a bug in the program.
THEOREM OnlyItsPlantAlways == Spec => []OnlyItsPlant
<1>1. Init => OnlyItsPlant
  BY DEF Init, OnlyItsPlant
<1>2. ASSUME BenchInv, OnlyItsPlant, [Next]_vars PROVE OnlyItsPlant'
  <2>1. CASE Body
    <3>1. h' = h /\ plants' = plants
      BY <2>1 DEF Body
    <3>2. CASE violation' = NoViolation
      BY <3>2 DEF OnlyItsPlant
    <3>3. CASE violation' \in Range(SmokeOf(h)) /\ ~Holds(violation')
      <4>1. Accounted(violation')
        BY <1>2, <3>3, CheckHolds
      <4> QED BY <3>1, <4>1 DEF OnlyItsPlant, Accounted
    <3> QED BY <1>2, <2>1, <3>2, <3>3, BodyMakes
  <2>2. CASE NextIteration
    BY <2>2 DEF NextIteration, Begun, OnlyItsPlant
  <2>3. CASE /\ violation' = violation /\ h' = h /\ plants' = plants
    BY <1>2, <2>3 DEF OnlyItsPlant
  <2>4. Body \/ NextIteration \/ (violation' = violation /\ h' = h /\ plants' = plants)
    BY <1>2 DEF Next, vars, ActionPlaceOrder, ActionSwap, ActionRefresh, ActionDeposit,
       ActionPublish, ActionPublishPino, Sends
  <2> QED BY <2>1, <2>2, <2>3, <2>4
<1> QED BY <1>1, <1>2, BenchInvAlways, PTL DEF Spec


-----------------------------------------------------------------------------
(* The missing signer check is found after any action, but where the       *)
(* sample has gone stale.                                                  *)

\* A book with room: for one tick more, and one order more in each.
Roomy(ticks) ==
    Len(ticks) < NTicks /\ \A i \in 1..Len(ticks) : ticks[i].n_orders < TickDepth

LEMMA RoomyTakes ==
    ASSUME NEW with, NEW ticks, Keeping(with, ticks), Roomy(ticks),
           NEW price \in Nat, NEW owner, NEW at, NEW opened
    PROVE  PlaceIn(ticks, price, owner, at, opened).ok
<1> DEFINE lo == LowerBound(ticks, price) + 1
<1>1. ticks \in Seq(Ticks) /\ Len(ticks) <= NTicks
  BY DEF Keeping
<1>2. Bounds(ticks, price, <<0, Len(ticks)>>, LowerBound(ticks, price))
  BY <1>1, BoundFound
<1>3. lo <= Len(ticks) => lo \in 1..Len(ticks)
  BY <1>1, <1>2 DEF Bounds
<1>4. lo <= Len(ticks) => ticks[lo].n_orders < TickDepth
  BY <1>3 DEF Roomy
<1> QED BY <1>4 DEF PlaceIn, Accepted, Roomy

\* A book after one action: at most one tick, of one order.
Single(ticks) == Len(ticks) <= 1 /\ \A i \in 1..Len(ticks) : ticks[i].n_orders <= 1

LEMMA SingleIsRoomy ==
    ASSUME NEW with, NEW ticks, Keeping(with, ticks), Single(ticks)
    PROVE  Roomy(ticks)
<1>1. ticks \in Seq(Ticks) /\ Len(ticks) \in Nat
  BY DEF Keeping
<1>2. ASSUME NEW i \in 1..Len(ticks) PROVE ticks[i].n_orders < TickDepth
  <2>1. ticks[i] \in Ticks
    BY <1>1
  <2>2. ticks[i].n_orders \in Nat
    BY <2>1 DEF Ticks
  <2> QED BY <2>2, PlantedAssumption DEF Single
<1> QED BY <1>1, <1>2, PlantedAssumption DEF Single, Roomy

LEMMA FirstIsSingle ==
    ASSUME NEW price \in Nat, NEW at, at = 1
    PROVE  Single(PlaceIn(<<>>, price, User, at, 1).to)
<1> DEFINE fresh == [price |-> price, n_orders |-> 1, owners |-> <<User>>]
           longer == InsertAt(<<>>, at, fresh)
           none == <<>>
<1>1. none \in Seq(Ticks) /\ Len(none) = 0 /\ 0 <= NTicks
  BY PlantedAssumption
<1> HIDE DEF none
<1>2. Bounds(none, price, <<0, Len(none)>>, LowerBound(none, price))
  BY <1>1, BoundFound
<1>3. LowerBound(none, price) = 0
  BY <1>1, <1>2 DEF Bounds
<1>4. PlaceIn(none, price, User, at, 1).to = longer
  <2>1. ~(LowerBound(none, price) + 1 <= Len(none)) /\ Len(none) < NTicks
    BY <1>1, <1>3, PlantedAssumption
  <2> QED BY <2>1 DEF PlaceIn, Accepted, none
<1>5. fresh \in Ticks /\ fresh.n_orders = 1
  BY DEF Ticks
<1> HIDE DEF fresh
<1>6. at \in 1..(Len(none) + 1)
  BY <1>1
<1>7. IsInserted(Ticks, InsertAt(none, at, fresh), none, at, fresh)
  BY <1>1, <1>5, <1>6, Inserted
<1>8. longer = InsertAt(none, at, fresh)
  BY DEF none
<1> HIDE DEF longer
<1>9. Len(longer) = 1 /\ longer[1] = fresh
  BY <1>1, <1>7, <1>8 DEF IsInserted
<1>10. Single(longer)
  BY <1>5, <1>9 DEF Single
<1> QED BY <1>4, <1>10 DEF none

\* The test for the missing check, and a program that misses it.
Skipping == test = <<"signer_skip">> /\ "signer" \in plants

SkipInv ==
    Skipping =>
        /\ h = "matching-pino-buggy" =>
              /\ pc = "act" => violation # NoViolation \/ (n = 0 /\ s.ticks = <<>>)
              /\ pc = "check" => Single(s.ticks)
        /\ h = "oracle-pino-buggy" /\ "slot" \in plants => s.lastSlot = 0

LEMMA SkippingWhere ==
    ASSUME BenchInv, Skipping
    PROVE  h \in {"matching-pino-buggy", "oracle-pino-buggy"}
<1>1. h \in Harnesses /\ "signer" \in PlantsIn(h)
  BY DEF BenchInv, Chosen, Skipping
<1>2. h \notin Anchor4
  BY <1>1 DEF PlantsIn
<1>3. PICK c \in Range(SmokeOf(h)) : PlantOf[c] = "signer"
  BY <1>1 DEF PlantsIn
<1>4. h # "amm-buggy"
  BY <1>3 DEF SmokeOf, Range, PlantOf, Anchor4
<1>5. h # "refresh-buggy"
  BY <1>3 DEF SmokeOf, Range, PlantOf, Anchor4
<1>6. h # "vault-buggy"
  BY <1>3 DEF SmokeOf, Range, PlantOf, Anchor4
<1>7. h # "oracle-buggy"
  BY <1>3 DEF SmokeOf, Range, PlantOf, Anchor4
<1> QED BY <1>1, <1>2, <1>4, <1>5, <1>6, <1>7 DEF Harnesses, Book, Feed

\* On a book of one order the sample lands unsigned, and the check fails.
LEMMA BookSkipFails ==
    ASSUME BenchInv, Skipping, h = "matching-pino-buggy", Single(s.ticks)
    PROVE  ~Holds("signer_skip")
<1> DEFINE sample == SpecOf.sample
           out == Run(plants, s, sample, FALSE)
<1>1. sample = SamplePrice /\ sample \in Nat
  BY BenchAssumption DEF SpecOf, MatchingPinoSpec, Anchor4
<1> HIDE DEF sample
<1>2. out = PlaceOrderPinocchio(plants, s, sample, User, FALSE)
  BY DEF Run, Anchor4
<1> HIDE DEF out
<1> DEFINE at == IF "sort" \in plants THEN Len(s.ticks) + 1 ELSE LowerBound(s.ticks, sample) + 1
           book == PlaceIn(s.ticks, sample, User, at, 1)
<1>3. out = Placed(s, s.sequence + 1, book)
  BY <1>2 DEF PlaceOrderPinocchio, Skipping
<1> HIDE DEF at
<1>4. IsBook(plants, s)
  BY DEF BenchInv, HarnessInv, BookInv, Book
<1>5. book.ok
  <2>1. Keeping(plants, s.ticks)
    BY <1>4 DEF IsBook
  <2>2. Roomy(s.ticks)
    BY <2>1, SingleIsRoomy
  <2> QED BY <1>1, <2>1, <2>2, RoomyTakes
<1> HIDE DEF book
<1>6. out.ok /\ out.to.sequence = s.sequence + 1
  BY <1>3, <1>5 DEF Placed, Accepted
<1>7. out.to # s
  BY <1>4, <1>6 DEF IsBook
<1>8. ~SignerSkip
  BY <1>6, <1>7 DEF SignerSkip, out, sample
<1> QED BY <1>8 DEF Holds

\* A feed that has noted no slot takes the sample unsigned.
LEMMA FeedSkipHolds ==
    ASSUME BenchInv, Skipping, h = "oracle-pino-buggy", Holds("signer_skip")
    PROVE  s.lastSlot > 0
<1> DEFINE sample == SpecOf.sample
           out == Run(plants, s, sample, FALSE)
<1>1. sample = 1
  BY DEF SpecOf, OraclePinoSpec, Anchor4
<1> HIDE DEF sample
<1>2. out = PublishPinocchio(plants, s, sample, FALSE)
  BY DEF Run, Anchor4
<1> HIDE DEF out
<1>3. IsFeed(s)
  BY DEF BenchInv, HarnessInv, PinoFeedInv
<1>4. SUFFICES ASSUME ~(s.lastSlot > 0) PROVE FALSE
  OBVIOUS
<1>5. sample > s.lastSlot
  BY <1>1, <1>3, <1>4 DEF IsFeed
<1>6. out.ok /\ out.to.count = s.count + 1
  BY <1>2, <1>5 DEF PublishPinocchio, Skipping, Accepted
<1>7. out.to # s
  BY <1>3, <1>6 DEF IsFeed
<1>8. SignerSkip
  BY DEF Holds
<1> QED BY <1>6, <1>7, <1>8 DEF SignerSkip, out, sample

LEMMA SkipInit == Init => SkipInv
<1> SUFFICES ASSUME Init, Skipping PROVE SkipInv
  BY DEF SkipInv
<1>1. n = 0
  BY DEF Init
<1>2. ASSUME h = "matching-pino-buggy" PROVE s.ticks = <<>> /\ pc = "act"
  BY <1>2 DEF Init, SetupOf, MatchingPinoSetup, MatchingSetup, Anchor4
<1>3. ASSUME h = "oracle-pino-buggy" PROVE s.lastSlot = 0
  BY <1>3 DEF Init, SetupOf, OraclePinoSetup, Anchor4
<1> QED BY <1>1, <1>2, <1>3 DEF SkipInv

LEMMA SkipNext == BenchInv /\ SkipInv /\ [Next]_vars => SkipInv'
<1> SUFFICES ASSUME BenchInv, SkipInv, [Next]_vars, Skipping' PROVE SkipInv'
  BY DEF SkipInv
<1>1. h' = h /\ test' = test /\ plants' = plants
  BY DEF Next, vars, ActionPlaceOrder, ActionSwap, ActionRefresh, ActionDeposit, ActionPublish,
     ActionPublishPino, Sends, Body, NextIteration
<1>2. Skipping
  BY <1>1 DEF Skipping
<1>3. CASE h = "matching-pino-buggy"
  <2>1. CASE ActionPlaceOrder
    <3>1. PICK price \in Prices : Sends(price, fx)
      BY <2>1 DEF ActionPlaceOrder
    <3>2. pc = "act" /\ violation = NoViolation /\ pc' = "check" /\ price \in Nat
      BY <3>1, BenchAssumption DEF Sends
    <3>3. s.ticks = <<>>
      BY <1>2, <1>3, <3>2 DEF SkipInv
    <3> DEFINE out == Run(plants, s, price, TRUE)
               at == IF "sort" \in plants THEN Len(s.ticks) + 1 ELSE LowerBound(s.ticks, price) + 1
               book == PlaceIn(s.ticks, price, User, at, 1)
    <3>4. s' = out.to \/ s' = s
      BY <3>1, SendLeaves DEF Sent
    <3>5. out = Placed(s, s.sequence + 1, book)
      BY <1>3 DEF Run, Anchor4, PlaceOrderPinocchio
    <3>6. at = 1
      <4> DEFINE none == <<>>
      <4>1. none \in Seq(Ticks) /\ Len(none) = 0 /\ 0 <= NTicks
        BY PlantedAssumption
      <4>2. s.ticks = none
        BY <3>3
      <4> HIDE DEF none
      <4>3. Bounds(none, price, <<0, Len(none)>>, LowerBound(none, price))
        BY <3>2, <4>1, BoundFound
      <4>4. LowerBound(none, price) = 0
        BY <4>1, <4>3 DEF Bounds
      <4> QED BY <4>1, <4>2, <4>4
    <3> HIDE DEF at, out
    <3>7. Single(book.to)
      BY <3>2, <3>3, <3>6, FirstIsSingle
    <3>8. Single(s.ticks)
      BY <3>3 DEF Single
    <3> HIDE DEF book
    <3>9. out.to.ticks = book.to \/ out.to = s
      BY <3>5 DEF Placed, Accepted, Refused
    <3>10. Single(s'.ticks)
      BY <3>4, <3>7, <3>8, <3>9
    <3> QED BY <1>1, <1>3, <3>2, <3>10 DEF SkipInv
  <2>2. CASE Body
    <3>1. violation' # NoViolation \/ pc # "check"
      <4> SUFFICES ASSUME pc = "check" PROVE violation' # NoViolation
        OBVIOUS
      <4>1. ~Holds("signer_skip")
        BY <1>2, <1>3, BookSkipFails DEF SkipInv
      <4>2. "signer_skip" \in Range(test)
        BY <1>2 DEF Skipping, Range
      <4>3. violation' \in Range(SmokeOf(h))
        BY <2>2, <4>1, <4>2, BodyMakes
      <4>4. violation' \in DOMAIN PlantOf
        BY <1>3, <4>3 DEF SmokeOf, Range, Anchor4, PlantOf
      <4> QED BY <4>4, NoViolationAssumption
    <3> QED BY <1>1, <1>3, <2>2, <3>1 DEF SkipInv, Body
  <2>3. CASE NextIteration
    <3>1. s' = SetupOf(h).accounts /\ pc' = "act" /\ n' = 0
      BY <1>1, <2>3 DEF NextIteration, Begun
    <3>2. s'.ticks = <<>>
      BY <1>3, <3>1 DEF SetupOf, MatchingPinoSetup, MatchingSetup, Anchor4
    <3> QED BY <1>1, <1>3, <3>1, <3>2 DEF SkipInv
  <2>4. CASE UNCHANGED vars
    BY <1>2, <2>4 DEF SkipInv, vars
  <2> QED
    BY <1>3, <2>1, <2>2, <2>3, <2>4
    DEF Next, ActionSwap, ActionRefresh, ActionDeposit, ActionPublish, ActionPublishPino
<1>4. CASE h = "oracle-pino-buggy"
  <2>1. "slot" \in plants => s.lastSlot = 0
    BY <1>2, <1>4 DEF SkipInv
  <2>2. "slot" \in plants => s'.lastSlot = 0
    <3> SUFFICES ASSUME "slot" \in plants PROVE s'.lastSlot = 0
      OBVIOUS
    <3>1. CASE ActionPublishPino
      <4> DEFINE t == fx.next
                 notes == [next |-> t + 1, slot |-> t, ok |-> fx.ok]
                 out == Run(plants, s, t, TRUE)
      <4>1. Sends(t, notes)
        BY <3>1 DEF ActionPublishPino
      <4> HIDE DEF notes
      <4>2. s' = out.to \/ s' = s
        BY <4>1, SendLeaves DEF Sent
      <4>3. out = PublishPinocchio(plants, s, t, TRUE)
        BY <1>4 DEF Run, Anchor4
      <4> HIDE DEF t, out
      <4>4. out.to.lastSlot = s.lastSlot \/ out.to = s
        BY <4>3 DEF PublishPinocchio, Accepted, Refused
      <4> QED BY <2>1, <4>2, <4>4
    <3>2. CASE NextIteration
      <4>1. s' = SetupOf(h).accounts
        BY <1>1, <3>2 DEF NextIteration, Begun
      <4> QED BY <1>4, <4>1 DEF SetupOf, OraclePinoSetup, Anchor4
    <3>3. CASE s' = s
      BY <2>1, <3>3
    <3> QED
      BY <1>4, <3>1, <3>2, <3>3 DEF Next, vars, Body, ActionPlaceOrder, ActionSwap, ActionRefresh,
         ActionDeposit, ActionPublish, Book, Anchor4
  <2> QED BY <1>1, <1>4, <2>2 DEF SkipInv
<1> QED BY <1>2, <1>3, <1>4, SkippingWhere

\* SignerPlantSeen: a program that takes orders or prices unsigned is caught
\* by the first check after an action, unless the sample is stale there.
THEOREM SignerPlantSeenAlways == Spec => []SignerPlantSeen
<1>1. Init => SignerPlantSeen
  BY DEF Init, SignerPlantSeen, Silent
<1>2. ASSUME BenchInv, SkipInv, SkipInv', BenchInv', SignerPlantSeen, [Next]_vars PROVE SignerPlantSeen'
  <2> SUFFICES ASSUME Silent', Skipping'
               PROVE  (h = "oracle-pino-buggy" /\ "slot" \notin plants /\ s.lastSlot > 0)'
    BY DEF SignerPlantSeen, Skipping
  <2>1. pc' = "act" /\ n' > 0 /\ violation' = NoViolation
    BY DEF Silent
  <2>2. ~ActionPlaceOrder /\ ~ActionSwap /\ ~ActionRefresh /\ ~ActionDeposit
        /\ ~ActionPublish /\ ~ActionPublishPino
    BY <2>1 DEF ActionPlaceOrder, ActionSwap, ActionRefresh, ActionDeposit, ActionPublish,
       ActionPublishPino, Sends
  <2>3. ~NextIteration
    BY <2>1 DEF NextIteration, Begun
  <2>4. h' \in {"matching-pino-buggy", "oracle-pino-buggy"}
    <3>1. BenchInv' /\ Skipping' => (h \in {"matching-pino-buggy", "oracle-pino-buggy"})'
      BY SkippingWhere, PTL
    <3> QED BY <1>2, <3>1
  <2>5. h' # "matching-pino-buggy"
    BY <1>2, <2>1 DEF SkipInv
  <2>6. CASE Body
    <3>1. /\ h = "oracle-pino-buggy" /\ Skipping /\ s' = s /\ plants' = plants /\ h' = h
      BY <2>4, <2>5, <2>6 DEF Body, Skipping
    <3>2. "signer_skip" \in Range(test)
      BY <3>1 DEF Skipping, Range
    <3>3. Holds("signer_skip")
      <4>1. CASE \A c \in Range(test) : Holds(c)
        BY <3>2, <4>1
      <4>2. CASE violation' \in Range(SmokeOf(h)) /\ ~Holds(violation')
        <5>1. violation' \in DOMAIN PlantOf
          BY <3>1, <4>2 DEF SmokeOf, Range, Anchor4, PlantOf
        <5> QED BY <2>1, <5>1, NoViolationAssumption
      <4> QED BY <1>2, <2>6, <4>1, <4>2, BodyMakes
    <3>4. s.lastSlot > 0
      BY <1>2, <3>1, <3>3, FeedSkipHolds
    <3>5. "slot" \notin plants
      BY <1>2, <3>1, <3>4 DEF SkipInv
    <3> QED BY <3>1, <3>4, <3>5
  <2>7. CASE UNCHANGED vars
    <3>1. Silent /\ Skipping
      BY <2>7 DEF vars, Silent, Skipping
    <3>2. h = "oracle-pino-buggy" /\ "slot" \notin plants /\ s.lastSlot > 0
      BY <1>2, <3>1 DEF SignerPlantSeen, Skipping
    <3> QED BY <2>7, <3>2 DEF vars
  <2> QED BY <1>2, <2>2, <2>3, <2>6, <2>7 DEF Next
<1> QED BY <1>1, <1>2, BenchInvAlways, SkipInit, SkipNext, PTL DEF Spec


-----------------------------------------------------------------------------
(* No plant acts unseen.                                                   *)

\* A quotient rounded down, by the products it lies between.
LEMMA Quotient ==
    ASSUME NEW x \in Nat, NEW y \in Nat \ {0}
    PROVE  /\ x \div y \in Nat
           /\ (x \div y) * y <= x
           /\ x < (x \div y + 1) * y
<1> DEFINE q == x \div y
           r == x % y
<1>1. q \in Nat /\ r \in 0..(y - 1) /\ x = y * q + r
  OBVIOUS
<1> HIDE DEF q, r
<1>2. q * y = y * q /\ (q + 1) * y = y * q + y
  BY <1>1
<1>3. q * y <= x /\ x < (q + 1) * y
  BY <1>1, <1>2
<1> QED BY <1>1, <1>3 DEF q

\* What fits into x some number of times is no more than the quotient.
LEMMA QuotientGreatest ==
    ASSUME NEW x \in Nat, NEW y \in Nat \ {0}, NEW m \in Nat, m * y <= x
    PROVE  m <= x \div y
<1> DEFINE q == x \div y
<1>1. q \in Nat /\ x < (q + 1) * y
  BY Quotient
<1> HIDE DEF q
<1>2. SUFFICES ASSUME m > q PROVE FALSE
  BY <1>1 DEF q
<1> DEFINE e == m - (q + 1)
<1>3. e \in Nat /\ m = (q + 1) + e
  BY <1>1, <1>2
<1> HIDE DEF e
<1>4. m * y = (q + 1) * y + e * y /\ e * y \in Nat /\ (q + 1) * y \in Nat
  BY <1>1, <1>3
<1> QED BY <1>1, <1>4

\* Factors that grow make a product grow.
LEMMA ProductGrows ==
    ASSUME NEW a \in Nat, NEW b \in Nat, NEW c \in Nat, NEW d \in Nat, a <= c, b <= d
    PROVE  a * b <= c * d
<1> DEFINE u == c - a
           v == d - b
<1>1. u \in Nat /\ v \in Nat /\ c = a + u /\ d = b + v
  OBVIOUS
<1> HIDE DEF u, v
<1>2. c * d = a * b + a * v + u * b + u * v
  BY <1>1
<1>3. a * v \in Nat /\ u * b \in Nat /\ u * v \in Nat /\ a * b \in Nat
  BY <1>1
<1> QED BY <1>2, <1>3

\* Of a pool as deep as it was set up, a doubled output is worth no more.
LEMMA DeepPool ==
    ASSUME NEW ri \in Nat \ {0}, NEW ro \in Nat, NEW f \in Nat,
           NEW ri0 \in Nat \ {0}, NEW ro0 \in Nat, ri >= ri0, ro <= ro0,
           NEW out \in Nat, out * (ri + f) <= ro * f * 2
    PROVE  out <= (2 * ro0 * f) \div (ri0 + f)
<1> DEFINE x == 2 * ro0 * f
           y == ri0 + f
           z == ri + f
           w == ro * f
           w0 == ro0 * f
<1>1. x \in Nat /\ y \in Nat \ {0} /\ z \in Nat /\ y <= z /\ w \in Nat /\ w0 \in Nat /\ x = w0 * 2
  OBVIOUS
<1>2. out * y <= out * z
  <2> HIDE DEF y, z
  <2> QED BY <1>1, ProductGrows
<1>3. w <= w0
  BY ProductGrows
<1>4. out * z <= w * 2
  OBVIOUS
<1> HIDE DEF x, y, z, w, w0
<1>5. out * y <= x
  <2>1. out * y \in Nat /\ out * z \in Nat
    BY <1>1
  <2> QED BY <1>1, <1>2, <1>3, <1>4, <2>1
<1>6. out <= x \div y
  BY <1>1, <1>5, QuotientGreatest
<1> QED BY <1>6 DEF x, y

\* Where the fee is a small part of the amount, a doubled output that is not
\* dust costs the pool more than the rounding and the fee gave it.
LEMMA SmallFee ==
    ASSUME NEW ri \in Nat \ {0}, NEW ro \in Nat, NEW f \in Nat, NEW a \in Nat, f < a,
           NEW left \in Nat, NEW out \in Nat, ro = left + out,
           ro * f * 2 < (out + 1) * (ri + f),
           (ri + a) * left >= ri * ro,
           NEW dust \in Nat, (2 * dust + 1) * f >= (dust + 1) * a
    PROVE  out <= 2 * dust
<1> SUFFICES ASSUME out >= 2 * dust + 1 PROVE FALSE
  OBVIOUS
<1> DEFINE z == ri + f
           m == 2 * dust + 1
           e == out - m
<1>1. m \in Nat \ {0} /\ e \in Nat /\ out = m + e /\ z \in Nat \ {0}
  OBVIOUS
<1>2. z * out <= a * ro
  <2>1. (ri + a) * left = (ri + a) * ro - (ri + a) * out
    OBVIOUS
  <2>2. (ri + a) * ro = ri * ro + a * ro
    OBVIOUS
  <2>3. (ri + a) * out <= a * ro
    <3> DEFINE g == (ri + a) * out
               k == a * ro
               l == ri * ro
    <3>1. g \in Nat /\ k \in Nat /\ l \in Nat /\ (l + k) - g >= l
      BY <2>1, <2>2
    <3> HIDE DEF g, k, l
    <3>2. g <= k
      BY <3>1
    <3> QED BY <3>2 DEF g, k
  <2>4. z * out <= (ri + a) * out
    <3> DEFINE y == ri + a
    <3>1. y \in Nat /\ z <= y
      OBVIOUS
    <3> HIDE DEF y, z
    <3>2. z * out <= y * out
      BY <1>1, <3>1, ProductGrows
    <3> QED BY <3>2 DEF y
  <2>5. z * out \in Nat /\ (ri + a) * out \in Nat /\ a * ro \in Nat
    OBVIOUS
  <2> HIDE DEF z
  <2> QED BY <2>3, <2>4, <2>5
<1>3. ro * f * 2 < (out + 1) * z
  OBVIOUS
<1>4. 2 * f * m >= (m + 1) * a
  <2>1. 2 * f * m = 2 * ((2 * dust + 1) * f) /\ (m + 1) * a = 2 * ((dust + 1) * a)
    OBVIOUS
  <2>2. (2 * dust + 1) * f \in Nat /\ (dust + 1) * a \in Nat
    OBVIOUS
  <2> HIDE DEF m
  <2> QED BY <2>1, <2>2
<1> HIDE DEF z, m, e
<1>5. 2 * f >= a
  <2> SUFFICES ASSUME 2 * f < a PROVE FALSE
    OBVIOUS
  <2> DEFINE g == 2 * f
  <2>1. g \in Nat /\ g <= a
    OBVIOUS
  <2> HIDE DEF g
  <2>2. g * m <= a * m
    BY <1>1, <2>1, ProductGrows
  <2>3. (m + 1) * a = a * m + a /\ a * m \in Nat /\ g * m \in Nat
    BY <1>1, <2>1
  <2>4. g * m >= a * m + a
    BY <1>4, <2>3 DEF g
  <2>5. a > 0
    OBVIOUS
  <2> QED BY <2>2, <2>3, <2>4, <2>5
<1>6. 2 * f * out >= (out + 1) * a
  <2> DEFINE g == 2 * f
  <2>1. g \in Nat /\ g >= a /\ g * m >= (m + 1) * a
    BY <1>4, <1>5
  <2> HIDE DEF g
  <2>2. a * e <= g * e
    BY <1>1, <2>1, ProductGrows
  <2>3. g * out = g * m + g * e /\ (out + 1) * a = (m + 1) * a + a * e
    BY <1>1, <2>1
  <2>4. g * m \in Nat /\ g * e \in Nat /\ a * e \in Nat /\ (m + 1) * a \in Nat
    BY <1>1, <2>1
  <2>5. g * out >= (out + 1) * a
    BY <2>1, <2>2, <2>3, <2>4
  <2> QED BY <2>5 DEF g
<1>7. 2 * f * (z * out) <= 2 * f * (a * ro)
  <2> DEFINE g == 2 * f
             p == z * out
             q == a * ro
  <2>1. g \in Nat /\ p \in Nat /\ q \in Nat /\ p <= q
    BY <1>1, <1>2
  <2> HIDE DEF g, p, q
  <2>2. g * p <= g * q
    BY <2>1, ProductGrows
  <2> QED BY <2>2 DEF g, p, q
<1>8. 2 * f * (a * ro) < (out + 1) * z * a
  <2> DEFINE p == ro * f * 2
             q == (out + 1) * z
  <2>1. p \in Nat /\ q \in Nat /\ p < q /\ a > 0
    BY <1>1, <1>3
  <2>2. 2 * f * (a * ro) = p * a
    OBVIOUS
  <2> HIDE DEF p, q
  <2>3. (p + 1) * a <= q * a
    BY <2>1, ProductGrows
  <2>4. (p + 1) * a = p * a + a /\ p * a \in Nat
    BY <2>1
  <2>5. p * a < q * a
    BY <2>1, <2>3, <2>4
  <2> QED BY <2>2, <2>5 DEF q
<1>9. (out + 1) * z * a <= 2 * f * (z * out)
  <2> DEFINE p == (out + 1) * a
             q == 2 * f * out
  <2>1. p \in Nat /\ q \in Nat /\ p <= q
    BY <1>6
  <2>2. (out + 1) * z * a = p * z /\ 2 * f * (z * out) = q * z
    BY <1>1
  <2> HIDE DEF p, q
  <2>3. p * z <= q * z
    BY <1>1, <2>1, ProductGrows
  <2> QED BY <2>2, <2>3
<1> DEFINE x1 == 2 * f * (z * out)
           x2 == 2 * f * (a * ro)
           x3 == (out + 1) * z * a
<1>10. x1 \in Nat /\ x2 \in Nat /\ x3 \in Nat /\ x1 <= x2 /\ x2 < x3 /\ x3 <= x1
  BY <1>1, <1>7, <1>8, <1>9
<1> HIDE DEF x1, x2, x3
<1> QED BY <1>10

\* What a program does with one of its plants taken out.
Without(p) == plants \ {p}

\* The pool with the doubled output, and k no smaller after a swap: it paid
\* too much by no more than Dust.
LEMMA PoolDust ==
    ASSUME NEW with, "out" \in with, NEW a, IsPool(a), NEW amount \in Amounts,
           a.reserveIn >= InitialReserveIn, a.reserveOut <= InitialReserveOut,
           NEW b, Swap(with, a, amount) = Accepted(b),
           b.reserveIn * b.reserveOut >= a.reserveIn * a.reserveOut
    PROVE  Swap(with \ {"out"}, a, amount).to.vaultOut - b.vaultOut <= Dust
<1> DEFINE f == AfterFee(amount)
           ri == a.reserveIn
           ro == a.reserveOut
           paid == (ro * f * 2) \div (ri + f)
           owed == (ro * f) \div (ri + f)
           drift == IF "in" \in with THEN 1 ELSE 0
<1>1. amount \in Nat /\ FeeBps \in 0..10000 /\ Dust \in Nat
      /\ InitialReserveIn \in Nat \ {0} /\ InitialReserveOut \in Nat
  BY PlantedAssumption, BenchAssumption, DustAssumption
<1>2. f \in Nat /\ f <= amount
  <2> DEFINE rate == 10000 - FeeBps
             x == amount * rate
  <2>1. rate \in Nat /\ rate <= 10000
    BY <1>1
  <2>2. f = x \div 10000
    BY DEF AfterFee
  <2> HIDE DEF rate
  <2>3. x \in Nat /\ x <= amount * 10000
    BY <1>1, <2>1
  <2> HIDE DEF f, x
  <2> QED BY <1>1, <2>2, <2>3
<1>3. \/ (2 * Dust + 1) * f >= (Dust + 1) * (amount + 1)
      \/ (2 * InitialReserveOut * f) \div (InitialReserveIn + f) <= 2 * Dust
  BY DustAssumption
<1> HIDE DEF f
<1>4. /\ ri \in Nat \ {0} /\ ro \in Nat /\ a.vaultOut = ro /\ drift \in {0, 1}
  BY DEF IsPool
<1>5. /\ Swap(with, a, amount) =
           IF paid > 0 /\ amount <= a.userSrc /\ paid <= a.vaultOut
           THEN Accepted([reserveIn |-> ri + amount + drift, reserveOut |-> ro - paid,
                       userSrc |-> a.userSrc - amount, userDst |-> a.userDst + paid,
                       vaultIn |-> a.vaultIn + amount, vaultOut |-> a.vaultOut - paid])
           ELSE Refused(a)
  BY DEF Swap, f
<1>6. ro * f * 1 = ro * f
  BY <1>2, <1>4
<1>7. Swap(with \ {"out"}, a, amount) =
           IF owed > 0 /\ amount <= a.userSrc /\ owed <= a.vaultOut
           THEN Accepted([reserveIn |-> ri + amount + drift, reserveOut |-> ro - owed,
                       userSrc |-> a.userSrc - amount, userDst |-> a.userDst + owed,
                       vaultIn |-> a.vaultIn + amount, vaultOut |-> a.vaultOut - owed])
           ELSE Refused(a)
  <2>1. "out" \notin with \ {"out"} /\ ("in" \in with \ {"out"} <=> "in" \in with)
    OBVIOUS
  <2> HIDE DEF paid
  <2> QED BY <1>6, <2>1 DEF Swap, f
<1>8. paid \in Nat /\ owed \in Nat /\ paid * (ri + f) <= ro * f * 2 /\ ro * f * 2 < (paid + 1) * (ri + f)
      /\ owed * (ri + f) <= ro * f /\ ro * f < (owed + 1) * (ri + f)
  <2> DEFINE x == ro * f
             x2 == x * 2
             y == ri + f
  <2>1. x \in Nat /\ x2 \in Nat /\ y \in Nat \ {0}
    BY <1>2, <1>4
  <2> HIDE DEF x2, y
  <2>2. x2 \div y \in Nat /\ (x2 \div y) * y <= x2 /\ x2 < (x2 \div y + 1) * y
    BY <2>1, Quotient
  <2> HIDE DEF x
  <2>3. x \div y \in Nat /\ (x \div y) * y <= x /\ x < (x \div y + 1) * y
    BY <2>1, Quotient
  <2> QED BY <2>2, <2>3 DEF x, x2, y
<1> HIDE DEF paid, owed, ri, ro, drift
<1>9. /\ paid > 0 /\ amount <= a.userSrc /\ paid <= ro
      /\ b.reserveIn = ri + amount + drift /\ b.reserveOut = ro - paid /\ b.vaultOut = ro - paid
  BY <1>4, <1>5 DEF Accepted, Refused
<1> DEFINE left == ro - paid
           spent == amount + 1
<1>10. left \in Nat /\ ro = left + paid /\ spent \in Nat /\ f < spent
  BY <1>1, <1>2, <1>4, <1>8, <1>9
<1>11. (ri + spent) * left >= ri * ro
  <2> DEFINE u == ri + amount + drift
             v == ri + spent
  <2>1. u \in Nat /\ v \in Nat /\ u <= v
    BY <1>1, <1>4
  <2>2. u * left >= ri * ro
    BY <1>9 DEF ri, ro
  <2> HIDE DEF u, v, left
  <2>3. u * left <= v * left
    BY <1>10, <2>1, ProductGrows
  <2>4. u * left \in Nat /\ v * left \in Nat /\ ri * ro \in Nat
    BY <1>4, <1>10, <2>1
  <2>5. v * left >= ri * ro
    BY <2>2, <2>3, <2>4
  <2> QED BY <2>5 DEF v
<1>12. paid <= 2 * Dust
  <2>1. CASE (2 * Dust + 1) * f >= (Dust + 1) * (amount + 1)
    <3>1. (2 * Dust + 1) * f >= (Dust + 1) * spent
      BY <2>1
    <3> HIDE DEF left, spent
    <3> QED BY <1>1, <1>2, <1>4, <1>8, <1>10, <1>11, <3>1, SmallFee
  <2>2. CASE (2 * InitialReserveOut * f) \div (InitialReserveIn + f) <= 2 * Dust
    <3> DEFINE most == (2 * InitialReserveOut * f) \div (InitialReserveIn + f)
    <3>1. ri >= InitialReserveIn /\ ro <= InitialReserveOut
      BY DEF ri, ro
    <3>2. paid <= most
      BY <1>1, <1>2, <1>4, <1>8, <3>1, DeepPool
    <3>3. most \in Nat
      <4> DEFINE x == 2 * InitialReserveOut * f
                 y == InitialReserveIn + f
      <4>1. x \in Nat /\ y \in Nat \ {0}
        BY <1>1, <1>2
      <4> HIDE DEF x, y
      <4>2. x \div y \in Nat
        BY <4>1
      <4> QED BY <4>2 DEF x, y
    <3>4. most <= 2 * Dust
      BY <2>2
    <3> HIDE DEF most
    <3> QED BY <1>1, <1>8, <3>2, <3>3, <3>4
  <2> QED BY <1>3, <2>1, <2>2
\* Rounded down once more, half of a doubled output is the output.
<1>13. owed <= paid /\ paid <= 2 * owed + 1
  <2> DEFINE y == ri + f
             x == ro * f
  <2>1. y \in Nat \ {0} /\ x \in Nat
    BY <1>2, <1>4
  <2>2. owed * y <= x /\ x < (owed + 1) * y /\ paid * y <= x * 2 /\ x * 2 < (paid + 1) * y
    BY <1>8
  <2> HIDE DEF x, y
  <2>3. ASSUME paid >= 2 * owed + 2 PROVE FALSE
    <3> DEFINE m == 2 * owed + 2
    <3>1. m \in Nat /\ m <= paid
      BY <1>8, <2>3
    <3>2. m * y = (owed + 1) * y * 2
      BY <1>8, <2>1
    <3> HIDE DEF m
    <3>3. m * y <= paid * y
      BY <1>8, <2>1, <3>1, ProductGrows
    <3>4. (owed + 1) * y \in Nat /\ paid * y \in Nat
      BY <1>8, <2>1
    <3> DEFINE g == (owed + 1) * y
    <3>5. x < g /\ g \in Nat /\ g * 2 <= paid * y
      BY <2>2, <3>2, <3>3, <3>4
    <3> HIDE DEF g
    <3> QED BY <2>1, <2>2, <3>4, <3>5
  <2>4. ASSUME owed >= paid + 1 PROVE FALSE
    <3> DEFINE m == paid + 1
    <3>1. m \in Nat /\ m <= owed
      BY <1>8, <2>4
    <3> HIDE DEF m
    <3>2. m * y <= owed * y
      BY <1>8, <2>1, <3>1, ProductGrows
    <3>3. m * y \in Nat /\ owed * y \in Nat
      BY <1>8, <2>1, <3>1
    <3>4. x * 2 < m * y
      BY <2>2 DEF m
    <3> QED BY <2>1, <2>2, <3>2, <3>3, <3>4
  <2> QED BY <1>8, <2>3, <2>4
<1>14. Swap(with \ {"out"}, a, amount).to.vaultOut = IF owed > 0 THEN ro - owed ELSE ro
  <2>1. owed <= a.vaultOut
    BY <1>4, <1>8, <1>9, <1>13
  <2>2. CASE owed > 0
    BY <1>4, <1>7, <1>9, <2>1, <2>2 DEF Accepted
  <2>3. CASE ~(owed > 0)
    BY <1>4, <1>7, <2>3 DEF Refused
  <2> QED BY <2>2, <2>3
<1> QED BY <1>1, <1>4, <1>8, <1>9, <1>12, <1>13, <1>14

\* Ticks of which each is below the next are in order.
LEMMA StepsSorted ==
    ASSUME NEW ticks \in Seq(Ticks),
           \A i \in 1..(Len(ticks) - 1) : ticks[i].price < ticks[i + 1].price
    PROVE  Sorted(ticks)
<1> DEFINE N == Len(ticks)
           P == {k \in 0..N : \A i \in 1..N : i < k => ticks[i].price < ticks[k].price}
<1>1. N \in Nat /\ \A i \in 1..N : ticks[i].price \in Nat
  <2>1. \A i \in 1..N : ticks[i] \in Ticks
    OBVIOUS
  <2> HIDE DEF N
  <2>2. \A i \in 1..N : ticks[i].price \in Nat
    BY <2>1 DEF Ticks
  <2> QED BY <2>2 DEF N
<1>2. \A i \in 1..(N - 1) : ticks[i].price < ticks[i + 1].price
  OBVIOUS
<1>3. 0 \in P
  BY <1>1
<1>4. ASSUME NEW k \in 1..N, k - 1 \in P PROVE k \in P
  <2>1. k \in 0..N
    BY <1>1
  <2>2. ASSUME NEW i \in 1..N, i < k PROVE ticks[i].price < ticks[k].price
    <3>1. k - 1 \in 1..(N - 1) /\ (k - 1) + 1 = k
      BY <1>1, <2>2
    <3>2. ticks[k - 1].price < ticks[k].price
      BY <1>2, <3>1
    <3>3. CASE i = k - 1
      BY <3>2, <3>3
    <3>4. CASE i < k - 1
      <4>1. ticks[i].price < ticks[k - 1].price
        BY <1>4, <3>4
      <4>2. ticks[i].price \in Nat /\ ticks[k - 1].price \in Nat /\ ticks[k].price \in Nat
        BY <1>1, <3>1
      <4> HIDE DEF N, P
      <4> QED BY <3>2, <4>1, <4>2
    <3> QED BY <2>2, <3>3, <3>4
  <2> QED BY <2>1, <2>2
<1> HIDE DEF P
<1>5. \A k \in 0..N : k \in P
  <2> HIDE DEF N
  <2> QED BY <1>1, <1>3, <1>4, UpTo
<1>6. ASSUME NEW i \in 1..N, NEW j \in 1..N, i < j PROVE ticks[i].price < ticks[j].price
  <2>1. j \in P
    BY <1>1, <1>5
  <2> QED BY <1>6, <2>1 DEF P
<1> QED BY <1>6 DEF Sorted

\* A tick opened at the end that leaves the book in order was opened where it
\* belongs.
LEMMA SortUnseen ==
    ASSUME NEW ticks \in Seq(Ticks), Len(ticks) <= NTicks, NEW price \in Nat,
           NEW owner \in {User, Zero}, NEW opened \in Nat,
           NEW book, book = PlaceIn(ticks, price, owner, Len(ticks) + 1, opened),
           book.ok, \A i \in 1..(Len(book.to) - 1) : book.to[i].price < book.to[i + 1].price
    PROVE  PlaceIn(ticks, price, owner, LowerBound(ticks, price) + 1, opened) = book
<1> DEFINE N == Len(ticks)
           bound == LowerBound(ticks, price)
           lo == bound + 1
           fresh == [price |-> price, n_orders |-> opened, owners |-> <<owner>>]
           joins == lo <= Len(ticks) /\ ticks[lo].price = price
<1>1. CASE joins
  BY <1>1 DEF PlaceIn
<1>2. CASE ~joins
  <2>1. book = IF N < NTicks THEN Accepted(InsertAt(ticks, N + 1, fresh)) ELSE Refused(ticks)
    BY <1>2 DEF PlaceIn
  <2> DEFINE longer == InsertAt(ticks, N + 1, fresh)
  <2>2. N < NTicks /\ book.to = longer
    <3> HIDE DEF longer, N
    <3> QED BY <2>1 DEF Accepted, Refused, longer
  <2>3. N \in Nat /\ fresh \in Ticks
    BY DEF Ticks
  <2>4. IsInserted(Ticks, longer, ticks, N + 1, fresh)
    <3> DEFINE end == N + 1
    <3>1. end \in 1..(Len(ticks) + 1)
      BY <2>3
    <3> HIDE DEF end, fresh
    <3>2. IsInserted(Ticks, InsertAt(ticks, end, fresh), ticks, end, fresh)
      BY <2>3, <3>1, Inserted
    <3> QED BY <3>2 DEF end
  <2> HIDE DEF longer
  <2>5. /\ Len(longer) = N + 1 /\ \A i \in 1..N : longer[i] = ticks[i]
        /\ longer[N + 1].price = price
    BY <2>3, <2>4 DEF IsInserted
  <2>6. \A i \in 1..N : longer[i].price < longer[i + 1].price
    <3> DEFINE more == book.to
    <3>1. \A i \in 1..(Len(more) - 1) : more[i].price < more[i + 1].price
      OBVIOUS
    <3>2. more = longer
      BY <2>2
    <3> HIDE DEF more, N
    <3>3. Len(more) - 1 = N
      BY <2>3, <2>5, <3>2
    <3> QED BY <3>1, <3>2, <3>3
  <2>7. ASSUME NEW i \in 1..(N - 1) PROVE ticks[i].price < ticks[i + 1].price
    <3>1. i \in 1..N /\ i + 1 \in 1..N
      BY <2>3
    <3> HIDE DEF N
    <3> QED BY <2>5, <2>6, <3>1
  <2>8. Sorted(ticks)
    BY <2>7, StepsSorted
  <2>9. bound \in 0..N /\ \A i \in (bound + 1)..N : ticks[i].price >= price
    <3>1. Bounds(ticks, price, <<0, Len(ticks)>>, LowerBound(ticks, price))
      BY BoundFound
    <3>2. Bounds(ticks, price, <<0, N>>, bound)
      BY <3>1
    <3> HIDE DEF bound, N
    <3> QED BY <2>8, <3>2 DEF Bounds
  <2> HIDE DEF bound
  <2>10. bound = N
    <3> SUFFICES ASSUME bound # N PROVE FALSE
      OBVIOUS
    <3>1. N \in (bound + 1)..N /\ N \in 1..N
      BY <2>3, <2>9
    <3>2. ticks[N].price >= price /\ ticks[N].price < price
      <4> HIDE DEF N
      <4> QED BY <2>3, <2>5, <2>6, <2>9, <3>1
    <3>3. ticks[N].price \in Nat
      <4>1. ticks[N] \in Ticks
        BY <3>1
      <4> HIDE DEF N
      <4> QED BY <4>1 DEF Ticks
    <3> QED BY <3>2, <3>3
  <2> QED BY <2>10 DEF bound
<1> QED BY <1>1, <1>2

\* Some order is the owner's; some tick counts so many orders.
OwnerShows(ticks, owner) ==
    \E i \in DOMAIN ticks : \E d \in DOMAIN ticks[i].owners : ticks[i].owners[d] = owner

CountShows(ticks, orders) == \E i \in DOMAIN ticks : ticks[i].n_orders = orders

\* Every count of the orders of a new tick would have given this.
AnyCount(ticks, price, owner, at, book) ==
    \A orders \in Nat : PlaceIn(ticks, price, owner, at, orders) = book

\* A tick opened with an order too many shows, and one opened or joined for
\* nobody.
LEMMA PlaceShows ==
    ASSUME NEW ticks \in Seq(Ticks), Len(ticks) <= NTicks, NEW price \in Nat,
           NEW owner \in {User, Zero}, NEW opened \in Nat, NEW at \in 1..(Len(ticks) + 1),
           NEW book, book = PlaceIn(ticks, price, owner, at, opened), book.ok
    PROVE  /\ OwnerShows(book.to, owner)
           /\ AnyCount(ticks, price, owner, at, book) \/ CountShows(book.to, opened)
<1> DEFINE N == Len(ticks)
           lo == LowerBound(ticks, price) + 1
           old == ticks[lo]
           joined == [price |-> price, n_orders |-> old.n_orders + 1, owners |-> Append(old.owners, owner)]
           fresh == [price |-> price, n_orders |-> opened, owners |-> <<owner>>]
           joins == lo <= Len(ticks) /\ ticks[lo].price = price
<1>1. N \in Nat /\ lo \in 1..(N + 1)
  <2>1. Bounds(ticks, price, <<0, Len(ticks)>>, LowerBound(ticks, price))
    BY BoundFound
  <2> QED BY <2>1 DEF Bounds
<1>2. CASE joins
  <2>1. lo \in 1..N /\ old \in Ticks
    BY <1>1, <1>2
  <2> DEFINE more == [ticks EXCEPT ![lo] = joined]
  <2>2. book = IF old.n_orders < TickDepth THEN Accepted(more) ELSE Refused(ticks)
    BY <1>2 DEF PlaceIn
  <2>3. book.to = more
    <3> HIDE DEF more, old
    <3> QED BY <2>2 DEF Accepted, Refused
  <2>4. lo \in DOMAIN more /\ more[lo] = joined
    <3> HIDE DEF lo, joined
    <3> QED BY <2>1
  <2>5. old.owners \in Seq({User, Zero})
    <3> HIDE DEF old
    <3> QED BY <2>1 DEF Ticks
  <2> DEFINE o == old.owners
             d == Len(o) + 1
  <2> HIDE DEF old
  <2>6. d \in DOMAIN Append(o, owner) /\ Append(o, owner)[d] = owner
    <3> HIDE DEF o
    <3>1. o \in Seq({User, Zero})
      BY <2>5 DEF o
    <3> QED BY <3>1
  <2>7. d \in DOMAIN joined.owners /\ joined.owners[d] = owner
    BY <2>6
  <2>8. AnyCount(ticks, price, owner, at, book)
    BY <1>2 DEF PlaceIn, AnyCount
  <2> HIDE DEF more, joined, lo, d
  <2> QED BY <2>3, <2>4, <2>7, <2>8 DEF OwnerShows
<1>3. CASE ~joins
  <2> DEFINE longer == InsertAt(ticks, at, fresh)
  <2>1. book = IF N < NTicks THEN Accepted(longer) ELSE Refused(ticks)
    BY <1>3 DEF PlaceIn
  <2>2. book.to = longer
    <3> HIDE DEF longer, N
    <3> QED BY <2>1 DEF Accepted, Refused
  <2>3. IsInserted(Ticks, longer, ticks, at, fresh)
    <3>1. fresh \in Ticks
      BY DEF Ticks
    <3> HIDE DEF fresh
    <3> QED BY <3>1, Inserted
  <2> HIDE DEF longer
  <2>4. at \in DOMAIN longer /\ longer[at] = fresh
    <3>1. longer \in Seq(Ticks) /\ Len(longer) = N + 1
      BY <2>3 DEF IsInserted
    <3>2. at \in 1..(N + 1) /\ ~(at < at)
      BY <1>1
    <3>3. longer[at] = fresh
      <4> HIDE DEF fresh
      <4> QED BY <2>3, <3>2 DEF IsInserted
    <3> HIDE DEF fresh, N
    <3> QED BY <3>1, <3>2, <3>3
  <2>5. fresh.n_orders = opened /\ 1 \in DOMAIN fresh.owners /\ fresh.owners[1] = owner
    OBVIOUS
  <2> HIDE DEF fresh
  <2> QED BY <2>2, <2>4, <2>5 DEF OwnerShows, CountShows
<1> QED BY <1>2, <1>3

\* What is known of an action that landed: what it found and was given, what
\* was noted before it, and that the accounts are what the program left.
Acted ==
    /\ Run(plants, last.found, last.arg, TRUE) = Accepted(s)
    /\ fx.ok
    /\ h \in Book => IsBook(plants, last.found) /\ last.arg \in Nat
    /\ h = "amm-buggy" =>
          /\ IsPool(last.found) /\ last.arg \in Amounts
          /\ last.found.reserveIn >= InitialReserveIn
          /\ last.found.reserveOut <= InitialReserveOut
          /\ fx.pre = AmmWatched(last.found)
    /\ h = "refresh-buggy" => fx.slot = last.arg
    /\ h = "vault-buggy" => /\ IsVault(last.found) /\ last.arg \in Nat
                            /\ fx.pre = VaultWatched(last.found)
    /\ h = "oracle-buggy" => IsFeed(last.found) /\ fx.pre = last.found.count
    /\ h \in Feed => fx.slot = last.arg

\* The action checked last left what it would have without the plant of c.
Unacted(c) ==
    LET p == PlantOf[c] IN
    \/ Run(plants \ {p}, last.found, last.arg, TRUE) = Accepted(s)
    \/ p = "out" /\ Excess(p) <= Dust
    \/ h = "matching" /\ p = "owner"

StateChecks == DOMAIN PlantOf \ {"signer_skip", "unchecked_math"}

\* What a program without the plant would do is what it did.
LEMMA AbsentUnacted ==
    ASSUME Acted, NEW c, PlantOf[c] \notin plants
    PROVE  Unacted(c)
<1>1. plants \ {PlantOf[c]} = plants
  OBVIOUS
<1> QED BY <1>1 DEF Acted, Unacted

\* The book as the action placed it.
LEMMA BookActed ==
    ASSUME BenchInv, Acted, h \in Anchor4
    PROVE  LET a == last.found
               owner == IF "owner" \in plants THEN Zero ELSE User
               at == IF "sort" \in plants THEN Len(a.ticks) + 1 ELSE LowerBound(a.ticks, last.arg) + 1
               opened == IF "orders" \in plants THEN TickDepth + 1 ELSE 1
               q == IF "sequence" \in plants /\ a.sequence % 2 = 1 THEN 0 ELSE a.sequence + 1
               book == PlaceIn(a.ticks, last.arg, owner, at, opened)
           IN  book.ok /\ s = [sequence |-> q, ticks |-> book.to]
<1> DEFINE a == last.found
           owner == IF "owner" \in plants THEN Zero ELSE User
           at == IF "sort" \in plants THEN Len(a.ticks) + 1 ELSE LowerBound(a.ticks, last.arg) + 1
           opened == IF "orders" \in plants THEN TickDepth + 1 ELSE 1
           q == IF "sequence" \in plants /\ a.sequence % 2 = 1 THEN 0 ELSE a.sequence + 1
           book == PlaceIn(a.ticks, last.arg, owner, at, opened)
<1>1. Run(plants, a, last.arg, TRUE) = PlaceOrderAnchor(plants, a, last.arg, User, TRUE)
  BY DEF Run, Anchor4
<1>2. PlaceOrderAnchor(plants, a, last.arg, User, TRUE) = Placed(a, q, book)
  BY DEF PlaceOrderAnchor
<1>3. Placed(a, q, book) = Accepted(s)
  BY <1>1, <1>2 DEF Acted
<1> HIDE DEF q, book
<1>4. book.ok /\ s = [sequence |-> q, ticks |-> book.to]
  BY <1>3 DEF Placed, Accepted, Refused
<1> QED BY <1>4 DEF q, book

\* A check of the book that is satisfied had nothing to see.
LEMMA AnchorUnacted ==
    ASSUME BenchInv, Acted, h \in Anchor4, NEW c \in StateChecks, c \in Range(SmokeOf(h)), Holds(c)
    PROVE  Unacted(c)
<1> DEFINE a == last.found
           ticks == a.ticks
           price == last.arg
           owner == IF "owner" \in plants THEN Zero ELSE User
           bound == LowerBound(ticks, price) + 1
           at == IF "sort" \in plants THEN Len(ticks) + 1 ELSE bound
           opened == IF "orders" \in plants THEN TickDepth + 1 ELSE 1
           q == IF "sequence" \in plants /\ a.sequence % 2 = 1 THEN 0 ELSE a.sequence + 1
           book == PlaceIn(ticks, price, owner, at, opened)
<1>1. c \in {"tick_sort", "count_consistency", "owner_attribution"}
  <2>1. SmokeOf(h) = MatchingSmoke
    BY DEF SmokeOf, Anchor4
  <2>2. c \notin {"signer_skip", "unchecked_math"}
    BY DEF StateChecks
  <2> QED BY <2>1, <2>2 DEF MatchingSmoke, Range
<1>2. book.ok /\ s = [sequence |-> q, ticks |-> book.to]
  BY BookActed
<1>3. ticks \in Seq(Ticks) /\ Len(ticks) <= NTicks /\ price \in Nat /\ TickDepth \in Nat
  BY PlantedAssumption DEF Acted, Book, IsBook, Keeping
<1>4. owner \in {User, Zero} /\ opened \in Nat /\ at \in 1..(Len(ticks) + 1)
  <2>1. Bounds(ticks, price, <<0, Len(ticks)>>, LowerBound(ticks, price))
    BY <1>3, BoundFound
  <2>2. bound \in 1..(Len(ticks) + 1)
    BY <1>3, <2>1 DEF Bounds
  <2> QED BY <1>3, <2>2
<1>5. s.ticks = book.to
  BY <1>2
\* A program that places the order so leaves the same accounts.
<1>6. ASSUME NEW with,
             IF "sequence" \in with THEN "sequence" \in plants ELSE "sequence" \notin plants,
             LET at1 == IF "sort" \in with THEN Len(ticks) + 1 ELSE LowerBound(ticks, price) + 1
                 owner1 == IF "owner" \in with THEN Zero ELSE User
                 opened1 == IF "orders" \in with THEN TickDepth + 1 ELSE 1
             IN  PlaceIn(ticks, price, owner1, at1, opened1) = book
      PROVE  Run(with, last.found, last.arg, TRUE) = Accepted(s)
  <2> HIDE DEF book
  <2>1. PlaceOrderAnchor(with, a, price, User, TRUE) = Placed(a, q, book)
    BY <1>6 DEF PlaceOrderAnchor
  <2>2. Placed(a, q, book) = Accepted(s)
    <3> HIDE DEF q
    <3> QED BY <1>2 DEF Placed, book
  <2>3. Run(with, a, price, TRUE) = PlaceOrderAnchor(with, a, price, User, TRUE)
    BY DEF Run, Anchor4
  <2> QED BY <2>1, <2>2, <2>3
<1>7. CASE c = "tick_sort"
  <2>1. SUFFICES ASSUME "sort" \in plants PROVE Unacted(c)
    BY <1>7, AbsentUnacted DEF PlantOf
  <2>2. CheckTickSort
    BY <1>7 DEF Holds
  <2>3. \A i \in 1..(Len(book.to) - 1) : book.to[i].price < book.to[i + 1].price
    <3> HIDE DEF book
    <3> QED BY <1>5, <2>2 DEF CheckTickSort
  <2>4. book = PlaceIn(ticks, price, owner, Len(ticks) + 1, opened)
    BY <2>1
  <2>5. PlaceIn(ticks, price, owner, LowerBound(ticks, price) + 1, opened) = book
    <3> HIDE DEF book, owner, opened, ticks, price
    <3> QED BY <1>2, <1>3, <1>4, <2>3, <2>4, SortUnseen
  <2> DEFINE with == plants \ {"sort"}
  <2>6. Run(with, last.found, last.arg, TRUE) = Accepted(s)
    <3>1. "sort" \notin with /\ ("owner" \in with <=> "owner" \in plants)
          /\ ("orders" \in with <=> "orders" \in plants)
          /\ ("sequence" \in with <=> "sequence" \in plants)
      OBVIOUS
    <3> HIDE DEF book, with
    <3> QED BY <1>6, <2>5, <3>1
  <2> QED BY <1>7, <2>6 DEF Unacted, PlantOf
<1>8. CASE c = "count_consistency"
  <2>1. SUFFICES ASSUME "orders" \in plants PROVE Unacted(c)
    BY <1>8, AbsentUnacted DEF PlantOf
  <2>2. CheckCountConsistency
    BY <1>8 DEF Holds
  <2>3. opened = TickDepth + 1
    BY <2>1
  <2>4. AnyCount(ticks, price, owner, at, book) \/ CountShows(book.to, opened)
    <3> DEFINE b == book
    <3>1. b = PlaceIn(ticks, price, owner, at, opened) /\ b.ok
      BY <1>2
    <3>3. /\ ticks \in Seq(Ticks) /\ Len(ticks) <= NTicks /\ price \in Nat /\ owner \in {User, Zero}
          /\ opened \in Nat /\ at \in 1..(Len(ticks) + 1)
      BY <1>3, <1>4
    <3> HIDE DEF b, owner, at, opened, ticks, price
    <3>2. AnyCount(ticks, price, owner, at, b) \/ CountShows(b.to, opened)
      BY <3>1, <3>3, PlaceShows
    <3> QED BY <3>2 DEF b
  <2>5. ~CountShows(book.to, opened)
    <3> HIDE DEF book
    <3> QED BY <1>3, <1>5, <2>2, <2>3 DEF CheckCountConsistency, CountShows
  <2>6. PlaceIn(ticks, price, owner, at, 1) = book
    BY <2>4, <2>5 DEF AnyCount
  <2> DEFINE with == plants \ {"orders"}
  <2>7. Run(with, last.found, last.arg, TRUE) = Accepted(s)
    <3>1. "orders" \notin with /\ ("owner" \in with <=> "owner" \in plants)
          /\ ("sort" \in with <=> "sort" \in plants)
          /\ ("sequence" \in with <=> "sequence" \in plants)
      OBVIOUS
    <3> HIDE DEF book, with
    <3> QED BY <1>6, <2>6, <3>1
  <2> QED BY <1>8, <2>7 DEF Unacted, PlantOf
<1>9. CASE c = "owner_attribution"
  <2>1. SUFFICES ASSUME "owner" \in plants, h # "matching" PROVE Unacted(c)
    <3>1. PlantOf[c] = "owner"
      BY <1>9 DEF PlantOf
    <3>2. CASE "owner" \notin plants
      BY <3>1, <3>2, AbsentUnacted
    <3>3. CASE h = "matching"
      BY <3>1, <3>3 DEF Unacted
    <3> QED BY <3>2, <3>3
  <2>2. CheckOwnerAttribution
    BY <1>9, <2>1 DEF Holds
  <2>3. owner = Zero
    BY <2>1
  <2>4. OwnerShows(book.to, owner)
    <3> DEFINE b == book
    <3>1. b = PlaceIn(ticks, price, owner, at, opened) /\ b.ok
      BY <1>2
    <3>3. /\ ticks \in Seq(Ticks) /\ Len(ticks) <= NTicks /\ price \in Nat /\ owner \in {User, Zero}
          /\ opened \in Nat /\ at \in 1..(Len(ticks) + 1)
      BY <1>3, <1>4
    <3> HIDE DEF b, owner, at, opened, ticks, price
    <3>2. OwnerShows(b.to, owner)
      BY <3>1, <3>3, PlaceShows
    <3> QED BY <3>2 DEF b
  <2>5. owner = User
    <3> HIDE DEF book, owner
    <3> QED BY <1>5, <2>2, <2>4 DEF CheckOwnerAttribution, OwnerShows
  <2>6. PlaceIn(ticks, price, User, at, opened) = book
    BY <2>5
  <2> DEFINE with == plants \ {"owner"}
  <2>7. Run(with, last.found, last.arg, TRUE) = Accepted(s)
    <3>1. "owner" \notin with /\ ("orders" \in with <=> "orders" \in plants)
          /\ ("sort" \in with <=> "sort" \in plants)
          /\ ("sequence" \in with <=> "sequence" \in plants)
      OBVIOUS
    <3> HIDE DEF book, with
    <3> QED BY <1>6, <2>6, <3>1
  <2> QED BY <1>9, <2>7 DEF Unacted, PlantOf
<1> QED BY <1>1, <1>7, <1>8, <1>9

LEMMA PinoUnacted ==
    ASSUME BenchInv, Acted, h = "matching-pino-buggy", NEW c \in StateChecks, c \in Range(SmokeOf(h)),
           Holds(c)
    PROVE  Unacted(c)
<1> DEFINE a == last.found
           ticks == a.ticks
           price == last.arg
           end == Len(ticks) + 1
           bound == LowerBound(ticks, price) + 1
<1>1. c = "tick_sort"
  <2>1. SmokeOf(h) = <<"signer_skip", "tick_sort">>
    BY DEF SmokeOf, Anchor4
  <2>2. c \notin {"signer_skip", "unchecked_math"}
    BY DEF StateChecks
  <2> QED BY <2>1, <2>2 DEF Range
<1>2. SUFFICES ASSUME "sort" \in plants PROVE Unacted(c)
  BY <1>1, AbsentUnacted DEF PlantOf
<1> DEFINE with == plants \ {"sort"}
           book == PlaceIn(ticks, price, User, end, 1)
           sorted == PlaceIn(ticks, price, User, bound, 1)
<1>3. Run(plants, a, price, TRUE) = Placed(a, a.sequence + 1, book)
  BY <1>2 DEF Run, Anchor4, PlaceOrderPinocchio
<1>4. Run(with, a, price, TRUE) = Placed(a, a.sequence + 1, sorted)
  BY DEF Run, Anchor4, PlaceOrderPinocchio
<1>5. ticks \in Seq(Ticks) /\ Len(ticks) <= NTicks /\ price \in Nat
  BY DEF Acted, Book, IsBook, Keeping
<1> HIDE DEF book
<1>6. book.ok /\ s = [sequence |-> a.sequence + 1, ticks |-> book.to]
  <2>1. Placed(a, a.sequence + 1, book) = Accepted(s)
    BY <1>3 DEF Acted
  <2> QED BY <2>1 DEF Placed, Accepted, Refused
<1>7. \A i \in 1..(Len(book.to) - 1) : book.to[i].price < book.to[i + 1].price
  <2>1. CheckTickSort
    BY <1>1 DEF Holds
  <2>2. s.ticks = book.to
    BY <1>6
  <2> QED BY <2>1, <2>2 DEF CheckTickSort
<1>8. sorted = book
  <2>1. book = PlaceIn(ticks, price, User, Len(ticks) + 1, 1)
    BY DEF book
  <2>2. PlaceIn(ticks, price, User, LowerBound(ticks, price) + 1, 1) = book
    <3> DEFINE owner == User
               opened == 1
    <3>1. owner \in {User, Zero} /\ opened \in Nat /\ book = PlaceIn(ticks, price, owner, Len(ticks) + 1, opened)
      BY <2>1
    <3> HIDE DEF owner, opened, ticks, price
    <3>2. PlaceIn(ticks, price, owner, LowerBound(ticks, price) + 1, opened) = book
      BY <1>5, <1>6, <1>7, <3>1, SortUnseen
    <3> QED BY <3>2 DEF owner, opened
  <2> QED BY <2>2
<1>9. Run(with, a, price, TRUE) = Accepted(s)
  BY <1>3, <1>4, <1>8 DEF Acted
<1> QED BY <1>1, <1>9 DEF Unacted, PlantOf

LEMMA PoolUnacted ==
    ASSUME BenchInv, Acted, h = "amm-buggy", NEW c \in StateChecks, c \in Range(SmokeOf(h)), Holds(c)
    PROVE  Unacted(c)
<1>1. c \in {"k_non_decreasing", "reserve_vault"}
  BY DEF SmokeOf, Range, Anchor4
<1>2. \A with : Run(with, last.found, last.arg, TRUE) = Swap(with, last.found, last.arg)
  BY DEF Run, Anchor4
<1>3. IsPool(last.found) /\ last.arg \in Amounts /\ fx.pre = AmmWatched(last.found) /\ fx.ok
      /\ last.found.reserveIn >= InitialReserveIn /\ last.found.reserveOut <= InitialReserveOut
  BY DEF Acted
<1>4. Swap(plants, last.found, last.arg) = Accepted(s)
  BY <1>2 DEF Acted
<1>5. CASE c = "k_non_decreasing"
  <2>1. SUFFICES ASSUME "out" \in plants PROVE Unacted(c)
    BY <1>5, AbsentUnacted DEF PlantOf
  <2>2. s.reserveIn * s.reserveOut >= last.found.reserveIn * last.found.reserveOut
    BY <1>3, <1>5 DEF Holds, CheckKNonDecreasing, AmmWatched
  <2>3. Swap(plants \ {"out"}, last.found, last.arg).to.vaultOut - s.vaultOut <= Dust
    BY <1>3, <1>4, <2>1, <2>2, PoolDust
  <2>4. Excess("out") <= Dust
    BY <1>2, <2>3 DEF Excess
  <2> QED BY <1>5, <2>4 DEF Unacted, PlantOf
<1>6. CASE c = "reserve_vault"
  <2>1. SUFFICES ASSUME "in" \in plants PROVE FALSE
    BY <1>6, AbsentUnacted DEF PlantOf
  <2>2. s.reserveIn - last.found.reserveIn = s.vaultIn - last.found.vaultIn
    BY <1>3, <1>6 DEF Holds, CheckReserveVaultConsistent, AmmWatched
  <2>3. s.reserveIn = last.found.reserveIn + last.arg + 1 /\ s.vaultIn = last.found.vaultIn + last.arg
    BY <1>4, <2>1 DEF Swap, Accepted, Refused
  <2>4. last.found.reserveIn \in Nat /\ last.found.vaultIn \in Nat /\ last.arg \in Nat
    BY <1>3, BenchAssumption DEF IsPool
  <2> QED BY <2>2, <2>3, <2>4
<1> QED BY <1>1, <1>5, <1>6

LEMMA PositionUnacted ==
    ASSUME BenchInv, Acted, h = "refresh-buggy", NEW c \in StateChecks, c \in Range(SmokeOf(h)), Holds(c)
    PROVE  Unacted(c)
<1>1. c \in {"reserve_slot", "health_positive"}
  BY DEF SmokeOf, Range, Anchor4
<1>2. \A with : Run(with, last.found, last.arg, TRUE) = Refresh(with, last.found, last.arg)
  BY DEF Run, Anchor4
<1>3. Refresh(plants, last.found, last.arg) = Accepted(s) /\ fx.slot = last.arg /\ fx.ok
  BY <1>2 DEF Acted
<1>4. s = [slotA |-> IF "slot" \in plants THEN last.found.slotA ELSE last.arg, slotB |-> last.arg,
           health |-> IF "health" \in plants THEN 0 ELSE Health]
  BY <1>3 DEF Refresh, Accepted
<1>5. CASE c = "reserve_slot"
  <2>1. s.slotA = last.arg
    BY <1>3, <1>5 DEF Holds, CheckReserveASlotTracks
  <2> DEFINE with == plants \ {"slot"}
  <2>2. "slot" \notin with /\ ("health" \in with <=> "health" \in plants)
    OBVIOUS
  <2> HIDE DEF with
  <2>3. Refresh(with, last.found, last.arg) =
           Accepted([slotA |-> last.arg, slotB |-> last.arg, health |-> IF "health" \in plants THEN 0 ELSE Health])
    BY <2>2 DEF Refresh
  <2>4. s = [slotA |-> last.arg, slotB |-> last.arg, health |-> IF "health" \in plants THEN 0 ELSE Health]
    BY <1>4, <2>1
  <2>5. Run(with, last.found, last.arg, TRUE) = Accepted(s)
    BY <1>2, <2>3, <2>4
  <2> QED BY <1>5, <2>5 DEF Unacted, PlantOf, with
<1>6. CASE c = "health_positive"
  <2>1. s.health > 0
    BY <1>3, <1>6 DEF Holds, CheckHealthPositive
  <2>2. "health" \notin plants
    BY <1>4, <2>1
  <2> QED BY <1>6, <2>2, AbsentUnacted DEF PlantOf
<1> QED BY <1>1, <1>5, <1>6

LEMMA VaultUnacted ==
    ASSUME BenchInv, Acted, h = "vault-buggy", NEW c \in StateChecks, c \in Range(SmokeOf(h)), Holds(c)
    PROVE  Unacted(c)
<1> DEFINE a == last.found
           amount == last.arg
           shares == IF a.totalShares = 0 THEN amount ELSE (amount * a.totalShares) \div a.totalAssets
           took == /\ amount > 0
                   /\ a.totalShares # 0 => a.totalAssets > 0 /\ shares > 0
                   /\ amount <= a.user
           left(with) == [totalAssets |-> a.totalAssets + amount + (IF "assets" \in with THEN 1 ELSE 0),
                          totalShares |-> a.totalShares + shares,
                          position |-> IF "shares" \in with THEN a.position ELSE a.position + shares,
                          user |-> a.user - amount, vault |-> a.vault + amount]
<1>1. c \in {"share_supply", "assets_vault"}
  BY DEF SmokeOf, Range, Anchor4
<1>2. \A with : Run(with, a, amount, TRUE) = Deposit(with, a, amount)
  BY DEF Run, Anchor4
<1>3. IsVault(a) /\ amount \in Nat /\ fx.pre = VaultWatched(a) /\ fx.ok
      /\ Deposit(plants, a, amount) = Accepted(s)
  BY <1>2 DEF Acted
<1>4. \A with : Deposit(with, a, amount) = IF took THEN Accepted(left(with)) ELSE Refused(a)
  BY DEF Deposit
<1>5. took /\ s = left(plants)
  <2>1. (IF took THEN Accepted(left(plants)) ELSE Refused(a)) = Accepted(s)
    BY <1>3, <1>4
  <2> DEFINE b == left(plants)
  <2>2. (IF took THEN Accepted(b) ELSE Refused(a)) = Accepted(s)
    BY <2>1
  <2> HIDE DEF took, b
  <2>3. took /\ s = b
    BY <2>2 DEF Accepted, Refused
  <2> QED BY <2>3 DEF b
<1>6. /\ a.totalAssets \in Nat /\ a.totalShares \in Nat /\ a.position \in Nat /\ a.vault \in Nat
  BY <1>3 DEF IsVault
<1>7. shares > 0
  BY <1>5
<1>8. CASE c = "share_supply"
  <2>1. SUFFICES ASSUME "shares" \in plants PROVE FALSE
    BY <1>8, AbsentUnacted DEF PlantOf
  <2>2. s.totalShares - a.totalShares = s.position - a.position
    BY <1>3, <1>8 DEF Holds, CheckShareSupplyConsistent, VaultWatched
  <2>3. s.totalShares = a.totalShares + shares /\ s.position = a.position
    BY <1>5, <2>1
  <2>4. shares \in Nat
    <3>1. CASE a.totalShares = 0
      BY <1>3, <3>1
    <3>2. CASE a.totalShares # 0
      <4> DEFINE x == amount * a.totalShares
                 y == a.totalAssets
      <4>1. x \in Nat /\ y \in Nat \ {0} /\ shares = x \div y
        BY <1>3, <1>5, <1>6, <3>2
      <4> HIDE DEF x, y, shares
      <4> QED BY <4>1, Quotient
    <3> QED BY <3>1, <3>2
  <2> HIDE DEF shares
  <2> QED BY <1>6, <1>7, <2>2, <2>3, <2>4
<1>9. CASE c = "assets_vault"
  <2>1. SUFFICES ASSUME "assets" \in plants PROVE FALSE
    BY <1>9, AbsentUnacted DEF PlantOf
  <2>2. s.totalAssets - a.totalAssets = s.vault - a.vault
    BY <1>3, <1>9 DEF Holds, CheckAssetsVaultConsistent, VaultWatched
  <2>3. s.totalAssets = a.totalAssets + amount + 1 /\ s.vault = a.vault + amount
    BY <1>5, <2>1
  <2> QED BY <1>3, <1>6, <2>2, <2>3
<1> QED BY <1>1, <1>8, <1>9

LEMMA FeedUnacted ==
    ASSUME BenchInv, Acted, h \in Feed, NEW c \in StateChecks, c \in Range(SmokeOf(h)), Holds(c)
    PROVE  Unacted(c)
<1> DEFINE a == last.found
           slot == last.arg
<1>1. c \in {"last_slot", "publish_count"} /\ (c = "publish_count" => h = "oracle-buggy")
  BY DEF SmokeOf, Range, Anchor4, Feed, StateChecks
<1>2. fx.ok /\ fx.slot = slot /\ Run(plants, a, slot, TRUE) = Accepted(s)
  BY DEF Acted
<1>3. \/ h = "oracle-buggy" /\ \A with : Run(with, a, slot, TRUE) = PublishAnchor(with, a, slot, TRUE)
      \/ h = "oracle-pino-buggy" /\ \A with : Run(with, a, slot, TRUE) = PublishPinocchio(with, a, slot, TRUE)
  BY DEF Run, Anchor4, Feed
<1>4. CASE c = "last_slot"
  <2>1. SUFFICES ASSUME "slot" \in plants PROVE Unacted(c)
    BY <1>4, AbsentUnacted DEF PlantOf
  <2>2. s.lastSlot = slot
    BY <1>2, <1>4 DEF Holds, CheckLastSlotTracks
  <2> DEFINE with == plants \ {"slot"}
  <2>3. "slot" \notin with /\ ("count" \in with <=> "count" \in plants)
    OBVIOUS
  <2> HIDE DEF with
  <2>4. CASE h = "oracle-buggy"
    <3> DEFINE n1 == IF "count" \in plants /\ a.count % 2 = 1 THEN 0 ELSE a.count + 1
    <3>1. slot > a.lastSlot /\ s = [lastSlot |-> a.lastSlot, count |-> n1]
      <4> DEFINE b == [lastSlot |-> a.lastSlot, count |-> n1]
      <4>1. Accepted(s) = IF slot > a.lastSlot THEN Accepted(b) ELSE Refused(a)
        <5>1. PublishAnchor(plants, a, slot, TRUE) = IF slot > a.lastSlot THEN Accepted(b) ELSE Refused(a)
          BY <2>1 DEF PublishAnchor
        <5>2. Run(plants, a, slot, TRUE) = PublishAnchor(plants, a, slot, TRUE)
          BY <1>3, <2>4
        <5> QED BY <1>2, <5>1, <5>2
      <4> HIDE DEF b
      <4>2. slot > a.lastSlot /\ s = b
        BY <4>1 DEF Accepted, Refused
      <4> QED BY <4>2 DEF b
    <3>2. PublishAnchor(with, a, slot, TRUE) = Accepted([lastSlot |-> slot, count |-> n1])
      BY <2>3, <3>1 DEF PublishAnchor
    <3>3. s = [lastSlot |-> slot, count |-> n1]
      BY <2>2, <3>1
    <3>4. Run(with, a, slot, TRUE) = Accepted(s)
      BY <1>3, <2>4, <3>2, <3>3
    <3> QED BY <1>4, <3>4 DEF Unacted, PlantOf, with
  <2>5. CASE h = "oracle-pino-buggy"
    <3>1. slot > a.lastSlot /\ s = [lastSlot |-> a.lastSlot, count |-> a.count + 1]
      <4> DEFINE b == [lastSlot |-> a.lastSlot, count |-> a.count + 1]
      <4>1. Accepted(s) = IF slot > a.lastSlot THEN Accepted(b) ELSE Refused(a)
        BY <1>2, <1>3, <2>1, <2>5 DEF PublishPinocchio
      <4> HIDE DEF b
      <4>2. slot > a.lastSlot /\ s = b
        BY <4>1 DEF Accepted, Refused
      <4> QED BY <4>2 DEF b
    <3>2. PublishPinocchio(with, a, slot, TRUE) = Accepted([lastSlot |-> slot, count |-> a.count + 1])
      BY <2>3, <3>1 DEF PublishPinocchio
    <3>3. s = [lastSlot |-> slot, count |-> a.count + 1]
      BY <2>2, <3>1
    <3>4. Run(with, a, slot, TRUE) = Accepted(s)
      BY <1>3, <2>5, <3>2, <3>3
    <3> QED BY <1>4, <3>4 DEF Unacted, PlantOf, with
  <2> QED BY <1>3, <2>4, <2>5
<1>5. CASE c = "publish_count"
  <2>1. SUFFICES ASSUME "count" \in plants PROVE Unacted(c)
    BY <1>5, AbsentUnacted DEF PlantOf
  <2>2. h = "oracle-buggy" /\ IsFeed(a) /\ s.count > a.count
    BY <1>1, <1>2, <1>5 DEF Holds, CheckPublishCountStrictlyIncreases, Acted
  <2> DEFINE slot1 == IF "slot" \in plants THEN a.lastSlot ELSE slot
  <2>3. slot > a.lastSlot
        /\ s = [lastSlot |-> slot1, count |-> IF a.count % 2 = 1 THEN 0 ELSE a.count + 1]
    <3> DEFINE b == [lastSlot |-> slot1, count |-> IF a.count % 2 = 1 THEN 0 ELSE a.count + 1]
    <3>1. Accepted(s) = IF slot > a.lastSlot THEN Accepted(b) ELSE Refused(a)
      <4>1. PublishAnchor(plants, a, slot, TRUE) = IF slot > a.lastSlot THEN Accepted(b) ELSE Refused(a)
        BY <2>1 DEF PublishAnchor
      <4>2. Run(plants, a, slot, TRUE) = PublishAnchor(plants, a, slot, TRUE)
        BY <1>3, <2>2
      <4> QED BY <1>2, <4>1, <4>2
    <3> HIDE DEF b, slot1
    <3>2. slot > a.lastSlot /\ s = b
      BY <3>1 DEF Accepted, Refused
    <3> QED BY <3>2 DEF b
  <2>4. s = [lastSlot |-> slot1, count |-> a.count + 1]
    BY <2>2, <2>3 DEF IsFeed
  <2> DEFINE with == plants \ {"count"}
  <2>5. "count" \notin with /\ ("slot" \in with <=> "slot" \in plants)
    OBVIOUS
  <2> HIDE DEF with
  <2>6. PublishAnchor(with, a, slot, TRUE) = Accepted([lastSlot |-> slot1, count |-> a.count + 1])
    BY <2>3, <2>5 DEF PublishAnchor
  <2>7. Run(with, a, slot, TRUE) = Accepted(s)
    BY <1>3, <2>2, <2>4, <2>6
  <2> QED BY <1>5, <2>7 DEF Unacted, PlantOf, with
<1> QED BY <1>1, <1>4, <1>5

\* A check that is satisfied had no plant to see in the action.
LEMMA SilenceMeans ==
    ASSUME BenchInv, Acted, NEW c \in StateChecks, c \in Range(SmokeOf(h)), Holds(c)
    PROVE  Unacted(c)
BY AnchorUnacted, PinoUnacted, PoolUnacted, PositionUnacted, VaultUnacted, FeedUnacted
   DEF BenchInv, Chosen, Harnesses, Book

\* The pool never gets shallower than it was set up: what comes in stays, and
\* nothing is paid into its other side.
ActedInv ==
    /\ last.ok => Acted
    /\ h = "amm-buggy" => s.reserveIn >= InitialReserveIn /\ s.reserveOut <= InitialReserveOut

LEMMA ActedInit == Init => ActedInv
<1> SUFFICES ASSUME Init PROVE ActedInv
  OBVIOUS
<1>1. ~last.ok
  BY DEF Init
<1>2. ASSUME h = "amm-buggy" PROVE s.reserveIn = InitialReserveIn /\ s.reserveOut = InitialReserveOut
  BY <1>2 DEF Init, SetupOf, AmmSetup, Anchor4
<1>3. InitialReserveIn \in Nat /\ InitialReserveOut \in Nat
  BY BenchAssumption
<1> QED BY <1>1, <1>2, <1>3 DEF ActedInv

\* Nothing about what was done last depends on anything that stays.
LEMMA ActedStays ==
    ASSUME ActedInv, h' = h, plants' = plants, s' = s, fx' = fx, last' = last
    PROVE  ActedInv'
BY DEF ActedInv, Acted, Run

\* A swap leaves at least as much on one side and no more on the other.
LEMMA SwapDeepens ==
    ASSUME NEW with, NEW a, IsPool(a), NEW amount \in Nat
    PROVE  LET b == Swap(with, a, amount).to
           IN  b.reserveIn >= a.reserveIn /\ b.reserveOut <= a.reserveOut
<1> DEFINE f == AfterFee(amount)
           times == IF "out" \in with THEN 2 ELSE 1
           paid == (a.reserveOut * f * times) \div (a.reserveIn + f)
           drift == IF "in" \in with THEN 1 ELSE 0
           b == [reserveIn |-> a.reserveIn + amount + drift, reserveOut |-> a.reserveOut - paid,
                 userSrc |-> a.userSrc - amount, userDst |-> a.userDst + paid,
                 vaultIn |-> a.vaultIn + amount, vaultOut |-> a.vaultOut - paid]
           out == Swap(with, a, amount)
<1>1. out = IF paid > 0 /\ amount <= a.userSrc /\ paid <= a.vaultOut THEN Accepted(b) ELSE Refused(a)
  BY DEF Swap
<1>2. a.reserveIn \in Nat /\ a.reserveOut \in Nat /\ a.vaultOut = a.reserveOut /\ drift \in Nat
  BY DEF IsPool
<1>3. IsPool(out.to)
  BY SwapKeeps
<1> HIDE DEF f, times, drift, out
<1>4. CASE paid > 0 /\ amount <= a.userSrc /\ paid <= a.vaultOut
  <2>1. out.to = b
    <3> HIDE DEF b, paid
    <3> QED BY <1>1, <1>4 DEF Accepted
  <2> HIDE DEF paid
  <2>2. b.reserveIn >= a.reserveIn
    BY <1>2
  <2>3. b.reserveOut = a.reserveOut - paid /\ b.reserveOut \in Nat
    BY <1>3, <2>1 DEF IsPool
  <2>4. ASSUME paid \notin Nat PROVE FALSE
    <3> DEFINE x == a.reserveOut * f * times
               y == a.reserveIn + f
    <3>1. f \in Nat
      <4> DEFINE rate == 10000 - FeeBps
                 z == amount * rate
      <4>1. rate \in Nat
        BY PlantedAssumption
      <4>2. f = z \div 10000
        BY DEF AfterFee, f
      <4> HIDE DEF rate
      <4>3. z \in Nat
        BY <4>1
      <4> HIDE DEF z
      <4> QED BY <4>2, <4>3
    <3>2. x \in Nat /\ y \in Nat \ {0} /\ paid = x \div y
      BY <3>1 DEF IsPool, times, paid
    <3> HIDE DEF x, y
    <3> QED BY <2>4, <3>2, Quotient
  <2>5. b.reserveOut <= a.reserveOut
    <3> HIDE DEF b
    <3> QED BY <1>2, <1>4, <2>3, <2>4
  <2> HIDE DEF b
  <2> QED BY <2>1, <2>2, <2>5 DEF out
<1>5. CASE ~(paid > 0 /\ amount <= a.userSrc /\ paid <= a.vaultOut)
  <2> HIDE DEF paid, b
  <2>1. out.to = a
    BY <1>1, <1>5 DEF Refused
  <2> QED BY <1>2, <2>1 DEF out
<1> QED BY <1>4, <1>5

\* A send that lands leaves what the program makes of the accounts.
LEMMA SendActs ==
    ASSUME h \in Harnesses, NEW arg, NEW notes, Sends(arg, notes)
    PROVE  /\ last'.found = s /\ last'.arg = arg
           /\ last'.ok => /\ Run(plants, s, arg, TRUE) = Accepted(s')
                          /\ fx' = [notes EXCEPT !.ok = TRUE]
           /\ h' = h /\ plants' = plants /\ pc' = "check"
           /\ s' = Run(plants, s, arg, TRUE).to \/ s' = s
<1>1. PICK out \in {Run(plants, s, arg, TRUE), Refused(s)} :
          /\ s' = out.to
          /\ fx' = [notes EXCEPT !.ok = out.ok]
          /\ last' = [found |-> s, arg |-> arg, ok |-> out.ok]
  BY DEF Sends
<1>2. h' = h /\ plants' = plants /\ pc' = "check"
  BY DEF Sends
<1>3. last'.found = s /\ last'.arg = arg /\ last'.ok = out.ok
  BY <1>1
<1>4. s' = Run(plants, s, arg, TRUE).to \/ s' = s
  <2>1. CASE out = Refused(s)
    <3>1. out.to = s
      BY <2>1 DEF Refused
    <3> QED BY <1>1, <3>1
  <2>2. CASE out = Run(plants, s, arg, TRUE)
    BY <1>1, <2>2
  <2> QED BY <1>1, <2>1, <2>2
<1>5. Run(plants, s, arg, TRUE).ok => Run(plants, s, arg, TRUE) = Accepted(Run(plants, s, arg, TRUE).to)
  <2> DEFINE run == Run(plants, s, arg, TRUE)
  <2>1. \E b : run = Accepted(b) \/ run = Refused(b)
    <3>1. CASE h \in Anchor4
      <4>1. run = PlaceOrderAnchor(plants, s, arg, User, TRUE)
        BY <3>1 DEF Run, Anchor4
      <4> HIDE DEF run
      <4> QED BY <4>1 DEF PlaceOrderAnchor, Placed
    <3>2. CASE h = "matching-pino-buggy"
      <4>1. run = PlaceOrderPinocchio(plants, s, arg, User, TRUE)
        BY <3>2 DEF Run, Anchor4
      <4> HIDE DEF run
      <4> QED BY <4>1 DEF PlaceOrderPinocchio, Placed
    <3>3. CASE h = "amm-buggy"
      <4>1. run = Swap(plants, s, arg)
        BY <3>3 DEF Run, Anchor4
      <4> HIDE DEF run
      <4> QED BY <4>1 DEF Swap
    <3>4. CASE h = "refresh-buggy"
      <4>1. run = Refresh(plants, s, arg)
        BY <3>4 DEF Run, Anchor4
      <4> HIDE DEF run
      <4> QED BY <4>1 DEF Refresh
    <3>5. CASE h = "vault-buggy"
      <4>1. run = Deposit(plants, s, arg)
        BY <3>5 DEF Run, Anchor4
      <4> HIDE DEF run
      <4> QED BY <4>1 DEF Deposit
    <3>6. CASE h = "oracle-buggy"
      <4>1. run = PublishAnchor(plants, s, arg, TRUE)
        BY <3>6 DEF Run, Anchor4
      <4> HIDE DEF run
      <4> QED BY <4>1 DEF PublishAnchor
    <3>7. CASE h = "oracle-pino-buggy"
      <4>1. run = PublishPinocchio(plants, s, arg, TRUE)
        BY <3>7 DEF Run, Anchor4
      <4> HIDE DEF run
      <4> QED BY <4>1 DEF PublishPinocchio
    <3> QED BY <3>1, <3>2, <3>3, <3>4, <3>5, <3>6, <3>7 DEF Harnesses, Book, Feed
  <2> HIDE DEF run
  <2>2. run.ok => run = Accepted(run.to)
    BY <2>1 DEF Accepted, Refused
  <2> QED BY <2>2 DEF run
<1>6. ASSUME last'.ok PROVE /\ Run(plants, s, arg, TRUE) = Accepted(s')
                            /\ fx' = [notes EXCEPT !.ok = TRUE]
  <2> DEFINE run == Run(plants, s, arg, TRUE)
  <2>1. out.ok
    BY <1>3, <1>6
  <2>2. out = run
    <3>1. out # Refused(s)
      BY <2>1 DEF Refused
    <3> HIDE DEF run
    <3>2. out \in {run, Refused(s)}
      BY <1>1 DEF run
    <3> QED BY <3>1, <3>2
  <2>3. run = Accepted(run.to) /\ run.ok
    BY <1>5, <2>1, <2>2
  <2> HIDE DEF run
  <2>4. run.ok = TRUE
    BY <2>3 DEF Accepted
  <2>5. run = Accepted(s') /\ fx' = [notes EXCEPT !.ok = TRUE]
    BY <1>1, <2>2, <2>3, <2>4
  <2> QED BY <2>5 DEF run
<1> QED BY <1>2, <1>3, <1>4, <1>6

LEMMA ActedNext == BenchInv /\ ActedInv /\ [Next]_vars => ActedInv'
<1> SUFFICES ASSUME BenchInv, ActedInv, [Next]_vars PROVE ActedInv'
  OBVIOUS
<1>h. h \in Harnesses
  BY DEF BenchInv, Chosen
<1>1. CASE ActionPlaceOrder
  <2>1. PICK price \in Prices : Sends(price, fx)
    BY <1>1 DEF ActionPlaceOrder
  <2>2. h \in Book /\ price \in Nat /\ IsBook(plants, s) /\ fx = [ok |-> fx.ok]
    BY <1>1, BenchAssumption DEF ActionPlaceOrder, BenchInv, HarnessInv, BookInv
  <2>3. /\ last'.found = s /\ last'.arg = price /\ h' = h /\ plants' = plants
        /\ last'.ok => Run(plants, s, price, TRUE) = Accepted(s') /\ fx' = [fx EXCEPT !.ok = TRUE]
    BY <1>h, <2>1, SendActs
  <2>4. h' \in Book /\ h' \notin Feed /\ h' \notin {"amm-buggy", "refresh-buggy", "vault-buggy", "oracle-buggy"}
    BY <2>2, <2>3 DEF Book, Anchor4, Feed
  <2>5. ASSUME last'.ok PROVE Acted'
    <3>1. fx'.ok
      BY <2>2, <2>3, <2>5
    <3>2. Run(plants, last.found, last.arg, TRUE)' = Accepted(s')
      BY <2>3, <2>5 DEF Run
    <3>3. IsBook(plants', last'.found) /\ last'.arg \in Nat
      BY <2>2, <2>3
    <3> QED BY <2>4, <3>1, <3>2, <3>3 DEF Acted
  <2> QED BY <2>4, <2>5 DEF ActedInv
<1>2. CASE ActionSwap
  <2> DEFINE notes == [fx EXCEPT !.pre = AmmWatched(s)]
  <2>1. PICK a \in Amounts : Sends(a, notes)
    BY <1>2 DEF ActionSwap
  <2>2. h = "amm-buggy" /\ a \in Nat /\ IsPool(s) /\ fx = [pre |-> fx.pre, ok |-> fx.ok]
    BY <1>2, BenchAssumption DEF ActionSwap, BenchInv, HarnessInv, PoolInv
  <2>3. /\ last'.found = s /\ last'.arg = a /\ h' = h /\ plants' = plants
        /\ last'.ok => Run(plants, s, a, TRUE) = Accepted(s') /\ fx' = [notes EXCEPT !.ok = TRUE]
        /\ s' = Run(plants, s, a, TRUE).to \/ s' = s
    <3> HIDE DEF notes
    <3> QED BY <1>h, <2>1, SendActs
  <2>4. h' = "amm-buggy" /\ h' \notin Book /\ h' \notin Feed
    BY <2>2, <2>3 DEF Book, Anchor4, Feed
  <2>5. s.reserveIn >= InitialReserveIn /\ s.reserveOut <= InitialReserveOut
    BY <2>2 DEF ActedInv
  <2>6. ASSUME last'.ok PROVE Acted'
    <3>1. fx' = [pre |-> AmmWatched(s), ok |-> TRUE]
      BY <2>2, <2>3, <2>6, Noted
    <3>2. Run(plants, last.found, last.arg, TRUE)' = Accepted(s')
      BY <2>3, <2>6 DEF Run
    <3>3. AmmWatched(last.found)' = AmmWatched(s)
      BY <2>3 DEF AmmWatched
    <3> QED BY <2>2, <2>3, <2>4, <2>5, <3>1, <3>2, <3>3 DEF Acted
  <2>7. s'.reserveIn >= InitialReserveIn /\ s'.reserveOut <= InitialReserveOut
    <3> DEFINE b == Swap(plants, s, a).to
    <3>1. Run(plants, s, a, TRUE) = Swap(plants, s, a)
      BY <2>2 DEF Run, Anchor4
    <3>2. b.reserveIn >= s.reserveIn /\ b.reserveOut <= s.reserveOut
      BY <2>2, SwapDeepens
    <3>3. IsPool(b)
      BY <2>2, SwapKeeps
    <3> HIDE DEF b
    <3>4. /\ b.reserveIn \in Nat /\ b.reserveOut \in Nat /\ s.reserveIn \in Nat /\ s.reserveOut \in Nat
          /\ InitialReserveIn \in Nat /\ InitialReserveOut \in Nat
      BY <2>2, <3>3, BenchAssumption DEF IsPool
    <3>5. b.reserveIn >= InitialReserveIn /\ b.reserveOut <= InitialReserveOut
      BY <2>5, <3>2, <3>4
    <3>6. s' = b \/ s' = s
      BY <2>3, <3>1 DEF b
    <3> QED BY <2>5, <3>5, <3>6
  <2> QED BY <2>6, <2>7 DEF ActedInv
<1>3. CASE ActionRefresh
  <2>1. PICK t \in Slots : Sends(t, [fx EXCEPT !.slot = t])
    BY <1>3 DEF ActionRefresh
  <2> DEFINE notes == [fx EXCEPT !.slot = t]
  <2>2. h = "refresh-buggy" /\ fx = [slot |-> fx.slot, ok |-> fx.ok]
    BY <1>3 DEF ActionRefresh, BenchInv, HarnessInv, PositionInv
  <2>3. /\ last'.found = s /\ last'.arg = t /\ h' = h /\ plants' = plants
        /\ last'.ok => Run(plants, s, t, TRUE) = Accepted(s') /\ fx' = [notes EXCEPT !.ok = TRUE]
    <3>1. Sends(t, notes)
      BY <2>1
    <3> HIDE DEF notes
    <3> QED BY <1>h, <3>1, SendActs
  <2>4. h' = "refresh-buggy" /\ h' \notin Book /\ h' \notin Feed
    BY <2>2, <2>3 DEF Book, Anchor4, Feed
  <2>5. ASSUME last'.ok PROVE Acted'
    <3>1. fx' = [slot |-> t, ok |-> TRUE]
      BY <2>2, <2>3, <2>5
    <3>2. Run(plants, last.found, last.arg, TRUE)' = Accepted(s')
      BY <2>3, <2>5 DEF Run
    <3> QED BY <2>3, <2>4, <3>1, <3>2 DEF Acted
  <2> QED BY <2>4, <2>5 DEF ActedInv
<1>4. CASE ActionDeposit
  <2> DEFINE notes == [fx EXCEPT !.pre = VaultWatched(s)]
  <2>1. PICK a \in Deposits : Sends(a, notes)
    BY <1>4 DEF ActionDeposit
  <2>2. h = "vault-buggy" /\ a \in Nat /\ IsVault(s) /\ fx = [pre |-> fx.pre, ok |-> fx.ok]
    BY <1>4, BenchAssumption DEF ActionDeposit, BenchInv, HarnessInv, VaultInv
  <2>3. /\ last'.found = s /\ last'.arg = a /\ h' = h /\ plants' = plants
        /\ last'.ok => Run(plants, s, a, TRUE) = Accepted(s') /\ fx' = [notes EXCEPT !.ok = TRUE]
    <3> HIDE DEF notes
    <3> QED BY <1>h, <2>1, SendActs
  <2>4. h' = "vault-buggy" /\ h' \notin Book /\ h' \notin Feed
    BY <2>2, <2>3 DEF Book, Anchor4, Feed
  <2>5. ASSUME last'.ok PROVE Acted'
    <3>1. fx' = [pre |-> VaultWatched(s), ok |-> TRUE]
      BY <2>2, <2>3, <2>5, Noted
    <3>2. Run(plants, last.found, last.arg, TRUE)' = Accepted(s')
      BY <2>3, <2>5 DEF Run
    <3>3. VaultWatched(last.found)' = VaultWatched(s)
      BY <2>3 DEF VaultWatched
    <3> QED BY <2>2, <2>3, <2>4, <3>1, <3>2, <3>3 DEF Acted
  <2> QED BY <2>4, <2>5 DEF ActedInv
<1>5. CASE ActionPublish
  <2> DEFINE notes == [pre |-> s.count, next |-> fx.next + 1, slot |-> fx.next, ok |-> fx.ok]
             slot == fx.next
  <2>1. h = "oracle-buggy" /\ Sends(slot, notes) /\ IsFeed(s)
    BY <1>5 DEF ActionPublish, BenchInv, HarnessInv, FeedInv
  <2> HIDE DEF slot
  <2>2. /\ last'.found = s /\ last'.arg = slot /\ h' = h /\ plants' = plants
        /\ last'.ok => Run(plants, s, slot, TRUE) = Accepted(s') /\ fx' = [notes EXCEPT !.ok = TRUE]
    <3> HIDE DEF notes
    <3> QED BY <1>h, <2>1, SendActs
  <2>3. h' = "oracle-buggy" /\ h' \notin Book
    BY <2>1, <2>2 DEF Book, Anchor4
  <2>4. ASSUME last'.ok PROVE Acted'
    <3>1. fx'.pre = s.count /\ fx'.slot = slot /\ fx'.ok
      BY <2>2, <2>4 DEF slot
    <3>2. Run(plants, last.found, last.arg, TRUE)' = Accepted(s')
      BY <2>2, <2>4 DEF Run
    <3> QED BY <2>1, <2>2, <2>3, <3>1, <3>2 DEF Acted
  <2> QED BY <2>3, <2>4 DEF ActedInv
<1>6. CASE ActionPublishPino
  <2> DEFINE notes == [next |-> fx.next + 1, slot |-> fx.next, ok |-> fx.ok]
             slot == fx.next
  <2>1. h = "oracle-pino-buggy" /\ Sends(slot, notes)
    BY <1>6 DEF ActionPublishPino
  <2> HIDE DEF slot
  <2>2. /\ last'.found = s /\ last'.arg = slot /\ h' = h /\ plants' = plants
        /\ last'.ok => Run(plants, s, slot, TRUE) = Accepted(s') /\ fx' = [notes EXCEPT !.ok = TRUE]
    <3> HIDE DEF notes
    <3> QED BY <1>h, <2>1, SendActs
  <2>3. h' = "oracle-pino-buggy" /\ h' \notin Book
    BY <2>1, <2>2 DEF Book, Anchor4
  <2>4. ASSUME last'.ok PROVE Acted'
    <3>1. fx'.slot = slot /\ fx'.ok
      BY <2>2, <2>4 DEF slot
    <3>2. Run(plants, last.found, last.arg, TRUE)' = Accepted(s')
      BY <2>2, <2>4 DEF Run
    <3> QED BY <2>2, <2>3, <3>1, <3>2 DEF Acted
  <2> QED BY <2>3, <2>4 DEF ActedInv
<1>7. CASE Body
  BY <1>7, ActedStays DEF Body
<1>8. CASE NextIteration
  <2>1. h' = h /\ ~last'.ok /\ s' = SetupOf(h).accounts
    <3>1. h' = h
      BY <1>8 DEF NextIteration
    <3>2. last' = [found |-> s', arg |-> 0, ok |-> FALSE]
      BY <1>8 DEF NextIteration, Begun
    <3>3. s' = SetupOf(h).accounts
      BY <1>8 DEF NextIteration, Begun
    <3> QED BY <3>1, <3>2, <3>3
  <2>2. ASSUME h = "amm-buggy" PROVE s'.reserveIn = InitialReserveIn /\ s'.reserveOut = InitialReserveOut
    BY <2>1, <2>2 DEF SetupOf, AmmSetup, Anchor4
  <2>3. InitialReserveIn \in Nat /\ InitialReserveOut \in Nat
    BY BenchAssumption
  <2> QED BY <2>1, <2>2, <2>3 DEF ActedInv
<1>9. CASE UNCHANGED vars
  BY <1>9, ActedStays DEF vars
<1> QED BY <1>1, <1>2, <1>3, <1>4, <1>5, <1>6, <1>7, <1>8, <1>9 DEF Next

\* A single check is of its harness, and of a plant.
LEMMA SingleCheck ==
    ASSUME BenchInv, NEW c, test = <<c>>
    PROVE  c \in Range(test) /\ c \in Range(SmokeOf(h))
<1>1. c \in Range(test)
  BY DEF Range
<1>2. test \in {SmokeOf(h)} \cup {<<b>> : b \in Range(SmokeOf(h))}
  BY DEF BenchInv, Chosen, TestsOf
<1>3. CASE test \in {<<b>> : b \in Range(SmokeOf(h))}
  <2>1. PICK b \in Range(SmokeOf(h)) : test = <<b>>
    BY <1>3
  <2>2. b = c
    BY <2>1
  <2> QED BY <1>1, <2>1, <2>2
<1>4. CASE test = SmokeOf(h)
  BY <1>1, <1>4
<1> QED BY <1>1, <1>2, <1>3, <1>4

\* NoPlantActsUnseen: a test that stays silent saw an action that left what
\* the program without its plant would have, but for dust.
THEOREM NoPlantActsUnseenAlways == Spec => []NoPlantActsUnseen
<1>1. Init => NoPlantActsUnseen
  BY DEF Init, NoPlantActsUnseen, Silent
<1>2. ASSUME BenchInv, ActedInv, NoPlantActsUnseen, [Next]_vars PROVE NoPlantActsUnseen'
  <2>1. ASSUME pc' = "check" PROVE NoPlantActsUnseen'
    BY <2>1 DEF NoPlantActsUnseen, Silent
  <2>2. CASE ActionPlaceOrder \/ ActionSwap \/ ActionRefresh \/ ActionDeposit \/ ActionPublish
             \/ ActionPublishPino
    BY <2>1, <2>2 DEF ActionPlaceOrder, ActionSwap, ActionRefresh, ActionDeposit, ActionPublish,
       ActionPublishPino, Sends
  <2>3. CASE Body
    <3>1. h' = h /\ test' = test /\ plants' = plants /\ s' = s /\ fx' = fx /\ last' = last /\ n' = n
      BY <2>3 DEF Body
    <3>2. ASSUME NEW c \in StateChecks, violation' = NoViolation, test = <<c>>, last.ok
          PROVE  Unacted(c)
      <4>1. c \in Range(test) /\ c \in Range(SmokeOf(h))
        BY <1>2, <3>2, SingleCheck
      <4>3. violation' \notin Range(SmokeOf(h))
        <5>1. \A b \in Range(SmokeOf(h)) : b \in DOMAIN PlantOf
          BY <1>2 DEF BenchInv, Chosen, Harnesses, Book, Feed, Anchor4, SmokeOf, MatchingSmoke, Range, PlantOf
        <5> QED BY <3>2, <5>1, NoViolationAssumption
      <4>4. Holds(c)
        BY <1>2, <2>3, <4>1, <4>3, BodyMakes
      <4>5. Acted
        BY <1>2, <3>2 DEF ActedInv
      <4> QED BY <1>2, <4>1, <4>4, <4>5, SilenceMeans
    <3>3. ASSUME NEW c \in StateChecks, Unacted(c) PROVE Unacted(c)'
      BY <3>1, <3>3 DEF Unacted, Excess, Run
    <3>4. ASSUME NEW c \in StateChecks, Silent', test' = <<c>>, last'.ok PROVE Unacted(c)'
      BY <3>1, <3>2, <3>3, <3>4 DEF Silent
    <3> QED BY <3>4 DEF NoPlantActsUnseen, Unacted, StateChecks
  <2>4. CASE NextIteration
    BY <2>4 DEF NextIteration, Begun, NoPlantActsUnseen, Silent
  <2>5. CASE UNCHANGED vars
    BY <1>2, <2>5 DEF vars, NoPlantActsUnseen, Silent, Excess, Run
  <2> QED BY <1>2, <2>2, <2>3, <2>4, <2>5 DEF Next
<1>3. ActedInv /\ BenchInv /\ UNCHANGED vars => ActedInv'
  BY ActedNext
<1> QED BY <1>1, <1>2, <1>3, ActedInit, ActedNext, BenchInvAlways, PTL DEF Spec
=============================================================================
