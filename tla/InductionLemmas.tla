--------------------------- MODULE InductionLemmas ---------------------------
(***************************************************************************)
(* Induction over numbers, stated about sets so that a proof can cite it   *)
(* with the set it has in mind, and what it shows of FlattenSeq, which is  *)
(* computed with a recursive function.                                     *)
(***************************************************************************)
EXTENDS SequencesExt, SequenceTheorems, WellFoundedInduction, TLAPS

\* A non-empty set of natural numbers has a least one.
LEMMA LeastNumber ==
    ASSUME NEW T, T \subseteq Nat, T # {}
    PROVE  \E x \in T : \A y \in T : x <= y
<1> DEFINE R == OpToRel(<, Nat)
<1>1. IsWellFoundedOn(R, Nat)
  BY NatLessThanWellFounded
<1>2. ASSUME NEW x \in Nat, NEW y \in Nat, x < y PROVE <<x, y>> \in R
  BY <1>2 DEF OpToRel
<1> HIDE DEF R
<1>3. PICK x \in T : \A y \in T : ~(<<y, x>> \in R)
  BY <1>1, WFMin
<1>4. ASSUME NEW y \in T PROVE x <= y
  <2>1. x \in Nat /\ y \in Nat /\ ~(y < x)
    BY <1>2, <1>3
  <2> QED
    BY <2>1
<1> QED
  BY <1>4

\* A set that has 0 and with each number the next one has them all.
LEMMA SetInduction ==
    ASSUME NEW S, 0 \in S, \A n \in Nat : n \in S => n + 1 \in S
    PROVE  Nat \subseteq S
<1> SUFFICES ASSUME Nat \ S # {} PROVE FALSE
  OBVIOUS
<1>1. PICK x \in Nat \ S : \A y \in Nat \ S : x <= y
  BY LeastNumber
<1>2. x # 0 /\ x - 1 \in Nat /\ x = (x - 1) + 1
  BY <1>1
<1>3. x - 1 \in S
  BY <1>1, <1>2
<1> QED
  BY <1>1, <1>2, <1>3

-----------------------------------------------------------------------------
(* FlattenSeq. *)

\* The function that FlattenSeq is computed with, for the first n sequences.
IsFlatten(f, ss, n) ==
    f = [k \in 1..n |-> IF k = 1 THEN ss[k] ELSE f[k - 1] \o ss[k]]

\* There is such a function.
LEMMA FlattenExists ==
    ASSUME NEW Y, \A a, b \in Y : a \o b \in Y,
           NEW n \in Nat \ {0}, NEW ss, \A k \in 1..n : ss[k] \in Y
    PROVE  \E f \in [1..n -> Y] : IsFlatten(f, ss, n)
<1> DEFINE Begins(f, m) ==
             /\ f \in [1..m -> Y]
             /\ \A k \in 1..m : f[k] = IF k = 1 THEN ss[k] ELSE f[k - 1] \o ss[k]
           S == {m \in Nat : m + 1 <= n => \E f : Begins(f, m + 1)}
<1>1. 0 \in S
  <2>1. Begins([k \in 1..1 |-> ss[1]], 1)
    OBVIOUS
  <2> HIDE DEF Begins
  <2> QED
    BY <2>1
<1>2. ASSUME NEW m \in Nat, m \in S PROVE m + 1 \in S
  <2>1. SUFFICES ASSUME m + 1 + 1 <= n PROVE \E f : Begins(f, m + 1 + 1)
    OBVIOUS
  <2>2. m + 1 <= n /\ m + 1 + 1 = m + 2 /\ m + 1 \in 1..n /\ m + 2 \in 1..n
    BY <2>1
  <2>3. PICK f : Begins(f, m + 1)
    BY <1>2, <2>2
  <2> DEFINE g == [k \in 1..(m + 2) |-> IF k = m + 2 THEN f[m + 1] \o ss[m + 2] ELSE f[k]]
  <2>4. f[m + 1] \o ss[m + 2] \in Y
    BY <2>2, <2>3
  <2>5. g \in [1..(m + 2) -> Y]
    <3>1. ASSUME NEW k \in 1..(m + 2), k # m + 2 PROVE f[k] \in Y
      <4>1. k \in 1..(m + 1)
        BY <3>1
      <4> QED
        BY <2>3, <4>1
    <3> QED
      BY <2>4, <3>1
  <2>6. ASSUME NEW k \in 1..(m + 2)
        PROVE  g[k] = IF k = 1 THEN ss[k] ELSE g[k - 1] \o ss[k]
    <3>1. CASE k = m + 2
      <4>1. k - 1 = m + 1 /\ k - 1 \in 1..(m + 2) /\ k - 1 # m + 2 /\ k # 1
        BY <3>1
      <4>2. g[k - 1] = f[m + 1]
        BY <4>1
      <4> QED
        BY <3>1, <4>1, <4>2
    <3>2. CASE k # m + 2
      <4>1. k \in 1..(m + 1)
        BY <3>2
      <4>2. g[k] = f[k]
        BY <3>2
      <4>3. k # 1 => g[k - 1] = f[k - 1]
        BY <4>1
      <4> QED
        BY <2>3, <4>1, <4>2, <4>3
    <3> QED
      BY <3>1, <3>2
  <2>7. Begins(g, m + 2)
    BY <2>5, <2>6
  <2> HIDE DEF g, Begins
  <2> QED
    BY <2>2, <2>7
<1>3. PICK f : Begins(f, n)
  <2> HIDE DEF Begins
  <2>1. PICK m \in Nat : m + 1 = n
    <3>1. n - 1 \in Nat /\ n - 1 + 1 = n
      OBVIOUS
    <3> QED
      BY <3>1
  <2>2. m \in S
    <3> HIDE DEF S
    <3> QED
      BY <1>1, <1>2, SetInduction
  <2> QED
    BY <2>1, <2>2
<1>4. IsFlatten(f, ss, n)
  BY <1>3 DEF IsFlatten
<1> QED
  BY <1>3, <1>4

\* Two of them agree as far as their sequences do.
LEMMA FlattenAgrees ==
    ASSUME NEW n \in Nat \ {0}, NEW p \in Nat, NEW q \in Nat, n <= p, n <= q,
           NEW ss, NEW tt, \A k \in 1..n : ss[k] = tt[k],
           NEW f, NEW g, IsFlatten(f, ss, p), IsFlatten(g, tt, q)
    PROVE  f[n] = g[n]
<1> DEFINE S == {m \in Nat : m + 1 <= n => f[m + 1] = g[m + 1]}
<1>1. \A k \in 1..n : /\ f[k] = IF k = 1 THEN ss[k] ELSE f[k - 1] \o ss[k]
                      /\ g[k] = IF k = 1 THEN tt[k] ELSE g[k - 1] \o tt[k]
  <2> TAKE k \in 1..n
  <2>1. k \in 1..p /\ k \in 1..q
    OBVIOUS
  <2>2. f[k] = IF k = 1 THEN ss[k] ELSE f[k - 1] \o ss[k]
    <3>1. f = [l \in 1..p |-> IF l = 1 THEN ss[l] ELSE f[l - 1] \o ss[l]]
      BY DEF IsFlatten
    <3> QED
      BY <2>1, <3>1, Zenon
  <2>3. g[k] = IF k = 1 THEN tt[k] ELSE g[k - 1] \o tt[k]
    <3>1. g = [l \in 1..q |-> IF l = 1 THEN tt[l] ELSE g[l - 1] \o tt[l]]
      BY DEF IsFlatten
    <3> QED
      BY <2>1, <3>1, Zenon
  <2> QED
    BY <2>2, <2>3
<1>2. 0 \in S
  BY <1>1
<1>3. ASSUME NEW m \in Nat, m \in S PROVE m + 1 \in S
  <2>1. SUFFICES ASSUME m + 1 + 1 <= n PROVE f[m + 1 + 1] = g[m + 1 + 1]
    OBVIOUS
  <2>2. /\ m + 1 + 1 = m + 2 /\ m + 2 \in 1..n /\ m + 2 # 1 /\ m + 2 - 1 = m + 1
        /\ m + 1 <= n
    BY <2>1
  <2>3. f[m + 1] = g[m + 1]
    BY <1>3, <2>2
  <2> QED
    BY <1>1, <2>2, <2>3
<1>4. n - 1 \in S
  <2> HIDE DEF S
  <2>1. n - 1 \in Nat
    OBVIOUS
  <2> QED
    BY <1>2, <1>3, <2>1, SetInduction
<1>5. n - 1 + 1 = n
  OBVIOUS
<1> QED
  BY <1>4, <1>5

\* FlattenSeq is the last value of the function.
LEMMA FlattenIs ==
    ASSUME NEW X, NEW n \in Nat \ {0}, NEW ss, Len(ss) = n, \A k \in 1..n : ss[k] \in Seq(X)
    PROVE  \E f : IsFlatten(f, ss, n) /\ FlattenSeq(ss) = f[n] /\ f[n] \in Seq(X)
<1> DEFINE F == CHOOSE f : IsFlatten(f, ss, n)
<1>1. FlattenSeq(ss) = F[n]
  BY DEF FlattenSeq, IsFlatten
<1>2. \A a, b \in Seq(X) : a \o b \in Seq(X)
  OBVIOUS
<1>3. PICK f \in [1..n -> Seq(X)] : IsFlatten(f, ss, n)
  BY <1>2, FlattenExists
<1>4. IsFlatten(F, ss, n)
  BY <1>3
<1> HIDE DEF F
<1>5. F[n] = f[n]
  <2>1. n \in Nat /\ n <= n /\ \A k \in 1..n : ss[k] = ss[k]
    OBVIOUS
  <2> QED
    BY <1>3, <1>4, <2>1, FlattenAgrees
<1>6. f[n] \in Seq(X)
  BY <1>3
<1> QED
  BY <1>1, <1>3, <1>5, <1>6

\* Of no sequences it is empty.
LEMMA FlattenEmpty == FlattenSeq(<<>>) = <<>>
BY DEF FlattenSeq

\* An equation with \o is kept folded where a lemma states it: the provers do not
\* recognise the unfolded one.
IsConcat(x, a, b) == x = a \o b

\* One sequence more makes the function one step longer.
LEMMA FlattenGrows ==
    ASSUME NEW n \in Nat \ {0}, NEW m \in Nat \ {0}, m = n + 1, NEW ss, NEW tt,
           \A k \in 1..n : ss[k] = tt[k],
           NEW f, NEW g, IsFlatten(f, tt, m), IsFlatten(g, ss, n)
    PROVE  IsConcat(f[m], g[n], tt[m])
<1>1. f[m] = f[m - 1] \o tt[m]
  <2>1. m \in Nat /\ m \in 1..m /\ m # 1
    OBVIOUS
  <2>2. f = [l \in 1..m |-> IF l = 1 THEN tt[l] ELSE f[l - 1] \o tt[l]]
    BY DEF IsFlatten
  <2> QED
    BY <2>1, <2>2, Zenon
<1>2. g[n] = f[n]
  <2>1. n <= m /\ n <= n /\ m \in Nat /\ n \in Nat
    OBVIOUS
  <2> QED
    BY <2>1, FlattenAgrees
<1>3. m - 1 = n
  OBVIOUS
<1> QED
  BY <1>1, <1>2, <1>3 DEF IsConcat

\* The first function is the one sequence.
LEMMA FlattenFirst ==
    ASSUME NEW ss, NEW f, IsFlatten(f, ss, 1)
    PROVE  f[1] = ss[1]
<1>1. f = [l \in 1..1 |-> IF l = 1 THEN ss[l] ELSE f[l - 1] \o ss[l]]
  BY DEF IsFlatten
<1>2. 1 \in 1..1
  OBVIOUS
<1> QED
  BY <1>1, <1>2, Zenon

\* One sequence more at the end.
LEMMA FlattenNext ==
    ASSUME NEW X, NEW n \in Nat, NEW m \in Nat, m = n + 1,
           NEW ss, NEW tt, Len(ss) = n, Len(tt) = m, n = 0 => ss = <<>>,
           \A k \in 1..n : ss[k] \in Seq(X), \A k \in 1..m : tt[k] \in Seq(X),
           \A k \in 1..n : ss[k] = tt[k]
    PROVE  IsConcat(FlattenSeq(tt), FlattenSeq(ss), tt[m])
<1>1. PICK f : IsFlatten(f, tt, m) /\ FlattenSeq(tt) = f[m]
  <2>1. m \in Nat \ {0}
    OBVIOUS
  <2> QED
    BY <2>1, FlattenIs
<1>2. CASE n = 0
  <2>1. tt[m] \in Seq(X) /\ m = 1
    BY <1>2
  <2>2. <<>> \o tt[m] = tt[m]
    BY <2>1
  <2>3. FlattenSeq(ss) = <<>>
    BY <1>2, FlattenEmpty
  <2>4. f[m] = tt[m]
    BY <1>1, <2>1, FlattenFirst
  <2> QED
    BY <1>1, <2>2, <2>3, <2>4 DEF IsConcat
<1>3. CASE n # 0
  <2>1. n \in Nat \ {0} /\ m \in Nat \ {0}
    BY <1>3
  <2>2. PICK g : IsFlatten(g, ss, n) /\ FlattenSeq(ss) = g[n]
    BY <2>1, FlattenIs
  <2>3. IsConcat(f[m], g[n], tt[m])
    BY <1>1, <2>1, <2>2, FlattenGrows
  <2> QED
    BY <1>1, <2>2, <2>3
<1> QED
  BY <1>2, <1>3

-----------------------------------------------------------------------------
(* A sequence in parts. *)

\* What a part of a sequence is.
LEMMA Part ==
    ASSUME NEW X, NEW r \in Seq(X), NEW a \in Nat, NEW b \in Nat, a <= b, b <= Len(r)
    PROVE  /\ SubSeq(r, a + 1, b) \in Seq(X)
           /\ Len(SubSeq(r, a + 1, b)) = b - a
           /\ \A k \in 1..(b - a) : SubSeq(r, a + 1, b)[k] = r[a + k]
<1>1. Len(r) \in Nat
  OBVIOUS
<1>2. \A k \in (a + 1)..b : r[k] \in X
  BY <1>1
<1> QED
  BY <1>1, <1>2

\* When a sequence is two others after each other.
LEMMA Concat ==
    ASSUME NEW X, NEW m \in Nat, NEW n \in Nat,
           NEW u \in Seq(X), NEW v \in Seq(X), NEW w \in Seq(X),
           Len(u) = m + n, Len(v) = m, Len(w) = n,
           \A k \in 1..m : u[k] = v[k], \A k \in 1..n : u[m + k] = w[k]
    PROVE  IsConcat(u, v, w)
<1>1. /\ v \o w \in Seq(X) /\ Len(v \o w) = m + n
      /\ \A k \in 1..n : (v \o w)[m + k] = w[k]
  <2>1. v \o w \in Seq(X) /\ Len(v \o w) = m + n
    OBVIOUS
  <2>2. ASSUME NEW k \in 1..n PROVE (v \o w)[m + k] = w[k]
    <3>1. m + k \in 1..(Len(v) + Len(w)) /\ ~(m + k <= Len(v)) /\ m + k - Len(v) = k
      OBVIOUS
    <3> QED
      BY <3>1
  <2> QED
    BY <2>1, <2>2
<1>2. ASSUME NEW k \in 1..(m + n) PROVE u[k] = (v \o w)[k]
  <2>1. CASE k <= m
    BY <2>1
  <2>2. CASE k > m
    <3>1. PICK l \in 1..n : k = m + l
      <4>1. k - m \in 1..n /\ k = m + (k - m)
        BY <2>2
      <4> QED
        BY <4>1
    <3>2. u[m + l] = w[l]
      OBVIOUS
    <3> QED
      BY <1>1, <3>1, <3>2, Zenon
  <2> QED
    BY <2>1, <2>2
<1>3. u = v \o w
  BY <1>1, <1>2, SeqEqual
<1> QED
  BY <1>3, Zenon DEF IsConcat

\* Two parts next to each other are one.
LEMMA PartsJoin ==
    ASSUME NEW X, NEW r \in Seq(X), NEW a \in Nat, NEW b \in Nat, NEW c \in Nat,
           a <= b, b <= c, c <= Len(r)
    PROVE  IsConcat(SubSeq(r, a + 1, c), SubSeq(r, a + 1, b), SubSeq(r, b + 1, c))
<1>1. a <= c /\ b <= Len(r)
  OBVIOUS
<1>2. PICK m \in Nat : m = b - a
  OBVIOUS
<1>3. PICK n \in Nat : n = c - b
  OBVIOUS
<1>4. PICK u : u = SubSeq(r, a + 1, c)
  OBVIOUS
<1>5. PICK v : v = SubSeq(r, a + 1, b)
  OBVIOUS
<1>6. PICK w : w = SubSeq(r, b + 1, c)
  OBVIOUS
<1>7. u \in Seq(X) /\ Len(u) = c - a /\ \A k \in 1..(c - a) : u[k] = r[a + k]
  BY <1>1, <1>4, Part
<1>8. v \in Seq(X) /\ Len(v) = b - a /\ \A k \in 1..(b - a) : v[k] = r[a + k]
  BY <1>1, <1>5, Part
<1>9. w \in Seq(X) /\ Len(w) = c - b /\ \A k \in 1..(c - b) : w[k] = r[b + k]
  BY <1>1, <1>6, Part
<1>10. Len(u) = m + n /\ Len(v) = m /\ Len(w) = n
  BY <1>2, <1>3, <1>7, <1>8, <1>9
<1>11. ASSUME NEW k \in 1..m PROVE u[k] = v[k]
  <2>1. k \in 1..(b - a) /\ k \in 1..(c - a)
    BY <1>2
  <2> QED
    BY <1>7, <1>8, <2>1
<1>12. ASSUME NEW k \in 1..n PROVE u[m + k] = w[k]
  <2>1. k \in 1..(c - b) /\ m + k \in 1..(c - a) /\ a + (m + k) = b + k
    BY <1>2, <1>3
  <2> QED
    BY <1>7, <1>9, <2>1
<1>13. IsConcat(u, v, w)
  <2>1. u \in Seq(X) /\ v \in Seq(X) /\ w \in Seq(X)
    BY <1>7, <1>8, <1>9
  <2> QED
    BY <1>10, <1>11, <1>12, <2>1, Concat
<1> QED
  BY <1>4, <1>5, <1>6, <1>13

\* A sequence with the elements of a part is the part.
LEMMA PartIs ==
    ASSUME NEW X, NEW r \in Seq(X), NEW a \in Nat, NEW b \in Nat, a <= b, b <= Len(r),
           NEW v \in Seq(X), Len(v) = b - a, \A k \in 1..(b - a) : v[k] = r[a + k]
    PROVE  v = SubSeq(r, a + 1, b)
<1>1. PICK n \in Nat : n = b - a
  OBVIOUS
<1>2. PICK w : w = SubSeq(r, a + 1, b)
  OBVIOUS
<1>3. w \in Seq(X) /\ Len(w) = n /\ \A k \in 1..n : w[k] = r[a + k]
  BY <1>1, <1>2, Part
<1>4. v = w
  BY <1>1, <1>3, SeqEqual
<1> QED
  BY <1>2, <1>4

\* The same of sequences that are such parts.
LEMMA PartsAre ==
    ASSUME NEW X, NEW r \in Seq(X), NEW a \in Nat, NEW b \in Nat, NEW c \in Nat,
           a <= b, b <= c, c <= Len(r),
           NEW v, NEW w, v = SubSeq(r, a + 1, b), w = SubSeq(r, b + 1, c)
    PROVE  v \o w = SubSeq(r, a + 1, c)
BY PartsJoin DEF IsConcat

\* v is the part of r behind a, up to b.
IsPart(v, r, a, b) == v = SubSeq(r, a + 1, b)

\* One element is a part.
LEMMA OneElement ==
    ASSUME NEW X, NEW r \in Seq(X), NEW a \in Nat, NEW b \in Nat, b = a + 1, b <= Len(r),
           NEW y, r[b] = y
    PROVE  IsPart(<<y>>, r, a, b)
<1>1. r[b] \in X /\ a <= b
  OBVIOUS
<1>2. PICK v : v = <<y>>
  OBVIOUS
<1>3. v \in Seq(X) /\ Len(v) = b - a /\ \A k \in 1..(b - a) : v[k] = r[a + k]
  BY <1>1, <1>2
<1>4. v = SubSeq(r, a + 1, b)
  BY <1>1, <1>3, PartIs
<1> QED
  BY <1>2, <1>4 DEF IsPart

\* Two parts next to each other are one.
LEMMA PartsFold ==
    ASSUME NEW X, NEW r \in Seq(X), NEW a \in Nat, NEW b \in Nat, NEW c \in Nat,
           a <= b, b <= c, c <= Len(r),
           NEW v, NEW w, IsPart(v, r, a, b), IsPart(w, r, b, c)
    PROVE  IsPart(v \o w, r, a, c)
BY PartsJoin DEF IsConcat, IsPart

\* Six sequences after one another.
IsSix(r, u, v, w, x, y, z) == r = u \o v \o w \o x \o y \o z

\* A sequence is its six parts after one another.
LEMMA SixParts ==
    ASSUME NEW X, NEW r \in Seq(X), NEW b \in Nat, NEW c \in Nat, NEW d \in Nat, NEW e \in Nat,
           NEW f \in Nat, b <= c, c <= d, d <= e, e <= f, f <= Len(r),
           NEW u, NEW v, NEW w, NEW x, NEW y, NEW z,
           IsPart(u, r, 0, b), IsPart(v, r, b, c), IsPart(w, r, c, d), IsPart(x, r, d, e),
           IsPart(y, r, e, f), IsPart(z, r, f, Len(r))
    PROVE  IsSix(r, u, v, w, x, y, z)
<1>0. PICK g \in Nat : g = Len(r)
  OBVIOUS
<1>1. 0 <= b /\ 0 <= c /\ 0 <= d /\ 0 <= e /\ 0 <= f /\ 0 <= g /\ c <= g /\ d <= g /\ e <= g /\ f <= g
  BY <1>0
<1>2. IsPart(u \o v, r, 0, c)
  BY <1>0, <1>1, PartsFold
<1>3. IsPart(u \o v \o w, r, 0, d)
  BY <1>0, <1>1, <1>2, PartsFold
<1>4. IsPart(u \o v \o w \o x, r, 0, e)
  BY <1>0, <1>1, <1>3, PartsFold
<1>5. IsPart(u \o v \o w \o x \o y, r, 0, f)
  BY <1>0, <1>1, <1>4, PartsFold
<1>6. IsPart(u \o v \o w \o x \o y \o z, r, 0, g)
  BY <1>0, <1>1, <1>5, PartsFold
<1>7. SubSeq(r, 0 + 1, g) = r
  <2>1. Len(r) = g - 0 /\ \A k \in 1..(g - 0) : r[k] = r[0 + k]
    BY <1>0
  <2> QED
    BY <1>0, <1>1, <2>1, PartIs
<1> QED
  BY <1>6, <1>7 DEF IsPart, IsSix

\* The parts between growing positions, one after the other.
LEMMA FlattenParts ==
    ASSUME NEW X, NEW r \in Seq(X), NEW N \in Nat, NEW p \in [0..N -> 0..Len(r)],
           \A k \in 1..N : p[k - 1] <= p[k]
    PROVE  FlattenSeq([k \in 1..N |-> SubSeq(r, p[k - 1] + 1, p[k])]) = SubSeq(r, p[0] + 1, p[N])
<1> DEFINE P(k) == SubSeq(r, p[k - 1] + 1, p[k])
           F(n) == [k \in 1..n |-> P(k)]
           S == {n \in Nat : n <= N =>
                    p[0] <= p[n] /\ FlattenSeq(F(n)) = SubSeq(r, p[0] + 1, p[n])}
<1>1. ASSUME NEW k \in 1..N PROVE P(k) \in Seq(X)
  <2>1. k - 1 \in 0..N /\ k \in 0..N /\ p[k - 1] <= p[k]
    OBVIOUS
  <2>2. p[k - 1] \in Nat /\ p[k] \in Nat /\ p[k] <= Len(r)
    BY <2>1
  <2> QED
    BY <2>1, <2>2, Part
<1>2. 0 \in 0..N /\ p[0] \in Nat
  OBVIOUS
<1> HIDE DEF P
<1>3. 0 \in S
  <2>1. F(0) = <<>>
    OBVIOUS
  <2>2. SubSeq(r, p[0] + 1, p[0]) = <<>>
    BY <1>2
  <2>3. FlattenSeq(F(0)) = <<>>
    BY <2>1, FlattenEmpty
  <2>4. p[0] <= p[0]
    BY <1>2
  <2> HIDE DEF F
  <2> QED
    BY <2>2, <2>3, <2>4
<1>4. ASSUME NEW n \in Nat, n \in S PROVE n + 1 \in S
  <2> SUFFICES ASSUME n + 1 <= N
               PROVE  p[0] <= p[n + 1] /\ FlattenSeq(F(n + 1)) = SubSeq(r, p[0] + 1, p[n + 1])
    OBVIOUS
  <2>1. PICK m \in Nat : m = n + 1
    OBVIOUS
  <2>2. /\ m \in 1..N /\ n <= N /\ m - 1 = n /\ n \in 0..N /\ m \in 0..N
        /\ \A k \in 1..n : k \in 1..N /\ k \in 1..m
        /\ \A k \in 1..m : k \in 1..N
    BY <2>1
  <2>3. p[0] <= p[n] /\ FlattenSeq(F(n)) = SubSeq(r, p[0] + 1, p[n])
    BY <1>4, <2>2
  <2>4. p[n] <= p[m] /\ p[n] \in Nat /\ p[m] \in Nat /\ p[m] <= Len(r) /\ p[0] <= p[m]
    BY <1>2, <2>2, <2>3
  <2>5. IsConcat(FlattenSeq(F(m)), FlattenSeq(F(n)), P(m))
    <3>1. PICK ss : ss = F(n)
      OBVIOUS
    <3>2. PICK tt : tt = F(m)
      OBVIOUS
    <3>3. /\ Len(ss) = n /\ Len(tt) = m
          /\ n = 0 => ss = <<>>
          /\ \A k \in 1..n : ss[k] = tt[k]
          /\ tt[m] = P(m)
      BY <2>2, <3>1, <3>2
    <3>4. /\ \A k \in 1..n : ss[k] \in Seq(X)
          /\ \A k \in 1..m : tt[k] \in Seq(X)
      BY <1>1, <2>2, <3>1, <3>2
    <3>5. IsConcat(FlattenSeq(tt), FlattenSeq(ss), tt[m])
      BY <2>1, <3>3, <3>4, FlattenNext
    <3> QED
      BY <3>1, <3>2, <3>3, <3>5
  <2>6. P(m) = SubSeq(r, p[n] + 1, p[m])
    BY <2>2 DEF P
  <2>7. IsConcat(SubSeq(r, p[0] + 1, p[m]), SubSeq(r, p[0] + 1, p[n]), SubSeq(r, p[n] + 1, p[m]))
    BY <1>2, <2>3, <2>4, PartsJoin
  <2>8. FlattenSeq(F(m)) = SubSeq(r, p[0] + 1, p[m])
    BY <2>3, <2>5, <2>6, <2>7, Zenon DEF IsConcat
  <2> QED
    BY <2>1, <2>4, <2>8
<1>5. N \in S
  <2> HIDE DEF S
  <2> QED
    BY <1>3, <1>4, SetInduction
<1>6. F(N) = [k \in 1..N |-> SubSeq(r, p[k - 1] + 1, p[k])]
  BY DEF P
<1> HIDE DEF F
<1>7. N <= N
  OBVIOUS
<1> QED
  BY <1>5, <1>6, <1>7

-----------------------------------------------------------------------------
(* Where the parts of a sequence are in it. *)

\* What two sequences after each other are.
LEMMA ConcatIs ==
    ASSUME NEW X, NEW u \in Seq(X), NEW v \in Seq(X), NEW x, IsConcat(x, u, v)
    PROVE  /\ x \in Seq(X) /\ Len(x) = Len(u) + Len(v)
           /\ \A k \in 1..Len(u) : x[k] = u[k]
           /\ \A k \in 1..Len(v) : x[Len(u) + k] = v[k]
<1>1. PICK m \in Nat : m = Len(u)
  OBVIOUS
<1>2. PICK n \in Nat : n = Len(v)
  OBVIOUS
<1>3. x = u \o v
  BY DEF IsConcat
<1>4. x \in Seq(X) /\ Len(x) = m + n
  BY <1>1, <1>2, <1>3
<1>5. ASSUME NEW k \in 1..m PROVE x[k] = u[k]
  BY <1>1, <1>2, <1>3
<1>6. ASSUME NEW k \in 1..n PROVE x[m + k] = v[k]
  BY <1>1, <1>2, <1>3
<1> QED
  BY <1>1, <1>2, <1>4, <1>5, <1>6

\* The sequence s is in r, behind a.
PlacedAt(r, s, a) == \A k \in 1..Len(s) : r[a + k] = s[k]

\* So are its two parts.
LEMMA PlacedParts ==
    ASSUME NEW X, NEW u \in Seq(X), NEW v \in Seq(X), NEW x, IsConcat(x, u, v),
           NEW r, NEW a \in Nat, PlacedAt(r, x, a)
    PROVE  PlacedAt(r, u, a) /\ PlacedAt(r, v, a + Len(u))
<1>1. /\ Len(x) = Len(u) + Len(v)
      /\ \A k \in 1..Len(u) : x[k] = u[k]
      /\ \A k \in 1..Len(v) : x[Len(u) + k] = v[k]
  BY ConcatIs
<1>2. Len(u) \in Nat /\ Len(v) \in Nat
  OBVIOUS
<1>3. ASSUME NEW k \in 1..Len(u) PROVE r[a + k] = u[k]
  <2>1. k \in 1..Len(x)
    BY <1>1, <1>2
  <2> QED
    BY <1>1, <2>1 DEF PlacedAt
<1>4. ASSUME NEW k \in 1..Len(v) PROVE r[a + Len(u) + k] = v[k]
  <2>1. PICK m \in Nat : m = Len(u)
    BY <1>2
  <2>2. m + k \in 1..Len(x) /\ a + (m + k) = a + m + k
    BY <1>1, <1>2, <2>1
  <2>3. r[a + (m + k)] = x[m + k]
    BY <2>2 DEF PlacedAt
  <2> QED
    BY <1>1, <2>1, <2>2, <2>3
<1> QED
  BY <1>3, <1>4 DEF PlacedAt

\* It stays there when more follows.
LEMMA PlacedStays ==
    ASSUME NEW X, NEW u \in Seq(X), NEW v \in Seq(X), NEW x, IsConcat(x, u, v),
           NEW s, Len(s) \in Nat, NEW a \in Nat, a + Len(s) <= Len(u), PlacedAt(u, s, a)
    PROVE  PlacedAt(x, s, a)
<1>1. \A k \in 1..Len(u) : x[k] = u[k]
  BY ConcatIs
<1>2. ASSUME NEW k \in 1..Len(s) PROVE x[a + k] = s[k]
  <2>1. a + k \in 1..Len(u)
    OBVIOUS
  <2> QED
    BY <1>1, <2>1 DEF PlacedAt
<1> QED
  BY <1>2 DEF PlacedAt

\* Each of n sequences is in their flattening behind the one before it.
FlatPlaces(r, ss, q, n) ==
    \A k \in 1..n : /\ q[k - 1] \in Nat /\ q[k] = q[k - 1] + Len(ss[k]) /\ q[k] <= Len(r)
                    /\ PlacedAt(r, ss[k], q[k - 1])

LEMMA FlattenPlaces ==
    ASSUME NEW X, NEW n \in Nat \ {0}, NEW ss, Len(ss) = n, \A k \in 1..n : ss[k] \in Seq(X)
    PROVE  /\ FlattenSeq(ss) \in Seq(X)
           /\ \E q : q[0] = 0 /\ q[n] = Len(FlattenSeq(ss)) /\ FlatPlaces(FlattenSeq(ss), ss, q, n)
<1>1. PICK f : IsFlatten(f, ss, n) /\ FlattenSeq(ss) = f[n]
  BY FlattenIs
<1>2. ASSUME NEW k \in 1..n PROVE f[k] = IF k = 1 THEN ss[k] ELSE f[k - 1] \o ss[k]
  <2>1. f = [l \in 1..n |-> IF l = 1 THEN ss[l] ELSE f[l - 1] \o ss[l]]
    BY <1>1 DEF IsFlatten
  <2> QED
    BY <2>1, Zenon
<1>3. PICK q : q = [k \in 0..n |-> IF k = 0 THEN 0 ELSE Len(f[k])]
  OBVIOUS
<1>4. q[0] = 0 /\ \A k \in 1..n : q[k] = Len(f[k])
  BY <1>3
<1> DEFINE S == {m \in Nat : m + 1 <= n => f[m + 1] \in Seq(X) /\ FlatPlaces(f[m + 1], ss, q, m + 1)}
<1>5. 0 \in S
  <2>1. 1 \in 1..n
    OBVIOUS
  <2>2. f[1] = ss[1] /\ ss[1] \in Seq(X) /\ q[1] = Len(f[1])
    BY <1>2, <1>4, <2>1
  <2>3. PlacedAt(f[1], ss[1], 0)
    <3>1. \A k \in 1..Len(ss[1]) : 0 + k = k
      BY <2>2
    <3> QED
      BY <2>2, <3>1 DEF PlacedAt
  <2>4. PICK l \in Nat : l = Len(ss[1])
    BY <2>2
  <2>5. q[1 - 1] = 0 /\ q[1] = l /\ 0 + l = l /\ l <= l
    BY <1>4, <2>2, <2>4
  <2>6. \A k \in 1..1 : k = 1
    OBVIOUS
  <2>7. FlatPlaces(f[1], ss, q, 1)
    BY <2>2, <2>3, <2>4, <2>5, <2>6 DEF FlatPlaces
  <2> QED
    BY <2>2, <2>7
<1>6. ASSUME NEW m \in Nat, m \in S PROVE m + 1 \in S
  <2> SUFFICES ASSUME m + 1 + 1 <= n
               PROVE  f[m + 1 + 1] \in Seq(X) /\ FlatPlaces(f[m + 1 + 1], ss, q, m + 1 + 1)
    OBVIOUS
  <2>1. PICK a \in Nat : a = m + 1
    OBVIOUS
  <2>2. PICK b \in Nat : b = a + 1
    BY <2>1
  <2>3. /\ a \in 1..n /\ b \in 1..n /\ b # 1 /\ b - 1 = a /\ m + 1 + 1 = b /\ m + 1 <= n
        /\ \A k \in 1..b : k \in 1..a \/ k = b
    BY <2>1, <2>2
  <2>4. f[a] \in Seq(X) /\ FlatPlaces(f[a], ss, q, a)
    BY <1>6, <2>1, <2>3
  <2>5. PICK u : u = f[a]
    OBVIOUS
  <2>6. PICK v : v = ss[b]
    OBVIOUS
  <2>7. PICK x : x = f[b]
    OBVIOUS
  <2>8. u \in Seq(X) /\ v \in Seq(X) /\ IsConcat(x, u, v)
    <3>1. f[b] = f[b - 1] \o ss[b]
      BY <1>2, <2>3
    <3> QED
      BY <2>3, <2>4, <2>5, <2>6, <2>7, <3>1 DEF IsConcat
  <2>9. /\ x \in Seq(X) /\ Len(x) = Len(u) + Len(v)
        /\ \A k \in 1..Len(v) : x[Len(u) + k] = v[k]
    BY <2>8, ConcatIs
  <2>10. PICK c \in Nat : c = Len(u)
    BY <2>8
  <2>11. PICK d \in Nat : d = Len(v)
    BY <2>8
  <2>12. q[a] = c /\ q[b] = c + d /\ Len(x) = c + d
    BY <1>4, <2>3, <2>5, <2>7, <2>9, <2>10, <2>11
  <2>13. PlacedAt(x, v, c)
    BY <2>9, <2>10 DEF PlacedAt
  <2>14. ASSUME NEW k \in 1..a
         PROVE  /\ q[k - 1] \in Nat /\ q[k] = q[k - 1] + Len(ss[k]) /\ q[k] <= Len(x)
                /\ PlacedAt(x, ss[k], q[k - 1])
    <3>1. /\ q[k - 1] \in Nat /\ q[k] = q[k - 1] + Len(ss[k]) /\ q[k] <= Len(u)
          /\ PlacedAt(u, ss[k], q[k - 1])
      BY <2>4, <2>5 DEF FlatPlaces
    <3>2. k \in 1..n /\ Len(ss[k]) \in Nat
      BY <2>3
    <3>3. PICK p \in Nat : p = q[k - 1]
      BY <3>1
    <3>4. PlacedAt(x, ss[k], p)
      BY <2>8, <3>1, <3>2, <3>3, PlacedStays
    <3>5. q[k] <= Len(x)
      BY <2>10, <2>12, <3>1, <3>2
    <3> QED
      BY <3>1, <3>3, <3>4, <3>5
  <2>15. /\ q[b - 1] \in Nat /\ q[b] = q[b - 1] + Len(ss[b]) /\ q[b] <= Len(x)
         /\ PlacedAt(x, ss[b], q[b - 1])
    BY <2>3, <2>6, <2>10, <2>11, <2>12, <2>13
  <2>16. FlatPlaces(x, ss, q, b)
    BY <2>3, <2>14, <2>15 DEF FlatPlaces
  <2> QED
    BY <2>3, <2>7, <2>9, <2>16
<1>7. f[n] \in Seq(X) /\ FlatPlaces(f[n], ss, q, n)
  <2> HIDE DEF S
  <2>1. PICK m \in Nat : m + 1 = n
    <3>1. n - 1 \in Nat /\ n - 1 + 1 = n
      OBVIOUS
    <3> QED
      BY <3>1
  <2>2. m \in S
    BY <1>5, <1>6, SetInduction
  <2>3. n <= n
    OBVIOUS
  <2> QED
    BY <2>1, <2>2, <2>3 DEF S
<1>8. n \in 1..n
  OBVIOUS
<1> QED
  BY <1>1, <1>4, <1>7, <1>8


\* r is six sequences over X after one another, of which the first five end at b, c, d, e, f.
SixOf(X, r, u, v, w, x, y, z, b, c, d, e, f) ==
    /\ IsSix(r, u, v, w, x, y, z)
    /\ u \in Seq(X) /\ v \in Seq(X) /\ w \in Seq(X) /\ x \in Seq(X) /\ y \in Seq(X) /\ z \in Seq(X)
    /\ b \in Nat /\ c \in Nat /\ d \in Nat /\ e \in Nat /\ f \in Nat
    /\ b = Len(u) /\ c = b + Len(v) /\ d = c + Len(w) /\ e = d + Len(x) /\ f = e + Len(y)

\* Where six sequences after one another are.
LEMMA SixPlaces ==
    ASSUME NEW X, NEW r, NEW u, NEW v, NEW w, NEW x, NEW y, NEW z,
           NEW b, NEW c, NEW d, NEW e, NEW f,
           SixOf(X, r, u, v, w, x, y, z, b, c, d, e, f)
    PROVE  /\ r \in Seq(X) /\ Len(r) = f + Len(z)
           /\ PlacedAt(r, u, 0) /\ PlacedAt(r, v, b) /\ PlacedAt(r, w, c)
           /\ PlacedAt(r, x, d) /\ PlacedAt(r, y, e) /\ PlacedAt(r, z, f)
<1>0. /\ IsSix(r, u, v, w, x, y, z)
      /\ u \in Seq(X) /\ v \in Seq(X) /\ w \in Seq(X) /\ x \in Seq(X) /\ y \in Seq(X) /\ z \in Seq(X)
      /\ b \in Nat /\ c \in Nat /\ d \in Nat /\ e \in Nat /\ f \in Nat
      /\ b = Len(u) /\ c = b + Len(v) /\ d = c + Len(w) /\ e = d + Len(x) /\ f = e + Len(y)
  BY DEF SixOf
<1>1. PICK uv : IsConcat(uv, u, v)
  BY DEF IsConcat
<1>2. PICK uw : IsConcat(uw, uv, w)
  BY DEF IsConcat
<1>3. PICK ux : IsConcat(ux, uw, x)
  BY DEF IsConcat
<1>4. PICK uy : IsConcat(uy, ux, y)
  BY DEF IsConcat
<1>5. IsConcat(r, uy, z)
  BY <1>0, <1>1, <1>2, <1>3, <1>4, Zenon DEF IsConcat, IsSix
<1>6. uv \in Seq(X) /\ Len(uv) = Len(u) + Len(v)
  BY <1>0, <1>1, ConcatIs
<1>7. uv \in Seq(X)
  BY <1>6
<1>8. uw \in Seq(X) /\ Len(uw) = Len(uv) + Len(w)
  BY <1>0, <1>2, <1>7, ConcatIs
<1>9. uw \in Seq(X)
  BY <1>8
<1>10. ux \in Seq(X) /\ Len(ux) = Len(uw) + Len(x)
  BY <1>0, <1>3, <1>9, ConcatIs
<1>11. ux \in Seq(X)
  BY <1>10
<1>12. uy \in Seq(X) /\ Len(uy) = Len(ux) + Len(y)
  BY <1>0, <1>4, <1>11, ConcatIs
<1>13. uy \in Seq(X)
  BY <1>12
<1>14. r \in Seq(X) /\ Len(r) = Len(uy) + Len(z)
  BY <1>0, <1>5, <1>13, ConcatIs
<1>15. /\ b = Len(u) /\ Len(uv) = c /\ Len(uw) = d /\ Len(ux) = e /\ Len(uy) = f
  BY <1>0, <1>6, <1>8, <1>10, <1>12
<1>16. PlacedAt(r, r, 0) /\ 0 \in Nat
  <2>1. \A k \in 1..Len(r) : 0 + k = k
    BY <1>14
  <2> QED
    BY <2>1 DEF PlacedAt
<1>17. 0 + b = b /\ 0 + c = c /\ 0 + d = d /\ 0 + e = e /\ 0 + f = f
  BY <1>0
<1>membership. u \in Seq(X) /\ v \in Seq(X) /\ w \in Seq(X) /\ x \in Seq(X) /\ y \in Seq(X) /\ z \in Seq(X)
  BY <1>0
<1>18. PlacedAt(r, uy, 0) /\ PlacedAt(r, z, 0 + Len(uy))
  BY <1>membership, <1>5, <1>13, <1>16, PlacedParts
<1>19. PlacedAt(r, ux, 0) /\ PlacedAt(r, y, 0 + Len(ux))
  BY <1>membership, <1>4, <1>11, <1>16, <1>18, PlacedParts
<1>20. PlacedAt(r, uw, 0) /\ PlacedAt(r, x, 0 + Len(uw))
  BY <1>membership, <1>3, <1>9, <1>16, <1>19, PlacedParts
<1>21. PlacedAt(r, uv, 0) /\ PlacedAt(r, w, 0 + Len(uv))
  BY <1>membership, <1>2, <1>7, <1>16, <1>20, PlacedParts
<1>22. PlacedAt(r, u, 0) /\ PlacedAt(r, v, 0 + Len(u))
  BY <1>membership, <1>1, <1>16, <1>21, PlacedParts
<1> QED
  BY <1>14, <1>15, <1>17, <1>18, <1>19, <1>20, <1>21, <1>22
=============================================================================
