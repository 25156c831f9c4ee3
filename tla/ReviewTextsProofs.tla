------------------------- MODULE ReviewTextsProofs -------------------------
(***************************************************************************)
(* Proofs about ReviewTexts, for every set of accepted transactions and    *)
(* every width of their numbers: what a review shows is what is signed.    *)
(* format_fpu64, base58_encode and parse_scope_name are shown to compute   *)
(* what the reference definitions of ReviewTexts and Base58 read back.     *)
(***************************************************************************)
EXTENDS ReviewTexts, InductionLemmas, FiniteSetTheorems

-----------------------------------------------------------------------------
(* A function that is computed from its last value. *)

IsIterated(f, n, a, G) == f = [k \in 0..n |-> IF k = 0 THEN a ELSE G[<<f[k - 1], k>>]]

\* There is a function that goes on from its last value, whatever its step is.
LEMMA Iterates ==
    ASSUME NEW V, NEW n \in Nat, NEW a \in V, NEW G \in [V \X (1..n) -> V]
    PROVE  \E f \in [0..n -> V] : IsIterated(f, n, a, G)
<1> DEFINE S == {k \in Nat : k <= n => \E f \in [0..k -> V] : IsIterated(f, k, a, G)}
<1>1. 0 \in S
  <2>1. PICK f : f = [k \in 0..0 |-> a]
    OBVIOUS
  <2>2. f \in [0..0 -> V] /\ IsIterated(f, 0, a, G)
    BY <2>1 DEF IsIterated
  <2> QED
    BY <2>2
<1>2. ASSUME NEW k \in Nat, k \in S PROVE k + 1 \in S
  <2> SUFFICES ASSUME k + 1 <= n
               PROVE  \E f \in [0..(k + 1) -> V] : IsIterated(f, k + 1, a, G)
    OBVIOUS
  <2>1. PICK m \in [0..k -> V] : IsIterated(m, k, a, G)
    BY <1>2
  <2>2. PICK l \in Nat : l = k + 1
    OBVIOUS
  <2>3. PICK x \in V : x = G[<<m[k], l>>]
    <3>1. m[k] \in V /\ l \in 1..n
      BY <2>1, <2>2
    <3> QED
      BY <3>1
  <2>4. PICK u : u = [h \in 0..l |-> IF h = l THEN x ELSE m[h]]
    OBVIOUS
  <2>5. u \in [0..l -> V]
    <3>1. \A h \in 0..l : h = l \/ h \in 0..k
      BY <2>2
    <3> QED
      BY <2>1, <2>3, <2>4, <3>1
  <2>6. ASSUME NEW h \in 0..l
        PROVE  u[h] = IF h = 0 THEN a ELSE G[<<u[h - 1], h>>]
    <3>1. CASE h = l
      <4>1. h # 0 /\ h - 1 = k /\ k \in 0..l /\ k # l
        BY <2>2, <3>1
      <4>2. u[h] = x /\ u[h - 1] = m[k]
        BY <2>4, <3>1, <4>1
      <4> QED
        BY <2>3, <3>1, <4>1, <4>2
    <3>2. CASE h # l
      <4>1. h \in 0..k /\ (h # 0 => h - 1 \in 0..l /\ h - 1 # l)
        BY <2>2, <3>2
      <4>2. u[h] = m[h] /\ (h # 0 => u[h - 1] = m[h - 1])
        BY <2>4, <3>2, <4>1
      <4>3. m[h] = IF h = 0 THEN a ELSE G[<<m[h - 1], h>>]
        BY <2>1, <4>1 DEF IsIterated
      <4> QED
        BY <4>2, <4>3
    <3> QED
      BY <3>1, <3>2
  <2>7. u = [h \in 0..l |-> IF h = 0 THEN a ELSE G[<<u[h - 1], h>>]]
    BY <2>4, <2>6
  <2>8. IsIterated(u, l, a, G)
    BY <2>7 DEF IsIterated
  <2> QED
    BY <2>2, <2>5, <2>8
<1> HIDE DEF S
<1>3. n \in S
  BY <1>1, <1>2, SetInduction
<1> QED
  BY <1>3 DEF S

-----------------------------------------------------------------------------
(* The digits of a number. *)

Digit == Zero..(Zero + 9)
Texts == Seq(Digit)

\* The last digit of n and those before it.
LEMMA LastDigit ==
    ASSUME NEW n \in Nat
    PROVE  /\ n \div 10 \in Nat /\ n % 10 \in 0..9 /\ n = 10 * (n \div 10) + (n % 10)
           /\ n > 9 => n \div 10 < n /\ n \div 10 >= 1
           /\ Zero + (n % 10) \in Digit
           /\ n <= 9 => Zero + n \in Digit
BY DEF Digit, Zero

NextDigits(f, n) == IF n <= 9 THEN <<Zero + n>> ELSE Append(f[n \div 10], Zero + (n % 10))
AreDigits(f, m) == \A k \in 0..m : f[k] = NextDigits(f, k)

\* Two functions that compute digits agree where both are defined.
LEMMA DigitsAgree ==
    ASSUME NEW m \in Nat, NEW p \in Nat, NEW f, NEW g, AreDigits(f, m), AreDigits(g, p),
           NEW n \in Nat, n <= m, n <= p
    PROVE  f[n] = g[n]
<1> DEFINE T == {k \in 0..n : f[k] # g[k]}
<1> SUFFICES ASSUME f[n] # g[n] PROVE FALSE
  OBVIOUS
<1>0. n \in T
  OBVIOUS
<1>1. PICK k \in T : \A h \in T : k <= h
  <2>1. T \subseteq Nat
    OBVIOUS
  <2> QED
    BY <1>0, <2>1, LeastNumber
<1>2. k \in 0..n /\ k \in 0..m /\ k \in 0..p /\ k \in Nat /\ f[k] # g[k]
  OBVIOUS
<1>3. f[k] = NextDigits(f, k) /\ g[k] = NextDigits(g, k)
  BY <1>2 DEF AreDigits
<1>4. k > 9
  BY <1>2, <1>3 DEF NextDigits
<1>5. k \div 10 \in 0..n /\ ~(k <= k \div 10)
  BY <1>2, <1>4, LastDigit
<1>6. f[k \div 10] = g[k \div 10]
  BY <1>1, <1>5
<1> QED
  BY <1>2, <1>3, <1>6 DEF NextDigits

\* There is one up to any number.
LEMMA DigitsTo ==
    ASSUME NEW n \in Nat
    PROVE  \E f : AreDigits(f, n)
<1> DEFINE S == {k \in Nat : \E f : AreDigits(f, k)}
<1>1. 0 \in S
  <2>1. PICK f : f = [k \in 0..0 |-> <<Zero + k>>]
    OBVIOUS
  <2>2. AreDigits(f, 0)
    BY <2>1 DEF AreDigits, NextDigits
  <2> QED
    BY <2>2
<1>2. ASSUME NEW k \in Nat, k \in S PROVE k + 1 \in S
  <2>1. PICK f : AreDigits(f, k)
    BY <1>2
  <2>2. PICK l \in Nat : l = k + 1
    OBVIOUS
  <2>3. PICK x : x = NextDigits(f, l)
    OBVIOUS
  <2>4. PICK u : u = [h \in 0..l |-> IF h = l THEN x ELSE f[h]]
    OBVIOUS
  <2>5. ASSUME NEW h \in 0..l PROVE u[h] = NextDigits(u, h)
    <3>1. h \in Nat /\ (h > 9 => h \div 10 \in 0..l /\ h \div 10 # l)
      BY <2>2, LastDigit
    <3>2. NextDigits(u, h) = NextDigits(f, h)
      BY <2>4, <3>1 DEF NextDigits
    <3>3. h # l => h \in 0..k
      BY <2>2
    <3>4. h # l => f[h] = NextDigits(f, h)
      BY <2>1, <3>3 DEF AreDigits
    <3> QED
      BY <2>3, <2>4, <3>2, <3>4
  <2>6. AreDigits(u, l)
    BY <2>5 DEF AreDigits
  <2> QED
    BY <2>2, <2>6
<1> HIDE DEF S
<1>3. n \in S
  BY <1>1, <1>2, SetInduction
<1> QED
  BY <1>3 DEF S

\* And one for all numbers, so Digits is what its definition says.
LEMMA DigitsExist == \E f : f = [n \in Nat |-> NextDigits(f, n)]
<1> DEFINE P(n) == CHOOSE f : AreDigits(f, n)
<1>1. ASSUME NEW n \in Nat PROVE AreDigits(P(n), n)
  BY DigitsTo
<1> HIDE DEF P
<1>2. PICK f : f = [n \in Nat |-> P(n)[n]]
  OBVIOUS
<1>3. ASSUME NEW n \in Nat PROVE f[n] = NextDigits(f, n)
  <2>1. f[n] = P(n)[n] /\ P(n)[n] = NextDigits(P(n), n)
    BY <1>1, <1>2 DEF AreDigits
  <2>2. CASE n <= 9
    BY <2>1, <2>2 DEF NextDigits
  <2>3. CASE n > 9
    <3>1. PICK d \in Nat : d = n \div 10 /\ d <= n
      BY <2>3, LastDigit
    <3>2. f[d] = P(d)[d]
      BY <1>2
    <3>3. P(d)[d] = P(n)[d]
      BY <1>1, <3>1, DigitsAgree
    <3> QED
      BY <2>1, <3>1, <3>2, <3>3 DEF NextDigits
  <2> QED
    BY <2>2, <2>3
<1>4. f = [n \in Nat |-> NextDigits(f, n)]
  BY <1>2, <1>3
<1> QED
  BY <1>4

\* The digits of a number are those of its tenth and one more.
LEMMA DigitsAre ==
    ASSUME NEW n \in Nat
    PROVE  Digits[n] = IF n <= 9 THEN <<Zero + n>> ELSE Append(Digits[n \div 10], Zero + (n % 10))
<1> DEFINE F == CHOOSE f : f = [k \in Nat |-> NextDigits(f, k)]
<1>1. F = [k \in Nat |-> NextDigits(F, k)]
  BY DigitsExist
<1>2. Digits = F
  BY DEF Digits, NextDigits
<1> HIDE DEF F
<1>3. F[n] = NextDigits(F, n)
  BY <1>1
<1> QED
  BY <1>2, <1>3 DEF NextDigits

\* Numbers below ten.
LEMMA OneDigit ==
    ASSUME NEW n \in Nat, n <= 9
    PROVE  Digits[n] = <<Zero + n>>
BY DigitsAre

\* Other numbers.
LEMMA MoreDigits ==
    ASSUME NEW n \in Nat, n > 9, NEW d, d = n \div 10, NEW c, c = Zero + (n % 10)
    PROVE  Digits[n] = Append(Digits[d], c)
<1>1. ~(n <= 9)
  OBVIOUS
<1> QED
  BY <1>1, DigitsAre, Zenon

\* Induction from all smaller numbers.
LEMMA StrongInduction ==
    ASSUME NEW S, \A n \in Nat : (\A k \in 0..(n - 1) : k \in S) => n \in S
    PROVE  Nat \subseteq S
<1> SUFFICES ASSUME Nat \ S # {} PROVE FALSE
  OBVIOUS
<1>1. PICK n \in Nat \ S : \A k \in Nat \ S : n <= k
  BY LeastNumber
<1>2. ASSUME NEW k \in 0..(n - 1) PROVE k \in S
  BY <1>1
<1> QED
  BY <1>1, <1>2

\* The digits of a number are a text, and the first one is zero for zero only.
LEMMA DigitsType ==
    ASSUME NEW n \in Nat
    PROVE  /\ Digits[n] \in Texts /\ Len(Digits[n]) \in Nat \ {0}
           /\ Digits[n][1] = Zero => Len(Digits[n]) = 1
<1> DEFINE Fine(d, k) ==
        /\ d \in Texts /\ Len(d) \in Nat \ {0}
        /\ d[1] = Zero => k = 0
           S == {k \in Nat : Fine(Digits[k], k)}
<1>1. ASSUME NEW k \in Nat, \A h \in 0..(k - 1) : h \in S PROVE k \in S
  <2>1. CASE k <= 9
    <3>1. Digits[k] = <<Zero + k>> /\ Zero + k \in Digit
      BY <2>1, OneDigit, LastDigit
    <3>2. Zero + k = Zero => k = 0
      BY DEF Zero
    <3>3. PICK c : c = Zero + k
      OBVIOUS
    <3>4. <<c>> \in Seq(Digit) /\ Len(<<c>>) = 1 /\ <<c>>[1] = c
      BY <3>1, <3>3
    <3>5. Fine(<<c>>, k)
      BY <3>2, <3>3, <3>4 DEF Texts
    <3> QED
      BY <3>1, <3>3, <3>5
  <2>2. CASE k > 9
    <3>1. PICK h \in Nat : h = k \div 10 /\ h < k /\ h >= 1
      BY <2>2, LastDigit
    <3>2. h \in 0..(k - 1)
      BY <3>1
    <3>3. PICK d : d = Digits[h]
      OBVIOUS
    <3>4. d \in Seq(Digit) /\ Len(d) \in Nat \ {0} /\ d[1] # Zero
      BY <1>1, <3>1, <3>2, <3>3 DEF Texts
    <3>5. PICK c \in Digit : c = Zero + (k % 10)
      BY LastDigit
    <3>6. Digits[k] = Append(d, c)
      BY <2>2, <3>1, <3>3, <3>5, MoreDigits
    <3>7. Append(d, c) \in Seq(Digit) /\ Len(Append(d, c)) = Len(d) + 1 /\ Append(d, c)[1] = d[1]
      BY <3>4
    <3>8. Append(d, c)[1] # Zero
      BY <3>4, <3>7
    <3>9. Fine(Append(d, c), k)
      BY <3>4, <3>7, <3>8 DEF Texts
    <3> QED
      BY <3>6, <3>9
  <2> QED
    BY <2>1, <2>2
<1>2. \A k \in Nat : (\A h \in 0..(k - 1) : h \in S) => k \in S
  BY <1>1
<1> HIDE DEF S
<1>3. n \in S
  BY <1>2, StrongInduction
<1>4. Fine(Digits[n], n)
  BY <1>3 DEF S
<1>5. n = 0 => Len(Digits[n]) = 1
  <2> SUFFICES ASSUME n = 0 PROVE Len(Digits[0]) = 1
    OBVIOUS
  <2>1. Digits[0] = <<Zero + 0>>
    BY OneDigit
  <2> QED
    BY <2>1
<1> QED
  BY <1>4, <1>5

\* A larger number has no fewer digits.
LEMMA DigitsGrow ==
    ASSUME NEW m \in Nat, NEW n \in Nat, m <= n
    PROVE  Len(Digits[m]) <= Len(Digits[n])
<1> DEFINE S == {k \in Nat : \A h \in 0..k : Len(Digits[h]) <= Len(Digits[k])}
<1>1. ASSUME NEW k \in Nat, \A l \in 0..(k - 1) : l \in S PROVE k \in S
  <2> SUFFICES ASSUME NEW h \in 0..k PROVE Len(Digits[h]) <= Len(Digits[k])
    OBVIOUS
  <2>1. h \in Nat /\ h <= k
    OBVIOUS
  <2>2. CASE h <= 9
    <3>1. Digits[h] = <<Zero + h>>
      BY <2>1, <2>2, OneDigit
    <3>2. Len(Digits[h]) = 1
      BY <3>1
    <3> QED
      BY <3>2, DigitsType
  <2>3. CASE h > 9
    <3>1. PICK a \in Nat : a = h \div 10
      BY <2>1, LastDigit
    <3>2. PICK b \in Nat : b = k \div 10 /\ b < k
      BY <2>3, LastDigit
    <3>3. a \in 0..b
      BY <2>1, <3>1, <3>2
    <3>4. b \in 0..(k - 1)
      BY <3>2
    <3>5. Len(Digits[a]) <= Len(Digits[b])
      BY <1>1, <3>3, <3>4
    <3>6. PICK e \in Digit : e = Zero + (h % 10)
      BY <2>1, LastDigit
    <3>9. PICK f \in Digit : f = Zero + (k % 10)
      BY LastDigit
    <3>11. Digits[h] = Append(Digits[a], e) /\ Digits[k] = Append(Digits[b], f)
      <4>1. k > 9
        BY <2>1, <2>3
      <4>2. Digits[h] = Append(Digits[a], e)
        BY <2>1, <2>3, <3>1, <3>6, MoreDigits
      <4>3. Digits[k] = Append(Digits[b], f)
        <5>1. b = k \div 10
          BY <3>2
        <5>2. f = Zero + (k % 10)
          BY <3>9
        <5> QED
          BY <4>1, <5>1, <5>2, MoreDigits
      <4> QED
        BY <4>2, <4>3
    <3>7. PICK x \in Seq(Digit) : x = Digits[a]
      BY DigitsType DEF Texts
    <3>8. PICK y \in Seq(Digit) : y = Digits[b]
      BY DigitsType DEF Texts
    <3>10. Len(Digits[h]) = Len(x) + 1 /\ Len(Digits[k]) = Len(y) + 1
      <4>1. Len(Append(x, e)) = Len(x) + 1 /\ Len(Append(y, f)) = Len(y) + 1
        OBVIOUS
      <4> QED
        BY <3>7, <3>8, <3>11, <4>1
    <3> QED
      BY <3>5, <3>7, <3>8, <3>10
  <2> QED
    BY <2>1, <2>2, <2>3
<1>2. \A k \in Nat : (\A l \in 0..(k - 1) : l \in S) => k \in S
  BY <1>1
<1> HIDE DEF S
<1>3. n \in S
  BY <1>2, StrongInduction
<1> QED
  BY <1>3 DEF S

-----------------------------------------------------------------------------
(* The number in a text. *)

\* The numbers its beginnings are read as.
AreValues(v, text) ==
    /\ v \in [0..Len(text) -> Nat] /\ v[0] = 0
    /\ \A k \in 1..Len(text) :
          v[k] = IF IsDigit(text[k]) THEN 10 * v[k - 1] + (text[k] - Zero) ELSE v[k - 1]

\* NumberIn is the last of the values a text is read with.
LEMMA ValuesAre ==
    ASSUME NEW text \in Seq(Int)
    PROVE  \E v : AreValues(v, text) /\ NumberIn(text) = v[Len(text)]
<1>1. PICK n \in Nat : n = Len(text) /\ \A k \in 1..n : text[k] \in Int
  OBVIOUS
<1> DEFINE After(x) == IF IsDigit(text[x[2]]) THEN 10 * x[1] + (text[x[2]] - Zero) ELSE x[1]
           G == [x \in Nat \X (1..n) |-> After(x)]
<1>2. ASSUME NEW x \in Nat, NEW k \in 1..n
      PROVE  /\ After(<<x, k>>) \in Nat
             /\ G[<<x, k>>] = IF IsDigit(text[k]) THEN 10 * x + (text[k] - Zero) ELSE x
  <2>1. G[<<x, k>>] = After(<<x, k>>)
    OBVIOUS
  <2>2. After(<<x, k>>) = IF IsDigit(text[k]) THEN 10 * x + (text[k] - Zero) ELSE x
    OBVIOUS
  <2>3. IsDigit(text[k]) => text[k] - Zero \in Nat
    BY <1>1 DEF IsDigit, Zero
  <2> HIDE DEF After, G
  <2>4. (IF IsDigit(text[k]) THEN 10 * x + (text[k] - Zero) ELSE x) \in Nat
    BY <2>3
  <2> QED
    BY <2>1, <2>2, <2>4
<1>3. G \in [Nat \X (1..n) -> Nat]
  <2>1. \A x \in Nat \X (1..n) : After(x) \in Nat
    <3> SUFFICES ASSUME NEW x \in Nat \X (1..n) PROVE After(x) \in Nat
      OBVIOUS
    <3>1. x[1] \in Nat /\ x[2] \in 1..n /\ x = <<x[1], x[2]>>
      OBVIOUS
    <3> HIDE DEF After
    <3> QED
      BY <1>2, <3>1
  <2> HIDE DEF After
  <2> QED
    BY <2>1
<1> HIDE DEF G, After
<1>4. PICK g \in [0..n -> Nat] : IsIterated(g, n, 0, G)
  BY <1>3, Iterates
<1> DEFINE Step(f) ==
        [k \in 0..n |-> IF k = 0 THEN 0
                        ELSE IF IsDigit(text[k]) THEN 10 * f[k - 1] + (text[k] - Zero) ELSE f[k - 1]]
           F == CHOOSE f : f = Step(f)
<1>5. ASSUME NEW k \in 0..n
      PROVE  g[k] = IF k = 0 THEN 0
                    ELSE IF IsDigit(text[k]) THEN 10 * g[k - 1] + (text[k] - Zero) ELSE g[k - 1]
  <2>1. g[k] = IF k = 0 THEN 0 ELSE G[<<g[k - 1], k>>]
    BY <1>4 DEF IsIterated
  <2>2. k # 0 => k \in 1..n /\ g[k - 1] \in Nat
    OBVIOUS
  <2> QED
    BY <1>2, <2>1, <2>2
<1>6. g = Step(g)
  BY <1>4, <1>5
<1>7. F = Step(F)
  BY <1>6
<1>8. NumberIn(text) = F[n]
  BY <1>1 DEF NumberIn
<1> HIDE DEF F
<1>9. \A k \in 0..n : F[k] = IF k = 0 THEN 0
                             ELSE IF IsDigit(text[k]) THEN 10 * F[k - 1] + (text[k] - Zero)
                             ELSE F[k - 1]
  BY <1>7
<1>10. F[0] = 0 /\ \A k \in 1..n :
          F[k] = IF IsDigit(text[k]) THEN 10 * F[k - 1] + (text[k] - Zero) ELSE F[k - 1]
  BY <1>9
<1>11. F \in [0..n -> Nat]
  <2>1. F = [k \in 0..n |-> F[k]]
    BY <1>7
  <2> DEFINE S == {k \in Nat : k <= n => F[k] \in Nat}
  <2>2. 0 \in S
    BY <1>10
  <2>3. ASSUME NEW k \in Nat, k \in S PROVE k + 1 \in S
    <3> SUFFICES ASSUME k + 1 <= n PROVE F[k + 1] \in Nat
      OBVIOUS
    <3>1. k + 1 \in 1..n /\ k + 1 - 1 = k /\ F[k] \in Nat
      BY <2>3
    <3>2. F[k + 1] = IF IsDigit(text[k + 1]) THEN 10 * F[k] + (text[k + 1] - Zero) ELSE F[k]
      BY <1>10, <3>1
    <3>3. G[<<F[k], k + 1>>] \in Nat
      BY <1>3, <3>1
    <3> QED
      BY <1>2, <3>1, <3>2, <3>3
  <2> HIDE DEF S
  <2>4. Nat \subseteq S
    BY <2>2, <2>3, SetInduction
  <2>5. \A k \in 0..n : F[k] \in Nat
    BY <2>4 DEF S
  <2> QED
    BY <2>1, <2>5
<1> QED
  BY <1>1, <1>8, <1>10, <1>11 DEF AreValues

\* A text is made of numbers.
LEMMA TextIsNumbers ==
    ASSUME NEW d \in Texts
    PROVE  d \in Seq(Int)
<1>1. \A c \in Digit : c \in Int
  BY DEF Digit, Zero
<1> QED
  BY <1>1 DEF Texts

\* Where two texts go on alike after the same number, they come to the same number.
GoOn(s, v, a, t, w, b, m) ==
    /\ s \in Seq(Int) /\ t \in Seq(Int) /\ AreValues(v, s) /\ AreValues(w, t)
    /\ a \in Nat /\ b \in Nat /\ m \in Nat /\ a + m <= Len(s) /\ b + m <= Len(t)
    /\ \A k \in 1..m : s[a + k] = t[b + k]
    /\ v[a] = w[b]

\* Texts that are the same from somewhere on are read the same from there on.
LEMMA ValuesGoOn ==
    ASSUME NEW s, NEW t, NEW v, NEW w, NEW a, NEW b, NEW m, GoOn(s, v, a, t, w, b, m)
    PROVE  v[a + m] = w[b + m]
<1>0. /\ s \in Seq(Int) /\ t \in Seq(Int) /\ AreValues(v, s) /\ AreValues(w, t)
      /\ a \in Nat /\ b \in Nat /\ m \in Nat /\ a + m <= Len(s) /\ b + m <= Len(t)
      /\ \A k \in 1..m : s[a + k] = t[b + k]
      /\ v[a] = w[b]
  BY DEF GoOn
<1> DEFINE S == {k \in Nat : k <= m => v[a + k] = w[b + k]}
<1>1. 0 \in S
  BY <1>0
<1>2. ASSUME NEW k \in Nat, k \in S PROVE k + 1 \in S
  <2> SUFFICES ASSUME k + 1 <= m PROVE v[a + (k + 1)] = w[b + (k + 1)]
    OBVIOUS
  <2>1. v[a + k] = w[b + k]
    BY <1>0, <1>2
  <2>2. PICK x \in 1..Len(s) : x = a + (k + 1) /\ x - 1 = a + k
    BY <1>0
  <2>3. PICK y \in 1..Len(t) : y = b + (k + 1) /\ y - 1 = b + k
    BY <1>0
  <2>4. s[x] = t[y]
    <3>1. k + 1 \in 1..m
      BY <1>0
    <3> QED
      BY <1>0, <2>2, <2>3, <3>1
  <2>5. v[x] = IF IsDigit(s[x]) THEN 10 * v[x - 1] + (s[x] - Zero) ELSE v[x - 1]
    BY <1>0 DEF AreValues
  <2>6. w[y] = IF IsDigit(t[y]) THEN 10 * w[y - 1] + (t[y] - Zero) ELSE w[y - 1]
    BY <1>0 DEF AreValues
  <2>7. v[x - 1] = w[y - 1]
    BY <2>1, <2>2, <2>3
  <2>8. v[x] = w[y]
    BY <2>4, <2>5, <2>6, <2>7
  <2> QED
    BY <2>2, <2>3, <2>8
<1> HIDE DEF S
<1>3. Nat \subseteq S
  BY <1>1, <1>2, SetInduction
<1>4. m \in S
  BY <1>0, <1>3
<1> QED
  BY <1>4 DEF S

\* One more digit.
LEMMA NumberGrows ==
    ASSUME NEW d \in Seq(Int), NEW c \in Digit
    PROVE  NumberIn(Append(d, c)) = 10 * NumberIn(d) + (c - Zero)
<1>1. PICK n \in Nat : n = Len(d)
  OBVIOUS
<1>0. c \in Int
  BY DEF Digit, Zero
<1>2. PICK t \in Seq(Int) : t = Append(d, c)
  <2>1. Append(d, c) \in Seq(Int)
    BY <1>0
  <2> QED
    BY <2>1
<1>3. Len(t) = n + 1 /\ t[n + 1] = c /\ \A k \in 1..n : t[k] = d[k]
  BY <1>1, <1>2
<1>4. PICK v : AreValues(v, d) /\ NumberIn(d) = v[n]
  BY <1>1, ValuesAre
<1>5. PICK w : AreValues(w, t) /\ NumberIn(t) = w[n + 1]
  BY <1>3, ValuesAre
<1>6. v[0] = w[0]
  BY <1>4, <1>5 DEF AreValues
<1>7. v[0 + n] = w[0 + n]
  <2>1. GoOn(d, v, 0, t, w, 0, n)
    BY <1>1, <1>3, <1>4, <1>5, <1>6 DEF GoOn
  <2> QED
    BY <2>1, ValuesGoOn
<1>8. v[n] = w[n]
  BY <1>7
<1>9. w[n + 1] = 10 * w[n] + (c - Zero)
  <2>1. n + 1 \in 1..Len(t) /\ n + 1 - 1 = n
    BY <1>3
  <2>2. IsDigit(t[n + 1])
    BY <1>3 DEF IsDigit, Digit
  <2> QED
    BY <1>3, <1>5, <2>1, <2>2 DEF AreValues
<1> QED
  BY <1>2, <1>4, <1>5, <1>8, <1>9

\* The digits of a number are read as the number.
LEMMA DigitsRead ==
    ASSUME NEW n \in Nat
    PROVE  NumberIn(Digits[n]) = n
<1> DEFINE S == {k \in Nat : NumberIn(Digits[k]) = k}
<1>1. ASSUME NEW k \in Nat, \A h \in 0..(k - 1) : h \in S PROVE k \in S
  <2>1. CASE k <= 9
    <3>1. PICK c \in Digit : c = Zero + k
      BY <2>1, LastDigit
    <3>2. Digits[k] = <<c>>
      BY <2>1, <3>1, OneDigit
    <3>8. c \in Int
      BY DEF Digit, Zero
    <3>3. Len(<<c>>) = 1 /\ <<c>>[1] = c /\ <<c>> \in Seq(Int)
      BY <3>8
    <3>4. PICK v : AreValues(v, <<c>>) /\ NumberIn(<<c>>) = v[1]
      BY <3>3, ValuesAre
    <3>5. IsDigit(c)
      BY DEF IsDigit, Digit
    <3>6. v[1] = 10 * v[1 - 1] + (c - Zero) /\ v[0] = 0
      BY <3>3, <3>4, <3>5 DEF AreValues
    <3>7. v[1] = k
      BY <3>1, <3>6 DEF Zero
    <3> QED
      BY <3>2, <3>4, <3>7
  <2>2. CASE k > 9
    <3>1. PICK h \in Nat : h = k \div 10 /\ h < k /\ k = 10 * h + (k % 10)
      BY <2>2, LastDigit
    <3>2. PICK d : d = Digits[h]
      OBVIOUS
    <3>3. NumberIn(d) = h
      BY <1>1, <3>1, <3>2
    <3>4. PICK c \in Digit : c = Zero + (k % 10) /\ c - Zero = k % 10
      BY LastDigit DEF Zero
    <3>5. Digits[k] = Append(d, c)
      BY <2>2, <3>1, <3>2, <3>4, MoreDigits
    <3>6. d \in Seq(Int)
      BY <3>2, DigitsType DEF Texts, Digit, Zero
    <3>7. NumberIn(Append(d, c)) = 10 * h + (k % 10)
      BY <3>3, <3>4, <3>6, NumberGrows
    <3> QED
      BY <3>1, <3>5, <3>7
  <2> QED
    BY <2>1, <2>2
<1>2. \A k \in Nat : (\A h \in 0..(k - 1) : h \in S) => k \in S
  BY <1>1
<1> HIDE DEF S
<1>3. n \in S
  BY <1>2, StrongInduction
<1> QED
  BY <1>3 DEF S

\* The digits of a number are written as people write it.
LEMMA DigitsAreNumber ==
    ASSUME NEW n \in Nat
    PROVE  IsNumber(Digits[n], n)
<1>1. \A k \in 1..Len(Digits[n]) : IsDigit(Digits[n][k])
  <2>1. PICK d \in Seq(Digit) : d = Digits[n]
    BY DigitsType DEF Texts
  <2>2. \A k \in 1..Len(d) : d[k] \in Digit
    OBVIOUS
  <2> QED
    BY <2>1, <2>2 DEF IsDigit, Digit
<1> QED
  BY <1>1, DigitsType, DigitsRead DEF IsNumber

-----------------------------------------------------------------------------
(* A text with a point. *)

\* The text is whole, a point and frac.
IsPointed(text, whole, frac) ==
    /\ text \in Seq(Int) /\ Len(text) = Len(whole) + 1 + Len(frac)
    /\ \A k \in 1..Len(whole) : text[k] = whole[k]
    /\ text[Len(whole) + 1] = Point
    /\ \A k \in 1..Len(frac) : text[Len(whole) + 1 + k] = frac[k]

\* One text behind another.
Behind(u, s, t) == s \in Seq(Int) /\ t \in Seq(Int) /\ u = s \o t

\* What there is to know of a text behind another.
LEMMA BehindIs ==
    ASSUME NEW u, NEW s, NEW t, Behind(u, s, t)
    PROVE  /\ u \in Seq(Int) /\ Len(s) \in Nat /\ Len(t) \in Nat /\ Len(u) = Len(s) + Len(t)
           /\ \A k \in 1..Len(s) : u[k] = s[k]
           /\ \A k \in 1..Len(t) : u[Len(s) + k] = t[k]
           /\ s \in Texts /\ t \in Texts => u \in Texts
<1>0. s \in Seq(Int) /\ t \in Seq(Int) /\ u = s \o t
  BY DEF Behind
<1>1. u \in Seq(Int) /\ Len(s) \in Nat /\ Len(t) \in Nat /\ Len(u) = Len(s) + Len(t)
  BY <1>0
<1>2. \A k \in 1..Len(s) : u[k] = s[k]
  BY <1>0
<1>3. ASSUME NEW k \in 1..Len(t) PROVE u[Len(s) + k] = t[k]
  <2>1. /\ Len(s) + k \in 1..(Len(s) + Len(t)) /\ ~(Len(s) + k <= Len(s))
        /\ Len(s) + k - Len(s) = k
    BY <1>1
  <2> QED
    BY <1>0, <2>1
<1>4. s \in Texts /\ t \in Texts => u \in Texts
  BY <1>0 DEF Texts
<1> QED
  BY <1>1, <1>2, <1>3, <1>4

\* It is read as the digits without the point are.
LEMMA PointedReads ==
    ASSUME NEW whole \in Texts, NEW frac \in Texts, NEW digits \in Texts,
           Behind(digits, whole, frac), NEW text, IsPointed(text, whole, frac)
    PROVE  NumberIn(text) = NumberIn(digits)
<1>1. PICK a \in Nat : a = Len(whole)
  BY DEF Texts
<1>2. PICK b \in Nat : b = Len(frac)
  BY DEF Texts
<1>3. Len(digits) = a + b
  BY <1>1, <1>2, BehindIs
<1>4. \A k \in 1..a : digits[k] = whole[k]
  BY <1>1, <1>2, BehindIs
<1>5. \A k \in 1..b : digits[a + k] = frac[k]
  BY <1>1, <1>2, BehindIs
<1>6. /\ text \in Seq(Int) /\ Len(text) = a + 1 + b
      /\ \A k \in 1..a : text[k] = whole[k]
      /\ text[a + 1] = Point
      /\ \A k \in 1..b : text[a + 1 + k] = frac[k]
  BY <1>1, <1>2 DEF IsPointed
<1>7. PICK v : AreValues(v, text) /\ NumberIn(text) = v[a + 1 + b]
  BY <1>6, ValuesAre
<1>8. digits \in Seq(Int)
  BY TextIsNumbers
<1>9. PICK w : AreValues(w, digits) /\ NumberIn(digits) = w[a + b]
  BY <1>3, <1>8, ValuesAre
<1>10. v[0] = w[0]
  BY <1>7, <1>9 DEF AreValues
<1>11. v[0 + a] = w[0 + a]
  <2>1. GoOn(text, v, 0, digits, w, 0, a)
    BY <1>3, <1>4, <1>6, <1>7, <1>8, <1>9, <1>10 DEF GoOn
  <2> QED
    BY <2>1, ValuesGoOn
<1>12. v[a + 1] = v[a]
  <2>1. a + 1 \in 1..Len(text) /\ a + 1 - 1 = a
    BY <1>6
  <2>2. ~IsDigit(text[a + 1])
    BY <1>6 DEF IsDigit, Point, Zero
  <2> QED
    BY <1>7, <2>1, <2>2 DEF AreValues
<1>13. v[(a + 1) + b] = w[a + b]
  <2>1. v[a + 1] = w[a]
    BY <1>11, <1>12
  <2>3. \A k \in 1..b : text[(a + 1) + k] = digits[a + k]
    BY <1>5, <1>6
  <2>4. (a + 1) + b <= Len(text) /\ a + b <= Len(digits) /\ a + 1 \in Nat
    BY <1>3, <1>6
  <2>2. GoOn(text, v, a + 1, digits, w, a, b)
    BY <1>6, <1>7, <1>8, <1>9, <2>1, <2>3, <2>4 DEF GoOn
  <2> QED
    BY <2>2, ValuesGoOn
<1> QED
  BY <1>7, <1>9, <1>13

\* Zeros before a number are not read.
LEMMA ZerosRead ==
    ASSUME NEW d \in Texts, NEW z \in Nat, NEW s \in Texts, Len(s) = z + Len(d),
           \A k \in 1..z : s[k] = Zero, \A k \in 1..Len(d) : s[z + k] = d[k]
    PROVE  NumberIn(s) = NumberIn(d)
<1>1. PICK n \in Nat : n = Len(d)
  BY DEF Texts
<1>2. d \in Seq(Int) /\ s \in Seq(Int)
  BY TextIsNumbers
<1>3. PICK v : AreValues(v, s) /\ NumberIn(s) = v[z + n]
  BY <1>1, <1>2, ValuesAre
<1>4. PICK w : AreValues(w, d) /\ NumberIn(d) = w[n]
  BY <1>1, <1>2, ValuesAre
<1> DEFINE S == {k \in Nat : k <= z => v[k] = 0}
<1>5. 0 \in S
  BY <1>3 DEF AreValues
<1>6. ASSUME NEW k \in Nat, k \in S PROVE k + 1 \in S
  <2> SUFFICES ASSUME k + 1 <= z PROVE v[k + 1] = 0
    OBVIOUS
  <2>1. v[k] = 0 /\ k + 1 \in 1..Len(s) /\ k + 1 - 1 = k /\ s[k + 1] = Zero
    BY <1>1, <1>6
  <2>2. IsDigit(s[k + 1]) /\ s[k + 1] - Zero = 0
    BY <2>1 DEF IsDigit, Zero
  <2>3. v[k + 1] = 10 * v[k] + (s[k + 1] - Zero)
    BY <1>3, <2>1, <2>2 DEF AreValues
  <2> QED
    BY <2>1, <2>2, <2>3
<1> HIDE DEF S
<1>7. z \in S
  BY <1>5, <1>6, SetInduction
<1>8. v[z] = w[0]
  BY <1>4, <1>7 DEF S, AreValues
<1>9. v[z + n] = w[0 + n]
  <2>1. GoOn(s, v, z, d, w, 0, n)
    BY <1>1, <1>2, <1>3, <1>4, <1>8 DEF GoOn
  <2> QED
    BY <2>1, ValuesGoOn
<1> QED
  BY <1>3, <1>4, <1>9

\* What a text with a point is read as.
LEMMA PointedReadsAs ==
    ASSUME NEW whole \in Texts, NEW frac \in Texts, NEW text, IsPointed(text, whole, frac),
           Len(whole) >= 1, whole[1] = Zero => Len(whole) = 1,
           NEW n, NumberIn(text) = n, NEW decimals, decimals = Len(frac)
    PROVE  ReadsAs(text, n, decimals)
<1>1. PICK a \in Nat : a = Len(whole) /\ a >= 1
  BY DEF Texts
<1>2. PICK b \in Nat : b = Len(frac)
  BY DEF Texts
<1>3. /\ Len(text) = a + 1 + b
      /\ \A k \in 1..a : text[k] = whole[k] /\ whole[k] \in Digit
      /\ text[a + 1] = Point
      /\ \A k \in 1..b : text[a + 1 + k] = frac[k] /\ frac[k] \in Digit
  BY <1>1, <1>2 DEF IsPointed, Texts
<1>4. ASSUME NEW k \in 1..Len(text), k # a + 1 PROVE text[k] \in Digit
  <2>1. CASE k <= a
    BY <1>3, <2>1
  <2>2. CASE k > a
    <3>1. k - (a + 1) \in 1..b /\ a + 1 + (k - (a + 1)) = k
      BY <1>3, <1>4, <2>2
    <3> QED
      BY <1>3, <3>1
  <2> QED
    BY <2>1, <2>2
<1>5. \A c \in Digit : IsDigit(c) /\ c # Point
  BY DEF IsDigit, Digit, Point, Zero
<1> DEFINE points == {k \in 1..Len(text) : text[k] = Point}
           point == CHOOSE k \in points : TRUE
<1>6. points = {a + 1}
  <2>1. a + 1 \in 1..Len(text)
    BY <1>3
  <2> QED
    BY <1>3, <1>4, <1>5, <2>1
<1>7. Cardinality(points) = 1
  BY <1>6, FS_Singleton
<1>8. point = a + 1
  BY <1>6
<1>9. /\ Len(text) - (a + 1) = decimals
      /\ \A k \in 1..Len(text) : k = a + 1 \/ IsDigit(text[k])
      /\ text[1] = Zero => a + 1 = 2
  BY <1>1, <1>2, <1>3, <1>4, <1>5
<1> QED
  BY <1>7, <1>8, <1>9, Zenon DEF ReadsAs

-----------------------------------------------------------------------------
(* format_fpu64. *)

\* The sizes of the numbers and of the arrays.
LEMMA Sizes ==
    /\ UINT64 \in Nat /\ UINT64 >= 1 /\ DIGITS64 \in Nat /\ DECIMALS \in Nat
    /\ 4 <= DECIMALS /\ DECIMALS < DIGITS64 /\ DIGITS64 <= 20
    /\ UINT32 \in Nat /\ UINT32 >= 1 /\ DIGITS32 \in Nat \ {0}
    /\ Len(Digits[UINT64 - 1]) = DIGITS64 /\ Len(Digits[UINT32 - 1]) = DIGITS32
    /\ TEXT_LEN = DIGITS64 + DECIMALS + 2 /\ BUFFER_LEN = DIGITS64 + 1
    /\ NUMBER_LEN = DIGITS32 + 1 /\ TITLE_LEN = 64
<1>1. UINT64 - 1 \in Nat /\ UINT32 - 1 \in Nat
  BY SizesAssumption
<1>2. Len(Digits[UINT64 - 1]) = DIGITS64 /\ Len(Digits[UINT32 - 1]) = DIGITS32
  BY SizesAssumption DEF DigitsOf, Decimal
<1>3. DIGITS64 \in Nat \ {0} /\ DIGITS32 \in Nat \ {0}
  BY <1>1, <1>2, DigitsType
<1>4. /\ UINT64 \in Nat /\ UINT64 >= 1 /\ UINT32 \in Nat /\ UINT32 >= 1
      /\ DIGITS64 <= 20 /\ DECIMALS \in 4..(DIGITS64 - 1)
  BY SizesAssumption
<1>5. DECIMALS \in Nat /\ 4 <= DECIMALS /\ DECIMALS < DIGITS64
  BY <1>3, <1>4
<1>6. TEXT_LEN = DIGITS64 + DECIMALS + 2 /\ BUFFER_LEN = DIGITS64 + 1
  BY DEF TEXT_LEN, BUFFER_LEN
<1>7. NUMBER_LEN = DIGITS32 + 1 /\ TITLE_LEN = 64
  BY DEF NUMBER_LEN, TITLE_LEN
<1> QED
  BY <1>2, <1>3, <1>4, <1>5, <1>6, <1>7

\* A number of the type has no more digits than there is room for.
LEMMA LongDigits ==
    ASSUME NEW n \in Nat, n < UINT64
    PROVE  /\ Digits[n] \in Texts /\ Len(Digits[n]) \in Nat
           /\ 1 <= Len(Digits[n]) /\ Len(Digits[n]) <= DIGITS64
<1>1. UINT64 - 1 \in Nat /\ n <= UINT64 - 1
  BY Sizes
<1> QED
  BY <1>1, Sizes, DigitsType, DigitsGrow

\* The digits of a uint32_t fit the array for them.
LEMMA ShortDigits ==
    ASSUME NEW n \in Nat, n < UINT32
    PROVE  /\ Digits[n] \in Texts /\ Len(Digits[n]) \in Nat
           /\ 1 <= Len(Digits[n]) /\ Len(Digits[n]) <= DIGITS32
<1>1. UINT32 - 1 \in Nat /\ n <= UINT32 - 1
  BY Sizes
<1> QED
  BY <1>1, Sizes, DigitsType, DigitsGrow

\* format_u64 has room for every uint64_t.
LEMMA FormatSucceeds ==
    ASSUME NEW n \in Nat, n < UINT64
    PROVE  format_u64(BUFFER_LEN, n) = Formatted(Digits[n])
<1>1. ~(Len(Digits[n]) + 1 > BUFFER_LEN)
  BY LongDigits, Sizes
<1> QED
  BY <1>1 DEF format_u64, DigitsOf, Decimal

AreJoined(text, whole, p, frac) == text = whole \o p \o frac

\* A text that is joined from a whole part, a point and a rest.
LEMMA PointedIs ==
    ASSUME NEW whole \in Texts, NEW frac \in Texts, NEW text,
           AreJoined(text, whole, <<Point>>, frac)
    PROVE  IsPointed(text, whole, frac)
<1>1. whole \in Seq(Int) /\ frac \in Seq(Int) /\ Len(whole) \in Nat /\ Len(frac) \in Nat
  BY TextIsNumbers DEF Texts
<1>2. PICK p : p = <<Point>>
  OBVIOUS
<1>3. p \in Seq(Int) /\ Len(p) = 1 /\ p[1] = Point
  <2>1. Point \in Int
    BY DEF Point
  <2> QED
    BY <1>2, <2>1
<1>4. PICK w : w = whole \o p
  OBVIOUS
<1>5. Behind(w, whole, p)
  BY <1>1, <1>3, <1>4 DEF Behind
<1>6. /\ w \in Seq(Int) /\ Len(w) = Len(whole) + 1
      /\ \A k \in 1..Len(whole) : w[k] = whole[k]
      /\ w[Len(whole) + 1] = Point
  <2>1. /\ w \in Seq(Int) /\ Len(w) = Len(whole) + Len(p)
        /\ \A k \in 1..Len(whole) : w[k] = whole[k]
        /\ \A k \in 1..Len(p) : w[Len(whole) + k] = p[k]
    BY <1>5, BehindIs
  <2>2. 1 \in 1..Len(p)
    BY <1>3
  <2> QED
    BY <1>3, <2>1, <2>2
<1>7. Behind(text, w, frac)
  <2>1. text = w \o frac
    BY <1>2, <1>4, Zenon DEF AreJoined
  <2> QED
    BY <1>1, <1>6, <2>1 DEF Behind
<1>8. /\ text \in Seq(Int) /\ Len(text) = Len(w) + Len(frac)
      /\ \A k \in 1..Len(w) : text[k] = w[k]
      /\ \A k \in 1..Len(frac) : text[Len(w) + k] = frac[k]
  BY <1>7, BehindIs
<1>9. ASSUME NEW k \in 1..Len(whole) PROVE text[k] = whole[k]
  <2>1. k \in 1..Len(w)
    BY <1>1, <1>6
  <2> QED
    BY <1>6, <1>8, <2>1
<1>10. text[Len(whole) + 1] = Point
  <2>1. Len(whole) + 1 \in 1..Len(w)
    BY <1>1, <1>6
  <2> QED
    BY <1>6, <1>8, <2>1
<1>11. \A k \in 1..Len(frac) : text[Len(whole) + 1 + k] = frac[k]
  BY <1>6, <1>8
<1> QED
  BY <1>6, <1>8, <1>9, <1>10, <1>11 DEF IsPointed

\* Texts are joined in any order.
LEMMA TextsJoin ==
    ASSUME NEW s \in Seq(Int), NEW t \in Seq(Int), NEW u \in Seq(Int)
    PROVE  (s \o t) \o u = s \o (t \o u) /\ s \o t \in Seq(Int)
OBVIOUS

\* Two characters, one behind the other.
LEMMA TwoOnes ==
    ASSUME NEW x, NEW y
    PROVE  <<x, y>> = <<x>> \o <<y>>
<1>1. PICK u : u = <<x, y>>
  OBVIOUS
<1>2. PICK v : v = <<x>>
  OBVIOUS
<1>3. PICK w : w = <<y>>
  OBVIOUS
<1>4. PICK X : X = {x, y}
  OBVIOUS
<1>5. /\ u \in Seq(X) /\ v \in Seq(X) /\ w \in Seq(X)
      /\ Len(u) = 1 + 1 /\ Len(v) = 1 /\ Len(w) = 1
      /\ u[1] = v[1] /\ u[1 + 1] = w[1]
  BY <1>1, <1>2, <1>3, <1>4
<1>6. (\A k \in 1..1 : u[k] = v[k]) /\ \A k \in 1..1 : u[1 + k] = w[k]
  BY <1>5
<1>7. IsConcat(u, v, w)
  BY <1>5, <1>6, Concat
<1> QED
  BY <1>1, <1>2, <1>3, <1>7, Zenon DEF IsConcat

\* A text that is written, reads as n and leaves room for the name of a token in an array
\* of that size.
Shows(f, n, decimals, size) ==
    \E text \in Seq(Int) :
        /\ f = Formatted(text) /\ ReadsAs(text, n, decimals)
        /\ Len(text) \in Nat /\ 1 <= Len(text) /\ 4 + Len(text) < size

\* Fewer digits than decimals.
LEMMA FractionShows ==
    ASSUME NEW n \in Nat, n < UINT64, Len(Digits[n]) <= DECIMALS
    PROVE  /\ Shows(Fraction(TEXT_LEN, Digits[n], DECIMALS), n, DECIMALS, TEXT_LEN)
           /\ Shows(Fraction(TEXT_LEN, Digits[n], DECIMALS), n, DECIMALS, TITLE_LEN)
<1>1. PICK d \in Texts : d = Digits[n]
  BY LongDigits
<1>2. PICK a \in Nat : a = Len(d) /\ 1 <= a /\ a <= DECIMALS
  BY <1>1, LongDigits
<1>3. PICK z \in Nat : z = DECIMALS - a
  BY <1>2, Sizes
<1>4. PICK r : r = Repeat(Zero, z)
  OBVIOUS
<1>5. r \in Texts /\ Len(r) = z /\ \A k \in 1..z : r[k] = Zero
  <2>1. Zero \in Digit
    BY DEF Zero, Digit
  <2> QED
    BY <1>4, <2>1 DEF Repeat, Texts
<1>6. PICK frac : frac = r \o d
  OBVIOUS
<1>7. /\ frac \in Texts /\ Len(frac) = z + a
      /\ \A k \in 1..z : frac[k] = r[k]
      /\ \A k \in 1..a : frac[z + k] = d[k]
  <2>1. Behind(frac, r, d)
    <3>1. r \in Seq(Int) /\ d \in Seq(Int)
      BY <1>5, TextIsNumbers
    <3> QED
      BY <1>6, <3>1 DEF Behind
  <2>2. /\ Len(frac) = Len(r) + Len(d) /\ (r \in Texts /\ d \in Texts => frac \in Texts)
        /\ \A k \in 1..Len(r) : frac[k] = r[k]
        /\ \A k \in 1..Len(d) : frac[Len(r) + k] = d[k]
    BY <2>1, BehindIs
  <2> QED
    BY <1>2, <1>5, <2>2
<1>8. PICK whole : whole = <<Zero>>
  OBVIOUS
<1>9. whole \in Texts /\ Len(whole) = 1 /\ whole[1] = Zero
  <2>1. Zero \in Digit
    BY DEF Zero, Digit
  <2> QED
    BY <1>8, <2>1 DEF Texts
<1>10. PICK text : text = whole \o <<Point>> \o frac
  OBVIOUS
<1>11. IsPointed(text, whole, frac)
  BY <1>7, <1>9, <1>10, PointedIs DEF AreJoined
<1>12. PICK s : s = whole \o frac
  OBVIOUS
<1>20. Behind(s, whole, frac)
  BY <1>7, <1>9, <1>12, TextIsNumbers DEF Behind
<1>13. /\ s \in Texts /\ Len(s) = 1 + (z + a)
       /\ \A k \in 1..1 : s[k] = whole[k]
       /\ \A k \in 1..(z + a) : s[1 + k] = frac[k]
  <2>1. /\ Len(s) = Len(whole) + Len(frac) /\ (whole \in Texts /\ frac \in Texts => s \in Texts)
        /\ \A k \in 1..Len(whole) : s[k] = whole[k]
        /\ \A k \in 1..Len(frac) : s[Len(whole) + k] = frac[k]
    BY <1>20, BehindIs
  <2>2. whole \in Texts /\ frac \in Texts /\ Len(whole) = 1 /\ Len(frac) = z + a
    BY <1>7, <1>9
  <2> QED
    BY <2>1, <2>2
<1>14. NumberIn(text) = NumberIn(s)
  <2>1. whole \in Texts /\ frac \in Texts /\ s \in Texts
    BY <1>7, <1>9, <1>13
  <2> QED
    BY <1>11, <1>20, <2>1, PointedReads
<1>15. NumberIn(s) = NumberIn(d)
  <2>1. PICK y \in Nat : y = z + 1
    OBVIOUS
  <2>2. \A k \in 1..y : s[k] = Zero
    <3> TAKE k \in 1..y
    <3>1. CASE k = 1
      BY <1>9, <1>13, <3>1
    <3>2. CASE k # 1
      <4>1. k - 1 \in 1..z /\ k - 1 \in 1..(z + a) /\ 1 + (k - 1) = k
        BY <2>1, <3>2
      <4>2. s[k] = frac[k - 1]
        BY <1>13, <4>1
      <4>3. frac[k - 1] = r[k - 1]
        BY <1>7, <4>1
      <4>4. r[k - 1] = Zero
        BY <1>5, <4>1
      <4> QED
        BY <4>2, <4>3, <4>4
    <3> QED
      BY <3>1, <3>2
  <2>3. \A k \in 1..a : s[y + k] = d[k]
    <3> TAKE k \in 1..a
    <3>1. z + k \in 1..(z + a) /\ 1 + (z + k) = y + k
      BY <2>1
    <3>2. frac[z + k] = d[k]
      BY <1>7
    <3>3. s[1 + (z + k)] = frac[z + k]
      BY <1>13, <3>1
    <3> QED
      BY <3>1, <3>2, <3>3
  <2>4. Len(s) = y + Len(d)
    BY <1>2, <1>13, <2>1
  <2>5. s \in Texts /\ d \in Texts /\ \A k \in 1..Len(d) : s[y + k] = d[k]
    BY <1>2, <1>13, <2>3
  <2> QED
    BY <2>2, <2>4, <2>5, ZerosRead
<1>16. NumberIn(text) = n
  BY <1>1, <1>14, <1>15, DigitsRead
<1>17. ReadsAs(text, n, DECIMALS)
  <2>1. Len(frac) = DECIMALS
    BY <1>3, <1>7, Sizes
  <2>2. Len(whole) >= 1 /\ (whole[1] = Zero => Len(whole) = 1)
    BY <1>9
  <2> QED
    BY <1>7, <1>9, <1>11, <1>16, <2>1, <2>2, PointedReadsAs
<1>18. text \in Seq(Int) /\ Len(text) = DECIMALS + 2
  BY <1>3, <1>7, <1>9, <1>11, Sizes DEF IsPointed
<1>19. Fraction(TEXT_LEN, d, DECIMALS) = Formatted(text)
  <2>1. PICK before : before = 2 + DECIMALS - a
    OBVIOUS
  <2>2. before \in Nat /\ ~(TEXT_LEN <= before) /\ ~(TEXT_LEN - before < a)
    BY <1>2, <2>1, Sizes
  <2>3. SubSeq(d, 1, a) = d
    BY <1>2 DEF Texts
  <2>4. Fraction(TEXT_LEN, d, DECIMALS) = Formatted(<<Zero, Point>> \o r \o SubSeq(d, 1, a))
    BY <1>2, <1>3, <1>4, <2>1, <2>2 DEF Fraction
  <2>5. <<Zero, Point>> \o r \o d = text
    <3>1. PICK p : p = <<Point>>
      OBVIOUS
    <3>2. Zero \in Int /\ Point \in Int
      BY DEF Zero, Point
    <3>3. p \in Seq(Int) /\ whole \in Seq(Int) /\ r \in Seq(Int) /\ d \in Seq(Int)
      BY <1>5, <1>9, <3>1, <3>2, TextIsNumbers
    <3>4. <<Zero, Point>> = whole \o p
      BY <1>8, <3>1, Zenon, TwoOnes
    <3>5. (whole \o p) \o r \o d = (whole \o p) \o (r \o d)
      <4>1. PICK q \in Seq(Int) : q = whole \o p
        BY <3>3, TextsJoin
      <4>2. (q \o r) \o d = q \o (r \o d)
        BY <3>3, TextsJoin
      <4> QED
        BY <4>1, <4>2, Zenon
    <3> QED
      BY <1>6, <1>10, <3>1, <3>4, <3>5
  <2> QED
    BY <2>3, <2>4, <2>5
<1>21. 4 + Len(text) < TEXT_LEN /\ 4 + Len(text) < TITLE_LEN /\ Len(text) \in Nat /\ 1 <= Len(text)
  BY <1>18, Sizes
<1> QED
  BY <1>1, <1>17, <1>18, <1>19, <1>21 DEF Shows

\* More digits than decimals, or no decimals.
LEMMA WholeShows ==
    ASSUME NEW n \in Nat, n < UINT64, NEW decimals \in {0, DECIMALS},
           Len(Digits[n]) > decimals
    PROVE  LET f == WholeAndFraction(TEXT_LEN, Digits[n], decimals)
           IN  /\ decimals = 0 => Shows(f, 10 * n, 1, TITLE_LEN)
               /\ decimals = DECIMALS => Shows(f, n, DECIMALS, TEXT_LEN) /\ Shows(f, n, DECIMALS, TITLE_LEN)
<1>1. PICK d \in Texts : d = Digits[n]
  BY LongDigits
<1>2. PICK a \in Nat : a = Len(d) /\ 1 <= a /\ a <= DIGITS64
  BY <1>1, LongDigits
<1>3. PICK h \in Nat : h = a - decimals /\ 1 <= h /\ h <= a
  <2>1. decimals \in Nat /\ decimals < a
    BY <1>1, <1>2, Sizes
  <2> QED
    BY <2>1
<1>4. PICK whole : whole = SubSeq(d, 1, h)
  OBVIOUS
<1>5. whole \in Texts /\ Len(whole) = h /\ \A k \in 1..h : whole[k] = d[k]
  <2>1. 0 \in Nat /\ h <= Len(d) /\ 0 <= h
    BY <1>2, <1>3
  <2>2. /\ SubSeq(d, 0 + 1, h) \in Seq(Digit) /\ Len(SubSeq(d, 0 + 1, h)) = h - 0
        /\ \A k \in 1..(h - 0) : SubSeq(d, 0 + 1, h)[k] = d[0 + k]
    BY <2>1, Part DEF Texts
  <2> QED
    BY <1>4, <2>2 DEF Texts
<1>6. PICK frac : frac = IF decimals = 0 THEN <<Zero>> ELSE SubSeq(d, h + 1, a)
  OBVIOUS
<1>7. /\ frac \in Texts
      /\ Len(frac) = IF decimals = 0 THEN 1 ELSE decimals
  <2>1. CASE decimals = 0
    <3>1. Zero \in Digit
      BY DEF Zero, Digit
    <3> QED
      BY <1>6, <2>1, <3>1 DEF Texts
  <2>2. CASE decimals # 0
    <3>1. h <= a /\ a <= Len(d) /\ a - h = decimals
      BY <1>2, <1>3, Sizes
    <3>2. SubSeq(d, h + 1, a) \in Seq(Digit) /\ Len(SubSeq(d, h + 1, a)) = a - h
      BY <3>1, Part DEF Texts
    <3> QED
      BY <1>6, <2>2, <3>1, <3>2 DEF Texts
  <2> QED
    BY <2>1, <2>2
<1>8. PICK text : text = whole \o <<Point>> \o frac
  OBVIOUS
<1>9. IsPointed(text, whole, frac)
  BY <1>5, <1>7, <1>8, PointedIs DEF AreJoined
<1>10. WholeAndFraction(TEXT_LEN, d, decimals) = Formatted(text)
  <2>1. Room(TEXT_LEN, Len(d), decimals)
    BY <1>2, Sizes DEF Room
  <2>2. h = Len(d) - decimals /\ a = Len(d)
    BY <1>2, <1>3
  <2> QED
    BY <1>4, <1>6, <1>8, <2>1, <2>2 DEF WholeAndFraction
<1>11. text \in Seq(Int) /\ Len(text) = h + 1 + (IF decimals = 0 THEN 1 ELSE decimals)
  BY <1>5, <1>7, <1>9 DEF IsPointed
<1>12. Len(text) \in Nat /\ 1 <= Len(text) /\ 4 + Len(text) < TITLE_LEN
  <2>1. PICK l \in Nat : l = IF decimals = 0 THEN 1 ELSE decimals
    BY Sizes
  <2>2. l <= 20 /\ h \in Nat /\ h <= 20
    BY <1>2, <1>3, <2>1, Sizes
  <2>3. Len(text) = h + 1 + l
    BY <1>11, <2>1, Zenon
  <2>4. TITLE_LEN = 64
    BY Sizes
  <2> QED
    BY <2>2, <2>3, <2>4
<1>13. decimals = DECIMALS => 4 + Len(text) < TEXT_LEN
  BY <1>2, <1>3, <1>11, Sizes
<1>14. Len(whole) >= 1 /\ (whole[1] = Zero => Len(whole) = 1)
  <2>1. d[1] = Zero => a = 1
    BY <1>1, <1>2, DigitsType
  <2> QED
    BY <1>3, <1>5, <2>1
<1>15. CASE decimals = 0
  <2>1. h = a
    BY <1>3, <1>15
  <2>2. whole = d
    BY <1>2, <1>4, <2>1 DEF Texts
  <2>3. PICK s : s = Append(d, Zero)
    OBVIOUS
  <2>4. Zero \in Digit
    BY DEF Digit, Zero
  <2>5. Behind(s, whole, frac) /\ s \in Texts
    <3>1. frac = <<Zero>> /\ whole \in Seq(Int) /\ frac \in Seq(Int)
      BY <1>5, <1>6, <1>7, <1>15, TextIsNumbers
    <3>2. Append(d, Zero) = d \o <<Zero>> /\ s \in Texts
      BY <2>3, <2>4 DEF Texts
    <3>3. s = whole \o frac
      BY <2>2, <2>3, <3>1, <3>2, Zenon
    <3> QED
      BY <3>1, <3>2, <3>3 DEF Behind
  <2>6. NumberIn(s) = 10 * NumberIn(d) + (Zero - Zero)
    BY <2>3, <2>4, TextIsNumbers, NumberGrows
  <2>7. NumberIn(text) = 10 * n
    <3>1. NumberIn(text) = NumberIn(s)
      <4>1. whole \in Texts /\ frac \in Texts
        BY <1>5, <1>7
      <4> QED
        BY <1>9, <2>5, <4>1, PointedReads
    <3>2. Zero - Zero = 0
      BY DEF Zero
    <3> QED
      BY <1>1, <2>6, <3>1, <3>2, DigitsRead
  <2>8. ReadsAs(text, 10 * n, 1)
    <3>1. Len(frac) = 1
      BY <1>7, <1>15
    <3> QED
      BY <1>5, <1>7, <1>9, <1>14, <2>7, <3>1, PointedReadsAs
  <2>9. decimals # DECIMALS
    BY <1>15, Sizes
  <2> QED
    BY <1>1, <1>10, <1>11, <1>12, <2>8, <2>9 DEF Shows
<1>16. CASE decimals # 0
  <2>1. decimals = DECIMALS
    BY <1>16
  <2>2. d = whole \o frac
    <3>1. frac = SubSeq(d, h + 1, a)
      BY <1>6, <1>16
    <3>2. /\ h <= a /\ a <= Len(d) /\ Len(d) \in Nat
      BY <1>2, <1>3
    <3>3. Len(frac) = a - h /\ \A k \in 1..(a - h) : frac[k] = d[h + k]
      BY <3>1, <3>2, Part DEF Texts
    <3>4. PICK b \in Nat : b = a - h /\ h + b = a
      BY <1>3
    <3>5. IsConcat(d, whole, frac)
      <4>1. d \in Seq(Digit) /\ whole \in Seq(Digit) /\ frac \in Seq(Digit)
        BY <1>5, <1>7 DEF Texts
      <4>2. Len(d) = h + b /\ Len(whole) = h /\ Len(frac) = b
        BY <1>2, <1>5, <3>3, <3>4
      <4>3. \A k \in 1..b : d[h + k] = frac[k]
        BY <3>3, <3>4
      <4>4. \A k \in 1..h : d[k] = whole[k]
        BY <1>5
      <4> QED
        BY <4>1, <4>2, <4>3, <4>4, Concat
    <3> QED
      BY <3>5 DEF IsConcat
  <2>3. NumberIn(text) = n
    <3>1. whole \in Texts /\ frac \in Texts
      BY <1>5, <1>7
    <3>2. Behind(d, whole, frac)
      BY <2>2, <3>1, TextIsNumbers DEF Behind
    <3>3. NumberIn(text) = NumberIn(d)
      BY <1>9, <3>1, <3>2, PointedReads
    <3> QED
      BY <1>1, <3>3, DigitsRead
  <2>4. ReadsAs(text, n, DECIMALS)
    <3>1. Len(frac) = DECIMALS
      BY <1>7, <1>16, <2>1
    <3> QED
      BY <1>5, <1>7, <1>9, <1>14, <2>3, <3>1, PointedReadsAs
  <2> QED
    BY <1>1, <1>10, <1>11, <1>12, <1>13, <1>16, <2>1, <2>4 DEF Shows
<1> QED
  BY <1>15, <1>16

\* Any number of the type.
LEMMA NumberShows ==
    ASSUME NEW n \in Nat, n < UINT64, NEW decimals \in {0, DECIMALS}, NEW f,
           f = format_fpu64(BUFFER_LEN, TEXT_LEN, n, decimals)
    PROVE  /\ decimals = 0 => Shows(f, 10 * n, 1, TITLE_LEN)
           /\ decimals = DECIMALS => /\ Shows(f, n, DECIMALS, TEXT_LEN)
                                     /\ Shows(f, n, DECIMALS, TITLE_LEN)
<1>1. format_u64(BUFFER_LEN, n) = Formatted(Digits[n])
  BY FormatSucceeds
<1>2. /\ format_u64(BUFFER_LEN, n).ok
      /\ format_u64(BUFFER_LEN, n).text = Digits[n]
  BY <1>1 DEF Formatted
<1>3. f = IF Len(Digits[n]) <= decimals THEN Fraction(TEXT_LEN, Digits[n], decimals)
          ELSE WholeAndFraction(TEXT_LEN, Digits[n], decimals)
  BY <1>2 DEF format_fpu64
<1>4. CASE Len(Digits[n]) <= decimals
  <2>1. decimals # 0
    BY <1>4, DigitsType
  <2>2. decimals = DECIMALS
    BY <2>1
  <2>3. f = Fraction(TEXT_LEN, Digits[n], DECIMALS) /\ Len(Digits[n]) <= DECIMALS
    BY <1>3, <1>4, <2>2
  <2> QED
    BY <2>1, <2>2, <2>3, FractionShows
<1>5. CASE ~(Len(Digits[n]) <= decimals)
  <2>1. Len(Digits[n]) > decimals
    BY <1>5, DigitsType, Sizes
  <2>2. f = WholeAndFraction(TEXT_LEN, Digits[n], decimals)
    BY <1>3, <1>5
  <2> QED
    BY <2>1, <2>2, WholeShows
<1> QED
  BY <1>4, <1>5

-----------------------------------------------------------------------------
(* The numbers of a transaction. *)

\* The widths are even.
LEMMA HalfOfRange ==
    /\ UINT64 \div 2 \in Nat /\ 2 * (UINT64 \div 2) = UINT64
    /\ UINT32 \div 2 \in Nat /\ 2 * (UINT32 \div 2) = UINT32
BY SizesAssumption

\* The numbers of a transaction are in the range of their types, and so is the total fee.
LEMMA TransactionNumbers ==
    ASSUME NEW t \in Transactions
    PROVE  /\ t.system_fee \in Nat /\ t.network_fee \in Nat /\ t.amount \in Int
           /\ t.system_fee + t.network_fee < UINT64
           /\ t.system_fee < UINT64 /\ t.network_fee < UINT64 /\ t.amount < UINT64
           /\ t.valid_until_block \in Nat /\ t.valid_until_block < UINT32
           /\ t.network_magic \in Nat /\ t.network_magic < UINT32
<1>1. t \in ReviewedTransaction
  BY TransactionsAssumption
<1>2. /\ t.system_fee \in 0..(UINT64 \div 2 - 1) /\ t.network_fee \in 0..(UINT64 \div 2 - 1)
      /\ t.amount \in -(UINT64 \div 2)..(UINT64 \div 2 - 1)
      /\ t.valid_until_block \in 0..(UINT32 - 1) /\ t.network_magic \in 0..(UINT32 - 1)
  BY <1>1 DEF ReviewedTransaction
<1>3. PICK half \in Nat : half = UINT64 \div 2 /\ 2 * half = UINT64
  BY HalfOfRange
<1>4. PICK values \in Nat : values = UINT32
  BY Sizes
<1>5. UINT64 >= 1 /\ half >= 1
  BY <1>3, Sizes
<1>6. t.system_fee \in 0..(half - 1) /\ t.network_fee \in 0..(half - 1)
  BY <1>2, <1>3
<1>7. /\ t.system_fee \in Nat /\ t.network_fee \in Nat /\ t.system_fee + t.network_fee < UINT64
      /\ t.system_fee < UINT64 /\ t.network_fee < UINT64
  BY <1>3, <1>6
<1>8. t.amount \in Int /\ t.amount < UINT64
  <2>1. t.amount \in -half..(half - 1)
    BY <1>2, <1>3
  <2> QED
    BY <1>3, <2>1
<1>9. /\ t.valid_until_block \in Nat /\ t.valid_until_block < UINT32
      /\ t.network_magic \in Nat /\ t.network_magic < UINT32
  BY <1>2, <1>4
<1> QED
  BY <1>7, <1>8, <1>9

\* What is left of a number in 64 bits; non-negative ones stay as they are.
LEMMA CastIsItself ==
    ASSUME NEW n \in Int
    PROVE  /\ Uint64(n) \in Nat /\ Uint64(n) < UINT64
           /\ n \in Nat /\ n < UINT64 => Uint64(n) = n
<1>1. UINT64 \in Nat \ {0}
  BY SizesAssumption
<1> QED
  BY <1>1 DEF Uint64

\* A number that shows was formatted.
LEMMA ShowsIsOk ==
    ASSUME NEW f, NEW n, NEW d, NEW size, Shows(f, n, d, size)
    PROVE  f.ok
BY DEF Shows, Formatted

NumbersShow(t) ==
    /\ Numbers(t)[1].ok
    /\ t.is_system_asset_transfer =>
          Shows(Numbers(t)[1], IF t.is_neo THEN 10 * Uint64(t.amount) ELSE Uint64(t.amount),
                IF t.is_neo THEN 1 ELSE DECIMALS, TITLE_LEN)
    /\ Shows(Numbers(t)[2], t.system_fee, DECIMALS, TEXT_LEN)
    /\ Shows(Numbers(t)[3], t.network_fee, DECIMALS, TEXT_LEN)
    /\ Shows(Numbers(t)[4], t.system_fee + t.network_fee, DECIMALS, TEXT_LEN)
    /\ \A k \in 1..4 : Numbers(t)[k].ok

\* All four numbers of a transaction are formatted.
LEMMA NumbersAreFormatted ==
    ASSUME NEW t \in Transactions
    PROVE  NumbersShow(t)
<1>1. ASSUME NEW n \in Nat, n < UINT64
      PROVE  Shows(fpu64(n, DECIMALS), n, DECIMALS, TEXT_LEN)
  <2>1. Uint64(n) = n
    BY <1>1, CastIsItself
  <2> QED
    BY <1>1, <2>1, NumberShows DEF fpu64
<1>2. PICK x : x = Numbers(t)
  OBVIOUS
<1>3. /\ x[2] = fpu64(t.system_fee, DECIMALS)
      /\ x[3] = fpu64(t.network_fee, DECIMALS)
      /\ x[4] = fpu64(t.network_fee + t.system_fee, DECIMALS)
      /\ x[1] = IF t.is_system_asset_transfer THEN fpu64(t.amount, IF t.is_neo THEN 0 ELSE DECIMALS)
                ELSE Formatted(<<>>)
  BY <1>2 DEF Numbers
<1>4. Shows(x[2], t.system_fee, DECIMALS, TEXT_LEN)
  BY <1>1, <1>3, TransactionNumbers
<1>5. Shows(x[3], t.network_fee, DECIMALS, TEXT_LEN)
  BY <1>1, <1>3, TransactionNumbers
<1>6. Shows(x[4], t.system_fee + t.network_fee, DECIMALS, TEXT_LEN)
  <2>1. PICK n \in Nat : /\ n = t.network_fee + t.system_fee /\ n = t.system_fee + t.network_fee
                         /\ n < UINT64
    BY TransactionNumbers
  <2> QED
    BY <1>1, <1>3, <2>1
<1>7. t.is_system_asset_transfer =>
          Shows(x[1], IF t.is_neo THEN 10 * Uint64(t.amount) ELSE Uint64(t.amount),
                IF t.is_neo THEN 1 ELSE DECIMALS, TITLE_LEN)
  <2> SUFFICES ASSUME t.is_system_asset_transfer
               PROVE  Shows(x[1], IF t.is_neo THEN 10 * Uint64(t.amount) ELSE Uint64(t.amount),
                            IF t.is_neo THEN 1 ELSE DECIMALS, TITLE_LEN)
    OBVIOUS
  <2>1. PICK n \in Nat : n = Uint64(t.amount) /\ n < UINT64
    BY TransactionNumbers, CastIsItself
  <2>2. CASE t.is_neo
    <3>1. x[1] = format_fpu64(BUFFER_LEN, TEXT_LEN, n, 0)
      BY <1>3, <2>1, <2>2 DEF fpu64
    <3>2. Shows(x[1], 10 * n, 1, TITLE_LEN)
      BY <2>1, <3>1, NumberShows
    <3> QED
      BY <2>1, <2>2, <3>2
  <2>3. CASE ~t.is_neo
    <3>1. x[1] = format_fpu64(BUFFER_LEN, TEXT_LEN, n, DECIMALS)
      BY <1>3, <2>1, <2>3 DEF fpu64
    <3>2. Shows(x[1], n, DECIMALS, TITLE_LEN)
      BY <2>1, <3>1, NumberShows
    <3> QED
      BY <2>1, <2>3, <3>2
  <2> QED
    BY <2>2, <2>3
<1>8. x[1].ok
  <2>1. Formatted(<<>>).ok
    BY DEF Formatted
  <2> QED
    BY <1>3, <1>7, <2>1, ShowsIsOk
<1>9. \A k \in 1..4 : x[k].ok
  <2>1. x[2].ok /\ x[3].ok /\ x[4].ok
    BY <1>4, <1>5, <1>6, ShowsIsOk
  <2>2. \A k \in 1..4 : k = 1 \/ k = 2 \/ k = 3 \/ k = 4
    OBVIOUS
  <2> QED
    BY <1>8, <2>1, <2>2
<1> QED
  BY <1>2, <1>4, <1>5, <1>6, <1>7, <1>8, <1>9 DEF NumbersShow

-----------------------------------------------------------------------------
(* The texts with the names of the tokens. *)

IsTitled(s, title, n, decimals, size) ==
    /\ SubSeq(s, 1, 4) = title
    /\ ReadsAs(SubSeq(s, 5, Len(s)), n, decimals)
    /\ Len(s) \in Nat /\ Len(s) < size

\* The name of a token is printed in front of a number without a digit lost.
LEMMA TitleIs ==
    ASSUME NEW f, NEW n, NEW d, NEW size \in Nat, Shows(f, n, d, size),
           NEW title \in {Gas, Neo}, NEW s, s = snprintf(size, title \o f.text)
    PROVE  IsTitled(s, title, n, d, size)
<1>1. PICK text \in Seq(Int) :
          /\ f = Formatted(text) /\ ReadsAs(text, n, d)
          /\ Len(text) \in Nat /\ 1 <= Len(text) /\ 4 + Len(text) < size
  BY DEF Shows
<1>2. f.text = text
  BY <1>1 DEF Formatted
<1>3. title \in Seq(Int) /\ Len(title) = 4
  <2>1. \A a, b, c, e \in Int : <<a, b, c, e>> \in Seq(Int) /\ Len(<<a, b, c, e>>) = 4
    OBVIOUS
  <2>2. Gas \in Seq(Int) /\ Len(Gas) = 4
    BY <2>1 DEF Gas
  <2>3. Neo \in Seq(Int) /\ Len(Neo) = 4
    BY <2>1 DEF Neo
  <2> QED
    BY <2>2, <2>3
<1>4. PICK u : u = title \o text
  OBVIOUS
<1>5. Behind(u, title, text)
  BY <1>3, <1>4 DEF Behind
<1>6. /\ u \in Seq(Int) /\ Len(u) = 4 + Len(text)
      /\ \A k \in 1..4 : u[k] = title[k]
      /\ \A k \in 1..Len(text) : u[4 + k] = text[k]
  <2>1. /\ u \in Seq(Int) /\ Len(u) = Len(title) + Len(text)
        /\ \A k \in 1..Len(title) : u[k] = title[k]
        /\ \A k \in 1..Len(text) : u[Len(title) + k] = text[k]
    BY <1>5, BehindIs
  <2> QED
    BY <1>3, <2>1
<1>7. s = u
  <2>1. Len(u) < size /\ SubSeq(u, 1, Len(u)) = u
    BY <1>1, <1>6
  <2>2. s = snprintf(size, u)
    BY <1>2, <1>4
  <2> QED
    BY <2>1, <2>2 DEF snprintf
<1>8. title = SubSeq(u, 1, 4)
  <2>1. /\ u \in Seq(Int) /\ 0 \in Nat /\ 4 <= Len(u) /\ 0 <= 4 /\ title \in Seq(Int)
        /\ Len(title) = 4 - 0 /\ \A k \in 1..(4 - 0) : title[k] = u[0 + k]
    <3>1. u \in Seq(Int) /\ 4 <= Len(u)
      BY <1>1, <1>6
    <3>2. title \in Seq(Int) /\ Len(title) = 4 - 0
      BY <1>3
    <3>3. \A k \in 1..(4 - 0) : title[k] = u[0 + k]
      BY <1>6
    <3> QED
      BY <3>1, <3>2, <3>3
  <2>2. title = SubSeq(u, 0 + 1, 4)
    BY <2>1, PartIs
  <2> QED
    BY <2>2
<1>9. text = SubSeq(u, 5, Len(u))
  <2>1. PICK m \in Nat : m = Len(u)
    BY <1>6
  <2>2. /\ u \in Seq(Int) /\ m <= Len(u) /\ 4 <= m /\ text \in Seq(Int)
        /\ Len(text) = m - 4 /\ \A k \in 1..(m - 4) : text[k] = u[4 + k]
    BY <1>1, <1>6, <2>1
  <2>3. text = SubSeq(u, 4 + 1, m)
    BY <2>2, PartIs
  <2> QED
    BY <2>1, <2>3
<1> QED
  BY <1>1, <1>6, <1>7, <1>8, <1>9 DEF IsTitled

\* What a review shows of a transaction.
LEMMA DisplayIs ==
    ASSUME NEW t \in Transactions, ui_display_transaction(t)
    PROVE  /\ tx' = t /\ status' = "SW_OK" /\ g_scope' = g_scope /\ page' = NoPage
           /\ g_system_fee' = FeeText(Numbers(t)[2])
           /\ g_network_fee' = FeeText(Numbers(t)[3])
           /\ g_total_fees' = FeeText(Numbers(t)[4])
           /\ g_network' = NetworkText(t.network_magic)
           /\ g_valid_until_block' = snprintf(NUMBER_LEN, PercentD(t.valid_until_block, UINT32))
           /\ IF t.is_system_asset_transfer
              THEN /\ g_address' \in AddressTexts(t.dst)
                   /\ g_text' = snprintf(TITLE_LEN, (IF t.is_neo THEN Neo ELSE Gas)
                                                    \o Numbers(t)[1].text)
              ELSE g_address' = g_address /\ g_text' = g_text
<1>1. \A k \in 1..4 : Numbers(t)[k].ok
  BY NumbersAreFormatted DEF NumbersShow
<1> DEFINE reached(k) == \A m \in 1..(k - 1) : Numbers(t)[m].ok
<1>3. reached(2) /\ reached(3) /\ reached(4) /\ reached(5) /\ Numbers(t)[1].ok
  BY <1>1
<1> HIDE DEF reached
<1>4. /\ tx' = t
      /\ status' = IF reached(5) THEN "SW_OK"
                   ELSE Failures[CHOOSE k \in 1..4 : reached(k) /\ ~Numbers(t)[k].ok]
      /\ IF t.is_system_asset_transfer
         THEN /\ g_address' \in AddressTexts(t.dst)
              /\ g_text' = IF Numbers(t)[1].ok
                           THEN snprintf(TITLE_LEN, (IF t.is_neo THEN Neo ELSE Gas) \o Numbers(t)[1].text)
                           ELSE <<>>
         ELSE UNCHANGED <<g_address, g_text>>
      /\ g_network' = IF reached(2) THEN NetworkText(t.network_magic) ELSE g_network
      /\ g_system_fee' = IF reached(2) THEN FeeText(Numbers(t)[2]) ELSE g_system_fee
      /\ g_network_fee' = IF reached(3) THEN FeeText(Numbers(t)[3]) ELSE g_network_fee
      /\ g_total_fees' = IF reached(4) THEN FeeText(Numbers(t)[4]) ELSE g_total_fees
      /\ g_valid_until_block' =
            IF reached(5) THEN snprintf(NUMBER_LEN, PercentD(t.valid_until_block, UINT32))
            ELSE g_valid_until_block
      /\ page' = NoPage
      /\ UNCHANGED g_scope
  BY Zenon DEF ui_display_transaction, reached
<1> QED
  BY <1>3, <1>4, Zenon

\* So a fee is shown.
LEMMA FeeIsTitled ==
    ASSUME NEW f, NEW n, Shows(f, n, DECIMALS, TEXT_LEN)
    PROVE  IsTitled(FeeText(f), Gas, n, DECIMALS, TEXT_LEN)
<1>1. TEXT_LEN \in Nat
  BY Sizes
<1>2. FeeText(f) = snprintf(TEXT_LEN, Gas \o f.text)
  BY ShowsIsOk DEF FeeText
<1> QED
  BY <1>1, <1>2, TitleIs

\* The numbers of the transaction that was displayed last are shown as they are.
AmountsInv ==
    /\ status \in {"none", "SW_OK"}
    /\ status = "SW_OK" =>
          /\ IsTitled(g_system_fee, Gas, tx.system_fee, DECIMALS, TEXT_LEN)
          /\ IsTitled(g_network_fee, Gas, tx.network_fee, DECIMALS, TEXT_LEN)
          /\ IsTitled(g_total_fees, Gas, tx.system_fee + tx.network_fee, DECIMALS, TEXT_LEN)
          /\ tx.is_system_asset_transfer =>
                IsTitled(g_text, IF tx.is_neo THEN Neo ELSE Gas,
                         IF tx.is_neo THEN 10 * Uint64(tx.amount) ELSE Uint64(tx.amount),
                         IF tx.is_neo THEN 1 ELSE DECIMALS, TITLE_LEN)

\* A review shows the amounts of its transaction.
LEMMA DisplayKeepsAmounts ==
    ASSUME NEW t \in Transactions, ui_display_transaction(t)
    PROVE  AmountsInv'
<1>1. NumbersShow(t)
  BY NumbersAreFormatted
<1>2. tx' = t /\ status' = "SW_OK"
  BY DisplayIs
<1>3. IsTitled(g_system_fee', Gas, t.system_fee, DECIMALS, TEXT_LEN)
  BY <1>1, DisplayIs, FeeIsTitled DEF NumbersShow
<1>4. IsTitled(g_network_fee', Gas, t.network_fee, DECIMALS, TEXT_LEN)
  BY <1>1, DisplayIs, FeeIsTitled DEF NumbersShow
<1>5. IsTitled(g_total_fees', Gas, t.system_fee + t.network_fee, DECIMALS, TEXT_LEN)
  BY <1>1, DisplayIs, FeeIsTitled DEF NumbersShow
<1>6. ASSUME t.is_system_asset_transfer
      PROVE  IsTitled(g_text', IF t.is_neo THEN Neo ELSE Gas,
                      IF t.is_neo THEN 10 * Uint64(t.amount) ELSE Uint64(t.amount),
                      IF t.is_neo THEN 1 ELSE DECIMALS, TITLE_LEN)
  <2>1. g_text' = snprintf(TITLE_LEN, (IF t.is_neo THEN Neo ELSE Gas) \o Numbers(t)[1].text)
    BY <1>6, DisplayIs
  <2>2. Shows(Numbers(t)[1], IF t.is_neo THEN 10 * Uint64(t.amount) ELSE Uint64(t.amount),
              IF t.is_neo THEN 1 ELSE DECIMALS, TITLE_LEN)
    BY <1>1, <1>6 DEF NumbersShow
  <2>3. PICK title \in {Gas, Neo} : title = IF t.is_neo THEN Neo ELSE Gas
    OBVIOUS
  <2>4. TITLE_LEN \in Nat
    BY DEF TITLE_LEN
  <2> QED
    BY <2>1, <2>2, <2>3, <2>4, TitleIs
<1> QED
  BY <1>2, <1>3, <1>4, <1>5, <1>6 DEF AmountsInv

-----------------------------------------------------------------------------
(* The network and the last block. *)

\* What is printed ends in its array, and is all of a text that fits.
LEMMA PrintIs ==
    ASSUME NEW text \in Seq(Int), NEW size \in Nat \ {0}, NEW s, s = snprintf(size, text)
    PROVE  /\ s \in Seq(Int) /\ Len(s) \in Nat /\ Len(s) < size
           /\ Len(text) < size => s = text
           /\ Len(text) >= 1 /\ size >= 2 => Len(s) >= 1 /\ s[1] = text[1]
<1>1. PICK m \in Nat : m = IF Len(text) < size THEN Len(text) ELSE size - 1
  OBVIOUS
<1>2. s = SubSeq(text, 0 + 1, m)
  BY <1>1 DEF snprintf
<1>3. 0 \in Nat /\ 0 <= m /\ m <= Len(text)
  BY <1>1
<1>4. s \in Seq(Int) /\ Len(s) = m - 0 /\ \A k \in 1..(m - 0) : s[k] = text[0 + k]
  BY <1>2, <1>3, Part
<1>5. Len(text) < size => s = text
  <2> SUFFICES ASSUME Len(text) < size PROVE s = text
    OBVIOUS
  <2>1. SubSeq(text, 1, Len(text)) = text
    OBVIOUS
  <2> QED
    BY <2>1 DEF snprintf
<1>6. Len(text) >= 1 /\ size >= 2 => 1 <= m
  BY <1>1
<1> QED
  BY <1>1, <1>4, <1>5, <1>6

\* A number that is printed as a signed one.
LEMMA NumberPrints ==
    ASSUME NEW n \in Nat, n < UINT32, NEW s, s = snprintf(NUMBER_LEN, PercentD(n, UINT32))
    PROVE  /\ Len(s) < NUMBER_LEN /\ s # MainNet /\ s # TestNet
           /\ 2 * n < UINT32 => s = Digits[n]
<1>0. NUMBER_LEN \in Nat /\ NUMBER_LEN >= 2
  BY Sizes
<1>1. ASSUME NEW c \in Int, c # 77, c # 84, s[1] = c PROVE s # MainNet /\ s # TestNet
  <2>1. <<77>>[1] = 77 /\ <<84>>[1] = 84
    OBVIOUS
  <2> QED
    BY <1>1, <2>1 DEF MainNet, TestNet
<1>2. CASE 2 * n < UINT32
  <2>1. AsSigned(n, UINT32) = n /\ ~(n < 0)
    BY <1>2 DEF AsSigned
  <2>2. PercentD(n, UINT32) = Digits[n]
    BY <2>1 DEF PercentD, Decimal
  <2>3. PICK d \in Texts : d = Digits[n] /\ 1 <= Len(d) /\ Len(d) < NUMBER_LEN /\ Len(d) \in Nat
    BY ShortDigits, Sizes
  <2>4. s = snprintf(NUMBER_LEN, d)
    BY <2>2, <2>3
  <2>5. s = d
    BY <1>0, <2>3, <2>4, TextIsNumbers, PrintIs
  <2>6. d[1] \in Digit
    BY <2>3 DEF Texts
  <2>7. d[1] \in Int /\ d[1] # 77 /\ d[1] # 84
    BY <2>6 DEF Digit, Zero
  <2> QED
    BY <1>1, <2>3, <2>5, <2>7
<1>3. CASE ~(2 * n < UINT32)
  <2>1. PICK m \in Nat : m = UINT32 - n
    BY Sizes
  <2>2. AsSigned(n, UINT32) = n - UINT32 /\ n - UINT32 < 0 /\ -(n - UINT32) = m
    BY <1>3, <2>1, Sizes DEF AsSigned
  <2>3. PICK d : d = Digits[m]
    OBVIOUS
  <2>4. PercentD(n, UINT32) = <<Minus>> \o d
    BY <2>2, <2>3 DEF PercentD, Decimal
  <2>5. PICK p : p = <<Minus>>
    OBVIOUS
  <2>6. Minus \in Int /\ Minus # 77 /\ Minus # 84
    BY DEF Minus
  <2>7. p \in Seq(Int) /\ Len(p) = 1 /\ p[1] = Minus
    BY <2>5, <2>6
  <2>8. PICK text : text = p \o d
    OBVIOUS
  <2>9. d \in Seq(Int)
    BY <2>3, DigitsType, TextIsNumbers
  <2>10. Behind(text, p, d)
    BY <2>7, <2>8, <2>9 DEF Behind
  <2>11. text \in Seq(Int) /\ Len(text) = Len(p) + Len(d) /\ \A k \in 1..Len(p) : text[k] = p[k]
    BY <2>10, BehindIs
  <2>12. Len(text) >= 1 /\ text[1] = Minus
    BY <2>7, <2>9, <2>11
  <2>13. s = snprintf(NUMBER_LEN, text)
    BY <2>4, <2>5, <2>8
  <2>14. Len(s) < NUMBER_LEN /\ s[1] = Minus
    BY <1>0, <2>11, <2>12, <2>13, PrintIs
  <2> QED
    BY <1>1, <1>3, <2>6, <2>14
<1> QED
  BY <1>2, <1>3

\* The name of a network is printed as it is.
LEMMA NamePrints ==
    ASSUME NEW name \in {MainNet, TestNet}, NEW s, s = snprintf(NUMBER_LEN, name)
    PROVE  s = name /\ Len(s) < NUMBER_LEN
<1>0. NUMBER_LEN \in Nat \ {0} /\ NUMBER_LEN >= 2
  BY Sizes
<1>1. \A c \in Int : <<c>> \in Seq(Int) /\ Len(<<c>>) = 1
  OBVIOUS
<1>2. name \in Seq(Int) /\ Len(name) = 1
  <2>1. MainNet \in Seq(Int) /\ Len(MainNet) = 1
    BY <1>1 DEF MainNet
  <2>2. TestNet \in Seq(Int) /\ Len(TestNet) = 1
    BY <1>1 DEF TestNet
  <2> QED
    BY <2>1, <2>2
<1> QED
  BY <1>0, <1>2, PrintIs

\* The two networks have different names.
LEMMA NamesDiffer == MainNet # TestNet
<1>1. <<77>>[1] = 77 /\ <<84>>[1] = 84
  OBVIOUS
<1> QED
  BY <1>1 DEF MainNet, TestNet

\* The network and the last block of a review.
LEMMA NetworkIs ==
    ASSUME NEW magic \in Nat, magic < UINT32, NEW s, s = NetworkText(magic)
    PROVE  /\ Len(s) < NUMBER_LEN
           /\ s = MainNet <=> magic = NETWORK_MAINNET
           /\ s = TestNet <=> magic = NETWORK_TESTNET
           /\ 2 * magic < UINT32 /\ s \notin {MainNet, TestNet} => s = Digits[magic]
<1>1. CASE magic = NETWORK_MAINNET
  <2>1. s = snprintf(NUMBER_LEN, MainNet)
    BY <1>1 DEF NetworkText
  <2>2. s = MainNet /\ Len(s) < NUMBER_LEN
    BY <2>1, NamePrints
  <2> QED
    BY <1>1, <2>2, NamesDiffer, NetworksAssumption
<1>2. CASE magic = NETWORK_TESTNET
  <2>1. s = snprintf(NUMBER_LEN, TestNet)
    BY <1>2, NetworksAssumption DEF NetworkText
  <2>2. s = TestNet /\ Len(s) < NUMBER_LEN
    BY <2>1, NamePrints
  <2> QED
    BY <1>2, <2>2, NamesDiffer, NetworksAssumption
<1>3. CASE magic # NETWORK_MAINNET /\ magic # NETWORK_TESTNET
  <2>1. s = snprintf(NUMBER_LEN, PercentD(magic, UINT32))
    BY <1>3 DEF NetworkText
  <2>2. Len(s) < NUMBER_LEN /\ s # MainNet /\ s # TestNet /\ (2 * magic < UINT32 => s = Digits[magic])
    BY <2>1, NumberPrints
  <2> QED
    BY <1>3, <2>2
<1> QED
  BY <1>1, <1>2, <1>3

\* A review shows the network and the last block of its transaction, within their arrays.
LEMMA DisplayShowsNumbers ==
    ASSUME NEW t \in Transactions, ui_display_transaction(t)
    PROVE  NumbersAreShown' /\ Len(g_network') < NUMBER_LEN /\ Len(g_valid_until_block') < NUMBER_LEN
<1>1. tx' = t /\ g_network' = NetworkText(t.network_magic)
  BY DisplayIs
<1>2. g_valid_until_block' = snprintf(NUMBER_LEN, PercentD(t.valid_until_block, UINT32))
  BY DisplayIs
<1>3. PICK magic \in Nat : magic = t.network_magic /\ magic < UINT32
  BY TransactionNumbers
<1>4. PICK block \in Nat : block = t.valid_until_block /\ block < UINT32
  BY TransactionNumbers
<1>5. /\ Len(g_network') < NUMBER_LEN
      /\ g_network' = MainNet <=> magic = NETWORK_MAINNET
      /\ g_network' = TestNet <=> magic = NETWORK_TESTNET
      /\ 2 * magic < UINT32 /\ g_network' \notin {MainNet, TestNet} => g_network' = Digits[magic]
  BY <1>1, <1>3, NetworkIs
<1>6. Len(g_valid_until_block') < NUMBER_LEN /\ (2 * block < UINT32 => g_valid_until_block' = Digits[block])
  BY <1>2, <1>4, NumberPrints
<1>7. IsNumber(Digits[magic], magic) /\ IsNumber(Digits[block], block)
  BY DigitsAreNumber
<1> QED
  BY <1>1, <1>3, <1>4, <1>5, <1>6, <1>7 DEF NumbersAreShown

-----------------------------------------------------------------------------
(* The words of a scope. *)

\* One word, as a sequence and as a set.
LEMMA OneWord ==
    ASSUME NEW x, NEW w, w = <<x>>
    PROVE  IsInjective(w) /\ ToSet(w) = {x} /\ Len(w) = 1 /\ w[1] = x
BY DEF IsInjective, ToSet

IsPair(w, x, y) == w = <<x, y>>
IsTriple(w, x, y, z) == w = <<x, y, z>>

\* Two of them.
LEMMA TwoWords ==
    ASSUME NEW x, NEW y, x # y, NEW w, IsPair(w, x, y)
    PROVE  IsInjective(w) /\ ToSet(w) = {x, y} /\ Len(w) = 2 /\ w[1] = x /\ w[2] = y
BY DEF IsInjective, ToSet, IsPair

\* Three of them.
LEMMA ThreeWords ==
    ASSUME NEW x, NEW y, NEW z, x # y, x # z, y # z, NEW w, IsTriple(w, x, y, z)
    PROVE  /\ IsInjective(w) /\ ToSet(w) = {x, y, z}
           /\ Len(w) = 3 /\ w[1] = x /\ w[2] = y /\ w[3] = z
BY DEF IsInjective, ToSet, IsTriple

\* Three words are two and one more.
LEMMA ThreeOnes ==
    ASSUME NEW x, NEW y, NEW z
    PROVE  <<x, y, z>> = <<x, y>> \o <<z>>
<1>1. PICK u : u = <<x, y, z>>
  OBVIOUS
<1>2. PICK v : v = <<x, y>>
  OBVIOUS
<1>3. PICK w : w = <<z>>
  OBVIOUS
<1>4. PICK X : X = {x, y, z}
  OBVIOUS
<1>5. /\ u \in Seq(X) /\ v \in Seq(X) /\ w \in Seq(X)
      /\ Len(u) = 2 + 1 /\ Len(v) = 2 /\ Len(w) = 1
      /\ u[1] = v[1] /\ u[2] = v[2] /\ u[2 + 1] = w[1]
  BY <1>1, <1>2, <1>3, <1>4
<1>6. (\A k \in 1..2 : u[k] = v[k]) /\ \A k \in 1..1 : u[2 + k] = w[k]
  <2>1. \A k \in 1..2 : k = 1 \/ k = 2
    OBVIOUS
  <2> QED
    BY <1>5, <2>1
<1>7. IsConcat(u, v, w)
  BY <1>5, <1>6, Concat
<1> QED
  BY <1>1, <1>2, <1>3, <1>7, Zenon DEF IsConcat

\* No word in front or behind changes nothing.
LEMMA NoneBefore ==
    ASSUME NEW X, NEW s \in Seq(X)
    PROVE  <<>> \o s = s /\ s \o <<>> = s
OBVIOUS

\* The three words behind each other.
IsOrIsNot(a, x) == a = <<>> \/ a = <<x>>

\* Three words, each of which may be missing, behind each other.
LEMMA WordsJoin ==
    ASSUME NEW x, NEW y, NEW z, NEW a, NEW b, NEW c, NEW w, AreJoined(w, a, b, c),
           IsOrIsNot(a, x), IsOrIsNot(b, y), IsOrIsNot(c, z)
    PROVE  \/ a = <<>> /\ b = <<>> /\ c = <<>> /\ w = <<>>
           \/ a = <<x>> /\ b = <<>> /\ c = <<>> /\ w = <<x>>
           \/ a = <<>> /\ b = <<y>> /\ c = <<>> /\ w = <<y>>
           \/ a = <<>> /\ b = <<>> /\ c = <<z>> /\ w = <<z>>
           \/ a = <<x>> /\ b = <<y>> /\ c = <<>> /\ w = <<x, y>>
           \/ a = <<x>> /\ b = <<>> /\ c = <<z>> /\ w = <<x, z>>
           \/ a = <<>> /\ b = <<y>> /\ c = <<z>> /\ w = <<y, z>>
           \/ a = <<x>> /\ b = <<y>> /\ c = <<z>> /\ w = <<x, y, z>>
<1>0. (a = <<>> \/ a = <<x>>) /\ (b = <<>> \/ b = <<y>>) /\ (c = <<>> \/ c = <<z>>)
  BY DEF IsOrIsNot
<1>1. PICK X : X = {x, y, z}
  OBVIOUS
<1>2. <<>> \in Seq(X) /\ <<x>> \in Seq(X) /\ <<y>> \in Seq(X) /\ <<z>> \in Seq(X) /\ <<x, y>> \in Seq(X)
  BY <1>1
<1>3. \A s \in Seq(X) : <<>> \o s = s /\ s \o <<>> = s
  BY NoneBefore
<1>4. /\ <<x>> \o <<y>> = <<x, y>> /\ <<x>> \o <<z>> = <<x, z>> /\ <<y>> \o <<z>> = <<y, z>>
      /\ <<x, y>> \o <<z>> = <<x, y, z>>
  <2>1. <<x, y>> = <<x>> \o <<y>>
    BY TwoOnes
  <2>2. <<x, z>> = <<x>> \o <<z>>
    BY TwoOnes
  <2>3. <<y, z>> = <<y>> \o <<z>>
    BY TwoOnes
  <2>4. <<x, y, z>> = <<x, y>> \o <<z>>
    BY ThreeOnes
  <2> QED
    BY <2>1, <2>2, <2>3, <2>4, Zenon
<1>5. /\ <<>> \o <<>> = <<>> /\ <<>> \o <<x>> = <<x>> /\ <<>> \o <<y>> = <<y>> /\ <<>> \o <<z>> = <<z>>
      /\ <<x>> \o <<>> = <<x>> /\ <<y>> \o <<>> = <<y>> /\ <<x, y>> \o <<>> = <<x, y>>
  BY <1>2, <1>3, Zenon
<1>6. CASE a = <<>>
  <2>1. w = (<<>> \o b) \o c
    BY <1>6, Zenon DEF AreJoined
  <2>2. CASE b = <<>>
    BY <1>0, <1>5, <1>6, <2>1, <2>2, Zenon
  <2>3. CASE b = <<y>>
    BY <1>0, <1>4, <1>5, <1>6, <2>1, <2>3, Zenon
  <2> QED
    BY <1>0, <2>2, <2>3, Zenon
<1>7. CASE a = <<x>>
  <2>1. w = (<<x>> \o b) \o c
    BY <1>7, Zenon DEF AreJoined
  <2>2. CASE b = <<>>
    BY <1>0, <1>4, <1>5, <1>7, <2>1, <2>2, Zenon
  <2>3. CASE b = <<y>>
    BY <1>0, <1>4, <1>5, <1>7, <2>1, <2>3, Zenon
  <2> QED
    BY <1>0, <2>2, <2>3, Zenon
<1> QED
  BY <1>0, <1>6, <1>7, Zenon

-----------------------------------------------------------------------------
(* The characters of the words. *)

AreLengths(v, words) ==
    /\ v \in [0..Len(words) -> Nat] /\ v[0] = 0
    /\ \A k \in 1..Len(words) : v[k] = v[k - 1] + LengthOf(words[k])

\* TextLength is the last of the lengths it adds up.
LEMMA LengthsAre ==
    ASSUME NEW words, Len(words) \in Nat, \A k \in 1..Len(words) : LengthOf(words[k]) \in Nat
    PROVE  \E v : AreLengths(v, words) /\ TextLength(words) = v[Len(words)]
<1>1. PICK n \in Nat : n = Len(words)
  OBVIOUS
<1> DEFINE After(x) == x[1] + LengthOf(words[x[2]])
           G == [x \in Nat \X (1..n) |-> After(x)]
<1>2. ASSUME NEW x \in Nat, NEW k \in 1..n
      PROVE  After(<<x, k>>) \in Nat /\ G[<<x, k>>] = x + LengthOf(words[k])
  <2>1. G[<<x, k>>] = After(<<x, k>>) /\ After(<<x, k>>) = x + LengthOf(words[k])
    OBVIOUS
  <2>2. LengthOf(words[k]) \in Nat
    BY <1>1
  <2> HIDE DEF After, G
  <2> QED
    BY <2>1, <2>2
<1>3. G \in [Nat \X (1..n) -> Nat]
  <2>1. \A x \in Nat \X (1..n) : After(x) \in Nat
    <3> SUFFICES ASSUME NEW x \in Nat \X (1..n) PROVE After(x) \in Nat
      OBVIOUS
    <3>1. x[1] \in Nat /\ x[2] \in 1..n /\ x = <<x[1], x[2]>>
      OBVIOUS
    <3> HIDE DEF After
    <3> QED
      BY <1>2, <3>1
  <2> HIDE DEF After
  <2> QED
    BY <2>1
<1> HIDE DEF G, After
<1>4. PICK g \in [0..n -> Nat] : IsIterated(g, n, 0, G)
  BY <1>3, Iterates
<1> DEFINE Step(f) == [k \in 0..n |-> IF k = 0 THEN 0 ELSE f[k - 1] + LengthOf(words[k])]
           F == CHOOSE f : f = Step(f)
<1>5. ASSUME NEW k \in 0..n
      PROVE  g[k] = IF k = 0 THEN 0 ELSE g[k - 1] + LengthOf(words[k])
  <2>1. g[k] = IF k = 0 THEN 0 ELSE G[<<g[k - 1], k>>]
    BY <1>4 DEF IsIterated
  <2>2. k # 0 => k \in 1..n /\ g[k - 1] \in Nat
    OBVIOUS
  <2> QED
    BY <1>2, <2>1, <2>2
<1>6. g = Step(g)
  BY <1>4, <1>5
<1>7. F = Step(F)
  BY <1>6
<1>8. TextLength(words) = F[n]
  BY <1>1 DEF TextLength
<1> HIDE DEF F
<1>9. F[0] = 0 /\ \A k \in 1..n : F[k] = F[k - 1] + LengthOf(words[k])
  BY <1>7
<1>10. F \in [0..n -> Nat]
  <2>1. F = [k \in 0..n |-> F[k]]
    BY <1>7
  <2> DEFINE S == {k \in Nat : k <= n => F[k] \in Nat}
  <2>2. 0 \in S
    BY <1>9
  <2>3. ASSUME NEW k \in Nat, k \in S PROVE k + 1 \in S
    <3> SUFFICES ASSUME k + 1 <= n PROVE F[k + 1] \in Nat
      OBVIOUS
    <3>1. k + 1 \in 1..n /\ k + 1 - 1 = k /\ F[k] \in Nat
      BY <2>3
    <3>2. F[k + 1] = F[k] + LengthOf(words[k + 1])
      BY <1>9, <3>1
    <3>3. LengthOf(words[k + 1]) \in Nat
      BY <1>1, <3>1
    <3> QED
      BY <3>1, <3>2, <3>3
  <2> HIDE DEF S
  <2>4. Nat \subseteq S
    BY <2>2, <2>3, SetInduction
  <2>5. \A k \in 0..n : F[k] \in Nat
    BY <2>4 DEF S
  <2> QED
    BY <2>1, <2>5
<1> QED
  BY <1>1, <1>8, <1>9, <1>10 DEF AreLengths

\* The lengths of the words.
LEMMA WordLengths ==
    /\ LengthOf("None") = 4 /\ LengthOf("Global") = 6 /\ LengthOf("By Entry") = 9
    /\ LengthOf("Contracts") = 10 /\ LengthOf("Groups") = 7
BY DEF LengthOf

\* No words, one, two and three of them.
LEMMA FewWordsFit ==
    ASSUME NEW w, Len(w) \in 0..3, \A k \in 1..Len(w) : LengthOf(w[k]) \in 0..10,
           Len(w) = 3 => LengthOf(w[1]) + LengthOf(w[2]) + LengthOf(w[3]) < SCOPE_LEN
    PROVE  TextLength(w) < SCOPE_LEN
<1>1. PICK v : AreLengths(v, w) /\ TextLength(w) = v[Len(w)]
  <2>1. Len(w) \in Nat /\ \A k \in 1..Len(w) : LengthOf(w[k]) \in Nat
    OBVIOUS
  <2> QED
    BY <2>1, LengthsAre
<1>2. v[0] = 0 /\ \A k \in 1..Len(w) : v[k] \in Nat /\ v[k] = v[k - 1] + LengthOf(w[k])
  BY <1>1 DEF AreLengths
<1>3. CASE Len(w) = 0
  BY <1>1, <1>2, <1>3 DEF SCOPE_LEN
<1>4. CASE Len(w) = 1
  <2>1. v[1] = v[1 - 1] + LengthOf(w[1]) /\ LengthOf(w[1]) \in 0..10
    BY <1>2, <1>4
  <2> QED
    BY <1>1, <1>2, <1>4, <2>1 DEF SCOPE_LEN
<1>5. CASE Len(w) = 2
  <2>1. /\ v[1] = v[1 - 1] + LengthOf(w[1]) /\ LengthOf(w[1]) \in 0..10
        /\ v[2] = v[2 - 1] + LengthOf(w[2]) /\ LengthOf(w[2]) \in 0..10
    BY <1>2, <1>5
  <2> QED
    BY <1>1, <1>2, <1>5, <2>1 DEF SCOPE_LEN
<1>6. CASE Len(w) = 3
  <2>1. /\ v[1] = v[1 - 1] + LengthOf(w[1]) /\ LengthOf(w[1]) \in 0..10
        /\ v[2] = v[2 - 1] + LengthOf(w[2]) /\ LengthOf(w[2]) \in 0..10
        /\ v[3] = v[3 - 1] + LengthOf(w[3]) /\ LengthOf(w[3]) \in 0..10
    BY <1>2, <1>6
  <2> QED
    BY <1>1, <1>2, <1>6, <2>1
<1> QED
  BY <1>3, <1>4, <1>5, <1>6

\* The words that can be in g_scope.
PossibleWords ==
    {<<>>, <<"None">>, <<"Global">>, <<"By Entry">>, <<"Contracts">>, <<"Groups">>,
     <<"By Entry", "Contracts">>, <<"By Entry", "Groups">>, <<"Contracts", "Groups">>,
     <<"By Entry", "Contracts", "Groups">>}

\* One word fits g_scope.
LEMMA OneFits ==
    ASSUME NEW x, LengthOf(x) \in 0..10
    PROVE  TextLength(<<x>>) < SCOPE_LEN
<1>1. PICK w : w = <<x>>
  OBVIOUS
<1>2. Len(w) = 1 /\ w[1] = x
  BY <1>1, OneWord
<1>3. \A k \in 1..Len(w) : LengthOf(w[k]) \in 0..10
  <2>1. \A k \in 1..1 : k = 1
    OBVIOUS
  <2> QED
    BY <1>2, <2>1
<1>4. TextLength(w) < SCOPE_LEN
  BY <1>2, <1>3, FewWordsFit
<1> QED
  BY <1>1, <1>4

\* Two words fit.
LEMMA TwoFit ==
    ASSUME NEW x, NEW y, x # y, LengthOf(x) \in 0..10, LengthOf(y) \in 0..10
    PROVE  TextLength(<<x, y>>) < SCOPE_LEN
<1>1. PICK w : w = <<x, y>>
  OBVIOUS
<1>2. Len(w) = 2 /\ w[1] = x /\ w[2] = y
  BY <1>1, TwoWords DEF IsPair
<1>3. \A k \in 1..Len(w) : LengthOf(w[k]) \in 0..10
  <2>1. \A k \in 1..2 : k = 1 \/ k = 2
    OBVIOUS
  <2> QED
    BY <1>2, <2>1
<1>4. TextLength(w) < SCOPE_LEN
  BY <1>2, <1>3, FewWordsFit
<1> QED
  BY <1>1, <1>4

\* All that parse_scope_name can write fits.
LEMMA WordsFit ==
    ASSUME NEW w \in PossibleWords
    PROVE  TextLength(w) < SCOPE_LEN
<1>1. /\ LengthOf("None") \in 0..10 /\ LengthOf("Global") \in 0..10 /\ LengthOf("By Entry") \in 0..10
      /\ LengthOf("Contracts") \in 0..10 /\ LengthOf("Groups") \in 0..10
  <2>1. 4 \in 0..10 /\ 6 \in 0..10 /\ 9 \in 0..10 /\ 10 \in 0..10 /\ 7 \in 0..10
    OBVIOUS
  <2> QED
    BY <2>1, WordLengths, Zenon
<1>2. /\ TextLength(<<"None">>) < SCOPE_LEN /\ TextLength(<<"Global">>) < SCOPE_LEN
      /\ TextLength(<<"By Entry">>) < SCOPE_LEN /\ TextLength(<<"Contracts">>) < SCOPE_LEN
      /\ TextLength(<<"Groups">>) < SCOPE_LEN
  BY <1>1, OneFits
<1>3. /\ TextLength(<<"By Entry", "Contracts">>) < SCOPE_LEN
      /\ TextLength(<<"By Entry", "Groups">>) < SCOPE_LEN
      /\ TextLength(<<"Contracts", "Groups">>) < SCOPE_LEN
  BY <1>1, TwoFit
<1>4. TextLength(<<"By Entry", "Contracts", "Groups">>) < SCOPE_LEN
  <2>1. PICK u : u = <<"By Entry", "Contracts", "Groups">>
    OBVIOUS
  <2>2. Len(u) = 3 /\ u[1] = "By Entry" /\ u[2] = "Contracts" /\ u[3] = "Groups"
    BY <2>1, ThreeWords DEF IsTriple
  <2>3. \A k \in 1..Len(u) : LengthOf(u[k]) \in 0..10
    <3>1. \A k \in 1..3 : k = 1 \/ k = 2 \/ k = 3
      OBVIOUS
    <3> QED
      BY <1>1, <2>2, <3>1
  <2>4. LengthOf(u[1]) + LengthOf(u[2]) + LengthOf(u[3]) < SCOPE_LEN
    <3>1. LengthOf(u[1]) = 9 /\ LengthOf(u[2]) = 10 /\ LengthOf(u[3]) = 7
      BY <2>2, WordLengths, Zenon
    <3> QED
      BY <3>1 DEF SCOPE_LEN
  <2>5. TextLength(u) < SCOPE_LEN
    <3>1. Len(u) \in 0..3
      <4>1. 3 \in 0..3
        OBVIOUS
      <4> QED
        BY <2>2, <4>1, Zenon
    <3> QED
      BY <2>3, <2>4, <3>1, FewWordsFit
  <2> QED
    BY <2>1, <2>5
<1>5. TextLength(<<>>) < SCOPE_LEN
  <2>1. PICK u : u = <<>>
    OBVIOUS
  <2>2. Len(u) = 0
    BY <2>1
  <2>3. TextLength(u) < SCOPE_LEN
    BY <2>2, FewWordsFit
  <2> QED
    BY <2>1, <2>3
<1> QED
  BY <1>2, <1>3, <1>4, <1>5, Zenon DEF PossibleWords

-----------------------------------------------------------------------------
(* The screen of a scope. *)

\* The words of the flags: of those that are known, all of them, each once.
LEMMA FlagWordsAre ==
    ASSUME NEW scope, scope # {}, scope # {"GLOBAL"}, NEW w, w = ScopeWords(scope)
    PROVE  /\ w \in PossibleWords
           /\ Flags \cap scope # {} => /\ IsInjective(w)
                                       /\ ToSet(w) = {WordOf[f] : f \in Flags \cap scope}
                                       /\ w # <<>>
<1>0. PICK entry : entry = "By Entry"
  OBVIOUS
<1>1. PICK a : a = FlagWord("CALLED_BY_ENTRY", scope)
  OBVIOUS
<1>2. PICK b : b = FlagWord("CUSTOM_CONTRACTS", scope)
  OBVIOUS
<1>3. PICK c : c = FlagWord("CUSTOM_GROUPS", scope)
  OBVIOUS
<1>4. AreJoined(w, a, b, c)
  BY <1>1, <1>2, <1>3, Zenon DEF ScopeWords, AreJoined
<1>5. /\ WordOf["CALLED_BY_ENTRY"] = entry /\ WordOf["CUSTOM_CONTRACTS"] = "Contracts"
      /\ WordOf["CUSTOM_GROUPS"] = "Groups"
  BY <1>0, Zenon DEF WordOf
<1>6. /\ a = IF "CALLED_BY_ENTRY" \in scope THEN <<entry>> ELSE <<>>
      /\ b = IF "CUSTOM_CONTRACTS" \in scope THEN <<"Contracts">> ELSE <<>>
      /\ c = IF "CUSTOM_GROUPS" \in scope THEN <<"Groups">> ELSE <<>>
  BY <1>1, <1>2, <1>3, <1>5, Zenon DEF FlagWord
<1>7. <<entry>> # <<>> /\ <<"Contracts">> # <<>> /\ <<"Groups">> # <<>>
  <2>1. Len(<<>>) = 0 /\ Len(<<entry>>) = 1 /\ Len(<<"Contracts">>) = 1 /\ Len(<<"Groups">>) = 1
    OBVIOUS
  <2> QED
    BY <2>1
<1> DEFINE Known(e, m, g) ==
        /\ "CALLED_BY_ENTRY" \in scope <=> e
        /\ "CUSTOM_CONTRACTS" \in scope <=> m
        /\ "CUSTOM_GROUPS" \in scope <=> g
<1>8. \/ Known(FALSE, FALSE, FALSE) /\ w = <<>>
      \/ Known(TRUE, FALSE, FALSE) /\ w = <<entry>>
      \/ Known(FALSE, TRUE, FALSE) /\ w = <<"Contracts">>
      \/ Known(FALSE, FALSE, TRUE) /\ w = <<"Groups">>
      \/ Known(TRUE, TRUE, FALSE) /\ w = <<entry, "Contracts">>
      \/ Known(TRUE, FALSE, TRUE) /\ w = <<entry, "Groups">>
      \/ Known(FALSE, TRUE, TRUE) /\ w = <<"Contracts", "Groups">>
      \/ Known(TRUE, TRUE, TRUE) /\ w = <<entry, "Contracts", "Groups">>
  <2>1. IsOrIsNot(a, entry) /\ IsOrIsNot(b, "Contracts") /\ IsOrIsNot(c, "Groups")
    BY <1>6, Zenon DEF IsOrIsNot
  <2>2. /\ "CALLED_BY_ENTRY" \in scope <=> a # <<>>
        /\ "CUSTOM_CONTRACTS" \in scope <=> b # <<>>
        /\ "CUSTOM_GROUPS" \in scope <=> c # <<>>
    BY <1>6, <1>7
  <2>3. \/ a = <<>> /\ b = <<>> /\ c = <<>> /\ w = <<>>
        \/ a = <<entry>> /\ b = <<>> /\ c = <<>> /\ w = <<entry>>
        \/ a = <<>> /\ b = <<"Contracts">> /\ c = <<>> /\ w = <<"Contracts">>
        \/ a = <<>> /\ b = <<>> /\ c = <<"Groups">> /\ w = <<"Groups">>
        \/ a = <<entry>> /\ b = <<"Contracts">> /\ c = <<>> /\ w = <<entry, "Contracts">>
        \/ a = <<entry>> /\ b = <<>> /\ c = <<"Groups">> /\ w = <<entry, "Groups">>
        \/ a = <<>> /\ b = <<"Contracts">> /\ c = <<"Groups">> /\ w = <<"Contracts", "Groups">>
        \/ a = <<entry>> /\ b = <<"Contracts">> /\ c = <<"Groups">>
           /\ w = <<entry, "Contracts", "Groups">>
    BY <1>4, <2>1, WordsJoin
  <2> QED
    BY <1>7, <2>2, <2>3, Zenon
<1>9. w \in PossibleWords
  BY <1>0, <1>8, Zenon DEF PossibleWords
<1>10. ASSUME Flags \cap scope # {}
       PROVE  /\ IsInjective(w) /\ w # <<>>
              /\ ToSet(w) = {WordOf[f] : f \in Flags \cap scope}
  <2>1. {WordOf[f] : f \in Flags \cap scope} =
            {x \in {entry, "Contracts", "Groups"} :
                \/ x = entry /\ "CALLED_BY_ENTRY" \in scope
                \/ x = "Contracts" /\ "CUSTOM_CONTRACTS" \in scope
                \/ x = "Groups" /\ "CUSTOM_GROUPS" \in scope}
    BY <1>5 DEF Flags
  <2>2. ~Known(FALSE, FALSE, FALSE)
    BY <1>10 DEF Flags
  <2>11. Len(<<>>) = 0 /\ 0 # 1 /\ 0 # 2 /\ 0 # 3
    OBVIOUS
  <2>10. /\ entry # "Contracts" /\ entry # "Groups" /\ "Contracts" # "Groups"
    BY <1>0, Zenon
  <2>3. CASE Known(TRUE, FALSE, FALSE) /\ w = <<entry>>
    <3>1. IsInjective(w) /\ ToSet(w) = {entry} /\ Len(w) = 1
      BY <2>3, OneWord, Zenon
    <3>2. {WordOf[f] : f \in Flags \cap scope} = {entry}
      BY <2>1, <2>3
    <3>3. w # <<>>
      BY <2>11, <3>1, Zenon
    <3> QED
      BY <3>1, <3>2, <3>3, Zenon
  <2>4. CASE Known(FALSE, TRUE, FALSE) /\ w = <<"Contracts">>
    <3>1. IsInjective(w) /\ ToSet(w) = {"Contracts"} /\ Len(w) = 1
      BY <2>4, OneWord, Zenon
    <3>2. {WordOf[f] : f \in Flags \cap scope} = {"Contracts"}
      BY <2>1, <2>4
    <3>3. w # <<>>
      BY <2>11, <3>1, Zenon
    <3> QED
      BY <3>1, <3>2, <3>3, Zenon
  <2>5. CASE Known(FALSE, FALSE, TRUE) /\ w = <<"Groups">>
    <3>1. IsInjective(w) /\ ToSet(w) = {"Groups"} /\ Len(w) = 1
      BY <2>5, OneWord, Zenon
    <3>2. {WordOf[f] : f \in Flags \cap scope} = {"Groups"}
      BY <2>1, <2>5
    <3>3. w # <<>>
      BY <2>11, <3>1, Zenon
    <3> QED
      BY <3>1, <3>2, <3>3, Zenon
  <2>6. CASE Known(TRUE, TRUE, FALSE) /\ w = <<entry, "Contracts">>
    <3>0. IsPair(w, entry, "Contracts")
      BY <2>6 DEF IsPair
    <3>1. IsInjective(w) /\ ToSet(w) = {entry, "Contracts"} /\ Len(w) = 2
      BY <2>10, <3>0, TwoWords
    <3>2. {WordOf[f] : f \in Flags \cap scope} = {entry, "Contracts"}
      BY <2>1, <2>6
    <3>3. w # <<>>
      BY <2>11, <3>1, Zenon
    <3> QED
      BY <3>1, <3>2, <3>3, Zenon
  <2>7. CASE Known(TRUE, FALSE, TRUE) /\ w = <<entry, "Groups">>
    <3>0. IsPair(w, entry, "Groups")
      BY <2>7 DEF IsPair
    <3>1. IsInjective(w) /\ ToSet(w) = {entry, "Groups"} /\ Len(w) = 2
      BY <2>10, <3>0, TwoWords
    <3>2. {WordOf[f] : f \in Flags \cap scope} = {entry, "Groups"}
      BY <2>1, <2>7
    <3>3. w # <<>>
      BY <2>11, <3>1, Zenon
    <3> QED
      BY <3>1, <3>2, <3>3, Zenon
  <2>8. CASE Known(FALSE, TRUE, TRUE) /\ w = <<"Contracts", "Groups">>
    <3>0. IsPair(w, "Contracts", "Groups")
      BY <2>8 DEF IsPair
    <3>1. IsInjective(w) /\ ToSet(w) = {"Contracts", "Groups"} /\ Len(w) = 2
      BY <2>10, <3>0, TwoWords
    <3>2. {WordOf[f] : f \in Flags \cap scope} = {"Contracts", "Groups"}
      BY <2>1, <2>8
    <3>3. w # <<>>
      BY <2>11, <3>1, Zenon
    <3> QED
      BY <3>1, <3>2, <3>3, Zenon
  <2>9. CASE Known(TRUE, TRUE, TRUE) /\ w = <<entry, "Contracts", "Groups">>
    <3>0. IsTriple(w, entry, "Contracts", "Groups")
      BY <2>9 DEF IsTriple
    <3>1. IsInjective(w) /\ ToSet(w) = {entry, "Contracts", "Groups"} /\ Len(w) = 3
      BY <2>10, <3>0, ThreeWords
    <3>2. {WordOf[f] : f \in Flags \cap scope} = {entry, "Contracts", "Groups"}
      BY <2>1, <2>9
    <3>3. w # <<>>
      BY <2>11, <3>1, Zenon
    <3> QED
      BY <3>1, <3>2, <3>3, Zenon
  <2> HIDE DEF Known
  <2> QED
    BY <1>8, <2>2, <2>3, <2>4, <2>5, <2>6, <2>7, <2>8, <2>9, Zenon
<1> QED
  BY <1>9, <1>10

\* A screen of a scope shows it, whatever g_scope had in it.
LEMMA ScopeScreen ==
    ASSUME NEW scope, parse_scope_name(scope), g_scope \in PossibleWords
    PROVE  g_scope' \in PossibleWords /\ ScopeIsShown'
<1>1. PICK w : w = ScopeWords(scope)
  OBVIOUS
<1>2. g_scope' = (IF w = <<>> THEN g_scope ELSE w) /\ page' = [scope |-> scope, words |-> g_scope']
  BY <1>1 DEF parse_scope_name
<1>3. page'.scope = scope /\ page'.words = g_scope'
  BY <1>2
<1>4. <<"None">> # <<>> /\ <<"Global">> # <<>>
  <2>1. Len(<<>>) = 0 /\ Len(<<"None">>) = 1 /\ Len(<<"Global">>) = 1
    OBVIOUS
  <2> QED
    BY <2>1
<1>5. CASE scope = {}
  <2>1. w = <<"None">>
    BY <1>1, <1>5, Zenon DEF ScopeWords
  <2>2. g_scope' = <<"None">>
    BY <1>2, <1>4, <2>1, Zenon
  <2> QED
    BY <1>3, <1>5, <2>2, Zenon DEF ScopeIsShown, PossibleWords
<1>6. CASE scope = {"GLOBAL"}
  <2>0. scope # {}
    BY <1>6
  <2>1. w = <<"Global">>
    BY <1>1, <1>6, <2>0 DEF ScopeWords
  <2>2. g_scope' = <<"Global">>
    BY <1>2, <1>4, <2>1, Zenon
  <2>3. g_scope' \in PossibleWords
    BY <2>2, Zenon DEF PossibleWords
  <2>4. Flags \cap scope = {}
    BY <1>6 DEF Flags
  <2> QED
    BY <1>3, <1>6, <2>0, <2>2, <2>3, <2>4 DEF ScopeIsShown
<1>7. CASE scope # {} /\ scope # {"GLOBAL"}
  <2>1. w \in PossibleWords
    BY <1>1, <1>7, FlagWordsAre
  <2>2. g_scope' \in PossibleWords
    BY <1>2, <2>1, Zenon
  <2>3. ASSUME Flags \cap scope # {}
        PROVE  IsInjective(g_scope') /\ ToSet(g_scope') = {WordOf[f] : f \in Flags \cap scope}
    <3>1. IsInjective(w) /\ ToSet(w) = {WordOf[f] : f \in Flags \cap scope} /\ w # <<>>
      BY <1>1, <1>7, <2>3, FlagWordsAre
    <3>2. g_scope' = w
      BY <1>2, <3>1, Zenon
    <3> QED
      BY <3>1, <3>2, Zenon
  <2> QED
    BY <1>3, <1>7, <2>2, <2>3 DEF ScopeIsShown
<1> QED
  BY <1>5, <1>6, <1>7

-----------------------------------------------------------------------------
(* base58_encode. *)

Byte == 0..255
DigitsIn(n) == {s \in Seq(0..57) : Len(s) = n}
Loops(n) == [digits : DigitsIn(n), carry : Nat, stop_at : Int, ended : BOOLEAN]
States(n) == [digits : DigitsIn(n), stop_at : Int]

\* A digit in base 58 is one.
LEMMA DigitAt ==
    ASSUME NEW n \in Nat, NEW d \in DigitsIn(n), NEW p \in 1..n
    PROVE  d[p] \in 0..57
<1>1. d \in Seq(0..57) /\ Len(d) = n
  BY DEF DigitsIn
<1> QED
  BY <1>1, ElementOfSeq

\* A digit of a text is replaced.
IsReplaced(e, d, p, c) == e = [d EXCEPT ![p] = c]

\* The other digits stay as they are.
LEMMA DigitReplaced ==
    ASSUME NEW n \in Nat, NEW d \in DigitsIn(n), NEW p \in 1..n, NEW c \in 0..57,
           NEW e, IsReplaced(e, d, p, c)
    PROVE  /\ e \in DigitsIn(n) /\ e[p] = c
           /\ \A k \in 1..n : k # p => e[k] = d[k]
<1>1. d \in Seq(0..57) /\ Len(d) = n
  BY DEF DigitsIn
<1>2. e \in Seq(0..57) /\ Len(e) = n /\ e[p] = c
  BY <1>1 DEF IsReplaced
<1>3. \A k \in 1..n : k # p => e[k] = d[k]
  BY <1>1 DEF IsReplaced
<1> QED
  BY <1>2, <1>3 DEF DigitsIn

\* m is the step of the inner loop at position p, index p - 1; sum is what it
\* divides by 58.
IsStep(m, sum, l, p, stop_at) ==
    m = AddToDigit(l, p - 1, stop_at) /\ sum = l.carry + 256 * l.digits[p]

\* What one step of the inner loop does.
LEMMA StepIs ==
    ASSUME NEW n \in Nat, NEW l \in Loops(n), NEW p \in 1..n, NEW stop_at \in Int,
           ~l.ended, NEW m, NEW sum, IsStep(m, sum, l, p, stop_at)
    PROVE  /\ m \in Loops(n) /\ sum \in Nat
           /\ m.digits = [l.digits EXCEPT ![p] = sum % 58]
           /\ m.carry = sum \div 58
           /\ m.ended <=> Beyond(p - 1, stop_at) /\ sum \div 58 = 0
           /\ m.stop_at = IF m.ended THEN p - 1 ELSE -1
<1>a. m = AddToDigit(l, p - 1, stop_at)
  BY DEF IsStep
<1>b. sum = l.carry + 256 * l.digits[p]
  BY DEF IsStep
<1>1. l.digits \in DigitsIn(n) /\ l.carry \in Nat
  BY DEF Loops
<1>2. sum \in Nat
  <2>1. PICK c \in 0..57 : c = l.digits[p]
    BY <1>1, DigitAt
  <2>2. PICK r \in Nat : r = l.carry
    BY <1>1
  <2>3. r + 256 * c \in Nat
    OBVIOUS
  <2> QED
    BY <1>b, <2>1, <2>2, <2>3, Zenon
<1>3. PICK c \in 0..57 : c = sum % 58
  BY <1>2
<1>4. PICK r \in Nat : r = sum \div 58
  BY <1>2
<1>5. PICK e : e = [l.digits EXCEPT ![p] = c]
  OBVIOUS
<1>6. e \in DigitsIn(n)
  BY <1>1, <1>5, DigitReplaced DEF IsReplaced
<1>7. PICK b \in BOOLEAN : b = (Beyond(p - 1, stop_at) /\ r = 0)
  OBVIOUS
<1>8. (p - 1) + 1 = p
  OBVIOUS
<1>9. m = [digits |-> e, carry |-> r, stop_at |-> IF b THEN p - 1 ELSE -1, ended |-> b]
  <2>1. PICK x : x = (p - 1) + 1
    OBVIOUS
  <2>2. PICK s : s = l.carry + 256 * l.digits[x]
    OBVIOUS
  <2>3. PICK ends : ends = (Beyond(p - 1, stop_at) /\ s \div 58 = 0)
    OBVIOUS
  <2>4. m = [digits |-> [l.digits EXCEPT ![x] = s % 58], carry |-> s \div 58,
             stop_at |-> IF ends THEN p - 1 ELSE -1, ended |-> ends]
    <3>1. AddToDigit(l, p - 1, stop_at) =
              [digits |-> [l.digits EXCEPT ![x] = s % 58], carry |-> s \div 58,
               stop_at |-> IF ends THEN p - 1 ELSE -1, ended |-> ends]
      BY <2>1, <2>2, <2>3, Zenon DEF AddToDigit
    <3> QED
      BY <1>a, <3>1, Zenon
  <2>5. x = p /\ s = sum
    BY <1>b, <1>8, <2>1, <2>2, Zenon
  <2>6. s % 58 = c /\ s \div 58 = r
    BY <1>3, <1>4, <2>5, Zenon
  <2>7. ends = b
    BY <1>7, <2>3, <2>6, Zenon
  <2>8. [l.digits EXCEPT ![x] = s % 58] = e
    BY <1>5, <2>5, <2>6, Zenon
  <2> QED
    BY <2>4, <2>6, <2>7, <2>8, Zenon
<1>10. m.digits = e /\ m.carry = r /\ m.ended = b /\ m.stop_at = IF b THEN p - 1 ELSE -1
  BY <1>9
<1>11. m \in Loops(n)
  BY <1>6, <1>9 DEF Loops
<1>12. m.digits = [l.digits EXCEPT ![p] = sum % 58]
  BY <1>3, <1>5, <1>10, Zenon
<1>13. m.carry = sum \div 58
  BY <1>4, <1>10, Zenon
<1>14. m.ended <=> Beyond(p - 1, stop_at) /\ sum \div 58 = 0
  BY <1>4, <1>7, <1>10, Zenon
<1>15. m.stop_at = IF m.ended THEN p - 1 ELSE -1
  BY <1>10, Zenon
<1> QED
  BY <1>2, <1>11, <1>12, <1>13, <1>14, <1>15, Zenon

\* A step of the inner loop, or none when it has ended.
LEMMA StepType ==
    ASSUME NEW n \in Nat, NEW l \in Loops(n), NEW p \in 1..n, NEW stop_at \in Int
    PROVE  AddToDigit(l, p - 1, stop_at) \in Loops(n)
<1>1. CASE l.ended
  BY <1>1 DEF AddToDigit
<1>2. CASE ~l.ended
  <2>1. PICK m : m = AddToDigit(l, p - 1, stop_at)
    OBVIOUS
  <2>2. PICK sum : sum = l.carry + 256 * l.digits[p]
    OBVIOUS
  <2>3. IsStep(m, sum, l, p, stop_at)
    BY <2>1, <2>2, Zenon DEF IsStep
  <2>4. m \in Loops(n)
    BY <1>2, <2>3, StepIs
  <2> QED
    BY <2>1, <2>4, Zenon
<1> QED
  BY <1>1, <1>2

\* The inner loop, from the last digit on.
IsLoop(loop, n, state, byte) ==
    /\ loop \in [0..n -> Loops(n)]
    /\ loop[0] = [digits |-> state.digits, carry |-> byte, stop_at |-> -1, ended |-> FALSE]
    /\ \A k \in 1..n : loop[k] = AddToDigit(loop[k - 1], n - k, state.stop_at)

\* AddByte is what the loop comes to.
LEMMA LoopIs ==
    ASSUME NEW n \in Nat, NEW state \in States(n), NEW byte \in Nat
    PROVE  \E loop : /\ IsLoop(loop, n, state, byte)
                     /\ AddByte(state, byte) =
                            [digits |-> loop[n].digits, stop_at |-> loop[n].stop_at]
<1>1. state.digits \in DigitsIn(n) /\ Len(state.digits) = n /\ state.stop_at \in Int
  BY DEF States, DigitsIn
<1> DEFINE a == [digits |-> state.digits, carry |-> byte, stop_at |-> -1, ended |-> FALSE]
           After(x) == AddToDigit(x[1], n - x[2], state.stop_at)
           G == [x \in Loops(n) \X (1..n) |-> After(x)]
<1>2. a \in Loops(n)
  BY <1>1 DEF Loops
<1>3. ASSUME NEW x \in Loops(n), NEW k \in 1..n
      PROVE  /\ After(<<x, k>>) \in Loops(n)
             /\ G[<<x, k>>] = AddToDigit(x, n - k, state.stop_at)
  <2>1. G[<<x, k>>] = After(<<x, k>>) /\ After(<<x, k>>) = AddToDigit(x, n - k, state.stop_at)
    OBVIOUS
  <2>2. PICK p \in 1..n : p - 1 = n - k
    <3>1. n - k + 1 \in 1..n /\ (n - k + 1) - 1 = n - k
      OBVIOUS
    <3> QED
      BY <3>1
  <2>3. AddToDigit(x, p - 1, state.stop_at) \in Loops(n)
    BY <1>1, StepType
  <2> HIDE DEF After, G
  <2> QED
    BY <2>1, <2>2, <2>3
<1>4. G \in [Loops(n) \X (1..n) -> Loops(n)]
  <2>1. \A x \in Loops(n) \X (1..n) : After(x) \in Loops(n)
    <3> SUFFICES ASSUME NEW x \in Loops(n) \X (1..n) PROVE After(x) \in Loops(n)
      OBVIOUS
    <3>1. x[1] \in Loops(n) /\ x[2] \in 1..n /\ x = <<x[1], x[2]>>
      OBVIOUS
    <3> HIDE DEF After
    <3> QED
      BY <1>3, <3>1
  <2> HIDE DEF After
  <2> QED
    BY <2>1
<1> HIDE DEF G, After, a
<1>5. PICK g \in [0..n -> Loops(n)] : IsIterated(g, n, a, G)
  BY <1>2, <1>4, Iterates
<1> DEFINE Step(f) ==
        [k \in 0..n |-> IF k = 0
                        THEN [digits |-> state.digits, carry |-> byte, stop_at |-> -1, ended |-> FALSE]
                        ELSE AddToDigit(f[k - 1], n - k, state.stop_at)]
           F == CHOOSE f : f = Step(f)
<1>6. ASSUME NEW k \in 0..n
      PROVE  g[k] = IF k = 0 THEN a ELSE AddToDigit(g[k - 1], n - k, state.stop_at)
  <2>1. g[k] = IF k = 0 THEN a ELSE G[<<g[k - 1], k>>]
    BY <1>5 DEF IsIterated
  <2>2. k # 0 => k \in 1..n /\ g[k - 1] \in Loops(n)
    OBVIOUS
  <2> QED
    BY <1>3, <2>1, <2>2
<1>7. g = Step(g)
  BY <1>5, <1>6 DEF a
<1>8. F = Step(F)
  BY <1>7
<1>9. AddByte(state, byte) = [digits |-> F[n].digits, stop_at |-> F[n].stop_at]
  BY <1>1 DEF AddByte
<1> HIDE DEF F
<1>10. F[0] = a /\ \A k \in 1..n : F[k] = AddToDigit(F[k - 1], n - k, state.stop_at)
  <2>1. \A k \in 0..n : F[k] = IF k = 0 THEN a ELSE AddToDigit(F[k - 1], n - k, state.stop_at)
    BY <1>8 DEF a
  <2> QED
    BY <2>1
<1>11. F \in [0..n -> Loops(n)]
  <2>1. F = [k \in 0..n |-> F[k]]
    BY <1>8
  <2> DEFINE S == {k \in Nat : k <= n => F[k] \in Loops(n)}
  <2>2. 0 \in S
    BY <1>2, <1>10
  <2>3. ASSUME NEW k \in Nat, k \in S PROVE k + 1 \in S
    <3> SUFFICES ASSUME k + 1 <= n PROVE F[k + 1] \in Loops(n)
      OBVIOUS
    <3>1. k + 1 \in 1..n /\ k + 1 - 1 = k /\ F[k] \in Loops(n)
      BY <2>3
    <3>2. F[k + 1] = AddToDigit(F[k], n - (k + 1), state.stop_at)
      BY <1>10, <3>1
    <3>3. PICK p \in 1..n : p - 1 = n - (k + 1)
      <4>1. n - k \in 1..n /\ (n - k) - 1 = n - (k + 1)
        BY <3>1
      <4> QED
        BY <4>1
    <3>4. AddToDigit(F[k], p - 1, state.stop_at) \in Loops(n)
      BY <1>1, <3>1, StepType
    <3> QED
      BY <3>2, <3>3, <3>4
  <2> HIDE DEF S
  <2>4. Nat \subseteq S
    BY <2>2, <2>3, SetInduction
  <2>5. \A k \in 0..n : F[k] \in Loops(n)
    BY <2>4 DEF S
  <2> QED
    BY <2>1, <2>5
<1>12. IsLoop(F, n, state, byte)
  BY <1>10, <1>11 DEF IsLoop, a
<1> QED
  BY <1>9, <1>12

\* It leaves digits and a stop_at.
LEMMA ByteType ==
    ASSUME NEW n \in Nat, NEW state \in States(n), NEW byte \in Nat
    PROVE  AddByte(state, byte) \in States(n)
<1>1. PICK loop : /\ IsLoop(loop, n, state, byte)
                  /\ AddByte(state, byte) = [digits |-> loop[n].digits, stop_at |-> loop[n].stop_at]
  BY LoopIs
<1>2. loop[n] \in Loops(n)
  BY <1>1 DEF IsLoop
<1> QED
  BY <1>1, <1>2 DEF Loops, States

-----------------------------------------------------------------------------
(* The value of digits. *)

\* The values of the beginnings of n digits.
IsHorner(v, base, d, n) ==
    v \in [0..n -> Nat] /\ v[0] = 0 /\ \A k \in 1..n : v[k] = base * v[k - 1] + d[k]

\* The same from any value on.
IsChain(v, base, d, n) ==
    v \in [0..n -> Nat] /\ \A k \in 1..n : v[k] = base * v[k - 1] + d[k]

\* Digits have a value.
LEMMA HornerExists ==
    ASSUME NEW n \in Nat, NEW base \in Nat, NEW d, \A k \in 1..n : d[k] \in Nat
    PROVE  \E v : IsHorner(v, base, d, n)
<1> DEFINE S == {k \in Nat : k <= n => \E v : IsHorner(v, base, d, k)}
<1>1. 0 \in S
  <2>1. PICK v : v = [k \in 0..0 |-> 0]
    OBVIOUS
  <2>2. v \in [0..0 -> Nat] /\ v[0] = 0
    BY <2>1
  <2>3. IsHorner(v, base, d, 0)
    BY <2>2 DEF IsHorner
  <2> QED
    BY <2>3
<1>2. ASSUME NEW k \in Nat, k \in S PROVE k + 1 \in S
  <2> SUFFICES ASSUME k + 1 <= n PROVE \E v : IsHorner(v, base, d, k + 1)
    OBVIOUS
  <2>1. PICK v : IsHorner(v, base, d, k)
    BY <1>2
  <2>2. PICK l \in Nat : l = k + 1
    OBVIOUS
  <2>3. v \in [0..k -> Nat] /\ v[0] = 0 /\ \A h \in 1..k : v[h] = base * v[h - 1] + d[h]
    BY <2>1 DEF IsHorner
  <2>4. PICK x \in Nat : x = base * v[k] + d[l]
    <3>1. l \in 1..n
      BY <2>2
    <3>2. PICK c \in Nat : c = d[l]
      BY <3>1
    <3>3. PICK y \in Nat : y = v[k]
      BY <2>3
    <3>4. base * y + c \in Nat
      OBVIOUS
    <3> QED
      BY <3>2, <3>3, <3>4, Zenon
  <2>5. PICK u : u = [h \in 0..l |-> IF h = l THEN x ELSE v[h]]
    OBVIOUS
  <2>6. u \in [0..l -> Nat]
    <3>1. \A h \in 0..l : h = l \/ h \in 0..k
      BY <2>2
    <3> QED
      BY <2>3, <2>5, <3>1
  <2>7. ASSUME NEW h \in 1..l PROVE u[h] = base * u[h - 1] + d[h]
    <3>1. h - 1 \in 0..l /\ h - 1 # l /\ (h # l => h \in 1..k) /\ (h = l => h - 1 = k)
      BY <2>2
    <3>2. u[h - 1] = v[h - 1]
      BY <2>5, <3>1
    <3>3. CASE h = l
      <4>1. u[h] = x
        BY <2>5, <3>3
      <4> QED
        BY <2>4, <3>1, <3>2, <3>3, <4>1, Zenon
    <3>4. CASE h # l
      <4>1. u[h] = v[h]
        BY <2>5, <3>4
      <4> QED
        BY <2>3, <3>1, <3>2, <3>4, <4>1, Zenon
    <3> QED
      BY <3>3, <3>4
  <2>8. u[0] = 0
    BY <2>2, <2>3, <2>5
  <2>9. IsHorner(u, base, d, l)
    BY <2>6, <2>7, <2>8 DEF IsHorner
  <2> QED
    BY <2>2, <2>9
<1> HIDE DEF S
<1>3. n \in S
  BY <1>1, <1>2, SetInduction
<1> QED
  BY <1>3 DEF S

\* The powers of a number.
IsPowers(w, base, m) ==
    w \in [0..m -> Nat] /\ w[0] = 1 /\ \A k \in 1..m : w[k] = base * w[k - 1]

\* From a value that is not zero on, it grows by a power.
LEMMA ChainGrows ==
    ASSUME NEW n \in Nat, NEW v, NEW base \in Nat, NEW d, IsChain(v, base, d, n),
           \A k \in 1..n : d[k] \in Nat,
           NEW m \in Nat, NEW w, IsPowers(w, base, m), NEW a \in Nat, a + m <= n,
           NEW c \in Nat, v[a] >= c
    PROVE  v[a + m] >= c * w[m]
<1>1. v \in [0..n -> Nat] /\ \A k \in 1..n : v[k] = base * v[k - 1] + d[k]
  BY DEF IsChain
<1>2. w \in [0..m -> Nat] /\ w[0] = 1 /\ \A k \in 1..m : w[k] = base * w[k - 1]
  BY DEF IsPowers
<1> DEFINE S == {k \in Nat : k <= m => v[a + k] >= c * w[k]}
<1>3. 0 \in S
  BY <1>2
<1>4. ASSUME NEW k \in Nat, k \in S PROVE k + 1 \in S
  <2> SUFFICES ASSUME k + 1 <= m PROVE v[a + (k + 1)] >= c * w[k + 1]
    OBVIOUS
  <2>1. PICK x \in Nat : x = v[a + k] /\ x >= c * w[k]
    BY <1>1, <1>4
  <2>2. PICK y \in Nat : y = w[k]
    BY <1>2
  <2>3. PICK e \in Nat : e = d[a + (k + 1)]
    <3>1. a + (k + 1) \in 1..n
      OBVIOUS
    <3> QED
      BY <3>1
  <2>4. v[a + (k + 1)] = base * x + e
    <3>1. a + (k + 1) \in 1..n /\ a + (k + 1) - 1 = a + k
      OBVIOUS
    <3> QED
      BY <1>1, <2>1, <2>3, <3>1
  <2>5. w[k + 1] = base * y
    <3>1. k + 1 \in 1..m /\ k + 1 - 1 = k
      OBVIOUS
    <3> QED
      BY <1>2, <2>2, <3>1
  <2>6. x >= c * y
    BY <2>1, <2>2
  <2>7. base * x + e >= c * (base * y)
    <3>1. PICK z \in Nat : z = c * y
      OBVIOUS
    <3>2. c * (base * y) = base * z
      BY <3>1
    <3>3. PICK f \in Nat : x = z + f
      BY <2>6, <3>1
    <3>4. base * x = base * z + base * f
      BY <3>3
    <3>5. base * f \in Nat /\ base * z \in Nat
      OBVIOUS
    <3> QED
      BY <3>2, <3>4, <3>5
  <2> QED
    BY <2>4, <2>5, <2>7
<1> HIDE DEF S
<1>5. m \in S
  BY <1>3, <1>4, SetInduction
<1> QED
  BY <1>5 DEF S

\* It is less than the next power.
LEMMA ChainBelow ==
    ASSUME NEW n \in Nat, NEW v, NEW base \in Nat, NEW d, IsChain(v, base, d, n),
           \A k \in 1..n : d[k] \in 0..(base - 1),
           NEW m \in Nat, NEW w, IsPowers(w, base, m), NEW a \in Nat, a + m <= n,
           NEW c \in Nat, v[a] < c
    PROVE  v[a + m] < c * w[m]
<1>1. v \in [0..n -> Nat] /\ \A k \in 1..n : v[k] = base * v[k - 1] + d[k]
  BY DEF IsChain
<1>2. w \in [0..m -> Nat] /\ w[0] = 1 /\ \A k \in 1..m : w[k] = base * w[k - 1]
  BY DEF IsPowers
<1> DEFINE S == {k \in Nat : k <= m => v[a + k] < c * w[k]}
<1>3. 0 \in S
  BY <1>2
<1>4. ASSUME NEW k \in Nat, k \in S PROVE k + 1 \in S
  <2> SUFFICES ASSUME k + 1 <= m PROVE v[a + (k + 1)] < c * w[k + 1]
    OBVIOUS
  <2>1. PICK x \in Nat : x = v[a + k] /\ x < c * w[k]
    BY <1>1, <1>4
  <2>2. PICK y \in Nat : y = w[k]
    BY <1>2
  <2>3. PICK e \in Nat : e = d[a + (k + 1)] /\ e < base
    <3>1. a + (k + 1) \in 1..n
      OBVIOUS
    <3> QED
      BY <3>1
  <2>4. v[a + (k + 1)] = base * x + e
    <3>1. a + (k + 1) \in 1..n /\ a + (k + 1) - 1 = a + k
      OBVIOUS
    <3> QED
      BY <1>1, <2>1, <2>3, <3>1
  <2>5. w[k + 1] = base * y
    <3>1. k + 1 \in 1..m /\ k + 1 - 1 = k
      OBVIOUS
    <3> QED
      BY <1>2, <2>2, <3>1
  <2>6. x < c * y
    BY <2>1, <2>2
  <2>7. base * x + e < c * (base * y)
    <3>1. PICK z \in Nat : z = c * y
      OBVIOUS
    <3>2. c * (base * y) = base * z
      BY <3>1
    <3>3. PICK f \in Nat : z = x + 1 + f
      BY <2>6, <3>1
    <3>4. base * z = base * x + base + base * f
      BY <3>3
    <3>5. base * f \in Nat /\ base * x \in Nat
      OBVIOUS
    <3> QED
      BY <2>3, <3>2, <3>4, <3>5
  <2> QED
    BY <2>4, <2>5, <2>7
<1> HIDE DEF S
<1>5. m \in S
  BY <1>3, <1>4, SetInduction
<1> QED
  BY <1>5 DEF S

\* Leading zeros have no value.
LEMMA ZerosHaveNoValue ==
    ASSUME NEW n \in Nat, NEW v, NEW base \in Nat, NEW d, IsHorner(v, base, d, n),
           NEW m \in 0..n, \A k \in 1..m : d[k] = 0
    PROVE  v[m] = 0
<1>1. v[0] = 0 /\ \A k \in 1..n : v[k] = base * v[k - 1] + d[k]
  BY DEF IsHorner
<1> DEFINE S == {k \in Nat : k <= m => v[k] = 0}
<1>2. 0 \in S
  BY <1>1
<1>3. ASSUME NEW k \in Nat, k \in S PROVE k + 1 \in S
  <2> SUFFICES ASSUME k + 1 <= m PROVE v[k + 1] = 0
    OBVIOUS
  <2>1. v[k] = 0 /\ k + 1 \in 1..n /\ k + 1 - 1 = k /\ d[k + 1] = 0
    BY <1>3
  <2>2. v[k + 1] = base * v[k] + d[k + 1]
    BY <1>1, <2>1
  <2>3. base * 0 + 0 = 0
    OBVIOUS
  <2> QED
    BY <2>1, <2>2, <2>3, Zenon
<1> HIDE DEF S
<1>4. m \in S
  BY <1>2, <1>3, SetInduction
<1> QED
  BY <1>4 DEF S

-----------------------------------------------------------------------------
(* One byte more. *)

\* The digits stand for a number, and have not been reached up to stop_at.
StandsFor(state, n, number) ==
    /\ state \in States(n)
    /\ \A h \in 1..n : h <= state.stop_at => state.digits[h] = 0
    /\ \E v : IsHorner(v, 58, state.digits, n) /\ v[n] = number

\* From position q on the digits d come to the number when they start from x.
ComesTo(q, n, x, d, number) ==
    \E w \in [q..n -> Nat] :
        /\ w[q] = x /\ w[n] = number
        /\ \A p \in (q + 1)..n : w[p] = 58 * w[p - 1] + d[p]

\* The loop before it adds to the digit at position q.
Running(l, q, n, d, v, stop_at, number) ==
    /\ l \in Loops(n) /\ ~l.ended
    /\ \A p \in 1..q : l.digits[p] = d[p]
    /\ ComesTo(q, n, 256 * v[q] + l.carry, l.digits, number)
    /\ q < stop_at => l.carry # 0

\* The loop when it has ended at position p.
Finished(l, n, stop_at, number) ==
    /\ l \in Loops(n) /\ l.ended
    /\ \E p \in 1..n :
          /\ l.stop_at = p - 1 /\ p <= stop_at
          /\ \A h \in 1..n : h < p => l.digits[h] = 0
          /\ p = stop_at \/ l.digits[p] # 0
    /\ \E w : IsHorner(w, 58, l.digits, n) /\ w[n] = number

\* The value of digits is the same after a step has moved its carry on.
LEMMA OneMoreDigit ==
    ASSUME NEW n \in Nat, NEW q \in 1..n, NEW x \in Nat, NEW y \in Nat, NEW d, NEW e,
           NEW number, ComesTo(q, n, x, d, number),
           \A p \in 1..n : p # q => e[p] = d[p], x = 58 * y + e[q]
    PROVE  ComesTo(q - 1, n, y, e, number)
<1>1. PICK w \in [q..n -> Nat] : /\ w[q] = x /\ w[n] = number
                                 /\ \A p \in (q + 1)..n : w[p] = 58 * w[p - 1] + d[p]
  BY DEF ComesTo
<1>2. PICK o \in Nat : o = q - 1 /\ o + 1 = q
  OBVIOUS
<1>3. PICK u : u = [p \in o..n |-> IF p = o THEN y ELSE w[p]]
  OBVIOUS
<1>4. u \in [o..n -> Nat]
  <2>1. \A p \in o..n : p = o \/ p \in q..n
    BY <1>2
  <2> QED
    BY <1>1, <1>3, <2>1
<1>5. u[o] = y /\ u[n] = number
  BY <1>1, <1>2, <1>3
<1>6. ASSUME NEW p \in (o + 1)..n PROVE u[p] = 58 * u[p - 1] + e[p]
  <2>1. CASE p = q
    <3>1. p - 1 = o /\ p # o /\ p \in o..n
      BY <1>2, <2>1
    <3>2. u[p] = w[q] /\ u[p - 1] = y
      BY <1>3, <1>5, <2>1, <3>1
    <3> QED
      BY <1>1, <2>1, <3>2
  <2>2. CASE p # q
    <3>1. p \in (q + 1)..n /\ p - 1 # o /\ p # o /\ p \in o..n /\ p - 1 \in o..n /\ p \in 1..n
      BY <1>2, <2>2
    <3>2. u[p] = w[p] /\ u[p - 1] = w[p - 1]
      BY <1>3, <3>1
    <3>3. w[p] = 58 * w[p - 1] + d[p] /\ e[p] = d[p]
      BY <1>1, <2>2, <3>1
    <3> QED
      BY <3>2, <3>3
  <2> QED
    BY <2>1, <2>2
<1> QED
  BY <1>2, <1>4, <1>5, <1>6 DEF ComesTo

\* Zeros up to there: it is the value of the digits.
LEMMA ZerosBefore ==
    ASSUME NEW n \in Nat, NEW o \in 0..n, NEW d, NEW number, ComesTo(o, n, 0, d, number),
           \A h \in 1..o : d[h] = 0
    PROVE  \E w : IsHorner(w, 58, d, n) /\ w[n] = number
<1>1. PICK w \in [o..n -> Nat] : /\ w[o] = 0 /\ w[n] = number
                                 /\ \A p \in (o + 1)..n : w[p] = 58 * w[p - 1] + d[p]
  BY DEF ComesTo
<1>2. PICK u : u = [p \in 0..n |-> IF p <= o THEN 0 ELSE w[p]]
  OBVIOUS
<1>3. u \in [0..n -> Nat]
  <2>1. \A p \in 0..n : p <= o \/ p \in o..n
    OBVIOUS
  <2> QED
    BY <1>1, <1>2, <2>1
<1>4. u[0] = 0 /\ u[n] = number
  BY <1>1, <1>2
<1>5. ASSUME NEW p \in 1..n PROVE u[p] = 58 * u[p - 1] + d[p]
  <2>1. CASE p <= o
    <3>1. u[p] = 0 /\ u[p - 1] = 0 /\ d[p] = 0
      BY <1>2, <2>1
    <3> QED
      BY <3>1
  <2>2. CASE p > o
    <3>1. p \in (o + 1)..n /\ p - 1 \in 0..n /\ ~(p <= o) /\ (p - 1 <= o => p - 1 = o)
      BY <2>2
    <3>2. u[p] = w[p] /\ u[p - 1] = w[p - 1]
      BY <1>1, <1>2, <3>1
    <3> QED
      BY <1>1, <3>1, <3>2
  <2> QED
    BY <2>1, <2>2
<1> QED
  BY <1>3, <1>4, <1>5 DEF IsHorner

\* One step of the loop.
LEMMA StepRuns ==
    ASSUME NEW n \in Nat, NEW q \in 1..n, NEW d, NEW v, IsHorner(v, 58, d, n), d \in DigitsIn(n),
           NEW stop_at \in 1..n, \A h \in 1..n : h <= stop_at => d[h] = 0, NEW number,
           NEW l, Running(l, q, n, d, v, stop_at, number),
           NEW m, m = AddToDigit(l, q - 1, stop_at)
    PROVE  Running(m, q - 1, n, d, v, stop_at, number) \/ Finished(m, n, stop_at, number)
<1>1. /\ l \in Loops(n) /\ ~l.ended /\ l.digits[q] = d[q]
      /\ \A p \in 1..q : l.digits[p] = d[p]
      /\ ComesTo(q, n, 256 * v[q] + l.carry, l.digits, number)
      /\ q < stop_at => l.carry # 0
  BY DEF Running
<1>2. l.digits \in DigitsIn(n) /\ l.carry \in Nat
  BY <1>1 DEF Loops
<1>3. PICK g \in 0..57 : g = d[q]
  BY DigitAt
<1>4. PICK carry \in Nat : carry = l.carry
  BY <1>2
<1>5. PICK sum \in Nat : sum = carry + 256 * g
  OBVIOUS
<1>6. PICK r \in Nat : r = sum \div 58
  OBVIOUS
<1>7. PICK c \in 0..57 : c = sum % 58 /\ sum = 58 * r + c
  BY <1>6
<1>8. sum = l.carry + 256 * l.digits[q]
  BY <1>1, <1>3, <1>4, <1>5, Zenon
<1>9. /\ m \in Loops(n)
      /\ m.digits = [l.digits EXCEPT ![q] = c]
      /\ m.carry = r
      /\ m.ended <=> Beyond(q - 1, stop_at) /\ r = 0
      /\ m.stop_at = IF m.ended THEN q - 1 ELSE -1
  <2>1. /\ m \in Loops(n) /\ sum \in Nat
        /\ m.digits = [l.digits EXCEPT ![q] = sum % 58]
        /\ m.carry = sum \div 58
        /\ m.ended <=> Beyond(q - 1, stop_at) /\ sum \div 58 = 0
        /\ m.stop_at = IF m.ended THEN q - 1 ELSE -1
    <3>1. IsStep(m, sum, l, q, stop_at)
      BY <1>8, Zenon DEF IsStep
    <3> QED
      BY <1>1, <3>1, StepIs
  <2> QED
    BY <1>6, <1>7, <2>1, Zenon
<1>10. m.digits \in DigitsIn(n) /\ m.digits[q] = c /\ \A p \in 1..n : p # q => m.digits[p] = l.digits[p]
  <2>1. PICK dd \in DigitsIn(n) : dd = l.digits
    BY <1>2
  <2>2. PICK e : e = m.digits
    OBVIOUS
  <2>3. IsReplaced(e, dd, q, c)
    BY <1>9, <2>1, <2>2, Zenon DEF IsReplaced
  <2>4. e \in DigitsIn(n) /\ e[q] = c /\ \A p \in 1..n : p # q => e[p] = dd[p]
    <3>1. q \in 1..n /\ c \in 0..57 /\ n \in Nat /\ dd \in DigitsIn(n)
      OBVIOUS
    <3>2. e \in DigitsIn(n)
      BY <2>3, <3>1, DigitReplaced
    <3>3. e[q] = c
      <4>1. dd \in Seq(0..57) /\ Len(dd) = n
        BY <3>1 DEF DigitsIn
      <4>2. q \in DOMAIN dd
        BY <3>1, <4>1
      <4> QED
        BY <2>3, <4>2, Zenon DEF IsReplaced
    <3>4. ASSUME NEW p \in 1..n, p # q PROVE e[p] = dd[p]
      BY <2>3, <3>1, <3>4, DigitReplaced
    <3> QED
      BY <3>2, <3>3, <3>4
  <2> QED
    BY <2>1, <2>2, <2>4
<1>11. PICK o \in Nat : o = q - 1 /\ o < q /\ o + 1 = q /\ o \in 0..n
  OBVIOUS
<1>12. PICK x \in Nat : x = v[o]
  BY <1>11 DEF IsHorner
<1>13. v[q] = 58 * x + g
  BY <1>3, <1>11, <1>12 DEF IsHorner
<1>14. ComesTo(o, n, 256 * x + r, m.digits, number)
  <2>1. PICK y \in Nat : y = 256 * x + r
    OBVIOUS
  <2>2. PICK z \in Nat : z = 58 * y + c
    OBVIOUS
  <2>3. z = 256 * (58 * x + g) + carry
    BY <1>5, <1>7, <2>1, <2>2
  <2>4. ComesTo(q, n, z, l.digits, number)
    BY <1>1, <1>4, <1>13, <2>3, Zenon
  <2>5. z = 58 * y + m.digits[q]
    BY <1>10, <2>2
  <2>6. ComesTo(q - 1, n, y, m.digits, number)
    BY <1>10, <2>4, <2>5, OneMoreDigit
  <2> QED
    BY <1>11, <2>1, <2>6
<1>15. \A p \in 1..o : m.digits[p] = d[p]
  <2>1. \A p \in 1..o : p \in 1..n /\ p # q /\ p \in 1..q
    BY <1>11
  <2> QED
    BY <1>1, <1>10, <2>1
<1>16. Beyond(q - 1, stop_at) <=> q <= stop_at
  BY DEF Beyond
<1>17. CASE ~m.ended
  <2>1. o < stop_at => r # 0
    BY <1>9, <1>11, <1>16, <1>17
  <2>2. Running(m, o, n, d, v, stop_at, number)
    BY <1>9, <1>12, <1>14, <1>15, <1>17, <2>1, Zenon DEF Running
  <2> QED
    BY <1>11, <2>2
<1>18. CASE m.ended
  <2>1. q <= stop_at /\ r = 0 /\ m.stop_at = q - 1
    BY <1>9, <1>16, <1>18
  <2>2. \A h \in 1..n : h < q => m.digits[h] = 0
    BY <1>11, <1>15, <2>1
  <2>3. x = 0
    <3>1. \A h \in 1..o : d[h] = 0
      BY <1>11, <2>1
    <3> QED
      BY <1>11, <1>12, <3>1, ZerosHaveNoValue
  <2>4. ComesTo(o, n, 0, m.digits, number)
    <3>1. 256 * x + r = 0
      BY <2>1, <2>3
    <3> QED
      BY <1>14, <3>1
  <2>5. \E w : IsHorner(w, 58, m.digits, n) /\ w[n] = number
    <3>1. \A h \in 1..o : m.digits[h] = 0
      BY <1>11, <2>2
    <3> QED
      BY <1>11, <2>4, <3>1, ZerosBefore
  <2>6. q = stop_at \/ m.digits[q] # 0
    <3> SUFFICES ASSUME q # stop_at PROVE c # 0
      BY <1>10
    <3>1. q < stop_at /\ carry # 0 /\ g = 0
      BY <1>1, <1>3, <1>4, <2>1
    <3> QED
      BY <1>5, <1>7, <2>1, <3>1
  <2>7. Finished(m, n, stop_at, number)
    BY <1>9, <1>18, <2>1, <2>2, <2>5, <2>6 DEF Finished
  <2> QED
    BY <2>7
<1> QED
  BY <1>17, <1>18

\* From there on it stays.
LEMMA EndedStays ==
    ASSUME NEW n \in Nat, NEW loop, NEW state, NEW byte, IsLoop(loop, n, state, byte),
           NEW a \in 0..n, loop[a].ended
    PROVE  loop[n] = loop[a]
<1>1. \A k \in 1..n : loop[k] = AddToDigit(loop[k - 1], n - k, state.stop_at)
  BY DEF IsLoop
<1> DEFINE S == {k \in Nat : a + k <= n => loop[a + k] = loop[a]}
<1>2. 0 \in S
  OBVIOUS
<1>3. ASSUME NEW k \in Nat, k \in S PROVE k + 1 \in S
  <2> SUFFICES ASSUME a + (k + 1) <= n PROVE loop[a + (k + 1)] = loop[a]
    OBVIOUS
  <2>1. a + (k + 1) \in 1..n /\ a + (k + 1) - 1 = a + k /\ loop[a + k] = loop[a]
    BY <1>3
  <2>2. loop[a + (k + 1)] = AddToDigit(loop[a], n - (a + (k + 1)), state.stop_at)
    BY <1>1, <2>1
  <2> QED
    BY <2>2 DEF AddToDigit
<1> HIDE DEF S
<1>4. PICK m \in Nat : m = n - a /\ a + m = n
  OBVIOUS
<1>5. m \in S
  BY <1>2, <1>3, SetInduction
<1> QED
  BY <1>4, <1>5 DEF S

\* A byte behind the number: when its digits have room for it, they stand for the number
\* with the byte; they are reached one digit further, or to a digit that is not zero.
LEMMA ByteAdds ==
    ASSUME NEW n \in Nat, NEW state, NEW number \in Nat, StandsFor(state, n, number),
           state.stop_at \in 1..n, NEW byte \in Byte, NEW sum, sum = 256 * number + byte,
           NEW powers, IsPowers(powers, 58, n), sum < powers[n],
           NEW s, s = AddByte(state, byte)
    PROVE  /\ StandsFor(s, n, sum) /\ s.stop_at \in 0..(state.stop_at - 1)
           /\ s.stop_at = state.stop_at - 1 \/ s.digits[s.stop_at + 1] # 0
<1>1. byte \in Nat /\ sum \in Nat
  BY DEF Byte
<1>2. state \in States(n) /\ \A h \in 1..n : h <= state.stop_at => state.digits[h] = 0
  BY DEF StandsFor
<1>3. PICK v : IsHorner(v, 58, state.digits, n) /\ v[n] = number
  BY DEF StandsFor
<1>4. PICK d \in DigitsIn(n) : d = state.digits
  BY <1>2 DEF States
<1>5. PICK stop_at \in 1..n : stop_at = state.stop_at
  OBVIOUS
<1>6. PICK loop : /\ IsLoop(loop, n, state, byte)
                  /\ s = [digits |-> loop[n].digits, stop_at |-> loop[n].stop_at]
  BY <1>1, <1>2, LoopIs
<1>7. /\ loop \in [0..n -> Loops(n)]
      /\ loop[0] = [digits |-> d, carry |-> byte, stop_at |-> -1, ended |-> FALSE]
      /\ \A k \in 1..n : loop[k] = AddToDigit(loop[k - 1], n - k, stop_at)
  BY <1>4, <1>5, <1>6 DEF IsLoop
<1> DEFINE R(k) == Running(loop[k], n - k, n, d, v, stop_at, sum)
           F(k) == Finished(loop[k], n, stop_at, sum)
           S == {k \in Nat : k <= n => R(k) \/ \E a \in 0..k : F(a)}
<1>8. 0 \in S
  <2>1. /\ loop[0] \in Loops(n) /\ ~loop[0].ended /\ loop[0].carry = byte /\ loop[0].digits = d
    <3>1. PICK l : l = loop[0]
      OBVIOUS
    <3>2. l = [digits |-> d, carry |-> byte, stop_at |-> -1, ended |-> FALSE]
      BY <1>7, <3>1, Zenon
    <3>3. ~l.ended /\ l.carry = byte /\ l.digits = d
      BY <3>2
    <3>4. l \in Loops(n)
      <4>1. loop \in [0..n -> Loops(n)]
        BY <1>7
      <4>2. 0 \in 0..n
        OBVIOUS
      <4> QED
        BY <3>1, <4>1, <4>2
    <3> QED
      BY <3>1, <3>3, <3>4, Zenon
  <2>2. ComesTo(n, n, sum, d, sum)
    <3>1. PICK w : w = [k \in n..n |-> sum]
      OBVIOUS
    <3>2. w \in [n..n -> Nat] /\ w[n] = sum /\ \A p \in (n + 1)..n : w[p] = 58 * w[p - 1] + d[p]
      BY <1>1, <3>1
    <3> QED
      BY <3>2 DEF ComesTo
  <2>3. 256 * v[n] + loop[0].carry = sum
    BY <1>3, <2>1, Zenon
  <2>4. ~(n < stop_at)
    OBVIOUS
  <2>5. Running(loop[0], n, n, d, v, stop_at, sum)
    BY <2>1, <2>2, <2>3, <2>4, Zenon DEF Running
  <2>6. n - 0 = n
    OBVIOUS
  <2> QED
    BY <2>5, <2>6
<1>9. ASSUME NEW k \in Nat, k \in S PROVE k + 1 \in S
  <2> SUFFICES ASSUME k + 1 <= n PROVE R(k + 1) \/ \E a \in 0..(k + 1) : F(a)
    OBVIOUS
  <2>1. R(k) \/ \E a \in 0..k : F(a)
    BY <1>9
  <2> HIDE DEF F
  <2>2. CASE \E a \in 0..k : F(a)
    BY <2>2
  <2>3. CASE R(k)
    <3>1. PICK q \in 1..n : q = n - k /\ q - 1 = n - (k + 1)
      <4>1. n - k \in 1..n /\ (n - k) - 1 = n - (k + 1)
        OBVIOUS
      <4> QED
        BY <4>1
    <3>2. loop[k + 1] = AddToDigit(loop[k], q - 1, stop_at)
      <4>1. k + 1 \in 1..n /\ k + 1 - 1 = k
        OBVIOUS
      <4> QED
        BY <1>7, <3>1, <4>1
    <3>3. Running(loop[k], q, n, d, v, stop_at, sum)
      BY <2>3, <3>1
    <3>4. IsHorner(v, 58, d, n) /\ \A h \in 1..n : h <= stop_at => d[h] = 0
      BY <1>2, <1>3, <1>4, <1>5
    <3>5. \/ Running(loop[k + 1], q - 1, n, d, v, stop_at, sum)
          \/ Finished(loop[k + 1], n, stop_at, sum)
      BY <3>2, <3>3, <3>4, StepRuns
    <3>6. k + 1 \in 0..(k + 1)
      OBVIOUS
    <3> QED
      BY <3>1, <3>5, <3>6 DEF F
  <2> QED
    BY <2>1, <2>2, <2>3
<1> HIDE DEF S, R, F
<1>10. n \in S
  BY <1>8, <1>9, SetInduction
<1>11. ~R(n)
  <2> SUFFICES ASSUME R(n) PROVE FALSE
    OBVIOUS
  <2>1. n - n = 0
    OBVIOUS
  <2>2. Running(loop[n], 0, n, d, v, stop_at, sum)
    BY <2>1 DEF R
  <2>3. ComesTo(0, n, 256 * v[0] + loop[n].carry, loop[n].digits, sum) /\ loop[n].carry # 0
        /\ loop[n] \in Loops(n)
    BY <2>2 DEF Running
  <2>4. loop[n].carry \in Nat /\ v[0] = 0 /\ loop[n].digits \in DigitsIn(n)
    BY <1>3, <2>3 DEF IsHorner, Loops
  <2>5. PICK e : e = loop[n].digits
    OBVIOUS
  <2>6. PICK w \in [0..n -> Nat] : /\ w[0] >= 1 /\ w[n] = sum
                                   /\ \A p \in (0 + 1)..n : w[p] = 58 * w[p - 1] + e[p]
    <3>1. PICK x \in Nat : x = 256 * v[0] + loop[n].carry /\ x >= 1
      BY <2>3, <2>4
    <3>2. ComesTo(0, n, x, e, sum)
      BY <2>3, <2>5, <3>1
    <3> QED
      BY <3>1, <3>2 DEF ComesTo
  <2>7. IsChain(w, 58, e, n)
    BY <2>6 DEF IsChain
  <2>8. \A p \in 1..n : e[p] \in Nat
    <3> TAKE p \in 1..n
    <3>1. e[p] \in 0..57
      BY <2>4, <2>5, DigitAt
    <3>2. \A c \in 0..57 : c \in Nat
      OBVIOUS
    <3> QED
      BY <3>1, <3>2, Zenon
  <2>9. w[0 + n] >= 1 * powers[n]
    <3>1. 0 \in Nat /\ 0 + n <= n /\ 1 \in Nat /\ 58 \in Nat
      OBVIOUS
    <3> QED
      BY <2>6, <2>7, <2>8, <3>1, ChainGrows
  <2>10. powers[n] \in Nat
    BY DEF IsPowers
  <2> QED
    BY <1>1, <2>6, <2>9, <2>10
<1>12. PICK a \in 0..n : F(a)
  BY <1>10, <1>11 DEF S
<1>13. Finished(loop[n], n, stop_at, sum)
  <2>1. Finished(loop[a], n, stop_at, sum) /\ loop[a].ended
    BY <1>12 DEF F, Finished
  <2>2. loop[n] = loop[a]
    BY <1>6, <2>1, EndedStays
  <2> QED
    BY <2>1, <2>2, Zenon
<1>14. PICK p \in 1..n : /\ loop[n].stop_at = p - 1 /\ p <= stop_at
                         /\ \A h \in 1..n : h < p => loop[n].digits[h] = 0
                         /\ p = stop_at \/ loop[n].digits[p] # 0
  BY <1>13 DEF Finished
<1>15. s.digits = loop[n].digits /\ s.stop_at = p - 1
  BY <1>6, <1>14
<1>16. s \in States(n)
  BY <1>1, <1>2, ByteType
<1>17. \E w : IsHorner(w, 58, s.digits, n) /\ w[n] = sum
  BY <1>13, <1>15 DEF Finished
<1>18. \A h \in 1..n : h <= s.stop_at => s.digits[h] = 0
  BY <1>14, <1>15
<1>19. StandsFor(s, n, sum)
  BY <1>16, <1>17, <1>18 DEF StandsFor
<1>20. s.stop_at + 1 = p
  BY <1>15
<1> QED
  BY <1>5, <1>14, <1>15, <1>19, <1>20

-----------------------------------------------------------------------------
(* The powers. *)

\* There are powers of every base.
LEMMA PowersExist ==
    ASSUME NEW base \in Nat, NEW m \in Nat
    PROVE  \E w : IsPowers(w, base, m)
<1> DEFINE G == [x \in Nat \X (1..m) |-> base * x[1]]
<1>1. G \in [Nat \X (1..m) -> Nat] /\ \A x \in Nat, k \in 1..m : G[<<x, k>>] = base * x
  OBVIOUS
<1> HIDE DEF G
<1>2. PICK w \in [0..m -> Nat] : IsIterated(w, m, 1, G)
  BY <1>1, Iterates
<1>3. \A k \in 0..m : w[k] = IF k = 0 THEN 1 ELSE G[<<w[k - 1], k>>]
  BY <1>2 DEF IsIterated
<1>4. ASSUME NEW k \in 1..m PROVE w[k] = base * w[k - 1]
  <2>1. w[k] = G[<<w[k - 1], k>>] /\ w[k - 1] \in Nat
    BY <1>2, <1>3
  <2> QED
    BY <1>1, <2>1
<1>5. w[0] = 1
  <2>1. 0 \in 0..m
    OBVIOUS
  <2> QED
    BY <1>3, <2>1, Zenon
<1> QED
  BY <1>2, <1>4, <1>5 DEF IsPowers

\* A higher power is not smaller.
LEMMA PowersGrow ==
    ASSUME NEW base \in Nat \ {0}, NEW m \in Nat, NEW w, IsPowers(w, base, m),
           NEW a \in 0..m, NEW b \in 0..m, a <= b
    PROVE  w[a] <= w[b]
<1>1. w \in [0..m -> Nat] /\ \A k \in 1..m : w[k] = base * w[k - 1]
  BY DEF IsPowers
<1> DEFINE S == {k \in Nat : a + k <= m => w[a] <= w[a + k]}
<1>2. 0 \in S
  BY <1>1
<1>3. ASSUME NEW k \in Nat, k \in S PROVE k + 1 \in S
  <2> SUFFICES ASSUME a + (k + 1) <= m PROVE w[a] <= w[a + (k + 1)]
    OBVIOUS
  <2>1. a + (k + 1) \in 1..m /\ a + (k + 1) - 1 = a + k /\ a + k \in 0..m
    OBVIOUS
  <2>2. PICK x \in Nat : x = w[a + k] /\ w[a] <= x
    BY <1>1, <1>3, <2>1
  <2>3. w[a + (k + 1)] = base * x
    BY <1>1, <2>1, <2>2
  <2>4. x <= base * x
    <3>1. PICK c \in Nat : base = c + 1
      <4>1. base - 1 \in Nat /\ base = (base - 1) + 1
        OBVIOUS
      <4> QED
        BY <4>1
    <3>2. base * x = c * x + x /\ c * x \in Nat
      BY <3>1
    <3> QED
      BY <3>2
  <2>5. w[a] \in Nat /\ base * x \in Nat
    BY <1>1
  <2> QED
    BY <2>2, <2>3, <2>4, <2>5
<1> HIDE DEF S
<1>4. PICK k \in Nat : b = a + k
  <2>1. b - a \in Nat /\ b = a + (b - a)
    OBVIOUS
  <2> QED
    BY <2>1
<1>5. k \in S
  BY <1>2, <1>3, SetInduction
<1> QED
  BY <1>4, <1>5 DEF S


\* The powers of 58 that base58_encode can need for an address.
LEMMA PowersOf58 ==
    ASSUME NEW w, IsPowers(w, 58, 35)
    PROVE  /\ w[0] = 1
           /\ w[1] = 58
           /\ w[2] = 3364
           /\ w[3] = 195112
           /\ w[4] = 11316496
           /\ w[5] = 656356768
           /\ w[6] = 38068692544
           /\ w[7] = 2207984167552
           /\ w[8] = 128063081718016
           /\ w[9] = 7427658739644928
           /\ w[10] = 430804206899405824
           /\ w[11] = 24986644000165537792
           /\ w[12] = 1449225352009601191936
           /\ w[13] = 84055070416556869132288
           /\ w[14] = 4875194084160298409672704
           /\ w[15] = 282761256881297307761016832
           /\ w[16] = 16400152899115243850138976256
           /\ w[17] = 951208868148684143308060622848
           /\ w[18] = 55170114352623680311867516125184
           /\ w[19] = 3199866632452173458088315935260672
           /\ w[20] = 185592264682226060569122324245118976
           /\ w[21] = 10764351351569111513009094806216900608
           /\ w[22] = 624332378391008467754527498760580235264
           /\ w[23] = 36211277946678491129762594928113653645312
           /\ w[24] = 2100254120907352485526230505830591911428096
           /\ w[25] = 121814739012626444160521369338174330862829568
           /\ w[26] = 7065254862732333761310239421614111190044114944
           /\ w[27] = 409784782038475358155993886453618449022558666752
           /\ w[28] = 23767517358231570773047645414309870043308402671616
           /\ w[29] = 1378516006777431104836763434029972462511887354953728
           /\ w[30] = 79953928393091004080532279173738402825689466587316224
           /\ w[31] = 4637327846799278236670872192076827363889989062064340992
           /\ w[32] = 268965015114358137726910587140455987105619365599731777536
           /\ w[33] = 15599970876632771988160814054146447252125923204784443097088
           /\ w[34] = 904798310844700775313327215140493940623303545877497699631104
           /\ w[35] = 52478302028992644968172978478148648556151605660894866578604032
<1>0. w[0] = 1 /\ \A k \in 1..35 : w[k] = 58 * w[k - 1]
  BY DEF IsPowers
<1>1. /\ w[1] = 58
      /\ w[2] = 3364
      /\ w[3] = 195112
      /\ w[4] = 11316496
      /\ w[5] = 656356768
  BY <1>0
<1>2. /\ w[6] = 38068692544
      /\ w[7] = 2207984167552
      /\ w[8] = 128063081718016
      /\ w[9] = 7427658739644928
      /\ w[10] = 430804206899405824
  BY <1>0, <1>1
<1>3. /\ w[11] = 24986644000165537792
      /\ w[12] = 1449225352009601191936
      /\ w[13] = 84055070416556869132288
      /\ w[14] = 4875194084160298409672704
      /\ w[15] = 282761256881297307761016832
  BY <1>0, <1>2
<1>4. /\ w[16] = 16400152899115243850138976256
      /\ w[17] = 951208868148684143308060622848
      /\ w[18] = 55170114352623680311867516125184
      /\ w[19] = 3199866632452173458088315935260672
      /\ w[20] = 185592264682226060569122324245118976
  BY <1>0, <1>3
<1>5. /\ w[21] = 10764351351569111513009094806216900608
      /\ w[22] = 624332378391008467754527498760580235264
      /\ w[23] = 36211277946678491129762594928113653645312
      /\ w[24] = 2100254120907352485526230505830591911428096
      /\ w[25] = 121814739012626444160521369338174330862829568
  BY <1>0, <1>4
<1>6. /\ w[26] = 7065254862732333761310239421614111190044114944
      /\ w[27] = 409784782038475358155993886453618449022558666752
      /\ w[28] = 23767517358231570773047645414309870043308402671616
      /\ w[29] = 1378516006777431104836763434029972462511887354953728
      /\ w[30] = 79953928393091004080532279173738402825689466587316224
  BY <1>0, <1>5
<1>7. /\ w[31] = 4637327846799278236670872192076827363889989062064340992
      /\ w[32] = 268965015114358137726910587140455987105619365599731777536
      /\ w[33] = 15599970876632771988160814054146447252125923204784443097088
      /\ w[34] = 904798310844700775313327215140493940623303545877497699631104
      /\ w[35] = 52478302028992644968172978478148648556151605660894866578604032
  BY <1>0, <1>6
<1> QED
  BY <1>0, <1>1, <1>2, <1>3, <1>4, <1>5, <1>6, <1>7

\* The powers of 256 below those of its bytes.
LEMMA PowersOf256 ==
    ASSUME NEW w, IsPowers(w, 256, 25)
    PROVE  /\ w[0] = 1
           /\ w[1] = 256
           /\ w[2] = 65536
           /\ w[3] = 16777216
           /\ w[4] = 4294967296
           /\ w[5] = 1099511627776
           /\ w[6] = 281474976710656
           /\ w[7] = 72057594037927936
           /\ w[8] = 18446744073709551616
           /\ w[9] = 4722366482869645213696
           /\ w[10] = 1208925819614629174706176
           /\ w[11] = 309485009821345068724781056
           /\ w[12] = 79228162514264337593543950336
           /\ w[13] = 20282409603651670423947251286016
           /\ w[14] = 5192296858534827628530496329220096
           /\ w[15] = 1329227995784915872903807060280344576
           /\ w[16] = 340282366920938463463374607431768211456
           /\ w[17] = 87112285931760246646623899502532662132736
           /\ w[18] = 22300745198530623141535718272648361505980416
           /\ w[19] = 5708990770823839524233143877797980545530986496
           /\ w[20] = 1461501637330902918203684832716283019655932542976
           /\ w[21] = 374144419156711147060143317175368453031918731001856
           /\ w[22] = 95780971304118053647396689196894323976171195136475136
           /\ w[23] = 24519928653854221733733552434404946937899825954937634816
           /\ w[24] = 6277101735386680763835789423207666416102355444464034512896
           /\ w[25] = 1606938044258990275541962092341162602522202993782792835301376
<1>0. w[0] = 1 /\ \A k \in 1..25 : w[k] = 256 * w[k - 1]
  BY DEF IsPowers
<1>1. /\ w[1] = 256
      /\ w[2] = 65536
      /\ w[3] = 16777216
      /\ w[4] = 4294967296
      /\ w[5] = 1099511627776
  BY <1>0
<1>2. /\ w[6] = 281474976710656
      /\ w[7] = 72057594037927936
      /\ w[8] = 18446744073709551616
      /\ w[9] = 4722366482869645213696
      /\ w[10] = 1208925819614629174706176
  BY <1>0, <1>1
<1>3. /\ w[11] = 309485009821345068724781056
      /\ w[12] = 79228162514264337593543950336
      /\ w[13] = 20282409603651670423947251286016
      /\ w[14] = 5192296858534827628530496329220096
      /\ w[15] = 1329227995784915872903807060280344576
  BY <1>0, <1>2
<1>4. /\ w[16] = 340282366920938463463374607431768211456
      /\ w[17] = 87112285931760246646623899502532662132736
      /\ w[18] = 22300745198530623141535718272648361505980416
      /\ w[19] = 5708990770823839524233143877797980545530986496
      /\ w[20] = 1461501637330902918203684832716283019655932542976
  BY <1>0, <1>3
<1>5. /\ w[21] = 374144419156711147060143317175368453031918731001856
      /\ w[22] = 95780971304118053647396689196894323976171195136475136
      /\ w[23] = 24519928653854221733733552434404946937899825954937634816
      /\ w[24] = 6277101735386680763835789423207666416102355444464034512896
      /\ w[25] = 1606938044258990275541962092341162602522202993782792835301376
  BY <1>0, <1>4
<1> QED
  BY <1>0, <1>1, <1>2, <1>3, <1>4, <1>5

\* The digits that are enough for k bytes.
Enough(k) == (k * 138) \div 100 + 1

\* 138 / 100 digits for a byte, and one, are enough.
LEMMA DigitsAreEnough ==
    ASSUME NEW p, IsPowers(p, 58, 35), NEW b, IsPowers(b, 256, 25), NEW k \in 1..25
    PROVE  b[k] <= p[Enough(k)] /\ Enough(k) \in 1..35
<1>1. CASE k = 1
  <2>1. Enough(k) = 2
    BY <1>1 DEF Enough
  <2> QED
    BY <1>1, <2>1, PowersOf58, PowersOf256
<1>2. CASE k = 2
  <2>1. Enough(k) = 3
    BY <1>2 DEF Enough
  <2> QED
    BY <1>2, <2>1, PowersOf58, PowersOf256
<1>3. CASE k = 3
  <2>1. Enough(k) = 5
    BY <1>3 DEF Enough
  <2> QED
    BY <1>3, <2>1, PowersOf58, PowersOf256
<1>4. CASE k = 4
  <2>1. Enough(k) = 6
    BY <1>4 DEF Enough
  <2> QED
    BY <1>4, <2>1, PowersOf58, PowersOf256
<1>5. CASE k = 5
  <2>1. Enough(k) = 7
    BY <1>5 DEF Enough
  <2> QED
    BY <1>5, <2>1, PowersOf58, PowersOf256
<1>6. CASE k = 6
  <2>1. Enough(k) = 9
    BY <1>6 DEF Enough
  <2> QED
    BY <1>6, <2>1, PowersOf58, PowersOf256
<1>7. CASE k = 7
  <2>1. Enough(k) = 10
    BY <1>7 DEF Enough
  <2> QED
    BY <1>7, <2>1, PowersOf58, PowersOf256
<1>8. CASE k = 8
  <2>1. Enough(k) = 12
    BY <1>8 DEF Enough
  <2> QED
    BY <1>8, <2>1, PowersOf58, PowersOf256
<1>9. CASE k = 9
  <2>1. Enough(k) = 13
    BY <1>9 DEF Enough
  <2> QED
    BY <1>9, <2>1, PowersOf58, PowersOf256
<1>10. CASE k = 10
  <2>1. Enough(k) = 14
    BY <1>10 DEF Enough
  <2> QED
    BY <1>10, <2>1, PowersOf58, PowersOf256
<1>11. CASE k = 11
  <2>1. Enough(k) = 16
    BY <1>11 DEF Enough
  <2> QED
    BY <1>11, <2>1, PowersOf58, PowersOf256
<1>12. CASE k = 12
  <2>1. Enough(k) = 17
    BY <1>12 DEF Enough
  <2> QED
    BY <1>12, <2>1, PowersOf58, PowersOf256
<1>13. CASE k = 13
  <2>1. Enough(k) = 18
    BY <1>13 DEF Enough
  <2> QED
    BY <1>13, <2>1, PowersOf58, PowersOf256
<1>14. CASE k = 14
  <2>1. Enough(k) = 20
    BY <1>14 DEF Enough
  <2> QED
    BY <1>14, <2>1, PowersOf58, PowersOf256
<1>15. CASE k = 15
  <2>1. Enough(k) = 21
    BY <1>15 DEF Enough
  <2> QED
    BY <1>15, <2>1, PowersOf58, PowersOf256
<1>16. CASE k = 16
  <2>1. Enough(k) = 23
    BY <1>16 DEF Enough
  <2> QED
    BY <1>16, <2>1, PowersOf58, PowersOf256
<1>17. CASE k = 17
  <2>1. Enough(k) = 24
    BY <1>17 DEF Enough
  <2> QED
    BY <1>17, <2>1, PowersOf58, PowersOf256
<1>18. CASE k = 18
  <2>1. Enough(k) = 25
    BY <1>18 DEF Enough
  <2> QED
    BY <1>18, <2>1, PowersOf58, PowersOf256
<1>19. CASE k = 19
  <2>1. Enough(k) = 27
    BY <1>19 DEF Enough
  <2> QED
    BY <1>19, <2>1, PowersOf58, PowersOf256
<1>20. CASE k = 20
  <2>1. Enough(k) = 28
    BY <1>20 DEF Enough
  <2> QED
    BY <1>20, <2>1, PowersOf58, PowersOf256
<1>21. CASE k = 21
  <2>1. Enough(k) = 29
    BY <1>21 DEF Enough
  <2> QED
    BY <1>21, <2>1, PowersOf58, PowersOf256
<1>22. CASE k = 22
  <2>1. Enough(k) = 31
    BY <1>22 DEF Enough
  <2> QED
    BY <1>22, <2>1, PowersOf58, PowersOf256
<1>23. CASE k = 23
  <2>1. Enough(k) = 32
    BY <1>23 DEF Enough
  <2> QED
    BY <1>23, <2>1, PowersOf58, PowersOf256
<1>24. CASE k = 24
  <2>1. Enough(k) = 34
    BY <1>24 DEF Enough
  <2> QED
    BY <1>24, <2>1, PowersOf58, PowersOf256
<1>25. CASE k = 25
  <2>1. Enough(k) = 35
    BY <1>25 DEF Enough
  <2> QED
    BY <1>25, <2>1, PowersOf58, PowersOf256
<1> QED
  BY <1>1, <1>2, <1>3, <1>4, <1>5, <1>6, <1>7, <1>8, <1>9, <1>10, <1>11, <1>12, <1>13, <1>14, <1>15, <1>16, <1>17, <1>18, <1>19, <1>20, <1>21, <1>22, <1>23, <1>24, <1>25

\* A value that is carried through m digits.
Carries(v, base, d, n, w, m, a) ==
    /\ n \in Nat /\ base \in Nat /\ m \in Nat /\ a \in Nat /\ a + m <= n
    /\ IsChain(v, base, d, n) /\ IsPowers(w, base, m)
    /\ \A k \in 1..n : d[k] \in Nat /\ d[k] \in 0..(base - 1)

GrowsBy(v, w, m, a, c) ==
    /\ v[a] >= c => v[a + m] >= c * w[m]
    /\ v[a] < c => v[a + m] < c * w[m]

\* It grows by as many powers of the base.
LEMMA Carried ==
    ASSUME NEW v, NEW base, NEW d, NEW n, NEW w, NEW m, NEW a, Carries(v, base, d, n, w, m, a),
           NEW c \in Nat
    PROVE  GrowsBy(v, w, m, a, c)
<1>1. n \in Nat /\ base \in Nat /\ m \in Nat /\ a \in Nat /\ a + m <= n
  BY DEF Carries
<1>2. IsChain(v, base, d, n) /\ IsPowers(w, base, m)
  BY DEF Carries
<1>3. (\A k \in 1..n : d[k] \in Nat) /\ (\A k \in 1..n : d[k] \in 0..(base - 1))
  BY DEF Carries
<1>4. v[a] >= c => v[a + m] >= c * w[m]
  BY <1>1, <1>2, <1>3, ChainGrows
<1>5. v[a] < c => v[a + m] < c * w[m]
  BY <1>1, <1>2, <1>3, ChainBelow
<1> QED
  BY <1>4, <1>5 DEF GrowsBy

\* There is one such function.
LEMMA PowersAgree ==
    ASSUME NEW base \in Nat, NEW m \in Nat, NEW w, IsPowers(w, base, m),
           NEW n \in Nat, NEW u, IsPowers(u, base, n), m <= n
    PROVE  \A k \in 0..m : w[k] = u[k]
<1>1. w[0] = 1 /\ \A k \in 1..m : w[k] = base * w[k - 1]
  BY DEF IsPowers
<1>2. u[0] = 1 /\ \A k \in 1..n : u[k] = base * u[k - 1]
  BY DEF IsPowers
<1> DEFINE S == {k \in Nat : k <= m => w[k] = u[k]}
<1>3. 0 \in S
  BY <1>1, <1>2
<1>4. ASSUME NEW k \in Nat, k \in S PROVE k + 1 \in S
  <2> SUFFICES ASSUME k + 1 <= m PROVE w[k + 1] = u[k + 1]
    OBVIOUS
  <2>1. k + 1 \in 1..m /\ k + 1 \in 1..n /\ k + 1 - 1 = k /\ w[k] = u[k]
    BY <1>4
  <2> QED
    BY <1>1, <1>2, <2>1
<1> HIDE DEF S
<1>5. Nat \subseteq S
  BY <1>3, <1>4, SetInduction
<1> QED
  BY <1>5 DEF S

-----------------------------------------------------------------------------
(* All bytes. *)

AreBytes(bytes, m) == bytes \in Seq(Byte) /\ Len(bytes) = m

\* One of the bytes.
LEMMA ByteAt ==
    ASSUME NEW m \in Nat, NEW bytes, AreBytes(bytes, m), NEW k \in 1..m
    PROVE  bytes[k] \in Byte /\ bytes[k] \in Nat /\ bytes[k] \in 0..(256 - 1)
<1>1. bytes[k] \in Byte
  BY ElementOfSeq DEF AreBytes
<1>2. \A c \in Byte : c \in Nat /\ c \in 0..(256 - 1)
  BY DEF Byte
<1> QED
  BY <1>1, <1>2, Zenon

\* The states after each of them.
AreStates(state, bytes, n) ==
    /\ state \in [0..Len(bytes) -> States(n)]
    /\ state[0] = [digits |-> Zeros(n - 1) \o << 0 >>, stop_at |-> n - 1]
    /\ \A k \in 1..Len(bytes) : state[k] = AddByte(state[k - 1], bytes[k])

\* A state of the outer loop is made of digits and a stop_at.
LEMMA StateType ==
    ASSUME NEW n, NEW d \in DigitsIn(n), NEW m \in Int
    PROVE  [digits |-> d, stop_at |-> m] \in States(n)
<1> QED
  BY DEF States

\* The state before the first byte.
LEMMA FirstState ==
    ASSUME NEW n \in Nat \ {0}, NEW a,
           a = [digits |-> Zeros(n - 1) \o << 0 >>, stop_at |-> n - 1]
    PROVE  a \in States(n) /\ a.stop_at = n - 1 /\ \A k \in 1..n : a.digits[k] = 0
<1>1. PICK m \in Nat : m = n - 1
  OBVIOUS
<1>2. PICK z : z = Zeros(m)
  OBVIOUS
<1>3. z \in Seq(Int) /\ Len(z) = m /\ \A k \in 1..m : z[k] = 0
  BY <1>2 DEF Zeros
<1>4. PICK o : o = <<0>>
  OBVIOUS
<1>5. o \in Seq(Int) /\ Len(o) = 1 /\ o[1] = 0
  BY <1>4
<1>6. PICK d : d = z \o o
  OBVIOUS
<1>7. Behind(d, z, o)
  BY <1>3, <1>5, <1>6 DEF Behind
<1>8. /\ d \in Seq(Int) /\ Len(d) = m + 1
      /\ \A k \in 1..Len(z) : d[k] = z[k]
      /\ \A k \in 1..Len(o) : d[Len(z) + k] = o[k]
  <2>1. /\ d \in Seq(Int) /\ Len(d) = Len(z) + Len(o)
        /\ \A k \in 1..Len(z) : d[k] = z[k]
        /\ \A k \in 1..Len(o) : d[Len(z) + k] = o[k]
    BY <1>7, BehindIs
  <2> QED
    BY <1>3, <1>5, <2>1
<1>9. ASSUME NEW k \in 1..n PROVE d[k] = 0
  <2>1. CASE k <= m
    BY <1>3, <1>8, <2>1
  <2>2. CASE k > m
    <3>1. k = m + 1 /\ 1 \in 1..Len(o)
      BY <1>1, <1>5, <2>2
    <3> QED
      BY <1>3, <1>5, <1>8, <3>1
  <2> QED
    BY <1>1, <2>1, <2>2
<1>10. d \in DigitsIn(n)
  <2>1. Len(d) = n
    BY <1>1, <1>8
  <2>2. d = [k \in 1..n |-> d[k]]
    BY <1>8, <2>1
  <2>3. \A k \in 1..n : d[k] \in 0..57
    BY <1>9
  <2>4. d \in [1..n -> 0..57]
    BY <2>2, <2>3
  <2>5. d \in Seq(0..57)
    <3>1. n \in Nat
      OBVIOUS
    <3> HIDE DEF Zeros
    <3> QED
      BY <2>4, <3>1, SeqDef, Zenon
  <2> QED
    BY <2>1, <2>5 DEF DigitsIn
<1>11. a = [digits |-> d, stop_at |-> m]
  BY <1>1, <1>2, <1>4, <1>6, Zenon
<1> QED
  <2>1. a.digits = d /\ a.stop_at = m
    BY <1>11
  <2>2. a \in States(n)
    <3>1. m \in Int
      OBVIOUS
    <3>2. [digits |-> d, stop_at |-> m] \in States(n)
      BY <1>10, <3>1, StateType
    <3> QED
      BY <1>11, <3>2, Zenon
  <2> QED
    BY <1>1, <1>9, <2>1, <2>2

\* AddBytes is what the outer loop comes to.
LEMMA StatesAre ==
    ASSUME NEW n \in Nat \ {0}, NEW len \in Nat, NEW bytes, AreBytes(bytes, len)
    PROVE  \E state : AreStates(state, bytes, n) /\ AddBytes(bytes, n) = state[len]
<1>1. len = Len(bytes)
  BY DEF AreBytes
<1>2. ASSUME NEW k \in 1..len PROVE bytes[k] \in Nat
  BY ByteAt
<1> DEFINE a == [digits |-> Zeros(n - 1) \o <<0>>, stop_at |-> n - 1]
           After(x) == AddByte(x[1], bytes[x[2]])
           G == [x \in States(n) \X (1..len) |-> After(x)]
<1>3. a \in States(n)
  BY FirstState
<1>4. ASSUME NEW x \in States(n), NEW k \in 1..len
      PROVE  After(<<x, k>>) \in States(n) /\ G[<<x, k>>] = AddByte(x, bytes[k])
  <2>1. G[<<x, k>>] = After(<<x, k>>) /\ After(<<x, k>>) = AddByte(x, bytes[k])
    OBVIOUS
  <2>2. AddByte(x, bytes[k]) \in States(n)
    BY <1>2, ByteType
  <2> HIDE DEF After, G
  <2> QED
    BY <2>1, <2>2
<1>5. G \in [States(n) \X (1..len) -> States(n)]
  <2>1. \A x \in States(n) \X (1..len) : After(x) \in States(n)
    <3> SUFFICES ASSUME NEW x \in States(n) \X (1..len) PROVE After(x) \in States(n)
      OBVIOUS
    <3>1. x[1] \in States(n) /\ x[2] \in 1..len /\ x = <<x[1], x[2]>>
      OBVIOUS
    <3> HIDE DEF After
    <3> QED
      BY <1>4, <3>1
  <2> HIDE DEF After
  <2> QED
    BY <2>1
<1> HIDE DEF G, After, a
<1>6. PICK g \in [0..len -> States(n)] : IsIterated(g, len, a, G)
  BY <1>3, <1>5, Iterates
<1> DEFINE Step(f) ==
        [k \in 0..len |-> IF k = 0 THEN [digits |-> Zeros(n - 1) \o <<0>>, stop_at |-> n - 1]
                          ELSE AddByte(f[k - 1], bytes[k])]
           F == CHOOSE f : f = Step(f)
<1>7. ASSUME NEW k \in 0..len
      PROVE  g[k] = IF k = 0 THEN a ELSE AddByte(g[k - 1], bytes[k])
  <2>1. g[k] = IF k = 0 THEN a ELSE G[<<g[k - 1], k>>]
    BY <1>6 DEF IsIterated
  <2>2. k # 0 => k \in 1..len /\ g[k - 1] \in States(n)
    OBVIOUS
  <2> QED
    BY <1>4, <2>1, <2>2
<1>8. g = Step(g)
  BY <1>6, <1>7 DEF a
<1>9. F = Step(F)
  BY <1>8
<1>10. AddBytes(bytes, n) = F[len]
  BY <1>1 DEF AddBytes
<1> HIDE DEF F
<1>11. F[0] = a /\ \A k \in 1..len : F[k] = AddByte(F[k - 1], bytes[k])
  <2>1. \A k \in 0..len : F[k] = IF k = 0 THEN a ELSE AddByte(F[k - 1], bytes[k])
    BY <1>9 DEF a
  <2> QED
    BY <2>1
<1>12. F \in [0..len -> States(n)]
  <2>1. F = [k \in 0..len |-> F[k]]
    BY <1>9
  <2> DEFINE S == {k \in Nat : k <= len => F[k] \in States(n)}
  <2>2. 0 \in S
    BY <1>3, <1>11
  <2>3. ASSUME NEW k \in Nat, k \in S PROVE k + 1 \in S
    <3> SUFFICES ASSUME k + 1 <= len PROVE F[k + 1] \in States(n)
      OBVIOUS
    <3>1. k + 1 \in 1..len /\ k + 1 - 1 = k /\ F[k] \in States(n)
      BY <2>3
    <3>2. F[k + 1] = AddByte(F[k], bytes[k + 1])
      BY <1>11, <3>1
    <3>3. bytes[k + 1] \in Nat
      BY <1>2, <3>1
    <3> QED
      BY <3>1, <3>2, <3>3, ByteType
  <2> HIDE DEF S
  <2>4. Nat \subseteq S
    BY <2>2, <2>3, SetInduction
  <2>5. \A k \in 0..len : F[k] \in States(n)
    BY <2>4 DEF S
  <2> QED
    BY <2>1, <2>5
<1>13. AreStates(F, bytes, n)
  BY <1>1, <1>11, <1>12 DEF AreStates, a
<1> QED
  BY <1>1, <1>10, <1>13

-----------------------------------------------------------------------------
(* The 25 bytes of an address. *)

\* The digits stand for the bytes, stop_at never runs ahead of what they can fill.
LEMMA BytesStandFor ==
    ASSUME NEW bytes, AreBytes(bytes, 25), NEW v, IsHorner(v, 256, bytes, 25),
           NEW s, s = AddBytes(bytes, 35)
    PROVE  StandsFor(s, 35, v[25])
<1>1. PICK state : AreStates(state, bytes, 35) /\ s = state[25]
  <2>1. 35 \in Nat \ {0} /\ 25 \in Nat
    OBVIOUS
  <2> QED
    BY <2>1, StatesAre
<1>2. PICK p : IsPowers(p, 58, 35)
  BY PowersExist
<1>3. PICK b : IsPowers(b, 256, 25)
  BY PowersExist
<1>4. v \in [0..25 -> Nat] /\ v[0] = 0 /\ \A k \in 1..25 : v[k] = 256 * v[k - 1] + bytes[k]
  BY DEF IsHorner
<1>5. ASSUME NEW k \in 1..25 PROVE bytes[k] \in Byte
  BY ByteAt
<1>6. \A k \in 1..25 : bytes[k] \in 0..(256 - 1)
  BY ByteAt
<1>7. p \in [0..35 -> Nat] /\ b \in [0..25 -> Nat]
  BY <1>2, <1>3 DEF IsPowers
<1>8. ASSUME NEW k \in 1..25 PROVE v[k] < p[Enough(k)] /\ Enough(k) \in 1..35
  <2>1. v[0 + k] < 1 * b[k]
    <3>1. IsChain(v, 256, bytes, 25)
      BY <1>4 DEF IsChain
    <3>2. PICK w : w = [h \in 0..k |-> b[h]]
      OBVIOUS
    <3>3. IsPowers(w, 256, k) /\ w[k] = b[k]
      <4>1. \A h \in 0..k : w[h] = b[h] /\ h \in 0..25
        BY <3>2
      <4>2. w \in [0..k -> Nat]
        <5>1. \A h \in 0..k : h \in 0..25
          OBVIOUS
        <5>2. \A h \in 0..k : b[h] \in Nat
          BY <1>7, <5>1
        <5> QED
          BY <3>2, <5>2
      <4>3. b[0] = 1 /\ \A h \in 1..25 : b[h] = 256 * b[h - 1]
        BY <1>3 DEF IsPowers
      <4>4. w[0] = 1 /\ w[k] = b[k]
        BY <4>1, <4>3
      <4>5. ASSUME NEW h \in 1..k PROVE w[h] = 256 * w[h - 1]
        <5>1. h \in 0..k /\ h - 1 \in 0..k /\ h \in 1..25
          OBVIOUS
        <5> QED
          BY <4>1, <4>3, <5>1
      <4> QED
        BY <4>2, <4>4, <4>5 DEF IsPowers
    <3>4. /\ 0 \in Nat /\ 0 + k <= 25 /\ 1 \in Nat /\ v[0] < 1 /\ 256 \in Nat /\ 25 \in Nat
          /\ k \in Nat
      BY <1>4
    <3>5. v[0 + k] < 1 * w[k]
      <4>1. PICK m \in Nat : m = 25
        OBVIOUS
      <4>2. PICK base \in Nat : base = 256
        OBVIOUS
      <4>3. PICK c \in Nat : c = 1
        OBVIOUS
      <4>4. PICK a \in Nat : a = 0
        OBVIOUS
      <4>5. /\ IsChain(v, base, bytes, m) /\ \A h \in 1..m : bytes[h] \in 0..(base - 1)
            /\ IsPowers(w, base, k) /\ a + k <= m /\ v[a] < c
        <5>1. IsChain(v, base, bytes, m) /\ IsPowers(w, base, k)
          BY <3>1, <3>3, <4>1, <4>2, Zenon
        <5>2. \A h \in 1..m : bytes[h] \in 0..(base - 1)
          BY <1>6, <4>1, <4>2, Zenon
        <5> QED
          BY <3>4, <4>1, <4>3, <4>4, <5>1, <5>2
      <4>6. ASSUME NEW n \in Nat, NEW f, NEW g \in Nat, NEW h, IsChain(f, g, h, n),
                   \A i \in 1..n : h[i] \in 0..(g - 1), IsPowers(w, g, k), a + k <= n, f[a] < c
            PROVE  f[a + k] < c * w[k]
        <5>1. k \in Nat
          OBVIOUS
        <5> QED
          BY <4>6, <5>1, ChainBelow
      <4>7. v[a + k] < c * w[k]
        BY <4>5, <4>6
      <4> QED
        BY <4>3, <4>4, <4>7
    <3> QED
      BY <3>3, <3>5
  <2>2. b[k] <= p[Enough(k)] /\ Enough(k) \in 1..35
    BY <1>2, <1>3, DigitsAreEnough
  <2>3. v[k] \in Nat /\ b[k] \in Nat /\ p[Enough(k)] \in Nat
    BY <1>4, <1>7, <2>2
  <2> QED
    BY <2>1, <2>2, <2>3
<1> DEFINE Reached(k) == /\ StandsFor(state[k], 35, v[k])
                         /\ state[k].stop_at \in (35 - Enough(k))..(34 - k)
           S == {k \in Nat : k <= 25 => Reached(k)}
<1>9. 0 \in S
  <2>1. state[0] \in States(35) /\ state[0].stop_at = 34 /\ \A k \in 1..35 : state[0].digits[k] = 0
    <3>1. state[0] = [digits |-> Zeros(35 - 1) \o <<0>>, stop_at |-> 35 - 1]
      BY <1>1 DEF AreStates
    <3>2. 35 \in Nat \ {0} /\ 35 - 1 = 34
      OBVIOUS
    <3> QED
      BY <3>1, <3>2, FirstState
  <2>2. PICK w : IsHorner(w, 58, state[0].digits, 35)
    <3>1. \A k \in 1..35 : state[0].digits[k] \in Nat
      BY <2>1
    <3> QED
      BY <3>1, HornerExists
  <2>3. w[35] = 0
    <3>1. PICK n \in Nat : n = 35
      OBVIOUS
    <3>2. PICK base \in Nat : base = 58
      OBVIOUS
    <3>3. PICK d : d = state[0].digits
      OBVIOUS
    <3>4. n \in 0..n /\ IsHorner(w, base, d, n) /\ \A k \in 1..n : d[k] = 0
      BY <2>1, <2>2, <3>1, <3>2, <3>3
    <3>5. w[n] = 0
      BY <3>4, ZerosHaveNoValue
    <3> QED
      BY <3>1, <3>5
  <2>4. StandsFor(state[0], 35, 0)
    BY <2>1, <2>2, <2>3 DEF StandsFor
  <2>5. Enough(0) = 1
    BY DEF Enough
  <2> QED
    BY <1>4, <2>1, <2>4, <2>5
<1>10. ASSUME NEW k \in Nat, k \in S PROVE k + 1 \in S
  <2> SUFFICES ASSUME k + 1 <= 25 PROVE Reached(k + 1)
    OBVIOUS
  <2>1. PICK l \in 1..25 : l = k + 1 /\ l - 1 = k
    OBVIOUS
  <2>2. StandsFor(state[k], 35, v[k]) /\ state[k].stop_at \in (35 - Enough(k))..(34 - k)
    BY <1>10
  <2>3. PICK stop_at \in 1..35 : stop_at = state[k].stop_at
    <3>1. Enough(k) \in Nat /\ Enough(k) <= 34
      BY DEF Enough
    <3> QED
      BY <2>2, <3>1
  <2>4. PICK number \in Nat : number = v[k]
    BY <1>4
  <2>5. PICK byte \in Byte : byte = bytes[l]
    BY <1>5
  <2>6. PICK sum \in Nat : sum = v[l] /\ sum = 256 * number + byte
    BY <1>4, <2>1, <2>4, <2>5
  <2>7. sum < p[Enough(l)] /\ Enough(l) \in 1..35
    BY <1>8, <2>6
  <2>8. sum < p[35]
    <3>1. p[Enough(l)] <= p[35]
      BY <1>2, <2>7, PowersGrow
    <3>2. p[Enough(l)] \in Nat /\ p[35] \in Nat
      BY <1>7, <2>7
    <3> QED
      BY <2>7, <3>1, <3>2
  <2>9. PICK t : t = AddByte(state[k], byte)
    OBVIOUS
  <2>10. t = state[l]
    <3>1. l \in 1..Len(bytes)
      BY DEF AreBytes
    <3>2. state[l] = AddByte(state[l - 1], bytes[l])
      BY <1>1, <3>1 DEF AreStates
    <3> QED
      BY <2>1, <2>5, <2>9, <3>2
  <2>11. /\ StandsFor(t, 35, sum) /\ t.stop_at \in 0..(stop_at - 1)
         /\ t.stop_at = stop_at - 1 \/ t.digits[t.stop_at + 1] # 0
    <3>1. StandsFor(state[k], 35, number) /\ state[k].stop_at \in 1..35 /\ 35 \in Nat
      BY <2>2, <2>3, <2>4
    <3> QED
      BY <1>2, <2>3, <2>6, <2>8, <2>9, <3>1, ByteAdds
  <2>12. t.stop_at >= 35 - Enough(l)
    <3>1. CASE t.stop_at = stop_at - 1
      <4>1. Enough(l) >= Enough(k) + 1
        BY <2>1 DEF Enough
      <4>2. Enough(k) \in Int /\ Enough(l) \in Int
        BY DEF Enough
      <4> QED
        BY <2>2, <2>3, <3>1, <4>1, <4>2
    <3>2. CASE t.digits[t.stop_at + 1] # 0
      <4> SUFFICES ASSUME t.stop_at < 35 - Enough(l) PROVE FALSE
        BY <2>7, <2>11
      <4>1. PICK a \in 1..35 : a = t.stop_at + 1
        BY <2>11
      <4>2. PICK m \in 0..35 : m = 35 - a /\ m >= Enough(l)
        <5>1. PICK e \in 1..35 : e = Enough(l)
          BY <2>7
        <5>2. a - 1 < 35 - e
          <6>1. PICK r \in 0..34 : r = t.stop_at
            <7>1. t.stop_at \in 0..34
              BY <2>11
            <7> QED
              BY <7>1
          <6> QED
            BY <4>1, <5>1, <6>1
        <5>3. 35 - a \in 0..35 /\ 35 - a >= e
          BY <5>2
        <5> QED
          BY <5>1, <5>3
      <4>3. PICK w : IsHorner(w, 58, t.digits, 35) /\ w[35] = sum
        BY <2>11 DEF StandsFor
      <4>4. t.digits \in DigitsIn(35)
        BY <2>11 DEF StandsFor, States
      <4>5. \A h \in 1..35 : t.digits[h] \in Nat
        <5> TAKE h \in 1..35
        <5>1. t.digits[h] \in 0..57
          BY <4>4, DigitAt
        <5>2. \A c \in 0..57 : c \in Nat
          OBVIOUS
        <5> QED
          BY <5>1, <5>2, Zenon
      <4>6. w[a] >= 1
        <5>1. w[a] = 58 * w[a - 1] + t.digits[a] /\ w[a - 1] \in Nat
          BY <4>3 DEF IsHorner
        <5>2. t.digits[a] # 0 /\ t.digits[a] \in Nat
          BY <3>2, <4>1, <4>5
        <5> QED
          BY <5>1, <5>2
      <4>7. PICK q : IsPowers(q, 58, m)
        BY PowersExist
      <4>8. w[a + m] >= 1 * q[m]
        <5>1. IsChain(w, 58, t.digits, 35)
          BY <4>3 DEF IsHorner, IsChain
        <5>2. 35 \in Nat /\ 58 \in Nat /\ m \in Nat /\ a \in Nat /\ a + m <= 35 /\ 1 \in Nat
          BY <4>2
        <5> QED
          BY <4>5, <4>6, <4>7, <5>1, <5>2, ChainGrows
      <4>9. q[m] = p[m]
        BY <1>2, <4>7, PowersAgree
      <4>10. p[Enough(l)] <= p[m]
        BY <1>2, <2>7, <4>2, PowersGrow
      <4>11. a + m = 35 /\ p[m] \in Nat /\ p[Enough(l)] \in Nat
        BY <1>7, <2>7, <4>2
      <4> QED
        BY <2>7, <4>3, <4>8, <4>9, <4>10, <4>11
    <3> QED
      BY <2>11, <3>1, <3>2
  <2>13. t.stop_at <= 34 - l /\ t.stop_at \in Int /\ Enough(l) \in Int
    BY <2>1, <2>2, <2>3, <2>7, <2>11
  <2>14. Reached(l)
    BY <2>6, <2>10, <2>11, <2>12, <2>13
  <2> QED
    BY <2>1, <2>14
<1> HIDE DEF S
<1>11. 25 \in S
  BY <1>9, <1>10, SetInduction
<1> QED
  BY <1>1, <1>11 DEF S

Bases == {58, 256}

LeavesSame(p, base, v, d) == (base * (v % p) + d) % p = (base * v + d) % p

\* What is left of a number can be taken before the next digit.
LEMMA LeftOver ==
    ASSUME NEW p \in Primes, NEW base \in Bases, NEW v \in Nat, NEW d \in Nat
    PROVE  LeavesSame(p, base, v, d)
<1>1. ASSUME NEW q \in Nat, NEW x \in Nat, q \in Primes
      PROVE  (58 * (x % q) + d) % q = (58 * x + d) % q
  BY <1>1 DEF Primes
<1>2. ASSUME NEW q \in Nat, NEW x \in Nat, q \in Primes
      PROVE  (256 * (x % q) + d) % q = (256 * x + d) % q
  BY <1>2 DEF Primes
<1>3. p \in Nat \ {0}
  BY DEF Primes
<1>5. (58 * (v % p) + d) % p = (58 * v + d) % p
  BY <1>1, <1>3
<1>6. (256 * (v % p) + d) % p = (256 * v + d) % p
  BY <1>2, <1>3
<1>7. base = 58 \/ base = 256
  BY DEF Bases
<1> QED
  BY <1>5, <1>6, <1>7, Zenon DEF LeavesSame

\* Digits that make a number, without a word about their text.
HasDigits(d, n) == Len(d) = n /\ \A k \in 1..n : d[k] \in Nat

\* ValueModulo is what is left of the value of the digits.
LEMMA ValueIs ==
    ASSUME NEW p \in Primes, NEW base \in Bases, NEW n \in Nat, NEW d, HasDigits(d, n),
           NEW v, IsHorner(v, base, d, n)
    PROVE  ValueModulo(p, base, d) = v[n] % p
<1>1. v \in [0..n -> Nat] /\ v[0] = 0 /\ \A k \in 1..n : v[k] = base * v[k - 1] + d[k]
  BY DEF IsHorner
<1>2. Len(d) = n /\ \A k \in 1..n : d[k] \in Nat
  BY DEF HasDigits
<1>3. PICK g : g = [k \in 0..n |-> v[k] % p]
  OBVIOUS
<1>4. g[0] = 0
  <2>1. 0 % p = 0
    BY DEF Primes
  <2>2. 0 \in 0..n
    OBVIOUS
  <2> QED
    BY <1>1, <1>3, <2>1, <2>2, Zenon
<1>5. ASSUME NEW k \in 1..n PROVE g[k] = (base * g[k - 1] + d[k]) % p
  <2>1. k - 1 \in 0..n /\ v[k - 1] \in Nat /\ d[k] \in Nat
    BY <1>1, <1>2
  <2>4. PICK x \in Nat : x = v[k - 1]
    BY <2>1
  <2>5. PICK c \in Nat : c = d[k]
    BY <2>1
  <2>2. g[k] = v[k] % p /\ g[k - 1] = v[k - 1] % p
    BY <1>3, <2>1
  <2>3. (base * (v[k - 1] % p) + d[k]) % p = (base * v[k - 1] + d[k]) % p
    <3>1. (base * (x % p) + c) % p = (base * x + c) % p
      <4>1. LeavesSame(p, base, x, c)
        BY LeftOver
      <4> QED
        BY <4>1, Zenon DEF LeavesSame
    <3> QED
      BY <2>4, <2>5, <3>1, Zenon
  <2> QED
    BY <1>1, <2>2, <2>3, Zenon
<1> DEFINE After(x, k) == (base * x + d[k]) % p
<1>6. g[0] = 0 /\ \A k \in 1..n : g[k] = After(g[k - 1], k)
  BY <1>4, <1>5, Zenon
<1> DEFINE Step(f) == [k \in 0..n |-> IF k = 0 THEN 0 ELSE After(f[k - 1], k)]
           F == CHOOSE f : f = Step(f)
<1>8. ValueModulo(p, base, d) = F[n]
  BY <1>2 DEF ValueModulo
<1> HIDE DEF After
<1>7. F = Step(F)
  <2>1. \A k \in 0..n : g[k] = IF k = 0 THEN 0 ELSE After(g[k - 1], k)
    BY <1>6
  <2>2. g = [k \in 0..n |-> g[k]]
    BY <1>3
  <2>3. g = Step(g)
    BY <2>1, <2>2
  <2> QED
    BY <2>3
<1> HIDE DEF F
<1>9. F[0] = 0 /\ \A k \in 1..n : F[k] = After(F[k - 1], k)
  BY <1>7
<1> DEFINE S == {k \in Nat : k <= n => F[k] = g[k]}
<1>10. 0 \in S
  BY <1>6, <1>9
<1>11. ASSUME NEW k \in Nat, k \in S PROVE k + 1 \in S
  <2> SUFFICES ASSUME k + 1 <= n PROVE F[k + 1] = g[k + 1]
    OBVIOUS
  <2>1. PICK l \in 1..n : l = k + 1 /\ l - 1 = k
    OBVIOUS
  <2>2. F[k] = g[k]
    BY <1>11
  <2>3. F[l] = After(F[l - 1], l) /\ g[l] = After(g[l - 1], l)
    BY <1>6, <1>9
  <2>4. F[l - 1] = g[l - 1]
    BY <2>1, <2>2, Zenon
  <2>5. F[l] = g[l]
    BY <2>3, <2>4, Zenon
  <2> QED
    BY <2>1, <2>5, Zenon
<1> HIDE DEF S
<1>12. Nat \subseteq S
  BY <1>10, <1>11, SetInduction
<1>13. F[n] = g[n]
  BY <1>12 DEF S
<1>14. g[n] = v[n] % p
  BY <1>3
<1> QED
  BY <1>8, <1>13, <1>14, Zenon

IsBehind(c, a, b) == c = a \o b

\* Bytes behind bytes.
LEMMA BytesJoin ==
    ASSUME NEW m \in Nat \ {0}, NEW n \in Nat, NEW a, AreBytes(a, m), NEW b, AreBytes(b, n),
           NEW c, IsBehind(c, a, b), NEW s, s = m + n
    PROVE  AreBytes(c, s) /\ c[1] = a[1]
<1>1. PICK S : S = Byte
  OBVIOUS
<1>2. a \in Seq(S) /\ Len(a) = m /\ b \in Seq(S) /\ Len(b) = n
  BY <1>1 DEF AreBytes
<1>3. a \o b \in Seq(S) /\ Len(a \o b) = m + n /\ (a \o b)[1] = a[1]
  BY <1>2
<1>4. c \in Seq(S) /\ Len(c) = s /\ c[1] = a[1]
  BY <1>3 DEF IsBehind
<1> QED
  BY <1>1, <1>4, Zenon DEF AreBytes

\* What an address says: a version, a hash and its checksum.
Content(t) == <<ADDRESS_VERSION>> \o t.dst \o Checksum[t.dst]

\* There are 25 of them, the version first.
LEMMA ContentIs ==
    ASSUME NEW t \in Transactions
    PROVE  AreBytes(Content(t), 25) /\ Content(t)[1] = 53
<1>1. PICK a : a = <<ADDRESS_VERSION>>
  OBVIOUS
<1>2. AreBytes(a, 1) /\ a[1] = 53
  BY <1>1 DEF AreBytes, Byte, ADDRESS_VERSION
<1>3. AreBytes(t.dst, 20)
  <2>1. t \in ReviewedTransaction /\ Len(t.dst) = HASH_LEN
    BY TransactionsAssumption, Zenon
  <2>2. HASH_LEN = 20
    BY AddressAssumption
  <2>3. t.dst \in Seq(0..255)
    BY <2>1 DEF ReviewedTransaction
  <2> QED
    BY <2>1, <2>2, <2>3, Zenon DEF AreBytes, Byte
<1>4. AreBytes(Checksum[t.dst], 4)
  BY TransactionsAssumption, Zenon DEF AreBytes, Byte
<1>5. PICK h : IsBehind(h, a, t.dst)
  BY DEF IsBehind
<1>6. PICK c : IsBehind(c, h, Checksum[t.dst])
  BY DEF IsBehind
<1>7. PICK one \in Nat \ {0} : one = 1
  OBVIOUS
<1>8. PICK twenty \in Nat : twenty = 20
  OBVIOUS
<1>9. PICK before \in Nat \ {0} : before = 21 /\ before = one + twenty
  BY <1>7, <1>8
<1>10. PICK four \in Nat : four = 4
  OBVIOUS
<1>11. PICK all \in Nat : all = 25 /\ all = before + four
  BY <1>9, <1>10
<1>12. AreBytes(a, one) /\ AreBytes(t.dst, twenty) /\ AreBytes(Checksum[t.dst], four)
  BY <1>2, <1>3, <1>4, <1>7, <1>8, <1>10, Zenon
<1>13. AreBytes(h, before) /\ h[1] = a[1]
  BY <1>5, <1>9, <1>12, BytesJoin
<1>14. AreBytes(c, all) /\ c[1] = h[1]
  BY <1>6, <1>11, <1>12, <1>13, BytesJoin
<1>15. c = Content(t)
  BY <1>1, <1>5, <1>6, Zenon DEF Content, IsBehind
<1> QED
  BY <1>2, <1>11, <1>13, <1>14, <1>15, Zenon

-----------------------------------------------------------------------------
(* Zeros in front. *)

\* Bytes that do not start with zero.
LEMMA NoZeros ==
    ASSUME NEW in, Len(in) \in Nat, in[1] # 0
    PROVE  ZeroCount(in) = 0
<1>1. {k \in 1..Len(in) : \A m \in 1..k : in[m] = 0} = {}
  <2> SUFFICES ASSUME NEW k \in 1..Len(in), \A m \in 1..k : in[m] = 0 PROVE FALSE
    OBVIOUS
  <2>1. 1 \in 1..k
    OBVIOUS
  <2> QED
    BY <2>1
<1>2. Cardinality({}) = 0
  BY FS_EmptySet, Zenon
<1> QED
  BY <1>1, <1>2, Zenon DEF ZeroCount

\* Digits with one zero in front lose it.
LEMMA OneZero ==
    ASSUME NEW l, Len(l) = 35, l[1] = 0, l[2] # 0
    PROVE  WithoutZeros(l) = SubSeq(l, 2, 35)
<1>1. {k \in 1..Len(l) : \A m \in 1..k : l[m] = 0} = {1}
  <2>1. 1 \in 1..Len(l) /\ \A m \in 1..1 : l[m] = 0
    OBVIOUS
  <2>2. ASSUME NEW k \in 1..Len(l), \A m \in 1..k : l[m] = 0, k # 1 PROVE FALSE
    <3>1. 2 \in 1..k
      BY <2>2
    <3> QED
      BY <2>2, <3>1
  <2> QED
    BY <2>1, <2>2
<1>2. Cardinality({1}) = 1
  BY FS_Singleton, Zenon
<1>3. 1 + 1 = 2
  OBVIOUS
<1> QED
  BY <1>1, <1>2, <1>3, Zenon DEF WithoutZeros

\* The powers between which the number of an address is.
LEMMA AddressPowers ==
    ASSUME NEW p, IsPowers(p, 58, 35), NEW b, IsPowers(b, 256, 25)
    PROVE  p[33] \in Nat /\ p[34] \in Nat /\ b[24] \in Nat /\ p[33] <= 53 * b[24] /\ 54 * b[24] <= p[34]
<1>1. p[33] = 15599970876632771988160814054146447252125923204784443097088
  BY PowersOf58
<1>2. p[34] = 904798310844700775313327215140493940623303545877497699631104
  BY PowersOf58
<1>3. b[24] = 6277101735386680763835789423207666416102355444464034512896
  BY PowersOf256
<1>4. p[33] \in Nat /\ p[34] \in Nat /\ b[24] \in Nat
  BY <1>1, <1>2, <1>3
<1>5. p[33] <= 53 * b[24]
  BY <1>1, <1>3
<1>6. 54 * b[24] <= p[34]
  BY <1>2, <1>3
<1> QED
  BY <1>4, <1>5, <1>6

\* The powers up to a smaller one are the same.
LEMMA PowersUpTo ==
    ASSUME NEW base \in Nat, NEW n \in Nat, NEW p, IsPowers(p, base, n), NEW m \in 0..n
    PROVE  \E w : IsPowers(w, base, m) /\ w[m] = p[m]
<1>1. PICK w : IsPowers(w, base, m)
  BY PowersExist
<1>2. w[m] = p[m]
  <2>1. m \in Nat /\ m <= n /\ m \in 0..m
    OBVIOUS
  <2>2. \A k \in 0..m : w[k] = p[k]
    BY <1>1, <2>1, PowersAgree
  <2> QED
    BY <2>1, <2>2
<1> QED
  BY <1>1, <1>2

\* The first of the digits of an address is zero, the second is not.
LEMMA FirstDigits ==
    ASSUME NEW bytes, AreBytes(bytes, 25), bytes[1] = 53, NEW v, IsHorner(v, 256, bytes, 25),
           NEW d \in DigitsIn(35), NEW w, IsHorner(w, 58, d, 35), w[35] = v[25]
    PROVE  d[1] = 0 /\ d[2] # 0
<1>1. PICK p : IsPowers(p, 58, 35)
  BY PowersExist
<1>2. PICK b : IsPowers(b, 256, 25)
  BY PowersExist
<1>3. PICK x \in Nat : x = p[33]
  BY <1>1, <1>2, AddressPowers
<1>4. PICK y \in Nat : y = p[34]
  BY <1>1, <1>2, AddressPowers
<1>5. PICK z \in Nat : z = b[24]
  BY <1>1, <1>2, AddressPowers
<1>6. x <= 53 * z /\ 54 * z <= y
  BY <1>1, <1>2, <1>3, <1>4, <1>5, AddressPowers
<1>7. v \in [0..25 -> Nat] /\ v[0] = 0 /\ \A k \in 1..25 : v[k] = 256 * v[k - 1] + bytes[k]
  BY DEF IsHorner
<1>8. w \in [0..35 -> Nat] /\ w[0] = 0 /\ \A k \in 1..35 : w[k] = 58 * w[k - 1] + d[k]
  BY DEF IsHorner
<1>9. v[1] = 53 /\ w[1] = d[1] /\ w[2] = 58 * w[1] + d[2]
  <2>1. 1 \in 1..25 /\ 1 \in 1..35 /\ 2 \in 1..35 /\ 1 - 1 = 0 /\ 2 - 1 = 1
    OBVIOUS
  <2>2. d[1] \in 0..57
    BY <2>1, DigitAt
  <2>3. v[1] = 256 * v[0] + bytes[1] /\ w[1] = 58 * w[0] + d[1] /\ w[2] = 58 * w[1] + d[2]
    <3>1. PICK o \in 1..25 : o = 1 /\ o - 1 = 0
      OBVIOUS
    <3>2. PICK q \in 1..35 : q = 1 /\ q - 1 = 0
      OBVIOUS
    <3>3. PICK r \in 1..35 : r = 2 /\ r - 1 = 1
      OBVIOUS
    <3>4. v[o] = 256 * v[o - 1] + bytes[o]
      BY <1>7
    <3>5. w[q] = 58 * w[q - 1] + d[q] /\ w[r] = 58 * w[r - 1] + d[r]
      BY <1>8
    <3> QED
      BY <3>1, <3>2, <3>3, <3>4, <3>5, Zenon
  <2>4. v[1] = 53
    BY <1>7, <2>3
  <2>5. w[1] = d[1]
    BY <1>8, <2>2, <2>3
  <2> QED
    BY <2>3, <2>4, <2>5
<1>10. PICK n \in Nat : n = w[35]
  BY <1>8
<1>11. 53 * z <= n /\ n < 54 * z
  <2>1. PICK m \in Nat : m = 24
    OBVIOUS
  <2>2. PICK f : IsPowers(f, 256, m) /\ f[m] = z
    BY <1>2, <1>5, <2>1, PowersUpTo
  <2>3. PICK size \in Nat : size = 25
    OBVIOUS
  <2>4. PICK base \in Nat : base = 256
    OBVIOUS
  <2>5. PICK a \in Nat : a = 1
    OBVIOUS
  <2>6. PICK c \in Nat : c = 53
    OBVIOUS
  <2>7. PICK e \in Nat : e = 54
    OBVIOUS
  <2>8. IsChain(v, base, bytes, size) /\ IsPowers(f, base, m)
    <3>1. IsChain(v, 256, bytes, 25)
      BY <1>7 DEF IsChain
    <3> QED
      BY <2>2, <2>3, <2>4, <3>1, Zenon
  <2>9. a + m <= size /\ a + m = 25 /\ v[a] >= c /\ v[a] < e
    BY <1>9, <2>1, <2>3, <2>5, <2>6, <2>7
  <2>10. \A k \in 1..size : bytes[k] \in Nat /\ bytes[k] \in 0..(base - 1)
    <3>1. \A k \in 1..25 : bytes[k] \in Nat /\ bytes[k] \in 0..(256 - 1)
      BY ByteAt
    <3> QED
      BY <2>3, <2>4, <3>1, Zenon
  <2>13. Carries(v, base, bytes, size, f, m, a)
    BY <2>8, <2>9, <2>10 DEF Carries
  <2>14. GrowsBy(v, f, m, a, c) /\ GrowsBy(v, f, m, a, e)
    BY <2>13, Carried
  <2>11. v[a + m] >= c * f[m]
    BY <2>9, <2>14 DEF GrowsBy
  <2>12. v[a + m] < e * f[m]
    BY <2>9, <2>14 DEF GrowsBy
  <2> QED
    BY <1>10, <2>2, <2>6, <2>7, <2>9, <2>11, <2>12
<1>12. PICK long \in Nat : long = 35
  OBVIOUS
<1>13. PICK base \in Nat : base = 58
  OBVIOUS
<1>14. IsChain(w, base, d, long)
  <2>1. IsChain(w, 58, d, 35)
    BY <1>8 DEF IsChain
  <2> QED
    BY <1>12, <1>13, <2>1, Zenon
<1>15. \A k \in 1..long : d[k] \in Nat /\ d[k] \in 0..(base - 1)
  <2>1. ASSUME NEW k \in 1..35 PROVE d[k] \in Nat /\ d[k] \in 0..(58 - 1)
    <3>1. d[k] \in 0..57
      BY DigitAt
    <3>2. \A c \in 0..57 : c \in Nat /\ c \in 0..(58 - 1)
      OBVIOUS
    <3> QED
      BY <3>1, <3>2, Zenon
  <2> QED
    BY <1>12, <1>13, <2>1, Zenon
<1>16. PICK first \in 0..57 : first = d[1]
  <2>1. 1 \in 1..35
    OBVIOUS
  <2> QED
    BY <2>1, DigitAt
<1>17. PICK second \in 0..57 : second = d[2]
  <2>1. 2 \in 1..35
    OBVIOUS
  <2> QED
    BY <2>1, DigitAt
<1>18. first = 0
  <2> SUFFICES ASSUME first >= 1 PROVE FALSE
    OBVIOUS
  <2>1. PICK m \in Nat : m = 34
    OBVIOUS
  <2>2. PICK f : IsPowers(f, base, m) /\ f[m] = y
    BY <1>1, <1>4, <1>13, <2>1, PowersUpTo
  <2>3. PICK a \in Nat : a = 1
    OBVIOUS
  <2>4. PICK c \in Nat : c = 1
    OBVIOUS
  <2>5. a + m <= long /\ a + m = 35 /\ w[a] >= c
    BY <1>9, <1>12, <1>16, <2>1, <2>3, <2>4
  <2>6. w[a + m] >= c * f[m]
    <3>1. Carries(w, base, d, long, f, m, a)
      BY <1>14, <1>15, <2>2, <2>5 DEF Carries
    <3>2. GrowsBy(w, f, m, a, c)
      BY <3>1, Carried
    <3> QED
      BY <2>5, <3>2 DEF GrowsBy
  <2>7. n >= y
    BY <1>10, <2>2, <2>4, <2>5, <2>6
  <2> QED
    BY <1>6, <1>11, <2>7
<1>19. second # 0
  <2> SUFFICES ASSUME second = 0 PROVE FALSE
    OBVIOUS
  <2>1. PICK m \in Nat : m = 33
    OBVIOUS
  <2>2. PICK f : IsPowers(f, base, m) /\ f[m] = x
    BY <1>1, <1>3, <1>13, <2>1, PowersUpTo
  <2>3. PICK a \in Nat : a = 2
    OBVIOUS
  <2>4. PICK c \in Nat : c = 1
    OBVIOUS
  <2>5. a + m <= long /\ a + m = 35 /\ w[a] < c
    BY <1>9, <1>12, <1>16, <1>17, <1>18, <2>1, <2>3, <2>4
  <2>6. w[a + m] < c * f[m]
    <3>1. Carries(w, base, d, long, f, m, a)
      BY <1>14, <1>15, <2>2, <2>5 DEF Carries
    <3>2. GrowsBy(w, f, m, a, c)
      BY <3>1, Carried
    <3> QED
      BY <2>5, <3>2 DEF GrowsBy
  <2>7. n < x
    BY <1>10, <2>2, <2>4, <2>5, <2>6
  <2> QED
    BY <1>6, <1>11, <2>7
<1> QED
  BY <1>16, <1>17, <1>18, <1>19

IsTail(x, d) == x = SubSeq(d, 2, 35)

\* The digits behind the first.
LEMMA DigitsBehind ==
    ASSUME NEW d \in DigitsIn(35), NEW x, IsTail(x, d)
    PROVE  x \in Seq(Int) /\ Len(x) = 34 /\ \A k \in 1..34 : x[k] = d[k + 1] /\ x[k] \in 0..57
<1>1. PICK S : S = 0..57
  OBVIOUS
<1>2. d \in Seq(S) /\ Len(d) = 35
  BY <1>1, Zenon DEF DigitsIn
<1>3. Len(x) = 34 /\ \A k \in 1..34 : x[k] = d[k + 1]
  BY <1>2 DEF IsTail
<1>4. ASSUME NEW k \in 1..34 PROVE x[k] \in 0..57
  <2>1. k + 1 \in 1..35
    OBVIOUS
  <2>2. d[k + 1] \in 0..57
    BY <2>1, DigitAt
  <2> QED
    BY <1>3, <2>2
<1>5. x = [k \in 1..34 |-> x[k]]
  BY <1>2 DEF IsTail
<1>6. \A k \in 1..34 : x[k] \in Int
  BY <1>4
<1>7. x \in Seq(Int)
  BY <1>5, <1>6
<1> QED
  BY <1>3, <1>4, <1>7

IsAll(s, n) == SubSeq(s, 0 + 1, n) = s

\* All of a sequence.
LEMMA AllOfIt ==
    ASSUME NEW n \in Nat, NEW in, AreBytes(in, n)
    PROVE  IsAll(in, n) /\ Len(in) = n
<1>1. PICK S : S = Byte
  OBVIOUS
<1>2. in \in Seq(S) /\ Len(in) = n
  BY <1>1, Zenon DEF AreBytes
<1> QED
  BY <1>2 DEF IsAll

\* The text of 25 bytes of which the first is ADDRESS_VERSION.
LEMMA EncodedIs ==
    ASSUME NEW in, AreBytes(in, 25), in[1] = 53, NEW a, a = base58_encode(in, ADDRESS_LEN)
    PROVE  a.ok /\ a.text \in Seq(Int) /\ Len(a.text) = ADDRESS_LEN /\ SameNumber(a.text, in)
<1>1. Len(in) = 25 /\ SubSeq(in, 0 + 1, 25) = in
  <2>1. PICK n \in Nat : n = 25
    OBVIOUS
  <2>2. AreBytes(in, n)
    BY <2>1, Zenon
  <2>3. IsAll(in, n) /\ Len(in) = n
    BY <2>2, AllOfIt
  <2> QED
    BY <2>1, <2>3, Zenon DEF IsAll
<1>2. ZeroCount(in) = 0
  BY <1>1, NoZeros
<1>3. OutputSize(25 - 0) = 35
  BY DEF OutputSize
<1>4. PICK s : s = AddBytes(in, 35)
  OBVIOUS
<1>5. PICK v : IsHorner(v, 256, in, 25)
  <2>1. PICK n \in Nat : n = 25
    OBVIOUS
  <2>2. PICK base \in Nat : base = 256
    OBVIOUS
  <2>3. \A k \in 1..n : in[k] \in Nat
    BY <2>1, ByteAt
  <2>4. \E f : IsHorner(f, base, in, n)
    BY <2>3, HornerExists
  <2> QED
    BY <2>1, <2>2, <2>4, Zenon
<1>6. StandsFor(s, 35, v[25])
  BY <1>4, <1>5, BytesStandFor
<1>7. PICK d : d = s.digits
  OBVIOUS
<1>8. d \in DigitsIn(35)
  BY <1>6, <1>7 DEF StandsFor, States
<1>9. PICK w : IsHorner(w, 58, d, 35) /\ w[35] = v[25]
  BY <1>6, <1>7 DEF StandsFor
<1>10. d[1] = 0 /\ d[2] # 0
  BY <1>5, <1>8, <1>9, FirstDigits
<1>11. PICK x : x = SubSeq(d, 2, 35)
  OBVIOUS
<1>12. WithoutZeros(d) = x
  <2>1. Len(d) = 35
    BY <1>8, Zenon DEF DigitsIn
  <2> QED
    BY <1>10, <1>11, <2>1, OneZero
<1>13. x \in Seq(Int) /\ Len(x) = 34 /\ \A k \in 1..34 : x[k] = d[k + 1] /\ x[k] \in 0..57
  <2>1. IsTail(x, d)
    BY <1>11, Zenon DEF IsTail
  <2> QED
    BY <1>8, <2>1, DigitsBehind
<1>14. Zeros(0) \o x = x
  <2>1. Zeros(0) = <<>>
    BY DEF Zeros
  <2> QED
    BY <1>13, <2>1, NoneBefore, Zenon
<1>15. a = [ok |-> Len(x) <= ADDRESS_LEN, text |-> x]
  <2>1. PICK zeros : zeros = ZeroCount(in)
    OBVIOUS
  <2>2. PICK text : text = Zeros(zeros)
            \o WithoutZeros(AddBytes(SubSeq(in, zeros + 1, Len(in)), OutputSize(Len(in) - zeros)).digits)
    OBVIOUS
  <2>3. a = [ok |-> Len(text) <= ADDRESS_LEN, text |-> text]
    BY <2>1, <2>2, Zenon DEF base58_encode
  <2>4. text = x
    BY <1>1, <1>2, <1>3, <1>4, <1>7, <1>12, <1>14, <2>1, <2>2, Zenon
  <2> QED
    BY <2>3, <2>4, Zenon
<1>16. a.ok /\ a.text = x /\ Len(x) = ADDRESS_LEN
  <2>1. Len(x) = ADDRESS_LEN /\ Len(x) <= ADDRESS_LEN
    BY <1>13, AddressAssumption
  <2>2. PICK c : c = (Len(x) <= ADDRESS_LEN)
    OBVIOUS
  <2>3. a = [ok |-> c, text |-> x]
    BY <1>15, <2>2, Zenon
  <2>4. a.ok = c /\ a.text = x
    BY <2>3
  <2> QED
    BY <2>1, <2>2, <2>4, Zenon
<1>17. PICK u : IsHorner(u, 58, x, 34) /\ u[34] = w[35]
  <2>1. w \in [0..35 -> Nat] /\ w[0] = 0 /\ \A k \in 1..35 : w[k] = 58 * w[k - 1] + d[k]
    BY <1>9 DEF IsHorner
  <2>2. PICK f : f = [k \in 0..34 |-> w[k + 1]]
    OBVIOUS
  <2>3. f[0] = 0
    <3>1. PICK o \in 1..35 : o = 1 /\ o - 1 = 0
      OBVIOUS
    <3>2. w[o] = 58 * w[o - 1] + d[o]
      BY <2>1
    <3>3. w[1] = 58 * w[0] + d[1]
      BY <3>1, <3>2, Zenon
    <3> QED
      BY <1>10, <2>1, <2>2, <3>3
  <2>4. f \in [0..34 -> Nat] /\ f[34] = w[35]
    <3>1. \A k \in 0..34 : w[k + 1] \in Nat
      BY <2>1
    <3> QED
      BY <2>2, <3>1
  <2>5. ASSUME NEW k \in 1..34 PROVE f[k] = 58 * f[k - 1] + x[k]
    <3>1. PICK h \in 1..35 : h = k + 1
      OBVIOUS
    <3>2. w[h] = 58 * w[h - 1] + d[h]
      BY <2>1
    <3>3. h - 1 = k /\ k - 1 \in 0..34 /\ k \in 0..34 /\ (k - 1) + 1 = k
      BY <3>1
    <3>4. f[k] = w[h] /\ f[k - 1] = w[h - 1] /\ x[k] = d[h]
      BY <1>13, <2>2, <3>1, <3>3
    <3> QED
      BY <3>2, <3>4, Zenon
  <2>6. IsHorner(f, 58, x, 34)
    BY <2>3, <2>4, <2>5 DEF IsHorner
  <2> QED
    BY <2>4, <2>6
<1>18. SameNumber(x, in)
  <2> SUFFICES ASSUME NEW p \in Primes PROVE ValueModulo(p, 58, x) = ValueModulo(p, 256, in)
    BY Zenon DEF SameNumber
  <2>1. PICK m \in Nat : m = 34
    OBVIOUS
  <2>2. PICK n \in Nat : n = 25
    OBVIOUS
  <2>3. PICK b \in Bases : b = 58
    BY DEF Bases
  <2>4. PICK c \in Bases : c = 256
    BY DEF Bases
  <2>5. HasDigits(x, m) /\ HasDigits(in, n)
    <3>1. \A k \in 1..34 : x[k] \in Nat
      <4> TAKE k \in 1..34
      <4>1. x[k] \in 0..57
        BY <1>13, Zenon
      <4>2. \A e \in 0..57 : e \in Nat
        OBVIOUS
      <4> QED
        BY <4>1, <4>2, Zenon
    <3>2. \A k \in 1..25 : in[k] \in Nat
      BY ByteAt
    <3> QED
      BY <1>1, <1>13, <2>1, <2>2, <3>1, <3>2, Zenon DEF HasDigits
  <2>6. IsHorner(u, b, x, m) /\ IsHorner(v, c, in, n)
    BY <1>5, <1>17, <2>1, <2>2, <2>3, <2>4, Zenon
  <2>7. ValueModulo(p, b, x) = u[m] % p /\ ValueModulo(p, c, in) = v[n] % p
    BY <2>5, <2>6, ValueIs
  <2>8. u[m] = v[n]
    BY <1>9, <1>17, <2>1, <2>2, Zenon
  <2> QED
    BY <2>3, <2>4, <2>7, <2>8, Zenon
<1> QED
  BY <1>13, <1>16, <1>18, Zenon

-----------------------------------------------------------------------------
(* The address of a review. *)

\* Where a text begins.
LEMMA StartIs ==
    ASSUME NEW u, NEW s, NEW t, Behind(u, s, t), NEW n \in Nat, Len(s) = n
    PROVE  SubSeq(u, 1, n) = s
<1>1. u \in Seq(Int) /\ n <= Len(u) /\ \A k \in 1..n : u[k] = s[k]
  <2>1. /\ u \in Seq(Int) /\ Len(t) \in Nat /\ Len(u) = Len(s) + Len(t)
        /\ \A k \in 1..Len(s) : u[k] = s[k]
    <3>1. u \in Seq(Int) /\ Len(t) \in Nat
      BY BehindIs
    <3>2. Len(u) = Len(s) + Len(t)
      BY BehindIs
    <3>3. \A k \in 1..Len(s) : u[k] = s[k]
      BY BehindIs
    <3> QED
      BY <3>1, <3>2, <3>3, Zenon
  <2>2. n <= Len(u)
    BY <2>1
  <2> QED
    BY <2>1, <2>2
<1>2. s \in Seq(Int)
  BY DEF Behind
<1>3. 0 \in Nat /\ 0 <= n /\ n = n - 0 /\ 0 + 1 = 1 /\ \A k \in 1..n : s[k] = u[0 + k]
  BY <1>1
<1>4. s = SubSeq(u, 0 + 1, n)
  BY <1>1, <1>2, <1>3, PartIs
<1> QED
  BY <1>3, <1>4, Zenon

\* %s prints the whole address and nothing behind it, zero or not.
LEMMA AddressIs ==
    ASSUME NEW t \in Transactions, NEW s, s \in AddressTexts(t.dst)
    PROVE  Len(s) = ADDRESS_LEN /\ SameNumber(s, Content(t))
<1>1. PICK a : a = base58_encode(Content(t), ADDRESS_LEN)
  OBVIOUS
<1>2. a.ok /\ a.text \in Seq(Int) /\ Len(a.text) = ADDRESS_LEN /\ SameNumber(a.text, Content(t))
  BY <1>1, ContentIs, EncodedIs, Zenon
<1>3. script_hash_to_address[t.dst] = a.text
  <2>1. t.dst \in {u.dst : u \in Transactions}
    OBVIOUS
  <2>2. script_hash_to_address[t.dst] =
            LET b == base58_encode(<<ADDRESS_VERSION>> \o t.dst \o Checksum[t.dst], ADDRESS_LEN)
            IN  IF b.ok THEN b.text ELSE <<>>
    BY <2>1, Zenon DEF script_hash_to_address
  <2> QED
    BY <1>1, <1>2, <2>2, Zenon DEF Content
<1>4. PICK text \in Seq(Int) : text = a.text /\ Len(text) = 34
  BY <1>2, AddressAssumption
<1>5. PICK x \in Following : s = snprintf(ADDRESS_LEN + 1, text \o x)
  BY <1>3, <1>4, Zenon DEF AddressTexts
<1>6. s = text
  <2>1. x \in Seq(Int) /\ Len(x) \in {0, 1}
    <3>1. PICK o : o = <<57>>
      OBVIOUS
    <3>2. o \in Seq(Int) /\ Len(o) = 1
      BY <3>1
    <3>3. PICK e : e = <<>>
      OBVIOUS
    <3>4. e \in Seq(Int) /\ Len(e) = 0
      BY <3>3
    <3>5. x = o \/ x = e
      BY <3>1, <3>3, Zenon DEF Following
    <3> QED
      BY <3>2, <3>4, <3>5
  <2>2. PICK size : size = ADDRESS_LEN + 1 /\ size = 35
    BY AddressAssumption
  <2>3. PICK u : Behind(u, text, x)
    BY <2>1, Zenon DEF Behind
  <2>4. SubSeq(u, 1, 34) = text
    <3>1. PICK n \in Nat : n = 34
      OBVIOUS
    <3> QED
      BY <1>4, <2>3, <3>1, StartIs, Zenon
  <2>5. s = snprintf(35, u)
    BY <1>5, <2>2, <2>3, Zenon DEF Behind
  <2>6. Len(u) \in {34, 35}
    <3>1. Len(u) = Len(text) + Len(x)
      BY <2>3, BehindIs
    <3>2. PICK n \in {0, 1} : n = Len(x)
      BY <2>1
    <3>3. Len(u) = 34 + n
      BY <1>4, <3>1, <3>2, Zenon
    <3> QED
      BY <3>3
  <2>7. (IF Len(u) < 35 THEN Len(u) ELSE 35 - 1) = 34
    <3>1. PICK m \in {34, 35} : m = Len(u)
      BY <2>6
    <3>2. (IF m < 35 THEN m ELSE 35 - 1) = 34
      OBVIOUS
    <3> QED
      BY <3>1, <3>2, Zenon
  <2> QED
    BY <2>4, <2>5, <2>7, Zenon DEF snprintf
<1> QED
  BY <1>2, <1>4, <1>6, Zenon

\* A review shows the address of its transaction.
LEMMA DisplayShowsAddress ==
    ASSUME NEW t \in Transactions, ui_display_transaction(t), Len(g_address) <= ADDRESS_LEN
    PROVE  AddressIsShown' /\ Len(g_address') <= ADDRESS_LEN
<1>1. tx' = t
  BY DisplayIs
<1>2. CASE t.is_system_asset_transfer
  <2>1. g_address' \in AddressTexts(t.dst)
    BY <1>2, DisplayIs
  <2>2. Len(g_address') = ADDRESS_LEN /\ SameNumber(g_address', Content(t))
    BY <2>1, AddressIs, Zenon
  <2>3. AddressIsShown'
    BY <1>1, <2>2, Zenon DEF AddressIsShown, Content
  <2> QED
    BY <2>2, <2>3, AddressAssumption
<1>3. CASE ~t.is_system_asset_transfer
  <2>1. g_address' = g_address
    BY <1>3, DisplayIs
  <2> QED
    BY <1>1, <1>3, <2>1, Zenon DEF AddressIsShown
<1> QED
  BY <1>2, <1>3

-----------------------------------------------------------------------------
(* The invariant. *)

LengthsInv ==
    /\ Len(g_system_fee) < TEXT_LEN /\ Len(g_network_fee) < TEXT_LEN
    /\ Len(g_total_fees) < TEXT_LEN
    /\ Len(g_network) < NUMBER_LEN /\ Len(g_valid_until_block) < NUMBER_LEN
    /\ Len(g_text) < TITLE_LEN /\ Len(g_address) <= ADDRESS_LEN

ShownInv == NumbersAreShown /\ AddressIsShown /\ ScopeIsShown

TextsInv ==
    /\ tx \in Transactions /\ g_scope \in PossibleWords
    /\ AmountsInv /\ LengthsInv /\ ShownInv

\* A cleared array has room.
LEMMA NothingFits ==
    Len(<<>>) < TEXT_LEN /\ Len(<<>>) < NUMBER_LEN /\ Len(<<>>) < TITLE_LEN /\ Len(<<>>) <= ADDRESS_LEN
<1>1. Len(<<>>) = 0 /\ ADDRESS_LEN = 34
  BY AddressAssumption
<1>2. DIGITS64 \in Nat /\ DECIMALS \in Nat /\ DIGITS32 \in Nat
  BY Sizes
<1> QED
  BY <1>1, <1>2 DEF TEXT_LEN, NUMBER_LEN, TITLE_LEN

\* Before the first screen of a scope.
LEMMA NoPageIs == NoPage.scope = {} /\ NoPage.words = <<"None">>
BY DEF NoPage

\* It holds in the beginning,
LEMMA InitTexts == Init => TextsInv
<1> SUFFICES ASSUME Init PROVE TextsInv
  OBVIOUS
<1>1. tx \in Transactions
  BY TransactionsAssumption, Zenon DEF Init
<1>2. g_scope \in PossibleWords
  BY Zenon DEF Init, PossibleWords
<1>3. status = "none" /\ status # "SW_OK"
  BY DEF Init
<1>4. AmountsInv
  BY <1>3 DEF AmountsInv
<1>5. LengthsInv
  BY NothingFits, Zenon DEF Init, LengthsInv
<1>6. ScopeIsShown
  BY NoPageIs, Zenon DEF Init, ScopeIsShown
<1>7. NumbersAreShown /\ AddressIsShown
  BY <1>3, Zenon DEF NumbersAreShown, AddressIsShown
<1> QED
  BY <1>1, <1>2, <1>4, <1>5, <1>6, <1>7, Zenon DEF TextsInv, ShownInv

\* after the application was started again,
LEMMA RestartTexts == Restart => TextsInv'
<1> SUFFICES ASSUME Restart PROVE TextsInv'
  OBVIOUS
<1>1. tx' \in Transactions
  BY TransactionsAssumption, Zenon DEF Restart
<1>2. g_scope' \in PossibleWords
  BY Zenon DEF Restart, PossibleWords
<1>3. status' = "none" /\ status' # "SW_OK"
  BY DEF Restart
<1>4. AmountsInv'
  BY <1>3 DEF AmountsInv
<1>5. LengthsInv'
  BY NothingFits, Zenon DEF Restart, LengthsInv
<1>6. ScopeIsShown'
  BY NoPageIs, Zenon DEF Restart, ScopeIsShown
<1>7. NumbersAreShown' /\ AddressIsShown'
  BY <1>3, Zenon DEF NumbersAreShown, AddressIsShown
<1> QED
  BY <1>1, <1>2, <1>4, <1>5, <1>6, <1>7, Zenon DEF TextsInv, ShownInv

\* A review leaves room in every array.
LEMMA DisplayFits ==
    ASSUME NEW t \in Transactions, ui_display_transaction(t), LengthsInv
    PROVE  LengthsInv'
<1>1. AmountsInv' /\ status' = "SW_OK" /\ tx' = t
  BY DisplayKeepsAmounts, DisplayIs
<1>2. /\ Len(g_system_fee') < TEXT_LEN /\ Len(g_network_fee') < TEXT_LEN
      /\ Len(g_total_fees') < TEXT_LEN
  BY <1>1, Zenon DEF AmountsInv, IsTitled
<1>3. Len(g_text') < TITLE_LEN
  <2>1. CASE t.is_system_asset_transfer
    BY <1>1, <2>1, Zenon DEF AmountsInv, IsTitled
  <2>2. CASE ~t.is_system_asset_transfer
    <3>1. g_text' = g_text
      BY <2>2, DisplayIs
    <3> QED
      BY <3>1, Zenon DEF LengthsInv
  <2> QED
    BY <2>1, <2>2
<1>4. Len(g_network') < NUMBER_LEN /\ Len(g_valid_until_block') < NUMBER_LEN
  BY DisplayShowsNumbers
<1>5. Len(g_address') <= ADDRESS_LEN
  BY DisplayShowsAddress DEF LengthsInv
<1> QED
  BY <1>2, <1>3, <1>4, <1>5, Zenon DEF LengthsInv

\* and after every step.
LEMMA NextTexts == TextsInv /\ [Next]_vars => TextsInv'
<1> SUFFICES ASSUME TextsInv, [Next]_vars PROVE TextsInv'
  OBVIOUS
<1>1. /\ tx \in Transactions /\ g_scope \in PossibleWords
      /\ AmountsInv /\ LengthsInv /\ NumbersAreShown /\ AddressIsShown /\ ScopeIsShown
  BY Zenon DEF TextsInv, ShownInv
<1>2. ASSUME NEW t \in Transactions, ui_display_transaction(t) PROVE TextsInv'
  <2>1. tx' = t /\ g_scope' = g_scope /\ page' = NoPage
    BY <1>2, DisplayIs
  <2>2. AmountsInv' /\ LengthsInv' /\ NumbersAreShown'
    BY <1>1, <1>2, DisplayKeepsAmounts, DisplayFits, DisplayShowsNumbers
  <2>3. AddressIsShown'
    BY <1>1, <1>2, DisplayShowsAddress DEF LengthsInv
  <2>4. ScopeIsShown'
    BY <2>1, NoPageIs, Zenon DEF ScopeIsShown
  <2>5. tx' \in Transactions /\ g_scope' \in PossibleWords
    BY <1>1, <2>1, Zenon
  <2> QED
    BY <2>2, <2>3, <2>4, <2>5, Zenon DEF TextsInv, ShownInv
<1>3. ASSUME UNCHANGED <<tx, status, texts>>
      PROVE  /\ tx' \in Transactions
             /\ AmountsInv' /\ LengthsInv' /\ NumbersAreShown' /\ AddressIsShown'
  <2>1. /\ tx' = tx /\ status' = status /\ g_address' = g_address /\ g_text' = g_text
        /\ g_network' = g_network /\ g_system_fee' = g_system_fee
        /\ g_network_fee' = g_network_fee /\ g_total_fees' = g_total_fees
        /\ g_valid_until_block' = g_valid_until_block
    BY <1>3, Zenon DEF texts
  <2>2. AmountsInv'
    BY <1>1, <2>1, Zenon DEF AmountsInv
  <2>3. LengthsInv'
    BY <1>1, <2>1, Zenon DEF LengthsInv
  <2>4. NumbersAreShown'
    BY <1>1, <2>1, Zenon DEF NumbersAreShown
  <2>5. AddressIsShown'
    BY <1>1, <2>1, Zenon DEF AddressIsShown
  <2> QED
    BY <1>1, <2>1, <2>2, <2>3, <2>4, <2>5, Zenon
<1>4. ASSUME NEW scope, ShowScope(scope) PROVE TextsInv'
  <2>1. parse_scope_name(scope) /\ UNCHANGED <<tx, status, texts>>
    BY <1>4, Zenon DEF ShowScope
  <2>2. g_scope' \in PossibleWords /\ ScopeIsShown'
    BY <1>1, <2>1, ScopeScreen
  <2> QED
    BY <1>3, <2>1, <2>2, Zenon DEF TextsInv, ShownInv
<1>5. ASSUME UNCHANGED vars PROVE TextsInv'
  <2>1. UNCHANGED <<tx, status, texts>> /\ g_scope' = g_scope /\ page' = page
    BY <1>5, Zenon DEF vars
  <2>2. ScopeIsShown'
    BY <1>1, <2>1, Zenon DEF ScopeIsShown
  <2>3. g_scope' \in PossibleWords
    BY <1>1, <2>1, Zenon
  <2> QED
    BY <1>3, <2>1, <2>2, <2>3, Zenon DEF TextsInv, ShownInv
<1> QED
  BY <1>2, <1>4, <1>5, RestartTexts, Zenon DEF Next

\* So it holds always,
LEMMA TextsInvariant == Spec => []TextsInv
<1> QED
  BY InitTexts, NextTexts, PTL DEF Spec

\* and says all that the properties do.
LEMMA TextsMean ==
    TextsInv => /\ TypeOK /\ FormattingSucceeds /\ FeesAreShown /\ AmountIsShown
                /\ AddressIsShown /\ NumbersAreShown /\ ScopeIsShown
<1> SUFFICES ASSUME TextsInv
             PROVE  /\ TypeOK /\ FormattingSucceeds /\ FeesAreShown /\ AmountIsShown
                    /\ AddressIsShown /\ NumbersAreShown /\ ScopeIsShown
  OBVIOUS
<1>1. /\ tx \in Transactions /\ g_scope \in PossibleWords
      /\ AmountsInv /\ LengthsInv /\ NumbersAreShown /\ AddressIsShown /\ ScopeIsShown
  BY Zenon DEF TextsInv, ShownInv
<1>2. TypeOK
  <2>1. TextLength(g_scope) < SCOPE_LEN
    BY <1>1, WordsFit
  <2>2. \A t \in {g_system_fee, g_network_fee, g_total_fees} : Len(t) < TEXT_LEN
    BY <1>1, Zenon DEF LengthsInv
  <2>3. \A t \in {g_network, g_valid_until_block} : Len(t) < NUMBER_LEN
    BY <1>1, Zenon DEF LengthsInv
  <2> QED
    BY <1>1, <2>1, <2>2, <2>3, Zenon DEF TypeOK, LengthsInv
<1>3. FormattingSucceeds
  BY <1>1, Zenon DEF AmountsInv, FormattingSucceeds
<1>4. FeesAreShown
  <2> SUFFICES ASSUME status = "SW_OK",
                      NEW f \in {<<g_system_fee, tx.system_fee>>, <<g_network_fee, tx.network_fee>>,
                                 <<g_total_fees, tx.system_fee + tx.network_fee>>}
               PROVE  /\ SubSeq(f[1], 1, 4) = Gas
                      /\ ReadsAs(SubSeq(f[1], 5, Len(f[1])), f[2], DECIMALS)
    BY Zenon DEF FeesAreShown
  <2>1. /\ IsTitled(g_system_fee, Gas, tx.system_fee, DECIMALS, TEXT_LEN)
        /\ IsTitled(g_network_fee, Gas, tx.network_fee, DECIMALS, TEXT_LEN)
        /\ IsTitled(g_total_fees, Gas, tx.system_fee + tx.network_fee, DECIMALS, TEXT_LEN)
    BY <1>1, Zenon DEF AmountsInv
  <2>2. \/ f[1] = g_system_fee /\ f[2] = tx.system_fee
        \/ f[1] = g_network_fee /\ f[2] = tx.network_fee
        \/ f[1] = g_total_fees /\ f[2] = tx.system_fee + tx.network_fee
    OBVIOUS
  <2>3. IsTitled(f[1], Gas, f[2], DECIMALS, TEXT_LEN)
    BY <2>1, <2>2, Zenon
  <2> QED
    BY <2>3, Zenon DEF IsTitled
<1>5. AmountIsShown
  <2> SUFFICES ASSUME status = "SW_OK", tx.is_system_asset_transfer
               PROVE  /\ SubSeq(g_text, 1, 4) = IF tx.is_neo THEN Neo ELSE Gas
                      /\ tx.amount >= 0 =>
                            ReadsAs(SubSeq(g_text, 5, Len(g_text)),
                                    IF tx.is_neo THEN 10 * tx.amount ELSE tx.amount,
                                    IF tx.is_neo THEN 1 ELSE DECIMALS)
    BY Zenon DEF AmountIsShown
  <2>1. IsTitled(g_text, IF tx.is_neo THEN Neo ELSE Gas,
                 IF tx.is_neo THEN 10 * Uint64(tx.amount) ELSE Uint64(tx.amount),
                 IF tx.is_neo THEN 1 ELSE DECIMALS, TITLE_LEN)
    BY <1>1, Zenon DEF AmountsInv
  <2>2. ASSUME tx.amount >= 0 PROVE Uint64(tx.amount) = tx.amount
    BY <1>1, <2>2, CastIsItself, TransactionNumbers
  <2> QED
    BY <2>1, <2>2, Zenon DEF IsTitled
<1> QED
  BY <1>1, <1>2, <1>3, <1>4, <1>5, Zenon

-----------------------------------------------------------------------------
(* The theorems. *)

\* No text a review prints fills its array to the last character: each ends where it
\* should, for arrays sized as those of ui/display.c.
THEOREM TextsFitArrays == Spec => []TypeOK
<1> QED
  BY TextsInvariant, TextsMean, PTL

\* format_fpu64 never fails for an accepted transaction: its status words for texts that
\* cannot be formatted are not reached.
THEOREM EveryNumberFormats == Spec => []FormattingSucceeds
<1> QED
  BY TextsInvariant, TextsMean, PTL

\* The fees on the screen and their sum are those of the transaction under review, to the
\* last digit, for every fee the parser lets pass.
THEOREM FeesShown == Spec => []FeesAreShown
<1> QED
  BY TextsInvariant, TextsMean, PTL

\* The amount of a transfer is shown with its token, in units that read right: eight
\* digits behind the point for GAS, a zero for NEO.
THEOREM AmountShown == Spec => []AmountIsShown
<1> QED
  BY TextsInvariant, TextsMean, PTL

\* A transfer's address is the 25 bytes of its destination in base 58: base58_encode loses
\* no digit though it stops early at each byte, and the text is complete though there is no
\* room for a zero behind it.
THEOREM AddressShown == Spec => []AddressIsShown
<1> QED
  BY TextsInvariant, TextsMean, PTL

\* A network is shown by its name or its number, and the last block as its number, as long
\* as they are in the lower half of a uint32_t.
THEOREM NumbersShown == Spec => []NumbersAreShown
<1> QED
  BY TextsInvariant, TextsMean, PTL

\* The screen of a scope names its flags, all of them and no other, whatever g_scope had in
\* it from the screens before.
THEOREM ScopeShown == Spec => []ScopeIsShown
<1> QED
  BY TextsInvariant, TextsMean, PTL
=============================================================================
