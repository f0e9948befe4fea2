-------------------------------- MODULE Lemmas --------------------------------
(***************************************************************************)
(* Facts about remainders and sums that the proofs of several components   *)
(* need.                                                                   *)
(***************************************************************************)
EXTENDS Integers, Sums, FiniteSetTheorems, TLAPS

\* A product with a positive factor grows with the other factor.
LEMMA MulMono == \A a, b, c \in Int : a > 0 /\ b >= c + 1 => a * b >= a * c + a
<1> SUFFICES ASSUME NEW a \in Int, NEW b \in Int, NEW c \in Int, a > 0, b >= c + 1
             PROVE  a * b >= a * c + a
    OBVIOUS
<1>1. a * b = a * c + a + a * (b - c - 1) OBVIOUS
<1>2. a * (b - c - 1) >= 0
  <2>1. b - c - 1 >= 0 OBVIOUS
  <2> QED BY <2>1
<1> QED BY <1>1, <1>2

\* Division with remainder, as the provers know it.
LEMMA ModDef == \A x \in Int, n \in Nat \ {0} :
                   /\ x = n * (x \div n) + (x % n)
                   /\ x % n \in 0..n - 1
                   /\ x \div n \in Int
OBVIOUS

\* The remainder is unique.
LEMMA ModUnique == ASSUME NEW x \in Int, NEW n \in Nat \ {0}, NEW q \in Int, NEW r \in 0..n - 1,
                          x = n * q + r
                   PROVE  x % n = r
<1> DEFINE p == x \div n
           s == x % n
<1>1. x = n * p + s /\ s \in 0..n - 1 /\ p \in Int BY ModDef
<1> HIDE DEF p, s
<1>2. CASE p = q BY <1>1, <1>2 DEF s
<1>3. CASE p >= q + 1
  <2>1. n * p >= n * q + n BY <1>3, <1>1, MulMono
  <2> QED BY <2>1, <1>1
<1>4. CASE q >= p + 1
  <2>1. n * q >= n * p + n BY <1>4, <1>1, MulMono
  <2> QED BY <2>1, <1>1
<1> QED BY <1>1, <1>2, <1>3, <1>4

\* Moving at most one round ahead wraps at most once.
LEMMA AddMod == ASSUME NEW n \in Nat \ {0}, NEW f \in Nat, NEW j \in 0..n
                PROVE  (f + j) % n = IF (f % n) + j < n THEN (f % n) + j ELSE (f % n) + j - n
<1> DEFINE q == f \div n
           r == f % n
<1>1. f = n * q + r /\ r \in 0..n - 1 /\ q \in Int BY ModDef
<1> HIDE DEF q, r
<1>2. CASE r + j < n
  <2>1. f + j = n * q + (r + j) BY <1>1
  <2>2. r + j \in 0..n - 1 BY <1>1, <1>2
  <2>3. (f + j) % n = r + j BY <2>1, <2>2, <1>1, ModUnique
  <2> QED BY <2>3, <1>2 DEF r
<1>3. CASE ~(r + j < n)
  <2>1. f + j = n * (q + 1) + (r + j - n) BY <1>1
  <2>2. r + j - n \in 0..n - 1 /\ q + 1 \in Int /\ f + j \in Int BY <1>1, <1>3
  <2>3. \A c \in Int, d \in 0..n - 1 : f + j = n * c + d => (f + j) % n = d
    BY <2>2, ModUnique
  <2>4. (f + j) % n = r + j - n BY <2>1, <2>2, <2>3
  <2> QED BY <2>4, <1>3 DEF r
<1> QED BY <1>2, <1>3

\* Within a round of zero: what is below n stays, what is not loses one
\* round, and what is below zero gains one.
LEMMA ModRound == \A n \in Nat \ {0}, x \in Int :
                     /\ 0 <= x /\ x < n => x % n = x
                     /\ n <= x /\ x < 2 * n => x % n = x - n
                     /\ x < 0 /\ 0 <= x + n => x % n = x + n
<1> SUFFICES ASSUME NEW n \in Nat \ {0}, NEW x \in Int
             PROVE  /\ 0 <= x /\ x < n => x % n = x
                    /\ n <= x /\ x < 2 * n => x % n = x - n
                    /\ x < 0 /\ 0 <= x + n => x % n = x + n
    OBVIOUS
<1>1. ASSUME x < 0, 0 <= x + n PROVE x % n = x + n
  <2>1. x = n * (-1) + (x + n) /\ x + n \in 0..n - 1 BY <1>1
  <2> QED BY <2>1, <1>1, ModUnique
<1>2. ASSUME 0 <= x, x < n PROVE x % n = x
  <2>1. x = n * 0 + x /\ x \in 0..n - 1 BY <1>2
  <2> QED BY <2>1, <1>2, ModUnique
<1>3. ASSUME n <= x, x < 2 * n PROVE x % n = x - n
  <2>1. x = n * 1 + (x - n) /\ x - n \in 0..n - 1 BY <1>3
  <2> QED BY <2>1, <1>3, ModUnique
<1> QED BY <1>1, <1>2, <1>3

-----------------------------------------------------------------------------
(* Sums *)

LEMMA UnitsFinite == ASSUME NEW D, IsFiniteSet(D), NEW f \in [D -> Nat] PROVE IsFiniteSet(Units(f))
<1> DEFINE Img == {{x} \X (1..f[x]) : x \in D}
           g == [x \in D |-> {x} \X (1..f[x])]
<1>1. g \in Surjection(D, Img) BY DEF Surjection
<1>2. IsFiniteSet(Img) BY <1>1, FS_Surjection
<1>3. ASSUME NEW T \in Img PROVE IsFiniteSet(T)
  <2>1. PICK x \in D : T = {x} \X (1..f[x]) OBVIOUS
  <2>2. f[x] \in Nat OBVIOUS
  <2>3. IsFiniteSet({x}) BY FS_Singleton
  <2>4. IsFiniteSet(1..f[x]) BY <2>2, FS_Interval
  <2> QED BY <2>1, <2>3, <2>4, FS_Product
<1>4. IsFiniteSet(UNION Img) BY <1>2, <1>3, FS_UNION
<1> QED BY <1>4 DEF Units

\* One term taken out of the sum.
LEMMA TotalSplit ==
  ASSUME NEW D, IsFiniteSet(D), NEW f \in [D -> Nat], NEW k \in D
  PROVE  /\ Total(f) \in Nat /\ Total([x \in D \ {k} |-> f[x]]) \in Nat
         /\ Total(f) = Total([x \in D \ {k} |-> f[x]]) + f[k]
<1> DEFINE g == [x \in D \ {k} |-> f[x]]
           K == {k} \X (1..f[k])
<1>1. IsFiniteSet(D \ {k}) /\ g \in [D \ {k} -> Nat] BY FS_RemoveElement
<1>2. IsFiniteSet(Units(f)) /\ IsFiniteSet(Units(g)) BY <1>1, UnitsFinite
<1>3. IsFiniteSet({k}) /\ Cardinality({k}) = 1 BY FS_Singleton
<1>4. IsFiniteSet(1..f[k]) /\ Cardinality(1..f[k]) = f[k] BY FS_Interval
<1>11. IsFiniteSet(K) /\ Cardinality(K) = Cardinality({k}) * Cardinality(1..f[k])
      BY <1>3, <1>4, FS_Product
<1>12. 1 * f[k] = f[k] /\ f[k] \in Nat OBVIOUS
<1>5. IsFiniteSet(K) /\ Cardinality(K) = f[k] BY <1>3, <1>4, <1>11, <1>12
<1>6. Units(f) = Units(g) \cup K
  <2>1. Units(f) \subseteq Units(g) \cup K BY DEF Units
  <2>2. Units(g) \subseteq Units(f) BY DEF Units
  <2>3. K \subseteq Units(f) BY DEF Units
  <2> QED BY <2>1, <2>2, <2>3
<1>7. Units(g) \cap K = {} BY DEF Units
<1>8. Cardinality(Units(g) \cap K) = 0 BY <1>7, FS_EmptySet
<1> HIDE DEF g, K
<1>9. Cardinality(Units(g) \cup K) = Cardinality(Units(g)) + Cardinality(K) - Cardinality(Units(g) \cap K)
      BY <1>2, <1>5, FS_Union
<1>10. Cardinality(Units(f)) \in Nat /\ Cardinality(Units(g)) \in Nat BY <1>2, FS_CardinalityType
<1>13. Cardinality(Units(f)) = Cardinality(Units(g)) + f[k] BY <1>5, <1>6, <1>8, <1>9, <1>10, <1>12
<1> QED BY <1>10, <1>13 DEF Total, g

LEMMA TotalEmpty == ASSUME NEW f, DOMAIN f = {} PROVE Total(f) = 0
<1>1. Units(f) = {} BY DEF Units
<1> QED BY <1>1, FS_EmptySet DEF Total

LEMMA TotalNat == ASSUME NEW D, IsFiniteSet(D), NEW f \in [D -> Nat] PROVE Total(f) \in Nat
  BY UnitsFinite, FS_CardinalityType DEF Total

\* The sum after one term has changed.
LEMMA TotalChange ==
  ASSUME NEW D, IsFiniteSet(D), NEW f \in [D -> Nat], NEW g \in [D -> Nat], NEW k \in D,
         \A x \in D \ {k} : g[x] = f[x]
  PROVE  Total(f) \in Nat /\ Total(g) \in Nat /\ Total(g) = Total(f) - f[k] + g[k]
<1> DEFINE rest == Total([x \in D \ {k} |-> f[x]])
<1>1. [x \in D \ {k} |-> g[x]] = [x \in D \ {k} |-> f[x]] OBVIOUS
<1>2. Total(f) \in Nat /\ rest \in Nat /\ Total(f) = rest + f[k] BY TotalSplit
<1>3. /\ Total(g) \in Nat /\ Total([x \in D \ {k} |-> g[x]]) \in Nat
      /\ Total(g) = Total([x \in D \ {k} |-> g[x]]) + g[k]
      BY TotalSplit
<1>4. Total(g) = rest + g[k] BY <1>1, <1>3
<1>5. f[k] \in Nat /\ g[k] \in Nat OBVIOUS
<1> HIDE DEF rest
<1> QED BY <1>2, <1>3, <1>4, <1>5

\* What is left out of a sum may as well be zero.
LEMMA TotalWhere ==
  ASSUME NEW D, NEW S, S \subseteq D, NEW f
  PROVE  Total([x \in S |-> f[x]]) = Total([x \in D |-> IF x \in S THEN f[x] ELSE 0])
<1> DEFINE g == [x \in S |-> f[x]]
           h == [x \in D |-> IF x \in S THEN f[x] ELSE 0]
<1>1. 1..0 = {} OBVIOUS
<1>2. DOMAIN g = S /\ DOMAIN h = D OBVIOUS
<1>3. \A x \in S : g[x] = f[x] /\ h[x] = f[x] OBVIOUS
<1>4. \A x \in D : x \notin S => h[x] = 0 OBVIOUS
<1> HIDE DEF g, h
<1>5. Units(g) \subseteq Units(h) BY <1>2, <1>3 DEF Units
<1>6. Units(h) \subseteq Units(g)
  <2> SUFFICES ASSUME NEW x \in D, NEW u \in {x} \X (1..h[x]) PROVE u \in Units(g)
      BY <1>2 DEF Units
  <2>1. x \in S BY <1>1, <1>4
  <2> QED BY <1>2, <1>3, <2>1 DEF Units
<1> QED BY <1>5, <1>6 DEF Total, g, h

\* A sum of nothing.
LEMMA TotalZero == ASSUME NEW f, \A x \in DOMAIN f : f[x] = 0 PROVE Total(f) = 0
<1>1. 1..0 = {} OBVIOUS
<1>2. \A x \in DOMAIN f : {x} \X (1..f[x]) = {} BY <1>1
<1>3. Units(f) = {} BY <1>2 DEF Units
<1> QED BY <1>3, FS_EmptySet DEF Total

\* A sum whose first term is zero, and the same terms one place ahead.
LEMMA TotalShift ==
  ASSUME NEW n \in Nat, NEW f \in [1..n + 1 -> Nat], NEW g \in [1..n -> Nat], f[1] = 0,
         \A x \in 1..n : g[x] = f[x + 1]
  PROVE  Total(f) = Total(g)
<1> DEFINE h == [u \in Units(g) |-> <<u[1] + 1, u[2]>>]
<1>1. \A u : u \in Units(g) <=> \E x \in 1..n : \E k \in 1..g[x] : u = <<x, k>> BY DEF Units
<1>2. \A u : u \in Units(f) <=> \E x \in 1..n + 1 : \E k \in 1..f[x] : u = <<x, k>> BY DEF Units
<1>3. h \in [Units(g) -> Units(f)]
  <2> SUFFICES ASSUME NEW u \in Units(g) PROVE <<u[1] + 1, u[2]>> \in Units(f)
      OBVIOUS
  <2>1. PICK x \in 1..n : \E k \in 1..g[x] : u = <<x, k>> BY <1>1
  <2>2. PICK k \in 1..g[x] : u = <<x, k>> BY <2>1
  <2>3. x + 1 \in 1..n + 1 /\ k \in 1..f[x + 1] OBVIOUS
  <2> QED BY <2>2, <2>3, <1>2
<1>4. \A u, v \in Units(g) : h[u] = h[v] => u = v
  <2> SUFFICES ASSUME NEW u \in Units(g), NEW v \in Units(g), h[u] = h[v] PROVE u = v
      OBVIOUS
  <2>1. PICK x \in 1..n : \E k \in 1..g[x] : u = <<x, k>> BY <1>1
  <2>2. PICK k \in 1..g[x] : u = <<x, k>> BY <2>1
  <2>3. PICK y \in 1..n : \E l \in 1..g[y] : v = <<y, l>> BY <1>1
  <2>4. PICK l \in 1..g[y] : v = <<y, l>> BY <2>3
  <2>5. h[u] = <<x + 1, k>> /\ h[v] = <<y + 1, l>> BY <2>2, <2>4
  <2>6. x + 1 = y + 1 /\ k = l BY <2>5
  <2> QED BY <2>2, <2>4, <2>6
<1>5. \A w \in Units(f) : \E u \in Units(g) : h[u] = w
  <2> SUFFICES ASSUME NEW w \in Units(f) PROVE \E u \in Units(g) : h[u] = w
      OBVIOUS
  <2>1. PICK z \in 1..n + 1 : \E k \in 1..f[z] : w = <<z, k>> BY <1>2
  <2>2. PICK k \in 1..f[z] : w = <<z, k>> BY <2>1
  <2>3. z # 1 BY <2>2
  <2>4. PICK x \in 1..n : z = x + 1
    <3>1. z - 1 \in 1..n /\ z = (z - 1) + 1 BY <2>3
    <3> QED BY <3>1
  <2>5. <<x, k>> \in Units(g) BY <2>2, <2>4, <1>1
  <2>6. h[<<x, k>>] = w BY <2>2, <2>4, <2>5
  <2> QED BY <2>5, <2>6
<1> HIDE DEF h
<1>6. h \in Bijection(Units(g), Units(f))
      BY <1>3, <1>4, <1>5 DEF Bijection, Injection, Surjection, IsInjective
<1>7. ExistsBijection(Units(g), Units(f)) BY <1>6 DEF ExistsBijection
<1>8. IsFiniteSet(1..n) BY FS_Interval
<1>9. IsFiniteSet(Units(g)) BY <1>8, UnitsFinite
<1> QED BY <1>7, <1>9, FS_Bijection DEF Total

\* Two subsets of a finite set that agree but for k.
LEMMA CardChange ==
  ASSUME NEW D, IsFiniteSet(D), NEW S, NEW T, S \subseteq D, T \subseteq D, NEW k \in D,
         \A x \in D \ {k} : x \in S <=> x \in T
  PROVE  /\ Cardinality(S) \in Nat /\ Cardinality(T) \in Nat
         /\ Cardinality(T) = Cardinality(S) - (IF k \in S THEN 1 ELSE 0) + (IF k \in T THEN 1 ELSE 0)
         /\ Cardinality(T) <= Cardinality(D)
<1>1. /\ IsFiniteSet(S) /\ IsFiniteSet(T) /\ Cardinality(T) <= Cardinality(D)
      BY FS_Subset
<1>2. Cardinality(S) \in Nat /\ Cardinality(T) \in Nat BY <1>1, FS_CardinalityType
<1>3. CASE (k \in S) <=> (k \in T)
  <2>1. S = T BY <1>3
  <2> QED BY <1>1, <1>2, <2>1
<1>4. CASE k \in S /\ k \notin T
  <2>1. T = S \ {k} BY <1>4
  <2>2. Cardinality(S \ {k}) = Cardinality(S) - 1 BY <1>1, <1>4, FS_RemoveElement
  <2> QED BY <1>1, <1>2, <1>4, <2>1, <2>2
<1>5. CASE k \notin S /\ k \in T
  <2>1. T = S \cup {k} BY <1>5
  <2>2. Cardinality(S \cup {k}) = Cardinality(S) + 1 BY <1>1, <1>5, FS_AddElement
  <2> QED BY <1>1, <1>2, <1>5, <2>1, <2>2
<1> QED BY <1>3, <1>4, <1>5
=============================================================================
