---------------------------- MODULE SumsTheorems ----------------------------
(* What proofs need to know of Total and Support (Sums).                   *)
EXTENDS Sums, FiniteSetTheorems, FunctionTheorems, TLAPS

\* A pair is a unit of f when its second component counts up to f of its first.
LEMMA UnitsMembership ==
    ASSUME NEW S, NEW f \in [S -> Nat], NEW p
    PROVE  p \in Units(f) <=> \E x \in S, i \in Nat : p = <<x, i>> /\ 1 <= i /\ i <= f[x]
<1>1. DOMAIN f = S
  OBVIOUS
<1>2. ASSUME NEW x \in S
      PROVE  p \in {x} \X (1 .. f[x]) <=> \E i \in Nat : p = <<x, i>> /\ 1 <= i /\ i <= f[x]
  <2>1. f[x] \in Nat
    OBVIOUS
  <2>2. \A i : i \in 1 .. f[x] <=> i \in Nat /\ 1 <= i /\ i <= f[x]
    BY <2>1
  <2>3. p \in {x} \X (1 .. f[x]) <=> \E i \in 1 .. f[x] : p = <<x, i>>
    OBVIOUS
  <2> QED
    BY <2>2, <2>3
<1>3. p \in Units(f) <=> \E x \in S : p \in {x} \X (1 .. f[x])
  BY <1>1 DEF Units
<1> QED
  BY <1>2, <1>3

\* The units of a function with one element in its support.
LEMMA TotalOfOne ==
    ASSUME NEW S, NEW f \in [S -> Nat], NEW a \in S, \A x \in S : x # a => f[x] = 0
    PROVE  IsFiniteSet(Units(f)) /\ Total(f) = f[a]
<1> DEFINE pair == [i \in 1 .. f[a] |-> <<a, i>>]
<1>1. f[a] \in Nat
  OBVIOUS
<1>2. IsFiniteSet(1 .. f[a]) /\ Cardinality(1 .. f[a]) = f[a]
  BY <1>1, FS_Interval
<1>3. \A p : p \in Units(f) <=> \E i \in 1 .. f[a] : p = <<a, i>>
  <2> TAKE p
  <2>1. p \in Units(f) <=> \E x \in S, i \in Nat : p = <<x, i>> /\ 1 <= i /\ i <= f[x]
    BY UnitsMembership
  <2>2. \A x \in S, i \in Nat : 1 <= i /\ i <= f[x] => x = a
    OBVIOUS
  <2>3. \A i : i \in 1 .. f[a] <=> i \in Nat /\ 1 <= i /\ i <= f[a]
    BY <1>1
  <2> QED
    BY <2>1, <2>2, <2>3
<1>4. pair \in Bijection(1 .. f[a], Units(f))
  <2>1. pair \in [1 .. f[a] -> Units(f)]
    BY <1>3
  <2>2. \A i, j \in 1 .. f[a] : pair[i] = pair[j] => i = j
    OBVIOUS
  <2>3. \A p \in Units(f) : \E i \in 1 .. f[a] : pair[i] = p
    BY <1>3
  <2> QED
    BY <2>1, <2>2, <2>3, Fun_IsBij
<1>5. ExistsBijection(1 .. f[a], Units(f))
  BY <1>4 DEF ExistsBijection
<1> QED
  BY <1>2, <1>5, FS_Bijection DEF Total

\* The units of two functions are disjoint where their supports are.
LEMMA UnitsSplit ==
    ASSUME NEW S, NEW f \in [S -> Nat], NEW g \in [S -> Nat], NEW h \in [S -> Nat],
           \A x \in S : (g[x] = f[x] /\ h[x] = 0) \/ (g[x] = 0 /\ h[x] = f[x])
    PROVE  Units(f) = Units(g) \cup Units(h) /\ Units(g) \cap Units(h) = {}
<1>1. \A p : p \in Units(f) <=> \E x \in S, i \in Nat : p = <<x, i>> /\ 1 <= i /\ i <= f[x]
  BY UnitsMembership
<1>2. \A p : p \in Units(g) <=> \E x \in S, i \in Nat : p = <<x, i>> /\ 1 <= i /\ i <= g[x]
  BY UnitsMembership
<1>3. \A p : p \in Units(h) <=> \E x \in S, i \in Nat : p = <<x, i>> /\ 1 <= i /\ i <= h[x]
  BY UnitsMembership
<1>4. \A x \in S, i \in Nat : 1 <= i /\ i <= f[x] <=> \/ 1 <= i /\ i <= g[x]
                                                      \/ 1 <= i /\ i <= h[x]
  OBVIOUS
<1>5. \A x \in S, i \in Nat : ~(1 <= i /\ i <= g[x] /\ i <= h[x])
  OBVIOUS
<1>6. \A p : p \in Units(f) <=> p \in Units(g) \/ p \in Units(h)
  BY <1>1, <1>2, <1>3, <1>4
<1>7. \A p : ~(p \in Units(g) /\ p \in Units(h))
  <2> SUFFICES ASSUME NEW p, p \in Units(g), p \in Units(h) PROVE FALSE
    OBVIOUS
  <2>1. PICK x \in S, i \in Nat : p = <<x, i>> /\ 1 <= i /\ i <= g[x]
    BY <1>2
  <2>2. PICK y \in S, j \in Nat : p = <<y, j>> /\ 1 <= j /\ j <= h[y]
    BY <1>3
  <2>3. x = y /\ i = j
    BY <2>1, <2>2
  <2> QED
    BY <2>1, <2>2, <2>3, <1>5
<1> QED
  BY <1>6, <1>7

\* A function is the sum of two that share out its support.
LEMMA TotalSplit ==
    ASSUME NEW S, NEW f \in [S -> Nat], NEW g \in [S -> Nat], NEW h \in [S -> Nat],
           \A x \in S : (g[x] = f[x] /\ h[x] = 0) \/ (g[x] = 0 /\ h[x] = f[x]),
           IsFiniteSet(Units(g)), IsFiniteSet(Units(h))
    PROVE  Total(f) = Total(g) + Total(h)
<1>1. Units(f) = Units(g) \cup Units(h) /\ Units(g) \cap Units(h) = {}
  BY UnitsSplit
<1>2. Cardinality({}) = 0
  BY FS_EmptySet
<1>3. Cardinality(Units(g)) \in Nat /\ Cardinality(Units(h)) \in Nat
  BY FS_CardinalityType
<1>4. Cardinality(Units(g) \cup Units(h)) =
        Cardinality(Units(g)) + Cardinality(Units(h)) - Cardinality(Units(g) \cap Units(h))
  BY FS_Union
<1> QED
  BY <1>1, <1>2, <1>3, <1>4 DEF Total

\* Over a finite domain there are finitely many units.
LEMMA TotalType ==
    ASSUME NEW S, IsFiniteSet(S), NEW f \in [S -> Nat]
    PROVE  IsFiniteSet(Units(f)) /\ Total(f) \in Nat
<1> DEFINE Column(x) == {x} \X (1 .. f[x])
           columns == [x \in S |-> Column(x)]
           image == {Column(x) : x \in S}
<1>1. columns \in Surjection(S, image)
  <2>1. columns \in [S -> image]
    OBVIOUS
  <2>2. \A y \in image : \E x \in S : columns[x] = y
    OBVIOUS
  <2> QED
    BY <2>1, <2>2, Fun_IsSurj
<1>2. IsFiniteSet(image)
  BY <1>1, FS_Surjection
<1>3. ASSUME NEW x \in S PROVE IsFiniteSet(Column(x))
  <2>1. IsFiniteSet({x})
    BY FS_Singleton
  <2>2. IsFiniteSet(1 .. f[x])
    BY FS_Interval
  <2> QED
    BY <2>1, <2>2, FS_Product
<1>4. \A y \in image : IsFiniteSet(y)
  BY <1>3
<1>5. IsFiniteSet(UNION image)
  BY <1>2, <1>4, FS_UNION
<1>6. Units(f) = UNION image
  BY DEF Units
<1> QED
  BY <1>5, <1>6, FS_CardinalityType DEF Total

\* Nothing is 0 in total only if it is 0 everywhere.
LEMMA TotalZero ==
    ASSUME NEW S, IsFiniteSet(S), NEW f \in [S -> Nat]
    PROVE  Total(f) = 0 <=> \A x \in S : f[x] = 0
<1>1. \A p : p \in Units(f) <=> \E x \in S, i \in Nat : p = <<x, i>> /\ 1 <= i /\ i <= f[x]
  BY UnitsMembership
<1>2. Total(f) = 0 <=> Units(f) = {}
  BY TotalType, FS_EmptySet DEF Total
<1>3. ASSUME \A x \in S : f[x] = 0 PROVE Units(f) = {}
  BY <1>1, <1>3
<1>4. ASSUME NEW x \in S, f[x] # 0 PROVE <<x, 1>> \in Units(f)
  <2>1. f[x] >= 1
    BY <1>4
  <2> QED
    BY <2>1, <1>1
<1> QED
  BY <1>2, <1>3, <1>4

\* A part is at most the whole.
LEMMA TotalElement ==
    ASSUME NEW S, IsFiniteSet(S), NEW f \in [S -> Nat], NEW a \in S
    PROVE  f[a] <= Total(f)
<1> DEFINE one == [x \in S |-> IF x = a THEN f[a] ELSE 0]
           rest == [x \in S |-> IF x = a THEN 0 ELSE f[x]]
<1>1. one \in [S -> Nat] /\ rest \in [S -> Nat]
  OBVIOUS
<1>2. Total(one) = f[a]
  BY <1>1, TotalOfOne
<1>3. Total(rest) \in Nat /\ IsFiniteSet(Units(rest)) /\ IsFiniteSet(Units(one))
  BY <1>1, TotalType
<1>4. Total(f) = Total(one) + Total(rest)
  <2> HIDE DEF one, rest
  <2>1. \A x \in S : (one[x] = f[x] /\ rest[x] = 0) \/ (one[x] = 0 /\ rest[x] = f[x])
    BY DEF one, rest
  <2> QED
    BY <1>1, <1>3, <2>1, TotalSplit
<1> QED
  BY <1>2, <1>3, <1>4

\* The support of a function over a finite set, and of two that share it out.
LEMMA SupportType ==
    ASSUME NEW S, IsFiniteSet(S), NEW f \in [S -> Nat]
    PROVE  /\ Support(f) = {x \in S : f[x] > 0}
           /\ IsFiniteSet(Support(f)) /\ Cardinality(Support(f)) \in Nat
<1>1. Support(f) = {x \in S : f[x] > 0}
  BY DEF Support
<1> QED
  BY <1>1, FS_Subset, FS_CardinalityType

LEMMA SupportSplit ==
    ASSUME NEW S, IsFiniteSet(S),
           NEW f \in [S -> Nat], NEW g \in [S -> Nat], NEW h \in [S -> Nat],
           \A x \in S : (g[x] = f[x] /\ h[x] = 0) \/ (g[x] = 0 /\ h[x] = f[x])
    PROVE  Cardinality(Support(f)) = Cardinality(Support(g)) + Cardinality(Support(h))
<1>1. /\ Support(f) = {x \in S : f[x] > 0} /\ Support(g) = {x \in S : g[x] > 0}
      /\ Support(h) = {x \in S : h[x] > 0}
  BY SupportType
<1>2. Support(f) = Support(g) \cup Support(h) /\ Support(g) \cap Support(h) = {}
  BY <1>1
<1>3. /\ IsFiniteSet(Support(g)) /\ IsFiniteSet(Support(h))
      /\ Cardinality(Support(g)) \in Nat /\ Cardinality(Support(h)) \in Nat
  BY SupportType
<1>4. Cardinality({}) = 0
  BY FS_EmptySet
<1>5. Cardinality(Support(g) \cup Support(h)) =
        Cardinality(Support(g)) + Cardinality(Support(h)) - Cardinality(Support(g) \cap Support(h))
  BY <1>3, FS_Union
<1>6. /\ Cardinality(Support(g) \cup Support(h)) = Cardinality(Support(f))
      /\ Cardinality(Support(g) \cap Support(h)) = 0
  BY <1>2, <1>4
<1> QED
  BY <1>3, <1>5, <1>6

\* One unit for each element.
LEMMA TotalOfOnes ==
    ASSUME NEW S, IsFiniteSet(S), NEW f \in [S -> Nat], \A x \in S : f[x] = 1
    PROVE  Total(f) = Cardinality(S)
<1> DEFINE unit == [x \in S |-> <<x, 1>>]
<1>1. \A p : p \in Units(f) <=> \E x \in S, i \in Nat : p = <<x, i>> /\ 1 <= i /\ i <= f[x]
  BY UnitsMembership
<1>2. \A p : p \in Units(f) <=> \E x \in S : p = <<x, 1>>
  <2> SUFFICES ASSUME NEW p PROVE p \in Units(f) <=> \E x \in S : p = <<x, 1>>
    OBVIOUS
  <2>1. \A x \in S, i \in Nat : 1 <= i /\ i <= f[x] <=> i = 1
    OBVIOUS
  <2> QED
    BY <1>1, <2>1
<1>3. unit \in [S -> Units(f)] /\ \A x \in S : unit[x] = <<x, 1>>
  BY <1>2
<1> HIDE DEF unit
<1>4. \A x, y \in S : unit[x] = unit[y] => x = y
  BY <1>3
<1>5. \A p \in Units(f) : \E x \in S : unit[x] = p
  BY <1>2, <1>3
<1>6. ExistsBijection(S, Units(f))
  BY <1>3, <1>4, <1>5, Fun_IsBij DEF ExistsBijection
<1> QED
  BY <1>6, FS_Bijection DEF Total

\* Adding two functions up adds up their totals: the units of h that are above those
\* of f are as many as those of g.
LEMMA TotalSum ==
    ASSUME NEW S, IsFiniteSet(S), NEW f \in [S -> Nat], NEW g \in [S -> Nat],
           NEW h \in [S -> Nat], \A x \in S : h[x] = f[x] + g[x]
    PROVE  Total(h) = Total(f) + Total(g)
<1> DEFINE above == Units(h) \ Units(f)
           up == [p \in Units(g) |-> <<p[1], f[p[1]] + p[2]>>]
<1>1. \A p : p \in Units(f) <=> \E x \in S, i \in Nat : p = <<x, i>> /\ 1 <= i /\ i <= f[x]
  BY UnitsMembership
<1>2. \A p : p \in Units(g) <=> \E x \in S, i \in Nat : p = <<x, i>> /\ 1 <= i /\ i <= g[x]
  BY UnitsMembership
<1>3. \A p : p \in Units(h) <=> \E x \in S, i \in Nat : p = <<x, i>> /\ 1 <= i /\ i <= h[x]
  BY UnitsMembership
<1>4. \A x \in S : f[x] \in Nat /\ g[x] \in Nat /\ h[x] = f[x] + g[x]
  OBVIOUS
<1>5. \A x \in S, i \in Nat : <<x, i>> \in Units(f) <=> 1 <= i /\ i <= f[x]
  BY <1>1
<1>6. \A x \in S, i \in Nat : <<x, i>> \in Units(h) <=> 1 <= i /\ i <= h[x]
  BY <1>3
<1>7. Units(f) \subseteq Units(h)
  <2> SUFFICES ASSUME NEW x \in S, NEW i \in Nat, 1 <= i, i <= f[x] PROVE <<x, i>> \in Units(h)
    BY <1>1
  <2> QED
    BY <1>4, <1>6
<1>8. \A p \in Units(g) : \E x \in S, i \in Nat :
          /\ p = <<x, i>> /\ 1 <= i /\ i <= g[x]
          /\ up[p] = <<x, f[x] + i>>
  BY <1>2
<1>9. \A p \in Units(g) : up[p] \in above
  <2> SUFFICES ASSUME NEW p \in Units(g) PROVE up[p] \in above
    OBVIOUS
  <2>1. PICK x \in S, i \in Nat : 1 <= i /\ i <= g[x] /\ up[p] = <<x, f[x] + i>>
    BY <1>8
  <2>2. f[x] + i \in Nat /\ 1 <= f[x] + i /\ f[x] + i <= h[x] /\ ~(f[x] + i <= f[x])
    BY <2>1, <1>4
  <2> QED
    BY <2>1, <2>2, <1>5, <1>6
<1>10. \A p, q \in Units(g) : up[p] = up[q] => p = q
  <2> SUFFICES ASSUME NEW p \in Units(g), NEW q \in Units(g), up[p] = up[q] PROVE p = q
    OBVIOUS
  <2>1. PICK x \in S, i \in Nat : p = <<x, i>> /\ up[p] = <<x, f[x] + i>>
    BY <1>8
  <2>2. PICK y \in S, j \in Nat : q = <<y, j>> /\ up[q] = <<y, f[y] + j>>
    BY <1>8
  <2>3. x = y /\ f[x] + i = f[y] + j
    BY <2>1, <2>2
  <2>4. i = j
    BY <2>3, <1>4
  <2> QED
    BY <2>1, <2>2, <2>3, <2>4
<1>11. \A u \in above : \E p \in Units(g) : up[p] = u
  <2> SUFFICES ASSUME NEW u \in above PROVE \E p \in Units(g) : up[p] = u
    OBVIOUS
  <2>1. PICK x \in S, i \in Nat : u = <<x, i>> /\ 1 <= i /\ i <= h[x] /\ ~(i <= f[x])
    BY <1>3, <1>5
  <2>2. i - f[x] \in Nat /\ 1 <= i - f[x] /\ i - f[x] <= g[x] /\ f[x] + (i - f[x]) = i
    BY <2>1, <1>4
  <2>3. <<x, i - f[x]>> \in Units(g)
    BY <2>2, <1>2
  <2>4. up[<<x, i - f[x]>>] = <<x, f[x] + (i - f[x])>>
    BY <2>3
  <2> QED
    BY <2>1, <2>2, <2>3, <2>4
<1>12. up \in [Units(g) -> above]
  BY <1>9
<1>13. /\ IsFiniteSet(Units(f)) /\ Total(f) \in Nat /\ IsFiniteSet(Units(g)) /\ Total(g) \in Nat
       /\ IsFiniteSet(Units(h))
  BY TotalType
<1> HIDE DEF above, up
<1>14. ExistsBijection(Units(g), above)
  BY <1>10, <1>11, <1>12, Fun_IsBij DEF ExistsBijection
<1>15. IsFiniteSet(above) /\ Cardinality(above) = Total(g)
  BY <1>13, <1>14, FS_Bijection DEF Total
<1>16. Units(h) = Units(f) \cup above /\ Units(f) \cap above = {}
  BY <1>7 DEF above
<1>17. Cardinality(Units(f) \cup above)
         = Cardinality(Units(f)) + Cardinality(above) - Cardinality(Units(f) \cap above)
  BY <1>13, <1>15, FS_Union
<1>18. Cardinality(Units(f) \cap above) = 0
  BY <1>16, FS_EmptySet
<1> QED
  BY <1>13, <1>15, <1>16, <1>17, <1>18 DEF Total

\* What f gives to the elements of S with a key.
GroupTotal(f, S, key, k) == Total([x \in {y \in S : key[y] = k} |-> f[x]])

\* Adding up group by group gives no more than adding up everything: each unit of a
\* group is a unit of the whole, and no two groups share one.
LEMMA TotalOfGroups ==
    ASSUME NEW S, IsFiniteSet(S), NEW f \in [S -> Nat], NEW K, IsFiniteSet(K), NEW key,
           NEW g \in [K -> Nat],
           \A k \in K : g[k] = GroupTotal(f, S, key, k)
    PROVE  Total(g) <= Total(f)
<1> DEFINE Group(k) == [x \in {y \in S : key[y] = k} |-> f[x]]
           Number(k) == CHOOSE b : b \in Bijection(1 .. g[k], Units(Group(k)))
           unit == [p \in Units(g) |-> Number(p[1])[p[2]]]
<1>1. \A p : p \in Units(f) <=> \E x \in S, i \in Nat : p = <<x, i>> /\ 1 <= i /\ i <= f[x]
  BY UnitsMembership
<1>2. \A p : p \in Units(g) <=> \E k \in K, i \in Nat : p = <<k, i>> /\ 1 <= i /\ i <= g[k]
  BY UnitsMembership
<1>3. ASSUME NEW k \in K
      PROVE  /\ \A p \in Units(Group(k)) : p \in Units(f) /\ key[p[1]] = k
             /\ Number(k) \in Bijection(1 .. g[k], Units(Group(k)))
  <2> DEFINE T == {y \in S : key[y] = k}
             h == [x \in T |-> f[x]]
  <2>1. IsFiniteSet(T) /\ h \in [T -> Nat] /\ \A x \in T : h[x] = f[x] /\ x \in S /\ key[x] = k
    BY FS_Subset
  <2>2. Group(k) = h /\ g[k] = Total(h)
    BY DEF GroupTotal
  <2> HIDE DEF T, h
  <2>3. \A p : p \in Units(h) <=> \E x \in T, i \in Nat : p = <<x, i>> /\ 1 <= i /\ i <= h[x]
    BY <2>1, UnitsMembership
  <2>4. \A p \in Units(h) : p \in Units(f) /\ key[p[1]] = k
    BY <2>1, <2>3, <1>1
  <2>5. IsFiniteSet(Units(h)) /\ Total(h) \in Nat
    BY <2>1, TotalType
  <2>6. ExistsBijection(1 .. Total(h), Units(h))
    <3>1. PICK n \in Nat : ExistsBijection(1 .. n, Units(h))
      BY <2>5, FS_NatBijection
    <3>2. Cardinality(Units(h)) = n
      BY <3>1, FS_CountingElements
    <3> QED
      BY <3>1, <3>2 DEF Total
  <2>7. \E b : b \in Bijection(1 .. Total(h), Units(h))
    BY <2>6 DEF ExistsBijection
  <2> QED
    BY <2>2, <2>4, <2>7
<1> HIDE DEF Group, Number
<1>4. \A k \in K : \A i \in 1 .. g[k] : Number(k)[i] \in Units(Group(k))
  BY <1>3 DEF Bijection, Injection
<1>5. \A k \in K : \A i, j \in 1 .. g[k] : Number(k)[i] = Number(k)[j] => i = j
  BY <1>3 DEF Bijection, Injection, IsInjective
<1>6. \A p \in Units(g) : \E k \in K : \E i \in 1 .. g[k] : p = <<k, i>> /\ unit[p] = Number(k)[i]
  <2> SUFFICES ASSUME NEW p \in Units(g)
               PROVE  \E k \in K : \E i \in 1 .. g[k] : p = <<k, i>> /\ unit[p] = Number(k)[i]
    OBVIOUS
  <2>1. PICK k \in K, i \in Nat : p = <<k, i>> /\ 1 <= i /\ i <= g[k]
    BY <1>2
  <2>2. i \in 1 .. g[k]
    BY <2>1
  <2> QED
    BY <2>1, <2>2
<1>7. \A p \in Units(g) : unit[p] \in Units(f)
  BY <1>3, <1>4, <1>6
<1>8. \A p, q \in Units(g) : unit[p] = unit[q] => p = q
  <2> SUFFICES ASSUME NEW p \in Units(g), NEW q \in Units(g), unit[p] = unit[q] PROVE p = q
    OBVIOUS
  <2>1. PICK k \in K : \E i \in 1 .. g[k] : p = <<k, i>> /\ unit[p] = Number(k)[i]
    BY <1>6
  <2>2. PICK l \in K : \E j \in 1 .. g[l] : q = <<l, j>> /\ unit[q] = Number(l)[j]
    BY <1>6
  <2>3. key[unit[p][1]] = k /\ key[unit[q][1]] = l
    BY <2>1, <2>2, <1>3, <1>4
  <2>4. k = l
    BY <2>3
  <2> QED
    BY <2>1, <2>2, <2>4, <1>5
<1>9. unit \in [Units(g) -> Units(f)]
  BY <1>7
<1>10. IsFiniteSet(Units(f))
  BY TotalType
<1> HIDE DEF unit
<1>11. unit \in Injection(Units(g), Units(f))
  BY <1>8, <1>9, Fun_IsInj
<1> QED
  BY <1>10, <1>11, FS_Injection DEF Total
=============================================================================
