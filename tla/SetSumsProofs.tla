--------------------------- MODULE SetSumsProofs ----------------------------
(***************************************************************************)
(* Lemmas about Total.  It is a fold, that is a recursive function over    *)
(* the subsets of S; the induction behind each lemma takes a smallest      *)
(* subset for which the lemma fails.                                       *)
(***************************************************************************)
EXTENDS SetSums, FiniteSetTheorems, TLAPS

\* Of the subsets of a finite set that a family has, one has no other below it.
LEMMA SmallestSubset ==
  ASSUME NEW S, IsFiniteSet(S), NEW F, F \subseteq SUBSET S, F # {}
  PROVE  \E X \in F : \A Y \in F : Y \subseteq X => Y = X
<1>1. IsWellFoundedOn(StrictSubsetOrdering(S), FiniteSubsetsOf(S))
  BY FS_StrictSubsetOrderingWellFounded
<1>2. F \subseteq FiniteSubsetsOf(S)
  BY FS_FiniteSubsetsOfFinite
<1>3. PICK X \in F : \A Y \in F : ~ (<<Y, X>> \in StrictSubsetOrdering(S))
  BY <1>1, <1>2, WFMin
<1>4. ASSUME NEW Y \in F, Y \subseteq X PROVE Y = X
  BY <1>3, <1>4 DEF StrictSubsetOrdering
<1> QED  BY <1>4

-----------------------------------------------------------------------------
(* The recursive function.                                                  *)

Some(s) == CHOOSE x \in s : TRUE
Rest(s) == s \ {Some(s)}
Adds(g, S, q) == g = [s \in SUBSET S |-> IF s = {} THEN 0 ELSE q[Some(s)] + g[Rest(s)]]
Adder(S, q) == CHOOSE g : Adds(g, S, q)

LEMMA TotalUnfolded == ASSUME NEW S, NEW q PROVE Total(S, q) = Adder(S, q)[S]
BY DEF Total, MapThenFoldSet, Adder, Adds, Some, Rest

LEMMA SomeMember == ASSUME NEW s, s # {} PROVE Some(s) \in s /\ Rest(s) \subseteq s /\ Rest(s) # s
BY DEF Some, Rest

LEMMA AddsAgree ==
  ASSUME NEW S, IsFiniteSet(S), NEW T \in SUBSET S, NEW q, NEW g, NEW h,
         Adds(g, S, q), Adds(h, T, q), NEW s \in SUBSET T
  PROVE  g[s] = h[s]
<1> DEFINE F == {r \in SUBSET T : g[r] # h[r]}
<1> SUFFICES ASSUME F # {} PROVE FALSE
  OBVIOUS
<1>1. PICK X \in F : \A Y \in F : Y \subseteq X => Y = X
  <2>1. IsFiniteSet(T) /\ F \subseteq SUBSET T
    BY FS_Subset
  <2> HIDE DEF F
  <2> QED  BY <2>1, SmallestSubset
<1>2. X # {}
  BY DEF Adds
<1>3. Rest(X) \in SUBSET T /\ Rest(X) \notin F
  BY <1>1, <1>2, SomeMember
<1>4. g[X] = q[Some(X)] + g[Rest(X)] /\ h[X] = q[Some(X)] + h[Rest(X)]
  BY <1>2 DEF Adds
<1> QED  BY <1>3, <1>4

LEMMA AdderExists ==
  ASSUME NEW S, IsFiniteSet(S), NEW q
  PROVE  Adds(Adder(S, q), S, q)
<1> DEFINE F == {r \in SUBSET S : ~ \E g : Adds(g, r, q)}
<1> SUFFICES ASSUME F # {} PROVE FALSE
  <2>1. \E g : Adds(g, S, q)
    OBVIOUS
  <2> QED  BY <2>1 DEF Adder
<1>1. PICK X \in F : \A Y \in F : Y \subseteq X => Y = X
  <2>1. F \subseteq SUBSET S
    OBVIOUS
  <2> HIDE DEF F
  <2> QED  BY <2>1, SmallestSubset
<1>2. \A Y \in SUBSET X : Y # X => Adds(Adder(Y, q), Y, q)
  BY <1>1 DEF Adder
<1>3. \A Y \in SUBSET X : IsFiniteSet(Y)
  BY FS_Subset
<1> DEFINE value(s) == Adder(s, q)[s]
           g == [s \in SUBSET X |-> IF s = {} THEN 0 ELSE q[Some(s)] + value(Rest(s))]
<1>4. ASSUME NEW r \in SUBSET X, r # X PROVE g[r] = value(r)
  <2>1. Adds(Adder(r, q), r, q)
    BY <1>2, <1>4
  <2>2. CASE r = {}
    BY <2>1, <2>2 DEF Adds
  <2>3. CASE r # {}
    <3>0. IsFiniteSet(r) /\ Rest(r) \in SUBSET Rest(r)
      BY <1>3
    <3>1. Rest(r) \in SUBSET r /\ Rest(r) # X
      BY <1>4, <2>3, SomeMember
    <3>2. Adds(Adder(Rest(r), q), Rest(r), q)
      BY <1>2, <3>1
    <3>3. Adder(r, q)[Rest(r)] = value(Rest(r))
      BY <2>1, <3>1, <3>2, <3>0, AddsAgree
    <3>4. value(r) = q[Some(r)] + Adder(r, q)[Rest(r)]
      BY <2>1, <2>3 DEF Adds
    <3>5. g[r] = q[Some(r)] + value(Rest(r))
      BY <2>3
    <3> QED  BY <3>3, <3>4, <3>5
  <2> QED  BY <2>2, <2>3
<1>5. ASSUME NEW s \in SUBSET X, s # {} PROVE g[Rest(s)] = value(Rest(s))
  <2>1. Rest(s) \in SUBSET X /\ Rest(s) # X
    BY <1>5, SomeMember
  <2> HIDE DEF g, value
  <2> QED  BY <1>4, <2>1
<1>6. Adds(g, X, q)
  BY <1>5 DEF Adds
<1> QED  BY <1>1, <1>6

LEMMA TotalRest ==
  ASSUME NEW S, IsFiniteSet(S), NEW q, S # {}
  PROVE  Total(S, q) = q[Some(S)] + Total(Rest(S), q)
<1>1. Rest(S) \in SUBSET S /\ IsFiniteSet(Rest(S))
  BY SomeMember, FS_Subset
<1>2. Adds(Adder(S, q), S, q) /\ Adds(Adder(Rest(S), q), Rest(S), q)
  BY <1>1, AdderExists
<1>3. Adder(S, q)[Rest(S)] = Adder(Rest(S), q)[Rest(S)]
  BY <1>1, <1>2, AddsAgree
<1>4. Adder(S, q)[S] = q[Some(S)] + Adder(S, q)[Rest(S)]
  BY <1>2 DEF Adds
<1> QED  BY <1>3, <1>4, TotalUnfolded

-----------------------------------------------------------------------------
(* What the other modules use.                                              *)

\* The sum over nothing is 0.
LEMMA TotalEmpty == ASSUME NEW q PROVE Total({}, q) = 0
<1>1. Adds(Adder({}, q), {}, q)
  BY AdderExists, FS_EmptySet
<1> QED  BY <1>1, TotalUnfolded DEF Adds

\* A sum of integers is an integer.
LEMMA TotalInt ==
  ASSUME NEW S, IsFiniteSet(S), NEW q, \A x \in S : q[x] \in Int
  PROVE  Total(S, q) \in Int
<1> DEFINE F == {r \in SUBSET S : Total(r, q) \notin Int}
<1> SUFFICES ASSUME F # {} PROVE FALSE
  OBVIOUS
<1>1. PICK X \in F : \A Y \in F : Y \subseteq X => Y = X
  <2>1. F \subseteq SUBSET S
    OBVIOUS
  <2> HIDE DEF F
  <2> QED  BY <2>1, SmallestSubset
<1>2. X # {}
  BY TotalEmpty
<1>3. Some(X) \in S /\ Rest(X) \in SUBSET S /\ Rest(X) \notin F
  BY <1>1, <1>2, SomeMember
<1>4. Total(X, q) = q[Some(X)] + Total(Rest(X), q)
  BY <1>2, TotalRest, FS_Subset
<1> QED  BY <1>3, <1>4

\* A sum of natural numbers is a natural number.
LEMMA TotalType ==
  ASSUME NEW S, IsFiniteSet(S), NEW q, \A x \in S : q[x] \in Nat
  PROVE  Total(S, q) \in Nat
<1> DEFINE F == {r \in SUBSET S : Total(r, q) \notin Nat}
<1> SUFFICES ASSUME F # {} PROVE FALSE
  OBVIOUS
<1>1. PICK X \in F : \A Y \in F : Y \subseteq X => Y = X
  <2>1. F \subseteq SUBSET S
    OBVIOUS
  <2> HIDE DEF F
  <2> QED  BY <2>1, SmallestSubset
<1>2. X # {}
  BY TotalEmpty
<1>3. Some(X) \in S /\ Rest(X) \in SUBSET S /\ Rest(X) \notin F
  BY <1>1, <1>2, SomeMember
<1>4. Total(X, q) = q[Some(X)] + Total(Rest(X), q)
  BY <1>2, TotalRest, FS_Subset
<1> QED  BY <1>3, <1>4

\* Any element of the set can be taken out of the sum.
LEMMA TotalRemove ==
  ASSUME NEW S, IsFiniteSet(S), NEW q, \A y \in S : q[y] \in Int, NEW x \in S
  PROVE  Total(S, q) = q[x] + Total(S \ {x}, q)
<1> DEFINE F == {r \in SUBSET S : \E y \in r : Total(r, q) # q[y] + Total(r \ {y}, q)}
<1> SUFFICES ASSUME F # {} PROVE FALSE
  OBVIOUS
<1>1. PICK X \in F : \A Y \in F : Y \subseteq X => Y = X
  <2>1. F \subseteq SUBSET S
    OBVIOUS
  <2> HIDE DEF F
  <2> QED  BY <2>1, SmallestSubset
<1>2. PICK y \in X : Total(X, q) # q[y] + Total(X \ {y}, q)
  BY <1>1
<1>3. /\ Some(X) \in X
      /\ \A s \in SUBSET S : IsFiniteSet(s)
      /\ \A s \in SUBSET S : Total(s, q) \in Int
  <2>1. \A s \in SUBSET S : IsFiniteSet(s)
    BY FS_Subset
  <2> QED  BY <1>2, <2>1, SomeMember, TotalInt
<1>4. Total(X, q) = q[Some(X)] + Total(Rest(X), q)
  BY <1>2, <1>3, TotalRest
<1>5. Some(X) # y
  BY <1>2, <1>4 DEF Rest
<1>6. Rest(X) \notin F /\ X \ {y} \notin F
  BY <1>1, <1>2, SomeMember
<1> DEFINE both == X \ {y, Some(X)}
<1>7. Total(Rest(X), q) = q[y] + Total(both, q)
  <2>1. y \in Rest(X) /\ Rest(X) \ {y} = both
    BY <1>2, <1>5 DEF Rest
  <2> QED  BY <1>6, <2>1, SomeMember, <1>2
<1>8. Total(X \ {y}, q) = q[Some(X)] + Total(both, q)
  <2>1. Some(X) \in X \ {y} /\ (X \ {y}) \ {Some(X)} = both
    BY <1>3, <1>5
  <2> QED  BY <1>6, <2>1
<1>9. q[y] \in Int /\ q[Some(X)] \in Int /\ Total(both, q) \in Int
  BY <1>2, <1>3
<1> HIDE DEF both
<1> QED  BY <1>2, <1>4, <1>7, <1>8, <1>9

\* A new element adds its value.
LEMMA TotalAdd ==
  ASSUME NEW S, IsFiniteSet(S), NEW x, x \notin S, NEW q, \A y \in S \cup {x} : q[y] \in Int
  PROVE  Total(S \cup {x}, q) = Total(S, q) + q[x]
<1>1. IsFiniteSet(S \cup {x}) /\ (S \cup {x}) \ {x} = S
  BY FS_AddElement
<1>2. Total(S \cup {x}, q) = q[x] + Total((S \cup {x}) \ {x}, q)
  BY <1>1, TotalRemove
<1>3. Total(S \cup {x}, q) = q[x] + Total(S, q)
  BY <1>1, <1>2
<1> DEFINE a == Total(S, q)
           b == q[x]
<1>4. a \in Int /\ b \in Int
  BY TotalInt
<1> HIDE DEF a, b
<1>5. b + a = a + b
  BY <1>4
<1> QED  BY <1>3, <1>5 DEF a, b

\* The sum depends on the values at the elements of the set only.
LEMMA TotalSame ==
  ASSUME NEW S, IsFiniteSet(S), NEW q, NEW r, \A x \in S : q[x] = r[x]
  PROVE  Total(S, q) = Total(S, r)
<1> DEFINE F == {s \in SUBSET S : Total(s, q) # Total(s, r)}
<1> SUFFICES ASSUME F # {} PROVE FALSE
  OBVIOUS
<1>1. PICK X \in F : \A Y \in F : Y \subseteq X => Y = X
  <2>1. F \subseteq SUBSET S
    OBVIOUS
  <2> HIDE DEF F
  <2> QED  BY <2>1, SmallestSubset
<1>2. X # {} /\ IsFiniteSet(X)
  BY TotalEmpty, FS_Subset
<1>3. Some(X) \in S /\ Rest(X) \in SUBSET S /\ Rest(X) \notin F
  BY <1>1, <1>2, SomeMember
<1>4. /\ Total(X, q) = q[Some(X)] + Total(Rest(X), q)
      /\ Total(X, r) = r[Some(X)] + Total(Rest(X), r)
  BY <1>2, TotalRest
<1> QED  BY <1>3, <1>4

\* A sum of zeros is zero.
LEMMA TotalZero ==
  ASSUME NEW S, IsFiniteSet(S), NEW q, \A x \in S : q[x] = 0
  PROVE  Total(S, q) = 0
<1> DEFINE F == {s \in SUBSET S : Total(s, q) # 0}
<1> SUFFICES ASSUME F # {} PROVE FALSE
  OBVIOUS
<1>1. PICK X \in F : \A Y \in F : Y \subseteq X => Y = X
  <2>1. F \subseteq SUBSET S
    OBVIOUS
  <2> HIDE DEF F
  <2> QED  BY <2>1, SmallestSubset
<1>2. X # {} /\ IsFiniteSet(X)
  BY TotalEmpty, FS_Subset
<1>3. Some(X) \in S /\ Rest(X) \in SUBSET S /\ Rest(X) \notin F
  BY <1>1, <1>2, SomeMember
<1>4. Total(X, q) = q[Some(X)] + Total(Rest(X), q)
  BY <1>2, TotalRest
<1> QED  BY <1>3, <1>4

\* A change of one value changes the sum by the difference.
LEMMA TotalUpdate ==
  ASSUME NEW S, IsFiniteSet(S), NEW x \in S, NEW q, NEW r,
         \A y \in S : q[y] \in Int /\ r[y] \in Int,
         \A y \in S : y # x => q[y] = r[y]
  PROVE  Total(S, r) = Total(S, q) - q[x] + r[x]
<1>1. IsFiniteSet(S \ {x})
  BY FS_Subset
<1>2. Total(S \ {x}, q) = Total(S \ {x}, r) /\ Total(S \ {x}, q) \in Int
  BY <1>1, TotalSame, TotalInt
<1>3. Total(S, q) = q[x] + Total(S \ {x}, q) /\ Total(S, r) = r[x] + Total(S \ {x}, r)
  BY TotalRemove
<1> QED  BY <1>2, <1>3

\* The sum over one element is its value.
LEMMA TotalSingleton ==
  ASSUME NEW x, NEW q, q[x] \in Int
  PROVE  Total({x}, q) = q[x]
<1>1. IsFiniteSet({x}) /\ {x} \ {x} = {}
  BY FS_Singleton
<1>2. Total({x}, q) = q[x] + Total({x} \ {x}, q)
  BY <1>1, TotalRemove
<1> QED  BY <1>1, <1>2, TotalEmpty

\* The sum over two disjoint sets is the sum of their sums.
LEMMA TotalDisjointUnion ==
  ASSUME NEW S, IsFiniteSet(S), NEW T, IsFiniteSet(T), S \cap T = {},
         NEW q, \A x \in S \cup T : q[x] \in Int
  PROVE  Total(S \cup T, q) = Total(S, q) + Total(T, q)
<1> DEFINE F == {s \in SUBSET T : Total(S \cup s, q) # Total(S, q) + Total(s, q)}
<1> SUFFICES ASSUME F # {} PROVE FALSE
  OBVIOUS
<1>1. PICK X \in F : \A Y \in F : Y \subseteq X => Y = X
  <2>1. F \subseteq SUBSET T
    OBVIOUS
  <2> HIDE DEF F
  <2> QED  BY <2>1, SmallestSubset
<1>2. X # {}
  <2>1. Total(S \cup {}, q) = Total(S, q)
    <3>1. S \cup {} = S
      OBVIOUS
    <3> QED  BY <3>1
  <2>2. Total(S, q) \in Int
    BY TotalInt
  <2>3. Total(S, q) + 0 = Total(S, q)
    BY <2>2
  <2> QED  BY <2>1, <2>3, TotalEmpty
<1>3. PICK x \in X : TRUE
  BY <1>2
<1> DEFINE Y == X \ {x}
<1>4. Y \in SUBSET T /\ Y \notin F
  BY <1>1
<1>5. IsFiniteSet(X) /\ IsFiniteSet(Y) /\ IsFiniteSet(S \cup X)
  BY FS_Subset, FS_Union
<1>6. Total(X, q) = q[x] + Total(Y, q)
  BY <1>5, TotalRemove
<1>7. Total(S \cup X, q) = q[x] + Total(S \cup Y, q)
  <2>1. (S \cup X) \ {x} = S \cup Y /\ x \in S \cup X /\ \A y \in S \cup X : q[y] \in Int
    OBVIOUS
  <2> HIDE DEF Y
  <2> QED  BY <1>5, <2>1, TotalRemove
<1>8. Total(S, q) \in Int /\ Total(Y, q) \in Int /\ q[x] \in Int
  BY <1>4, <1>5, TotalInt
<1>9. Total(S \cup Y, q) = Total(S, q) + Total(Y, q)
  BY <1>4
<1> HIDE DEF Y
<1> QED  BY <1>6, <1>7, <1>8, <1>9

\* A sum is at most its largest value, as often as there are elements.
LEMMA TotalBound ==
  ASSUME NEW S, IsFiniteSet(S), NEW k \in Nat, NEW q, \A x \in S : q[x] \in 0..k
  PROVE  Total(S, q) \in Nat /\ Total(S, q) <= k * Cardinality(S)
<1> DEFINE F == {s \in SUBSET S : ~ Total(s, q) <= k * Cardinality(s)}
<1>0. \A s \in SUBSET S : IsFiniteSet(s) /\ Cardinality(s) \in Nat /\ Total(s, q) \in Nat
  BY FS_Subset, FS_CardinalityType, TotalType
<1> SUFFICES ASSUME F # {} PROVE FALSE
  BY <1>0
<1>1. PICK X \in F : \A Y \in F : Y \subseteq X => Y = X
  <2>1. F \subseteq SUBSET S
    OBVIOUS
  <2> HIDE DEF F
  <2> QED  BY <2>1, SmallestSubset
<1>2. X # {}
  BY TotalEmpty, FS_EmptySet
<1>3. Some(X) \in S /\ Some(X) \in X /\ Rest(X) \in SUBSET S /\ Rest(X) \notin F
  BY <1>1, <1>2, SomeMember
<1>4. Total(X, q) = q[Some(X)] + Total(Rest(X), q)
  BY <1>0, <1>2, TotalRest
<1>5. Cardinality(Rest(X)) = Cardinality(X) - 1
  BY <1>0, <1>3, FS_RemoveElement DEF Rest
<1>6. Total(Rest(X), q) <= k * Cardinality(Rest(X))
  BY <1>3
<1> DEFINE n == Cardinality(Rest(X))
           m == Cardinality(X)
           a == Total(Rest(X), q)
           b == q[Some(X)]
<1>7. n \in Nat /\ m \in Nat /\ a \in Nat /\ b \in 0..k /\ m = n + 1 /\ a <= k * n
  BY <1>0, <1>3, <1>5, <1>6
<1>8. ~ b + a <= k * m
  BY <1>4
<1> HIDE DEF n, m, a, b
<1>9. k * m = k * n + k
  BY <1>7
<1>10. k * n \in Int
  BY <1>7
<1> QED  BY <1>7, <1>8, <1>9, <1>10

\* A sum of natural numbers is 0 only when each of them is.
LEMMA TotalZeroOnly ==
  ASSUME NEW S, IsFiniteSet(S), NEW q, \A x \in S : q[x] \in Nat, Total(S, q) = 0, NEW x \in S
  PROVE  q[x] = 0
<1>1. IsFiniteSet(S \ {x})
  BY FS_Subset
<1>2. Total(S \ {x}, q) \in Nat
  BY <1>1, TotalType
<1>3. Total(S, q) = q[x] + Total(S \ {x}, q)
  BY TotalRemove
<1> QED  BY <1>2, <1>3

-----------------------------------------------------------------------------
\* A family of sets of at most k members each covers at most k for each index.
LEMMA CoverBound ==
  ASSUME NEW S, IsFiniteSet(S), NEW k \in Nat, NEW f,
         \A x \in S : IsFiniteSet(f[x]) /\ Cardinality(f[x]) <= k
  PROVE  LET U == UNION {f[x] : x \in S}
         IN  IsFiniteSet(U) /\ Cardinality(U) <= k * Cardinality(S)
<1> DEFINE Cover(s) == UNION {f[x] : x \in s}
           Small(s) == IsFiniteSet(Cover(s)) /\ Cardinality(Cover(s)) <= k * Cardinality(s)
           F == {s \in SUBSET S : ~ Small(s)}
<1> SUFFICES ASSUME F # {} PROVE FALSE
  OBVIOUS
<1>1. PICK X \in F : \A Y \in F : Y \subseteq X => Y = X
  <2>1. F \subseteq SUBSET S
    OBVIOUS
  <2> HIDE DEF F
  <2> QED  BY <2>1, SmallestSubset
<1>2. X \in SUBSET S /\ ~ Small(X)
  OBVIOUS
<1>3. X # {}
  <2>1. Cover({}) = {}
    OBVIOUS
  <2>2. IsFiniteSet({}) /\ Cardinality({}) = 0
    BY FS_EmptySet
  <2>3. Small({})
    BY <2>1, <2>2
  <2> QED  BY <1>2, <2>3
<1>4. PICK x \in X : TRUE
  BY <1>3
<1> DEFINE R == X \ {x}
<1>5. Small(R)
  <2>1. R \in SUBSET S /\ R \subseteq X /\ R # X
    BY <1>2
  <2> QED  BY <1>1, <2>1
<1>6. Cover(X) = Cover(R) \cup f[x]
  OBVIOUS
<1>7. IsFiniteSet(X) /\ Cardinality(R) = Cardinality(X) - 1 /\ Cardinality(X) \in Nat
  BY <1>2, FS_Subset, FS_RemoveElement, FS_CardinalityType
<1>8. IsFiniteSet(f[x]) /\ Cardinality(f[x]) <= k
  BY <1>2
<1> HIDE DEF R
<1>9. /\ IsFiniteSet(Cover(X))
      /\ Cardinality(Cover(X)) <= Cardinality(Cover(R)) + Cardinality(f[x])
  <2> DEFINE A == Cover(R)
             B == f[x]
  <2>1. IsFiniteSet(A) /\ IsFiniteSet(B)
    BY <1>5, <1>8
  <2> HIDE DEF A, B
  <2>2. /\ IsFiniteSet(A \cup B)
        /\ Cardinality(A \cup B) = Cardinality(A) + Cardinality(B) - Cardinality(A \cap B)
    BY <2>1, FS_Union
  <2>3. Cardinality(A) \in Nat /\ Cardinality(B) \in Nat /\ Cardinality(A \cap B) \in Nat
    BY <2>1, FS_CardinalityType, FS_Intersection
  <2>4. Cardinality(A \cup B) <= Cardinality(A) + Cardinality(B)
    BY <2>2, <2>3
  <2> QED  BY <1>6, <2>2, <2>4 DEF A, B
<1> DEFINE n == Cardinality(X)
           c == Cardinality(Cover(R))
           d == Cardinality(f[x])
           e == Cardinality(Cover(X))
<1>10. c <= k * (n - 1) /\ d <= k /\ e <= c + d
  BY <1>5, <1>7, <1>8, <1>9
<1>11. n \in Nat /\ c \in Nat /\ d \in Nat /\ e \in Nat
  BY <1>5, <1>7, <1>8, <1>9, FS_CardinalityType
<1>12. k * (n - 1) + k = k * n
  BY <1>11
<1>13. e <= k * n
  <2> HIDE DEF n, c, d, e
  <2> DEFINE a == k * (n - 1)
             b == k * n
  <2>1. a \in Int /\ b \in Int
    BY <1>11
  <2>2. a + k = b /\ c <= a
    BY <1>10, <1>12
  <2> HIDE DEF a, b
  <2>3. e <= b
    BY <1>10, <1>11, <2>1, <2>2
  <2> QED  BY <2>3 DEF b
<1> QED
  BY <1>2, <1>9, <1>13
=============================================================================
