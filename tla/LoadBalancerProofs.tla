------------------------- MODULE LoadBalancerProofs -------------------------
(***************************************************************************)
(* Proofs about LoadBalancers and AdaptiveBalancer, for any number of      *)
(* workers, weights, loads, virtual nodes and callers, and any length of a *)
(* behaviour.  Sums, ranks and searches are recursive functions or         *)
(* choices: the first lemmas say what they yield.                          *)
(***************************************************************************)
EXTENDS LoadBalancers, AdaptiveBalancer, WellFoundedInduction, FiniteSetTheorems, TLAPS
-----------------------------------------------------------------------------
(* Induction, with the predicate given as the set of what satisfies it.    *)

LEMMA MinimalSet ==
    ASSUME NEW S, IsFiniteSet(S), NEW Bad \in SUBSET SUBSET S, Bad # {}
    PROVE  \E T \in Bad : \A U \in SUBSET T : U # T => U \notin Bad
<1> DEFINE R == StrictSubsetOrdering(S)
<1>1. IsWellFoundedOn(R, SUBSET S)
  BY FS_StrictSubsetOrderingWellFounded, FS_FiniteSubsetsOfFinite
<1>2. PICK T \in Bad : \A U \in Bad : <<U, T>> \notin R
  <2> HIDE DEF R
  <2> QED BY <1>1, WFMin
<1>3. ASSUME NEW U \in SUBSET T, U # T PROVE U \notin Bad
  <2>1. U \in SUBSET S /\ T \in SUBSET S
    OBVIOUS
  <2>2. <<U, T>> \in R
    BY <1>3, <2>1 DEF StrictSubsetOrdering
  <2> QED BY <1>2, <2>2
<1> QED BY <1>3

LEMMA NatInduct ==
    ASSUME NEW G, 0 \in G, \A n \in Nat : n \in G => n + 1 \in G
    PROVE  \A n \in Nat : n \in G
<1> DEFINE R == OpToRel(<, Nat)
           Bad == {n \in Nat : n \notin G}
<1> SUFFICES ASSUME Bad # {} PROVE FALSE
  OBVIOUS
<1>1. IsWellFoundedOn(R, Nat)
  BY NatLessThanWellFounded
<1>2. PICK n \in Bad : \A m \in Bad : <<m, n>> \notin R
  <2>1. Bad \in SUBSET Nat
    OBVIOUS
  <2> HIDE DEF R, Bad
  <2> QED BY <1>1, <2>1, WFMin
<1>3. n # 0 /\ n - 1 \in Nat
  OBVIOUS
<1>4. n - 1 \in G
  <2>1. <<n - 1, n>> \in R
    BY <1>3 DEF OpToRel
  <2> QED BY <1>2, <1>3, <2>1
<1>5. (n - 1) + 1 = n
  BY <1>3
<1> QED BY <1>3, <1>4, <1>5
-----------------------------------------------------------------------------
(* Sums: what SumFunctionOnSet of the library adds up to.                  *)

Summed(f, U, g) ==
    g = [T \in U |->
            IF T = {} THEN 0 ELSE LET x == CHOOSE x \in T : TRUE IN f[x] + g[T \ {x}]]

LEMMA SummedExists ==
    ASSUME NEW S, IsFiniteSet(S), NEW f
    PROVE  \E g : Summed(f, SUBSET S, g)
<1> DEFINE Upto(n) == {T \in SUBSET S : Cardinality(T) <= n}
           G == {n \in Nat : \E g : Summed(f, Upto(n), g)}
           Pick(T) == CHOOSE x \in T : TRUE
<1>1. \A T \in SUBSET S : IsFiniteSet(T) /\ Cardinality(T) \in Nat
  BY FS_Subset, FS_CardinalityType
<1>2. \A T \in SUBSET S : T # {} =>
         /\ Pick(T) \in T /\ T \ {Pick(T)} \in SUBSET S
         /\ Cardinality(T \ {Pick(T)}) = Cardinality(T) - 1
  BY <1>1, FS_RemoveElement
<1>3. 0 \in G
  <2> DEFINE g == [T \in Upto(0) |-> 0]
  <2>1. \A T \in Upto(0) : T = {}
    BY <1>1, FS_EmptySet
  <2>2. Summed(f, Upto(0), g)
    BY <2>1 DEF Summed
  <2> QED BY <2>2
<1>4. ASSUME NEW n \in Nat, n \in G PROVE n + 1 \in G
  <2>1. PICK g : Summed(f, Upto(n), g)
    BY <1>4
  <2> DEFINE h == [T \in Upto(n + 1) |->
                      IF T = {} THEN 0 ELSE f[Pick(T)] + g[T \ {Pick(T)}]]
  <2>2. \A T \in Upto(n) : T \in Upto(n + 1) /\ h[T] = g[T]
    <3> SUFFICES ASSUME NEW T \in SUBSET S, Cardinality(T) <= n
                 PROVE  T \in Upto(n + 1) /\ h[T] = g[T]
      OBVIOUS
    <3>1. T \in Upto(n) /\ T \in Upto(n + 1)
      BY <1>1
    <3>2. g[T] = IF T = {} THEN 0 ELSE f[Pick(T)] + g[T \ {Pick(T)}]
      <4> HIDE DEF Upto
      <4> QED BY <2>1, <3>1 DEF Summed
    <3> QED BY <3>1, <3>2
  <2>3. \A T \in Upto(n + 1) : T # {} => T \ {Pick(T)} \in Upto(n)
    <3> SUFFICES ASSUME NEW T \in Upto(n + 1), T # {} PROVE T \ {Pick(T)} \in Upto(n)
      OBVIOUS
    <3>1. T \in SUBSET S /\ Cardinality(T) <= n + 1 /\ Cardinality(T) \in Nat
      BY <1>1
    <3>2. T \ {Pick(T)} \in SUBSET S /\ Cardinality(T \ {Pick(T)}) = Cardinality(T) - 1
      BY <1>2, <3>1
    <3> HIDE DEF Pick
    <3> QED BY <3>1, <3>2
  <2>4. Summed(f, Upto(n + 1), h)
    <3>1. \A T \in Upto(n + 1) :
             h[T] = IF T = {} THEN 0 ELSE f[Pick(T)] + h[T \ {Pick(T)}]
      <4> HIDE DEF Upto, Pick
      <4> QED BY <2>2, <2>3
    <3> QED BY <3>1 DEF Summed
  <2>5. \E k : Summed(f, Upto(n + 1), k)
    <3> HIDE DEF h, Upto
    <3> QED BY <2>4
  <2> QED BY <2>5
<1>5. \A n \in Nat : n \in G
  <2> HIDE DEF G
  <2> QED BY <1>3, <1>4, NatInduct
<1>6. Cardinality(S) \in G
  BY <1>1, <1>5
<1>7. Upto(Cardinality(S)) = SUBSET S
  BY FS_Subset
<1> QED BY <1>6, <1>7

(* The same sets have the same sums, in whichever set they are.            *)
LEMMA SummedUnique ==
    ASSUME NEW S, IsFiniteSet(S), NEW f, NEW T \in SUBSET S,
           NEW g, Summed(f, SUBSET S, g), NEW h, Summed(f, SUBSET T, h)
    PROVE  \A U \in SUBSET T : g[U] = h[U]
<1> DEFINE Bad == {U \in SUBSET T : g[U] # h[U]}
<1> SUFFICES ASSUME Bad # {} PROVE FALSE
  OBVIOUS
<1>1. PICK U \in Bad : \A V \in SUBSET U : V # U => V \notin Bad
  <2>1. IsFiniteSet(T) /\ Bad \in SUBSET SUBSET T
    BY FS_Subset
  <2> HIDE DEF Bad
  <2> QED BY <2>1, MinimalSet
<1>2. U \in SUBSET T /\ U \in SUBSET S /\ g[U] # h[U]
  OBVIOUS
<1>3. U # {}
  BY <1>2 DEF Summed
<1> DEFINE x == CHOOSE x \in U : TRUE
<1>4. x \in U
  BY <1>3
<1>5. g[U] = f[x] + g[U \ {x}] /\ h[U] = f[x] + h[U \ {x}]
  BY <1>2, <1>3 DEF Summed
<1>6. g[U \ {x}] = h[U \ {x}]
  BY <1>1, <1>2, <1>4
<1> QED BY <1>2, <1>5, <1>6

(* A table of the sums of all subsets.                                     *)
SumTable(f, S, g) ==
    /\ Summed(f, SUBSET S, g)
    /\ \A T \in SUBSET S : SumFunctionOnSet(f, T) = g[T]

LEMMA SumIs ==
    ASSUME NEW S, IsFiniteSet(S), NEW f
    PROVE  \E g : SumTable(f, S, g)
<1>1. PICK g : Summed(f, SUBSET S, g)
  BY SummedExists
<1>2. ASSUME NEW T \in SUBSET S PROVE SumFunctionOnSet(f, T) = g[T]
  <2> DEFINE h == CHOOSE h : Summed(f, SUBSET T, h)
  <2>1. Summed(f, SUBSET T, h)
    <3>1. \E k : Summed(f, SUBSET T, k)
      BY FS_Subset, SummedExists
    <3> QED BY <3>1
  <2>2. SumFunctionOnSet(f, T) = h[T]
    BY DEF Summed, SumFunctionOnSet, FoldFunctionOnSet, MapThenFoldSet
  <2>3. g[T] = h[T]
    <3> HIDE DEF h
    <3> QED BY <1>1, <2>1, SummedUnique
  <2> QED BY <2>2, <2>3
<1> QED BY <1>1, <1>2 DEF SumTable

LEMMA SumEmpty == ASSUME NEW f PROVE SumFunctionOnSet(f, {}) = 0
<1>1. PICK g : SumTable(f, {}, g)
  BY SumIs, FS_EmptySet
<1> QED BY <1>1 DEF Summed, SumTable

LEMMA SumStep ==
    ASSUME NEW S, IsFiniteSet(S), NEW f, S # {}
    PROVE  \E x \in S : SumFunctionOnSet(f, S) = f[x] + SumFunctionOnSet(f, S \ {x})
<1>1. PICK g : SumTable(f, S, g)
  BY SumIs
<1> DEFINE x == CHOOSE x \in S : TRUE
<1>2. x \in S
  OBVIOUS
<1>3. g[S] = f[x] + g[S \ {x}]
  BY <1>1 DEF Summed, SumTable
<1> QED BY <1>1, <1>2, <1>3 DEF SumTable

LEMMA SumInt ==
    ASSUME NEW S, IsFiniteSet(S), NEW f, \A x \in S : f[x] \in Int
    PROVE  SumFunctionOnSet(f, S) \in Int
<1> DEFINE Bad == {T \in SUBSET S : SumFunctionOnSet(f, T) \notin Int}
<1> SUFFICES ASSUME Bad # {} PROVE FALSE
  OBVIOUS
<1>1. PICK T \in Bad : \A U \in SUBSET T : U # T => U \notin Bad
  <2>1. Bad \in SUBSET SUBSET S
    OBVIOUS
  <2> HIDE DEF Bad
  <2> QED BY <2>1, MinimalSet
<1>2. T \in SUBSET S /\ IsFiniteSet(T) /\ SumFunctionOnSet(f, T) \notin Int
  BY FS_Subset
<1>3. T # {}
  BY <1>2, SumEmpty
<1>4. PICK x \in T : SumFunctionOnSet(f, T) = f[x] + SumFunctionOnSet(f, T \ {x})
  BY <1>2, <1>3, SumStep
<1>5. SumFunctionOnSet(f, T \ {x}) \in Int
  BY <1>1, <1>2
<1> QED BY <1>2, <1>4, <1>5

LEMMA SumNat ==
    ASSUME NEW S, IsFiniteSet(S), NEW f, \A x \in S : f[x] \in Nat
    PROVE  SumFunctionOnSet(f, S) \in Nat
<1> DEFINE Bad == {T \in SUBSET S : SumFunctionOnSet(f, T) \notin Nat}
<1> SUFFICES ASSUME Bad # {} PROVE FALSE
  OBVIOUS
<1>1. PICK T \in Bad : \A U \in SUBSET T : U # T => U \notin Bad
  <2>1. Bad \in SUBSET SUBSET S
    OBVIOUS
  <2> HIDE DEF Bad
  <2> QED BY <2>1, MinimalSet
<1>2. T \in SUBSET S /\ IsFiniteSet(T) /\ SumFunctionOnSet(f, T) \notin Nat
  BY FS_Subset
<1>3. T # {}
  BY <1>2, SumEmpty
<1>4. PICK x \in T : SumFunctionOnSet(f, T) = f[x] + SumFunctionOnSet(f, T \ {x})
  BY <1>2, <1>3, SumStep
<1>5. SumFunctionOnSet(f, T \ {x}) \in Nat
  BY <1>1, <1>2
<1> QED BY <1>2, <1>4, <1>5

(* Any element can be added last.                                          *)
LEMMA SumTake ==
    ASSUME NEW S, IsFiniteSet(S), NEW f, \A x \in S : f[x] \in Int, NEW x \in S
    PROVE  SumFunctionOnSet(f, S) = f[x] + SumFunctionOnSet(f, S \ {x})
<1> DEFINE Bad == {T \in SUBSET S : \E y \in T :
                     SumFunctionOnSet(f, T) # f[y] + SumFunctionOnSet(f, T \ {y})}
<1> SUFFICES ASSUME Bad # {} PROVE FALSE
  OBVIOUS
<1>1. PICK T \in Bad : \A U \in SUBSET T : U # T => U \notin Bad
  <2>1. Bad \in SUBSET SUBSET S
    OBVIOUS
  <2> HIDE DEF Bad
  <2> QED BY <2>1, MinimalSet
<1>2. PICK y \in T : SumFunctionOnSet(f, T) # f[y] + SumFunctionOnSet(f, T \ {y})
  OBVIOUS
<1>3. T \in SUBSET S /\ IsFiniteSet(T)
  BY FS_Subset
<1>4. PICK z \in T : SumFunctionOnSet(f, T) = f[z] + SumFunctionOnSet(f, T \ {z})
  BY <1>2, <1>3, SumStep
<1>5. y # z
  BY <1>2, <1>4
<1> DEFINE rest == (T \ {z}) \ {y}
<1>6. SumFunctionOnSet(f, T \ {z}) = f[y] + SumFunctionOnSet(f, rest)
  <2>1. T \ {z} \in SUBSET T /\ T \ {z} # T /\ y \in T \ {z} /\ T \ {z} \in SUBSET S
    BY <1>3, <1>5
  <2> QED BY <1>1, <2>1
<1>7. SumFunctionOnSet(f, T \ {y}) = f[z] + SumFunctionOnSet(f, rest)
  <2>1. T \ {y} \in SUBSET T /\ T \ {y} # T /\ z \in T \ {y} /\ T \ {y} \in SUBSET S
    BY <1>3, <1>5
  <2>2. (T \ {y}) \ {z} = rest
    OBVIOUS
  <2>3. SumFunctionOnSet(f, T \ {y}) = f[z] + SumFunctionOnSet(f, (T \ {y}) \ {z})
    <3> HIDE DEF rest
    <3> QED BY <1>1, <2>1
  <2> QED BY <2>2, <2>3
<1>8. SumFunctionOnSet(f, rest) \in Int /\ f[y] \in Int /\ f[z] \in Int
  <2>1. IsFiniteSet(rest) /\ rest \subseteq S
    BY <1>3, FS_Subset
  <2> HIDE DEF rest
  <2> QED BY <1>3, <2>1, SumInt
<1> HIDE DEF rest
<1> QED BY <1>2, <1>4, <1>6, <1>7, <1>8

LEMMA SumSame ==
    ASSUME NEW S, IsFiniteSet(S), NEW f, NEW g, \A x \in S : f[x] \in Int /\ f[x] = g[x]
    PROVE  SumFunctionOnSet(f, S) = SumFunctionOnSet(g, S)
<1> DEFINE Bad == {T \in SUBSET S : SumFunctionOnSet(f, T) # SumFunctionOnSet(g, T)}
<1> SUFFICES ASSUME Bad # {} PROVE FALSE
  OBVIOUS
<1>1. PICK T \in Bad : \A U \in SUBSET T : U # T => U \notin Bad
  <2>1. Bad \in SUBSET SUBSET S
    OBVIOUS
  <2> HIDE DEF Bad
  <2> QED BY <2>1, MinimalSet
<1>2. T \in SUBSET S /\ IsFiniteSet(T) /\ SumFunctionOnSet(f, T) # SumFunctionOnSet(g, T)
  BY FS_Subset
<1>3. T # {}
  BY <1>2, SumEmpty
<1>4. PICK x \in T : TRUE
  BY <1>3
<1>5. /\ SumFunctionOnSet(f, T) = f[x] + SumFunctionOnSet(f, T \ {x})
      /\ SumFunctionOnSet(g, T) = g[x] + SumFunctionOnSet(g, T \ {x})
  BY <1>2, SumTake
<1>6. SumFunctionOnSet(f, T \ {x}) = SumFunctionOnSet(g, T \ {x})
  BY <1>1, <1>2
<1> QED BY <1>2, <1>5, <1>6

LEMMA SumBump ==
    ASSUME NEW S, IsFiniteSet(S), NEW f, NEW g, NEW w \in S, \A x \in S : f[x] \in Int,
           \A x \in S : g[x] = IF x = w THEN f[x] + 1 ELSE f[x]
    PROVE  SumFunctionOnSet(g, S) = SumFunctionOnSet(f, S) + 1
<1>1. IsFiniteSet(S \ {w})
  BY FS_Subset
<1>2. /\ SumFunctionOnSet(f, S) = f[w] + SumFunctionOnSet(f, S \ {w})
      /\ SumFunctionOnSet(g, S) = g[w] + SumFunctionOnSet(g, S \ {w})
  <2>1. \A x \in S : g[x] \in Int
    OBVIOUS
  <2> QED BY <2>1, SumTake
<1>3. SumFunctionOnSet(f, S \ {w}) = SumFunctionOnSet(g, S \ {w})
  BY <1>1, SumSame
<1>4. SumFunctionOnSet(f, S \ {w}) \in Int
  BY <1>1, SumInt
<1> QED BY <1>2, <1>3, <1>4

LEMMA SumZeros ==
    ASSUME NEW S, IsFiniteSet(S), NEW f, \A x \in S : f[x] = 0
    PROVE  SumFunctionOnSet(f, S) = 0
<1> DEFINE Bad == {T \in SUBSET S : SumFunctionOnSet(f, T) # 0}
<1> SUFFICES ASSUME Bad # {} PROVE FALSE
  OBVIOUS
<1>1. PICK T \in Bad : \A U \in SUBSET T : U # T => U \notin Bad
  <2>1. Bad \in SUBSET SUBSET S
    OBVIOUS
  <2> HIDE DEF Bad
  <2> QED BY <2>1, MinimalSet
<1>2. T \in SUBSET S /\ IsFiniteSet(T) /\ SumFunctionOnSet(f, T) # 0
  BY FS_Subset
<1>3. T # {}
  BY <1>2, SumEmpty
<1>4. PICK x \in T : SumFunctionOnSet(f, T) = f[x] + SumFunctionOnSet(f, T \ {x})
  BY <1>2, <1>3, SumStep
<1>5. SumFunctionOnSet(f, T \ {x}) = 0
  BY <1>1, <1>2
<1> QED BY <1>2, <1>4, <1>5
-----------------------------------------------------------------------------
(* Ranks: in a finite set with a total order, the k-th element.            *)

IsOrder(R, S) ==
    /\ \A x \in S : <<x, x>> \in R
    /\ \A x, y \in S : <<x, y>> \in R \/ <<y, x>> \in R
    /\ \A x, y \in S : <<x, y>> \in R /\ <<y, x>> \in R => x = y
    /\ \A x, y, z \in S : <<x, y>> \in R /\ <<y, z>> \in R => <<x, z>> \in R

Rank(R, S, x) == Cardinality({y \in S : <<y, x>> \in R})

HasRank(R, S, k, x) == Rank(R, S, x) = k /\ \A y \in S : Rank(R, S, y) = k => y = x

LEMMA RanksDiffer ==
    ASSUME NEW S, IsFiniteSet(S), NEW R, IsOrder(R, S)
    PROVE  /\ \A x \in S : Rank(R, S, x) \in 1 .. Cardinality(S)
           /\ \A x, y \in S : <<x, y>> \in R /\ x # y => Rank(R, S, x) < Rank(R, S, y)
<1> DEFINE Below(x) == {y \in S : <<y, x>> \in R}
<1>1. Cardinality(S) \in Nat
  BY FS_CardinalityType
<1>2. ASSUME NEW x \in S
      PROVE  /\ IsFiniteSet(Below(x)) /\ Cardinality(Below(x)) \in Nat
             /\ Cardinality(Below(x)) <= Cardinality(S) /\ Cardinality(Below(x)) # 0
  <2>1. Below(x) \in SUBSET S /\ x \in Below(x)
    BY DEF IsOrder
  <2> HIDE DEF Below
  <2> QED BY <2>1, FS_Subset, FS_CardinalityType, FS_EmptySet
<1>3. ASSUME NEW x \in S, NEW y \in S, <<x, y>> \in R, x # y
      PROVE  Cardinality(Below(x)) < Cardinality(Below(y))
  <2>1. Below(x) \in SUBSET Below(y) /\ y \in Below(y) /\ y \notin Below(x)
    BY <1>3 DEF IsOrder
  <2>2. /\ IsFiniteSet(Below(y))
        /\ Cardinality(Below(x)) \in Nat /\ Cardinality(Below(y)) \in Nat
    BY <1>2
  <2>3. Below(x) # Below(y)
    BY <2>1
  <2> HIDE DEF Below
  <2>4. /\ Cardinality(Below(x)) <= Cardinality(Below(y))
        /\ Cardinality(Below(y)) = Cardinality(Below(x)) => Below(y) = Below(x)
    BY <2>1, <2>2, FS_Subset
  <2> QED BY <2>2, <2>3, <2>4
<1>4. \A x \in S : Rank(R, S, x) = Cardinality(Below(x))
  BY DEF Rank
<1> HIDE DEF Below
<1> QED BY <1>1, <1>2, <1>3, <1>4

LEMMA RankTaken ==
    ASSUME NEW S, IsFiniteSet(S), NEW R, IsOrder(R, S), NEW k \in 1 .. Cardinality(S)
    PROVE  \E x \in S : HasRank(R, S, k, x)
<1> DEFINE r == [x \in S |-> Rank(R, S, x)]
           T == 1 .. Cardinality(S)
<1>1. Cardinality(S) \in Nat
  BY FS_CardinalityType
<1>2. IsFiniteSet(T) /\ Cardinality(T) = Cardinality(S)
  <2>1. Cardinality(S) < 1 => Cardinality(S) = 0
    BY <1>1
  <2> QED BY <1>1, <2>1, FS_Interval
<1>3. r \in [S -> T]
  BY RanksDiffer
<1>4. \A x, y \in S : x # y => r[x] # r[y]
  <2> SUFFICES ASSUME NEW x \in S, NEW y \in S, x # y PROVE r[x] # r[y]
    OBVIOUS
  <2>1. r[x] < r[y] \/ r[y] < r[x]
    BY RanksDiffer DEF IsOrder
  <2>2. r[x] \in Nat /\ r[y] \in Nat
    BY <1>3, <1>1
  <2> HIDE DEF r
  <2> QED BY <2>1, <2>2
<1>5. r \in Injection(S, T)
  <2> HIDE DEF r, T
  <2> QED BY <1>3, <1>4 DEF Injection, IsInjective
<1>6. r \in Surjection(S, T)
  <2> HIDE DEF r, T
  <2> QED BY <1>2, <1>5, FS_Injection
<1>7. PICK x \in S : r[x] = k
  <2>1. k \in T
    OBVIOUS
  <2> HIDE DEF r, T
  <2> QED BY <1>6, <2>1 DEF Surjection
<1>8. HasRank(R, S, k, x)
  BY <1>4, <1>7 DEF HasRank
<1> QED BY <1>8

(* The k-th element of a set of numbers.                                   *)
LEMMA NthIsTaken ==
    ASSUME NEW S, S \subseteq Int, IsFiniteSet(S)
    PROVE  /\ \A k \in 1 .. Cardinality(S) : Nth(S, k) \in S
           /\ \A x \in S : \E k \in 1 .. Cardinality(S) : Nth(S, k) = x
           /\ \A j, k \in 1 .. Cardinality(S) : Nth(S, j) = Nth(S, k) => j = k
<1> DEFINE R == {p \in S \X S : p[1] <= p[2]}
           upTo(x) == {y \in S : y <= x}
<1>1. IsOrder(R, S)
  BY DEF IsOrder
<1>2. \A x \in S : Cardinality(upTo(x)) = Rank(R, S, x)
  <2> SUFFICES ASSUME NEW x \in S PROVE upTo(x) = {y \in S : <<y, x>> \in R}
    BY DEF Rank
  <2> QED OBVIOUS
<1> HIDE DEF R
<1>3. ASSUME NEW k \in 1 .. Cardinality(S)
      PROVE  Nth(S, k) \in S /\ Rank(R, S, Nth(S, k)) = k
  <2>1. \E x \in S : Cardinality(upTo(x)) = k
    <3>1. PICK x \in S : HasRank(R, S, k, x)
      BY <1>1, RankTaken
    <3> QED BY <1>2, <3>1 DEF HasRank
  <2>2. Nth(S, k) \in S /\ Cardinality(upTo(Nth(S, k))) = k
    BY <2>1 DEF Nth
  <2> HIDE DEF upTo
  <2> QED BY <1>2, <2>2
<1>4. ASSUME NEW x \in S
      PROVE  \E k \in 1 .. Cardinality(S) : Nth(S, k) = x
  <2> DEFINE k == Rank(R, S, x)
  <2>1. k \in 1 .. Cardinality(S)
    BY <1>1, RanksDiffer
  <2>2. Nth(S, k) \in S /\ Rank(R, S, Nth(S, k)) = k
    <3> HIDE DEF k
    <3> QED BY <1>3, <2>1
  <2>3. PICK y \in S : HasRank(R, S, k, y)
    <3> HIDE DEF k
    <3> QED BY <1>1, <2>1, RankTaken
  <2>4. Nth(S, k) = x
    BY <2>2, <2>3 DEF HasRank
  <2> QED BY <2>1, <2>4
<1> QED BY <1>3, <1>4
-----------------------------------------------------------------------------
(* Counting in cycles.                                                     *)

LEMMA Division ==
    ASSUME NEW a \in Nat, NEW n \in Nat \ {0}
    PROVE  /\ a = n * (a \div n) + (a % n)
           /\ a % n \in 0 .. n - 1
           /\ a \div n \in Nat
  OBVIOUS

LEMMA DivisionUnique ==
    ASSUME NEW n \in Nat \ {0}, NEW q \in Int, NEW t \in Int,
           NEW r \in 0 .. n - 1, NEW s \in 0 .. n - 1,
           n * q + r = n * t + s
    PROVE  q = t /\ r = s
<1>1. n * (q - t) = s - r
  OBVIOUS
<1>2. CASE q - t >= 1
  BY <1>1, <1>2
<1>3. CASE q - t <= -1
  BY <1>1, <1>3
<1>4. CASE q = t
  BY <1>1, <1>4
<1> QED BY <1>2, <1>3, <1>4

LEMMA DivisionIs ==
    ASSUME NEW n \in Nat \ {0}, NEW q \in Nat, NEW r \in 0 .. n - 1, NEW a \in Nat,
           a = n * q + r
    PROVE  a \div n = q /\ a % n = r
<1>1. n * (a \div n) + (a % n) = n * q + r /\ a % n \in 0 .. n - 1 /\ a \div n \in Nat
  BY Division
<1> QED BY <1>1, DivisionUnique

(* How many of the counts from 0 to c are below s in their cycle of n.     *)
Below(s, n, c) == (c \div n) * s + (IF c % n < s THEN (c % n) + 1 ELSE s)

LEMMA BelowNext ==
    ASSUME NEW n \in Nat \ {0}, NEW s \in 0 .. n, NEW c \in Nat
    PROVE  /\ Below(s, n, c) \in Nat
           /\ Below(s, n, c + 1) = Below(s, n, c) + (IF (c + 1) % n < s THEN 1 ELSE 0)
<1> DEFINE q == c \div n
           r == c % n
<1>1. c = n * q + r /\ r \in 0 .. n - 1 /\ q \in Nat
  BY Division
<1>2. q * s \in Nat
  BY <1>1
<1>3. CASE r < n - 1
  <2>1. c + 1 = n * q + (r + 1) /\ r + 1 \in 0 .. n - 1
    <3> HIDE DEF q, r
    <3> QED BY <1>1, <1>3
  <2>2. (c + 1) \div n = q /\ (c + 1) % n = r + 1
    <3> HIDE DEF q, r
    <3> QED BY <1>1, <2>1, DivisionIs
  <2>3. /\ Below(s, n, c) = q * s + (IF r < s THEN r + 1 ELSE s)
        /\ Below(s, n, c + 1) = q * s + (IF r + 1 < s THEN r + 2 ELSE s)
    BY <2>2, <1>1 DEF Below
  <2> HIDE DEF q, r
  <2> QED BY <1>1, <1>2, <2>2, <2>3
<1>4. CASE r = n - 1
  <2>1. c + 1 = n * (q + 1) + 0 /\ 0 \in 0 .. n - 1
    <3> HIDE DEF q, r
    <3> QED BY <1>1, <1>4
  <2>2. (c + 1) \div n = q + 1 /\ (c + 1) % n = 0
    <3> HIDE DEF q, r
    <3> QED BY <1>1, <2>1, DivisionIs
  <2>3. /\ Below(s, n, c) = q * s + (IF r < s THEN r + 1 ELSE s)
        /\ Below(s, n, c + 1) = (q + 1) * s + (IF 0 < s THEN 1 ELSE s)
    BY <2>2 DEF Below
  <2>4. (q + 1) * s = q * s + s
    <3> HIDE DEF q
    <3> QED BY <1>1
  <2> HIDE DEF q, r
  <2> QED BY <1>1, <1>2, <1>4, <2>2, <2>3, <2>4
<1> QED BY <1>1, <1>3, <1>4

LEMMA BelowCycles ==
    ASSUME NEW n \in Nat \ {0}, NEW s \in 0 .. n, NEW c \in Nat, NEW k \in Nat
    PROVE  Below(s, n, c + n * k) = Below(s, n, c) + k * s
<1> DEFINE q == c \div n
           r == c % n
<1>1. c = n * q + r /\ r \in 0 .. n - 1 /\ q \in Nat
  BY Division
<1>2. c + n * k = n * (q + k) + r /\ q + k \in Nat /\ c + n * k \in Nat
  <2> HIDE DEF q, r
  <2> QED BY <1>1
<1>3. (c + n * k) \div n = q + k /\ (c + n * k) % n = r
  <2> HIDE DEF q, r
  <2> QED BY <1>1, <1>2, DivisionIs
<1>4. /\ Below(s, n, c) = q * s + (IF r < s THEN r + 1 ELSE s)
      /\ Below(s, n, c + n * k) = (q + k) * s + (IF r < s THEN r + 1 ELSE s)
  BY <1>3 DEF Below
<1>5. (q + k) * s = q * s + k * s /\ q * s \in Nat /\ k * s \in Nat
  <2> HIDE DEF q
  <2> QED BY <1>1
<1> HIDE DEF q, r
<1> QED BY <1>1, <1>4, <1>5
-----------------------------------------------------------------------------
(* The balancers that take turns.  A cycle is cut into one share for each  *)
(* running worker, in their order.                                         *)

ByWeight == kind = "weighted" /\ WeightsApply
Cycle    == IF ByWeight THEN TotalWeight ELSE Cardinality(alive)
Cut(i)   == IF ByWeight THEN Running(i) ELSE i

TurnsTypeOK ==
    /\ kind \in BalancerKinds
    /\ alive \subseteq Balanced
    /\ counter \in Nat
    /\ turns \in [Balanced -> Nat]

LEMMA AliveFinite ==
    ASSUME TurnsTypeOK
    PROVE  /\ IsFiniteSet(alive) /\ alive \subseteq Int /\ Cardinality(alive) \in Nat
           /\ alive # {} => Cardinality(alive) > 0
<1>1. NBalanced \in Nat
  BY BalancerAssumption
<1>2. IsFiniteSet(Balanced) /\ Balanced \subseteq Int
  BY <1>1, FS_Interval DEF Balanced
<1>3. IsFiniteSet(alive) /\ alive \subseteq Int
  BY <1>2, FS_Subset DEF TurnsTypeOK
<1> QED BY <1>3, FS_CardinalityType, FS_EmptySet

(* Each running worker has one place among the running workers.            *)
LEMMA Places ==
    ASSUME TurnsTypeOK
    PROVE  /\ DOMAIN RunningWorkers = 1 .. Cardinality(alive)
           /\ Len(RunningWorkers) = Cardinality(alive)
           /\ \A i \in 1 .. Cardinality(alive) : RunningWorkers[i] \in alive
           /\ \A i, j \in 1 .. Cardinality(alive) :
                 RunningWorkers[i] = RunningWorkers[j] => i = j
<1> DEFINE n == Cardinality(alive)
<1>1. n \in Nat /\ IsFiniteSet(alive) /\ alive \subseteq Int
  BY AliveFinite
<1>2. RunningWorkers = [k \in 1 .. n |-> Nth(alive, k)]
  BY DEF RunningWorkers
<1>3. /\ \A k \in 1 .. n : Nth(alive, k) \in alive
      /\ \A j, k \in 1 .. n : Nth(alive, j) = Nth(alive, k) => j = k
  BY <1>1, NthIsTaken
<1> HIDE DEF n
<1>4. RunningWorkers \in Seq(alive) /\ DOMAIN RunningWorkers = 1 .. n
  BY <1>1, <1>2, <1>3
<1>5. Len(RunningWorkers) = n
  BY <1>1, <1>4
<1>6. \A i \in 1 .. n : RunningWorkers[i] = Nth(alive, i)
  BY <1>2
<1> QED BY <1>3, <1>4, <1>5, <1>6 DEF n

(* The running sums of the weights.                                        *)
LEMMA RunningSums ==
    /\ Len(Weights) \in Nat /\ DOMAIN Weights = 1 .. Len(Weights)
    /\ Running(0) = 0
    /\ \A i \in 0 .. Len(Weights) : Running(i) \in Nat
    /\ \A i \in 1 .. Len(Weights) :
          Running(i) = Running(i - 1) + Weights[i] /\ Weights[i] \in Nat
<1>1. Len(Weights) \in Nat /\ DOMAIN Weights = 1 .. Len(Weights) /\ Weights \in Seq(Nat)
  BY BalancerAssumption
<1>2. \A i \in 1 .. Len(Weights) : Weights[i] \in Nat
  BY <1>1
<1>3. ASSUME NEW i \in 0 .. Len(Weights)
      PROVE  IsFiniteSet(1 .. i) /\ \A k \in 1 .. i : Weights[k] \in Nat
  <2>1. i \in Int /\ 1 .. i \subseteq 1 .. Len(Weights)
    BY <1>1
  <2> QED BY <1>2, <2>1, FS_Interval
<1>4. ASSUME NEW i \in 0 .. Len(Weights) PROVE Running(i) \in Nat
  BY <1>3, SumNat DEF Running
<1>5. Running(0) = 0
  <2>1. 1 .. 0 = {}
    OBVIOUS
  <2> QED BY <2>1, SumEmpty DEF Running
<1>6. ASSUME NEW i \in 1 .. Len(Weights)
      PROVE  Running(i) = Running(i - 1) + Weights[i]
  <2>1. i \in 0 .. Len(Weights) /\ i \in 1 .. i /\ (1 .. i) \ {i} = 1 .. i - 1
    BY <1>1
  <2>2. \A k \in 1 .. i : Weights[k] \in Int
    BY <1>3, <2>1
  <2>3. SumFunctionOnSet(Weights, 1 .. i)
           = Weights[i] + SumFunctionOnSet(Weights, (1 .. i) \ {i})
    BY <1>3, <2>1, <2>2, SumTake
  <2>4. Running(i) = Weights[i] + Running(i - 1)
    BY <2>1, <2>3 DEF Running
  <2>5. Weights[i] \in Nat /\ i - 1 \in 0 .. Len(Weights)
    BY <1>1, <1>2
  <2> QED BY <1>4, <2>4, <2>5
<1> QED BY <1>1, <1>2, <1>4, <1>5, <1>6

LEMMA RunningGrows ==
    ASSUME NEW i \in 0 .. Len(Weights), NEW j \in i .. Len(Weights)
    PROVE  Running(i) <= Running(j)
<1> DEFINE n == Len(Weights)
           G == {m \in Nat : i + m <= n => Running(i) <= Running(i + m)}
<1>1. /\ n \in Nat /\ \A k \in 0 .. n : Running(k) \in Nat
      /\ \A k \in 1 .. n : Running(k) = Running(k - 1) + Weights[k] /\ Weights[k] \in Nat
  BY RunningSums
<1> HIDE DEF n
<1>2. i \in 0 .. n /\ j \in i .. n
  BY DEF n
<1>3. 0 \in G
  BY <1>1, <1>2
<1>4. ASSUME NEW m \in Nat, m \in G PROVE m + 1 \in G
  <2> SUFFICES ASSUME i + (m + 1) <= n PROVE Running(i) <= Running(i + (m + 1))
    OBVIOUS
  <2>1. /\ i + (m + 1) \in 1 .. n /\ (i + (m + 1)) - 1 = i + m
        /\ i + m \in 0 .. n /\ i + m <= n
    BY <1>1, <1>2
  <2>2. Running(i) <= Running(i + m)
    BY <1>4, <2>1
  <2>3. /\ Running(i + (m + 1)) = Running(i + m) + Weights[i + (m + 1)]
        /\ Weights[i + (m + 1)] \in Nat
    BY <1>1, <2>1
  <2>4. Running(i) \in Nat /\ Running(i + m) \in Nat
    BY <1>1, <1>2, <2>1
  <2> QED BY <2>2, <2>3, <2>4
<1>5. \A m \in Nat : m \in G
  <2> HIDE DEF G
  <2> QED BY <1>3, <1>4, NatInduct
<1>6. j - i \in Nat /\ i + (j - i) = j /\ j <= n
  BY <1>1, <1>2
<1>7. j - i \in G
  BY <1>5, <1>6
<1> QED BY <1>6, <1>7

LEMMA Cuts ==
    ASSUME TurnsTypeOK, alive # {}
    PROVE  /\ Cycle \in Nat \ {0} /\ Cardinality(alive) \in Nat
           /\ Cut(0) = 0 /\ Cut(Cardinality(alive)) = Cycle
           /\ \A i \in 0 .. Cardinality(alive) : Cut(i) \in 0 .. Cycle
           /\ \A i \in 0 .. Cardinality(alive) :
                 \A j \in i .. Cardinality(alive) : Cut(i) <= Cut(j)
<1> DEFINE n == Cardinality(alive)
<1>1. n \in Nat /\ n > 0
  BY AliveFinite
<1>2. CASE ~ByWeight
  BY <1>1, <1>2 DEF Cycle, Cut
<1>3. CASE ByWeight
  <2>1. Len(Weights) = n /\ TotalWeight > 0
    BY <1>3, Places DEF ByWeight, WeightsApply
  <2>2. Cycle = Running(n) /\ \A i \in 0 .. n : Cut(i) = Running(i)
    BY <1>3, <2>1 DEF Cycle, Cut, TotalWeight
  <2>3. Running(0) = 0 /\ \A i \in 0 .. n : Running(i) \in Nat
    BY <2>1, RunningSums
  <2>4. \A i \in 0 .. n : \A j \in i .. n : Running(i) <= Running(j)
    BY <2>1, RunningGrows
  <2>5. Running(n) # 0 /\ n \in 0 .. n /\ 0 \in 0 .. n /\ \A i \in 0 .. n : n \in i .. n
    BY <1>1, <2>1, <2>3 DEF TotalWeight
  <2> HIDE DEF n
  <2>6. \A i \in 0 .. n : Running(i) <= Running(n)
    BY <2>4, <2>5
  <2>7. Cycle \in Nat \ {0} /\ Cut(0) = 0 /\ Cut(n) = Cycle
    BY <2>2, <2>3, <2>5
  <2>8. \A i \in 0 .. n : Cut(i) \in 0 .. Cycle
    BY <2>2, <2>3, <2>6
  <2>9. \A i \in 0 .. n : \A j \in i .. n : Cut(i) <= Cut(j)
    <3>1. \A i \in 0 .. n : \A j \in i .. n : j \in 0 .. n
      BY <1>1
    <3> QED BY <2>2, <2>4, <3>1
  <2> QED BY <1>1, <2>7, <2>8, <2>9 DEF n
<1> QED BY <1>2, <1>3

LEMMA LeastNatural ==
    ASSUME NEW S \in SUBSET Nat, S # {}
    PROVE  Min(S) \in S /\ \A m \in S : Min(S) <= m
<1> DEFINE R == OpToRel(<, Nat)
<1>1. PICK n \in S : \A m \in S : <<m, n>> \notin R
  <2>1. IsWellFoundedOn(R, Nat)
    BY NatLessThanWellFounded
  <2> HIDE DEF R
  <2> QED BY <2>1, WFMin
<1>2. \A m \in S : ~(m < n)
  BY <1>1 DEF OpToRel
<1>3. \A m \in S : n <= m
  BY <1>2
<1> QED BY <1>3 DEF Min

(* The worker whose share the count falls into.                            *)
Chosen(count) == IF kind = "roundRobin" THEN InTurn(count) ELSE Weighted(count)

LEMMA ChosenByCut ==
    ASSUME TurnsTypeOK, alive # {}, kind \in {"roundRobin", "weighted"}, NEW c \in Nat
    PROVE  \E i \in 1 .. Cardinality(alive) :
              /\ Chosen(c) = RunningWorkers[i]
              /\ Cut(i - 1) <= c % Cycle /\ c % Cycle < Cut(i)
<1> DEFINE n == Cardinality(alive)
           p == c % Cycle
<1>1. n \in Nat /\ n > 0 /\ Cycle \in Nat \ {0} /\ Len(RunningWorkers) = n
  BY AliveFinite, Cuts, Places
<1>2. p \in 0 .. Cycle - 1
  BY <1>1, Division
<1>3. CASE ~ByWeight
  <2>1. Cycle = n /\ \A i \in 0 .. n : Cut(i) = i
    BY <1>3 DEF Cycle, Cut
  <2>2. Chosen(c) = RunningWorkers[p + 1]
    BY <1>1, <1>3, <2>1 DEF Chosen, Weighted, InTurn, ByWeight
  <2> HIDE DEF n, p
  <2>3. p + 1 \in 1 .. n /\ p + 1 \in 0 .. n /\ p \in 0 .. n /\ (p + 1) - 1 = p
    BY <1>1, <1>2, <2>1
  <2>4. Cut((p + 1) - 1) <= p /\ p < Cut(p + 1)
    BY <1>1, <1>2, <2>1, <2>3
  <2> QED BY <2>2, <2>3, <2>4 DEF n, p
<1>4. CASE ByWeight
  <2> DEFINE above == {i \in DOMAIN Weights : p < Running(i)}
  <2>1. Len(Weights) = n /\ DOMAIN Weights = 1 .. n /\ Cycle = Running(n)
    BY <1>1, <1>4, RunningSums DEF ByWeight, WeightsApply, Cycle, TotalWeight
  <2>2. \A i \in 0 .. n : Cut(i) = Running(i) /\ Running(i) \in Nat
    BY <1>4, <2>1, RunningSums DEF Cut
  <2>3. Chosen(c) = RunningWorkers[Min(above)]
    <3>1. Chosen(c) = Weighted(c) /\ WeightsApply /\ Cycle = TotalWeight
      BY <1>4 DEF Chosen, ByWeight, Cycle
    <3> QED BY <3>1 DEF Weighted, FirstAbove
  <2>4. n \in above
    <3> HIDE DEF n, p
    <3> QED BY <1>1, <1>2, <2>1, <2>2
  <2> DEFINE i == Min(above)
  <2>5. i \in above /\ \A m \in above : i <= m
    <3>1. above \in SUBSET Nat /\ above # {}
      BY <2>1, <2>4
    <3> HIDE DEF above
    <3> QED BY <3>1, LeastNatural
  <2>6. i \in 1 .. n /\ p < Running(i)
    BY <2>1, <2>5
  <2>7. Running(i - 1) <= p
    <3>1. CASE i = 1
      <4>1. Running(i - 1) = 0
        <5> HIDE DEF i
        <5> QED BY <3>1, RunningSums
      <4> HIDE DEF i, p
      <4> QED BY <1>1, <1>2, <4>1
    <3>2. CASE i # 1
      <4>1. i - 1 \in 1 .. n /\ ~(i <= i - 1) /\ i - 1 \in 0 .. n
        <5> HIDE DEF i
        <5> QED BY <1>1, <2>6, <3>2
      <4>2. i - 1 \notin above
        <5> HIDE DEF i, above
        <5> QED BY <2>5, <4>1
      <4>3. ~(p < Running(i - 1))
        BY <2>1, <4>1, <4>2
      <4> HIDE DEF i, p
      <4> QED BY <1>1, <1>2, <2>2, <4>1, <4>3
    <3> QED BY <3>1, <3>2
  <2>8. i \in 0 .. n /\ i - 1 \in 0 .. n
    <3> HIDE DEF i
    <3> QED BY <1>1, <2>6
  <2>9. Chosen(c) = RunningWorkers[i] /\ Cut(i - 1) <= p /\ p < Cut(i)
    <3> HIDE DEF p, n
    <3> QED BY <2>2, <2>3, <2>6, <2>7, <2>8
  <2> HIDE DEF i
  <2> QED BY <2>6, <2>9
<1> QED BY <1>3, <1>4

(* The count from which the turns are counted, and how many of the counts  *)
(* up to c have fallen into the i-th share.                                *)
Start        == counter - SumFunctionOnSet(turns, alive)
Fallen(i, c) == Below(Cut(i), Cycle, c) - Below(Cut(i - 1), Cycle, c)

(* Each worker has had the counts since the start that fell into its share. *)
TurnInv ==
    alive # {} /\ kind \in {"roundRobin", "weighted"} =>
        /\ Start \in Nat
        /\ \A i \in 1 .. Cardinality(alive) :
              turns[RunningWorkers[i]] = Fallen(i, counter) - Fallen(i, Start)

LEMMA FallenNext ==
    ASSUME TurnsTypeOK, alive # {}, NEW c \in Nat, NEW i \in 1 .. Cardinality(alive)
    PROVE  /\ Fallen(i, c) \in Int
           /\ Fallen(i, c + 1) = Fallen(i, c) +
                 (IF Cut(i - 1) <= (c + 1) % Cycle /\ (c + 1) % Cycle < Cut(i) THEN 1 ELSE 0)
<1> DEFINE n == Cardinality(alive)
           p == (c + 1) % Cycle
<1>1. n \in Nat /\ Cycle \in Nat \ {0} /\ \A k \in 0 .. n : Cut(k) \in 0 .. Cycle
  BY Cuts
<1>2. i \in 0 .. n /\ i - 1 \in 0 .. n /\ i \in i - 1 .. n
  BY <1>1
<1>3. Cut(i - 1) <= Cut(i)
  BY <1>2, Cuts
<1>4. ASSUME NEW k \in 0 .. n
      PROVE  /\ Below(Cut(k), Cycle, c) \in Nat
             /\ Below(Cut(k), Cycle, c + 1)
                   = Below(Cut(k), Cycle, c) + (IF p < Cut(k) THEN 1 ELSE 0)
  BY <1>1, BelowNext
<1>5. p \in Nat /\ Cut(i) \in Nat /\ Cut(i - 1) \in Nat
  <2>1. c + 1 \in Nat
    OBVIOUS
  <2> QED BY <1>1, <1>2, <2>1, Division
<1> HIDE DEF n, p
<1>6. /\ Below(Cut(i), Cycle, c) \in Nat /\ Below(Cut(i - 1), Cycle, c) \in Nat
      /\ Fallen(i, c + 1) = (Below(Cut(i), Cycle, c) + (IF p < Cut(i) THEN 1 ELSE 0))
            - (Below(Cut(i - 1), Cycle, c) + (IF p < Cut(i - 1) THEN 1 ELSE 0))
      /\ Fallen(i, c) = Below(Cut(i), Cycle, c) - Below(Cut(i - 1), Cycle, c)
  BY <1>2, <1>4 DEF Fallen
<1>7. Fallen(i, c + 1) = Fallen(i, c) + (IF Cut(i - 1) <= p /\ p < Cut(i) THEN 1 ELSE 0)
  BY <1>3, <1>5, <1>6
<1> QED BY <1>6, <1>7 DEF p

LEMMA FreshTurns ==
    TurnsTypeOK /\ turns = [v \in Balanced |-> 0] => TurnInv
<1> SUFFICES ASSUME TurnsTypeOK, turns = [v \in Balanced |-> 0], alive # {}
             PROVE  /\ Start \in Nat
                    /\ \A i \in 1 .. Cardinality(alive) :
                          turns[RunningWorkers[i]] = Fallen(i, counter) - Fallen(i, Start)
  BY DEF TurnInv
<1>1. SumFunctionOnSet(turns, alive) = 0
  <2>1. \A w \in alive : turns[w] = 0
    BY DEF TurnsTypeOK
  <2> QED BY <2>1, AliveFinite, SumZeros
<1>2. Start = counter /\ counter \in Nat
  BY <1>1 DEF Start, TurnsTypeOK
<1>3. ASSUME NEW i \in 1 .. Cardinality(alive)
      PROVE  turns[RunningWorkers[i]] = Fallen(i, counter) - Fallen(i, Start)
  <2>1. Fallen(i, counter) \in Int
    BY <1>2, FallenNext
  <2>2. turns[RunningWorkers[i]] = 0
    BY Places DEF TurnsTypeOK
  <2> QED BY <1>2, <2>1, <2>2
<1> QED BY <1>2, <1>3

LEMMA TakeTurnKeeps ==
    ASSUME TurnsTypeOK, TurnInv, TakeTurn
    PROVE  TurnsTypeOK' /\ TurnInv'
<1> DEFINE n == Cardinality(alive)
           w == Chosen(counter + 1)
<1>1. /\ kind \in {"roundRobin", "weighted"} /\ alive # {} /\ counter' = counter + 1
      /\ kind' = kind /\ alive' = alive /\ turns' = [turns EXCEPT ![w] = @ + 1]
  BY DEF TakeTurn, Chosen
<1>2. /\ counter \in Nat /\ counter + 1 \in Nat
      /\ turns \in [Balanced -> Nat] /\ alive \subseteq Balanced
  BY DEF TurnsTypeOK
<1>3. n \in Nat /\ IsFiniteSet(alive)
  BY AliveFinite
<1>4. PICK j \in 1 .. n : /\ w = RunningWorkers[j]
                          /\ Cut(j - 1) <= (counter + 1) % Cycle
                          /\ (counter + 1) % Cycle < Cut(j)
  BY <1>1, <1>2, ChosenByCut
<1>5. w \in alive
  BY <1>4, Places
<1> HIDE DEF w
<1>6. /\ turns' \in [Balanced -> Nat]
      /\ \A v \in alive : turns'[v] = IF v = w THEN turns[v] + 1 ELSE turns[v]
  BY <1>1, <1>2, <1>5
<1>7. TurnsTypeOK'
  BY <1>1, <1>2, <1>6 DEF TurnsTypeOK
<1>8. RunningWorkers' = RunningWorkers /\ Cycle' = Cycle /\ \A i \in Nat : Cut(i)' = Cut(i)
  BY <1>1 DEF RunningWorkers, Cycle, Cut, ByWeight, WeightsApply
<1>9. Start' = Start /\ Start \in Nat
  <2>1. SumFunctionOnSet(turns', alive) = SumFunctionOnSet(turns, alive) + 1
    <3>1. \A v \in alive : turns[v] \in Int
      BY <1>2
    <3> QED BY <1>3, <1>5, <1>6, <3>1, SumBump
  <2>2. Start \in Nat /\ SumFunctionOnSet(turns, alive) \in Int
    <3>1. \A v \in alive : turns[v] \in Int
      BY <1>2
    <3> QED BY <1>1, <1>3, <3>1, SumInt DEF TurnInv
  <2> QED BY <1>1, <1>2, <2>1, <2>2 DEF Start
<1>10. ASSUME NEW i \in 1 .. n
       PROVE  turns'[RunningWorkers[i]] = Fallen(i, counter + 1) - Fallen(i, Start)
  <2> DEFINE p == (counter + 1) % Cycle
             hit == Cut(i - 1) <= p /\ p < Cut(i)
  <2>1. turns[RunningWorkers[i]] = Fallen(i, counter) - Fallen(i, Start)
    BY <1>1 DEF TurnInv
  <2>2. /\ Fallen(i, counter) \in Int /\ Fallen(i, Start) \in Int
        /\ Fallen(i, counter + 1) = Fallen(i, counter) + (IF hit THEN 1 ELSE 0)
    BY <1>1, <1>2, <1>9, FallenNext
  <2>3. RunningWorkers[i] \in alive /\ (RunningWorkers[i] = w <=> i = j)
    BY <1>4, Places
  <2>4. hit <=> i = j
    <3>1. /\ p \in Nat /\ \A k \in 0 .. n : Cut(k) \in Nat
          /\ \A k \in 0 .. n : \A l \in k .. n : Cut(k) <= Cut(l)
      <4>1. Cycle \in Nat \ {0} /\ \A k \in 0 .. n : Cut(k) \in 0 .. Cycle
        BY <1>1, Cuts
      <4>2. p \in Nat
        BY <1>2, <4>1, Division
      <4>3. \A k \in 0 .. n : \A l \in k .. n : Cut(k) <= Cut(l)
        BY <1>1, Cuts
      <4> QED BY <4>1, <4>2, <4>3
    <3>2. /\ i \in 0 .. n /\ i - 1 \in 0 .. n /\ j \in 0 .. n /\ j - 1 \in 0 .. n
          /\ i < j => j - 1 \in i .. n
          /\ j < i => i - 1 \in j .. n
      BY <1>3
    <3>3. Cut(j - 1) <= p /\ p < Cut(j)
      BY <1>4
    <3> HIDE DEF p, n
    <3>4. ASSUME i < j PROVE ~(p < Cut(i))
      <4>1. Cut(i) <= Cut(j - 1) /\ Cut(i) \in Nat /\ Cut(j - 1) \in Nat
        BY <3>1, <3>2, <3>4
      <4> QED BY <3>1, <3>3, <4>1
    <3>5. ASSUME j < i PROVE ~(Cut(i - 1) <= p)
      <4>1. Cut(j) <= Cut(i - 1) /\ Cut(j) \in Nat /\ Cut(i - 1) \in Nat
        BY <3>1, <3>2, <3>5
      <4> QED BY <3>1, <3>3, <4>1
    <3>6. i < j \/ j < i \/ i = j
      BY <1>3 DEF n
    <3> QED BY <3>3, <3>4, <3>5, <3>6
  <2>5. turns'[RunningWorkers[i]] = IF i = j THEN turns[RunningWorkers[i]] + 1
                                             ELSE turns[RunningWorkers[i]]
    BY <1>6, <2>3
  <2> HIDE DEF hit
  <2> QED BY <2>1, <2>2, <2>4, <2>5
<1>11. \A i \in 1 .. n : \A c \in Nat : Fallen(i, c)' = Fallen(i, c)
  <2>1. \A i \in 1 .. n : i \in Nat /\ i - 1 \in Nat
    BY <1>3
  <2> QED BY <1>8, <2>1 DEF Fallen, Below
<1>12. TurnInv'
  BY <1>1, <1>2, <1>8, <1>9, <1>10, <1>11 DEF TurnInv
<1> QED BY <1>7, <1>12

(* After whole cycles each worker has had its share of each.               *)
LEMMA SharesAreTaken == TurnsTypeOK /\ TurnInv => TurnsAreShared
<1> DEFINE n == Cardinality(alive)
           picks == SumFunctionOnSet(turns, alive)
           q == picks \div Cycle
<1> SUFFICES ASSUME TurnsTypeOK, TurnInv, alive # {}, kind \in {"roundRobin", "weighted"},
                    picks % Cycle = 0, NEW i \in 1 .. n
             PROVE  turns[RunningWorkers[i]]
                       = (IF ByWeight THEN Weights[i] ELSE 1) * q
  BY Places DEF TurnsAreShared, Cycle, ByWeight
<1>1. n \in Nat /\ Cycle \in Nat \ {0} /\ \A k \in 0 .. n : Cut(k) \in 0 .. Cycle
  BY Cuts
<1>2. picks \in Nat
  <2>1. \A v \in alive : turns[v] \in Nat
    BY DEF TurnsTypeOK
  <2> QED BY <2>1, AliveFinite, SumNat
<1>3. picks = Cycle * q /\ q \in Nat
  <2> HIDE DEF picks
  <2>1. picks = Cycle * (picks \div Cycle) + (picks % Cycle) /\ picks \div Cycle \in Nat
    BY <1>1, <1>2, Division
  <2>2. Cycle * (picks \div Cycle) \in Nat
    BY <1>1, <2>1
  <2> QED BY <2>1, <2>2
<1> HIDE DEF picks, q
<1>4. Start \in Nat /\ counter = Start + Cycle * q
  BY <1>2, <1>3 DEF TurnInv, Start, picks, TurnsTypeOK
<1>5. ASSUME NEW k \in 0 .. n
      PROVE  /\ Below(Cut(k), Cycle, counter) = Below(Cut(k), Cycle, Start) + q * Cut(k)
             /\ Below(Cut(k), Cycle, Start) \in Nat /\ Cut(k) \in Nat
  <2>1. Cut(k) \in 0 .. Cycle /\ Cut(k) \in Nat
    BY <1>1
  <2>2. Below(Cut(k), Cycle, Start + Cycle * q) = Below(Cut(k), Cycle, Start) + q * Cut(k)
    BY <1>1, <1>3, <1>4, <2>1, BelowCycles
  <2>3. Below(Cut(k), Cycle, Start) \in Nat
    BY <1>1, <1>4, <2>1, BelowNext
  <2> QED BY <1>4, <2>1, <2>2, <2>3
<1>6. i \in 0 .. n /\ i - 1 \in 0 .. n
  BY <1>1
<1> DEFINE a == Below(Cut(i), Cycle, Start)
           b == Below(Cut(i - 1), Cycle, Start)
<1>7. turns[RunningWorkers[i]] = ((a + q * Cut(i)) - (b + q * Cut(i - 1))) - (a - b)
  <2>1. turns[RunningWorkers[i]] = Fallen(i, counter) - Fallen(i, Start)
    BY DEF TurnInv
  <2> QED BY <1>5, <1>6, <2>1 DEF Fallen
<1>8. a \in Nat /\ b \in Nat /\ Cut(i) \in Nat /\ Cut(i - 1) \in Nat
  BY <1>5, <1>6
<1> HIDE DEF a, b
<1>9. turns[RunningWorkers[i]] = (Cut(i) - Cut(i - 1)) * q
  <2>1. q * Cut(i) \in Nat /\ q * Cut(i - 1) \in Nat
    BY <1>3, <1>8
  <2>2. (Cut(i) - Cut(i - 1)) * q = q * Cut(i) - q * Cut(i - 1)
    BY <1>3, <1>8
  <2> QED BY <1>7, <1>8, <2>1, <2>2
<1>10. Cut(i) - Cut(i - 1) = IF ByWeight THEN Weights[i] ELSE 1
  <2>1. CASE ByWeight
    <3>1. Len(Weights) = n
      BY <2>1, Places DEF ByWeight, WeightsApply
    <3>2. Running(i) = Running(i - 1) + Weights[i] /\ Weights[i] \in Nat /\ Running(i - 1) \in Nat
      BY <1>6, <3>1, RunningSums
    <3>3. Cut(i) = Running(i) /\ Cut(i - 1) = Running(i - 1)
      BY <2>1 DEF Cut
    <3> QED BY <2>1, <3>2, <3>3
  <2>2. CASE ~ByWeight
    BY <1>1, <2>2 DEF Cut
  <2> QED BY <2>1, <2>2
<1> QED BY <1>9, <1>10
-----------------------------------------------------------------------------
(* The adaptive balancer.                                                  *)

AdaptiveTypeOK ==
    /\ strategy \in Strategies
    /\ metrics \in [Strategies -> Nat]
    /\ chooser \in [Choosers -> {"idle", "increment", "check", "reset"} \cup Evaluating]
    /\ indexRead \in [Choosers -> Strategies] /\ reading \in [Choosers -> Nat]
    /\ position \in [Choosers -> Strategies]
    /\ bestStrategy \in [Choosers -> Strategies] /\ bestMetric \in [Choosers -> Nat]
    /\ inARow \in Nat
    /\ overlapped \in BOOLEAN /\ evenLoad \in BOOLEAN

(* At least n strategies, n up to 3, have a metric.                        *)
Tried(n) ==
    /\ n >= 1 => \E s \in Strategies : metrics[s] > 0
    /\ n >= 2 => \E s, r \in Strategies : s # r /\ metrics[s] > 0 /\ metrics[r] > 0
    /\ n >= 3 => \A s \in Strategies : metrics[s] > 0

Deciding == {"compare", "minuend", "gain", "factor", "decide", "switch"}

(* What an evaluation that met no other knows: what it has read is still   *)
(* so, and what it has searched holds nothing below what it has found.     *)
Undisturbed(c) ==
    /\ chooser[c] \in {"store", "gain", "decide"} => indexRead[c] = strategy
    /\ chooser[c] \in {"search"} \cup Deciding =>
          metrics[strategy] > 0 /\ Tried(inARow + 1)
    /\ chooser[c] = "search" =>
          /\ \A s \in Strategies : s < position[c] => bestMetric[c] <= metrics[s]
          /\ position[c] > 1 => bestMetric[c] = metrics[bestStrategy[c]]
    /\ chooser[c] \in Deciding =>
          /\ \A s \in Strategies : bestMetric[c] <= metrics[s]
          /\ bestMetric[c] = metrics[bestStrategy[c]]
    /\ chooser[c] \in {"factor", "decide"} => reading[c] = metrics[strategy]

(* The next evaluation will measure what has not been measured, if there   *)
(* is something.                                                           *)
Ready == metrics[strategy] = 0 \/ \A s \in Strategies : metrics[s] > 0

(* While no evaluation has seen equal loads: every evaluation since the    *)
(* last overlap has added a strategy to those with a metric.               *)
AdaptiveSound ==
    ~evenLoad =>
        /\ \A c \in Choosers : chooser[c] = "store" => reading[c] > 0
        /\ Tried(inARow)
        /\ overlapped => inARow = 0
        /\ ~overlapped =>
              \A c \in Evaluators : Undisturbed(c) /\ \A d \in Evaluators : d = c
        /\ inARow >= 1 /\ (\A c \in Choosers : chooser[c] \notin {"search"} \cup Deciding)
              => Ready

AdaptiveInv == AdaptiveTypeOK /\ AdaptiveSound

LEMMA VarianceIsNat ==
    ASSUME NEW running \in SUBSET Measured, NEW load \in [Measured -> Loads]
    PROVE  LoadVariance(running, load) \in Nat
<1> DEFINE n == Cardinality(running)
           sum == SumFunctionOnSet(load, running)
           diff(w) == n * load[w] - sum
           squares == [w \in running |-> diff(w) * diff(w)]
<1>1. IsFiniteSet(running) /\ n \in Nat
  <2>1. IsFiniteSet(Measured)
    BY AdaptiveAssumption
  <2> QED BY <2>1, FS_Subset, FS_CardinalityType
<1>2. \A w \in running : load[w] \in Nat
  BY AdaptiveAssumption
<1>3. sum \in Nat
  BY <1>1, <1>2, SumNat
<1>4. \A w \in running : squares[w] \in Nat
  <2> SUFFICES ASSUME NEW w \in running PROVE diff(w) * diff(w) \in Nat
    OBVIOUS
  <2>1. n * load[w] \in Nat
    <3>1. load[w] \in Nat
      BY <1>2
    <3> HIDE DEF n
    <3> QED BY <1>1, <3>1
  <2>2. diff(w) \in Int
    <3> HIDE DEF n, sum
    <3> QED BY <1>3, <2>1
  <2> HIDE DEF diff
  <2> QED BY <2>2
<1>5. SumFunctionOnSet(squares, running) \in Nat
  <2> HIDE DEF squares
  <2> QED BY <1>1, <1>4, SumNat
<1>6. n # 0 => Scale \div (n * n * n) \in Nat
  <2> HIDE DEF n
  <2> SUFFICES ASSUME n # 0 PROVE Scale \div (n * n * n) \in Nat
    OBVIOUS
  <2>1. n * n * n \in Nat \ {0}
    <3>1. n * n \in Nat \ {0}
      BY <1>1
    <3> DEFINE m == n * n
    <3> HIDE DEF m
    <3>2. m * n \in Nat \ {0}
      BY <1>1, <3>1 DEF m
    <3> QED BY <3>2 DEF m
  <2>2. Scale \in Nat
    BY AdaptiveAssumption
  <2> DEFINE m == n * n * n
  <2> HIDE DEF m
  <2>3. Scale \div m \in Nat
    BY <2>1, <2>2, Division DEF m
  <2> QED BY <2>3 DEF m
<1>7. LoadVariance(running, load) =
         IF n = 0 THEN 0 ELSE (Scale \div (n * n * n)) * SumFunctionOnSet(squares, running)
  BY DEF LoadVariance
<1> DEFINE a == Scale \div (n * n * n)
           b == SumFunctionOnSet(squares, running)
<1>8. LoadVariance(running, load) = IF n = 0 THEN 0 ELSE a * b
  BY <1>7
<1>9. b \in Nat /\ (n # 0 => a \in Nat)
  BY <1>5, <1>6
<1> HIDE DEF a, b, n
<1> QED BY <1>8, <1>9

(* Calls that do not evaluate leave the strategies alone.                  *)
LEMMA CallsKeepSound ==
    ASSUME AdaptiveInv, NEW c \in Choosers,
           ReadCount(c) \/ WriteCount(c) \/ ResetCount(c)
    PROVE  AdaptiveInv'
<1>1. /\ UNCHANGED <<strategy, metrics, indexRead, reading, searchVars, historyVars>>
      /\ \E from, to \in {"idle", "increment", "check", "reset"} :
            chooser[c] = from /\ chooser' = [chooser EXCEPT ![c] = to]
  <2>1. CASE ReadCount(c)
    BY <2>1 DEF ReadCount, Goes, sharedVars
  <2>2. CASE WriteCount(c)
    BY <2>2 DEF WriteCount, Goes
  <2>3. CASE ResetCount(c)
    BY <2>3 DEF ResetCount, Goes, localVars
  <2> QED BY <2>1, <2>2, <2>3
<1>2. AdaptiveTypeOK'
  BY <1>1 DEF AdaptiveInv, AdaptiveTypeOK, searchVars, historyVars
<1>3. \A d \in Choosers :
         \/ chooser'[d] = chooser[d]
         \/ {chooser'[d], chooser[d]} \subseteq {"idle", "increment", "check", "reset"}
  BY <1>1 DEF AdaptiveInv, AdaptiveTypeOK
<1>4. Evaluators' = Evaluators
  BY <1>3 DEF Evaluators, Evaluating
<1>5. \A d \in Evaluators : Undisturbed(d) => Undisturbed(d)'
  BY <1>1, <1>3 DEF Undisturbed, Evaluators, Evaluating, Deciding, Tried, searchVars, historyVars
<1>6. AdaptiveSound'
  BY <1>1, <1>3, <1>4, <1>5
  DEF AdaptiveInv, AdaptiveSound, Tried, Ready, Deciding, historyVars
<1> QED BY <1>2, <1>6 DEF AdaptiveInv

LEMMA CheckCountKeeps ==
    ASSUME AdaptiveInv, NEW c \in Choosers, CheckCount(c)
    PROVE  AdaptiveInv'
<1>1. /\ UNCHANGED <<strategy, metrics, indexRead, reading, searchVars, evenLoad>>
      /\ chooser[c] = "check"
  BY DEF CheckCount, Goes, sharedVars, localVars, historyVars
<1>2. \/ /\ chooser' = [chooser EXCEPT ![c] = "idle"]
         /\ UNCHANGED <<overlapped, inARow>>
      \/ /\ chooser' = [chooser EXCEPT ![c] = "measure"]
         /\ overlapped' = (Evaluators # {})
         /\ inARow' = IF Evaluators # {} THEN 0 ELSE inARow
  BY DEF CheckCount, Goes, historyVars
<1>3. AdaptiveTypeOK'
  <2>1. chooser' \in [Choosers -> {"idle", "increment", "check", "reset"} \cup Evaluating]
    BY <1>2 DEF AdaptiveInv, AdaptiveTypeOK, Evaluating
  <2>2. overlapped' \in BOOLEAN
    BY <1>2, Zenon DEF AdaptiveInv, AdaptiveTypeOK
  <2>3. inARow' \in Nat
    BY <1>2 DEF AdaptiveInv, AdaptiveTypeOK
  <2> QED BY <1>1, <2>1, <2>2, <2>3 DEF AdaptiveInv, AdaptiveTypeOK, searchVars
<1>4. ASSUME ~evenLoad' PROVE AdaptiveSound'
  <2>1. ~evenLoad
    BY <1>1, <1>4
  <2>2. /\ \A d \in Choosers : d # c => chooser'[d] = chooser[d]
        /\ chooser'[c] \in {"idle", "measure"}
    BY <1>2 DEF AdaptiveInv, AdaptiveTypeOK
  <2>3. CASE chooser' = [chooser EXCEPT ![c] = "idle"] /\ UNCHANGED <<overlapped, inARow>>
    <3>1. Evaluators' = Evaluators
      BY <1>1, <2>2, <2>3 DEF Evaluators, Evaluating, AdaptiveInv, AdaptiveTypeOK
    <3>2. \A d \in Evaluators : Undisturbed(d) => Undisturbed(d)'
      BY <1>1, <2>2, <2>3 DEF Undisturbed, Evaluators, Evaluating, Deciding, Tried, searchVars
    <3> QED BY <1>1, <2>1, <2>2, <2>3, <3>1, <3>2
            DEF AdaptiveInv, AdaptiveSound, Tried, Ready, Deciding
  <2>4. CASE /\ chooser' = [chooser EXCEPT ![c] = "measure"]
             /\ overlapped' = (Evaluators # {})
             /\ inARow' = IF Evaluators # {} THEN 0 ELSE inARow
    <3>1. chooser'[c] = "measure"
      BY <2>4 DEF AdaptiveInv, AdaptiveTypeOK
    <3>2. CASE Evaluators = {}
      <4>1. Evaluators' \subseteq {c}
        BY <2>2, <3>2 DEF Evaluators
      <4>2. Undisturbed(c)'
        BY <3>1 DEF Undisturbed, Deciding
      <4> QED BY <1>1, <2>1, <2>2, <2>4, <3>1, <3>2, <4>1, <4>2
              DEF AdaptiveInv, AdaptiveSound, Tried, Ready, Deciding
    <3>3. CASE Evaluators # {}
      <4>1. overlapped' /\ inARow' = 0
        BY <2>4, <3>3
      <4> QED BY <1>1, <2>1, <2>2, <3>1, <4>1 DEF AdaptiveInv, AdaptiveSound, Tried
    <3> QED BY <3>2, <3>3
  <2> QED BY <1>2, <2>3, <2>4
<1> QED BY <1>3, <1>4 DEF AdaptiveInv, AdaptiveSound

LEMMA MeasureKeeps ==
    ASSUME AdaptiveInv, NEW c \in Choosers, Measure(c)
    PROVE  AdaptiveInv'
<1>1. /\ UNCHANGED <<strategy, metrics, searchVars, overlapped, inARow>>
      /\ chooser[c] = "measure" /\ chooser' = [chooser EXCEPT ![c] = "store"]
      /\ indexRead' = [indexRead EXCEPT ![c] = strategy]
  BY DEF Measure, Goes, sharedVars
<1>2. PICK running \in SUBSET Measured, load \in [Measured -> Loads] :
         /\ reading' = [reading EXCEPT ![c] = LoadVariance(running, load)]
         /\ evenLoad' = (evenLoad \/ LoadVariance(running, load) = 0)
  BY DEF Measure
<1> DEFINE v == LoadVariance(running, load)
<1>3. v \in Nat
  BY VarianceIsNat
<1> HIDE DEF v
<1>4. reading' = [reading EXCEPT ![c] = v] /\ evenLoad' = (evenLoad \/ v = 0)
  BY <1>2 DEF v
<1>5. AdaptiveTypeOK'
  <2>1. evenLoad' \in BOOLEAN
    BY <1>4
  <2> QED BY <1>1, <1>3, <1>4, <2>1
          DEF AdaptiveInv, AdaptiveTypeOK, searchVars, Evaluating
<1>6. ASSUME ~evenLoad' PROVE AdaptiveSound'
  <2>1. ~evenLoad /\ v > 0
    <3>1. ~evenLoad /\ v # 0
      BY <1>4, <1>6, Zenon
    <3> QED BY <1>3, <3>1
  <2>2. /\ \A d \in Choosers : d # c => /\ chooser'[d] = chooser[d]
                                        /\ reading'[d] = reading[d]
                                        /\ indexRead'[d] = indexRead[d]
        /\ chooser'[c] = "store" /\ reading'[c] = v /\ indexRead'[c] = strategy
    BY <1>1, <1>4 DEF AdaptiveInv, AdaptiveTypeOK
  <2>3. Evaluators' = Evaluators
    BY <1>1, <2>2 DEF Evaluators, Evaluating
  <2>4. \A d \in Evaluators : Undisturbed(d) => Undisturbed(d)'
    BY <1>1, <2>2 DEF Undisturbed, Evaluators, Deciding, Tried, searchVars
  <2> QED BY <1>1, <2>1, <2>2, <2>3, <2>4
          DEF AdaptiveInv, AdaptiveSound, Tried, Ready, Deciding
<1> QED BY <1>5, <1>6 DEF AdaptiveInv, AdaptiveSound

LEMMA StoreMetricKeeps ==
    ASSUME AdaptiveInv, NEW c \in Choosers, StoreMetric(c)
    PROVE  AdaptiveInv'
<1>1. /\ UNCHANGED <<strategy, bestStrategy, bestMetric, historyVars>>
      /\ chooser[c] = "store" /\ chooser' = [chooser EXCEPT ![c] = "search"]
      /\ metrics' = [metrics EXCEPT ![indexRead[c]] = reading[c]]
      /\ position' = [position EXCEPT ![c] = 1]
      /\ indexRead' = [indexRead EXCEPT ![c] = 1]
      /\ reading' = [reading EXCEPT ![c] = 0]
  BY DEF StoreMetric, Goes
<1>2. AdaptiveTypeOK'
  BY <1>1 DEF AdaptiveInv, AdaptiveTypeOK, historyVars, Evaluating, Strategies
<1>3. ASSUME ~evenLoad' PROVE AdaptiveSound'
  <2>1. ~evenLoad /\ reading[c] > 0 /\ UNCHANGED <<overlapped, inARow>>
    BY <1>1, <1>3 DEF AdaptiveInv, AdaptiveSound, historyVars
  <2>2. /\ \A d \in Choosers : d # c => /\ chooser'[d] = chooser[d]
                                        /\ reading'[d] = reading[d]
        /\ chooser'[c] = "search" /\ position'[c] = 1
    BY <1>1 DEF AdaptiveInv, AdaptiveTypeOK
  <2>3. \A s \in Strategies : metrics'[s] = IF s = indexRead[c] THEN reading[c] ELSE metrics[s]
    BY <1>1 DEF AdaptiveInv, AdaptiveTypeOK
  <2>4. \A s \in Strategies : metrics[s] > 0 => metrics'[s] > 0
    BY <2>1, <2>3
  <2>5. \A n \in Nat : Tried(n) => Tried(n)'
    BY <2>4 DEF Tried
  <2>6. Evaluators' = Evaluators /\ c \in Evaluators
    BY <1>1, <2>2 DEF Evaluators, Evaluating
  <2>7. ASSUME ~overlapped PROVE Undisturbed(c)'
    <3>1. indexRead[c] = strategy
      BY <1>1, <2>1, <2>6, <2>7 DEF AdaptiveInv, AdaptiveSound, Undisturbed
    <3>2. metrics'[strategy] > 0 /\ strategy \in Strategies
      BY <2>1, <2>3, <3>1 DEF AdaptiveInv, AdaptiveTypeOK
    <3>3. \A d \in Choosers : chooser[d] \notin {"search"} \cup Deciding
      BY <1>1, <2>1, <2>6, <2>7
      DEF AdaptiveInv, AdaptiveSound, Evaluators, Deciding, Evaluating
    <3>4. inARow >= 1 => Ready
      BY <2>1, <3>3 DEF AdaptiveInv, AdaptiveSound
    <3>5. Tried(inARow + 1)'
      <4>1. CASE inARow = 0
        BY <2>1, <3>2, <4>1 DEF Tried
      <4>2. CASE inARow # 0 /\ \A s \in Strategies : metrics[s] > 0
        BY <2>4, <4>2 DEF Tried, Strategies
      <4>3. CASE inARow # 0 /\ metrics[strategy] = 0
        <5>1. Tried(inARow) /\ inARow \in Nat /\ inARow < 3
          BY <2>1, <3>2, <4>3 DEF AdaptiveInv, AdaptiveSound, AdaptiveTypeOK, Tried
        <5>2. PICK s \in Strategies : metrics[s] > 0
          BY <4>3, <5>1 DEF Tried
        <5>3. s # strategy /\ metrics'[s] > 0
          BY <2>4, <4>3, <5>2
        <5>4. ASSUME inARow = 2 PROVE \A r \in Strategies : metrics'[r] > 0
          <6>1. PICK r, t \in Strategies : r # t /\ metrics[r] > 0 /\ metrics[t] > 0
            BY <5>1, <5>4 DEF Tried
          <6>2. r # strategy /\ t # strategy
            BY <4>3, <6>1
          <6> QED BY <2>4, <3>2, <6>1, <6>2 DEF Strategies
        <5>5. inARow = 1 \/ inARow = 2
          BY <4>3, <5>1
        <5> QED BY <2>1, <3>2, <5>3, <5>4, <5>5 DEF Tried
      <4> QED BY <2>1, <3>4, <4>1, <4>2, <4>3
              DEF AdaptiveInv, AdaptiveTypeOK, Ready
    <3>6. \A s \in Strategies : ~(s < position'[c])
      BY <2>2 DEF Strategies
    <3> QED BY <1>1, <2>1, <2>2, <3>2, <3>5, <3>6 DEF Undisturbed, Deciding
  <2>8. ~overlapped' => \A d \in Evaluators' : Undisturbed(d)' /\ \A e \in Evaluators' : e = d
    BY <2>1, <2>6, <2>7 DEF AdaptiveInv, AdaptiveSound
  <2>9. Tried(inARow)'
    BY <2>1, <2>5 DEF AdaptiveInv, AdaptiveSound, AdaptiveTypeOK, Tried
  <2> QED BY <2>1, <2>2, <2>8, <2>9 DEF AdaptiveInv, AdaptiveSound
<1> QED BY <1>2, <1>3 DEF AdaptiveInv, AdaptiveSound

LEMMA SearchKeeps ==
    ASSUME AdaptiveInv, NEW c \in Choosers, Search(c)
    PROVE  AdaptiveInv'
<1> DEFINE i == position[c]
           found == i = 1 \/ metrics[i] < bestMetric[c]
<1>1. /\ UNCHANGED <<strategy, metrics, indexRead, reading, historyVars>>
      /\ chooser[c] = "search"
      /\ chooser' = [chooser EXCEPT ![c] = IF i < 3 THEN "search" ELSE "compare"]
      /\ position' = [position EXCEPT ![c] = IF i < 3 THEN i + 1 ELSE 1]
  BY DEF Search, Goes, sharedVars
<1>2. /\ bestStrategy' = IF found THEN [bestStrategy EXCEPT ![c] = i] ELSE bestStrategy
      /\ bestMetric' = IF found THEN [bestMetric EXCEPT ![c] = metrics[i]] ELSE bestMetric
  BY DEF Search, Better
<1>3. i \in Strategies /\ metrics[i] \in Nat
  BY DEF AdaptiveInv, AdaptiveTypeOK
<1>4. AdaptiveTypeOK'
  <2>1. /\ bestStrategy' \in [Choosers -> Strategies]
        /\ bestMetric' \in [Choosers -> Nat]
    BY <1>2, <1>3 DEF AdaptiveInv, AdaptiveTypeOK
  <2>2. chooser' \in [Choosers -> {"idle", "increment", "check", "reset"} \cup Evaluating]
    BY <1>1 DEF AdaptiveInv, AdaptiveTypeOK, Evaluating
  <2>3. position' \in [Choosers -> Strategies]
    BY <1>1, <1>3 DEF AdaptiveInv, AdaptiveTypeOK, Strategies
  <2> QED BY <1>1, <2>1, <2>2, <2>3 DEF AdaptiveInv, AdaptiveTypeOK, historyVars
<1>5. ASSUME ~evenLoad' PROVE AdaptiveSound'
  <2>1. ~evenLoad /\ UNCHANGED <<overlapped, inARow>>
    BY <1>1, <1>5 DEF historyVars
  <2>2. /\ \A d \in Choosers : d # c => chooser'[d] = chooser[d]
        /\ chooser'[c] = (IF i < 3 THEN "search" ELSE "compare")
        /\ position'[c] = (IF i < 3 THEN i + 1 ELSE 1)
        /\ bestStrategy'[c] = (IF found THEN i ELSE bestStrategy[c])
        /\ bestMetric'[c] = (IF found THEN metrics[i] ELSE bestMetric[c])
    BY <1>1, <1>2 DEF AdaptiveInv, AdaptiveTypeOK
  <2>3. Evaluators' = Evaluators /\ c \in Evaluators
    BY <1>1, <2>2 DEF Evaluators, Evaluating
  <2>4. ASSUME ~overlapped PROVE Undisturbed(c)'
    <3>1. Undisturbed(c)
      BY <2>1, <2>3, <2>4 DEF AdaptiveInv, AdaptiveSound
    <3>2. \A s \in Strategies : metrics[s] \in Nat
      BY DEF AdaptiveInv, AdaptiveTypeOK
    <3>3. \A s \in Strategies : s <= i => bestMetric'[c] <= metrics[s]
      BY <1>1, <1>3, <2>2, <3>1, <3>2
      DEF Undisturbed, Strategies, AdaptiveInv, AdaptiveTypeOK
    <3>4. bestMetric'[c] = metrics[bestStrategy'[c]]
      BY <1>1, <1>3, <2>2, <3>1 DEF Undisturbed, Strategies
    <3>5. metrics[strategy] > 0 /\ Tried(inARow + 1)
      BY <1>1, <3>1 DEF Undisturbed
    <3>6. (metrics[strategy] > 0 /\ Tried(inARow + 1))'
      BY <1>1, <2>1, <3>5 DEF Tried
    <3> QED BY <1>1, <1>3, <2>2, <3>3, <3>4, <3>6 DEF Undisturbed, Deciding, Strategies
  <2>5. ~overlapped' => \A d \in Evaluators' : Undisturbed(d)' /\ \A e \in Evaluators' : e = d
    BY <2>1, <2>3, <2>4 DEF AdaptiveInv, AdaptiveSound
  <2> QED BY <1>1, <2>1, <2>2, <2>5
          DEF AdaptiveInv, AdaptiveSound, Tried, Ready, Deciding
<1> QED BY <1>4, <1>5 DEF AdaptiveInv, AdaptiveSound

(* The steps that only read, or find that the evaluation goes on.          *)
LEMMA ReadingKeeps ==
    ASSUME AdaptiveInv, NEW c \in Choosers, NEW to \in {"minuend", "gain", "factor", "decide", "switch"},
           chooser[c] \in Deciding, chooser' = [chooser EXCEPT ![c] = to],
           indexRead' = IF to \in {"gain", "decide"} THEN [indexRead EXCEPT ![c] = strategy]
                                                     ELSE indexRead,
           reading' = IF to = "factor" THEN [reading EXCEPT ![c] = metrics[indexRead[c]]] ELSE reading,
           to = "factor" => chooser[c] = "gain",
           to = "decide" => chooser[c] = "factor",
           UNCHANGED <<strategy, metrics, searchVars, historyVars>>
    PROVE  AdaptiveInv'
<1>1. AdaptiveTypeOK'
  <2>1. indexRead' \in [Choosers -> Strategies]
    BY DEF AdaptiveInv, AdaptiveTypeOK
  <2>2. reading' \in [Choosers -> Nat]
    BY DEF AdaptiveInv, AdaptiveTypeOK
  <2>3. chooser' \in [Choosers -> {"idle", "increment", "check", "reset"} \cup Evaluating]
    BY DEF AdaptiveInv, AdaptiveTypeOK, Evaluating
  <2> QED BY <2>1, <2>2, <2>3 DEF AdaptiveInv, AdaptiveTypeOK, searchVars, historyVars
<1>2. ASSUME ~evenLoad' PROVE AdaptiveSound'
  <2>1. ~evenLoad /\ UNCHANGED <<overlapped, inARow>>
    BY <1>2 DEF historyVars
  <2>2. /\ \A d \in Choosers : d # c => chooser'[d] = chooser[d]
        /\ chooser'[c] = to
        /\ indexRead'[c] = (IF to \in {"gain", "decide"} THEN strategy ELSE indexRead[c])
        /\ reading'[c] = (IF to = "factor" THEN metrics[indexRead[c]] ELSE reading[c])
    BY DEF AdaptiveInv, AdaptiveTypeOK
  <2>3. Evaluators' = Evaluators /\ c \in Evaluators
    BY <2>2 DEF Evaluators, Evaluating, Deciding
  <2>4. ASSUME ~overlapped PROVE Undisturbed(c)'
    <3>1. Undisturbed(c)
      BY <2>1, <2>3, <2>4 DEF AdaptiveInv, AdaptiveSound
    <3>2. to = "factor" => reading'[c] = metrics[strategy]
      BY <2>2, <3>1 DEF Undisturbed
    <3>3. to = "decide" => reading'[c] = metrics[strategy]
      BY <2>2, <3>1 DEF Undisturbed
    <3>4. Tried(inARow + 1)'
      BY <2>1, <3>1 DEF Undisturbed, Tried
    <3> QED BY <2>2, <3>1, <3>2, <3>3, <3>4 DEF Undisturbed, Deciding, searchVars
  <2>5. ~overlapped' => \A d \in Evaluators' : Undisturbed(d)' /\ \A e \in Evaluators' : e = d
    BY <2>1, <2>3, <2>4 DEF AdaptiveInv, AdaptiveSound
  <2>6. \A d \in Choosers : chooser'[d] = "store" => reading'[d] > 0
    BY <2>1, <2>2 DEF AdaptiveInv, AdaptiveSound, AdaptiveTypeOK
  <2> QED BY <2>1, <2>2, <2>5, <2>6
          DEF AdaptiveInv, AdaptiveSound, Tried, Ready, Deciding
<1> QED BY <1>1, <1>2 DEF AdaptiveInv, AdaptiveSound

(* The end of an evaluation: what was measured is not lost, and if nothing *)
(* overlapped, either all is measured or the new strategy is not.          *)
LEMMA EndingKeeps ==
    ASSUME AdaptiveInv, NEW c \in Choosers, chooser[c] \in Deciding, Ends(c),
           strategy' \in {strategy, bestStrategy[c]},
           ~evenLoad /\ ~overlapped => Ready'
    PROVE  AdaptiveInv'
<1>1. /\ UNCHANGED <<metrics, position, overlapped, evenLoad>>
      /\ chooser' = [chooser EXCEPT ![c] = "reset"]
      /\ indexRead' = [indexRead EXCEPT ![c] = 1] /\ reading' = [reading EXCEPT ![c] = 0]
      /\ bestStrategy' = [bestStrategy EXCEPT ![c] = 1]
      /\ bestMetric' = [bestMetric EXCEPT ![c] = 0]
      /\ inARow' = IF overlapped THEN 0 ELSE inARow + 1
  BY DEF Ends
<1>2. AdaptiveTypeOK'
  <2>1. strategy' \in Strategies
    BY DEF AdaptiveInv, AdaptiveTypeOK
  <2>2. inARow' \in Nat
    BY <1>1 DEF AdaptiveInv, AdaptiveTypeOK
  <2> QED BY <1>1, <2>1, <2>2 DEF AdaptiveInv, AdaptiveTypeOK, Strategies
<1>3. ASSUME ~evenLoad' PROVE AdaptiveSound'
  <2>1. ~evenLoad
    BY <1>1, <1>3
  <2>2. /\ \A d \in Choosers : d # c => chooser'[d] = chooser[d] /\ reading'[d] = reading[d]
        /\ chooser'[c] = "reset"
    BY <1>1 DEF AdaptiveInv, AdaptiveTypeOK
  <2>3. Evaluators' = Evaluators \ {c} /\ c \in Evaluators
    BY <2>2 DEF Evaluators, Evaluating, Deciding
  <2>4. CASE overlapped
    BY <1>1, <2>1, <2>2, <2>4 DEF AdaptiveInv, AdaptiveSound, Tried
  <2>5. CASE ~overlapped
    <3>1. Evaluators' = {} /\ Tried(inARow + 1)
      BY <2>1, <2>3, <2>5 DEF AdaptiveInv, AdaptiveSound, Undisturbed
    <3>2. Tried(inARow)'
      BY <1>1, <2>5, <3>1 DEF Tried
    <3> QED BY <1>1, <2>1, <2>2, <2>5, <3>1, <3>2 DEF AdaptiveInv, AdaptiveSound
  <2> QED BY <2>4, <2>5
<1> QED BY <1>2, <1>3 DEF AdaptiveInv, AdaptiveSound

LEMMA DecidingKeeps ==
    ASSUME AdaptiveInv, NEW c \in Choosers,
           Compare(c) \/ ReadIndex(c) \/ ReadMetric(c) \/ Decide(c) \/ Switch(c)
    PROVE  AdaptiveInv'
<1>1. /\ metrics \in [Strategies -> Nat] /\ strategy \in Strategies
      /\ bestStrategy[c] \in Strategies /\ bestMetric[c] \in Nat /\ reading[c] \in Nat
  BY DEF AdaptiveInv, AdaptiveTypeOK
<1>2. ASSUME ~evenLoad, ~overlapped, chooser[c] \in Deciding PROVE Undisturbed(c)
  BY <1>2 DEF AdaptiveInv, AdaptiveSound, Evaluators, Deciding, Evaluating
<1>3. ASSUME Compare(c), bestStrategy[c] = strategy PROVE AdaptiveInv'
  <2>1. chooser[c] = "compare" /\ Ends(c) /\ strategy' = strategy /\ metrics' = metrics
    BY <1>3 DEF Compare, Ends
  <2>2. ASSUME ~evenLoad, ~overlapped PROVE Ready'
    <3>1. Undisturbed(c)
      BY <1>2, <2>1, <2>2 DEF Deciding
    <3>2. \A s \in Strategies : metrics[strategy] > 0 /\ metrics[strategy] <= metrics[s]
      BY <1>3, <2>1, <3>1 DEF Undisturbed, Deciding
    <3> QED BY <1>1, <2>1, <3>2 DEF Ready
  <2> QED BY <2>1, <2>2, EndingKeeps DEF Deciding
<1>4. ASSUME Compare(c), bestStrategy[c] # strategy PROVE AdaptiveInv'
  <2>1. /\ chooser[c] = "compare" /\ chooser' = [chooser EXCEPT ![c] = "minuend"]
        /\ UNCHANGED <<strategy, metrics, indexRead, reading, searchVars, historyVars>>
    BY <1>4 DEF Compare, sharedVars, localVars
  <2> QED BY <2>1, ReadingKeeps DEF Deciding
<1>5. ASSUME ReadIndex(c) PROVE AdaptiveInv'
  <2>1. /\ indexRead' = [indexRead EXCEPT ![c] = strategy]
        /\ UNCHANGED <<strategy, metrics, reading, searchVars, historyVars>>
        /\ \/ chooser[c] = "minuend" /\ chooser' = [chooser EXCEPT ![c] = "gain"]
           \/ chooser[c] = "factor" /\ chooser' = [chooser EXCEPT ![c] = "decide"]
    BY <1>5 DEF ReadIndex, Goes, sharedVars
  <2> QED BY <2>1, ReadingKeeps DEF Deciding
<1>6. ASSUME ReadMetric(c) PROVE AdaptiveInv'
  <2>1. /\ reading' = [reading EXCEPT ![c] = metrics[indexRead[c]]]
        /\ chooser[c] = "gain" /\ chooser' = [chooser EXCEPT ![c] = "factor"]
        /\ UNCHANGED <<strategy, metrics, indexRead, searchVars, historyVars>>
    BY <1>6 DEF ReadMetric, Goes, sharedVars
  <2> QED BY <2>1, ReadingKeeps DEF Deciding
<1>7. ASSUME Decide(c) PROVE AdaptiveInv'
  <2>1. chooser[c] = "decide"
    BY <1>7 DEF Decide
  <2>2. CASE /\ 10 * (reading[c] - bestMetric[c]) <= metrics[indexRead[c]]
             /\ Ends(c) /\ strategy' = strategy
    <3>1. ASSUME ~evenLoad, ~overlapped PROVE Ready'
      <4>1. Undisturbed(c)
        BY <1>2, <2>1, <3>1 DEF Deciding
      <4>2. /\ metrics[strategy] > 0 /\ reading[c] = metrics[strategy]
            /\ indexRead[c] = strategy /\ \A s \in Strategies : bestMetric[c] <= metrics[s]
        BY <2>1, <4>1 DEF Undisturbed, Deciding
      <4>3. bestMetric[c] > 0
        BY <1>1, <2>2, <4>2
      <4> QED BY <1>1, <2>2, <4>2, <4>3 DEF Ready, Ends
    <3> QED BY <2>1, <2>2, <3>1, EndingKeeps DEF Deciding
  <2>3. CASE /\ chooser' = [chooser EXCEPT ![c] = "switch"]
             /\ UNCHANGED <<sharedVars, localVars, historyVars>>
    BY <2>1, <2>3, ReadingKeeps DEF Deciding, sharedVars, localVars
  <2> QED BY <1>7, <2>2, <2>3 DEF Decide
<1>8. ASSUME Switch(c) PROVE AdaptiveInv'
  <2>1. chooser[c] = "switch" /\ strategy' = bestStrategy[c] /\ Ends(c) /\ metrics' = metrics
    BY <1>8 DEF Switch, Ends
  <2>2. ASSUME ~evenLoad, ~overlapped PROVE Ready'
    <3>1. Undisturbed(c)
      BY <1>2, <2>1, <2>2 DEF Deciding
    <3>2. /\ \A s \in Strategies : bestMetric[c] <= metrics[s]
          /\ bestMetric[c] = metrics[bestStrategy[c]]
      BY <2>1, <3>1 DEF Undisturbed, Deciding
    <3> QED BY <1>1, <2>1, <3>2 DEF Ready
  <2> QED BY <2>1, <2>2, EndingKeeps DEF Deciding
<1> QED BY <1>3, <1>4, <1>5, <1>6, <1>7, <1>8

LEMMA AdaptiveStarts == AdaptiveInit => AdaptiveInv
<1> SUFFICES ASSUME AdaptiveInit PROVE AdaptiveInv
  OBVIOUS
<1>1. AdaptiveTypeOK
  <2>1. 1 \in Strategies
    BY DEF Strategies
  <2>2. overlapped \in BOOLEAN /\ evenLoad \in BOOLEAN
    BY Zenon DEF AdaptiveInit
  <2> QED BY <2>1, <2>2 DEF AdaptiveInit, AdaptiveTypeOK
<1>2. AdaptiveSound
  BY DEF AdaptiveInit, AdaptiveSound, Tried, Evaluators, Evaluating
<1> QED BY <1>1, <1>2 DEF AdaptiveInv

LEMMA AdaptiveStep == AdaptiveInv /\ [AdaptiveNext]_adaptiveVars => AdaptiveInv'
<1> SUFFICES ASSUME AdaptiveInv, [AdaptiveNext]_adaptiveVars PROVE AdaptiveInv'
  OBVIOUS
<1>1. CASE AdaptiveNext
  <2>1. PICK c \in Choosers :
           \/ ReadCount(c) \/ WriteCount(c) \/ CheckCount(c) \/ ResetCount(c)
           \/ Measure(c) \/ StoreMetric(c) \/ Search(c) \/ Compare(c)
           \/ ReadIndex(c) \/ ReadMetric(c) \/ Decide(c) \/ Switch(c)
    BY <1>1 DEF AdaptiveNext
  <2> QED BY <2>1, CallsKeepSound, CheckCountKeeps, MeasureKeeps, StoreMetricKeeps,
             SearchKeeps, DecidingKeeps
<1>2. CASE UNCHANGED adaptiveVars
  BY <1>2 DEF adaptiveVars, sharedVars, localVars, searchVars, historyVars, AdaptiveInv,
     AdaptiveTypeOK, AdaptiveSound, Evaluators, Undisturbed, Tried, Ready
<1> QED BY <1>1, <1>2

-----------------------------------------------------------------------------
(* LeastLoadBalancer.                                                      *)

(* What the scan has found when it has seen the workers up to w.           *)
Found(running, load, w, b) ==
    \/ b = NoWorker /\ \A v \in running : v > w
    \/ /\ b \in running /\ b <= w
       /\ \A v \in running : v <= w => load[b] <= load[v]
       /\ \A v \in running : v < b => load[b] < load[v]

Seen(running, load, w, b) ==
    IF b # NoWorker /\ load[b] = 0 THEN b
    ELSE IF w \in running /\ Lighter(load, b, w) THEN w ELSE b

Scans(running, load, best) ==
    best = [w \in 0 .. NBalanced |->
               IF w = 0 THEN NoWorker
               ELSE LET b == best[w - 1] IN
                    IF b # NoWorker /\ load[b] = 0 THEN b
                    ELSE IF w \in running /\ Lighter(load, b, w) THEN w ELSE b]

LEMMA WorkersAndLoads ==
    ASSUME NEW running \in SUBSET Balanced, NEW load \in [Balanced -> LoadValues]
    PROVE  /\ NBalanced \in Nat /\ NoWorker \notin running
           /\ \A v \in running : v \in Nat /\ v > 0 /\ v <= NBalanced /\ load[v] \in Nat
<1>1. NBalanced \in Nat /\ LoadValues \subseteq Nat
  BY BalancerAssumption
<1>2. \A v \in running : v \in Nat /\ v > 0 /\ v <= NBalanced
  BY <1>1 DEF Balanced
<1>3. \A v \in running : load[v] \in Nat
  BY <1>1
<1> QED BY <1>1, <1>2, <1>3 DEF NoWorker

LEMMA FoundBoth ==
    ASSUME NEW running \in SUBSET Balanced, NEW load \in [Balanced -> LoadValues],
           NEW w \in 0 .. NBalanced, NEW b, NEW c, b \in running,
           Found(running, load, w, b), Found(running, load, w, c)
    PROVE  c \in running
<1>1. b \in Nat /\ b # NoWorker /\ w \in Int
  BY WorkersAndLoads
<1>2. b <= w
  BY <1>1 DEF Found
<1>3. ~(\A v \in running : v > w)
  BY <1>1, <1>2
<1> QED BY <1>3 DEF Found

LEMMA FoundOnce ==
    ASSUME NEW running \in SUBSET Balanced, NEW load \in [Balanced -> LoadValues],
           NEW w \in 0 .. NBalanced, NEW b, NEW c,
           Found(running, load, w, b), Found(running, load, w, c)
    PROVE  b = c
<1>1. b \in running <=> c \in running
  BY FoundBoth
<1>2. CASE b \notin running
  BY <1>1, <1>2 DEF Found
<1>3. CASE b \in running
  <2>1. b # NoWorker /\ c # NoWorker /\ b \in running /\ c \in running
    BY <1>1, <1>3, WorkersAndLoads
  <2>2. /\ b <= w /\ c <= w
        /\ \A v \in running : v <= w => load[b] <= load[v]
        /\ \A v \in running : v <= w => load[c] <= load[v]
        /\ \A v \in running : v < b => load[b] < load[v]
        /\ \A v \in running : v < c => load[c] < load[v]
    BY <2>1 DEF Found
  <2>3. b \in Nat /\ c \in Nat /\ load[b] \in Nat /\ load[c] \in Nat
    BY <2>1, WorkersAndLoads
  <2>4. /\ load[b] <= load[c] /\ load[c] <= load[b]
        /\ c < b => load[b] < load[c]
        /\ b < c => load[c] < load[b]
    BY <2>1, <2>2
  <2> QED BY <2>3, <2>4
<1> QED BY <1>2, <1>3

LEMMA ScanGoesOn ==
    ASSUME NEW running \in SUBSET Balanced, NEW load \in [Balanced -> LoadValues],
           NEW w \in 1 .. NBalanced, NEW b, Found(running, load, w - 1, b)
    PROVE  Found(running, load, w, Seen(running, load, w, b))
<1>1. NBalanced \in Nat /\ running \subseteq Int /\ \A v \in running : load[v] \in Nat /\ v > 0
  <2>1. /\ NBalanced \in Nat
        /\ \A v \in running : v \in Nat /\ v > 0 /\ v <= NBalanced /\ load[v] \in Nat
    BY WorkersAndLoads
  <2> QED BY <2>1
<1>2. \A v \in running : (v <= w <=> v <= w - 1 \/ v = w) /\ (v > w <=> v > w - 1 /\ v # w)
  BY <1>1
<1>3. CASE b = NoWorker
  <2>1. \A v \in running : v > w - 1
    BY <1>1, <1>3 DEF Found, NoWorker
  <2>2. CASE w \in running
    <3>1. Seen(running, load, w, b) = w
      BY <1>3, <2>2 DEF Seen, Lighter
    <3>2. \A v \in running : (v <= w => v = w) /\ ~(v < w)
      BY <1>1, <2>1
    <3> QED BY <1>1, <2>2, <3>1, <3>2 DEF Found
  <2>3. CASE w \notin running
    <3>1. Seen(running, load, w, b) = NoWorker
      BY <1>3, <2>3 DEF Seen
    <3> QED BY <1>2, <2>1, <2>3, <3>1 DEF Found
  <2> QED BY <2>2, <2>3
<1>4. CASE b # NoWorker
  <2>1. /\ b \in running /\ b <= w - 1
        /\ \A v \in running : v <= w - 1 => load[b] <= load[v]
        /\ \A v \in running : v < b => load[b] < load[v]
    BY <1>4 DEF Found
  <2>2. b \in Int /\ b <= w /\ load[b] \in Nat
    BY <1>1, <2>1
  <2>3. CASE load[b] = 0
    <3>1. Seen(running, load, w, b) = b
      BY <1>4, <2>3 DEF Seen
    <3>2. \A v \in running : load[b] <= load[v]
      BY <1>1, <2>3
    <3> QED BY <2>1, <2>2, <3>1, <3>2 DEF Found
  <2>4. CASE load[b] # 0 /\ w \in running /\ load[w] < load[b]
    <3>1. Seen(running, load, w, b) = w
      BY <1>4, <2>4 DEF Seen, Lighter
    <3>2. \A v \in running : v <= w - 1 => load[w] < load[v]
      BY <1>1, <2>1, <2>2, <2>4
    <3>3. load[w] <= load[w] /\ w <= w
      BY <1>1, <2>4
    <3>4. \A v \in running : v <= w => load[w] <= load[v]
      <4>1. \A v \in running : v <= w - 1 => load[w] <= load[v]
        BY <1>1, <2>4, <3>2
      <4> QED BY <1>2, <3>3, <4>1
    <3>5. \A v \in running : v < w => load[w] < load[v]
      BY <1>1, <3>2
    <3> QED BY <2>4, <3>1, <3>3, <3>4, <3>5 DEF Found
  <2>5. CASE load[b] # 0 /\ ~(w \in running /\ load[w] < load[b])
    <3>1. Seen(running, load, w, b) = b
      BY <1>4, <2>5 DEF Seen, Lighter
    <3>2. w \in running => load[b] <= load[w]
      BY <1>1, <2>2, <2>5
    <3>3. \A v \in running : v <= w => load[b] <= load[v]
      BY <1>2, <2>1, <3>2
    <3> QED BY <2>1, <2>2, <3>1, <3>3 DEF Found
  <2> QED BY <2>3, <2>4, <2>5
<1> QED BY <1>3, <1>4

LEMMA ScanFinds ==
    ASSUME NEW running \in SUBSET Balanced, NEW load \in [Balanced -> LoadValues],
           NEW w \in 0 .. NBalanced
    PROVE  \E b : Found(running, load, w, b)
<1> DEFINE G == {n \in Nat : n <= NBalanced => \E b : Found(running, load, n, b)}
<1>1. NBalanced \in Nat /\ running \subseteq Int /\ \A v \in running : v > 0
  BY BalancerAssumption DEF Balanced
<1>2. 0 \in G
  <2>1. Found(running, load, 0, NoWorker)
    BY <1>1 DEF Found
  <2> QED BY <2>1
<1>3. ASSUME NEW n \in Nat, n \in G PROVE n + 1 \in G
  <2> SUFFICES ASSUME n + 1 <= NBalanced PROVE \E b : Found(running, load, n + 1, b)
    OBVIOUS
  <2>1. n + 1 \in 1 .. NBalanced /\ (n + 1) - 1 = n /\ n <= NBalanced
    BY <1>1
  <2>2. PICK b : Found(running, load, n, b)
    BY <1>3, <2>1
  <2>3. Found(running, load, n + 1, Seen(running, load, n + 1, b))
    BY <2>1, <2>2, ScanGoesOn
  <2> QED BY <2>3
<1>4. \A n \in Nat : n \in G
  <2> HIDE DEF G
  <2> QED BY <1>2, <1>3, NatInduct
<1>5. w \in Nat /\ w <= NBalanced
  BY <1>1
<1> QED BY <1>4, <1>5

LEMMA ScanExists ==
    ASSUME NEW running \in SUBSET Balanced, NEW load \in [Balanced -> LoadValues]
    PROVE  \E best : Scans(running, load, best)
<1> DEFINE F(w) == CHOOSE b : Found(running, load, w, b)
           best == [w \in 0 .. NBalanced |-> F(w)]
<1>1. \A w \in 0 .. NBalanced : Found(running, load, w, F(w))
  BY ScanFinds
<1> HIDE DEF F
<1>2. NBalanced \in Nat
  BY BalancerAssumption
<1>3. F(0) = NoWorker
  <2>1. 0 \in 0 .. NBalanced /\ \A v \in running : v > 0 /\ v \in Int
    BY <1>2 DEF Balanced
  <2>2. Found(running, load, 0, NoWorker)
    BY <2>1 DEF Found
  <2> QED BY <1>1, <2>1, <2>2, FoundOnce
<1>4. ASSUME NEW w \in 1 .. NBalanced PROVE F(w) = Seen(running, load, w, best[w - 1])
  <2>1. w \in 0 .. NBalanced /\ w - 1 \in 0 .. NBalanced
    BY <1>2
  <2>2. best[w - 1] = F(w - 1)
    BY <2>1
  <2>3. Found(running, load, w, Seen(running, load, w, best[w - 1]))
    <3> HIDE DEF best
    <3> QED BY <1>1, <2>1, <2>2, ScanGoesOn
  <2> HIDE DEF best
  <2> QED BY <1>1, <2>1, <2>3, FoundOnce
<1>5. \A w \in 0 .. NBalanced : w = 0 \/ w \in 1 .. NBalanced
  BY <1>2
<1>6. \A w \in 0 .. NBalanced :
         best[w] = IF w = 0 THEN NoWorker
                   ELSE LET b == best[w - 1] IN
                        IF b # NoWorker /\ load[b] = 0 THEN b
                        ELSE IF w \in running /\ Lighter(load, b, w) THEN w ELSE b
  BY <1>3, <1>4, <1>5 DEF Seen
<1>7. Scans(running, load, best)
  BY <1>6 DEF Scans
<1> HIDE DEF best
<1> QED BY <1>7

LEMMA ScanIsRight ==
    ASSUME NEW running \in SUBSET Balanced, NEW load \in [Balanced -> LoadValues]
    PROVE  Found(running, load, NBalanced, LeastLoad(running, load))
<1> DEFINE best == CHOOSE best : Scans(running, load, best)
           G == {n \in Nat : n <= NBalanced => Found(running, load, n, best[n])}
<1>1. Scans(running, load, best)
  BY ScanExists
<1>2. LeastLoad(running, load) = best[NBalanced]
  BY DEF LeastLoad, Scans
<1> HIDE DEF best
<1>3. NBalanced \in Nat
  BY BalancerAssumption
<1>4. 0 \in G
  <2>1. best[0] = NoWorker
    BY <1>1, <1>3 DEF Scans
  <2>2. \A v \in running : v > 0
    BY <1>3 DEF Balanced
  <2> QED BY <2>1, <2>2 DEF Found
<1>5. ASSUME NEW n \in Nat, n \in G PROVE n + 1 \in G
  <2> SUFFICES ASSUME n + 1 <= NBalanced PROVE Found(running, load, n + 1, best[n + 1])
    OBVIOUS
  <2>1. /\ n + 1 \in 1 .. NBalanced /\ (n + 1) - 1 = n /\ n <= NBalanced
        /\ n + 1 \in 0 .. NBalanced /\ n + 1 # 0
    BY <1>3
  <2>2. best[n + 1] = Seen(running, load, n + 1, best[n])
    BY <1>1, <2>1 DEF Scans, Seen
  <2>3. Found(running, load, n, best[n])
    BY <1>5, <2>1
  <2> QED BY <2>1, <2>2, <2>3, ScanGoesOn
<1>6. \A n \in Nat : n \in G
  <2> HIDE DEF G
  <2> QED BY <1>4, <1>5, NatInduct
<1>7. Found(running, load, NBalanced, best[NBalanced])
  BY <1>3, <1>6
<1> QED BY <1>2, <1>7

LEMMA LeastLoadIsRight == LeastLoadedFirst
<1> SUFFICES ASSUME NEW running \in SUBSET Balanced, NEW load \in [Balanced -> LoadValues]
             PROVE  LET least == {w \in running : \A v \in running : load[w] <= load[v]}
                    IN  LeastLoad(running, load) = IF least = {} THEN NoWorker ELSE Min(least)
  BY DEF LeastLoadedFirst
<1> DEFINE least == {w \in running : \A v \in running : load[w] <= load[v]}
           b == LeastLoad(running, load)
<1>1. /\ NBalanced \in Nat /\ running \subseteq Nat
      /\ \A v \in running : load[v] \in Nat /\ v > 0 /\ v <= NBalanced
  BY WorkersAndLoads
<1>2. Found(running, load, NBalanced, b)
  BY ScanIsRight
<1> HIDE DEF b
<1>3. CASE b \notin running
  <2>1. b = NoWorker /\ running = {}
    BY <1>1, <1>2, <1>3 DEF Found
  <2> QED BY <2>1 DEF b
<1>4. CASE b \in running
  <2>1. /\ \A v \in running : load[b] <= load[v]
        /\ \A v \in running : v < b => load[b] < load[v]
    BY <1>1, <1>2, <1>4 DEF Found, NoWorker
  <2>2. b \in least
    BY <1>4, <2>1
  <2>3. ASSUME NEW m \in least PROVE b <= m
    <3>1. m \in running /\ load[m] <= load[b] /\ load[m] \in Nat /\ load[b] \in Nat
      BY <1>1, <1>4
    <3>2. ~(m < b)
      BY <2>1, <3>1
    <3> QED BY <1>1, <1>4, <3>1, <3>2
  <2>4. least \in SUBSET Nat /\ least # {}
    BY <1>1, <2>2
  <2> HIDE DEF least
  <2>5. Min(least) \in least /\ \A m \in least : Min(least) <= m
    BY <2>4, LeastNatural
  <2>6. Min(least) = b
    <3>1. Min(least) <= b /\ b <= Min(least) /\ Min(least) \in Nat /\ b \in Nat
      BY <2>2, <2>3, <2>4, <2>5
    <3> DEFINE m == Min(least)
    <3> HIDE DEF m
    <3>2. m <= b /\ b <= m /\ m \in Nat
      BY <3>1 DEF m
    <3>3. m = b
      BY <3>1, <3>2
    <3> QED BY <3>3 DEF m
  <2> QED BY <2>4, <2>6 DEF b, least
<1> QED BY <1>3, <1>4
-----------------------------------------------------------------------------
(* ConsistentHashBalancer.                                                 *)

Hashes == 0 .. LastHash

Ascending(s) == \A i, j \in 1 .. Len(s) : i <= j => s[i] <= s[j]
Holds(s, h)  == \E i \in 1 .. Len(s) : s[i] = h

(* sortHashes.                                                             *)
LEMMA SortedAscends ==
    ASSUME NEW s \in Seq(Hashes)
    PROVE  /\ Sorted(s) \in Seq(Hashes)
           /\ Ascending(Sorted(s))
           /\ \A h : Holds(s, h) => Holds(Sorted(s), h)
<1> DEFINE n == Len(s)
           D == 1 .. n
           R == {p \in D \X D : s[p[1]] < s[p[2]] \/ (s[p[1]] = s[p[2]] /\ p[1] <= p[2])}
           upTo(j) == {i \in DOMAIN s : \/ s[i] < s[j]
                                        \/ s[i] = s[j] /\ i <= j}
           at(k) == CHOOSE j \in DOMAIN s : Cardinality(upTo(j)) = k
<1>1. n \in Nat /\ DOMAIN s = D /\ \A i \in D : s[i] \in Hashes /\ s[i] \in Nat
  BY BalancerAssumption DEF Hashes
<1>2. IsFiniteSet(D) /\ Cardinality(D) = n
  <2> HIDE DEF n
  <2> QED BY <1>1, FS_Interval
<1>3. IsOrder(R, D)
  <2>1. \A x, y \in D : <<x, y>> \in R <=> s[x] < s[y] \/ (s[x] = s[y] /\ x <= y)
    OBVIOUS
  <2>2. \A x \in D : s[x] \in Nat /\ x \in Nat
    BY <1>1
  <2> HIDE DEF R, n
  <2>3. \A x, y, z \in D : <<x, y>> \in R /\ <<y, z>> \in R => <<x, z>> \in R
    BY <2>1, <2>2
  <2>4. \A x, y \in D : <<x, y>> \in R /\ <<y, x>> \in R => x = y
    BY <2>1, <2>2
  <2>5. \A x \in D : <<x, x>> \in R
    BY <2>1, <2>2
  <2>6. \A x, y \in D : <<x, y>> \in R \/ <<y, x>> \in R
    <3> SUFFICES ASSUME NEW x \in D, NEW y \in D PROVE <<x, y>> \in R \/ <<y, x>> \in R
      OBVIOUS
    <3>1. s[x] \in Nat /\ s[y] \in Nat /\ x \in Nat /\ y \in Nat
      BY <2>2
    <3>2. /\ <<x, y>> \in R <=> s[x] < s[y] \/ (s[x] = s[y] /\ x <= y)
          /\ <<y, x>> \in R <=> s[y] < s[x] \/ (s[y] = s[x] /\ y <= x)
      BY <2>1
    <3> QED BY <3>1, <3>2
  <2> QED BY <2>3, <2>4, <2>5, <2>6 DEF IsOrder
<1>4. \A j \in D : Cardinality(upTo(j)) = Rank(R, D, j)
  <2> SUFFICES ASSUME NEW j \in D PROVE upTo(j) = {i \in D : <<i, j>> \in R}
    BY DEF Rank
  <2> QED BY <1>1
<1>5. \A x, y \in D : <<x, y>> \in R => s[x] <= s[y]
  BY <1>1
<1> HIDE DEF R, upTo, n
<1>6. ASSUME NEW k \in D PROVE at(k) \in D /\ Rank(R, D, at(k)) = k
  <2>1. PICK j \in D : HasRank(R, D, k, j)
    BY <1>2, <1>3, RankTaken
  <2>2. \E i \in DOMAIN s : Cardinality(upTo(i)) = k
    BY <1>1, <1>4, <2>1 DEF HasRank
  <2>3. at(k) \in DOMAIN s /\ Cardinality(upTo(at(k))) = k
    BY <2>2
  <2> HIDE DEF at
  <2> QED BY <1>1, <1>4, <2>3
<1>7. Sorted(s) = [k \in D |-> s[at(k)]]
  BY <1>1 DEF Sorted, upTo
<1> HIDE DEF at
<1>8. Sorted(s) \in Seq(Hashes) /\ Len(Sorted(s)) = n /\ \A k \in D : Sorted(s)[k] = s[at(k)]
  BY <1>1, <1>6, <1>7
<1>9. Ascending(Sorted(s))
  <2> SUFFICES ASSUME NEW i \in D, NEW j \in D, i <= j PROVE s[at(i)] <= s[at(j)]
    BY <1>8 DEF Ascending
  <2>1. /\ at(i) \in D /\ at(j) \in D /\ Rank(R, D, at(i)) = i /\ Rank(R, D, at(j)) = j
    BY <1>6
  <2>2. CASE <<at(i), at(j)>> \in R
    BY <1>5, <2>1, <2>2
  <2>3. CASE <<at(i), at(j)>> \notin R
    <3>1. <<at(j), at(i)>> \in R /\ at(i) # at(j)
      BY <1>3, <2>1, <2>3 DEF IsOrder
    <3>2. Rank(R, D, at(j)) < Rank(R, D, at(i))
      BY <1>2, <1>3, <2>1, <3>1, RanksDiffer
    <3> QED BY <1>1, <2>1, <3>2
  <2> QED BY <2>2, <2>3
<1>10. ASSUME NEW h, Holds(s, h) PROVE Holds(Sorted(s), h)
  <2>1. PICK i \in D : s[i] = h
    BY <1>10 DEF Holds, n
  <2> DEFINE k == Rank(R, D, i)
  <2>2. k \in D
    BY <1>2, <1>3, RanksDiffer
  <2> HIDE DEF k
  <2>3. PICK j \in D : HasRank(R, D, k, j)
    BY <1>2, <1>3, <2>2, RankTaken
  <2>4. at(k) = i
    BY <1>6, <2>2, <2>3 DEF HasRank, k
  <2> QED BY <1>8, <2>1, <2>2, <2>4 DEF Holds
<1> QED BY <1>8, <1>9, <1>10

(* The removal of one entry.                                               *)
LEMMA RemoveFirstKeeps ==
    ASSUME NEW s \in Seq(Hashes), Ascending(s), NEW h
    PROVE  /\ RemoveFirst(s, h) \in Seq(Hashes)
           /\ Ascending(RemoveFirst(s, h))
           /\ \A e : Holds(s, e) /\ e # h => Holds(RemoveFirst(s, h), e)
<1> DEFINE n == Len(s)
           I == {i \in 1 .. n : s[i] = h}
           k == Min(I)
<1>1. n \in Nat
  OBVIOUS
<1>2. CASE I = {}
  <2>1. RemoveFirst(s, h) = s
    BY <1>2 DEF RemoveFirst
  <2> QED BY <2>1
<1>3. CASE I # {}
  <2>1. k \in I
    <3>1. I \in SUBSET Nat
      BY <1>1
    <3> HIDE DEF I
    <3> QED BY <1>3, <3>1, LeastNatural
  <2>2. RemoveFirst(s, h) = SubSeq(s, 1, k - 1) \o SubSeq(s, k + 1, n)
    BY <1>3 DEF RemoveFirst, SelectInSeq, RemoveAt
  <2>3. k \in 1 .. n /\ s[k] = h
    BY <2>1
  <2> HIDE DEF k, n
  <2> DEFINE r == SubSeq(s, 1, k - 1) \o SubSeq(s, k + 1, n)
  <2>4. /\ r \in Seq(Hashes) /\ Len(r) = n - 1
        /\ \A i \in 1 .. n - 1 : r[i] = IF i < k THEN s[i] ELSE s[i + 1]
    <3>1. SubSeq(s, 1, k - 1) \in Seq(Hashes) /\ SubSeq(s, k + 1, n) \in Seq(Hashes)
      BY <1>1, <2>3 DEF n
    <3>2. Len(SubSeq(s, 1, k - 1)) = k - 1 /\ Len(SubSeq(s, k + 1, n)) = n - k
      BY <1>1, <2>3 DEF n
    <3>3. /\ \A i \in 1 .. k - 1 : SubSeq(s, 1, k - 1)[i] = s[i]
          /\ \A i \in 1 .. n - k : SubSeq(s, k + 1, n)[i] = s[i + k]
      BY <1>1, <2>3 DEF n
    <3> DEFINE a == SubSeq(s, 1, k - 1)
               b == SubSeq(s, k + 1, n)
    <3> HIDE DEF a, b
    <3>4. a \o b \in Seq(Hashes) /\ Len(a \o b) = n - 1
      BY <1>1, <2>3, <3>1, <3>2 DEF a, b
    <3>5. \A i \in 1 .. n - 1 : (a \o b)[i] = IF i < k THEN a[i] ELSE b[i - (k - 1)]
      BY <1>1, <2>3, <3>1, <3>2 DEF a, b
    <3>6. ASSUME NEW i \in 1 .. n - 1 PROVE (a \o b)[i] = IF i < k THEN s[i] ELSE s[i + 1]
      <4>1. CASE i < k
        BY <1>1, <2>3, <3>3, <3>5, <4>1 DEF a
      <4>2. CASE ~(i < k)
        <5>1. i - (k - 1) \in 1 .. n - k /\ (i - (k - 1)) + k = i + 1
          BY <1>1, <2>3, <4>2
        <5>2. b[i - (k - 1)] = s[i + 1]
          BY <3>3, <5>1 DEF b
        <5> QED BY <3>5, <4>2, <5>2
      <4> QED BY <4>1, <4>2
    <3> QED BY <3>4, <3>6 DEF a, b
  <2> HIDE DEF r
  <2>5. Ascending(r)
    <3> SUFFICES ASSUME NEW i \in 1 .. n - 1, NEW j \in 1 .. n - 1, i <= j PROVE r[i] <= r[j]
      BY <2>4 DEF Ascending
    <3> DEFINE u == IF i < k THEN i ELSE i + 1
               v == IF j < k THEN j ELSE j + 1
    <3>1. u \in 1 .. n /\ v \in 1 .. n /\ u <= v
      BY <1>1, <2>3
    <3>2. r[i] = s[u] /\ r[j] = s[v]
      BY <2>4
    <3> HIDE DEF u, v
    <3> QED BY <3>1, <3>2 DEF Ascending, n
  <2>6. ASSUME NEW e, Holds(s, e), e # h PROVE Holds(r, e)
    <3>1. PICK i \in 1 .. n : s[i] = e
      BY <2>6 DEF Holds, n
    <3>2. i # k
      BY <2>3, <2>6, <3>1
    <3>3. CASE i < k
      <4>1. i \in 1 .. n - 1 /\ r[i] = e
        BY <1>1, <2>3, <2>4, <3>1, <3>3
      <4> QED BY <2>4, <4>1 DEF Holds
    <3>4. CASE i > k
      <4>1. i - 1 \in 1 .. n - 1 /\ ~(i - 1 < k) /\ (i - 1) + 1 = i
        BY <1>1, <2>3, <3>4
      <4>2. r[i - 1] = e
        BY <2>4, <3>1, <4>1
      <4> QED BY <2>4, <4>1, <4>2 DEF Holds
    <3> QED BY <1>1, <2>3, <3>2, <3>3, <3>4
  <2> QED BY <2>2, <2>4, <2>5, <2>6 DEF r
<1> QED BY <1>2, <1>3

(* RemoveWorker: the removal of one entry for each of its hashes.          *)
Dropping(f, s, U, g) ==
    g = [T \in U |->
            IF T = {} THEN s
            ELSE LET x == CHOOSE x \in T : TRUE IN RemoveFirst(g[T \ {x}], f[x])]

LEMMA DroppingExists ==
    ASSUME NEW S, IsFiniteSet(S), NEW f, NEW s
    PROVE  \E g : Dropping(f, s, SUBSET S, g)
<1> DEFINE Upto(n) == {T \in SUBSET S : Cardinality(T) <= n}
           G == {n \in Nat : \E g : Dropping(f, s, Upto(n), g)}
           Pick(T) == CHOOSE x \in T : TRUE
<1>1. \A T \in SUBSET S : IsFiniteSet(T) /\ Cardinality(T) \in Nat
  BY FS_Subset, FS_CardinalityType
<1>2. \A T \in SUBSET S : T # {} =>
         /\ Pick(T) \in T /\ T \ {Pick(T)} \in SUBSET S
         /\ Cardinality(T \ {Pick(T)}) = Cardinality(T) - 1
  BY <1>1, FS_RemoveElement
<1>3. 0 \in G
  <2> DEFINE g == [T \in Upto(0) |-> s]
  <2>1. \A T \in Upto(0) : T = {}
    BY <1>1, FS_EmptySet
  <2>2. Dropping(f, s, Upto(0), g)
    BY <2>1 DEF Dropping
  <2> QED BY <2>2
<1>4. ASSUME NEW n \in Nat, n \in G PROVE n + 1 \in G
  <2>1. PICK g : Dropping(f, s, Upto(n), g)
    BY <1>4
  <2> DEFINE h == [T \in Upto(n + 1) |->
                      IF T = {} THEN s ELSE RemoveFirst(g[T \ {Pick(T)}], f[Pick(T)])]
  <2>2. \A T \in Upto(n) : T \in Upto(n + 1) /\ h[T] = g[T]
    <3> SUFFICES ASSUME NEW T \in SUBSET S, Cardinality(T) <= n
                 PROVE  T \in Upto(n + 1) /\ h[T] = g[T]
      OBVIOUS
    <3>1. T \in Upto(n) /\ T \in Upto(n + 1)
      BY <1>1
    <3>2. g[T] = IF T = {} THEN s ELSE RemoveFirst(g[T \ {Pick(T)}], f[Pick(T)])
      <4> HIDE DEF Upto
      <4> QED BY <2>1, <3>1 DEF Dropping
    <3> QED BY <3>1, <3>2
  <2>3. \A T \in Upto(n + 1) : T # {} => T \ {Pick(T)} \in Upto(n)
    <3> SUFFICES ASSUME NEW T \in Upto(n + 1), T # {} PROVE T \ {Pick(T)} \in Upto(n)
      OBVIOUS
    <3>1. T \in SUBSET S /\ Cardinality(T) <= n + 1 /\ Cardinality(T) \in Nat
      BY <1>1
    <3>2. T \ {Pick(T)} \in SUBSET S /\ Cardinality(T \ {Pick(T)}) = Cardinality(T) - 1
      BY <1>2, <3>1
    <3> HIDE DEF Pick
    <3> QED BY <3>1, <3>2
  <2>4. Dropping(f, s, Upto(n + 1), h)
    <3>1. \A T \in Upto(n + 1) :
             h[T] = IF T = {} THEN s ELSE RemoveFirst(h[T \ {Pick(T)}], f[Pick(T)])
      <4> HIDE DEF Upto, Pick
      <4> QED BY <2>2, <2>3
    <3> QED BY <3>1 DEF Dropping
  <2>5. \E k : Dropping(f, s, Upto(n + 1), k)
    <3> HIDE DEF h, Upto
    <3> QED BY <2>4
  <2>6. n + 1 \in Nat
    OBVIOUS
  <2> HIDE DEF h, Upto
  <2> QED BY <2>5, <2>6, Zenon
<1>5. \A n \in Nat : n \in G
  <2> HIDE DEF G
  <2> QED BY <1>3, <1>4, NatInduct
<1>6. Cardinality(S) \in G
  BY <1>1, <1>5
<1>7. Upto(Cardinality(S)) = SUBSET S
  BY FS_Subset
<1> QED BY <1>6, <1>7

Dropped(s, hashes) == FoldSeq(LAMBDA h, rest : RemoveFirst(rest, h), s, hashes)

LEMMA DroppedKeeps ==
    ASSUME NEW s \in Seq(Hashes), Ascending(s), NEW f \in Seq(Hashes)
    PROVE  /\ Dropped(s, f) \in Seq(Hashes)
           /\ Ascending(Dropped(s, f))
           /\ \A e : Holds(s, e) /\ e \notin ToSet(f) => Holds(Dropped(s, f), e)
<1> DEFINE S == DOMAIN f
           g == CHOOSE g : Dropping(f, s, SUBSET S, g)
           Kept(t) == /\ t \in Seq(Hashes) /\ Ascending(t)
                      /\ \A e : Holds(s, e) /\ e \notin ToSet(f) => Holds(t, e)
           Bad == {T \in SUBSET S : ~Kept(g[T])}
<1>1. IsFiniteSet(S)
  <2>1. S = 1 .. Len(f) /\ Len(f) \in Nat
    OBVIOUS
  <2> QED BY <2>1, FS_Interval
<1>2. Dropping(f, s, SUBSET S, g)
  <2>1. \E h : Dropping(f, s, SUBSET S, h)
    BY <1>1, DroppingExists
  <2> QED BY <2>1
<1>3. Dropped(s, f) = g[S]
  BY DEF Dropped, Dropping, FoldSeq, FoldFunction, FoldFunctionOnSet, MapThenFoldSet
<1> HIDE DEF g
<1>4. Bad = {}
  <2> SUFFICES ASSUME Bad # {} PROVE FALSE
    OBVIOUS
  <2>1. PICK T \in Bad : \A U \in SUBSET T : U # T => U \notin Bad
    <3>1. Bad \in SUBSET SUBSET S
      OBVIOUS
    <3> HIDE DEF Bad
    <3> QED BY <1>1, <3>1, MinimalSet
  <2>2. T \in SUBSET S /\ ~Kept(g[T])
    OBVIOUS
  <2>3. T # {}
    <3> SUFFICES ASSUME T = {} PROVE FALSE
      OBVIOUS
    <3>1. g[T] = s
      BY <1>2, <2>2 DEF Dropping
    <3> QED BY <2>2, <3>1
  <2> DEFINE x == CHOOSE x \in T : TRUE
  <2>4. x \in T /\ g[T] = RemoveFirst(g[T \ {x}], f[x])
    BY <1>2, <2>2, <2>3 DEF Dropping
  <2> HIDE DEF x
  <2>5. Kept(g[T \ {x}])
    <3>1. T \ {x} \in SUBSET S /\ T \ {x} \in SUBSET T /\ T \ {x} # T
      BY <2>2, <2>4
    <3>2. T \ {x} \notin Bad
      BY <2>1, <3>1
    <3> HIDE DEF Kept
    <3> QED BY <3>1, <3>2
  <2>6. f[x] \in ToSet(f)
    BY <2>2, <2>4 DEF ToSet
  <2>7. Kept(RemoveFirst(g[T \ {x}], f[x]))
    BY <2>5, <2>6, RemoveFirstKeeps
  <2> HIDE DEF Kept
  <2> QED BY <2>2, <2>4, <2>7
<1>5. Kept(g[S])
  BY <1>4
<1> QED BY <1>3, <1>5

(* The binary search: the position p, from 0, in l .. r with the hashes    *)
(* below the one sought on its left.                                       *)
Parts(hash, l, r, p) ==
    /\ p \in l .. r
    /\ \A i \in l + 1 .. p : sortedHashes[i] < hash
    /\ \A i \in p + 1 .. r : ~(sortedHashes[i] < hash)

RingSorted == sortedHashes \in Seq(Hashes) /\ Ascending(sortedHashes)

LEMMA PartsOnce ==
    ASSUME NEW hash, NEW l \in Nat, NEW r \in Nat,
           NEW p, Parts(hash, l, r, p), NEW q, Parts(hash, l, r, q)
    PROVE  p = q
<1>1. p \in l .. r /\ q \in l .. r
  BY DEF Parts
<1>2. ASSUME p < q PROVE FALSE
  <2>1. p + 1 \in l + 1 .. q /\ p + 1 \in p + 1 .. r
    BY <1>1, <1>2
  <2> QED BY <2>1 DEF Parts
<1>3. ASSUME q < p PROVE FALSE
  <2>1. q + 1 \in l + 1 .. p /\ q + 1 \in q + 1 .. r
    BY <1>1, <1>3
  <2> QED BY <2>1 DEF Parts
<1> QED BY <1>1, <1>2, <1>3

LEMMA Comparable ==
    ASSUME RingSorted
    PROVE  /\ Len(sortedHashes) \in Nat
           /\ \A i \in 1 .. Len(sortedHashes) : sortedHashes[i] \in Nat
           /\ \A i, j \in 1 .. Len(sortedHashes) :
                 i <= j => sortedHashes[i] <= sortedHashes[j]
<1>1. \A i \in 1 .. Len(sortedHashes) : sortedHashes[i] \in Hashes
  BY DEF RingSorted
<1>2. Hashes \subseteq Nat
  BY BalancerAssumption DEF Hashes
<1>3. Len(sortedHashes) \in Nat
  BY DEF RingSorted
<1> QED BY <1>1, <1>2, <1>3 DEF RingSorted, Ascending

LEMMA PartsRight ==
    ASSUME RingSorted, NEW hash \in Nat,
           NEW l \in 0 .. Len(sortedHashes), NEW r \in 0 .. Len(sortedHashes),
           NEW m \in l .. r - 1, sortedHashes[m + 1] < hash,
           NEW p, Parts(hash, m + 1, r, p)
    PROVE  Parts(hash, l, r, p)
<1> DEFINE n == Len(sortedHashes)
<1>1. n \in Nat /\ \A i \in 1 .. n : sortedHashes[i] \in Nat
  BY Comparable
<1>2. \A i, j \in 1 .. n : i <= j => sortedHashes[i] <= sortedHashes[j]
  BY Comparable
<1>3. l \in 0 .. n /\ r \in 0 .. n
  OBVIOUS
<1> HIDE DEF n
<1>4. p \in m + 1 .. r /\ p \in l .. r
  BY <1>1, <1>3 DEF Parts
<1>5. ASSUME NEW i \in l + 1 .. p PROVE sortedHashes[i] < hash
  <2>1. CASE i \in m + 1 + 1 .. p
    BY <2>1 DEF Parts
  <2>2. CASE i <= m + 1
    <3>1. i \in 1 .. n /\ m + 1 \in 1 .. n
      BY <1>1, <1>3, <1>4, <2>2
    <3>2. sortedHashes[i] <= sortedHashes[m + 1]
      BY <1>2, <2>2, <3>1
    <3>3. sortedHashes[i] \in Nat /\ sortedHashes[m + 1] \in Nat
      BY <1>1, <3>1
    <3> QED BY <3>2, <3>3
  <2> QED BY <1>1, <1>3, <1>4, <2>1, <2>2
<1> QED BY <1>4, <1>5 DEF Parts

LEMMA PartsLeft ==
    ASSUME RingSorted, NEW hash \in Nat,
           NEW l \in 0 .. Len(sortedHashes), NEW r \in 0 .. Len(sortedHashes),
           NEW m \in l .. r - 1, ~(sortedHashes[m + 1] < hash),
           NEW p, Parts(hash, l, m, p)
    PROVE  Parts(hash, l, r, p)
<1> DEFINE n == Len(sortedHashes)
<1>1. n \in Nat /\ \A i \in 1 .. n : sortedHashes[i] \in Nat
  BY Comparable
<1>2. \A i, j \in 1 .. n : i <= j => sortedHashes[i] <= sortedHashes[j]
  BY Comparable
<1>3. l \in 0 .. n /\ r \in 0 .. n
  OBVIOUS
<1> HIDE DEF n
<1>4. p \in l .. m /\ p \in l .. r
  BY <1>1, <1>3 DEF Parts
<1>5. ASSUME NEW i \in p + 1 .. r PROVE ~(sortedHashes[i] < hash)
  <2>1. CASE i \in p + 1 .. m
    BY <2>1 DEF Parts
  <2>2. CASE i > m
    <3>1. i \in 1 .. n /\ m + 1 \in 1 .. n /\ m + 1 <= i
      BY <1>1, <1>3, <1>4, <2>2
    <3>2. sortedHashes[m + 1] <= sortedHashes[i]
      BY <1>2, <3>1
    <3>3. sortedHashes[i] \in Nat /\ sortedHashes[m + 1] \in Nat
      BY <1>1, <3>1
    <3> QED BY <3>2, <3>3
  <2> QED BY <1>1, <1>3, <1>4, <2>1, <2>2
<1> QED BY <1>4, <1>5 DEF Parts

LEMMA PartsExist ==
    ASSUME RingSorted, NEW hash \in Nat,
           NEW l \in 0 .. Len(sortedHashes), NEW r \in l .. Len(sortedHashes)
    PROVE  \E p : Parts(hash, l, r, p)
<1> DEFINE n == Len(sortedHashes)
           Bounds == {i \in l .. r : i = r \/ ~(sortedHashes[i + 1] < hash)}
           p == Min(Bounds)
<1>1. n \in Nat /\ \A i \in 1 .. n : sortedHashes[i] \in Nat
  BY Comparable
<1>2. \A i, j \in 1 .. n : i <= j => sortedHashes[i] <= sortedHashes[j]
  BY Comparable
<1>3. l \in 0 .. n /\ r \in l .. n
  OBVIOUS
<1> HIDE DEF n
<1>4. Bounds \in SUBSET Nat /\ Bounds # {}
  <2>1. r \in Bounds
    BY <1>1, <1>3
  <2>2. l .. r \in SUBSET Nat
    BY <1>1, <1>3
  <2> QED BY <2>1, <2>2
<1>5. p \in Bounds /\ \A i \in Bounds : p <= i
  <2> HIDE DEF Bounds
  <2> QED BY <1>4, LeastNatural
<1>6. p \in l .. r /\ (p = r \/ ~(sortedHashes[p + 1] < hash))
  BY <1>5
<1>7. \A i \in l .. r : i < p => sortedHashes[i + 1] < hash
  BY <1>1, <1>3, <1>5
<1> HIDE DEF p
<1>8. ASSUME NEW i \in l + 1 .. p PROVE sortedHashes[i] < hash
  <2>1. i - 1 \in l .. r /\ i - 1 < p /\ (i - 1) + 1 = i
    BY <1>1, <1>3, <1>6
  <2> QED BY <1>7, <2>1
<1>9. ASSUME NEW i \in p + 1 .. r PROVE ~(sortedHashes[i] < hash)
  <2>1. p # r /\ p + 1 \in 1 .. n /\ i \in 1 .. n /\ p + 1 <= i
    BY <1>1, <1>3, <1>6
  <2>2. sortedHashes[p + 1] <= sortedHashes[i]
    BY <1>2, <2>1
  <2>3. sortedHashes[i] \in Nat /\ sortedHashes[p + 1] \in Nat
    BY <1>1, <2>1
  <2> QED BY <1>6, <2>1, <2>2, <2>3
<1> QED BY <1>6, <1>8, <1>9 DEF Parts

Searches(hash, search) ==
    search = [range \in (0 .. Len(sortedHashes)) \X (0 .. Len(sortedHashes)) |->
                LET left  == range[1]
                    right == range[2]
                    mid   == (left + right) \div 2
                IN  IF left >= right THEN left
                    ELSE IF sortedHashes[mid + 1] < hash
                         THEN search[<<mid + 1, right>>]
                         ELSE search[<<left, mid>>]]

LEMMA Middle ==
    ASSUME NEW l \in Nat, NEW r \in Nat, l < r
    PROVE  (l + r) \div 2 \in l .. r - 1
OBVIOUS

LEMMA SearchExists ==
    ASSUME RingSorted, NEW hash \in Nat
    PROVE  \E search : Searches(hash, search)
<1> DEFINE n == Len(sortedHashes)
           N == 0 .. n
           part(l, r) == CHOOSE p : Parts(hash, l, r, p)
           g == [range \in N \X N |->
                    IF range[1] >= range[2] THEN range[1] ELSE part(range[1], range[2])]
<1>1. n \in Nat
  BY Comparable
<1>2. \A l, r \in N : g[<<l, r>>] = IF l >= r THEN l ELSE part(l, r)
  <2> HIDE DEF N, part
  <2> QED OBVIOUS
<1>3. ASSUME NEW l \in N, NEW r \in N, l <= r PROVE Parts(hash, l, r, g[<<l, r>>])
  <2>1. \E p : Parts(hash, l, r, p)
    BY <1>1, <1>3, PartsExist
  <2>2. Parts(hash, l, r, part(l, r))
    BY <2>1
  <2>3. CASE l < r
    <3>1. g[<<l, r>>] = part(l, r)
      BY <1>1, <1>2, <2>3
    <3> HIDE DEF g, part
    <3> QED BY <2>2, <3>1
  <2>4. CASE l = r
    <3>1. g[<<l, r>>] = l
      BY <1>1, <1>2, <2>4
    <3>2. part(l, r) \in l .. r
      BY <2>2 DEF Parts
    <3> HIDE DEF g, part
    <3>3. part(l, r) = l
      BY <1>1, <2>4, <3>2
    <3> QED BY <2>2, <3>1, <3>3
  <2> QED BY <1>1, <1>3, <2>3, <2>4
<1> HIDE DEF g, part
<1>4. ASSUME NEW l \in N, NEW r \in N, NEW m, m = (l + r) \div 2
      PROVE  g[<<l, r>>] = IF l >= r THEN l
                           ELSE IF sortedHashes[m + 1] < hash THEN g[<<m + 1, r>>]
                           ELSE g[<<l, m>>]
  <2>1. CASE l >= r
    BY <1>2, <2>1
  <2>2. CASE l < r
    <3>1. m \in l .. r - 1 /\ l \in Nat /\ r \in Nat
      BY <1>1, <1>4, <2>2, Middle
    <3>2. Parts(hash, l, r, g[<<l, r>>])
      BY <1>1, <1>3, <2>2
    <3>3. CASE sortedHashes[m + 1] < hash
      <4>1. m + 1 \in N /\ m + 1 <= r
        BY <1>1, <3>1
      <4>2. Parts(hash, m + 1, r, g[<<m + 1, r>>])
        BY <1>3, <4>1
      <4>3. Parts(hash, l, r, g[<<m + 1, r>>])
        BY <3>1, <3>3, <4>2, PartsRight
      <4>4. g[<<l, r>>] = g[<<m + 1, r>>]
        BY <3>1, <3>2, <4>3, PartsOnce
      <4>5. ~(l >= r)
        BY <1>1, <2>2
      <4> QED BY <3>3, <4>4, <4>5
    <3>4. CASE ~(sortedHashes[m + 1] < hash)
      <4>1. m \in N /\ l <= m
        BY <1>1, <3>1
      <4>2. Parts(hash, l, m, g[<<l, m>>])
        BY <1>3, <4>1
      <4>3. Parts(hash, l, r, g[<<l, m>>])
        BY <3>1, <3>4, <4>2, PartsLeft
      <4>4. g[<<l, r>>] = g[<<l, m>>]
        BY <3>1, <3>2, <4>3, PartsOnce
      <4>5. ~(l >= r)
        BY <1>1, <2>2
      <4> QED BY <3>4, <4>4, <4>5
    <3> QED BY <3>3, <3>4
  <2> QED BY <1>1, <2>1, <2>2
<1>5. Searches(hash, g)
  <2>1. g = [range \in N \X N |-> g[range]]
    BY DEF g
  <2>2. ASSUME NEW range \in N \X N
        PROVE g[range] =
                LET left  == range[1]
                    right == range[2]
                    mid   == (left + right) \div 2
                IN  IF left >= right THEN left
                    ELSE IF sortedHashes[mid + 1] < hash
                         THEN g[<<mid + 1, right>>]
                         ELSE g[<<left, mid>>]
    <3>1. PICK l \in N, r \in N : range = <<l, r>>
      OBVIOUS
    <3> HIDE DEF N
    <3> QED BY <1>4, <3>1
  <2> HIDE DEF g
  <2> QED BY <2>1, <2>2 DEF Searches
<1> QED BY <1>5

LEMMA SearchIsRight ==
    ASSUME RingSorted, NEW hash \in Nat
    PROVE  Parts(hash, 0, Len(sortedHashes), BinarySearch(hash))
<1> DEFINE n == Len(sortedHashes)
           N == 0 .. n
           search == CHOOSE search : Searches(hash, search)
           Narrow(m) == \A l, r \in N :
                           l <= r /\ r - l <= m => Parts(hash, l, r, search[<<l, r>>])
           G == {m \in Nat : Narrow(m)}
<1>1. n \in Nat
  BY Comparable
<1>2. Searches(hash, search)
  BY SearchExists
<1>3. BinarySearch(hash) = search[<<0, n>>]
  BY DEF BinarySearch, Searches
<1> HIDE DEF search
<1>4. ASSUME NEW l \in N, NEW r \in N, NEW m, m = (l + r) \div 2
      PROVE  search[<<l, r>>] = IF l >= r THEN l
                                ELSE IF sortedHashes[m + 1] < hash
                                     THEN search[<<m + 1, r>>] ELSE search[<<l, m>>]
  BY <1>2, <1>4 DEF Searches
<1>5. ASSUME NEW l \in N, NEW r \in N, l = r PROVE Parts(hash, l, r, search[<<l, r>>])
  <2>1. l \in Nat /\ l >= r
    BY <1>1, <1>5
  <2>2. search[<<l, r>>] = l
    <3> DEFINE m == (l + r) \div 2
    <3>1. m = (l + r) \div 2
      OBVIOUS
    <3> HIDE DEF m
    <3> QED BY <1>4, <2>1, <3>1
  <2> QED BY <1>1, <1>5, <2>1, <2>2 DEF Parts
<1>6. Narrow(0)
  <2> SUFFICES ASSUME NEW l \in N, NEW r \in N, l <= r, r - l <= 0
               PROVE  Parts(hash, l, r, search[<<l, r>>])
    OBVIOUS
  <2>1. l = r
    BY <1>1
  <2> QED BY <1>5, <2>1
<1>7. ASSUME NEW k \in Nat, Narrow(k) PROVE Narrow(k + 1)
  <2> SUFFICES ASSUME NEW l \in N, NEW r \in N, l <= r, r - l <= k + 1
               PROVE  Parts(hash, l, r, search[<<l, r>>])
    OBVIOUS
  <2>1. CASE l = r
    BY <1>5, <2>1
  <2>2. CASE l < r
    <3> DEFINE m == (l + r) \div 2
    <3>1. m \in l .. r - 1 /\ l \in Nat /\ r \in Nat
      BY <1>1, <2>2, Middle
    <3>2. search[<<l, r>>] = IF l >= r THEN l
                             ELSE IF sortedHashes[m + 1] < hash
                                  THEN search[<<m + 1, r>>] ELSE search[<<l, m>>]
      BY <1>4
    <3> HIDE DEF m
    <3>3. CASE sortedHashes[m + 1] < hash
      <4>1. m + 1 \in N /\ m + 1 <= r /\ r - (m + 1) <= k
        BY <1>1, <3>1
      <4>2. Parts(hash, m + 1, r, search[<<m + 1, r>>])
        BY <1>7, <4>1
      <4>3. Parts(hash, l, r, search[<<m + 1, r>>])
        BY <3>1, <3>3, <4>2, PartsRight
      <4>4. search[<<l, r>>] = search[<<m + 1, r>>]
        BY <1>1, <2>2, <3>2, <3>3
      <4> QED BY <4>3, <4>4
    <3>4. CASE ~(sortedHashes[m + 1] < hash)
      <4>1. m \in N /\ l <= m /\ m - l <= k
        BY <1>1, <3>1
      <4>2. Parts(hash, l, m, search[<<l, m>>])
        BY <1>7, <4>1
      <4>3. Parts(hash, l, r, search[<<l, m>>])
        BY <3>1, <3>4, <4>2, PartsLeft
      <4>4. search[<<l, r>>] = search[<<l, m>>]
        BY <1>1, <2>2, <3>2, <3>4
      <4> QED BY <4>3, <4>4
    <3> QED BY <3>3, <3>4
  <2> QED BY <1>1, <2>1, <2>2
<1>8. \A m \in Nat : m \in G
  <2>1. 0 \in G
    BY <1>6
  <2>2. \A m \in Nat : m \in G => m + 1 \in G
    <3> HIDE DEF Narrow
    <3> QED BY <1>7
  <2> HIDE DEF G
  <2> QED BY <2>1, <2>2, NatInduct
<1>9. Narrow(n)
  <2>1. n \in G
    BY <1>1, <1>8
  <2> HIDE DEF Narrow
  <2> QED BY <2>1
<1> QED BY <1>1, <1>3, <1>9

(* One step of the walk from the position q, around the ring.              *)
LEMMA WalkTurns ==
    ASSUME NEW n \in Nat \ {0}, NEW q \in 0 .. n, NEW i \in 0 .. n - 1
    PROVE  (q + i) % n = IF i < n - q THEN q + i ELSE q + i - n
<1>1. CASE i < n - q
  <2>1. q + i \in 0 .. n - 1 /\ q + i \in Nat /\ q + i = n * 0 + (q + i) /\ 0 \in Nat
    BY <1>1
  <2> DEFINE a == q + i
  <2> HIDE DEF a
  <2>2. a % n = a
    BY <2>1, DivisionIs DEF a
  <2> QED BY <1>1, <2>2 DEF a
<1>2. CASE ~(i < n - q)
  <2>1. q + i - n \in 0 .. n - 1 /\ q + i \in Nat /\ q + i = n * 1 + (q + i - n) /\ 1 \in Nat
    BY <1>2
  <2> DEFINE a == q + i
             r == q + i - n
  <2> HIDE DEF a, r
  <2>2. a % n = r
    BY <2>1, DivisionIs DEF a, r
  <2> QED BY <1>2, <2>2 DEF a, r
<1> QED BY <1>1, <1>2

RingTypeOK ==
    /\ hashRing \in [Hashes -> 0 .. NBalanced]
    /\ sortedHashes \in Seq(Hashes)
    /\ members \in SUBSET Balanced

(* The map has a virtual node for its worker just when the worker is a     *)
(* member, and the sorted hashes hold all nodes of the members; they may   *)
(* hold others.                                                            *)
RingSound ==
    /\ Ascending(sortedHashes)
    /\ \A h \in Hashes, w \in Balanced :
          hashRing[h] = w <=> w \in members /\ h \in ToSet(HashesOf[w])
    /\ \A w \in members : \A h \in ToSet(HashesOf[w]) : Holds(sortedHashes, h)

LEMMA NodesAreHashes ==
    /\ Hashes \subseteq Nat
    /\ NoWorker \notin Balanced
    /\ \A w \in Balanced : HashesOf[w] \in Seq(Hashes) /\ ToSet(HashesOf[w]) \subseteq Hashes
    /\ \A v, w \in Balanced : v # w => ToSet(HashesOf[v]) \cap ToSet(HashesOf[w]) = {}
<1>1. Hashes \subseteq Nat /\ NoWorker \notin Balanced
  BY BalancerAssumption DEF Hashes, Balanced, NoWorker
<1>2. \A w \in Balanced : HashesOf[w] \in Seq(Hashes)
  BY BalancerAssumption DEF Hashes
<1>3. \A w \in Balanced : ToSet(HashesOf[w]) \subseteq Hashes
  BY <1>2 DEF ToSet
<1>4. \A v, w \in Balanced : v # w => ToSet(HashesOf[v]) \cap ToSet(HashesOf[w]) = {}
  BY BalancerAssumption
<1> QED BY <1>1, <1>2, <1>3, <1>4

OwnerOf(h) == CHOOSE w \in members : h \in ToSet(HashesOf[w])

(* The worker at an entry of the sorted hashes runs just when the entry is *)
(* a virtual node of a running member, and it is the worker of that node.  *)
LEMMA EntryOfMember ==
    ASSUME RingTypeOK, RingSound, NEW running \in SUBSET Balanced,
           NEW j \in 1 .. Len(sortedHashes),
           NEW nodes, nodes = UNION {ToSet(HashesOf[w]) : w \in running \cap members}
    PROVE  /\ hashRing[sortedHashes[j]] \in running <=> sortedHashes[j] \in nodes
           /\ hashRing[sortedHashes[j]] \in running =>
                 hashRing[sortedHashes[j]] = OwnerOf(sortedHashes[j])
<1> DEFINE h == sortedHashes[j]
           Node(w) == ToSet(HashesOf[w])
<1>1. h \in Hashes
  BY DEF RingTypeOK
<1>2. \A w \in Balanced : hashRing[h] = w <=> w \in members /\ h \in Node(w)
  BY <1>1 DEF RingSound
<1>3. members \in SUBSET Balanced /\ running \in SUBSET Balanced
  BY DEF RingTypeOK
<1>4. \A v, w \in Balanced : h \in Node(v) /\ h \in Node(w) => v = w
  BY NodesAreHashes
<1>5. h \in nodes <=> \E w \in running \cap members : h \in Node(w)
  OBVIOUS
<1> HIDE DEF h, Node
<1>6. hashRing[h] \in running <=> h \in nodes
  BY <1>2, <1>3, <1>5
<1>7. ASSUME hashRing[h] \in running
      PROVE  hashRing[h] = CHOOSE w \in members : h \in Node(w)
  <2>1. hashRing[h] \in members /\ h \in Node(hashRing[h])
    BY <1>2, <1>3, <1>7
  <2> DEFINE v == CHOOSE w \in members : h \in Node(w)
  <2>2. v \in members /\ h \in Node(v)
    BY <2>1
  <2> HIDE DEF v
  <2>3. v = hashRing[h]
    BY <1>3, <1>4, <2>1, <2>2
  <2> QED BY <2>3 DEF v
<1> QED BY <1>6, <1>7 DEF h, Node, OwnerOf

LEMMA RingPickIsRight == RingTypeOK /\ RingSound => SuccessorOnRing
<1> SUFFICES ASSUME RingTypeOK, RingSound,
                    NEW running \in SUBSET Balanced, NEW hash \in 0 .. LastHash
             PROVE  LET nodes == UNION {ToSet(HashesOf[w]) : w \in running \cap members}
                        next  == {h \in nodes : h >= hash}
                        first == IF next # {} THEN Min(next) ELSE Min(nodes)
                    IN  RingPick(running, hash) =
                            IF nodes = {} THEN NoWorker
                            ELSE CHOOSE w \in members : first \in ToSet(HashesOf[w])
  BY DEF SuccessorOnRing
<1> DEFINE nodes == UNION {ToSet(HashesOf[w]) : w \in running \cap members}
           next  == {h \in nodes : h >= hash}
           first == IF next # {} THEN Min(next) ELSE Min(nodes)
           n == Len(sortedHashes)
           q == BinarySearch(hash)
           place(i) == ((q + i) % n) + 1
           at(i) == hashRing[sortedHashes[place(i)]]
           usable == {i \in 0 .. n - 1 : at(i) \in running}
           k == Min(usable)
<1>1. RingSorted /\ hash \in Nat
  BY BalancerAssumption DEF RingTypeOK, RingSound, RingSorted
<1>2. /\ n \in Nat
      /\ \A j \in 1 .. n : sortedHashes[j] \in Nat
      /\ \A i, j \in 1 .. n : i <= j => sortedHashes[i] <= sortedHashes[j]
  BY <1>1, Comparable
<1>3. Parts(hash, 0, n, q)
  BY <1>1, SearchIsRight
<1>4. RingPick(running, hash) = IF usable = {} THEN NoWorker ELSE at(k)
  BY DEF RingPick
<1> HIDE DEF q, n
<1>5. /\ q \in 0 .. n
      /\ \A j \in 1 .. q : sortedHashes[j] < hash
      /\ \A j \in q + 1 .. n : ~(sortedHashes[j] < hash)
  BY <1>3 DEF Parts
<1>6. \A j \in 1 .. n :
         /\ hashRing[sortedHashes[j]] \in running <=> sortedHashes[j] \in nodes
         /\ hashRing[sortedHashes[j]] \in running =>
               hashRing[sortedHashes[j]] = OwnerOf(sortedHashes[j])
  <2> SUFFICES ASSUME NEW j \in 1 .. n
               PROVE  /\ hashRing[sortedHashes[j]] \in running <=> sortedHashes[j] \in nodes
                      /\ hashRing[sortedHashes[j]] \in running =>
                            hashRing[sortedHashes[j]] = OwnerOf(sortedHashes[j])
    OBVIOUS
  <2>1. j \in 1 .. Len(sortedHashes)
    BY DEF n
  <2>2. nodes = UNION {ToSet(HashesOf[w]) : w \in running \cap members}
    OBVIOUS
  <2> HIDE DEF nodes
  <2> QED BY <2>1, <2>2, EntryOfMember
<1>7. \A h \in nodes : h \in Nat /\ \E j \in 1 .. n : sortedHashes[j] = h
  <2> SUFFICES ASSUME NEW w \in running \cap members, NEW h \in ToSet(HashesOf[w])
               PROVE  h \in Nat /\ \E j \in 1 .. n : sortedHashes[j] = h
    OBVIOUS
  <2>1. Holds(sortedHashes, h)
    BY DEF RingSound
  <2>2. h \in Nat
    BY NodesAreHashes
  <2> QED BY <2>1, <2>2 DEF Holds, n
<1> HIDE DEF nodes
<1>8. \A i \in 0 .. n - 1 : place(i) = IF i < n - q THEN q + i + 1 ELSE q + i - n + 1
  <2> SUFFICES ASSUME NEW i \in 0 .. n - 1
               PROVE  place(i) = IF i < n - q THEN q + i + 1 ELSE q + i - n + 1
    OBVIOUS
  <2>1. n \in Nat \ {0}
    BY <1>2
  <2>2. (q + i) % n = IF i < n - q THEN q + i ELSE q + i - n
    BY <1>5, <2>1, WalkTurns
  <2> QED BY <2>2
<1> HIDE DEF place
<1>9. \A i \in 0 .. n - 1 : place(i) \in 1 .. n
  BY <1>2, <1>5, <1>8
<1>10. \A i \in 0 .. n - 1 : i \in usable <=> sortedHashes[place(i)] \in nodes
  BY <1>6, <1>9
<1>11. CASE nodes = {}
  <2>1. usable = {}
    BY <1>10, <1>11
  <2> HIDE DEF usable
  <2> QED BY <1>4, <1>11, <2>1 DEF nodes
<1>12. CASE nodes # {}
  <2> DEFINE step(j) == IF j > q THEN j - 1 - q ELSE j - 1 + n - q
  <2>1. ASSUME NEW j \in 1 .. n
        PROVE  step(j) \in 0 .. n - 1 /\ place(step(j)) = j
    <3>1. step(j) \in 0 .. n - 1
      BY <1>2, <1>5
    <3>2. CASE j > q
      <4>1. step(j) < n - q /\ q + step(j) + 1 = j
        BY <1>2, <1>5, <3>2
      <4> HIDE DEF step
      <4> QED BY <1>8, <3>1, <4>1
    <3>3. CASE ~(j > q)
      <4>1. ~(step(j) < n - q) /\ q + step(j) - n + 1 = j
        BY <1>2, <1>5, <3>3
      <4> HIDE DEF step
      <4> QED BY <1>8, <3>1, <4>1
    <3> QED BY <3>1, <3>2, <3>3
  <2>2. first \in nodes /\ \A h \in nodes : (next # {} => h >= hash) => first <= h
    <3>1. nodes \in SUBSET Nat /\ next \in SUBSET Nat
      BY <1>7
    <3>2. CASE next # {}
      <4>1. first = Min(next)
        BY <3>2
      <4>2. Min(next) \in next /\ \A h \in next : Min(next) <= h
        <5> HIDE DEF next
        <5> QED BY <3>1, <3>2, LeastNatural
      <4> HIDE DEF first
      <4> QED BY <3>2, <4>1, <4>2
    <3>3. CASE next = {}
      <4>1. first = Min(nodes)
        BY <3>3
      <4>2. Min(nodes) \in nodes /\ \A h \in nodes : Min(nodes) <= h
        BY <1>12, <3>1, LeastNatural
      <4> HIDE DEF first, next
      <4> QED BY <4>1, <4>2
    <3> QED BY <3>2, <3>3
  <2>3. next # {} => first >= hash
    <3> SUFFICES ASSUME next # {} PROVE first >= hash
      OBVIOUS
    <3>1. next \in SUBSET Nat
      BY <1>7
    <3>2. Min(next) \in next
      <4> HIDE DEF next
      <4> QED BY <3>1, LeastNatural
    <3>3. first = Min(next)
      OBVIOUS
    <3> HIDE DEF first
    <3> QED BY <3>2, <3>3
  <2>4. next = {} => \A h \in nodes : h < hash
    BY <1>1, <1>7
  <2> HIDE DEF first, next, step
  <2>5. PICK j \in 1 .. n : sortedHashes[j] = first
    BY <1>7, <2>2
  <2>6. step(j) \in usable
    BY <1>10, <2>1, <2>2, <2>5
  <2>7. k \in usable /\ \A i \in usable : k <= i
    <3>1. usable \in SUBSET Nat /\ usable # {}
      BY <1>2, <2>6
    <3> HIDE DEF usable
    <3> QED BY <3>1, LeastNatural
  <2>8. k \in 0 .. n - 1 /\ k <= step(j)
    BY <2>6, <2>7
  <2>9. sortedHashes[place(k)] \in nodes
    BY <1>10, <2>7, <2>8
  <2>10. place(k) \in 1 .. n /\ at(k) = OwnerOf(sortedHashes[place(k)])
    BY <1>6, <1>9, <2>7, <2>8
  <2>11. at(k) = hashRing[sortedHashes[place(k)]]
    OBVIOUS
  <2>12. usable # {}
    BY <2>6
  <2> HIDE DEF usable, k, at
  <2>13. sortedHashes[place(k)] = first
    <3> DEFINE f == sortedHashes[place(k)]
               p == place(k)
    <3>1. f \in Nat /\ first \in Nat
      BY <1>7, <2>2, <2>9
    <3>2. p = IF k < n - q THEN q + k + 1 ELSE q + k - n + 1
      BY <1>8, <2>8
    <3>3. p \in 1 .. n /\ f = sortedHashes[p]
      BY <2>10
    <3> HIDE DEF f, p
    <3>4. CASE next # {}
      <4>1. j > q
        <5>1. ~(sortedHashes[j] < hash)
          BY <1>1, <2>3, <2>5, <3>1, <3>4
        <5> QED BY <1>2, <1>5, <5>1
      <4>2. k < n - q /\ p <= j /\ p \in q + 1 .. n
        BY <1>2, <1>5, <2>8, <3>2, <4>1 DEF step
      <4>3. f <= first
        BY <1>2, <2>5, <3>3, <4>2
      <4>4. f >= hash
        BY <1>1, <1>5, <3>1, <3>3, <4>2
      <4>5. first <= f
        BY <2>2, <2>9, <4>4 DEF f
      <4> QED BY <3>1, <4>3, <4>5 DEF f
    <3>5. CASE next = {}
      <4>1. first < hash /\ f < hash
        BY <2>2, <2>4, <2>9, <3>5 DEF f
      <4>2. j <= q /\ p <= q
        BY <1>2, <1>5, <2>5, <3>3, <4>1
      <4>3. ~(k < n - q) /\ p <= j
        BY <1>2, <1>5, <2>8, <3>2, <4>2 DEF step
      <4>4. f <= first
        BY <1>2, <2>5, <3>3, <4>3
      <4>5. first <= f
        BY <2>2, <2>9, <3>5 DEF f
      <4> QED BY <3>1, <4>4, <4>5 DEF f
    <3> QED BY <3>4, <3>5
  <2>14. RingPick(running, hash) = OwnerOf(first)
    BY <1>4, <2>10, <2>12, <2>13
  <2> QED BY <1>12, <2>14 DEF OwnerOf, nodes, first, next
<1> QED BY <1>11, <1>12

LEMMA AddWorkerKeeps ==
    ASSUME RingTypeOK, RingSound, NEW w \in Balanced, AddWorker(w)
    PROVE  RingTypeOK' /\ RingSound'
<1> DEFINE Node(v) == ToSet(HashesOf[v])
           s == sortedHashes \o HashesOf[w]
<1>1. /\ hashRing' = [h \in Hashes |-> IF h \in Node(w) THEN w ELSE hashRing[h]]
      /\ sortedHashes' = Sorted(s) /\ members' = members \cup {w}
  BY DEF AddWorker, Hashes
<1>2. sortedHashes \in Seq(Hashes) /\ HashesOf[w] \in Seq(Hashes) /\ members \in SUBSET Balanced
  BY NodesAreHashes DEF RingTypeOK
<1>3. s \in Seq(Hashes)
  BY <1>2
<1>4. /\ Sorted(s) \in Seq(Hashes) /\ Ascending(Sorted(s))
      /\ \A h : Holds(s, h) => Holds(Sorted(s), h)
  <2> HIDE DEF s
  <2> QED BY <1>3, SortedAscends
<1>5. RingTypeOK'
  <2>1. w \in 0 .. NBalanced /\ \A h \in Hashes : hashRing[h] \in 0 .. NBalanced
    BY BalancerAssumption DEF RingTypeOK, Balanced
  <2>2. hashRing' \in [Hashes -> 0 .. NBalanced]
    <3> HIDE DEF Node
    <3> QED BY <1>1, <2>1
  <2> QED BY <1>1, <1>2, <1>4, <2>2 DEF RingTypeOK
<1>6. ASSUME NEW h \in Hashes, NEW v \in Balanced
      PROVE  hashRing'[h] = v <=> v \in members' /\ h \in Node(v)
  <2>1. \A u \in Balanced : hashRing[h] = u <=> u \in members /\ h \in Node(u)
    BY DEF RingSound
  <2>2. hashRing'[h] = IF h \in Node(w) THEN w ELSE hashRing[h]
    BY <1>1
  <2>3. h \in Node(v) /\ h \in Node(w) => v = w
    BY NodesAreHashes
  <2> HIDE DEF Node
  <2> QED BY <1>1, <2>1, <2>2, <2>3
<1>7. ASSUME NEW v \in members', NEW h \in Node(v) PROVE Holds(sortedHashes', h)
  <2>1. CASE v = w
    <3>1. PICK i \in 1 .. Len(HashesOf[w]) : HashesOf[w][i] = h
      BY <1>2, <2>1 DEF ToSet
    <3>2. /\ Len(sortedHashes) + i \in 1 .. Len(s)
          /\ s[Len(sortedHashes) + i] = h
      BY <1>2, <3>1
    <3>3. Holds(s, h)
      BY <3>2 DEF Holds
    <3> QED BY <1>1, <1>4, <3>3
  <2>2. CASE v # w
    <3>1. Holds(sortedHashes, h)
      BY <1>1, <2>2 DEF RingSound
    <3>2. PICK i \in 1 .. Len(sortedHashes) : sortedHashes[i] = h
      BY <3>1 DEF Holds
    <3>3. i \in 1 .. Len(s) /\ s[i] = h
      BY <1>2, <3>2
    <3>4. Holds(s, h)
      BY <3>3 DEF Holds
    <3> QED BY <1>1, <1>4, <3>4
  <2> QED BY <2>1, <2>2
<1>8. Ascending(sortedHashes)'
  BY <1>1, <1>4 DEF Ascending
<1>9. \A v \in members' : \A h \in Node(v) : Holds(sortedHashes, h)'
  BY <1>7 DEF Holds
<1> QED BY <1>5, <1>6, <1>8, <1>9 DEF RingSound

LEMMA RemoveWorkerKeeps ==
    ASSUME RingTypeOK, RingSound, NEW w \in Balanced, RemoveWorker(w)
    PROVE  RingTypeOK' /\ RingSound'
<1> DEFINE Node(v) == ToSet(HashesOf[v])
           s == Dropped(sortedHashes, HashesOf[w])
<1>1. /\ hashRing' = [h \in Hashes |-> IF h \in Node(w) THEN NoWorker ELSE hashRing[h]]
      /\ sortedHashes' = s /\ members' = members \ {w}
  BY DEF RemoveWorker, Forget, Dropped, Hashes
<1>2. sortedHashes \in Seq(Hashes) /\ HashesOf[w] \in Seq(Hashes) /\ members \in SUBSET Balanced
  BY NodesAreHashes DEF RingTypeOK
<1>3. /\ s \in Seq(Hashes) /\ Ascending(s)
      /\ \A h : Holds(sortedHashes, h) /\ h \notin Node(w) => Holds(s, h)
  BY <1>2, DroppedKeeps DEF RingSound
<1> HIDE DEF s
<1>4. RingTypeOK'
  <2>1. NoWorker \in 0 .. NBalanced /\ \A h \in Hashes : hashRing[h] \in 0 .. NBalanced
    BY BalancerAssumption DEF RingTypeOK, NoWorker
  <2>2. hashRing' \in [Hashes -> 0 .. NBalanced]
    <3> HIDE DEF Node
    <3> QED BY <1>1, <2>1
  <2> QED BY <1>1, <1>2, <1>3, <2>2 DEF RingTypeOK
<1>5. ASSUME NEW h \in Hashes, NEW v \in Balanced
      PROVE  hashRing'[h] = v <=> v \in members' /\ h \in Node(v)
  <2>1. \A u \in Balanced : hashRing[h] = u <=> u \in members /\ h \in Node(u)
    BY DEF RingSound
  <2>2. hashRing'[h] = IF h \in Node(w) THEN NoWorker ELSE hashRing[h]
    BY <1>1
  <2>3. (h \in Node(v) /\ h \in Node(w) => v = w) /\ v # NoWorker
    BY NodesAreHashes
  <2> HIDE DEF Node
  <2> QED BY <1>1, <2>1, <2>2, <2>3
<1>6. ASSUME NEW v \in members', NEW h \in Node(v) PROVE Holds(sortedHashes', h)
  <2>1. v \in members /\ v # w /\ v \in Balanced
    BY <1>1, <1>2
  <2>2. Holds(sortedHashes, h)
    BY <2>1 DEF RingSound
  <2>3. h \notin Node(w)
    BY <2>1, NodesAreHashes
  <2> HIDE DEF Node
  <2> QED BY <1>1, <1>3, <2>2, <2>3
<1>7. Ascending(sortedHashes)'
  BY <1>1, <1>3 DEF Ascending
<1>8. \A v \in members' : \A h \in Node(v) : Holds(sortedHashes, h)'
  BY <1>6 DEF Holds
<1> QED BY <1>4, <1>5, <1>7, <1>8 DEF RingSound
-----------------------------------------------------------------------------
(* The inductive invariant: the types; the turns since the set of running  *)
(* workers changed; the ring.                                              *)
BalancerInv ==
    /\ TurnsTypeOK /\ TurnInv
    /\ RingTypeOK /\ RingSound

LEMMA BalancerStarts == BalancerInit => BalancerInv
<1> SUFFICES ASSUME BalancerInit PROVE BalancerInv
  OBVIOUS
<1>1. TurnsTypeOK
  BY DEF BalancerInit, TurnsTypeOK
<1>2. TurnInv
  BY <1>1, FreshTurns DEF BalancerInit
<1>3. hashRing = [h \in Hashes |-> NoWorker] /\ sortedHashes = <<>> /\ members = {}
  BY DEF BalancerInit, Hashes
<1>4. RingTypeOK
  BY <1>3, BalancerAssumption DEF RingTypeOK, NoWorker
<1>5. RingSound
  <2>1. Ascending(sortedHashes)
    BY <1>3 DEF Ascending
  <2>2. \A h \in Hashes, w \in Balanced : hashRing[h] # w /\ w \notin members
    BY <1>3, NodesAreHashes
  <2> QED BY <1>3, <2>1, <2>2 DEF RingSound
<1> QED BY <1>1, <1>2, <1>4, <1>5 DEF BalancerInv

(* What the parts of the invariant are about: the actions of the other     *)
(* balancers leave it alone.                                               *)
LEMMA TurnsUnchanged ==
    TurnsTypeOK /\ TurnInv /\ UNCHANGED <<kind, turnVars>> => TurnsTypeOK' /\ TurnInv'
<1> SUFFICES ASSUME TurnsTypeOK, TurnInv, UNCHANGED <<kind, alive, counter, turns>>
             PROVE  TurnsTypeOK' /\ TurnInv'
  BY DEF turnVars
<1>1. TurnsTypeOK'
  BY DEF TurnsTypeOK
<1>2. Start' = Start /\ RunningWorkers' = RunningWorkers
  BY DEF Start, RunningWorkers
<1>3. ByWeight' = ByWeight
  BY <1>2 DEF ByWeight, WeightsApply
<1>4. Cycle' = Cycle
  BY <1>3 DEF Cycle
<1>5. \A i : Cut(i)' = Cut(i)
  BY <1>3 DEF Cut
<1>6. \A i : Fallen(i, counter)' = Fallen(i, counter) /\ Fallen(i, Start)' = Fallen(i, Start)
  BY <1>2, <1>4, <1>5 DEF Fallen
<1> QED BY <1>1, <1>2, <1>6 DEF TurnInv

LEMMA RingUnchanged ==
    RingTypeOK /\ RingSound /\ UNCHANGED ringVars => RingTypeOK' /\ RingSound'
BY DEF RingTypeOK, RingSound, ringVars, Ascending, Holds

LEMMA BalancerStep == BalancerInv /\ [BalancerNext]_balancerVars => BalancerInv'
<1> SUFFICES ASSUME BalancerInv, [BalancerNext]_balancerVars PROVE BalancerInv'
  OBVIOUS
<1>1. /\ TurnsTypeOK /\ TurnInv /\ RingTypeOK /\ RingSound
  BY DEF BalancerInv
<1>2. CASE TakeTurn
  <2>1. UNCHANGED ringVars
    BY <1>2 DEF TakeTurn
  <2> QED BY <1>1, <1>2, <2>1, TakeTurnKeeps, RingUnchanged DEF BalancerInv
<1>3. ASSUME NEW w \in Balanced, WorkerChanges(w) PROVE BalancerInv'
  <2>1. UNCHANGED ringVars
    BY <1>3 DEF WorkerChanges
  <2>2. /\ kind' = kind /\ counter' = counter /\ alive' \subseteq Balanced
        /\ turns' = [v \in Balanced |-> 0]
    BY <1>1, <1>3 DEF WorkerChanges, TurnsTypeOK
  <2>3. TurnsTypeOK'
    BY <1>1, <2>2 DEF TurnsTypeOK
  <2>4. (TurnsTypeOK /\ turns = [v \in Balanced |-> 0] => TurnInv)'
    BY FreshTurns, PTL
  <2> QED BY <1>1, <2>1, <2>2, <2>3, <2>4, RingUnchanged DEF BalancerInv
<1>4. ASSUME NEW w \in Balanced, AddWorker(w) \/ RemoveWorker(w) PROVE BalancerInv'
  <2>1. UNCHANGED <<kind, turnVars>>
    BY <1>4 DEF AddWorker, RemoveWorker
  <2> QED BY <1>1, <1>4, <2>1, AddWorkerKeeps, RemoveWorkerKeeps, TurnsUnchanged
          DEF BalancerInv
<1>5. CASE UNCHANGED balancerVars
  <2>1. UNCHANGED <<kind, turnVars>> /\ UNCHANGED ringVars
    BY <1>5 DEF balancerVars
  <2> QED BY <1>1, <2>1, TurnsUnchanged, RingUnchanged DEF BalancerInv
<1> QED BY <1>2, <1>3, <1>4, <1>5 DEF BalancerNext

(* The state of every balancer is sound: each running worker has had the   *)
(* turns that fell into its share since the workers last changed; the map  *)
(* of the ring names the members and the sorted hashes hold their nodes.   *)
THEOREM BalancersAreSound == BalancerSpec => []BalancerInv
<1> QED BY BalancerStarts, BalancerStep, PTL DEF BalancerSpec

(* For any number of workers, any weights and any stops and starts of      *)
(* workers: after whole cycles of picks each running worker has had its    *)
(* share of each cycle, one turn or its weight (load_balancer.go:28-51,    *)
(* 137-199).                                                               *)
THEOREM TurnsSharedAlways == BalancerSpec => []TurnsAreShared
<1>1. BalancerInv => TurnsAreShared
  BY SharesAreTaken DEF BalancerInv
<1> QED BY <1>1, BalancersAreSound, PTL

(* For any workers, loads and hashes: the scan of the least-load balancer  *)
(* finds the first of the least loaded, and the binary search and the walk *)
(* on the ring find the next running member clockwise, whatever was added  *)
(* and removed before (load_balancer.go:228-281).                          *)
THEOREM PicksRightAlways == BalancerSpec => []PicksAreRight
<1>1. BalancerInv => PicksAreRight
  BY LeastLoadIsRight, RingPickIsRight DEF BalancerInv, PicksAreRight
<1> QED BY <1>1, BalancersAreSound, PTL

(* However the callers interleave: measured strategies stay measured, every*)
(* evaluation since the last overlap has added one, and an evaluation that *)
(* meets no other acts on what it has read (load_balancer.go:347-402).     *)
THEOREM AdaptiveIsSound == AdaptiveSpec => []AdaptiveInv
<1> QED BY AdaptiveStarts, AdaptiveStep, PTL DEF AdaptiveSpec

(* Whatever overlapping evaluations left in current and metrics: three in a*)
(* row that no other overlaps have measured every strategy, unless some    *)
(* evaluation saw equal loads, for any number of callers and workers.      *)
THEOREM StrategiesMeasuredAlways == AdaptiveSpec => []EveryStrategyMeasured
<1>1. AdaptiveInv => EveryStrategyMeasured
  BY DEF AdaptiveInv, AdaptiveSound, AdaptiveTypeOK, Tried, EveryStrategyMeasured
<1> QED BY <1>1, AdaptiveIsSound, PTL
=============================================================================
