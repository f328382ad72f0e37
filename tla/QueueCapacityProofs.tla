------------------------ MODULE QueueCapacityProofs ------------------------
(***************************************************************************)
(* Proofs about QueueCapacity, for words of any width up to that of a      *)
(* machine: what the shifts and masks of queue.go compute.                 *)
(***************************************************************************)
EXTENDS QueueCapacity, WellFoundedInduction, TLAPS
-----------------------------------------------------------------------------
(* Induction, with the predicate given as the set of what satisfies it.    *)
LEMMA NatInduct ==
    ASSUME NEW G, 0 \in G, \A n \in Nat : n \in G => n + 1 \in G
    PROVE  \A n \in Nat : n \in G
<1> DEFINE R == OpToRel(<, Nat)
           Bad == {n \in Nat : n \notin G}
<1> SUFFICES ASSUME Bad # {} PROVE FALSE
  OBVIOUS
<1>1. IsWellFoundedOn(R, Nat)
  BY NatLessThanWellFounded
<1>2. PICK n \in Bad : \A m \in Bad : <<m, n>> \notin R
  <2>1. Bad \in SUBSET Nat
    OBVIOUS
  <2> HIDE DEF R, Bad
  <2> QED BY <1>1, <2>1, WFMin
<1>3. n # 0 /\ n - 1 \in Nat
  OBVIOUS
<1>4. n - 1 \in G
  <2>1. <<n - 1, n>> \in R
    BY <1>3 DEF OpToRel
  <2> QED BY <1>2, <1>3, <2>1
<1>5. (n - 1) + 1 = n
  BY <1>3
<1> QED BY <1>3, <1>4, <1>5
-----------------------------------------------------------------------------
(* Powers of two.                                                          *)

Doubles(m, f) == f = [k \in 0 .. m |-> IF k = 0 THEN 1 ELSE 2 * f[k - 1]]

LEMMA DoublesExist == \A m \in Nat : \E f : Doubles(m, f)
<1> DEFINE G == {m \in Nat : \E f : Doubles(m, f)}
<1>1. 0 \in G
  <2> DEFINE f == [k \in 0 .. 0 |-> 1]
  <2>1. Doubles(0, f)
    BY DEF Doubles
  <2> QED BY <2>1
<1>2. ASSUME NEW m \in Nat, m \in G PROVE m + 1 \in G
  <2>1. PICK f : Doubles(m, f)
    BY <1>2
  <2> DEFINE g == [k \in 0 .. m + 1 |-> IF k = 0 THEN 1 ELSE 2 * f[k - 1]]
  <2>2. \A k \in 0 .. m : g[k] = f[k]
    BY <2>1 DEF Doubles
  <2>3. \A k \in 0 .. m + 1 : g[k] = IF k = 0 THEN 1 ELSE 2 * g[k - 1]
    <3> SUFFICES ASSUME NEW k \in 0 .. m + 1, k # 0 PROVE g[k] = 2 * g[k - 1]
      OBVIOUS
    <3>1. k - 1 \in 0 .. m
      OBVIOUS
    <3>2. g[k] = 2 * f[k - 1]
      OBVIOUS
    <3> HIDE DEF g
    <3> QED BY <2>2, <3>1, <3>2
  <2>4. Doubles(m + 1, g)
    <3>1. g = [k \in 0 .. m + 1 |-> g[k]]
      OBVIOUS
    <3> HIDE DEF g
    <3> QED BY <2>3, <3>1 DEF Doubles
  <2>5. \E h : Doubles(m + 1, h)
    <3> HIDE DEF g
    <3> QED BY <2>4
  <2>6. m + 1 \in Nat
    OBVIOUS
  <2> HIDE DEF g
  <2> QED BY <2>5, <2>6, Zenon
<1>3. \A m \in Nat : m \in G
  <2> HIDE DEF G
  <2> QED BY <1>1, <1>2, NatInduct
<1> QED BY <1>3

P(k) == PowerOfTwo[k]

LEMMA Powered ==
    /\ Width \in Nat /\ Width >= 5
    /\ P(0) = 1
    /\ \A k \in 0 .. Width - 1 : P(k + 1) = 2 * P(k)
<1>1. Width \in Nat /\ Width >= 5
  BY WidthAssumption
<1>2. Doubles(Width, PowerOfTwo)
  <2>1. PowerOfTwo = CHOOSE f : Doubles(Width, f)
    BY DEF PowerOfTwo, Doubles
  <2>2. \E f : Doubles(Width, f)
    BY <1>1, DoublesExist
  <2> QED BY <2>1, <2>2
<1>3. \A k \in 0 .. Width : P(k) = IF k = 0 THEN 1 ELSE 2 * P(k - 1)
  BY <1>2 DEF Doubles, P
<1>4. P(0) = 1
  BY <1>1, <1>3
<1>5. ASSUME NEW k \in 0 .. Width - 1 PROVE P(k + 1) = 2 * P(k)
  <2>1. k + 1 \in 0 .. Width /\ k + 1 # 0 /\ (k + 1) - 1 = k
    BY <1>1
  <2> QED BY <1>3, <2>1
<1> QED BY <1>1, <1>4, <1>5

LEMMA PowersPositive == \A k \in 0 .. Width : P(k) \in Nat /\ P(k) > 0
<1> DEFINE G == {k \in Nat : k <= Width => P(k) \in Nat /\ P(k) > 0}
<1>1. 0 \in G
  BY Powered
<1>2. ASSUME NEW k \in Nat, k \in G PROVE k + 1 \in G
  <2> SUFFICES ASSUME k + 1 <= Width PROVE P(k + 1) \in Nat /\ P(k + 1) > 0
    OBVIOUS
  <2>1. k <= Width /\ k \in 0 .. Width - 1
    BY Powered
  <2>2. P(k) \in Nat /\ P(k) > 0
    BY <1>2, <2>1
  <2>3. P(k + 1) = 2 * P(k)
    BY <2>1, Powered
  <2> QED BY <2>2, <2>3
<1>3. \A k \in Nat : k \in G
  <2> HIDE DEF G
  <2> QED BY <1>1, <1>2, NatInduct
<1>4. \A k \in 0 .. Width : k \in Nat /\ k <= Width
  BY Powered
<1> QED BY <1>3, <1>4

(* A power of two divides the later ones, evenly.                          *)
LEMMA PowersDivide ==
    ASSUME NEW i \in 0 .. Width, NEW j \in 0 .. Width, i < j
    PROVE  \E c \in Nat : c > 0 /\ P(j) = 2 * (c * P(i))
<1> DEFINE Even(d) == \E c \in Nat : c > 0 /\ P(i + d + 1) = 2 * (c * P(i))
           G == {d \in Nat : i + d + 1 <= Width => Even(d)}
<1>1. i \in Nat /\ j \in Nat /\ j <= Width /\ Width \in Nat
  BY Powered
<1>2. \A k \in 0 .. Width : P(k) \in Nat /\ P(k) > 0
  BY PowersPositive
<1>3. 0 \in G
  <2> SUFFICES ASSUME i + 1 <= Width PROVE Even(0)
    BY <1>1
  <2>1. P(i + 1) = 2 * P(i)
    BY <1>1, Powered
  <2>2. P(i + 0 + 1) = 2 * (1 * P(i)) /\ 1 \in Nat /\ 1 > 0
    BY <1>1, <1>2, <2>1
  <2> QED BY <2>2
<1>4. ASSUME NEW d \in Nat, d \in G PROVE d + 1 \in G
  <2> SUFFICES ASSUME i + (d + 1) + 1 <= Width PROVE Even(d + 1)
    OBVIOUS
  <2>1. i + d + 1 <= Width /\ i + d + 1 \in 0 .. Width - 1 /\ i + (d + 1) + 1 = (i + d + 1) + 1
    BY <1>1
  <2>2. PICK c \in Nat : c > 0 /\ P(i + d + 1) = 2 * (c * P(i))
    BY <1>4, <2>1
  <2>3. P((i + d + 1) + 1) = 2 * P(i + d + 1)
    BY <2>1, Powered
  <2>4. 2 * c \in Nat /\ 2 * c > 0
    BY <2>2
  <2>5. P(i + (d + 1) + 1) = 2 * ((2 * c) * P(i))
    <3>1. P(i) \in Nat
      BY <1>2
    <3>2. P(i + (d + 1) + 1) = 2 * (2 * (c * P(i)))
      BY <2>1, <2>2, <2>3
    <3>3. 2 * (c * P(i)) = (2 * c) * P(i)
      BY <3>1
    <3> QED BY <3>2, <3>3
  <2> QED BY <2>4, <2>5
<1>5. \A d \in Nat : d \in G
  <2> HIDE DEF G
  <2> QED BY <1>3, <1>4, NatInduct
<1>6. j - i - 1 \in Nat /\ i + (j - i - 1) + 1 = j
  BY <1>1
<1>7. j - i - 1 \in G
  BY <1>5, <1>6
<1> QED BY <1>1, <1>6, <1>7

LEMMA PowersGrow ==
    ASSUME NEW i \in 0 .. Width, NEW j \in 0 .. Width
    PROVE  /\ i < j => P(i) < P(j)
           /\ i <= j => P(i) <= P(j)
           /\ P(i) < P(j) => i < j
           /\ P(i) <= P(j) => i <= j
<1>1. i \in Nat /\ j \in Nat
  BY Powered
<1>2. P(i) \in Nat /\ P(i) > 0 /\ P(j) \in Nat /\ P(j) > 0
  BY PowersPositive
<1>3. ASSUME NEW k \in 0 .. Width, NEW l \in 0 .. Width, k < l PROVE P(k) < P(l)
  <2>1. PICK c \in Nat : c > 0 /\ P(l) = 2 * (c * P(k))
    BY <1>3, PowersDivide
  <2>2. P(k) \in Nat /\ P(k) > 0
    BY PowersPositive
  <2>3. c * P(k) >= P(k)
    BY <2>1, <2>2
  <2> QED BY <2>1, <2>2, <2>3
<1> QED BY <1>1, <1>2, <1>3
-----------------------------------------------------------------------------
(* Division.                                                               *)

LEMMA Division ==
    ASSUME NEW a \in Int, NEW p \in Nat, p > 0
    PROVE  /\ a = p * (a \div p) + (a % p)
           /\ a % p \in 0 .. p - 1 /\ a \div p \in Int
           /\ a \in Nat => a \div p \in Nat
OBVIOUS

LEMMA DivisionIs ==
    ASSUME NEW p \in Nat, p > 0, NEW q \in Int, NEW r \in 0 .. p - 1,
           NEW a \in Int, a = p * q + r
    PROVE  a \div p = q /\ a % p = r
<1> DEFINE t == a \div p
           s == a % p
<1>1. p * t + s = p * q + r /\ s \in 0 .. p - 1 /\ t \in Int
  BY Division
<1> HIDE DEF s, t
<1>2. p * (t - q) = r - s
  BY <1>1
<1>3. CASE t - q >= 1
  BY <1>1, <1>2, <1>3
<1>4. CASE t - q <= -1
  BY <1>1, <1>2, <1>4
<1>5. CASE t = q
  BY <1>1, <1>5
<1>6. t = q /\ s = r
  BY <1>1, <1>3, <1>4, <1>5
<1> QED BY <1>6 DEF s, t

LEMMA RestOfRest ==
    ASSUME NEW a \in Int, NEW p \in Nat, p > 0, NEW c \in Nat, c > 0
    PROVE  (a % (c * p)) % p = a % p
<1> DEFINE w == c * p
           q == a \div w
           r == a % w
           s == r \div p
           t == r % p
<1>1. w \in Nat /\ w > 0
  OBVIOUS
<1>2. a = w * q + r /\ r \in Nat /\ q \in Int
  <2> HIDE DEF w
  <2> QED BY <1>1, Division
<1>3. r = p * s + t /\ t \in 0 .. p - 1 /\ s \in Int
  <2> HIDE DEF r
  <2> QED BY <1>2, Division
<1> HIDE DEF q, r, s, t
<1>4. a = p * (c * q + s) + t
  <2>1. w * q = p * (c * q)
    BY <1>2
  <2> HIDE DEF w
  <2>2. a = p * (c * q) + p * s + t
    BY <1>1, <1>2, <1>3, <2>1
  <2>3. c * q \in Int
    BY <1>2
  <2> DEFINE u == c * q
  <2> HIDE DEF u
  <2> QED BY <1>3, <2>2, <2>3 DEF u
<1>5. c * q + s \in Int
  BY <1>2, <1>3
<1>6. a % p = t
  <2> DEFINE u == c * q + s
  <2>1. a = p * u + t /\ u \in Int
    BY <1>4, <1>5
  <2> HIDE DEF u
  <2> QED BY <1>3, <2>1, DivisionIs
<1> QED BY <1>6 DEF t, r, w
-----------------------------------------------------------------------------
(* The ones of a number.                                                   *)

LEMMA LowOnes ==
    ASSUME NEW k \in 0 .. Width, NEW q \in Nat, NEW r \in 0 .. P(k) - 1,
           NEW i \in Places, i < k
    PROVE  i \in Ones(P(k) * q + r) <=> i \in Ones(r)
<1> DEFINE a == P(k) * q + r
           p == P(i)
           s == r \div p
           t == r % p
<1>1. i \in 0 .. Width /\ i \in Nat /\ k \in Nat
  BY Powered DEF Places
<1>2. p \in Nat /\ p > 0 /\ P(k) \in Nat /\ r \in Nat
  BY <1>1, PowersPositive
<1>3. PICK c \in Nat : c > 0 /\ P(k) = 2 * (c * p)
  BY <1>1, PowersDivide
<1>4. r = p * s + t /\ t \in 0 .. p - 1 /\ s \in Nat
  <2> HIDE DEF p
  <2> QED BY <1>2, Division
<1> HIDE DEF s, t, p
<1> DEFINE u == c * q
<1>5. u \in Nat
  OBVIOUS
<1>6. a = p * (2 * u + s) + t
  <2>1. P(k) * q = (2 * (c * p)) * q
    BY <1>3
  <2>2. (2 * (c * p)) * q = p * (2 * u)
    BY <1>2
  <2> HIDE DEF u
  <2>3. a = p * (2 * u) + (p * s + t)
    BY <1>4, <2>1, <2>2
  <2>4. p * (2 * u + s) = p * (2 * u) + p * s
    BY <1>2, <1>4, <1>5
  <2>5. p * (2 * u) \in Int /\ p * s \in Int /\ t \in Int
    BY <1>2, <1>4, <1>5
  <2> HIDE DEF a
  <2> QED BY <2>3, <2>4, <2>5
<1> HIDE DEF u
<1>7. a \in Int /\ 2 * u + s \in Int
  BY <1>2, <1>4, <1>5
<1>8. a \div p = 2 * u + s
  <2> HIDE DEF a
  <2> QED BY <1>2, <1>4, <1>6, <1>7, DivisionIs
<1>9. (2 * u + s) % 2 = s % 2
  BY <1>4, <1>5
<1> QED BY <1>8, <1>9 DEF Ones, P, p, s

LEMMA NoOnesAbove ==
    ASSUME NEW k \in 0 .. Width, NEW n \in 0 .. P(k) - 1
    PROVE  \A i \in Ones(n) : i < k
<1> SUFFICES ASSUME NEW i \in Places, i >= k PROVE i \notin Ones(n)
  BY Powered DEF Ones, Places
<1>1. i \in 0 .. Width /\ i \in Nat /\ k \in Nat
  BY Powered DEF Places
<1>2. P(i) \in Nat /\ P(i) > 0 /\ P(k) \in Nat /\ P(k) <= P(i)
  BY <1>1, PowersPositive, PowersGrow
<1>3. n \in 0 .. P(i) - 1 /\ n = P(i) * 0 + n /\ n \in Int /\ 0 \in Int
  BY <1>2
<1>4. n \div P(i) = 0
  BY <1>2, <1>3, DivisionIs
<1> QED BY <1>4 DEF Ones, P

(* A number from a power on has a one there, and below it the ones of the  *)
(* rest.                                                                   *)
LEMMA OnesWithTop ==
    ASSUME NEW k \in Places, NEW r \in 0 .. P(k) - 1
    PROVE  /\ Ones(P(k) + r) = Ones(r) \cup {k}
           /\ k \notin Ones(r)
<1>1. k \in 0 .. Width /\ k \in Nat
  BY Powered DEF Places
<1>2. P(k) \in Nat /\ P(k) > 0 /\ r \in Nat
  BY <1>1, PowersPositive
<1>3. \A i \in Ones(r) : i < k
  BY <1>1, NoOnesAbove
<1>4. k \in Ones(P(k) + r)
  <2>1. P(k) + r = P(k) * 1 + r /\ P(k) + r \in Int /\ 1 \in Int
    BY <1>2
  <2>2. (P(k) + r) \div P(k) = 1
    BY <1>2, <2>1, DivisionIs
  <2> QED BY <2>2 DEF Ones, P
<1>5. ASSUME NEW i \in Places, i < k PROVE i \in Ones(P(k) + r) <=> i \in Ones(r)
  <2>1. P(k) + r = P(k) * 1 + r
    BY <1>2
  <2>2. i \in Ones(P(k) * 1 + r) <=> i \in Ones(r)
    BY <1>1, <1>5, LowOnes
  <2> QED BY <2>1, <2>2
<1>6. ASSUME NEW i \in Places, i > k PROVE i \notin Ones(P(k) + r)
  <2>1. i \in 0 .. Width /\ k + 1 \in 0 .. Width /\ k + 1 <= i
    BY <1>1, <1>6, Powered DEF Places
  <2>2. P(k + 1) = 2 * P(k)
    BY Powered DEF Places
  <2>3. P(k) + r \in 0 .. P(k + 1) - 1
    BY <1>2, <2>2
  <2>4. \A j \in Ones(P(k) + r) : j < k + 1
    BY <2>1, <2>3, NoOnesAbove
  <2> QED BY <1>1, <1>6, <2>1, <2>4
<1>7. Ones(r) \subseteq Places /\ Ones(P(k) + r) \subseteq Places /\ \A i \in Places : i \in Nat
  BY Powered DEF Ones, Places
<1>8. ASSUME NEW i \in Places PROVE i \in Ones(P(k) + r) <=> i \in Ones(r) \cup {k}
  BY <1>1, <1>3, <1>4, <1>5, <1>6, <1>7
<1>9. k \notin Ones(r)
  BY <1>1, <1>3
<1> QED BY <1>7, <1>8, <1>9

LEMMA NoOnesOfZero == Ones(0) = {}
<1>1. 0 \in 0 .. Width /\ 0 \in 0 .. P(0) - 1
  BY Powered
<1>2. \A i \in Ones(0) : i < 0
  BY <1>1, NoOnesAbove
<1> QED BY <1>2, Powered DEF Ones, Places

(* Different words have different ones.                                    *)
LEMMA OnesDiffer ==
    \A k \in 0 .. Width : \A n, m \in 0 .. P(k) - 1 : Ones(n) = Ones(m) => n = m
<1> DEFINE Tells(k) == \A n, m \in 0 .. P(k) - 1 : Ones(n) = Ones(m) => n = m
           G == {k \in Nat : k <= Width => Tells(k)}
<1>1. 0 \in G
  BY Powered
<1>2. ASSUME NEW k \in Nat, k \in G PROVE k + 1 \in G
  <2> SUFFICES ASSUME k + 1 <= Width,
                      NEW n \in 0 .. P(k + 1) - 1, NEW m \in 0 .. P(k + 1) - 1,
                      Ones(n) = Ones(m)
               PROVE  n = m
    OBVIOUS
  <2>1. k \in Places /\ k \in 0 .. Width /\ k <= Width
    BY Powered DEF Places
  <2>2. P(k) \in Nat /\ P(k + 1) = 2 * P(k) /\ Tells(k)
    BY <1>2, <2>1, Powered, PowersPositive
  <2>3. ASSUME NEW l \in 0 .. P(k + 1) - 1
        PROVE  /\ l < P(k) => l \in 0 .. P(k) - 1 /\ k \notin Ones(l)
               /\ ~(l < P(k)) => /\ l - P(k) \in 0 .. P(k) - 1
                                 /\ Ones(l) = Ones(l - P(k)) \cup {k}
                                 /\ k \notin Ones(l - P(k))
    <3>1. CASE l < P(k)
      <4>1. l \in 0 .. P(k) - 1
        BY <2>2, <3>1
      <4> QED BY <2>1, <3>1, <4>1, OnesWithTop
    <3>2. CASE ~(l < P(k))
      <4>1. l - P(k) \in 0 .. P(k) - 1 /\ P(k) + (l - P(k)) = l
        BY <2>2, <3>2
      <4> DEFINE r == l - P(k)
      <4>2. Ones(P(k) + r) = Ones(r) \cup {k} /\ k \notin Ones(r)
        <5> HIDE DEF r
        <5> QED BY <2>1, <4>1, OnesWithTop DEF r
      <4> QED BY <3>2, <4>1, <4>2
    <3> QED BY <3>1, <3>2
  <2>4. CASE n < P(k)
    <3>1. k \notin Ones(n)
      BY <2>3, <2>4
    <3>2. m < P(k)
      BY <2>3, <3>1
    <3> QED BY <2>2, <2>3, <2>4, <3>2
  <2>5. CASE ~(n < P(k))
    <3>1. k \in Ones(n)
      BY <2>3, <2>5
    <3>2. ~(m < P(k))
      BY <2>3, <3>1
    <3> DEFINE r == n - P(k)
               s == m - P(k)
    <3>3. /\ r \in 0 .. P(k) - 1 /\ Ones(n) = Ones(r) \cup {k} /\ k \notin Ones(r)
          /\ s \in 0 .. P(k) - 1 /\ Ones(m) = Ones(s) \cup {k} /\ k \notin Ones(s)
      BY <2>3, <2>5, <3>2
    <3>4. r = s
      <4> HIDE DEF r, s
      <4>1. Ones(r) = Ones(n) \ {k} /\ Ones(s) = Ones(m) \ {k}
        BY <3>3
      <4> QED BY <2>2, <3>3, <4>1
    <3> QED BY <2>2, <3>4
  <2> QED BY <2>4, <2>5
<1>3. \A k \in Nat : k \in G
  <2> HIDE DEF G
  <2> QED BY <1>1, <1>2, NatInduct
<1>4. \A k \in 0 .. Width : k \in Nat /\ k <= Width
  BY Powered
<1> QED BY <1>3, <1>4

Writes(k, ones) == \E n \in 0 .. P(k) - 1 : Ones(n) = ones

(* There is a word with any ones.                                          *)
LEMMA OnesTaken ==
    \A k \in 0 .. Width : \A ones \in SUBSET (0 .. k - 1) : Writes(k, ones)
<1> DEFINE G == {k \in Nat : k <= Width =>
                                \A ones \in SUBSET (0 .. k - 1) : Writes(k, ones)}
<1>1. 0 \in G
  <2>1. 0 \in 0 .. P(0) - 1 /\ \A ones \in SUBSET (0 .. 0 - 1) : ones = {}
    BY Powered
  <2>2. Writes(0, {})
    BY <2>1, NoOnesOfZero DEF Writes
  <2> QED BY <2>1, <2>2
<1>2. ASSUME NEW k \in Nat, k \in G PROVE k + 1 \in G
  <2> SUFFICES ASSUME k + 1 <= Width, NEW ones \in SUBSET (0 .. (k + 1) - 1)
               PROVE  Writes(k + 1, ones)
    OBVIOUS
  <2>1. k \in Places /\ k \in 0 .. Width /\ k <= Width
    BY Powered DEF Places
  <2>2. P(k) \in Nat /\ P(k) > 0 /\ P(k + 1) = 2 * P(k)
    BY <2>1, Powered, PowersPositive
  <2>3. ones \ {k} \in SUBSET (0 .. k - 1)
    OBVIOUS
  <2>4. Writes(k, ones \ {k})
    BY <1>2, <2>1, <2>3
  <2>5. PICK r \in 0 .. P(k) - 1 : Ones(r) = ones \ {k}
    BY <2>4 DEF Writes
  <2>6. CASE k \in ones
    <3>1. Ones(P(k) + r) = Ones(r) \cup {k}
      BY <2>1, OnesWithTop
    <3>3. (ones \ {k}) \cup {k} = ones
      BY <2>6
    <3>2. P(k) + r \in 0 .. P(k + 1) - 1
      BY <2>2
    <3> QED BY <2>5, <3>1, <3>2, <3>3 DEF Writes
  <2>7. CASE k \notin ones
    <3>1. Ones(r) = ones /\ r \in 0 .. P(k + 1) - 1
      BY <2>2, <2>5, <2>7
    <3> QED BY <3>1 DEF Writes
  <2> QED BY <2>6, <2>7
<1>3. \A k \in Nat : k \in G
  <2> HIDE DEF G
  <2> QED BY <1>1, <1>2, NatInduct
<1>4. \A k \in 0 .. Width : k \in Nat /\ k <= Width
  BY Powered
<1> QED BY <1>3, <1>4

LEMMA WordIs ==
    /\ \A ones \in SUBSET Places : WordOf(ones) \in Words /\ Ones(WordOf(ones)) = ones
    /\ \A n \in Words : WordOf(Ones(n)) = n
    /\ \A n : Ones(n) \in SUBSET Places
<1>1. \A n : Ones(n) \in SUBSET Places
  BY DEF Ones
<1>2. Width \in 0 .. Width /\ Words = 0 .. P(Width) - 1 /\ Places = 0 .. Width - 1
  BY Powered DEF Words, Places, P
<1>3. ASSUME NEW ones \in SUBSET Places
      PROVE  WordOf(ones) \in Words /\ Ones(WordOf(ones)) = ones
  <2>1. \E n \in Words : Ones(n) = ones
    BY <1>2, OnesTaken DEF Writes
  <2> QED BY <2>1 DEF WordOf
<1>4. ASSUME NEW n \in Words PROVE WordOf(Ones(n)) = n
  <2> DEFINE m == WordOf(Ones(n))
  <2>1. m \in Words /\ Ones(m) = Ones(n)
    BY <1>1, <1>3
  <2> HIDE DEF m
  <2>2. m = n
    BY <1>2, <2>1, OnesDiffer
  <2> QED BY <2>2 DEF m
<1> QED BY <1>1, <1>3, <1>4
-----------------------------------------------------------------------------
(* The mask.                                                               *)

LEMMA OnesOfMask == \A k \in 0 .. Width : Ones(P(k) - 1) = 0 .. k - 1
<1> DEFINE G == {k \in Nat : k <= Width => Ones(P(k) - 1) = 0 .. k - 1}
<1>1. 0 \in G
  BY Powered, NoOnesOfZero
<1>2. ASSUME NEW k \in Nat, k \in G PROVE k + 1 \in G
  <2> SUFFICES ASSUME k + 1 <= Width PROVE Ones(P(k + 1) - 1) = 0 .. (k + 1) - 1
    OBVIOUS
  <2>1. k \in Places /\ k \in 0 .. Width /\ k <= Width
    BY Powered DEF Places
  <2>2. P(k) \in Nat /\ P(k) > 0 /\ P(k + 1) = 2 * P(k)
    BY <2>1, Powered, PowersPositive
  <2> DEFINE r == P(k) - 1
  <2>3. r \in 0 .. P(k) - 1 /\ P(k + 1) - 1 = P(k) + r
    BY <2>2
  <2>4. Ones(r) = 0 .. k - 1
    BY <1>2, <2>1
  <2> HIDE DEF r
  <2>5. Ones(P(k) + r) = Ones(r) \cup {k}
    BY <2>1, <2>3, OnesWithTop
  <2>6. (0 .. k - 1) \cup {k} = 0 .. (k + 1) - 1
    OBVIOUS
  <2> QED BY <2>3, <2>4, <2>5, <2>6
<1>3. \A k \in Nat : k \in G
  <2> HIDE DEF G
  <2> QED BY <1>1, <1>2, NatInduct
<1>4. \A k \in 0 .. Width : k \in Nat /\ k <= Width
  BY Powered
<1> QED BY <1>3, <1>4

LEMMA MaskIsRest ==
    ASSUME NEW k \in 0 .. Width, NEW n \in Words
    PROVE  And(n, P(k) - 1) = n % P(k)
<1>1. /\ P(k) \in Nat /\ P(k) > 0 /\ n \in Nat /\ k \in Nat /\ k <= Width
      /\ P(Width) \in Nat /\ P(k) <= P(Width) /\ Words = 0 .. P(Width) - 1
  <2>1. Width \in 0 .. Width /\ k \in Nat /\ k <= Width
    BY Powered
  <2>2. P(k) \in Nat /\ P(k) > 0 /\ P(Width) \in Nat
    BY <2>1, PowersPositive
  <2>3. P(k) <= P(Width)
    BY <2>1, PowersGrow
  <2>4. Words = 0 .. P(Width) - 1
    BY DEF Words, P
  <2> QED BY <2>1, <2>2, <2>3, <2>4
<1> DEFINE q == n \div P(k)
           r == n % P(k)
<1>2. n = P(k) * q + r /\ r \in 0 .. P(k) - 1 /\ q \in Nat
  BY <1>1, Division
<1> HIDE DEF q, r
<1>3. r \in Words
  BY <1>1, <1>2
<1>4. \A i \in Places : i < k => (i \in Ones(n) <=> i \in Ones(r))
  BY <1>2, LowOnes
<1>5. \A i \in Ones(r) : i < k
  BY <1>2, NoOnesAbove
<1>6. Ones(n) \cap Ones(P(k) - 1) = Ones(r)
  <2>1. Ones(P(k) - 1) = 0 .. k - 1
    BY OnesOfMask
  <2>2. \A i \in Places : i \in Nat
    BY Powered DEF Places
  <2>3. Ones(n) \in SUBSET Places /\ Ones(r) \in SUBSET Places
    BY WordIs
  <2>4. \A i \in Places : i \in 0 .. k - 1 <=> i < k
    BY <1>1, <2>2
  <2> QED BY <1>4, <1>5, <2>1, <2>3, <2>4
<1> QED BY <1>3, <1>6, WordIs DEF And, r
-----------------------------------------------------------------------------
(* nextPowerOfTwo.                                                         *)

HasHighest(n, h) == h \in Places /\ P(h) <= n /\ n < P(h + 1)

LEMMA HighestExists ==
    ASSUME NEW n \in Words, n > 0
    PROVE  \E h : HasHighest(n, h)
<1> DEFINE G == {k \in Nat : k <= Width /\ n < P(k) => \E h : HasHighest(n, h)}
<1>1. n \in Nat /\ n < P(Width)
  <2>1. P(Width) \in Nat
    BY Powered, PowersPositive
  <2> QED BY <2>1 DEF Words, P
<1>2. 0 \in G
  BY <1>1, Powered
<1>3. ASSUME NEW k \in Nat, k \in G PROVE k + 1 \in G
  <2> SUFFICES ASSUME k + 1 <= Width, n < P(k + 1) PROVE \E h : HasHighest(n, h)
    OBVIOUS
  <2>1. k \in Places /\ k \in 0 .. Width /\ k <= Width
    BY Powered DEF Places
  <2>2. P(k) \in Nat
    BY <2>1, PowersPositive
  <2>3. CASE n < P(k)
    BY <1>3, <2>1, <2>3
  <2>4. CASE ~(n < P(k))
    <3>1. HasHighest(n, k)
      BY <1>1, <2>1, <2>2, <2>4 DEF HasHighest
    <3> QED BY <3>1
  <2> QED BY <2>3, <2>4
<1>4. \A k \in Nat : k \in G
  <2> HIDE DEF G
  <2> QED BY <1>2, <1>3, NatInduct
<1>5. Width \in G /\ Width <= Width
  BY <1>4, Powered
<1> QED BY <1>1, <1>5

LEMMA OnesOfHighest ==
    ASSUME NEW n \in Nat, NEW h, HasHighest(n, h)
    PROVE  /\ h \in Ones(n) /\ h \in Nat
           /\ \A i \in Ones(n) : i \in Nat /\ i <= h
<1>1. h \in Places /\ h \in Nat /\ h \in 0 .. Width /\ h + 1 \in 0 .. Width
  BY Powered DEF HasHighest, Places
<1>2. P(h) \in Nat /\ P(h + 1) = 2 * P(h)
  BY <1>1, Powered, PowersPositive DEF Places
<1> DEFINE r == n - P(h)
<1>3. r \in 0 .. P(h) - 1 /\ n = P(h) + r /\ n \in 0 .. P(h + 1) - 1
  BY <1>2 DEF HasHighest
<1> HIDE DEF r
<1>4. h \in Ones(n)
  BY <1>1, <1>3, OnesWithTop
<1>5. \A i \in Ones(n) : i < h + 1
  BY <1>1, <1>3, NoOnesAbove
<1>6. \A i \in Ones(n) : i \in Nat
  BY Powered DEF Ones, Places
<1> QED BY <1>1, <1>4, <1>5, <1>6

(* A number whose ones are those of n and what is at most t - 1 below.     *)
Covers(n, m, t) ==
    \A i \in Places : i \in Ones(m) <=> \E d \in 0 .. t - 1 : i + d \in Ones(n)

LEMMA CoverDoubles ==
    ASSUME NEW n, NEW m, NEW t \in Nat, Covers(n, m, t)
    PROVE  ShiftedIn(m, t) \in Words /\ Covers(n, ShiftedIn(m, t), 2 * t)
<1> DEFINE S == {i \in Places : {i, i + t} \cap Ones(m) # {}}
<1>1. WordOf(S) \in Words /\ Ones(WordOf(S)) = S
  <2>1. S \in SUBSET Places
    OBVIOUS
  <2> HIDE DEF S
  <2> QED BY <2>1, WordIs
<1>2. ASSUME NEW i \in Places
      PROVE  i \in S <=> \E d \in 0 .. 2 * t - 1 : i + d \in Ones(n)
  <2>1. i \in Nat /\ Width \in Nat /\ Places = 0 .. Width - 1
    BY Powered DEF Places
  <2>2. i \in S <=> i \in Ones(m) \/ i + t \in Ones(m)
    OBVIOUS
  <2>3. i \in Ones(m) <=> \E d \in 0 .. t - 1 : i + d \in Ones(n)
    BY DEF Covers
  <2>4. i + t \in Ones(m) => \E d \in t .. 2 * t - 1 : i + d \in Ones(n)
    <3> SUFFICES ASSUME i + t \in Ones(m)
                 PROVE  \E d \in t .. 2 * t - 1 : i + d \in Ones(n)
      OBVIOUS
    <3>1. i + t \in Places
      BY WordIs
    <3>2. PICK d \in 0 .. t - 1 : (i + t) + d \in Ones(n)
      BY <3>1 DEF Covers
    <3>3. t + d \in t .. 2 * t - 1 /\ i + (t + d) = (i + t) + d
      BY <2>1
    <3> QED BY <3>2, <3>3
  <2>5. ASSUME NEW d \in t .. 2 * t - 1, i + d \in Ones(n) PROVE i + t \in Ones(m)
    <3>1. i + d \in Places
      BY <2>5, WordIs
    <3>2. i + t \in Places /\ d - t \in 0 .. t - 1 /\ (i + t) + (d - t) = i + d
      BY <2>1, <3>1
    <3> QED BY <2>5, <3>2 DEF Covers
  <2>6. \A d \in 0 .. 2 * t - 1 : d \in 0 .. t - 1 \/ d \in t .. 2 * t - 1
    OBVIOUS
  <2>7. /\ \A d \in 0 .. t - 1 : d \in 0 .. 2 * t - 1
        /\ \A d \in t .. 2 * t - 1 : d \in 0 .. 2 * t - 1
    OBVIOUS
  <2> HIDE DEF S
  <2> QED BY <2>2, <2>3, <2>4, <2>5, <2>6, <2>7
<1>3. ShiftedIn(m, t) = WordOf(S)
  BY DEF ShiftedIn
<1> HIDE DEF S
<1> QED BY <1>1, <1>2, <1>3 DEF Covers

LEMMA SmearedIsMask ==
    ASSUME NEW n \in Words, NEW h, HasHighest(n, h)
    PROVE  Smeared(n) = P(h + 1) - 1
<1> DEFINE m1 == ShiftedIn(n, 1)
           m2 == ShiftedIn(m1, 2)
           m4 == ShiftedIn(m2, 4)
           m8 == ShiftedIn(m4, 8)
           m16 == ShiftedIn(m8, 16)
           m32 == ShiftedIn(m16, 32)
<1>1. n \in Nat /\ \A i \in Places : i \in Nat /\ i < 64
  <2>1. n \in Nat
    BY Powered, PowersPositive DEF Words, P
  <2> QED BY <2>1, WidthAssumption DEF Places
<1>2. Covers(n, n, 1)
  <2> SUFFICES ASSUME NEW i \in Places
               PROVE  i \in Ones(n) <=> \E d \in 0 .. 1 - 1 : i + d \in Ones(n)
    BY DEF Covers
  <2>1. i + 0 = i /\ \A d \in 0 .. 1 - 1 : d = 0
    BY <1>1
  <2> QED BY <2>1
<1>3. Covers(n, m1, 2)
  BY <1>2, CoverDoubles
<1> HIDE DEF m1
<1>4. Covers(n, m2, 4)
  BY <1>3, CoverDoubles
<1> HIDE DEF m2
<1>5. Covers(n, m4, 8)
  BY <1>4, CoverDoubles
<1> HIDE DEF m4
<1>6. Covers(n, m8, 16)
  BY <1>5, CoverDoubles
<1> HIDE DEF m8
<1>7. Covers(n, m16, 32)
  BY <1>6, CoverDoubles
<1> HIDE DEF m16
<1>8. m32 \in Words /\ Covers(n, m32, 64)
  BY <1>7, CoverDoubles
<1>9. Smeared(n) = m32
  BY DEF Smeared, m1, m2, m4, m8, m16
<1> HIDE DEF m32
<1>10. h \in Ones(n) /\ h \in Places /\ h \in Nat /\ \A i \in Ones(n) : i \in Nat /\ i <= h
  BY <1>1, OnesOfHighest DEF HasHighest
<1>11. ASSUME NEW i \in Places PROVE i \in Ones(m32) <=> i <= h
  <2>1. i \in Ones(m32) <=> \E d \in 0 .. 64 - 1 : i + d \in Ones(n)
    BY <1>8 DEF Covers
  <2>2. ASSUME NEW d \in 0 .. 64 - 1, i + d \in Ones(n) PROVE i <= h
    BY <1>1, <1>10, <2>2
  <2>3. ASSUME i <= h PROVE h - i \in 0 .. 64 - 1 /\ i + (h - i) = h
    BY <1>1, <1>10, <2>3
  <2> QED BY <1>10, <2>1, <2>2, <2>3
<1>12. h + 1 \in 0 .. Width
  BY <1>10, Powered DEF Places
<1>13. Ones(m32) = 0 .. (h + 1) - 1
  <2>1. Places = 0 .. Width - 1 /\ Width \in Nat
    BY Powered DEF Places
  <2>2. Ones(m32) \in SUBSET Places
    BY WordIs
  <2>3. \A i : i \in 0 .. (h + 1) - 1 <=> i \in Places /\ i <= h
    BY <1>10, <1>12, <2>1
  <2> QED BY <1>11, <2>2, <2>3
<1>14. Ones(P(h + 1) - 1) = 0 .. (h + 1) - 1
  BY <1>12, OnesOfMask
<1>15. P(h + 1) - 1 \in Words
  <2>1. Width \in 0 .. Width /\ h + 1 <= Width
    BY <1>10, <1>12, Powered
  <2>2. P(h + 1) \in Nat /\ P(h + 1) > 0 /\ P(Width) \in Nat /\ P(h + 1) <= P(Width)
    BY <1>12, <2>1, PowersPositive, PowersGrow
  <2>3. Words = 0 .. P(Width) - 1
    BY DEF Words, P
  <2> QED BY <2>2, <2>3
<1>16. m32 = P(h + 1) - 1
  BY <1>8, <1>13, <1>14, <1>15, WordIs
<1> QED BY <1>9, <1>16

(* n & (n - 1) is 0 just for powers of two.                                *)
LEMMA AndTest ==
    ASSUME NEW n \in Words, NEW h, HasHighest(n, h)
    PROVE  And(n, n - 1) = 0 <=> n = P(h)
<1>1. h \in Places /\ h \in Nat /\ h \in 0 .. Width /\ h + 1 \in 0 .. Width
  BY Powered DEF HasHighest, Places
<1>2. P(h) \in Nat /\ P(h) > 0 /\ n \in Nat
  <2>1. n \in Nat
    BY Powered, PowersPositive DEF Words, P
  <2> QED BY <1>1, <2>1, PowersPositive
<1>3. 0 \in Words
  BY Powered, PowersPositive DEF Words, P
<1>4. CASE n = P(h)
  <2>1. 0 \in 0 .. P(h) - 1 /\ P(h) + 0 = P(h)
    BY <1>2
  <2>2. Ones(P(h) + 0) = Ones(0) \cup {h}
    BY <1>1, <2>1, OnesWithTop
  <2>3. Ones(n) = {h}
    BY <1>4, <2>1, <2>2, NoOnesOfZero
  <2>4. Ones(n - 1) = 0 .. h - 1
    BY <1>1, <1>4, OnesOfMask
  <2>5. h \notin 0 .. h - 1
    BY <1>1
  <2>6. Ones(n) \cap Ones(n - 1) = Ones(0)
    BY <2>3, <2>4, <2>5, NoOnesOfZero
  <2>7. And(n, n - 1) = 0
    BY <1>3, <2>6, WordIs DEF And
  <2> QED BY <1>4, <2>7
<1>5. CASE n # P(h)
  <2>1. n - 1 \in Nat /\ HasHighest(n - 1, h)
    <3>1. P(h + 1) \in Nat
      BY <1>1, PowersPositive
    <3> QED BY <1>2, <1>5, <3>1 DEF HasHighest
  <2> DEFINE m == n - 1
  <2> HIDE DEF m
  <2>2. h \in Ones(n) /\ h \in Ones(m)
    BY <1>2, <2>1, OnesOfHighest DEF m
  <2>3. Ones(And(n, m)) = Ones(n) \cap Ones(m)
    <3>1. Ones(n) \cap Ones(m) \in SUBSET Places
      BY WordIs
    <3> QED BY <3>1, WordIs DEF And
  <2>4. And(n, m) # 0
    BY <2>2, <2>3, NoOnesOfZero
  <2> QED BY <1>5, <2>4 DEF m
<1> QED BY <1>4, <1>5

(* The capacity for a request, as CapacityIsRoundedUp says it.             *)
Rounded(asked, c) ==
    LET enough == {p \in Powers : p >= asked}
    IN  IF enough = {} THEN c = 0 ELSE c \in enough /\ \A p \in enough : c <= p

LEMMA NextIsRounded ==
    ASSUME NEW n \in Words, n > 0
    PROVE  Rounded(n, Word(NextPowerOfTwo(n)))
<1>1. PICK h : HasHighest(n, h)
  BY HighestExists
<1>2. h \in Places /\ h \in Nat /\ h \in 0 .. Width /\ h + 1 \in 0 .. Width
  BY <1>1, Powered DEF HasHighest, Places
<1>3. /\ P(h) \in Nat /\ P(h) > 0 /\ P(h + 1) \in Nat /\ P(h + 1) > 0
      /\ n \in Nat /\ P(h) <= n /\ n < P(h + 1)
  <2>1. n \in Nat
    BY Powered, PowersPositive DEF Words, P
  <2> QED BY <1>1, <1>2, <2>1, PowersPositive DEF HasHighest
<1>4. /\ Width \in Nat /\ Width \in 0 .. Width /\ Places = 0 .. Width - 1
      /\ P(Width) \in Nat /\ P(Width) > 0
      /\ \A p : p \in Powers <=> \E k \in Places : p = P(k)
      /\ \A a : Word(a) = a % P(Width)
  <2>1. Width \in Nat /\ Width \in 0 .. Width /\ Places = 0 .. Width - 1
    BY Powered DEF Places
  <2> QED BY <2>1, PowersPositive DEF Powers, Word, P
<1>5. ASSUME NEW k \in Places, n <= P(k),
             \A j \in Places : n <= P(j) => P(k) <= P(j),
             NEW c, c = P(k)
      PROVE  Rounded(n, Word(c))
  <2>1. k \in 0 .. Width /\ k < Width
    BY <1>4
  <2>2. P(k) \in Nat /\ P(k) < P(Width)
    BY <1>4, <2>1, PowersPositive, PowersGrow
  <2>3. Word(c) = P(k)
    <3>1. c \in 0 .. P(Width) - 1 /\ c = P(Width) * 0 + c /\ 0 \in Int /\ c \in Int
      BY <1>4, <1>5, <2>2
    <3>2. c % P(Width) = c
      BY <1>4, <3>1, DivisionIs
    <3> QED BY <1>4, <1>5, <3>2
  <2>4. P(k) \in {p \in Powers : p >= n}
    BY <1>3, <1>4, <1>5, <2>2
  <2>5. \A p \in {q \in Powers : q >= n} : P(k) <= p
    <3> SUFFICES ASSUME NEW j \in Places, P(j) >= n PROVE P(k) <= P(j)
      BY <1>4
    <3>1. j \in 0 .. Width
      BY <1>4
    <3>2. P(j) \in Nat
      BY <3>1, PowersPositive
    <3> QED BY <1>3, <1>5, <2>1, <3>2
  <2> QED BY <2>3, <2>4, <2>5 DEF Rounded
<1>6. \A j \in Places : j \in 0 .. Width /\ P(j) \in Nat /\ j \in Nat
  BY <1>4, PowersPositive
<1>7. CASE n = P(h)
  <2>1. NextPowerOfTwo(n) = P(h)
    BY <1>1, <1>3, <1>7, AndTest DEF NextPowerOfTwo
  <2> DEFINE c == NextPowerOfTwo(n)
  <2>2. c = P(h)
    BY <2>1
  <2> HIDE DEF c
  <2>3. Rounded(n, Word(c))
    BY <1>2, <1>3, <1>5, <1>7, <2>2
  <2> QED BY <2>3 DEF c
<1>8. CASE n # P(h)
  <2> DEFINE m == n - 1
  <2>1. m \in Words /\ HasHighest(m, h)
    <3>1. Words = 0 .. P(Width) - 1
      BY DEF Words, P
    <3> QED BY <1>2, <1>3, <1>4, <1>8, <3>1 DEF HasHighest
  <2>2. Smeared(m) = P(h + 1) - 1
    <3> HIDE DEF m
    <3> QED BY <2>1, SmearedIsMask
  <2>3. NextPowerOfTwo(n) = Word(P(h + 1))
    <3>1. ~(n = 0) /\ ~(And(n, n - 1) = 0)
      BY <1>1, <1>3, <1>8, AndTest
    <3>2. NextPowerOfTwo(n) = Word(Smeared(m) + 1)
      BY <3>1 DEF NextPowerOfTwo
    <3>3. Smeared(m) + 1 = P(h + 1)
      BY <1>3, <2>2
    <3> QED BY <3>2, <3>3
  <2>4. \A j \in Places : n <= P(j) => h + 1 <= j
    <3> SUFFICES ASSUME NEW j \in Places, n <= P(j) PROVE h + 1 <= j
      OBVIOUS
    <3>1. P(h) < P(j)
      BY <1>3, <1>6, <1>8
    <3>2. h < j
      BY <1>2, <1>6, <3>1, PowersGrow
    <3> QED BY <1>2, <1>6, <3>2
  <2> DEFINE c == NextPowerOfTwo(n)
  <2>5. c = P(h + 1) % P(Width)
    BY <1>4, <2>3
  <2> HIDE DEF c
  <2>6. CASE h + 1 < Width
    <3>1. h + 1 \in Places
      BY <1>2, <1>4, <2>6
    <3>2. P(h + 1) < P(Width)
      BY <1>2, <1>4, <2>6, PowersGrow
    <3>3. c = P(h + 1)
      <4>1. P(h + 1) \in 0 .. P(Width) - 1 /\ P(h + 1) = P(Width) * 0 + P(h + 1)
            /\ 0 \in Int /\ P(h + 1) \in Int
        BY <1>3, <1>4, <3>2
      <4> QED BY <1>4, <2>5, <4>1, DivisionIs
    <3>4. \A j \in Places : n <= P(j) => P(h + 1) <= P(j)
      BY <1>2, <1>6, <2>4, PowersGrow
    <3>5. n <= P(h + 1)
      BY <1>3
    <3>6. Rounded(n, Word(c))
      BY <1>5, <3>1, <3>3, <3>4, <3>5
    <3> QED BY <3>6 DEF c
  <2>7. CASE ~(h + 1 < Width)
    <3>1. h + 1 = Width
      BY <1>2, <1>4, <2>7
    <3>2. c = 0 /\ Word(c) = 0
      <4>1. P(Width) = P(Width) * 1 + 0 /\ 1 \in Int /\ 0 \in 0 .. P(Width) - 1
            /\ 0 = P(Width) * 0 + 0 /\ 0 \in Int /\ P(Width) \in Int
        BY <1>4
      <4>2. P(Width) % P(Width) = 0
        BY <1>4, <4>1, DivisionIs
      <4>3. 0 % P(Width) = 0
        BY <1>4, <4>1, DivisionIs
      <4> QED BY <1>4, <2>5, <3>1, <4>2, <4>3
    <3>3. \A j \in Places : ~(n <= P(j))
      BY <1>4, <1>6, <2>4, <3>1
    <3>4. {p \in Powers : p >= n} = {}
      <4> SUFFICES ASSUME NEW j \in Places, P(j) >= n PROVE FALSE
        BY <1>4
      <4> QED BY <1>3, <1>6, <3>3
    <3>5. Rounded(n, Word(c))
      BY <3>2, <3>4 DEF Rounded
    <3> QED BY <3>5 DEF c
  <2> QED BY <2>6, <2>7
<1> QED BY <1>7, <1>8
-----------------------------------------------------------------------------
(* The positions and the mask of a queue.                                  *)

(* Two numbers have the same rest just when their difference is a multiple.*)
LEMMA SameRest ==
    ASSUME NEW p \in Nat, p > 0, NEW a \in Int, NEW b \in Int
    PROVE  /\ \A q \in Int : a = b + p * q => a % p = b % p
           /\ a % p = b % p => \E q \in Int : a = b + p * q
<1> DEFINE s == a \div p
           t == b \div p
<1>1. a = p * s + (a % p) /\ s \in Int /\ a % p \in 0 .. p - 1
  BY Division
<1>2. b = p * t + (b % p) /\ t \in Int /\ b % p \in 0 .. p - 1
  BY Division
<1> HIDE DEF s, t
<1>3. ASSUME NEW q \in Int, a = b + p * q PROVE a % p = b % p
  <2> DEFINE r == b % p
             u == t + q
  <2> HIDE DEF r
  <2>1. r \in 0 .. p - 1 /\ b = p * t + r
    BY <1>2 DEF r
  <2>2. a = p * u + r /\ u \in Int
    BY <1>2, <1>3, <2>1
  <2> HIDE DEF u
  <2>3. a % p = r
    BY <2>1, <2>2, DivisionIs
  <2> QED BY <2>3 DEF r
<1>4. ASSUME a % p = b % p PROVE \E q \in Int : a = b + p * q
  <2> DEFINE r == b % p
  <2> HIDE DEF r
  <2>1. a = p * s + r /\ b = p * t + r /\ r \in Int
    BY <1>1, <1>2, <1>4 DEF r
  <2>2. s - t \in Int /\ a = b + p * (s - t)
    BY <1>1, <1>2, <2>1
  <2> QED BY <2>2
<1> QED BY <1>3, <1>4

LEMMA WordsAre ==
    /\ P(Width) \in Nat /\ P(Width) > 0 /\ Words = 0 .. P(Width) - 1
    /\ \A a : Word(a) = a % P(Width)
    /\ \A a \in Int : Word(a) \in Words
    /\ \A k \in Places : /\ k \in 0 .. Width /\ P(k) \in Nat /\ P(k) > 0
                         /\ P(k) < P(Width)
                         /\ P(k) \in Powers
    /\ \A p \in Powers : \E k \in Places : p = P(k)
<1>1. Width \in Nat /\ Width \in 0 .. Width /\ Places = 0 .. Width - 1
  BY Powered DEF Places
<1>2. /\ P(Width) \in Nat /\ P(Width) > 0 /\ Words = 0 .. P(Width) - 1
      /\ \A a : Word(a) = a % P(Width)
      /\ \A p : p \in Powers <=> \E k \in Places : p = P(k)
  BY <1>1, PowersPositive DEF Words, Word, Powers, P
<1>3. ASSUME NEW k \in Places
      PROVE k \in 0 .. Width /\ P(k) \in Nat /\ P(k) > 0 /\ P(k) < P(Width) /\ P(k) \in Powers
  <2>1. k \in 0 .. Width /\ k < Width
    BY <1>1
  <2> QED BY <1>1, <1>2, <2>1, PowersPositive, PowersGrow
<1>4. \A a \in Int : a % P(Width) \in 0 .. P(Width) - 1
  BY <1>2, Division
<1> QED BY <1>2, <1>3, <1>4

(* The mask of a queue whose capacity is a power of two.                   *)
LEMMA MaskedIsRest ==
    ASSUME NEW k \in Places, capacity = P(k), NEW x \in Int
    PROVE  Masked(x) = x % P(k)
<1>1. /\ k \in 0 .. Width /\ P(k) \in Nat /\ P(k) > 0 /\ P(k) < P(Width)
      /\ P(Width) \in Nat /\ Word(x) \in Words
      /\ \A a : Word(a) = a % P(Width)
  BY WordsAre
<1>2. Mask = P(k) - 1
  <2>1. P(k) - 1 \in 0 .. P(Width) - 1 /\ P(k) - 1 = P(Width) * 0 + (P(k) - 1)
        /\ 0 \in Int /\ P(k) - 1 \in Int /\ P(Width) > 0
    BY <1>1
  <2> DEFINE m == P(k) - 1
  <2> HIDE DEF m
  <2>2. m % P(Width) = m
    BY <1>1, <2>1, DivisionIs DEF m
  <2> QED BY <1>1, <2>2 DEF Mask, m
<1>3. Masked(x) = Word(x) % P(k)
  BY <1>1, <1>2, MaskIsRest DEF Masked
<1>4. PICK c \in Nat : c > 0 /\ P(Width) = 2 * (c * P(k))
  <2>1. Width \in 0 .. Width /\ k < Width
    BY Powered DEF Places
  <2> QED BY <1>1, <2>1, PowersDivide
<1>5. P(Width) = (2 * c) * P(k) /\ 2 * c \in Nat /\ 2 * c > 0
  BY <1>1, <1>4
<1> DEFINE e == 2 * c
           p == P(k)
<1> HIDE DEF e, p
<1>6. (x % (e * p)) % p = x % p
  BY <1>1, <1>5, RestOfRest DEF e, p
<1>7. Word(x) = x % (e * p)
  BY <1>1, <1>5 DEF e, p
<1> QED BY <1>3, <1>6, <1>7 DEF p

Counts == held \in Nat /\ head \in Words /\ tail \in Words /\ tail = Word(head + held)

LEMMA QueueReads ==
    ASSUME Counts, NEW k \in Places, capacity = P(k), held < capacity
    PROVE  /\ Size = held
           /\ IsFull <=> held = capacity - 1
           /\ IsEmpty <=> held = 0
<1> DEFINE p == P(k)
           w == P(Width)
<1>1. /\ p \in Nat /\ p > 0 /\ w \in Nat /\ w > 0 /\ p < w
      /\ head \in 0 .. w - 1 /\ tail \in 0 .. w - 1 /\ held \in 0 .. p - 1
      /\ tail = (head + held) % w
  BY WordsAre DEF Counts
<1>2. PICK c \in Nat : w = p * c
  <2>1. Width \in 0 .. Width /\ k \in 0 .. Width /\ k < Width
    BY Powered DEF Places
  <2>2. PICK c \in Nat : P(Width) = 2 * (c * P(k))
    BY <2>1, PowersDivide
  <2>3. 2 * c \in Nat /\ w = p * (2 * c)
    BY <1>1, <2>2
  <2> QED BY <2>3
<1>3. \A x \in Int : Masked(x) = x % p
  BY MaskedIsRest
<1>4. capacity = p
  OBVIOUS
<1> HIDE DEF p, w
<1>5. PICK q \in Int : head + held = tail + w * q
  <2>1. head + held \in Int /\ tail \in Int /\ (head + held) % w = tail % w
    <3>1. tail = w * 0 + tail /\ 0 \in Int /\ tail \in Int
      BY <1>1
    <3>2. tail % w = tail
      BY <1>1, <3>1, DivisionIs
    <3> QED BY <1>1, <3>2
  <2> DEFINE a == head + held
  <2>2. a \in Int /\ a % w = tail % w
    BY <2>1
  <2> HIDE DEF a
  <2>3. \E q \in Int : a = tail + w * q
    BY <1>1, <2>1, <2>2, SameRest
  <2> QED BY <2>3 DEF a
<1> DEFINE u == c * q
<1>6. u \in Int /\ head + held = tail + p * u
  <2>1. w * q = p * (c * q)
    BY <1>1, <1>2
  <2> QED BY <1>5, <2>1
<1> HIDE DEF u
<1>7. Size = held
  <2> DEFINE a == tail - head
             v == -u
  <2>1. a \in Int /\ v \in Int /\ held = held /\ a = p * v + held
    BY <1>1, <1>6
  <2> HIDE DEF a, v
  <2>2. a % p = held
    BY <1>1, <2>1, DivisionIs
  <2> QED BY <1>3, <2>1, <2>2 DEF Size, a
<1>8. IsFull <=> held = p - 1
  <2> DEFINE a == tail + 1
  <2>1. a \in Int /\ head \in Int /\ a = head + (held + 1 - p * u)
    BY <1>1, <1>6
  <2>2. IsFull <=> a % p = head % p
    BY <1>3, <2>1 DEF IsFull
  <2> HIDE DEF a
  <2>3. CASE held = p - 1
    <3> DEFINE v == 1 - u
    <3>1. v \in Int /\ a = head + p * v
      BY <1>1, <1>6, <2>1, <2>3
    <3> HIDE DEF v
    <3>2. a % p = head % p
      BY <1>1, <2>1, <3>1, SameRest
    <3> QED BY <2>2, <2>3, <3>2
  <2>4. CASE held # p - 1
    <3> SUFFICES ASSUME a % p = head % p PROVE FALSE
      BY <2>2, <2>4
    <3>1. PICK v \in Int : a = head + p * v
      BY <1>1, <2>1, SameRest
    <3> DEFINE z == v + u
    <3>2. z \in Int /\ held + 1 = p * z
      BY <1>1, <1>6, <2>1, <3>1
    <3> HIDE DEF z
    <3>3. held + 1 \in 1 .. p - 1
      BY <1>1, <2>4
    <3>4. CASE z >= 1
      BY <1>1, <3>2, <3>3, <3>4
    <3>5. CASE z <= 0
      BY <1>1, <3>2, <3>3, <3>5
    <3> QED BY <3>2, <3>4, <3>5
  <2> QED BY <2>3, <2>4
<1>9. IsEmpty <=> held = 0
  <2>1. CASE held = 0
    <3>1. head + held = head /\ head = w * 0 + head /\ 0 \in Int /\ head \in Int
      BY <1>1, <2>1
    <3>2. head % w = head
      BY <1>1, <3>1, DivisionIs
    <3> QED BY <1>1, <2>1, <3>1, <3>2 DEF IsEmpty
  <2>2. CASE held # 0
    <3>1. Size = held /\ Size = (tail - head) % p
      BY <1>1, <1>3, <1>7 DEF Size
    <3>2. 0 % p = 0
      <4>1. 0 = p * 0 + 0 /\ 0 \in Int /\ 0 \in 0 .. p - 1
        BY <1>1
      <4> QED BY <1>1, <4>1, DivisionIs
    <3>3. tail = head => tail - head = 0
      BY <1>1
    <3> QED BY <2>2, <3>1, <3>2, <3>3 DEF IsEmpty
  <2> QED BY <2>1, <2>2
<1> QED BY <1>4, <1>7, <1>8, <1>9

(* The inductive invariant: the tail is the head plus the items, wrapped;  *)
(* a capacity is as the request rounds up to, and the items have room.     *)
Asked == IF requested = 0 THEN Default ELSE requested

CapacityInv ==
    /\ Counts
    /\ requested = NoQueue => held = 0
    /\ requested # NoQueue => /\ Asked \in Words /\ Asked > 0
                              /\ Rounded(Asked, capacity)
                              /\ capacity # 0 => held < capacity
                              /\ capacity = 0 => held = 0

LEMMA RoundedIsPower ==
    ASSUME NEW asked, NEW c, Rounded(asked, c), c # 0
    PROVE  \E k \in Places : c = P(k)
BY WordsAre DEF Rounded

LEMMA CapacityStarts == CapacityInit => CapacityInv
<1> SUFFICES ASSUME CapacityInit PROVE CapacityInv
  OBVIOUS
<1>1. requested = NoQueue /\ head = 0 /\ tail = 0 /\ held = 0 /\ 0 + 0 = 0
  BY DEF CapacityInit
<1>2. 0 \in Words /\ Word(0) = 0
  <2>1. P(Width) \in Nat /\ P(Width) > 0 /\ Words = 0 .. P(Width) - 1 /\ Word(0) = 0 % P(Width)
    BY WordsAre
  <2>2. 0 = P(Width) * 0 + 0 /\ 0 \in Int /\ 0 \in 0 .. P(Width) - 1
    BY <2>1
  <2>3. 0 % P(Width) = 0
    BY <2>1, <2>2, DivisionIs
  <2> QED BY <2>1, <2>2, <2>3
<1> QED BY <1>1, <1>2 DEF CapacityInv, Counts

LEMMA DefaultIsWord == Default \in Words /\ Default > 0
<1>1. P(0) = 1 /\ P(1) = 2 /\ P(2) = 4 /\ P(3) = 8 /\ P(4) = 16 /\ P(5) = 32
  <2>1. 0 \in Places /\ 1 \in Places /\ 2 \in Places /\ 3 \in Places /\ 4 \in Places
    BY Powered DEF Places
  <2>2. \A k \in Places : P(k + 1) = 2 * P(k)
    BY Powered DEF Places
  <2>3. P(0) = 1 /\ P(0 + 1) = 2 * P(0) /\ P(1 + 1) = 2 * P(1) /\ P(2 + 1) = 2 * P(2)
        /\ P(3 + 1) = 2 * P(3) /\ P(4 + 1) = 2 * P(4)
    BY <2>1, <2>2, Powered
  <2> QED BY <2>3
<1>2. 5 \in 0 .. Width /\ Width \in 0 .. Width /\ 5 <= Width
  BY Powered
<1>3. P(5) <= P(Width)
  BY <1>2, PowersGrow
<1> QED BY <1>1, <1>3, WordsAre DEF Default

LEMMA NextWord ==
    ASSUME NEW a \in Int
    PROVE  Word(Word(a) + 1) = Word(a + 1)
<1> DEFINE w == P(Width)
           t == a \div w
           r == a % w
           b == a + 1
           c == r + 1
<1>1. w \in Nat /\ w > 0 /\ \A x : Word(x) = x % w
  BY WordsAre
<1> HIDE DEF w
<1>2. a = w * t + r /\ t \in Int /\ r \in 0 .. w - 1
  BY <1>1, Division
<1> HIDE DEF t, r
<1>3. b \in Int /\ c \in Int /\ b = c + w * t
  BY <1>1, <1>2
<1> HIDE DEF b, c
<1>4. b % w = c % w
  BY <1>1, <1>2, <1>3, SameRest
<1> QED BY <1>1, <1>4 DEF b, c, r

LEMMA CapacityStep == CapacityInv /\ [CapacityNext]_capacityVars => CapacityInv'
<1> SUFFICES ASSUME CapacityInv, [CapacityNext]_capacityVars PROVE CapacityInv'
  OBVIOUS
<1>1. /\ held \in Nat /\ head \in Words /\ tail \in Words /\ tail = Word(head + held)
      /\ Words \subseteq Nat
  BY WordsAre DEF CapacityInv, Counts
<1>2. ASSUME NEW n \in Words, NewLockFreeQueue(n) PROVE CapacityInv'
  <2> DEFINE asked == IF n = 0 THEN Default ELSE n
  <2>1. /\ requested = NoQueue /\ requested' = n
        /\ capacity' = Word(NextPowerOfTwo(asked))
        /\ head' = head /\ tail' = tail /\ held' = held
    BY <1>2 DEF NewLockFreeQueue
  <2>2. asked \in Words /\ asked > 0 /\ n # NoQueue
    BY <1>1, DefaultIsWord DEF NoQueue
  <2>3. Asked' = asked
    BY <2>1 DEF Asked
  <2> HIDE DEF asked
  <2>4. Rounded(asked, capacity')
    BY <2>1, <2>2, NextIsRounded
  <2>5. held = 0
    BY <2>1 DEF CapacityInv
  <2>6. capacity' # 0 => 0 < capacity'
    <3> SUFFICES ASSUME capacity' # 0 PROVE 0 < capacity'
      OBVIOUS
    <3>1. PICK k \in Places : capacity' = P(k)
      BY <2>4, RoundedIsPower
    <3> QED BY <3>1, WordsAre
  <2>7. Rounded(Asked, capacity)'
    BY <2>3, <2>4 DEF Rounded, Powers
  <2> QED BY <1>1, <2>1, <2>2, <2>3, <2>5, <2>6, <2>7 DEF CapacityInv, Counts
<1>3. ASSUME Usable PROVE \E k \in Places : capacity = P(k) /\ held < capacity
  <2>1. Rounded(Asked, capacity) /\ capacity # 0 /\ held < capacity
    BY <1>3 DEF Usable, CapacityInv
  <2> QED BY <2>1, RoundedIsPower
<1>4. CASE Enqueue
  <2>1. /\ Usable /\ ~IsFull /\ tail' = Word(tail + 1) /\ held' = held + 1
        /\ requested' = requested /\ capacity' = capacity /\ head' = head
    BY <1>4 DEF Enqueue
  <2>2. PICK k \in Places : capacity = P(k) /\ held < capacity
    BY <1>3, <2>1
  <2>3. held # capacity - 1 /\ capacity \in Nat
    BY <2>1, <2>2, QueueReads, WordsAre DEF CapacityInv
  <2>4. held' \in Nat /\ held' < capacity
    BY <1>1, <2>1, <2>2, <2>3
  <2>5. tail' = Word(head + held')
    <3> DEFINE a == head + held
    <3>1. a \in Int /\ a + 1 = head + held' /\ tail = Word(a)
      BY <1>1, <2>1
    <3> HIDE DEF a
    <3>2. Word(Word(a) + 1) = Word(a + 1)
      BY <3>1, NextWord
    <3> QED BY <2>1, <3>1, <3>2
  <2>6. tail' \in Words
    BY <1>1, <2>1, WordsAre
  <2>7. Asked' = Asked
    BY <2>1 DEF Asked
  <2>8. Counts'
    BY <1>1, <2>1, <2>4, <2>5, <2>6 DEF Counts
  <2>9. /\ requested # NoQueue /\ capacity # 0 /\ Asked \in Words /\ Asked > 0
        /\ Rounded(Asked, capacity)
    BY <2>1 DEF Usable, CapacityInv
  <2>10. Rounded(Asked, capacity)'
    BY <2>1, <2>7, <2>9 DEF Rounded, Powers
  <2> QED BY <2>1, <2>4, <2>7, <2>8, <2>9, <2>10 DEF CapacityInv
<1>5. CASE Dequeue
  <2>1. /\ Usable /\ ~IsEmpty /\ head' = Word(head + 1) /\ held' = held - 1
        /\ requested' = requested /\ capacity' = capacity /\ tail' = tail
    BY <1>5 DEF Dequeue
  <2>2. PICK k \in Places : capacity = P(k) /\ held < capacity
    BY <1>3, <2>1
  <2>3. held # 0 /\ capacity \in Nat
    BY <2>1, <2>2, QueueReads, WordsAre DEF CapacityInv
  <2>4. held' \in Nat /\ held' < capacity
    BY <1>1, <2>1, <2>2, <2>3
  <2>5. tail' = Word(head' + held')
    <3> DEFINE w == P(Width)
               h == head + 1
               t == h \div w
               r == h % w
               a == head + held
               b == r + held'
    <3>1. w \in Nat /\ w > 0 /\ \A x : Word(x) = x % w
      BY WordsAre
    <3>2. h \in Int
      BY <1>1
    <3> HIDE DEF w, h
    <3>3. h = w * t + r /\ t \in Int /\ r \in 0 .. w - 1
      BY <3>1, <3>2, Division
    <3> HIDE DEF t, r
    <3>4. a \in Int /\ b \in Int /\ a = b + w * t
      BY <1>1, <2>1, <2>4, <3>1, <3>3 DEF h
    <3>5. head' + held' = b
      BY <2>1, <3>1 DEF r, h
    <3> HIDE DEF b, a
    <3>6. a % w = b % w
      BY <3>1, <3>3, <3>4, SameRest
    <3> QED BY <1>1, <2>1, <3>1, <3>5, <3>6 DEF a
  <2>6. head' \in Words
    BY <1>1, <2>1, WordsAre
  <2>7. Asked' = Asked
    BY <2>1 DEF Asked
  <2>8. Counts'
    BY <1>1, <2>1, <2>4, <2>5, <2>6 DEF Counts
  <2>9. /\ requested # NoQueue /\ capacity # 0 /\ Asked \in Words /\ Asked > 0
        /\ Rounded(Asked, capacity)
    BY <2>1 DEF Usable, CapacityInv
  <2>10. Rounded(Asked, capacity)'
    BY <2>1, <2>7, <2>9 DEF Rounded, Powers
  <2> QED BY <2>1, <2>4, <2>7, <2>8, <2>9, <2>10 DEF CapacityInv
<1>6. CASE UNCHANGED capacityVars
  <2>1. /\ requested' = requested /\ capacity' = capacity /\ head' = head
        /\ tail' = tail /\ held' = held
    BY <1>6 DEF capacityVars
  <2>2. Counts' /\ Asked' = Asked
    BY <1>1, <2>1 DEF Counts, Asked
  <2>3. Rounded(Asked, capacity) => Rounded(Asked, capacity)'
    BY <2>1, <2>2 DEF Rounded, Powers
  <2> QED BY <2>1, <2>2, <2>3 DEF CapacityInv
<1> QED BY <1>2, <1>4, <1>5, <1>6 DEF CapacityNext

(* Whatever capacity is asked for, and however often the positions wrap:   *)
(* the tail is the head plus the items, and the items have room.           *)
THEOREM PositionsAreSound == CapacitySpec => []CapacityInv
<1> QED BY CapacityStarts, CapacityStep, PTL DEF CapacitySpec

(* For words of 5 to 64 bits: the shifts of nextPowerOfTwo round up to the *)
(* least power of two, or to 0 if it has no place in a word, and with such *)
(* a capacity the masked positions count the items (queue.go:104-151).     *)
THEOREM CapacityRoundsUp == CapacitySpec => []CapacityIsRoundedUp
<1>1. CapacityInv => CapacityIsRoundedUp
  <2> SUFFICES ASSUME CapacityInv, requested # NoQueue
               PROVE  LET enough == {p \in Powers : p >= Asked}
                      IN  IF enough = {} THEN capacity = 0
                          ELSE /\ capacity \in enough /\ \A p \in enough : capacity <= p
                               /\ Size = held
                               /\ IsFull <=> held = capacity - 1
                               /\ IsEmpty <=> held = 0
    BY DEF CapacityIsRoundedUp, Asked
  <2> DEFINE enough == {p \in Powers : p >= Asked}
  <2>1. IF enough = {} THEN capacity = 0
        ELSE capacity \in enough /\ \A p \in enough : capacity <= p
    BY DEF CapacityInv, Rounded
  <2>2. CASE enough = {}
    BY <2>1, <2>2
  <2>3. CASE enough # {}
    <3>1. capacity \in Powers
      BY <2>1, <2>3
    <3>2. PICK k \in Places : capacity = P(k)
      BY <3>1, WordsAre
    <3>3. capacity # 0
      BY <3>2, WordsAre
    <3>4. Counts /\ held < capacity
      BY <3>3 DEF CapacityInv
    <3>5. /\ Size = held
          /\ IsFull <=> held = capacity - 1
          /\ IsEmpty <=> held = 0
      BY <3>2, <3>4, QueueReads
    <3> HIDE DEF enough
    <3> QED BY <2>1, <2>3, <3>5 DEF enough
  <2> QED BY <2>2, <2>3
<1> QED BY <1>1, PositionsAreSound, PTL
=============================================================================
