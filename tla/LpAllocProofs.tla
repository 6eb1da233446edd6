---------------------------- MODULE LpAllocProofs ----------------------------
(***************************************************************************)
(* The allocator, for every block-device table and every list of extents:  *)
(* what its scans find, that what one promises another grants, and that a  *)
(* spanning plan exists exactly when the devices have the space.  In this  *)
(* order: arithmetic (AlignUp answers the least sector in phase), the      *)
(* sorted view of a device's extents, find_free_sectors, largest_free_run, *)
(* plan_spanning_allocation.  Each scan is a recursive function; what it   *)
(* has found after k extents is an invariant (CandidateInv, GapInv,        *)
(* SpanInv), kept by induction on k.                                       *)
(***************************************************************************)
EXTENDS LpAlloc, FiniteSetTheorems, FunctionTheorems, TLAPS

----------------------------------------------------------------------------
\* Remainders.

LEMMA DivMod ==
  ASSUME NEW a \in Nat, NEW b \in Nat \ {0}
  PROVE  /\ a \div b \in Nat /\ a % b \in Nat /\ a % b < b
         /\ a = b * (a \div b) + (a % b)
BY SMT

LEMMA TimesMono ==
  ASSUME NEW b \in Nat, NEW p \in Int, NEW q \in Int, p < q
  PROVE  b * p + b <= b * q
<1> DEFINE k == q - p - 1
<1>1. k \in Nat /\ q = p + 1 + k
  OBVIOUS
<1> HIDE DEF k
<1>2. b * q = b * p + b + b * k
  BY <1>1
<1>3. b * k \in Nat /\ b * p \in Int
  BY <1>1
<1> QED
  BY <1>2, <1>3

LEMMA ModUnique ==
  ASSUME NEW b \in Nat \ {0}, NEW q \in Nat, NEW r \in Nat, r < b
  PROVE  (b * q + r) % b = r
<1> DEFINE a == b * q + r
           p == a \div b
           m == a % b
<1>1. a \in Nat
  OBVIOUS
<1>2. p \in Nat /\ m \in Nat /\ m < b /\ a = b * p + m
  BY <1>1, DivMod
<1>3. a = b * q + r /\ b * p \in Nat /\ b * q \in Nat
  BY <1>2
<1> HIDE DEF a, p, m
<1>4. p = q
  <2>1. ~(p < q)
    <3> SUFFICES ASSUME p < q PROVE FALSE
      OBVIOUS
    <3>1. b * p + b <= b * q
      BY <1>2, TimesMono
    <3> QED
      BY <1>2, <1>3, <3>1
  <2>2. ~(q < p)
    <3> SUFFICES ASSUME q < p PROVE FALSE
      OBVIOUS
    <3>1. b * q + b <= b * p
      BY <1>2, TimesMono
    <3> QED
      BY <1>2, <1>3, <3>1
  <2> QED
    BY <1>2, <2>1, <2>2
<1>5. m = r
  BY <1>2, <1>3, <1>4
<1> QED
  BY <1>5 DEF a, m

LEMMA ModScale ==
  ASSUME NEW v \in Nat, NEW a \in Nat \ {0}, NEW k \in Nat \ {0}
  PROVE  (v * k) % (a * k) = (v % a) * k
<1> DEFINE q == v \div a
           r == v % a
<1>1. q \in Nat /\ r \in Nat /\ r < a /\ v = a * q + r
  BY DivMod
<1> HIDE DEF q, r
<1>2. v * k = (a * k) * q + r * k
  BY <1>1
<1>3. r * k \in Nat /\ a * k \in Nat \ {0}
  BY <1>1
<1>4. r * k < a * k
  <2>1. k * r + k <= k * a
    BY <1>1, TimesMono
  <2> QED
    BY <1>1, <2>1
<1>5. ((a * k) * q + r * k) % (a * k) = r * k
  BY <1>1, <1>3, <1>4, ModUnique
<1> QED
  BY <1>2, <1>5 DEF r

----------------------------------------------------------------------------
\* AlignUp answers the least sector on the phase.

DevRec == [first : Nat, size : Nat, alignment : Nat, offset : Nat]

RoundedUp(v, c, o) == v + IF (v % c) <= o THEN o - (v % c) ELSE c + o - (v % c)

LEMMA RoundUp ==
  ASSUME NEW v \in Nat, NEW c \in Nat \ {0}, NEW o \in Nat, o < c
  PROVE  /\ RoundedUp(v, c, o) \in Nat
         /\ RoundedUp(v, c, o) >= v
         /\ RoundedUp(v, c, o) % c = o
         /\ \A u \in Nat : u >= v /\ u % c = o => RoundedUp(v, c, o) <= u
<1> DEFINE q == v \div c
           r == v % c
           w == RoundedUp(v, c, o)
<1>1. q \in Nat /\ r \in Nat /\ r < c /\ v = c * q + r
  BY DivMod
<1>2. w = v + IF r <= o THEN o - r ELSE c + o - r
  BY DEF RoundedUp
<1> HIDE DEF q, r, w
<1>3. w \in Nat /\ w >= v
  BY <1>1, <1>2
<1>4. CASE r <= o
  <2>1. w = c * q + o
    BY <1>1, <1>2, <1>4
  <2>2. w % c = o
    BY <1>1, <2>1, ModUnique
  <2>3. ASSUME NEW u \in Nat, u >= v, u % c = o PROVE w <= u
    <3> DEFINE p == u \div c
    <3>1. p \in Nat /\ u = c * p + o
      BY <2>3, DivMod
    <3> HIDE DEF p
    <3> SUFFICES ASSUME u < w PROVE FALSE
      BY <1>3
    <3>2. CASE p < q
      <4>1. c * p + c <= c * q /\ c * p \in Nat /\ c * q \in Nat
        BY <1>1, <3>1, <3>2, TimesMono
      <4> QED
        BY <1>1, <2>3, <3>1, <4>1
    <3>3. CASE p > q
      <4>1. c * q + c <= c * p /\ c * p \in Nat /\ c * q \in Nat
        BY <1>1, <3>1, <3>3, TimesMono
      <4> QED
        BY <1>1, <2>1, <3>1, <4>1
    <3>4. CASE p = q
      BY <1>3, <2>1, <3>1, <3>4
    <3> QED
      BY <1>1, <3>1, <3>2, <3>3, <3>4
  <2> QED
    BY <1>3, <2>2, <2>3 DEF w
<1>5. CASE ~(r <= o)
  <2>1. w = c * (q + 1) + o /\ c * (q + 1) = c * q + c /\ q + 1 \in Nat
    BY <1>1, <1>2, <1>5
  <2>2. w % c = o
    BY <2>1, ModUnique
  <2>3. ASSUME NEW u \in Nat, u >= v, u % c = o PROVE w <= u
    <3> DEFINE p == u \div c
    <3>1. p \in Nat /\ u = c * p + o
      BY <2>3, DivMod
    <3> HIDE DEF p
    <3>2. CASE p > q
      <4>1. c * q + c <= c * p /\ c * p \in Nat /\ c * q \in Nat
        BY <1>1, <3>1, <3>2, TimesMono
      <4> QED
        BY <2>1, <3>1, <4>1
    <3>3. CASE p <= q
      <4>1. c * p <= c * q /\ c * p \in Nat /\ c * q \in Nat
        <5>1. CASE p = q
          BY <1>1, <3>1, <5>1
        <5>2. CASE p < q
          BY <1>1, <3>1, <5>2, TimesMono
        <5> QED
          BY <1>1, <3>1, <3>3, <5>1, <5>2
      <4>2. u < v
        BY <1>1, <1>5, <3>1, <4>1
      <4> QED
        BY <2>3, <4>2
    <3> QED
      BY <1>1, <3>1, <3>2, <3>3
  <2> QED
    BY <1>3, <2>2, <2>3 DEF w
<1> QED
  BY <1>4, <1>5

LEMMA AlignedFacts ==
  ASSUME NEW dev \in DevRec, NEW v \in Nat
  PROVE  /\ Aligned(dev, v) \in Nat
         /\ Aligned(dev, v) >= v
         /\ InPhase(dev, Aligned(dev, v))
         /\ \A u \in Nat : u >= v /\ InPhase(dev, u) => Aligned(dev, v) <= u
<1> DEFINE al == dev.alignment
           off == dev.offset % al
           S == (al + SECTOR - 1) \div SECTOR
           a == al \div SECTOR
           o == off \div SECTOR
<1>1. al \in Nat /\ dev.offset \in Nat /\ SECTOR \in Nat \ {0}
  BY DEF DevRec, SECTOR
<1>2. CASE al = 0
  BY <1>2, <1>1 DEF Aligned, AlignUp, InPhase
<1>3. CASE al # 0 /\ WholeSectors(dev)
  <2>1. off \in Nat /\ off < al
    BY <1>1, <1>3, DivMod
  <2>2. al % SECTOR = 0 /\ off % SECTOR = 0
    BY <1>3 DEF WholeSectors
  <2> HIDE DEF al, off
  <2>3. a \in Nat /\ al = SECTOR * a
    BY <1>1, <2>2, DivMod
  <2>4. o \in Nat /\ off = SECTOR * o
    BY <1>1, <2>1, <2>2, DivMod
  <2> HIDE DEF a, o
  <2>5. a \in Nat \ {0} /\ o < a
    BY <2>1, <2>3, <2>4 DEF SECTOR
  <2>6. \A u \in Nat : (u * SECTOR) % al = (u % a) * SECTOR
    <3>1. ASSUME NEW u \in Nat PROVE (u * SECTOR) % (a * SECTOR) = (u % a) * SECTOR
      BY <1>1, <2>5, ModScale
    <3>2. al = a * SECTOR
      BY <1>1, <2>3, <2>5
    <3> QED
      BY <3>1, <3>2
  <2>7. \A u \in Nat : (u % a) \in Nat /\ (u % a) < a
    BY <2>5, DivMod
  <2>8. Aligned(dev, v) = RoundedUp(v, a, o)
    <3> DEFINE r == v % a
               rem == (v * SECTOR) % al
               shift == IF rem <= off THEN off - rem ELSE al + off - rem
    <3>1. Aligned(dev, v) = v + (shift \div SECTOR)
      BY <1>3, <2>2 DEF Aligned, AlignUp, al, off
    <3>2. rem = r * SECTOR /\ r \in Nat /\ r < a
      BY <2>6, <2>7
    <3>3. RoundedUp(v, a, o) = v + IF r <= o THEN o - r ELSE a + o - r
      BY DEF RoundedUp
    <3> HIDE DEF r, rem
    <3>4. CASE r <= o
      <4>1. shift = SECTOR * (o - r) /\ o - r \in Nat
        BY <2>4, <3>2, <3>4 DEF SECTOR
      <4>2. shift \div SECTOR = o - r
        BY <4>1 DEF SECTOR
      <4> QED
        BY <3>1, <3>3, <3>4, <4>2
    <3>5. CASE ~(r <= o)
      <4>1. shift = SECTOR * (a + o - r) /\ a + o - r \in Nat
        BY <2>3, <2>4, <2>5, <3>2, <3>5 DEF SECTOR
      <4>2. shift \div SECTOR = a + o - r
        BY <4>1 DEF SECTOR
      <4> QED
        BY <3>1, <3>3, <3>5, <4>2
    <3> QED
      BY <3>4, <3>5
  <2>9. \A u \in Nat : InPhase(dev, u) <=> u % a = o
    <3> SUFFICES ASSUME NEW u \in Nat PROVE InPhase(dev, u) <=> u % a = o
      OBVIOUS
    <3>1. InPhase(dev, u) <=> (u * SECTOR) % al = off
      BY <1>3 DEF InPhase, al, off
    <3>2. (u * SECTOR) % al = off <=> u % a = o
      <4> DEFINE r == u % a
      <4>1. (u * SECTOR) % al = r * SECTOR /\ r \in Nat
        BY <2>6, <2>7
      <4> HIDE DEF r
      <4>2. r * SECTOR = SECTOR * o <=> r = o
        BY <2>4, <4>1 DEF SECTOR
      <4> QED
        BY <2>4, <4>1, <4>2 DEF r
    <3> QED
      BY <3>1, <3>2
  <2>10. /\ RoundedUp(v, a, o) \in Nat
         /\ RoundedUp(v, a, o) >= v
         /\ RoundedUp(v, a, o) % a = o
         /\ \A u \in Nat : u >= v /\ u % a = o => RoundedUp(v, a, o) <= u
    BY <2>4, <2>5, RoundUp
  <2> QED
    BY <2>8, <2>9, <2>10
<1>4. CASE al # 0 /\ ~WholeSectors(dev)
  <2>1. S \in Nat \ {0}
    BY <1>1, <1>4 DEF SECTOR
  <2>2. Aligned(dev, v) = IF v % S = 0 THEN v ELSE v + S - (v % S)
    BY <1>4 DEF Aligned, AlignUp, WholeSectors
  <2>3. \A u \in Nat : InPhase(dev, u) <=> u % S = 0
    BY <1>4 DEF InPhase
  <2> HIDE DEF S
  <2>4. (v % S) \in Nat /\ (v % S) < S
    BY <2>1, DivMod
  <2>5. Aligned(dev, v) = RoundedUp(v, S, 0)
    BY <2>1, <2>2, <2>4 DEF RoundedUp
  <2>6. /\ RoundedUp(v, S, 0) \in Nat
        /\ RoundedUp(v, S, 0) >= v
        /\ RoundedUp(v, S, 0) % S = 0
        /\ \A u \in Nat : u >= v /\ u % S = 0 => RoundedUp(v, S, 0) <= u
    BY <2>1, RoundUp
  <2> QED
    BY <2>3, <2>5, <2>6
<1> QED
  BY <1>2, <1>3, <1>4
----------------------------------------------------------------------------
\* The sort: the extents of a device, each once, in the order of their starts.

ExtRec == [num : Nat, type : {Linear, Zero}, data : Nat, source : Nat]

\* Rank numbers them from 0 without gaps.
LEMMA RankFacts ==
  ASSUME NEW exts \in Seq(ExtRec), NEW d
  PROVE  /\ Cardinality(Used(exts, d)) \in Nat
         /\ \A i \in Used(exts, d) : exts[i] \in ExtRec
         /\ \A i, j \in Used(exts, d) :
              Precedes(exts, i, j) => Rank(exts, d, i) < Rank(exts, d, j)
         /\ \A i \in Used(exts, d) : Rank(exts, d, i) \in 0 .. Cardinality(Used(exts, d)) - 1
         /\ \A k \in 0 .. Cardinality(Used(exts, d)) - 1 :
              \E i \in Used(exts, d) : Rank(exts, d, i) = k
<1> DEFINE U == Used(exts, d)
           n == Cardinality(U)
           R(i) == {j \in U : Precedes(exts, j, i)}
           f == [i \in U |-> Rank(exts, d, i)]
<1>1. /\ U \subseteq 1 .. Len(exts) /\ Len(exts) \in Nat
      /\ \A i \in U : i \in Nat /\ exts[i] \in ExtRec /\ exts[i].data \in Nat
  <2>1. \A i \in 1 .. Len(exts) : i \in Nat /\ exts[i] \in ExtRec
    OBVIOUS
  <2>2. \A e \in ExtRec : e.data \in Nat
    BY DEF ExtRec
  <2>3. U \subseteq 1 .. Len(exts) /\ Len(exts) \in Nat
    BY DEF Used
  <2> QED
    BY <2>1, <2>2, <2>3
<1>2. IsFiniteSet(U) /\ n \in Nat
  <2>1. IsFiniteSet(1 .. Len(exts))
    BY <1>1, FS_Interval
  <2> QED
    BY <1>1, <2>1, FS_Subset, FS_CardinalityType
<1>3. \A i : Rank(exts, d, i) = Cardinality(R(i)) /\ R(i) \subseteq U
  BY DEF Rank
<1>4. \A i : IsFiniteSet(R(i)) /\ Cardinality(R(i)) \in Nat
  BY <1>2, <1>3, FS_Subset, FS_CardinalityType
<1> HIDE DEF n, R
<1>5. ASSUME NEW i \in U PROVE Cardinality(R(i)) < n
  <2>1. R(i) \subseteq U \ {i}
    BY <1>1 DEF Precedes, R
  <2>2. IsFiniteSet(U \ {i}) /\ Cardinality(U \ {i}) = n - 1
    BY <1>2, FS_RemoveElement DEF n
  <2>3. Cardinality(R(i)) <= n - 1
    BY <2>1, <2>2, FS_Subset
  <2> QED
    BY <1>2, <1>4, <2>3
<1>6. ASSUME NEW i \in U, NEW j \in U, Precedes(exts, i, j)
      PROVE  Cardinality(R(i)) < Cardinality(R(j))
  <2>1. i \in R(j) /\ i \notin R(i) /\ R(i) \subseteq R(j)
    BY <1>1, <1>6 DEF Precedes, R
  <2>2. Cardinality(R(j) \ {i}) = Cardinality(R(j)) - 1 /\ IsFiniteSet(R(j) \ {i})
    BY <1>4, <2>1, FS_RemoveElement
  <2>3. R(i) \subseteq R(j) \ {i}
    BY <2>1
  <2>4. Cardinality(R(i)) <= Cardinality(R(j) \ {i})
    BY <2>2, <2>3, FS_Subset
  <2> QED
    BY <1>4, <2>2, <2>4
<1>7. \A i \in U : \A j \in U : i # j => Precedes(exts, i, j) \/ Precedes(exts, j, i)
  BY <1>1 DEF Precedes
<1>8. f \in Injection(U, 0 .. n - 1)
  <2>1. \A i \in U : f[i] = Cardinality(R(i))
    BY <1>3
  <2>2. ASSUME NEW i \in U PROVE f[i] \in 0 .. n - 1
    BY <1>2, <1>4, <1>5, <2>1
  <2>3. ASSUME NEW i \in U, NEW j \in U, f[i] = f[j] PROVE i = j
    <3> SUFFICES ASSUME i # j PROVE FALSE
      OBVIOUS
    <3>1. Cardinality(R(i)) = Cardinality(R(j)) /\ Cardinality(R(i)) \in Nat
      BY <1>4, <2>1, <2>3
    <3> QED
      BY <1>6, <1>7, <3>1
  <2>4. f \in [U -> 0 .. n - 1]
    BY <2>2
  <2> HIDE DEF f
  <2> QED
    BY <2>3, <2>4 DEF Injection, IsInjective
<1>9. f \in Surjection(U, 0 .. n - 1)
  <2>1. IsFiniteSet(0 .. n - 1) /\ Cardinality(0 .. n - 1) = n
    BY <1>2, FS_Interval
  <2> QED
    BY <1>8, <2>1, FS_Injection DEF n
<1>10. \A k \in 0 .. n - 1 : \E i \in U : f[i] = k
  BY <1>9 DEF Surjection
<1>11. \A i \in U : f[i] = Rank(exts, d, i) /\ f[i] \in 0 .. n - 1
  BY <1>8 DEF Injection
<1>12. \A i, j \in U : Precedes(exts, i, j) => Rank(exts, d, i) < Rank(exts, d, j)
  BY <1>3, <1>6
<1> QED
  BY <1>1, <1>2, <1>10, <1>11, <1>12 DEF n

\* A list is a sorted view of a set of extents.
SortedOf(u, exts, d) ==
  /\ Len(u) \in Nat
  /\ \A k \in 1 .. Len(u) : \E i \in Used(exts, d) : u[k] = exts[i]
  /\ \A i \in Used(exts, d) : \E k \in 1 .. Len(u) : u[k] = exts[i]
  /\ \A j, k \in 1 .. Len(u) : j <= k => u[j].data <= u[k].data
  /\ \A k \in 1 .. Len(u) : u[k] \in ExtRec

LEMMA CollectIsSorted ==
  ASSUME NEW exts \in Seq(ExtRec), NEW d
  PROVE  SortedOf(CollectUsed(exts, d), exts, d)
<1> DEFINE U == Used(exts, d)
           n == Cardinality(U)
           At(k) == CHOOSE i \in U : Rank(exts, d, i) = k - 1
           u == CollectUsed(exts, d)
<1>1. /\ n \in Nat
      /\ \A i \in U : exts[i] \in ExtRec
      /\ \A i, j \in U : Precedes(exts, i, j) => Rank(exts, d, i) < Rank(exts, d, j)
      /\ \A i \in U : Rank(exts, d, i) \in 0 .. n - 1
      /\ \A k \in 0 .. n - 1 : \E i \in U : Rank(exts, d, i) = k
  BY RankFacts
<1>2. \A i \in U : i \in Nat /\ exts[i].data \in Nat
  BY <1>1 DEF Used, ExtRec
<1>3. u = [k \in 1 .. n |-> exts[At(k)]]
  BY DEF CollectUsed
<1> HIDE DEF U, n, u
<1>4. \A k \in 1 .. n : At(k) \in U /\ Rank(exts, d, At(k)) = k - 1
  <2> SUFFICES ASSUME NEW k \in 1 .. n PROVE At(k) \in U /\ Rank(exts, d, At(k)) = k - 1
    OBVIOUS
  <2>1. k - 1 \in 0 .. n - 1
    BY <1>1
  <2>2. \E i \in U : Rank(exts, d, i) = k - 1
    BY <1>1, <2>1
  <2> QED
    BY <2>2
<1>5. Len(u) = n /\ \A k \in 1 .. n : u[k] = exts[At(k)]
  <2> HIDE DEF At
  <2> QED
    BY <1>1, <1>3
<1> HIDE DEF At
<1>6. ASSUME NEW i \in U PROVE \E k \in 1 .. n : u[k] = exts[i]
  <2> DEFINE k == Rank(exts, d, i) + 1
  <2>1. k \in 1 .. n /\ Rank(exts, d, i) = k - 1 /\ Rank(exts, d, i) \in Int
    BY <1>1
  <2>2. At(k) \in U /\ Rank(exts, d, At(k)) = Rank(exts, d, i)
    BY <1>4, <2>1
  <2> HIDE DEF k
  <2>3. ~Precedes(exts, i, At(k)) /\ ~Precedes(exts, At(k), i)
    BY <1>1, <2>1, <2>2
  <2>4. At(k) = i
    BY <1>2, <2>2, <2>3 DEF Precedes
  <2> QED
    BY <1>5, <2>1, <2>4
<1>7. ASSUME NEW j \in 1 .. n, NEW k \in 1 .. n, j <= k PROVE u[j].data <= u[k].data
  <2>1. ~Precedes(exts, At(k), At(j))
    <3> SUFFICES ASSUME Precedes(exts, At(k), At(j)) PROVE FALSE
      OBVIOUS
    <3>1. Rank(exts, d, At(k)) < Rank(exts, d, At(j))
      BY <1>1, <1>4
    <3>2. Rank(exts, d, At(k)) = k - 1 /\ Rank(exts, d, At(j)) = j - 1
      BY <1>4
    <3> QED
      BY <1>1, <1>7, <3>1, <3>2
  <2>2. exts[At(j)].data \in Nat /\ exts[At(k)].data \in Nat
    BY <1>2, <1>4
  <2> QED
    BY <1>5, <2>1, <2>2 DEF Precedes
<1>8. \A k \in 1 .. n : \E i \in U : u[k] = exts[i]
  BY <1>4, <1>5
<1>9. \A k \in 1 .. n : u[k] \in ExtRec
  BY <1>1, <1>4, <1>5
<1> QED
  BY <1>1, <1>5, <1>6, <1>7, <1>8, <1>9 DEF SortedOf, U, u
----------------------------------------------------------------------------
\* Induction, and functions that are defined by it.  The induction theorems of
\* the library take an operator; this one is about a set of numbers.
LEMMA CountUp ==
  ASSUME NEW T, 0 \in T, \A n \in Nat : n \in T => n + 1 \in T,
         NEW m \in Nat
  PROVE  m \in T
<1> DEFINE S == {i \in 0 .. m : i \in T}
           f == [i \in S |-> i + 1]
<1>1. SUFFICES ASSUME m \notin T PROVE FALSE
  OBVIOUS
<1>2. IsFiniteSet(S) /\ 0 \in S
  BY FS_BoundedSetOfNaturals
<1>3. IsFiniteSet(S \ {0}) /\ Cardinality(S \ {0}) = Cardinality(S) - 1 /\ Cardinality(S) \in Nat
  BY <1>2, FS_RemoveElement, FS_CardinalityType
<1>4. f \in [S -> S \ {0}]
  <2>1. ASSUME NEW i \in S PROVE i + 1 \in S \ {0}
    <3>1. i \in Nat /\ i <= m /\ i # m
      BY <1>1
    <3> QED
      BY <3>1
  <2> QED
    BY <2>1
<1>5. \A x, y \in S : x # y => f[x] # f[y]
  OBVIOUS
<1> HIDE DEF S, f
<1>6. Cardinality(S \ {0}) < Cardinality(S)
  BY <1>3
<1>7. \E x, y \in S : x # y /\ f[x] = f[y]
  BY <1>2, <1>3, <1>4, <1>6, FS_PigeonHole
<1> QED
  BY <1>5, <1>7

\* n applications of a step to a state.
Iterates(n, S, x, step, g) ==
  /\ g \in [0 .. n -> S]
  /\ g[0] = x
  /\ \A k \in 1 .. n : g[k] = step[<<g[k - 1], k>>]

LEMMA IteratesExist ==
  ASSUME NEW n \in Nat, NEW S, NEW x \in S, NEW step \in [S \X (1 .. n) -> S]
  PROVE  \E g : Iterates(n, S, x, step, g)
<1> DEFINE T == {m \in Nat : m <= n => \E g : Iterates(m, S, x, step, g)}
<1>1. 0 \in T
  <2> DEFINE g == [i \in 0 .. 0 |-> x]
  <2>1. Iterates(0, S, x, step, g)
    BY DEF Iterates
  <2> QED
    BY <2>1
<1>2. ASSUME NEW m \in Nat, m \in T PROVE m + 1 \in T
  <2> SUFFICES ASSUME m + 1 <= n PROVE \E g : Iterates(m + 1, S, x, step, g)
    OBVIOUS
  <2>1. PICK g : Iterates(m, S, x, step, g)
    BY <1>2
  <2> DEFINE y == step[<<g[m], m + 1>>]
             h == [i \in 0 .. m + 1 |-> IF i <= m THEN g[i] ELSE y]
  <2>2. g \in [0 .. m -> S] /\ m + 1 \in 1 .. n
    BY <2>1 DEF Iterates
  <2>3. y \in S
    BY <2>2
  <2> HIDE DEF y
  <2>4. h \in [0 .. m + 1 -> S] /\ h[0] = x
    BY <2>1, <2>2, <2>3 DEF Iterates
  <2>5. ASSUME NEW k \in 1 .. m + 1 PROVE h[k] = step[<<h[k - 1], k>>]
    <3>1. CASE k <= m
      <4>1. k \in 1 .. m /\ k - 1 \in 0 .. m + 1 /\ k - 1 <= m
        BY <3>1
      <4>2. h[k] = g[k] /\ h[k - 1] = g[k - 1]
        BY <4>1
      <4> QED
        BY <2>1, <4>1, <4>2 DEF Iterates
    <3>2. CASE k = m + 1
      <4>1. h[k] = y /\ h[k - 1] = g[m]
        BY <3>2
      <4> QED
        BY <3>2, <4>1 DEF y
    <3> QED
      BY <3>1, <3>2
  <2>6. Iterates(m + 1, S, x, step, h)
    <3> HIDE DEF h
    <3> QED
      BY <2>4, <2>5 DEF Iterates
  <2> QED
    BY <2>6
<1>3. n \in T
  <2> HIDE DEF T
  <2> QED
    BY <1>1, <1>2, CountUp
<1> QED
  BY <1>3

----------------------------------------------------------------------------
\* find_free_sectors.

CandidateRec == [at : Nat, found : BOOLEAN]
CandidateScan(used, dev, needed, g) ==
  g = [k \in 0 .. Len(used) |->
         IF k = 0 THEN [at |-> Aligned(dev, dev.first), found |-> FALSE]
         ELSE PassUsed(dev, needed, g[k - 1], used[k])]

LEMMA PassUsedType ==
  ASSUME NEW dev \in DevRec, NEW needed, NEW acc \in CandidateRec, NEW e \in ExtRec
  PROVE  PassUsed(dev, needed, acc, e) \in CandidateRec
<1>1. e.data \in Nat /\ e.num \in Nat /\ End(e) \in Nat
  BY DEF ExtRec, End
<1>2. Aligned(dev, End(e)) \in Nat
  BY <1>1, AlignedFacts
<1> QED
  BY <1>2 DEF PassUsed, CandidateRec

\* The scan is what its definition says.
LEMMA CandidateIs ==
  ASSUME NEW used, Len(used) \in Nat, \A k \in 1 .. Len(used) : used[k] \in ExtRec,
         NEW dev \in DevRec, NEW needed
  PROVE  \E g : /\ CandidateScan(used, dev, needed, g)
                /\ g \in [0 .. Len(used) -> CandidateRec]
                /\ Candidate(used, dev, needed) = g[Len(used)].at
<1> DEFINE n == Len(used)
           S == CandidateRec
           x == [at |-> Aligned(dev, dev.first), found |-> FALSE]
           step == [p \in S \X (1 .. n) |-> PassUsed(dev, needed, p[1], used[p[2]])]
<1>1. x \in S
  BY AlignedFacts DEF CandidateRec, DevRec
<1>2. step \in [S \X (1 .. n) -> S]
  BY PassUsedType
<1> HIDE DEF S, x
<1>3. PICK g : Iterates(n, S, x, step, g)
  <2> HIDE DEF step, n
  <2> QED
    BY <1>1, <1>2, IteratesExist DEF n
<1>4. \A a \in S : \A k \in 1 .. n : step[<<a, k>>] = PassUsed(dev, needed, a, used[k])
  OBVIOUS
<1> HIDE DEF step
<1>5. CandidateScan(used, dev, needed, g)
  <2>1. g \in [0 .. n -> S] /\ g[0] = x
    BY <1>3 DEF Iterates
  <2>2. ASSUME NEW k \in 0 .. n, k # 0 PROVE g[k] = PassUsed(dev, needed, g[k - 1], used[k])
    <3>1. k \in 1 .. n /\ k - 1 \in 0 .. n
      BY <2>2
    <3> QED
      BY <1>3, <1>4, <2>1, <3>1 DEF Iterates
  <2> QED
    BY <2>1, <2>2 DEF CandidateScan, x
<1> DEFINE p == CHOOSE h : CandidateScan(used, dev, needed, h)
<1>6. CandidateScan(used, dev, needed, p)
  BY <1>5
<1>7. Candidate(used, dev, needed) = p[n].at
  BY DEF Candidate, CandidateScan
<1> HIDE DEF p
<1>8. \A k \in 0 .. n : p[k] = g[k]
  <2> DEFINE T == {k \in Nat : k <= n => p[k] = g[k]}
  <2>1. 0 \in T
    BY <1>5, <1>6 DEF CandidateScan
  <2>2. ASSUME NEW k \in Nat, k \in T PROVE k + 1 \in T
    <3> SUFFICES ASSUME k + 1 <= n PROVE p[k + 1] = g[k + 1]
      OBVIOUS
    <3>1. p[k] = g[k] /\ k + 1 \in 0 .. n /\ k + 1 # 0 /\ (k + 1) - 1 = k
      BY <2>2
    <3>2. p[k + 1] = PassUsed(dev, needed, p[k], used[k + 1])
      BY <1>6, <3>1 DEF CandidateScan
    <3>3. g[k + 1] = PassUsed(dev, needed, g[k], used[k + 1])
      BY <1>5, <3>1 DEF CandidateScan
    <3> QED
      BY <3>1, <3>2, <3>3
  <2>3. \A k \in Nat : k \in T
    <3> HIDE DEF T
    <3> QED
      BY <2>1, <2>2, CountUp
  <2> QED
    BY <2>3
<1>9. g \in [0 .. n -> S]
  BY <1>3 DEF Iterates
<1>10. n \in 0 .. n
  OBVIOUS
<1>11. Candidate(used, dev, needed) = g[n].at
  BY <1>7, <1>8, <1>10
<1> QED
  BY <1>5, <1>9, <1>11 DEF S, n
\* A sector an allocation may start at, a stretch that meets no extent, and the
\* sectors the scan can ever try.
Legal(dev, s) == s \in Nat /\ s >= dev.first /\ InPhase(dev, s)
Clear(u, s, len) == \A k \in 1 .. Len(u) : ~Meets(u[k], s, len)
Tried(u, dev, s) ==
  \/ s = Aligned(dev, dev.first)
  \/ \E k \in 1 .. Len(u) : s = Aligned(dev, End(u[k]))

\* After k extents: no legal place is behind the candidate, and the candidate is
\* behind none of these extents, or has been found free.
CandidateInv(u, dev, needed, k, acc) ==
  /\ acc \in CandidateRec
  /\ Legal(dev, acc.at) /\ acc.at >= Aligned(dev, dev.first) /\ Tried(u, dev, acc.at)
  /\ \A t \in Nat : Legal(dev, t) /\ Clear(u, t, needed) => acc.at <= t
  /\ IF acc.found THEN Clear(u, acc.at, needed)
     ELSE \A j \in 1 .. k : End(u[j]) <= acc.at

LEMMA FirstIsLegal ==
  ASSUME NEW dev \in DevRec
  PROVE  /\ Legal(dev, Aligned(dev, dev.first))
         /\ \A t : Legal(dev, t) => Aligned(dev, dev.first) <= t
<1>1. dev.first \in Nat
  BY DEF DevRec
<1>2. /\ Aligned(dev, dev.first) \in Nat
      /\ Aligned(dev, dev.first) >= dev.first
      /\ InPhase(dev, Aligned(dev, dev.first))
      /\ \A u \in Nat : u >= dev.first /\ InPhase(dev, u) => Aligned(dev, dev.first) <= u
  BY <1>1, AlignedFacts
<1> QED
  BY <1>2 DEF Legal

\* Where an extent ends, rounded up: the least legal place past the extent.
LEMMA NextIsLegal ==
  ASSUME NEW dev \in DevRec, NEW e \in ExtRec, NEW at, Legal(dev, at), End(e) > at
  PROVE  /\ Legal(dev, Aligned(dev, End(e)))
         /\ Aligned(dev, End(e)) >= End(e)
         /\ \A t : Legal(dev, t) /\ End(e) <= t => Aligned(dev, End(e)) <= t
<1>1. End(e) \in Nat /\ dev.first \in Nat /\ at \in Nat /\ at >= dev.first
  BY DEF ExtRec, End, DevRec, Legal
<1>2. /\ Aligned(dev, End(e)) \in Nat
      /\ Aligned(dev, End(e)) >= End(e)
      /\ InPhase(dev, Aligned(dev, End(e)))
      /\ \A u \in Nat : u >= End(e) /\ InPhase(dev, u) => Aligned(dev, End(e)) <= u
  BY <1>1, AlignedFacts
<1> QED
  BY <1>1, <1>2 DEF Legal

LEMMA CandidateStep ==
  ASSUME NEW exts \in Seq(ExtRec), NEW d, NEW u, SortedOf(u, exts, d), NEW dev \in DevRec,
         NEW needed \in Nat, NEW k \in Nat, k + 1 <= Len(u),
         NEW acc, CandidateInv(u, dev, needed, k, acc)
  PROVE  CandidateInv(u, dev, needed, k + 1, PassUsed(dev, needed, acc, u[k + 1]))
<1> DEFINE n == Len(u)
           e == u[k + 1]
<1>1. n \in Nat /\ k + 1 \in 1 .. n /\ \A j \in 1 .. n : u[j] \in ExtRec /\ u[j].data \in Nat
  BY DEF SortedOf, ExtRec
<1>2. e \in ExtRec /\ e.data \in Nat /\ End(e) \in Nat
  BY <1>1 DEF ExtRec, End
<1>3. acc \in CandidateRec /\ acc.at \in Nat
  BY DEF CandidateInv, CandidateRec
<1>4. CASE acc.found
  <2>1. PassUsed(dev, needed, acc, e) = acc
    BY <1>3, <1>4 DEF PassUsed, CandidateRec
  <2> QED
    BY <1>4, <2>1 DEF CandidateInv
<1>5. CASE ~acc.found /\ acc.at + needed <= e.data
  <2>1. PassUsed(dev, needed, acc, e) = [acc EXCEPT !.found = TRUE]
    BY <1>5 DEF PassUsed
  <2> DEFINE r == [acc EXCEPT !.found = TRUE]
  <2>2. r \in CandidateRec /\ r.at = acc.at /\ r.found
    BY <1>3 DEF CandidateRec
  <2>3. ASSUME NEW j \in 1 .. n PROVE ~Meets(u[j], acc.at, needed)
    <3>1. CASE j <= k
      <4>1. j \in 1 .. k
        BY <3>1
      <4>2. End(u[j]) <= acc.at
        BY <1>5, <4>1 DEF CandidateInv
      <4>3. End(u[j]) \in Nat
        BY <1>1 DEF ExtRec, End
      <4> QED
        BY <1>3, <4>2, <4>3 DEF Meets
    <3>2. CASE k + 1 <= j
      <4>1. e.data <= u[j].data
        BY <1>1, <3>2 DEF SortedOf
      <4> QED
        BY <1>1, <1>2, <1>3, <1>5, <4>1 DEF Meets
    <3> QED
      BY <3>1, <3>2
  <2>4. Clear(u, acc.at, needed)
    BY <2>3 DEF Clear
  <2> HIDE DEF r
  <2>5. CandidateInv(u, dev, needed, k + 1, r)
    BY <2>2, <2>4 DEF CandidateInv
  <2> QED
    BY <2>1, <2>5 DEF r
<1>6. ASSUME ~acc.found, acc.at + needed > e.data, NEW t \in Nat,
             Legal(dev, t), Clear(u, t, needed)
      PROVE  acc.at <= t /\ End(e) <= t
  <2>1. acc.at <= t
    BY <1>6 DEF CandidateInv
  <2>2. ~Meets(e, t, needed)
    BY <1>1, <1>6 DEF Clear
  <2> QED
    BY <1>2, <1>3, <1>6, <2>1, <2>2 DEF Meets
<1>7. CASE ~acc.found /\ ~(acc.at + needed <= e.data) /\ End(e) > acc.at
  <2> DEFINE at == Aligned(dev, End(e))
  <2>1. PassUsed(dev, needed, acc, e) = [acc EXCEPT !.at = at]
    BY <1>7 DEF PassUsed
  <2>3. /\ Legal(dev, at) /\ at >= End(e)
        /\ \A t : Legal(dev, t) /\ End(e) <= t => at <= t
    BY <1>2, <1>7, NextIsLegal DEF CandidateInv
  <2> DEFINE r == [acc EXCEPT !.at = at]
  <2>2. r \in CandidateRec /\ r.at = at /\ ~r.found
    BY <1>3, <1>7, <2>3 DEF CandidateRec, Legal
  <2>4. Tried(u, dev, at)
    BY <1>1 DEF Tried
  <2> HIDE DEF at
  <2>5. \A t \in Nat : Legal(dev, t) /\ Clear(u, t, needed) => at <= t
    <3>1. acc.at + needed > e.data
      BY <1>2, <1>3, <1>7
    <3> QED
      BY <1>6, <1>7, <2>3, <3>1
  <2>6. at \in Nat /\ at >= Aligned(dev, dev.first)
    BY <2>3, FirstIsLegal DEF Legal
  <2>7. ASSUME NEW j \in 1 .. k + 1 PROVE End(u[j]) <= at
    <3>1. CASE j = k + 1
      BY <2>3, <3>1
    <3>2. CASE j \in 1 .. k
      <4>1. End(u[j]) <= acc.at
        BY <1>7, <3>2 DEF CandidateInv
      <4>2. End(u[j]) \in Nat
        <5>1. j \in 1 .. n
          BY <1>1, <3>2
        <5> QED
          BY <1>1, <5>1 DEF ExtRec, End
      <4> QED
        BY <1>2, <1>3, <1>7, <2>3, <2>6, <4>1, <4>2
    <3> QED
      BY <3>1, <3>2
  <2>8. PassUsed(dev, needed, acc, e) = r
    BY <2>1
  <2> HIDE DEF r
  <2>9. CandidateInv(u, dev, needed, k + 1, r)
    BY <2>2, <2>3, <2>4, <2>5, <2>6, <2>7 DEF CandidateInv
  <2> QED
    BY <2>8, <2>9
<1>8. CASE ~acc.found /\ ~(acc.at + needed <= e.data) /\ ~(End(e) > acc.at)
  <2>1. PassUsed(dev, needed, acc, e) = acc
    BY <1>8 DEF PassUsed
  <2>2. ASSUME NEW j \in 1 .. k + 1 PROVE End(u[j]) <= acc.at
    <3>1. CASE j = k + 1
      BY <1>2, <1>3, <1>8, <3>1
    <3>2. CASE j \in 1 .. k
      BY <1>8, <3>2 DEF CandidateInv
    <3> QED
      BY <3>1, <3>2
  <2> QED
    BY <1>8, <2>1, <2>2 DEF CandidateInv
<1> QED
  BY <1>4, <1>5, <1>7, <1>8

\* The scan answers the least legal place, leaving the device's end aside.
LEMMA CandidateSound ==
  ASSUME NEW exts \in Seq(ExtRec), NEW d, NEW u, SortedOf(u, exts, d), NEW dev \in DevRec,
         NEW needed \in Nat
  PROVE  LET c == Candidate(u, dev, needed)
         IN /\ Legal(dev, c) /\ c >= Aligned(dev, dev.first) /\ Tried(u, dev, c)
            /\ Clear(u, c, needed)
            /\ \A t \in Nat : Legal(dev, t) /\ Clear(u, t, needed) => c <= t
<1> DEFINE n == Len(u)
<1>1. n \in Nat /\ \A k \in 1 .. n : u[k] \in ExtRec
  BY DEF SortedOf
<1>2. PICK g : /\ CandidateScan(u, dev, needed, g)
               /\ g \in [0 .. n -> CandidateRec]
               /\ Candidate(u, dev, needed) = g[n].at
  BY <1>1, CandidateIs
<1> DEFINE T == {k \in Nat : k <= n => CandidateInv(u, dev, needed, k, g[k])}
<1>3. 0 \in T
  <2>1. g[0] = [at |-> Aligned(dev, dev.first), found |-> FALSE]
    BY <1>1, <1>2 DEF CandidateScan
  <2>2. Legal(dev, Aligned(dev, dev.first)) /\ Aligned(dev, dev.first) \in Nat
        /\ \A t : Legal(dev, t) => Aligned(dev, dev.first) <= t
    BY FirstIsLegal DEF Legal
  <2>3. CandidateInv(u, dev, needed, 0, g[0])
    BY <2>1, <2>2 DEF CandidateInv, CandidateRec, Tried
  <2> QED
    BY <2>3
<1>4. ASSUME NEW k \in Nat, k \in T PROVE k + 1 \in T
  <2> SUFFICES ASSUME k + 1 <= n PROVE CandidateInv(u, dev, needed, k + 1, g[k + 1])
    OBVIOUS
  <2>1. CandidateInv(u, dev, needed, k, g[k])
    BY <1>1, <1>4
  <2>2. g[k + 1] = PassUsed(dev, needed, g[k], u[k + 1])
    <3>1. k + 1 \in 0 .. n /\ k + 1 # 0 /\ (k + 1) - 1 = k
      OBVIOUS
    <3> QED
      BY <1>2, <3>1 DEF CandidateScan
  <2> QED
    BY <2>1, <2>2, CandidateStep
<1>5. CandidateInv(u, dev, needed, n, g[n])
  <2>1. n \in T
    <3> HIDE DEF T, n
    <3> QED
      BY <1>1, <1>3, <1>4, CountUp
  <2> QED
    BY <2>1
<1>6. Clear(u, g[n].at, needed)
  <2>1. CASE g[n].found
    BY <1>5, <2>1 DEF CandidateInv
  <2>2. CASE ~g[n].found
    <3>1. \A j \in 1 .. n : End(u[j]) <= g[n].at
      BY <1>5, <2>2 DEF CandidateInv
    <3>2. g[n].at \in Nat /\ \A j \in 1 .. n : End(u[j]) \in Nat
      BY <1>1, <1>5 DEF CandidateInv, Legal, ExtRec, End
    <3> QED
      BY <3>1, <3>2 DEF Clear, Meets
  <2> QED
    BY <2>1, <2>2
<1> QED
  BY <1>2, <1>5, <1>6 DEF CandidateInv
LEMMA ClearIs ==
  ASSUME NEW exts, NEW d, NEW u, SortedOf(u, exts, d), NEW s, NEW len
  PROVE  Clear(u, s, len) <=> \A i \in DOMAIN exts : OnDevice(exts[i], d) => ~Meets(exts[i], s, len)
BY DEF Clear, SortedOf, Used

LEMMA StartsAre ==
  ASSUME NEW exts, NEW devs1, NEW d, NEW u, SortedOf(u, exts, d), NEW s
  PROVE  s \in Starts(exts, devs1, d) <=> Tried(u, Device(devs1, d), s)
BY DEF Starts, Tried, SortedOf

LEMMA TriedIsLegal ==
  ASSUME NEW exts, NEW d, NEW u, SortedOf(u, exts, d), NEW dev \in DevRec, NEW s,
         Tried(u, dev, s), Aligned(dev, dev.first) <= s
  PROVE  Legal(dev, s)
<1>1. CASE s = Aligned(dev, dev.first)
  BY <1>1, FirstIsLegal
<1>2. ASSUME NEW k \in 1 .. Len(u), s = Aligned(dev, End(u[k])) PROVE Legal(dev, s)
  <2>1. End(u[k]) \in Nat /\ dev.first \in Nat
    BY DEF SortedOf, ExtRec, End, DevRec
  <2>2. s \in Nat /\ InPhase(dev, s)
    BY <1>2, <2>1, AlignedFacts
  <2>3. Legal(dev, Aligned(dev, dev.first))
    BY FirstIsLegal
  <2>4. s >= dev.first
    BY <2>1, <2>2, <2>3 DEF Legal
  <2> QED
    BY <2>2, <2>4 DEF Legal
<1> QED
  BY <1>1, <1>2 DEF Tried

\* What find_free_sectors answers: the least legal place that is free and inside
\* the device, or that there is none; and what it answers it has tried.
LEMMA FindFreeFacts ==
  ASSUME NEW exts \in Seq(ExtRec), NEW table \in Seq(DevRec), NEW d \in DeviceIndices(table),
         NEW needed \in Nat \ {0}
  PROVE  LET dev == Device(table, d)
             s == FindFree(exts, table, d, needed)
         IN /\ s = NoFit => \A t : ~(Legal(dev, t) /\ IsRangeFree(exts, table, d, t, needed))
            /\ s # NoFit => /\ Legal(dev, s) /\ IsRangeFree(exts, table, d, s, needed)
                            /\ s \in Starts(exts, table, d) /\ Aligned(dev, dev.first) <= s
                            /\ \A t : Legal(dev, t) /\ IsRangeFree(exts, table, d, t, needed) => s <= t
<1> DEFINE dev == Device(table, d)
           lim == Limit(dev)
           u == CollectUsed(exts, d)
           c == Candidate(u, dev, needed)
           s == FindFree(exts, table, d, needed)
<1>1. dev \in DevRec /\ lim \in Nat
  <2>1. d + 1 \in 1 .. Len(table)
    BY DEF DeviceIndices
  <2>2. dev \in DevRec
    BY <2>1 DEF Device
  <2>3. lim \in Nat
    BY <2>2 DEF DevRec, Limit, SECTOR
  <2> QED
    BY <2>2, <2>3
<1>2. SortedOf(u, exts, d)
  BY CollectIsSorted
<1>3. s = IF lim > 0 /\ c + needed > lim THEN NoFit ELSE c
  BY DEF FindFree
<1> HIDE DEF u
<1>4. /\ Legal(dev, c) /\ c >= Aligned(dev, dev.first) /\ Tried(u, dev, c)
      /\ Clear(u, c, needed)
      /\ \A t \in Nat : Legal(dev, t) /\ Clear(u, t, needed) => c <= t
  <2> HIDE DEF dev
  <2> QED
    BY <1>1, <1>2, CandidateSound
<1>5. \A t : IsRangeFree(exts, table, d, t, needed) <=>
               (lim > 0 => t + needed <= lim) /\ Clear(u, t, needed)
  BY <1>2, ClearIs DEF IsRangeFree
<1>6. c \in Starts(exts, table, d)
  BY <1>2, <1>4, StartsAre
<1>7. c \in Nat /\ c # NoFit
  BY <1>4 DEF Legal, NoFit
<1> HIDE DEF c, dev, lim, s
<1>8. ASSUME NEW t, Legal(dev, t), IsRangeFree(exts, table, d, t, needed)
      PROVE  c <= t /\ t \in Nat /\ (lim > 0 => t + needed <= lim)
  BY <1>4, <1>5, <1>8 DEF Legal
<1>9. CASE lim > 0 /\ c + needed > lim
  <2>1. s = NoFit
    BY <1>3, <1>9
  <2>2. ASSUME NEW t, Legal(dev, t), IsRangeFree(exts, table, d, t, needed) PROVE FALSE
    <3>1. c <= t /\ t \in Nat /\ t + needed <= lim
      BY <1>8, <1>9, <2>2
    <3> QED
      BY <1>1, <1>7, <1>9, <3>1
  <2> QED
    BY <2>1, <2>2 DEF dev, s
<1>10. CASE ~(lim > 0 /\ c + needed > lim)
  <2>1. s = c
    BY <1>3, <1>10
  <2>2. IsRangeFree(exts, table, d, c, needed)
    BY <1>1, <1>4, <1>5, <1>7, <1>10
  <2> QED
    BY <1>4, <1>6, <1>7, <1>8, <2>1, <2>2 DEF dev, s
<1> QED
  BY <1>9, <1>10
\* The scan of find_free_sectors and the closed form that the state machine of
\* the table uses find the same sector, for any extents, overlapping or not.
THEOREM ScanIsFirstFit ==
  ASSUME NEW exts \in Seq(ExtRec), NEW table \in Seq(DevRec), NEW d \in DeviceIndices(table),
         NEW needed \in Nat \ {0}
  PROVE  LET s == FindFree(exts, table, d, needed)
         IN /\ s = NoFit <=> FreeStarts(exts, table, d, needed) = {}
            /\ \A t : FirstFit(exts, table, d, needed, t) <=> t = s /\ s # NoFit
<1> DEFINE dev == Device(table, d)
           s == FindFree(exts, table, d, needed)
           u == CollectUsed(exts, d)
           free == FreeStarts(exts, table, d, needed)
<1>1. dev \in DevRec
  <2>1. d + 1 \in 1 .. Len(table)
    BY DEF DeviceIndices
  <2> QED
    BY <2>1 DEF Device
<1>2. /\ s = NoFit => \A t : ~(Legal(dev, t) /\ IsRangeFree(exts, table, d, t, needed))
      /\ s # NoFit => /\ Legal(dev, s) /\ IsRangeFree(exts, table, d, s, needed)
                      /\ s \in Starts(exts, table, d) /\ Aligned(dev, dev.first) <= s
                      /\ \A t : Legal(dev, t) /\ IsRangeFree(exts, table, d, t, needed) => s <= t
  BY FindFreeFacts
<1>3. ASSUME NEW t \in free PROVE Legal(dev, t) /\ IsRangeFree(exts, table, d, t, needed)
  <2>1. SortedOf(u, exts, d)
    BY CollectIsSorted
  <2>2. Tried(u, dev, t)
    BY <2>1, StartsAre DEF FreeStarts
  <2>3. Aligned(dev, dev.first) <= t /\ IsRangeFree(exts, table, d, t, needed)
    BY DEF FreeStarts
  <2>4. Legal(dev, t)
    <3> HIDE DEF dev, u
    <3> QED
      BY <1>1, <2>1, <2>2, <2>3, TriedIsLegal DEF dev
  <2> QED
    BY <2>3, <2>4
<1>4. s # NoFit => s \in free
  BY <1>2 DEF FreeStarts
<1> HIDE DEF free
<1>5. s = NoFit <=> free = {}
  BY <1>2, <1>3, <1>4
<1>6. ASSUME NEW t PROVE FirstFit(exts, table, d, needed, t) <=> t = s /\ s # NoFit
  <2>1. FirstFit(exts, table, d, needed, t) <=> t \in free /\ \A r \in free : t <= r
    BY DEF FirstFit, free
  <2>2. CASE s = NoFit
    BY <1>5, <2>1, <2>2
  <2>3. CASE s # NoFit
    <3>1. s \in free /\ s \in Nat /\ \A r \in free : s <= r /\ r \in Nat
      BY <1>2, <1>3, <1>4, <2>3 DEF Legal
    <3> HIDE DEF s
    <3>2. ASSUME t \in free, \A r \in free : t <= r PROVE t = s
      <4>1. t \in Nat /\ s <= t /\ t <= s
        BY <3>1, <3>2
      <4> QED
        BY <3>1, <4>1
    <3> QED
      BY <2>1, <2>3, <3>1, <3>2
  <2> QED
    BY <2>2, <2>3
<1> QED
  BY <1>5, <1>6 DEF free

----------------------------------------------------------------------------
----------------------------------------------------------------------------
\* largest_free_run.

GapRec == [at : Nat, best : Nat, done : BOOLEAN]
GapScan(used, dev, g) ==
  g = [k \in 0 .. Len(used) |->
         IF k = 0 THEN [at |-> Aligned(dev, dev.first), best |-> 0, done |-> FALSE]
         ELSE PassGap(dev, g[k - 1], used[k])]

LEMMA LongerFacts ==
  ASSUME NEW best \in Nat, NEW from \in Nat, NEW to \in Nat
  PROVE  /\ Longer(best, from, to) \in Nat
         /\ Longer(best, from, to) >= best
         /\ Longer(best, from, to) >= to - from
         /\ Longer(best, from, to) \in {best, to - from}
BY DEF Longer

LEMMA ClipFacts ==
  ASSUME NEW lim \in Nat, NEW s \in Nat
  PROVE  /\ ClipToLimit(lim, s) \in Nat /\ ClipToLimit(lim, s) <= s
         /\ lim > 0 => ClipToLimit(lim, s) <= lim /\ ClipToLimit(lim, s) \in {lim, s}
BY DEF ClipToLimit

LEMMA LimitType ==
  ASSUME NEW dev \in DevRec
  PROVE  Limit(dev) \in Nat
BY DEF DevRec, Limit, SECTOR

\* One round, by its fields.
LEMMA PassGapIs ==
  ASSUME NEW dev \in DevRec, NEW acc \in GapRec, NEW e \in ExtRec
  PROVE  LET new == PassGap(dev, acc, e)
             best == Longer(acc.best, acc.at, ClipToLimit(Limit(dev), e.data))
         IN /\ new \in GapRec /\ best \in Nat
            /\ acc.done => new = acc
            /\ ~acc.done /\ End(e) > acc.at =>
                 /\ new.at = Aligned(dev, End(e)) /\ new.best = best
                 /\ new.done = (Limit(dev) > 0 /\ Aligned(dev, End(e)) >= Limit(dev))
            /\ ~acc.done /\ ~(End(e) > acc.at) =>
                 new.at = acc.at /\ new.best = best /\ new.done = acc.done
<1> DEFINE new == PassGap(dev, acc, e)
           best == Longer(acc.best, acc.at, ClipToLimit(Limit(dev), e.data))
           at == Aligned(dev, End(e))
<1>1. e.data \in Nat /\ End(e) \in Nat /\ Limit(dev) \in Nat
  BY LimitType DEF ExtRec, End
<1>2. acc.at \in Nat /\ acc.best \in Nat /\ acc.done \in BOOLEAN
  BY DEF GapRec
<1>3. best \in Nat
  BY <1>1, <1>2, ClipFacts, LongerFacts
<1>4. at \in Nat
  BY <1>1, AlignedFacts
<1> HIDE DEF best, at
<1>5. CASE acc.done
  <2>1. new = acc
    BY <1>5 DEF PassGap
  <2> QED
    BY <1>3, <1>5, <2>1 DEF best
<1>6. CASE ~acc.done /\ End(e) > acc.at
  <2>1. new = [at |-> at, best |-> best, done |-> Limit(dev) > 0 /\ at >= Limit(dev)]
    BY <1>6 DEF PassGap, at, best
  <2> HIDE DEF new
  <2>2. new \in GapRec /\ new.at = at /\ new.best = best
        /\ new.done = (Limit(dev) > 0 /\ at >= Limit(dev))
    BY <1>3, <1>4, <2>1 DEF GapRec
  <2> QED
    BY <1>3, <1>6, <2>2 DEF at, best, new
<1>7. CASE ~acc.done /\ ~(End(e) > acc.at)
  <2>1. new = [acc EXCEPT !.best = best]
    BY <1>7 DEF PassGap, best
  <2> HIDE DEF new
  <2>2. new \in GapRec /\ new.at = acc.at /\ new.best = best /\ new.done = acc.done
    BY <1>3, <2>1 DEF GapRec
  <2> QED
    BY <1>3, <1>7, <2>2 DEF best, new
<1> QED
  BY <1>5, <1>6, <1>7

LEMMA GapsIs ==
  ASSUME NEW used, Len(used) \in Nat, \A k \in 1 .. Len(used) : used[k] \in ExtRec,
         NEW dev \in DevRec
  PROVE  \E g : /\ GapScan(used, dev, g)
                /\ g \in [0 .. Len(used) -> GapRec]
                /\ Gaps(used, dev) = g[Len(used)]
<1> DEFINE n == Len(used)
           S == GapRec
           x == [at |-> Aligned(dev, dev.first), best |-> 0, done |-> FALSE]
           step == [p \in S \X (1 .. n) |-> PassGap(dev, p[1], used[p[2]])]
<1>1. x \in S
  BY AlignedFacts DEF GapRec, DevRec
<1>2. step \in [S \X (1 .. n) -> S]
  BY PassGapIs
<1> HIDE DEF S, x
<1>3. PICK g : Iterates(n, S, x, step, g)
  <2> HIDE DEF step, n
  <2> QED
    BY <1>1, <1>2, IteratesExist DEF n
<1>4. \A a \in S : \A k \in 1 .. n : step[<<a, k>>] = PassGap(dev, a, used[k])
  OBVIOUS
<1> HIDE DEF step
<1>5. GapScan(used, dev, g)
  <2>1. g \in [0 .. n -> S] /\ g[0] = x
    BY <1>3 DEF Iterates
  <2>2. ASSUME NEW k \in 0 .. n, k # 0 PROVE g[k] = PassGap(dev, g[k - 1], used[k])
    <3>1. k \in 1 .. n /\ k - 1 \in 0 .. n
      BY <2>2
    <3> QED
      BY <1>3, <1>4, <2>1, <3>1 DEF Iterates
  <2> QED
    BY <2>1, <2>2 DEF GapScan, x
<1> DEFINE p == CHOOSE h : GapScan(used, dev, h)
<1>6. GapScan(used, dev, p)
  BY <1>5
<1>7. Gaps(used, dev) = p[n]
  BY DEF Gaps, GapScan
<1> HIDE DEF p
<1>8. \A k \in 0 .. n : p[k] = g[k]
  <2> DEFINE T == {k \in Nat : k <= n => p[k] = g[k]}
  <2>1. 0 \in T
    BY <1>5, <1>6 DEF GapScan
  <2>2. ASSUME NEW k \in Nat, k \in T PROVE k + 1 \in T
    <3> SUFFICES ASSUME k + 1 <= n PROVE p[k + 1] = g[k + 1]
      OBVIOUS
    <3>1. p[k] = g[k] /\ k + 1 \in 0 .. n /\ k + 1 # 0 /\ (k + 1) - 1 = k
      BY <2>2
    <3>2. p[k + 1] = PassGap(dev, p[k], used[k + 1])
      BY <1>6, <3>1 DEF GapScan
    <3>3. g[k + 1] = PassGap(dev, g[k], used[k + 1])
      BY <1>5, <3>1 DEF GapScan
    <3> QED
      BY <3>1, <3>2, <3>3
  <2>3. \A k \in Nat : k \in T
    <3> HIDE DEF T
    <3> QED
      BY <2>1, <2>2, CountUp
  <2> QED
    BY <2>3
<1>9. g \in [0 .. n -> S]
  BY <1>3 DEF Iterates
<1>10. Gaps(used, dev) = g[n]
  BY <1>7, <1>8
<1> QED
  BY <1>5, <1>9, <1>10 DEF S, n

\* A stretch of len sectors that may be allocated, on a device that ends at lim.
Free(u, dev, s, len) == Legal(dev, s) /\ Clear(u, s, len) /\ s + len <= Limit(dev)

\* After k extents: the best run seen is one, and any longer one is not behind
\* the candidate.
GapInv(u, dev, k, acc) ==
  /\ acc \in GapRec
  /\ Legal(dev, acc.at)
  /\ acc.best > 0 => \E s \in Nat : Free(u, dev, s, acc.best)
  /\ \A t \in Nat, len \in Nat \ {0} : Free(u, dev, t, len) => len <= acc.best \/ acc.at <= t
  /\ IF acc.done THEN acc.at >= Limit(dev) ELSE \A j \in 1 .. k : End(u[j]) <= acc.at

LEMMA GapStep ==
  ASSUME NEW exts \in Seq(ExtRec), NEW d, NEW u, SortedOf(u, exts, d),
         NEW dev \in DevRec, Limit(dev) > 0, NEW k \in Nat, k + 1 <= Len(u),
         NEW acc, GapInv(u, dev, k, acc)
  PROVE  GapInv(u, dev, k + 1, PassGap(dev, acc, u[k + 1]))
<1> DEFINE n == Len(u)
           e == u[k + 1]
           lim == Limit(dev)
           gap == ClipToLimit(lim, e.data)
           best == Longer(acc.best, acc.at, gap)
           new == PassGap(dev, acc, e)
<1>1. n \in Nat /\ k + 1 \in 1 .. n /\ \A j \in 1 .. n : u[j] \in ExtRec
  BY DEF SortedOf
<1>2. \A j \in 1 .. n : u[j].data \in Nat /\ End(u[j]) \in Nat
  BY <1>1 DEF ExtRec, End
<1>3. e \in ExtRec /\ e.data \in Nat /\ End(e) \in Nat /\ lim \in Nat \ {0}
  BY <1>1, <1>2, LimitType
<1>4. acc \in GapRec /\ acc.at \in Nat /\ acc.best \in Nat /\ Legal(dev, acc.at)
  BY DEF GapInv, GapRec
<1>5. /\ new \in GapRec /\ best \in Nat
      /\ acc.done => new = acc
      /\ ~acc.done /\ End(e) > acc.at =>
           /\ new.at = Aligned(dev, End(e)) /\ new.best = best
           /\ new.done = (lim > 0 /\ Aligned(dev, End(e)) >= lim)
      /\ ~acc.done /\ ~(End(e) > acc.at) =>
           new.at = acc.at /\ new.best = best /\ new.done = acc.done
  BY <1>3, <1>4, PassGapIs
<1>6. gap \in Nat /\ gap <= e.data /\ gap <= lim /\ gap \in {lim, e.data}
  <2> DEFINE x == e.data
  <2> HIDE DEF lim, e
  <2>1. x \in Nat /\ lim \in Nat /\ lim > 0
    BY <1>3
  <2> HIDE DEF x
  <2>2. /\ ClipToLimit(lim, x) \in Nat /\ ClipToLimit(lim, x) <= x
        /\ lim > 0 => ClipToLimit(lim, x) <= lim /\ ClipToLimit(lim, x) \in {lim, x}
    BY <2>1, ClipFacts
  <2> QED
    BY <2>1, <2>2 DEF x
<1> HIDE DEF gap, n
<1>7. best >= acc.best /\ best >= gap - acc.at /\ best \in {acc.best, gap - acc.at}
  BY <1>4, <1>6, LongerFacts
<1> HIDE DEF best, new, e, lim
<1>8. CASE acc.done
  BY <1>5, <1>8 DEF GapInv, new, e
<1>9. CASE ~acc.done
  <2>1. \A j \in 1 .. k : End(u[j]) <= acc.at
    BY <1>9 DEF GapInv
  <2>2. ASSUME best > 0 PROVE \E s \in Nat : Free(u, dev, s, best)
    <3>1. CASE best = acc.best
      BY <2>2, <3>1 DEF GapInv
    <3>2. CASE best = gap - acc.at
      <4>1. ASSUME NEW j \in 1 .. n PROVE ~Meets(u[j], acc.at, best)
        <5>1. CASE j <= k
          <6>1. End(u[j]) <= acc.at
            BY <2>1, <5>1
          <6> QED
            BY <1>2, <1>4, <6>1 DEF Meets
        <5>2. CASE k + 1 <= j
          <6>1. e.data <= u[j].data
            BY <1>1, <5>2 DEF SortedOf, e, n
          <6> QED
            BY SMTT(30), <1>2, <1>3, <1>4, <1>6, <3>2, <6>1 DEF Meets
        <5> QED
          BY <5>1, <5>2
      <4>2. acc.at + best <= lim
        BY <1>3, <1>4, <1>6, <3>2
      <4>3. Free(u, dev, acc.at, best)
        BY <1>4, <4>1, <4>2 DEF Free, Clear, n, lim
      <4> QED
        BY <1>4, <4>3
    <3> QED
      BY <1>7, <3>1, <3>2
  <2>3. ASSUME NEW t \in Nat, NEW len \in Nat \ {0}, Free(u, dev, t, len), len > best
        PROVE  acc.at <= t /\ End(e) <= t
    <3>1. acc.at <= t
      <4>1. ~(len <= acc.best)
        BY <1>4, <1>5, <1>7, <2>3
      <4> QED
        BY <2>3, <4>1 DEF GapInv
    <3>2. ~Meets(e, t, len) /\ t + len <= lim
      BY <1>1, <2>3 DEF Free, Clear, e, n, lim
    <3>3. ~(t + len <= e.data)
      <4> SUFFICES ASSUME t + len <= e.data PROVE FALSE
        OBVIOUS
      <4>1. t + len <= gap
        BY <1>6, <3>2
      <4> QED
        BY <1>4, <1>5, <1>6, <1>7, <2>3, <3>1, <4>1
    <3> QED
      BY <1>3, <3>1, <3>2, <3>3 DEF Meets
  <2>4. CASE End(e) > acc.at
    <3> DEFINE at == Aligned(dev, End(e))
    <3>1. /\ Legal(dev, at) /\ at >= End(e)
          /\ \A t : Legal(dev, t) /\ End(e) <= t => at <= t
      BY <1>3, <1>4, <2>4, NextIsLegal
    <3>2. new.at = at /\ new.best = best /\ new.done = (lim > 0 /\ at >= lim)
      BY <1>5, <1>9, <2>4
    <3> HIDE DEF at
    <3>3. at \in Nat
      BY <3>1 DEF Legal
    <3>4. ASSUME NEW j \in 1 .. k + 1 PROVE End(u[j]) <= at
      <4>1. CASE j = k + 1
        BY <3>1, <4>1 DEF e
      <4>2. CASE j \in 1 .. k
        <5>1. End(u[j]) <= acc.at /\ End(u[j]) \in Nat
          BY <1>1, <1>2, <2>1, <4>2
        <5> QED
          BY <1>3, <1>4, <2>4, <3>1, <3>3, <5>1
      <4> QED
        BY <4>1, <4>2
    <3>5. ASSUME NEW t \in Nat, NEW len \in Nat \ {0}, Free(u, dev, t, len)
          PROVE  len <= best \/ at <= t
      <4> SUFFICES ASSUME ~(len <= best) PROVE at <= t
        OBVIOUS
      <4>1. len > best
        BY <1>5
      <4>2. End(e) <= t
        BY <2>3, <3>5, <4>1
      <4>3. Legal(dev, t)
        BY <3>5 DEF Free
      <4> QED
        BY <3>1, <4>2, <4>3
    <3>6. GapInv(u, dev, k + 1, new)
      BY <1>5, <2>2, <3>1, <3>2, <3>4, <3>5 DEF GapInv, lim
    <3> QED
      BY <3>6 DEF new, e
  <2>5. CASE ~(End(e) > acc.at)
    <3>1. new.at = acc.at /\ new.best = best /\ new.done = acc.done
      BY <1>5, <1>9, <2>5
    <3>2. ASSUME NEW j \in 1 .. k + 1 PROVE End(u[j]) <= acc.at
      <4>1. CASE j = k + 1
        BY <1>3, <1>4, <2>5, <4>1 DEF e
      <4>2. CASE j \in 1 .. k
        BY <2>1, <4>2
      <4> QED
        BY <4>1, <4>2
    <3>3. ASSUME NEW t \in Nat, NEW len \in Nat \ {0}, Free(u, dev, t, len)
          PROVE  len <= best \/ acc.at <= t
      BY <1>5, <2>3, <3>3
    <3>4. GapInv(u, dev, k + 1, new)
      BY <1>4, <1>5, <1>9, <2>2, <3>1, <3>2, <3>3 DEF GapInv
    <3> QED
      BY <3>4 DEF new, e
  <2> QED
    BY <2>4, <2>5
<1> QED
  BY <1>8, <1>9
\* largest_free_run answers the length of the longest free stretch that starts at
\* a legal place, or zero.
LEMMA GapsSound ==
  ASSUME NEW exts \in Seq(ExtRec), NEW d, NEW u, SortedOf(u, exts, d),
         NEW dev \in DevRec, Limit(dev) > 0
  PROVE  LET last == Gaps(u, dev)
             len == Longer(last.best, last.at, Limit(dev))
         IN /\ len \in Nat
            /\ len > 0 => \E s \in Nat : Free(u, dev, s, len)
            /\ \A t \in Nat, m \in Nat \ {0} : Free(u, dev, t, m) => m <= len
<1> DEFINE n == Len(u)
           lim == Limit(dev)
<1>1. n \in Nat /\ \A k \in 1 .. n : u[k] \in ExtRec
  BY DEF SortedOf
<1>2. PICK g : GapScan(u, dev, g) /\ g \in [0 .. n -> GapRec] /\ Gaps(u, dev) = g[n]
  BY <1>1, GapsIs
<1> DEFINE T == {k \in Nat : k <= n => GapInv(u, dev, k, g[k])}
<1>3. 0 \in T
  <2>0. 0 \in 0 .. n
    BY <1>1
  <2>1. g[0] = [at |-> Aligned(dev, dev.first), best |-> 0, done |-> FALSE] /\ g[0] \in GapRec
    <3>1. g[0] \in GapRec
      BY <1>2, <2>0
    <3>2. g[0] = [at |-> Aligned(dev, dev.first), best |-> 0, done |-> FALSE]
      BY <1>2, <2>0 DEF GapScan
    <3> QED
      BY <3>1, <3>2
  <2>2. /\ Legal(dev, Aligned(dev, dev.first))
        /\ \A t : Legal(dev, t) => Aligned(dev, dev.first) <= t
    BY FirstIsLegal
  <2>3. GapInv(u, dev, 0, g[0])
    BY <2>1, <2>2 DEF GapInv, Free
  <2> QED
    BY <2>3
<1>4. ASSUME NEW k \in Nat, k \in T PROVE k + 1 \in T
  <2> SUFFICES ASSUME k + 1 <= n PROVE GapInv(u, dev, k + 1, g[k + 1])
    OBVIOUS
  <2>1. GapInv(u, dev, k, g[k])
    BY <1>1, <1>4
  <2>2. g[k + 1] = PassGap(dev, g[k], u[k + 1])
    <3>1. k + 1 \in 0 .. n /\ k + 1 # 0 /\ (k + 1) - 1 = k
      OBVIOUS
    <3> QED
      BY <1>2, <3>1 DEF GapScan
  <2> QED
    BY <2>1, <2>2, GapStep
<1>5. GapInv(u, dev, n, g[n])
  <2>1. n \in T
    <3> HIDE DEF T, n
    <3> QED
      BY <1>1, <1>3, <1>4, CountUp
  <2> QED
    BY <2>1
<1> DEFINE last == g[n]
           len == Longer(last.best, last.at, lim)
<1>6. lim \in Nat /\ last \in GapRec /\ last.at \in Nat /\ last.best \in Nat
  BY <1>1, <1>2, LimitType DEF GapRec
<1> HIDE DEF n
<1>7. GapInv(u, dev, n, last)
  BY <1>5
<1> HIDE DEF last
<1>8. /\ len \in Nat /\ len >= last.best /\ len >= lim - last.at
      /\ len \in {last.best, lim - last.at}
  BY <1>6, LongerFacts
<1> HIDE DEF len
<1>9. ASSUME len > 0 PROVE \E s \in Nat : Free(u, dev, s, len)
  <2>1. CASE len = last.best
    BY <1>7, <1>9, <2>1 DEF GapInv
  <2>2. CASE len = lim - last.at
    <3>1. ~last.done
      BY <1>6, <1>7, <1>9, <2>2 DEF GapInv
    <3>2. ASSUME NEW j \in 1 .. n PROVE ~Meets(u[j], last.at, len)
      <4>1. End(u[j]) <= last.at
        BY <1>7, <3>1 DEF GapInv
      <4>2. End(u[j]) \in Nat
        BY <1>1 DEF ExtRec, End, n
      <4> QED
        BY <1>6, <4>1, <4>2 DEF Meets
    <3>3. last.at + len <= lim
      BY <1>6, <1>8, <2>2
    <3>4. Free(u, dev, last.at, len)
      BY <1>7, <3>2, <3>3 DEF Free, Clear, GapInv, n
    <3> QED
      BY <1>6, <3>4
  <2> QED
    BY <1>8, <2>1, <2>2
<1>10. ASSUME NEW t \in Nat, NEW m \in Nat \ {0}, Free(u, dev, t, m) PROVE m <= len
  <2>1. m <= last.best \/ last.at <= t
    BY <1>7, <1>10 DEF GapInv
  <2>2. t + m <= lim
    BY <1>10 DEF Free
  <2> QED
    BY <1>6, <1>8, <2>1, <2>2
<1> QED
  BY <1>2, <1>8, <1>9, <1>10 DEF last, len

LEMMA FreeIs ==
  ASSUME NEW exts, NEW table, NEW d, NEW u, SortedOf(u, exts, d),
         Limit(Device(table, d)) > 0, NEW s, NEW len
  PROVE  Free(u, Device(table, d), s, len) <=>
           Legal(Device(table, d), s) /\ IsRangeFree(exts, table, d, s, len)
BY ClearIs DEF Free, IsRangeFree

LEMMA LargestFacts ==
  ASSUME NEW exts \in Seq(ExtRec), NEW table \in Seq(DevRec), NEW d \in DeviceIndices(table),
         Limit(Device(table, d)) > 0
  PROVE  LET dev == Device(table, d)
             len == LargestFreeRun(exts, table, d)
         IN /\ len \in Nat
            /\ len > 0 => \E s \in Nat : Legal(dev, s) /\ IsRangeFree(exts, table, d, s, len)
            /\ \A t \in Nat, m \in Nat \ {0} :
                 Legal(dev, t) /\ IsRangeFree(exts, table, d, t, m) => m <= len
<1> DEFINE dev == Device(table, d)
           u == CollectUsed(exts, d)
           last == Gaps(u, dev)
           len == LargestFreeRun(exts, table, d)
<1>1. dev \in DevRec
  <2>1. d + 1 \in 1 .. Len(table)
    BY DEF DeviceIndices
  <2> QED
    BY <2>1 DEF Device
<1>2. SortedOf(u, exts, d)
  BY CollectIsSorted
<1>3. len = Longer(last.best, last.at, Limit(dev))
  BY <1>1, LimitType DEF LargestFreeRun
<1>4. \A s, m : Free(u, dev, s, m) <=> Legal(dev, s) /\ IsRangeFree(exts, table, d, s, m)
  BY <1>2, FreeIs
<1>5. Limit(dev) > 0
  OBVIOUS
<1> HIDE DEF u, dev
<1>6. LET l == Longer(last.best, last.at, Limit(dev))
      IN /\ l \in Nat
         /\ l > 0 => \E s \in Nat : Free(u, dev, s, l)
         /\ \A t \in Nat, m \in Nat \ {0} : Free(u, dev, t, m) => m <= l
  BY <1>1, <1>2, <1>5, GapsSound
<1> HIDE DEF last, len
<1>7. /\ len \in Nat
      /\ len > 0 => \E s \in Nat : Free(u, dev, s, len)
      /\ \A t \in Nat, m \in Nat \ {0} : Free(u, dev, t, m) => m <= len
  BY <1>3, <1>6
<1> QED
  BY <1>4, <1>7 DEF dev, len

\* A shorter stretch is free where a longer one is.
LEMMA ShorterIsFree ==
  ASSUME NEW exts \in Seq(ExtRec), NEW table \in Seq(DevRec), NEW d \in DeviceIndices(table),
         NEW s \in Nat, NEW len \in Nat, IsRangeFree(exts, table, d, s, len),
         NEW m \in Nat, m <= len
  PROVE  IsRangeFree(exts, table, d, s, m)
<1>1. Device(table, d) \in DevRec
  <2>1. d + 1 \in 1 .. Len(table)
    BY DEF DeviceIndices
  <2> QED
    BY <2>1 DEF Device
<1>2. Limit(Device(table, d)) \in Nat
  BY <1>1, LimitType
<1>3. ASSUME NEW i \in DOMAIN exts, OnDevice(exts[i], d) PROVE ~Meets(exts[i], s, m)
  <2>1. ~Meets(exts[i], s, len)
    BY <1>3 DEF IsRangeFree
  <2>2. exts[i].data \in Nat /\ End(exts[i]) \in Nat
    <3>1. exts[i] \in ExtRec
      BY <1>3
    <3> QED
      BY <3>1 DEF ExtRec, End
  <2> QED
    BY <2>1, <2>2 DEF Meets
<1>4. Limit(Device(table, d)) > 0 => s + m <= Limit(Device(table, d))
  BY <1>2 DEF IsRangeFree
<1> QED
  BY <1>3, <1>4 DEF IsRangeFree

\* plan_spanning_allocation asks for what largest_free_run promised and gives up
\* if find_free_sectors does not grant it: it always does, and no more.
THEOREM LargestIsGranted ==
  ASSUME NEW exts \in Seq(ExtRec), NEW table \in Seq(DevRec), NEW d \in DeviceIndices(table),
         Limit(Device(table, d)) > 0, NEW needed \in Nat \ {0}
  PROVE  needed <= LargestFreeRun(exts, table, d) <=> FindFree(exts, table, d, needed) # NoFit
<1> DEFINE dev == Device(table, d)
           len == LargestFreeRun(exts, table, d)
           at == FindFree(exts, table, d, needed)
<1>1. /\ len \in Nat
      /\ len > 0 => \E s \in Nat : Legal(dev, s) /\ IsRangeFree(exts, table, d, s, len)
      /\ \A t \in Nat, m \in Nat \ {0} :
           Legal(dev, t) /\ IsRangeFree(exts, table, d, t, m) => m <= len
  BY LargestFacts
<1>2. /\ at = NoFit => \A t : ~(Legal(dev, t) /\ IsRangeFree(exts, table, d, t, needed))
      /\ at # NoFit => Legal(dev, at) /\ IsRangeFree(exts, table, d, at, needed)
  BY FindFreeFacts
<1> HIDE DEF dev, len, at
<1>3. ASSUME needed <= len PROVE at # NoFit
  <2>1. PICK s \in Nat : Legal(dev, s) /\ IsRangeFree(exts, table, d, s, len)
    BY <1>1, <1>3
  <2>2. IsRangeFree(exts, table, d, s, needed)
    BY <1>1, <1>3, <2>1, ShorterIsFree
  <2> QED
    BY <1>2, <2>1, <2>2
<1>4. ASSUME at # NoFit PROVE needed <= len
  BY <1>1, <1>2, <1>4 DEF Legal
<1> QED
  BY <1>3, <1>4 DEF len, at

----------------------------------------------------------------------------
\* plan_spanning_allocation.

RunRec == [source : Nat, num : Nat \ {0}, at : Nat]
SpanRec == [plan : Seq(RunRec), working : Seq(ExtRec), remaining : Nat]
WholeTable(table) == table \in Seq(DevRec) /\ \A i \in DOMAIN table : Limit(table[i]) > 0

LEMMA DeviceFacts ==
  ASSUME NEW table, WholeTable(table), NEW d \in DeviceIndices(table)
  PROVE  /\ table \in Seq(DevRec) /\ Device(table, d) \in DevRec /\ d \in Nat
         /\ Limit(Device(table, d)) \in Nat \ {0}
<1>1. d + 1 \in 1 .. Len(table) /\ table \in Seq(DevRec) /\ d \in Nat
  BY DEF WholeTable, DeviceIndices
<1>2. table[d + 1] \in DevRec /\ Limit(table[d + 1]) > 0
  BY <1>1 DEF WholeTable
<1>3. Limit(table[d + 1]) \in Nat
  BY <1>2, LimitType
<1> QED
  BY <1>1, <1>2, <1>3 DEF Device

\* A run that may be allocated beside these extents.
Placed(exts, table, r) ==
  /\ r.source \in DeviceIndices(table)
  /\ Legal(Device(table, r.source), r.at)
  /\ IsRangeFree(exts, table, r.source, r.at, r.num)

\* One turn of one device: it takes nothing, if there is nothing to take, or a
\* legal run, which is the longest there is or all that is left to plan.
LEMMA TakeIs ==
  ASSUME NEW table, WholeTable(table), NEW d \in DeviceIndices(table), NEW acc \in SpanRec
  PROVE  LET most == LargestFreeRun(acc.working, table, d)
             new == TakeLargest(table, acc, d)
         IN /\ most \in Nat
            /\ acc.remaining = 0 \/ most = 0 => new = acc
            /\ acc.remaining > 0 /\ most > 0 =>
                 \E r \in RunRec : /\ r.source = d /\ Placed(acc.working, table, r)
                                   /\ r.num \in {acc.remaining, most}
                                   /\ r.num <= acc.remaining /\ r.num <= most
                                   /\ new = AddRun(acc, r)
<1> DEFINE most == LargestFreeRun(acc.working, table, d)
           new == TakeLargest(table, acc, d)
           num == Smaller(acc.remaining, most)
           at == FindFree(acc.working, table, d, num)
           r == [source |-> d, num |-> num, at |-> at]
<1>1. acc.working \in Seq(ExtRec) /\ acc.remaining \in Nat
  BY DEF SpanRec
<1>2. /\ table \in Seq(DevRec) /\ d \in Nat /\ Device(table, d) \in DevRec
      /\ Limit(Device(table, d)) > 0
  BY DeviceFacts
<1>3. most \in Nat
  <2> DEFINE w == acc.working
  <2>1. w \in Seq(ExtRec)
    BY <1>1
  <2> HIDE DEF w
  <2>2. LargestFreeRun(w, table, d) \in Nat
    BY <1>2, <2>1, LargestFacts
  <2> QED
    BY <2>2 DEF w
<1>4. new = IF num = 0 THEN acc ELSE AddRun(acc, r)
  BY DEF TakeLargest, Take
<1> HIDE DEF most
<1>5. /\ num \in Nat /\ num \in {acc.remaining, most} /\ num <= acc.remaining /\ num <= most
      /\ num = 0 <=> acc.remaining = 0 \/ most = 0
  BY <1>1, <1>3 DEF Smaller
<1> HIDE DEF num, new
<1>6. ASSUME num # 0
      PROVE  r \in RunRec /\ r.source = d /\ r.num = num /\ Placed(acc.working, table, r)
  <2> DEFINE w == acc.working
  <2>1. w \in Seq(ExtRec) /\ num \in Nat \ {0} /\ num <= LargestFreeRun(w, table, d)
    BY <1>1, <1>5, <1>6 DEF most
  <2>2. at = FindFree(w, table, d, num)
    OBVIOUS
  <2> HIDE DEF w, at
  <2>3. at # NoFit
    BY <1>2, <2>1, <2>2, LargestIsGranted
  <2>4. Legal(Device(table, d), at) /\ IsRangeFree(w, table, d, at, num)
    BY <1>2, <2>1, <2>2, <2>3, FindFreeFacts
  <2>5. r \in RunRec
    BY <1>2, <2>1, <2>4 DEF RunRec, Legal
  <2> QED
    BY <2>4, <2>5 DEF Placed, w
<1> HIDE DEF r
<1>7. CASE num = 0
  BY <1>3, <1>4, <1>5, <1>7 DEF new, most
<1>8. CASE num # 0
  BY <1>1, <1>3, <1>4, <1>5, <1>6, <1>8 DEF new, most
<1> QED
  BY <1>7, <1>8

LEMMA AddRunType ==
  ASSUME NEW acc \in SpanRec, NEW r \in RunRec, r.num <= acc.remaining
  PROVE  /\ AddRun(acc, r) \in SpanRec
         /\ AddRun(acc, r).plan = Append(acc.plan, r)
         /\ AddRun(acc, r).working = Append(acc.working, RunExtent(r))
         /\ AddRun(acc, r).remaining = acc.remaining - r.num
         /\ RunExtent(r) \in ExtRec
<1>1. RunExtent(r) \in ExtRec
  BY DEF RunExtent, RunRec, ExtRec
<1>2. acc.plan \in Seq(RunRec) /\ acc.working \in Seq(ExtRec) /\ acc.remaining \in Nat
  BY DEF SpanRec
<1>3. r.num \in Nat /\ acc.remaining - r.num \in Nat
  BY <1>2 DEF RunRec
<1>4. Append(acc.plan, r) \in Seq(RunRec) /\ Append(acc.working, RunExtent(r)) \in Seq(ExtRec)
  BY <1>1, <1>2
<1> QED
  BY <1>1, <1>3, <1>4 DEF AddRun, SpanRec

\* The sectors of a device that a request can reach at all.
ReachIn(exts, table, d) ==
  {t \in Nat : \E s \in 0 .. t : Legal(Device(table, d), s) /\ IsRangeFree(exts, table, d, s, t - s + 1)}

PlanCells(plan) == UNION {Blocks(plan[i]) : i \in DOMAIN plan}

\* A working list holds the extents and the runs planned so far.
Works(exts, acc) ==
  /\ \A i \in DOMAIN exts : \E j \in DOMAIN acc.working : acc.working[j] = exts[i]
  /\ \A i \in DOMAIN acc.plan : \E j \in DOMAIN acc.working : acc.working[j] = RunExtent(acc.plan[i])

\* The plan so far: legal runs apart from each other, that with what is left make
\* the request.  While something is left, no reachable sector has been wasted.
SpanInv(exts, table, needed, acc) ==
  /\ acc \in SpanRec
  /\ Works(exts, acc)
  /\ \A i \in DOMAIN acc.plan : Placed(exts, table, acc.plan[i])
  /\ \A i, j \in DOMAIN acc.plan : i # j => Blocks(acc.plan[i]) \cap Blocks(acc.plan[j]) = {}
  /\ IsFiniteSet(PlanCells(acc.plan))
  /\ Cardinality(PlanCells(acc.plan)) + acc.remaining = needed
  /\ acc.remaining > 0 =>
       \A d \in DeviceIndices(table) : \A t \in ReachIn(exts, table, d) :
         t \in ReachIn(acc.working, table, d) \/ <<d, t>> \in PlanCells(acc.plan)

LEMMA BlocksCount ==
  ASSUME NEW r \in RunRec
  PROVE  IsFiniteSet(Blocks(r)) /\ Cardinality(Blocks(r)) = r.num
<1> DEFINE S == r.at .. r.at + r.num - 1
           f == [t \in S |-> <<r.source, t>>]
<1>1. r.at \in Nat /\ r.num \in Nat \ {0}
  BY DEF RunRec
<1>2. IsFiniteSet(S) /\ Cardinality(S) = r.num
  <2>1. r.at \in Int /\ r.at + r.num - 1 \in Int
    BY <1>1
  <2>2. IsFiniteSet(S) /\ Cardinality(S) = IF r.at > r.at + r.num - 1 THEN 0 ELSE (r.at + r.num - 1) - r.at + 1
    BY <2>1, FS_Interval
  <2> HIDE DEF S
  <2> QED
    BY <1>1, <2>2
<1>3. f \in Bijection(S, Blocks(r))
  <2>1. f \in Injection(S, Blocks(r))
    BY DEF Injection, IsInjective, Blocks
  <2>2. f \in Surjection(S, Blocks(r))
    BY DEF Surjection, Blocks
  <2> QED
    BY <2>1, <2>2 DEF Bijection
<1>4. ExistsBijection(S, Blocks(r))
  BY <1>3 DEF ExistsBijection
<1> QED
  BY <1>2, <1>4, FS_Bijection
LEMMA MeetsRun ==
  ASSUME NEW r \in RunRec, NEW s, NEW len
  PROVE  /\ OnDevice(RunExtent(r), r.source)
         /\ \A d : OnDevice(RunExtent(r), d) => d = r.source
         /\ Meets(RunExtent(r), s, len) <=> s < r.at + r.num /\ r.at < s + len
BY DEF OnDevice, RunExtent, Meets, End

LEMMA AppendFree ==
  ASSUME NEW w \in Seq(ExtRec), NEW r \in RunRec, NEW table, NEW d, NEW s, NEW len
  PROVE  IsRangeFree(Append(w, RunExtent(r)), table, d, s, len) <=>
           /\ IsRangeFree(w, table, d, s, len)
           /\ r.source = d => ~(s < r.at + r.num /\ r.at < s + len)
<1> DEFINE e == RunExtent(r)
           v == Append(w, e)
<1>1. e \in ExtRec
  BY DEF RunExtent, RunRec, ExtRec
<1> HIDE DEF e
<1>2. /\ DOMAIN v = 1 .. Len(w) + 1 /\ DOMAIN w = 1 .. Len(w) /\ Len(w) \in Nat
      /\ \A i \in 1 .. Len(w) : v[i] = w[i]
      /\ v[Len(w) + 1] = e
  BY <1>1
<1> HIDE DEF v
<1>3. (\A i \in DOMAIN v : OnDevice(v[i], d) => ~Meets(v[i], s, len)) <=>
        /\ \A i \in DOMAIN w : OnDevice(w[i], d) => ~Meets(w[i], s, len)
        /\ OnDevice(e, d) => ~Meets(e, s, len)
  <2>1. \A i \in DOMAIN v : i \in DOMAIN w \/ i = Len(w) + 1
    BY <1>2
  <2>2. Len(w) + 1 \in DOMAIN v /\ \A i \in DOMAIN w : i \in DOMAIN v
    BY <1>2
  <2> QED
    BY <1>2, <2>1, <2>2
<1>4. OnDevice(e, d) <=> r.source = d
  BY MeetsRun DEF e
<1>5. Meets(e, s, len) <=> s < r.at + r.num /\ r.at < s + len
  BY MeetsRun DEF e
<1> QED
  BY <1>3, <1>4, <1>5 DEF IsRangeFree, v, e

LEMMA WorksFree ==
  ASSUME NEW exts, NEW table, NEW acc \in SpanRec, Works(exts, acc), NEW d, NEW s, NEW len,
         IsRangeFree(acc.working, table, d, s, len)
  PROVE  /\ IsRangeFree(exts, table, d, s, len)
         /\ \A i \in DOMAIN acc.plan :
              acc.plan[i].source = d =>
                ~(s < acc.plan[i].at + acc.plan[i].num /\ acc.plan[i].at < s + len)
<1>1. IsRangeFree(exts, table, d, s, len)
  BY DEF Works, IsRangeFree
<1>2. ASSUME NEW i \in DOMAIN acc.plan, acc.plan[i].source = d
      PROVE  ~(s < acc.plan[i].at + acc.plan[i].num /\ acc.plan[i].at < s + len)
  <2> DEFINE r == acc.plan[i]
  <2>1. r \in RunRec
    BY DEF SpanRec
  <2>2. PICK j \in DOMAIN acc.working : acc.working[j] = RunExtent(r)
    BY DEF Works
  <2> HIDE DEF r
  <2>3. OnDevice(RunExtent(r), d)
    BY <1>2, <2>1, MeetsRun DEF r
  <2>4. ~Meets(RunExtent(r), s, len)
    BY <2>2, <2>3 DEF IsRangeFree
  <2>5. ~(s < r.at + r.num /\ r.at < s + len)
    BY <2>1, <2>4, MeetsRun
  <2> QED
    BY <2>5 DEF r
<1> QED
  BY <1>1, <1>2

LEMMA ApartRuns ==
  ASSUME NEW r \in RunRec, NEW q \in RunRec,
         q.source = r.source => ~(r.at < q.at + q.num /\ q.at < r.at + r.num)
  PROVE  Blocks(q) \cap Blocks(r) = {}
<1> SUFFICES ASSUME NEW x \in Blocks(q), x \in Blocks(r) PROVE FALSE
  OBVIOUS
<1>1. PICK t \in q.at .. q.at + q.num - 1 : x = <<q.source, t>>
  BY DEF Blocks
<1>2. PICK v \in r.at .. r.at + r.num - 1 : x = <<r.source, v>>
  BY DEF Blocks
<1>3. t = v /\ q.source = r.source
  BY <1>1, <1>2
<1>4. q.at \in Nat /\ q.num \in Nat /\ r.at \in Nat /\ r.num \in Nat
  BY DEF RunRec
<1> QED
  BY <1>1, <1>2, <1>3, <1>4

LEMMA PlanCellsAppend ==
  ASSUME NEW plan \in Seq(RunRec), NEW r \in RunRec
  PROVE  PlanCells(Append(plan, r)) = PlanCells(plan) \cup Blocks(r)
<1> DEFINE v == Append(plan, r)
<1>1. /\ DOMAIN v = 1 .. Len(plan) + 1 /\ DOMAIN plan = 1 .. Len(plan) /\ Len(plan) \in Nat
      /\ \A i \in 1 .. Len(plan) : v[i] = plan[i]
      /\ v[Len(plan) + 1] = r
  OBVIOUS
<1> HIDE DEF v
<1>2. \A i \in DOMAIN v : i \in DOMAIN plan \/ i = Len(plan) + 1
  BY <1>1
<1>3. Len(plan) + 1 \in DOMAIN v /\ \A i \in DOMAIN plan : i \in DOMAIN v
  BY <1>1
<1>4. ASSUME NEW x PROVE x \in PlanCells(v) <=> x \in PlanCells(plan) \/ x \in Blocks(r)
  BY <1>1, <1>2, <1>3 DEF PlanCells
<1> QED
  BY <1>4 DEF v
\* Two free stretches that overlap are one.
LEMMA JoinFree ==
  ASSUME NEW w \in Seq(ExtRec), NEW table, WholeTable(table), NEW d \in DeviceIndices(table),
         NEW s \in Nat, NEW m \in Nat, IsRangeFree(w, table, d, s, m),
         NEW p \in Nat, NEW n \in Nat, IsRangeFree(w, table, d, p, n),
         s < p + n, p < s + m,
         NEW a \in Nat, a = IF s <= p THEN s ELSE p,
         NEW b \in Nat, b = IF s + m >= p + n THEN s + m ELSE p + n
  PROVE  b - a \in Nat /\ IsRangeFree(w, table, d, a, b - a)
<1> DEFINE lim == Limit(Device(table, d))
<1>1. lim \in Nat \ {0}
  BY DeviceFacts
<1> HIDE DEF lim
<1>2. s + m <= lim /\ p + n <= lim
  BY <1>1 DEF IsRangeFree, lim
<1>3. b - a \in Nat /\ a + (b - a) = b /\ b <= lim
  BY <1>2
<1>4. ASSUME NEW i \in DOMAIN w, OnDevice(w[i], d) PROVE ~Meets(w[i], a, b - a)
  <2> DEFINE x == w[i].data
             y == End(w[i])
  <2>1. w[i] \in ExtRec
    OBVIOUS
  <2>2. x \in Nat /\ y \in Nat /\ x <= y
    BY SMTT(30), <2>1 DEF ExtRec, End
  <2>3. ~Meets(w[i], s, m) /\ ~Meets(w[i], p, n)
    BY <1>4 DEF IsRangeFree
  <2>4. ~(s < y /\ x < s + m) /\ ~(p < y /\ x < p + n)
    BY <2>3 DEF Meets
  <2> HIDE DEF x, y
  <2>5. ~(a < y /\ x < b)
    BY <2>2, <2>4
  <2> QED
    BY <1>3, <2>5 DEF Meets, x, y
<1> QED
  BY <1>3, <1>4 DEF IsRangeFree, lim

\* The longest run takes all of the free stretch it lies in.
LEMMA LongestTakesAll ==
  ASSUME NEW w \in Seq(ExtRec), NEW table, WholeTable(table),
         NEW r \in RunRec, Placed(w, table, r), r.num = LargestFreeRun(w, table, r.source),
         NEW d \in DeviceIndices(table), NEW t \in ReachIn(w, table, d)
  PROVE  t \in ReachIn(Append(w, RunExtent(r)), table, d) \/ <<d, t>> \in Blocks(r)
<1> DEFINE dev == Device(table, d)
<1>1. PICK s \in 0 .. t : Legal(dev, s) /\ IsRangeFree(w, table, d, s, t - s + 1)
  BY DEF ReachIn
<1>2. t \in Nat /\ s \in Nat /\ t - s + 1 \in Nat /\ s + (t - s + 1) = t + 1
  BY DEF ReachIn
<1>3. r.at \in Nat /\ r.num \in Nat \ {0}
  BY DEF RunRec
<1>4. CASE ~(r.source = d /\ s < r.at + r.num /\ r.at < t + 1)
  <2>1. IsRangeFree(Append(w, RunExtent(r)), table, d, s, t - s + 1)
    BY <1>1, <1>2, <1>4, AppendFree
  <2> QED
    BY <1>1, <1>2, <2>1 DEF ReachIn
<1>5. CASE r.source = d /\ s < r.at + r.num /\ r.at < t + 1
  <2> DEFINE p == r.at
             n == r.num
             m == t - s + 1
             a == IF s <= p THEN s ELSE p
             b == IF s + m >= p + n THEN s + m ELSE p + n
  <2>1. IsRangeFree(w, table, d, p, n) /\ Legal(dev, p)
    BY <1>5 DEF Placed
  <2>2. p \in Nat /\ n \in Nat \ {0} /\ m \in Nat /\ s + m = t + 1
    BY <1>2, <1>3
  <2>3. s < p + n /\ p < s + m /\ IsRangeFree(w, table, d, s, m)
    BY <1>1, <1>2, <1>5
  <2>4. n = LargestFreeRun(w, table, d)
    BY <1>5
  <2> HIDE DEF p, n, m, dev
  <2>5. a \in Nat /\ b \in Nat /\ Legal(dev, a) /\ a <= p /\ b >= p + n /\ a < b /\ b >= t + 1
    BY <1>1, <1>2, <2>1, <2>2
  <2>6. b - a \in Nat /\ IsRangeFree(w, table, d, a, b - a)
    BY <1>2, <2>1, <2>2, <2>3, <2>5, JoinFree
  <2> HIDE DEF a, b
  <2>7. b - a \in Nat \ {0}
    BY <2>5, <2>6
  <2>8. b - a <= n
    <3>1. table \in Seq(DevRec) /\ Limit(Device(table, d)) > 0
      BY DeviceFacts
    <3> QED
      BY <2>4, <2>5, <2>6, <2>7, <3>1, LargestFacts DEF dev
  <2>9. p <= t /\ t <= p + n - 1
    BY <1>2, <2>2, <2>3, <2>5, <2>8
  <2>10. t \in p .. p + n - 1
    BY <1>2, <2>2, <2>9
  <2> QED
    BY <1>5, <2>10 DEF Blocks, p, n
<1> QED
  BY <1>4, <1>5

LEMMA RunAdded ==
  ASSUME NEW exts \in Seq(ExtRec), NEW table, WholeTable(table), NEW needed \in Nat,
         NEW acc, SpanInv(exts, table, needed, acc),
         NEW r \in RunRec, Placed(acc.working, table, r), r.num <= acc.remaining,
         r.num \in {acc.remaining, LargestFreeRun(acc.working, table, r.source)}
  PROVE  SpanInv(exts, table, needed, AddRun(acc, r))
<1> DEFINE new == AddRun(acc, r)
           n == Len(acc.plan)
<1>1. /\ acc \in SpanRec /\ acc.plan \in Seq(RunRec) /\ acc.working \in Seq(ExtRec)
      /\ acc.remaining \in Nat /\ r.num \in Nat \ {0}
  BY DEF SpanInv, SpanRec, RunRec
<1>2. /\ new \in SpanRec
      /\ new.plan = Append(acc.plan, r)
      /\ new.working = Append(acc.working, RunExtent(r))
      /\ new.remaining = acc.remaining - r.num
      /\ RunExtent(r) \in ExtRec
  BY <1>1, AddRunType
<1> HIDE DEF new
<1>3. /\ n \in Nat /\ DOMAIN acc.plan = 1 .. n /\ DOMAIN new.plan = 1 .. n + 1
      /\ \A i \in 1 .. n : new.plan[i] = acc.plan[i] /\ acc.plan[i] \in RunRec
      /\ new.plan[n + 1] = r
      /\ \A i \in 1 .. n + 1 : i \in 1 .. n \/ i = n + 1
  BY <1>1, <1>2
<1> HIDE DEF n
<1>4. Works(exts, new)
  <2>1. /\ \A j \in DOMAIN acc.working : j \in DOMAIN new.working /\ new.working[j] = acc.working[j]
        /\ \E j \in DOMAIN new.working : new.working[j] = RunExtent(r)
    <3> DEFINE w == acc.working
               e == RunExtent(r)
    <3>1. w \in Seq(ExtRec) /\ e \in ExtRec
      BY <1>1, <1>2
    <3> HIDE DEF w, e
    <3>2. /\ \A j \in DOMAIN w : j \in DOMAIN Append(w, e) /\ Append(w, e)[j] = w[j]
          /\ Len(w) + 1 \in DOMAIN Append(w, e) /\ Append(w, e)[Len(w) + 1] = e
      BY <3>1
    <3> QED
      BY <1>2, <3>2 DEF w, e
  <2>2. Works(exts, acc)
    BY DEF SpanInv
  <2>3. ASSUME NEW i \in DOMAIN exts PROVE \E j \in DOMAIN new.working : new.working[j] = exts[i]
    BY <2>1, <2>2 DEF Works
  <2>4. ASSUME NEW i \in DOMAIN new.plan
        PROVE  \E j \in DOMAIN new.working : new.working[j] = RunExtent(new.plan[i])
    <3>1. CASE i = n + 1
      BY <1>3, <2>1, <3>1
    <3>2. CASE i \in 1 .. n
      BY <1>3, <2>1, <2>2, <3>2 DEF Works
    <3> QED
      BY <1>3, <3>1, <3>2
  <2> QED
    BY <2>3, <2>4 DEF Works
<1>5. /\ IsRangeFree(exts, table, r.source, r.at, r.num)
      /\ \A i \in 1 .. n : acc.plan[i].source = r.source =>
           ~(r.at < acc.plan[i].at + acc.plan[i].num /\ acc.plan[i].at < r.at + r.num)
  <2>1. Works(exts, acc) /\ IsRangeFree(acc.working, table, r.source, r.at, r.num)
    BY DEF SpanInv, Placed
  <2> QED
    BY ZenonT(60), <1>1, <1>3, <2>1, WorksFree
<1>6. ASSUME NEW i \in DOMAIN new.plan PROVE Placed(exts, table, new.plan[i])
  <2>1. Placed(exts, table, r)
    BY <1>5 DEF Placed
  <2> QED
    BY <1>3, <2>1 DEF SpanInv
<1>7. ASSUME NEW i \in 1 .. n PROVE Blocks(acc.plan[i]) \cap Blocks(r) = {}
  <2> DEFINE q == acc.plan[i]
  <2>1. q \in RunRec /\ (q.source = r.source => ~(r.at < q.at + q.num /\ q.at < r.at + r.num))
    BY <1>3, <1>5
  <2> HIDE DEF q
  <2>2. Blocks(q) \cap Blocks(r) = {}
    BY <2>1, ApartRuns
  <2> QED
    BY <2>2 DEF q
<1>8. ASSUME NEW i \in DOMAIN new.plan, NEW j \in DOMAIN new.plan, i # j
      PROVE  Blocks(new.plan[i]) \cap Blocks(new.plan[j]) = {}
  <2>1. CASE i \in 1 .. n /\ j \in 1 .. n
    BY <1>3, <1>8, <2>1 DEF SpanInv
  <2>2. CASE i \in 1 .. n /\ j = n + 1
    BY <1>3, <1>7, <2>2
  <2>3. CASE j \in 1 .. n /\ i = n + 1
    BY <1>3, <1>7, <2>3
  <2> QED
    BY <1>3, <1>8, <2>1, <2>2, <2>3
<1>9. PlanCells(new.plan) = PlanCells(acc.plan) \cup Blocks(r)
  BY <1>1, <1>2, PlanCellsAppend
<1>10. /\ IsFiniteSet(PlanCells(new.plan))
       /\ Cardinality(PlanCells(new.plan)) + new.remaining = needed
  <2> DEFINE C == PlanCells(acc.plan)
             B == Blocks(r)
  <2>1. C \cap B = {}
    BY <1>3, <1>7 DEF PlanCells
  <2>2. IsFiniteSet(C) /\ Cardinality(C) + acc.remaining = needed
    BY DEF SpanInv
  <2>3. IsFiniteSet(B) /\ Cardinality(B) = r.num
    BY BlocksCount
  <2> HIDE DEF C, B
  <2>4. Cardinality(C) \in Nat /\ Cardinality({}) = 0
    BY <2>2, FS_CardinalityType, FS_EmptySet
  <2>5. IsFiniteSet(C \cup B) /\ Cardinality(C \cup B) = Cardinality(C) + r.num
    <3>1. /\ IsFiniteSet(C \cup B)
          /\ Cardinality(C \cup B) = Cardinality(C) + Cardinality(B) - Cardinality(C \cap B)
      BY <2>2, <2>3, FS_Union
    <3>2. Cardinality(C \cap B) = 0
      BY <2>1, <2>4, Zenon
    <3>3. Cardinality(C) \in Nat /\ r.num \in Nat
      BY <1>1, <2>4
    <3> QED
      BY <2>3, <3>1, <3>2, <3>3
  <2>6. Cardinality(C \cup B) + new.remaining = needed
    BY <1>1, <1>2, <2>2, <2>4, <2>5
  <2> QED
    BY <1>9, <2>5, <2>6 DEF C, B
<1>11. ASSUME new.remaining > 0, NEW d \in DeviceIndices(table), NEW t \in ReachIn(exts, table, d)
       PROVE  t \in ReachIn(new.working, table, d) \/ <<d, t>> \in PlanCells(new.plan)
  <2>1. acc.remaining > 0 /\ r.num = LargestFreeRun(acc.working, table, r.source)
    BY <1>1, <1>2, <1>11
  <2>2. t \in ReachIn(acc.working, table, d) \/ <<d, t>> \in PlanCells(acc.plan)
    BY <1>11, <2>1 DEF SpanInv
  <2>3. CASE t \in ReachIn(acc.working, table, d)
    <3>1. t \in ReachIn(Append(acc.working, RunExtent(r)), table, d) \/ <<d, t>> \in Blocks(r)
      BY <1>1, <2>1, <2>3, LongestTakesAll
    <3> QED
      BY <1>2, <1>9, <3>1
  <2> QED
    BY <1>9, <2>2, <2>3
<1>12. SpanInv(exts, table, needed, new)
  BY <1>2, <1>4, <1>6, <1>8, <1>10, <1>11 DEF SpanInv
<1> QED
  BY <1>12 DEF new

LEMMA TakeKeeps ==
  ASSUME NEW exts \in Seq(ExtRec), NEW table, WholeTable(table), NEW needed \in Nat,
         NEW acc, SpanInv(exts, table, needed, acc), NEW d \in DeviceIndices(table)
  PROVE  LET new == TakeLargest(table, acc, d)
         IN /\ SpanInv(exts, table, needed, new)
            /\ new.remaining <= acc.remaining
            /\ new.remaining = acc.remaining => new = acc
            /\ acc.remaining > 0 /\ ReachIn(acc.working, table, d) # {} =>
                 new.remaining < acc.remaining
<1> DEFINE new == TakeLargest(table, acc, d)
           w == acc.working
           most == LargestFreeRun(w, table, d)
<1>1. acc \in SpanRec /\ acc.remaining \in Nat /\ w \in Seq(ExtRec)
  BY DEF SpanInv, SpanRec
<1>2. /\ most \in Nat
      /\ acc.remaining = 0 \/ most = 0 => new = acc
      /\ acc.remaining > 0 /\ most > 0 =>
           \E r \in RunRec : /\ r.source = d /\ Placed(w, table, r)
                             /\ r.num \in {acc.remaining, most}
                             /\ r.num <= acc.remaining /\ r.num <= most
                             /\ new = AddRun(acc, r)
  BY <1>1, TakeIs
<1>3. ReachIn(w, table, d) # {} => most > 0
  <2> SUFFICES ASSUME NEW t \in ReachIn(w, table, d) PROVE most > 0
    OBVIOUS
  <2>1. PICK s \in 0 .. t : Legal(Device(table, d), s) /\ IsRangeFree(w, table, d, s, t - s + 1)
    BY DEF ReachIn
  <2>2. t \in Nat /\ s \in Nat /\ t - s + 1 \in Nat \ {0}
    BY DEF ReachIn
  <2>3. table \in Seq(DevRec) /\ Limit(Device(table, d)) > 0
    BY DeviceFacts
  <2> HIDE DEF w, most
  <2>4. t - s + 1 <= most
    BY <1>1, <2>1, <2>2, <2>3, LargestFacts DEF most
  <2> QED
    BY <1>2, <2>2, <2>4
<1> HIDE DEF new
<1>4. CASE acc.remaining = 0 \/ most = 0
  <2>1. new = acc
    BY <1>2, <1>4
  <2> QED
    BY <1>1, <1>3, <1>4, <2>1 DEF new
<1>5. CASE acc.remaining > 0 /\ most > 0
  <2>1. PICK r \in RunRec : /\ r.source = d /\ Placed(w, table, r)
                            /\ r.num \in {acc.remaining, most}
                            /\ r.num <= acc.remaining
                            /\ new = AddRun(acc, r)
    BY <1>2, <1>5
  <2>2. SpanInv(exts, table, needed, new)
    BY <2>1, RunAdded
  <2>3. new.remaining = acc.remaining - r.num /\ r.num \in Nat \ {0}
    BY <1>1, <2>1, AddRunType DEF RunRec
  <2> QED
    BY <1>1, <2>2, <2>3 DEF new
<1> QED
  BY <1>1, <1>2, <1>4, <1>5

\* The recursion of one round over the devices.
TurnScan(table, start, g) ==
  g = [k \in 0 .. Len(table) |-> IF k = 0 THEN start ELSE TakeLargest(table, g[k - 1], k - 1)]

Spans(exts, table, needed) == {a \in SpanRec : SpanInv(exts, table, needed, a)}

LEMMA SpanRoundIs ==
  ASSUME NEW exts \in Seq(ExtRec), NEW table, WholeTable(table), NEW needed \in Nat,
         NEW start, SpanInv(exts, table, needed, start)
  PROVE  \E g : /\ TurnScan(table, start, g)
                /\ g \in [0 .. Len(table) -> Spans(exts, table, needed)]
                /\ SpanRound(table, start) = g[Len(table)]
<1> DEFINE n == Len(table)
           S == Spans(exts, table, needed)
           step == [p \in S \X (1 .. n) |-> TakeLargest(table, p[1], p[2] - 1)]
<1>0. n \in Nat
  BY DEF WholeTable
<1>1. start \in S
  BY DEF Spans, SpanInv
<1>2. step \in [S \X (1 .. n) -> S]
  <2> SUFFICES ASSUME NEW a \in S, NEW k \in 1 .. n PROVE TakeLargest(table, a, k - 1) \in S
    OBVIOUS
  <2>1. k - 1 \in DeviceIndices(table)
    BY <1>0 DEF DeviceIndices
  <2>2. SpanInv(exts, table, needed, a)
    BY DEF Spans
  <2>3. SpanInv(exts, table, needed, TakeLargest(table, a, k - 1))
    BY <2>1, <2>2, TakeKeeps
  <2> QED
    BY <2>3 DEF Spans, SpanInv
<1> HIDE DEF S
<1>3. PICK g : Iterates(n, S, start, step, g)
  <2> HIDE DEF step, n
  <2> QED
    BY <1>0, <1>1, <1>2, IteratesExist
<1>4. \A a \in S : \A k \in 1 .. n : step[<<a, k>>] = TakeLargest(table, a, k - 1)
  OBVIOUS
<1> HIDE DEF step
<1>5. TurnScan(table, start, g)
  <2>1. g \in [0 .. n -> S] /\ g[0] = start
    BY <1>3 DEF Iterates
  <2>2. ASSUME NEW k \in 0 .. n, k # 0 PROVE g[k] = TakeLargest(table, g[k - 1], k - 1)
    <3>1. k \in 1 .. n /\ k - 1 \in 0 .. n
      BY <1>0, <2>2
    <3> QED
      BY <1>3, <1>4, <2>1, <3>1 DEF Iterates
  <2> QED
    BY <2>1, <2>2 DEF TurnScan
<1> DEFINE p == CHOOSE h : TurnScan(table, start, h)
<1>6. TurnScan(table, start, p)
  BY <1>5
<1>7. SpanRound(table, start) = p[n]
  BY DEF SpanRound, TurnScan
<1> HIDE DEF p
<1>8. \A k \in 0 .. n : p[k] = g[k]
  <2> DEFINE T == {k \in Nat : k <= n => p[k] = g[k]}
  <2>1. 0 \in T
    BY <1>0, <1>5, <1>6 DEF TurnScan
  <2>2. ASSUME NEW k \in Nat, k \in T PROVE k + 1 \in T
    <3> SUFFICES ASSUME k + 1 <= n PROVE p[k + 1] = g[k + 1]
      OBVIOUS
    <3>1. k + 1 \in 0 .. n /\ k + 1 # 0 /\ (k + 1) - 1 = k /\ p[k] = g[k]
      BY <1>0, <2>2
    <3>2. p[k + 1] = TakeLargest(table, p[k], k) /\ g[k + 1] = TakeLargest(table, g[k], k)
      BY <1>5, <1>6, <3>1 DEF TurnScan
    <3> QED
      BY <3>1, <3>2
  <2>3. \A k \in Nat : k \in T
    <3> HIDE DEF T
    <3> QED
      BY <2>1, <2>2, CountUp
  <2> QED
    BY <2>3
<1>9. g \in [0 .. n -> S]
  BY <1>3 DEF Iterates
<1> QED
  BY <1>0, <1>5, <1>7, <1>8, <1>9 DEF S

\* A round keeps the invariant and plans no less than before; it makes progress
\* if, at its start, something was left to plan and to reach.
LEMMA RoundKeeps ==
  ASSUME NEW exts \in Seq(ExtRec), NEW table, WholeTable(table), NEW needed \in Nat,
         NEW start, SpanInv(exts, table, needed, start)
  PROVE  LET new == SpanRound(table, start)
         IN /\ SpanInv(exts, table, needed, new)
            /\ new.remaining <= start.remaining
            /\ start.remaining > 0
                 /\ (\E d \in DeviceIndices(table) : ReachIn(start.working, table, d) # {}) =>
                 new.remaining < start.remaining
<1> DEFINE n == Len(table)
           new == SpanRound(table, start)
<1>0. n \in Nat /\ start.remaining \in Nat
  BY DEF WholeTable, SpanInv, SpanRec
<1>1. PICK g : /\ TurnScan(table, start, g)
               /\ g \in [0 .. n -> Spans(exts, table, needed)]
               /\ new = g[n]
  BY SpanRoundIs
<1> HIDE DEF new
<1> DEFINE Turn(k) ==
             /\ g[k].remaining <= start.remaining
             /\ g[k].remaining = start.remaining => g[k] = start
             /\ start.remaining > 0
                  /\ (\E d \in DeviceIndices(table) : d < k /\ ReachIn(start.working, table, d) # {}) =>
                  g[k].remaining < start.remaining
           T == {k \in Nat : k <= n => Turn(k)}
<1>2. 0 \in T
  <2>1. g[0] = start
    BY <1>0, <1>1 DEF TurnScan
  <2>2. ~\E d \in DeviceIndices(table) : d < 0
    BY DEF DeviceIndices
  <2> QED
    BY <1>0, <2>1, <2>2
<1>3. ASSUME NEW k \in Nat, k \in T PROVE k + 1 \in T
  <2> SUFFICES ASSUME k + 1 <= n PROVE Turn(k + 1)
    OBVIOUS
  <2>1. Turn(k) /\ k \in 0 .. n /\ k + 1 \in 0 .. n /\ k + 1 # 0 /\ (k + 1) - 1 = k
    BY <1>0, <1>3
  <2>2. g[k + 1] = TakeLargest(table, g[k], k)
    BY <1>1, <2>1 DEF TurnScan
  <2> DEFINE a == g[k]
             b == g[k + 1]
  <2>3. SpanInv(exts, table, needed, a) /\ a.remaining \in Nat /\ b.remaining \in Nat
    BY <1>1, <2>1 DEF Spans, SpanRec
  <2>4. k \in DeviceIndices(table)
    BY <1>0 DEF DeviceIndices
  <2>5. b = TakeLargest(table, a, k)
    BY <2>2
  <2>6. /\ a.remaining <= start.remaining
        /\ a.remaining = start.remaining => a = start
        /\ start.remaining > 0
             /\ (\E d \in DeviceIndices(table) : d < k /\ ReachIn(start.working, table, d) # {}) =>
             a.remaining < start.remaining
    BY <2>1
  <2> HIDE DEF a, b
  <2>7. /\ b.remaining <= a.remaining
        /\ b.remaining = a.remaining => b = a
        /\ a.remaining > 0 /\ ReachIn(a.working, table, k) # {} => b.remaining < a.remaining
    BY <2>3, <2>4, <2>5, TakeKeeps
  <2>8. b.remaining <= start.remaining
    BY <1>0, <2>3, <2>6, <2>7
  <2>9. ASSUME b.remaining = start.remaining PROVE b = start
    <3>1. a.remaining = start.remaining /\ b.remaining = a.remaining
      BY <1>0, <2>3, <2>6, <2>7, <2>9
    <3> QED
      BY <2>6, <2>7, <3>1
  <2>10. ASSUME start.remaining > 0, NEW d \in DeviceIndices(table), d < k + 1,
                ReachIn(start.working, table, d) # {}
         PROVE  b.remaining < start.remaining
    <3>1. CASE a.remaining < start.remaining
      BY <1>0, <2>3, <2>7, <3>1
    <3>2. CASE a.remaining = start.remaining
      <4>3. ~(a.remaining < start.remaining)
        BY <1>0, <2>3, <3>2
      <4>4. start.remaining > 0 /\ ReachIn(start.working, table, d) # {}
        BY <2>10
      <4>1. a = start /\ ~(d < k)
        BY <2>6, <3>2, <4>3, <4>4, Zenon
      <4>2. d = k
        BY <2>10, <4>1 DEF DeviceIndices
      <4> QED
        BY <2>7, <2>10, <4>1, <4>2
    <3> QED
      BY <1>0, <2>3, <2>6, <3>1, <3>2
  <2> QED
    BY <2>8, <2>9, <2>10 DEF b
<1>4. Turn(n)
  <2>1. \A k \in Nat : k \in T
    <3> HIDE DEF T
    <3> QED
      BY <1>2, <1>3, CountUp
  <2> QED
    BY <1>0, <2>1
<1>5. SpanInv(exts, table, needed, new)
  BY <1>0, <1>1 DEF Spans
<1>6. \A d \in DeviceIndices(table) : d < n
  BY <1>0 DEF DeviceIndices
<1> QED
  BY <1>1, <1>4, <1>5, <1>6 DEF new

\* The sectors that the devices together can still give out.
Cells(exts, table) ==
  UNION {{<<d, t>> : t \in ReachIn(exts, table, d)} : d \in DeviceIndices(table)}

LEMMA CellsFinite ==
  ASSUME NEW exts \in Seq(ExtRec), NEW table, WholeTable(table)
  PROVE  IsFiniteSet(Cells(exts, table)) /\ Cardinality(Cells(exts, table)) \in Nat
<1> DEFINE Of(d) == {<<d, t>> : t \in ReachIn(exts, table, d)}
           D == DeviceIndices(table)
<1>1. ASSUME NEW d \in D PROVE IsFiniteSet(Of(d))
  <2> DEFINE lim == Limit(Device(table, d))
  <2>1. lim \in Nat \ {0} /\ d \in Nat
    BY <1>1, DeviceFacts
  <2>2. ASSUME NEW t \in ReachIn(exts, table, d) PROVE t \in 0 .. lim
    <3>1. PICK s \in 0 .. t : IsRangeFree(exts, table, d, s, t - s + 1)
      BY DEF ReachIn
    <3>2. s + (t - s + 1) <= lim
      BY <2>1, <3>1 DEF IsRangeFree
    <3>3. t \in Nat /\ s \in Nat
      BY DEF ReachIn
    <3> HIDE DEF lim
    <3> QED
      BY <2>1, <3>2, <3>3
  <2> HIDE DEF lim
  <2>3. IsFiniteSet(ReachIn(exts, table, d))
    <3>1. IsFiniteSet(0 .. lim)
      BY <2>1, FS_Interval
    <3>2. ReachIn(exts, table, d) \in SUBSET (0 .. lim)
      BY <2>2
    <3> QED
      BY <3>1, <3>2, FS_Subset
  <2> DEFINE R == ReachIn(exts, table, d)
             f == [t \in R |-> <<d, t>>]
  <2>4. f \in Surjection(R, Of(d))
    BY DEF Surjection
  <2>5. IsFiniteSet(R)
    BY <2>3
  <2> HIDE DEF f, R
  <2> QED
    BY <2>4, <2>5, FS_Surjection
<1> HIDE DEF Of
<1>2. IsFiniteSet(D)
  <2>1. Len(table) \in Nat
    BY DEF WholeTable
  <2>2. IsFiniteSet(0 .. Len(table) - 1)
    BY <2>1, FS_Interval
  <2> QED
    BY <2>2 DEF DeviceIndices
<1> DEFINE W == {Of(d) : d \in D}
<1>3. IsFiniteSet(W)
  <2> DEFINE f == [d \in D |-> Of(d)]
  <2>1. f \in Surjection(D, W)
    BY DEF Surjection
  <2> HIDE DEF f, W, D
  <2> QED
    BY <1>2, <2>1, FS_Surjection
<1>4. IsFiniteSet(UNION W)
  <2>1. \A s \in W : IsFiniteSet(s)
    BY <1>1
  <2> HIDE DEF W
  <2> QED
    BY <1>3, <2>1, FS_UNION
<1>5. UNION W = Cells(exts, table)
  BY DEF Cells, Of
<1> HIDE DEF W
<1> QED
  BY <1>4, <1>5, FS_CardinalityType

\* What is planned could be reached.
LEMMA PlacedReach ==
  ASSUME NEW exts \in Seq(ExtRec), NEW table, WholeTable(table), NEW r \in RunRec,
         Placed(exts, table, r)
  PROVE  Blocks(r) \subseteq Cells(exts, table)
<1> SUFFICES ASSUME NEW t \in r.at .. r.at + r.num - 1
             PROVE  <<r.source, t>> \in Cells(exts, table)
  BY DEF Blocks
<1> DEFINE d == r.source
           s == r.at
           num == r.num
<1>1. s \in Nat /\ num \in Nat \ {0} /\ d \in DeviceIndices(table)
  BY DEF RunRec, Placed
<1>2. Legal(Device(table, d), s) /\ IsRangeFree(exts, table, d, s, num)
  BY DEF Placed
<1>3. t \in s .. s + num - 1
  OBVIOUS
<1> HIDE DEF d, s, num
<1>4. /\ t \in Nat /\ s \in 0 .. t /\ t - s + 1 \in Nat \ {0} /\ t - s + 1 <= num
      /\ table \in Seq(DevRec)
  BY <1>1, <1>3 DEF WholeTable
<1>5. IsRangeFree(exts, table, d, s, t - s + 1)
  BY <1>1, <1>2, <1>4, ShorterIsFree
<1>6. t \in ReachIn(exts, table, d)
  BY <1>2, <1>4, <1>5 DEF ReachIn
<1> QED
  BY <1>1, <1>6 DEF Cells, d

\* While the devices together can give out as much as was asked for, a sector can
\* be reached as long as something is left to plan.
LEMMA SomethingLeft ==
  ASSUME NEW exts \in Seq(ExtRec), NEW table, WholeTable(table), NEW needed \in Nat,
         NEW acc, SpanInv(exts, table, needed, acc), acc.remaining > 0,
         needed <= Cardinality(Cells(exts, table))
  PROVE  \E d \in DeviceIndices(table) : ReachIn(acc.working, table, d) # {}
<1> SUFFICES ASSUME \A d \in DeviceIndices(table) : ReachIn(acc.working, table, d) = {}
             PROVE  FALSE
  OBVIOUS
<1> DEFINE P == PlanCells(acc.plan)
           C == Cells(exts, table)
<1>1. C \subseteq P
  <2> SUFFICES ASSUME NEW d \in DeviceIndices(table), NEW t \in ReachIn(exts, table, d)
               PROVE  <<d, t>> \in P
    BY DEF Cells
  <2>1. t \in ReachIn(acc.working, table, d) \/ <<d, t>> \in P
    BY DEF SpanInv
  <2> QED
    BY <2>1
<1>2. IsFiniteSet(P) /\ Cardinality(P) + acc.remaining = needed /\ acc.remaining \in Nat
  BY DEF SpanInv, SpanRec
<1>3. needed <= Cardinality(C)
  OBVIOUS
<1> HIDE DEF P, C
<1>4. Cardinality(C) <= Cardinality(P) /\ Cardinality(P) \in Nat /\ Cardinality(C) \in Nat
  <2>1. C \in SUBSET P
    BY <1>1
  <2> QED
    BY <1>2, <2>1, FS_Subset, FS_CardinalityType
<1> QED
  BY <1>2, <1>3, <1>4

\* The recursion over the rounds.
RoundScan(exts, table, needed, g) ==
  g = [k \in 0 .. needed |->
         IF k = 0 THEN [plan |-> <<>>, working |-> exts, remaining |-> needed]
         ELSE SpanRound(table, g[k - 1])]

LEMMA StartSpans ==
  ASSUME NEW exts \in Seq(ExtRec), NEW table, WholeTable(table), NEW needed \in Nat
  PROVE  SpanInv(exts, table, needed, [plan |-> <<>>, working |-> exts, remaining |-> needed])
<1> DEFINE acc == [plan |-> <<>>, working |-> exts, remaining |-> needed]
<1>1. acc.plan = <<>> /\ acc.working = exts /\ acc.remaining = needed /\ acc \in SpanRec
  BY DEF SpanRec
<1> HIDE DEF acc
<1>2. PlanCells(acc.plan) = {} /\ DOMAIN acc.plan = {}
  BY <1>1 DEF PlanCells
<1>3. IsFiniteSet(PlanCells(acc.plan)) /\ Cardinality(PlanCells(acc.plan)) + acc.remaining = needed
  <2>1. IsFiniteSet({}) /\ Cardinality({}) = 0
    BY FS_EmptySet
  <2>2. IsFiniteSet(PlanCells(acc.plan)) /\ Cardinality(PlanCells(acc.plan)) = 0
    BY <1>2, <2>1, Zenon
  <2> QED
    BY <1>1, <2>2
<1>4. Works(exts, acc)
  BY <1>1, <1>2 DEF Works
<1>5. SpanInv(exts, table, needed, acc)
  BY <1>1, <1>2, <1>3, <1>4 DEF SpanInv
<1> QED
  BY <1>5 DEF acc

LEMMA SpannedIs ==
  ASSUME NEW exts \in Seq(ExtRec), NEW table, WholeTable(table), NEW needed \in Nat
  PROVE  \E g : /\ RoundScan(exts, table, needed, g)
                /\ g \in [0 .. needed -> Spans(exts, table, needed)]
                /\ Spanned(exts, table, needed) = g[needed]
<1> DEFINE n == needed
           S == Spans(exts, table, needed)
           x == [plan |-> <<>>, working |-> exts, remaining |-> needed]
           step == [p \in S \X (1 .. n) |-> SpanRound(table, p[1])]
<1>0. n \in Nat
  OBVIOUS
<1>1. x \in S
  <2>1. SpanInv(exts, table, needed, x)
    BY StartSpans
  <2> HIDE DEF x
  <2> QED
    BY <2>1 DEF Spans, SpanInv
<1>2. step \in [S \X (1 .. n) -> S]
  <2> SUFFICES ASSUME NEW a \in S PROVE SpanRound(table, a) \in S
    OBVIOUS
  <2>1. SpanInv(exts, table, needed, a)
    BY DEF Spans
  <2>2. SpanInv(exts, table, needed, SpanRound(table, a))
    BY <2>1, RoundKeeps
  <2> QED
    BY <2>2 DEF Spans, SpanInv
<1> HIDE DEF S, x
<1>3. PICK g : Iterates(n, S, x, step, g)
  <2> HIDE DEF step, n
  <2> QED
    BY <1>0, <1>1, <1>2, IteratesExist
<1>4. \A a \in S : \A k \in 1 .. n : step[<<a, k>>] = SpanRound(table, a)
  OBVIOUS
<1> HIDE DEF step
<1>5. RoundScan(exts, table, needed, g)
  <2>1. g \in [0 .. n -> S] /\ g[0] = x
    BY <1>3 DEF Iterates
  <2>2. ASSUME NEW k \in 0 .. n, k # 0 PROVE g[k] = SpanRound(table, g[k - 1])
    <3>1. k \in 1 .. n /\ k - 1 \in 0 .. n
      BY <1>0, <2>2
    <3> QED
      BY <1>3, <1>4, <2>1, <3>1 DEF Iterates
  <2> QED
    BY <2>1, <2>2 DEF RoundScan, x
<1> DEFINE p == CHOOSE h : RoundScan(exts, table, needed, h)
<1>6. RoundScan(exts, table, needed, p)
  BY <1>5
<1>7. Spanned(exts, table, needed) = p[n]
  BY DEF Spanned, RoundScan
<1> HIDE DEF p
<1>8. \A k \in 0 .. n : p[k] = g[k]
  <2> DEFINE T == {k \in Nat : k <= n => p[k] = g[k]}
  <2>1. 0 \in T
    BY <1>0, <1>5, <1>6 DEF RoundScan
  <2>2. ASSUME NEW k \in Nat, k \in T PROVE k + 1 \in T
    <3> SUFFICES ASSUME k + 1 <= n PROVE p[k + 1] = g[k + 1]
      OBVIOUS
    <3>1. k + 1 \in 0 .. n /\ k + 1 # 0 /\ (k + 1) - 1 = k /\ p[k] = g[k]
      BY <1>0, <2>2
    <3>2. p[k + 1] = SpanRound(table, p[k]) /\ g[k + 1] = SpanRound(table, g[k])
      BY <1>5, <1>6, <3>1 DEF RoundScan
    <3> QED
      BY <3>1, <3>2
  <2>3. \A k \in Nat : k \in T
    <3> HIDE DEF T
    <3> QED
      BY <2>1, <2>2, CountUp
  <2> QED
    BY <2>3
<1>9. g \in [0 .. n -> S]
  BY <1>3 DEF Iterates
<1> QED
  BY <1>0, <1>5, <1>7, <1>8, <1>9 DEF S

\* The rounds keep the invariant, and leave nothing over when there was enough:
\* a round with something left takes at least one sector.
LEMMA SpannedFacts ==
  ASSUME NEW exts \in Seq(ExtRec), NEW table, WholeTable(table), NEW needed \in Nat
  PROVE  LET last == Spanned(exts, table, needed)
         IN /\ SpanInv(exts, table, needed, last)
            /\ needed <= Cardinality(Cells(exts, table)) => last.remaining = 0
<1> DEFINE last == Spanned(exts, table, needed)
<1>1. PICK g : /\ RoundScan(exts, table, needed, g)
               /\ g \in [0 .. needed -> Spans(exts, table, needed)]
               /\ last = g[needed]
  BY SpannedIs
<1> HIDE DEF last
<1>2. ASSUME NEW k \in 0 .. needed
      PROVE  SpanInv(exts, table, needed, g[k]) /\ g[k].remaining \in Nat
  BY <1>1 DEF Spans, SpanRec
<1>3. ASSUME needed <= Cardinality(Cells(exts, table)) PROVE last.remaining = 0
  <2> DEFINE T == {k \in Nat : k <= needed => g[k].remaining = 0 \/ g[k].remaining + k <= needed}
  <2>1. 0 \in T
    <3>1. g[0].remaining = needed
      BY <1>1 DEF RoundScan
    <3> QED
      BY <3>1
  <2>2. ASSUME NEW k \in Nat, k \in T PROVE k + 1 \in T
    <3> SUFFICES ASSUME k + 1 <= needed
                 PROVE  g[k + 1].remaining = 0 \/ g[k + 1].remaining + (k + 1) <= needed
      OBVIOUS
    <3>1. k \in 0 .. needed /\ k + 1 \in 0 .. needed /\ k + 1 # 0 /\ (k + 1) - 1 = k
      OBVIOUS
    <3>2. g[k].remaining = 0 \/ g[k].remaining + k <= needed
      BY <2>2
    <3>3. g[k + 1] = SpanRound(table, g[k])
      BY <1>1, <3>1 DEF RoundScan
    <3>4. SpanInv(exts, table, needed, g[k]) /\ g[k].remaining \in Nat /\ g[k + 1].remaining \in Nat
      BY <1>2, <3>1
    <3> DEFINE a == g[k]
               b == g[k + 1]
    <3>5. b = SpanRound(table, a) /\ SpanInv(exts, table, needed, a)
      BY <3>3, <3>4
    <3>6. a.remaining \in Nat /\ b.remaining \in Nat /\ (a.remaining = 0 \/ a.remaining + k <= needed)
      BY <3>2, <3>4
    <3> HIDE DEF a, b
    <3>7. /\ b.remaining <= a.remaining
          /\ a.remaining > 0
               /\ (\E d \in DeviceIndices(table) : ReachIn(a.working, table, d) # {}) =>
               b.remaining < a.remaining
      BY <3>5, RoundKeeps
    <3>8. a.remaining > 0 => b.remaining < a.remaining
      <4> SUFFICES ASSUME a.remaining > 0 PROVE b.remaining < a.remaining
        OBVIOUS
      <4>1. \E d \in DeviceIndices(table) : ReachIn(a.working, table, d) # {}
        BY <1>3, <3>5, SomethingLeft
      <4> QED
        BY <3>7, <4>1
    <3>9. b.remaining = 0 \/ b.remaining + (k + 1) <= needed
      BY <3>6, <3>7, <3>8
    <3> QED
      BY <3>9 DEF b
  <2>3. needed \in T
    <3> HIDE DEF T
    <3> QED
      BY <2>1, <2>2, CountUp
  <2>4. g[needed].remaining = 0 \/ g[needed].remaining + needed <= needed
    BY <2>3
  <2> QED
    BY <1>1, <1>2, <2>4
<1> QED
  BY <1>1, <1>2, <1>3 DEF last

LEMMA LeastExists ==
  ASSUME NEW S \in SUBSET Nat, S # {}
  PROVE  \E m \in S : \A k \in S : m <= k
<1> SUFFICES ASSUME \A m \in S : \E k \in S : ~(m <= k) PROVE FALSE
  OBVIOUS
<1> DEFINE T == {n \in Nat : \A j \in 0 .. n : j \notin S}
<1>1. 0 \in T
  <2>1. 0 \notin S
    <3> SUFFICES ASSUME 0 \in S PROVE FALSE
      OBVIOUS
    <3>1. PICK k \in S : ~(0 <= k)
      OBVIOUS
    <3> QED
      BY <3>1
  <2> QED
    BY <2>1
<1>2. ASSUME NEW n \in Nat, n \in T PROVE n + 1 \in T
  <2>1. n + 1 \notin S
    <3> SUFFICES ASSUME n + 1 \in S PROVE FALSE
      OBVIOUS
    <3>1. PICK k \in S : ~(n + 1 <= k)
      OBVIOUS
    <3>2. k \in 0 .. n
      BY <3>1
    <3> QED
      BY <1>2, <3>2
  <2>2. \A j \in 0 .. n + 1 : j \in 0 .. n \/ j = n + 1
    OBVIOUS
  <2> QED
    BY <1>2, <2>1, <2>2
<1>3. ASSUME NEW n \in S PROVE FALSE
  <2>1. n \in T
    <3> HIDE DEF T
    <3> QED
      BY <1>1, <1>2, CountUp
  <2> QED
    BY <2>1
<1> QED
  BY <1>3

\* A plan that makes the request: legal runs, apart from each other.
Complete(exts, table, plan, needed) ==
  /\ plan \in Seq(RunRec) /\ plan # NoPlan
  /\ \A i \in DOMAIN plan : Placed(exts, table, plan[i])
  /\ \A i, j \in DOMAIN plan : i # j => Blocks(plan[i]) \cap Blocks(plan[j]) = {}
  /\ Cardinality(PlanCells(plan)) = needed

LEMMA OneRunIsComplete ==
  ASSUME NEW exts, NEW table, NEW needed, NEW r \in RunRec, r.num = needed,
         r.source \in DeviceIndices(table), Legal(Device(table, r.source), r.at),
         IsRangeFree(exts, table, r.source, r.at, needed)
  PROVE  Complete(exts, table, <<r>>, needed)
<1>1. Placed(exts, table, r)
  BY DEF Placed
<1>2. /\ <<r>> \in Seq(RunRec) /\ <<r>> # NoPlan
      /\ \A i \in DOMAIN <<r>> : i = 1 /\ <<r>>[i] = r
  BY DEF NoPlan
<1>3. PlanCells(<<r>>) = Blocks(r)
  BY <1>2 DEF PlanCells
<1>4. Cardinality(Blocks(r)) = needed
  BY BlocksCount
<1> QED
  BY <1>1, <1>2, <1>3, <1>4 DEF Complete

LEMMA FindFreeAnyIs ==
  ASSUME NEW exts \in Seq(ExtRec), NEW table, WholeTable(table), NEW needed \in Nat \ {0}
  PROVE  LET whole == FindFreeAny(exts, table, needed)
         IN whole = NoPlan \/ Complete(exts, table, whole, needed)
<1> DEFINE whole == FindFreeAny(exts, table, needed)
           fits == {d \in DeviceIndices(table) : FindFree(exts, table, d, needed) # NoFit}
           c == CHOOSE c \in fits : \A b \in fits : c <= b
           at == FindFree(exts, table, c, needed)
           r == [source |-> c, at |-> at, num |-> needed]
<1>1. whole = IF fits = {} THEN NoPlan ELSE <<r>>
  BY DEF FindFreeAny
<1> HIDE DEF whole
<1>2. CASE fits = {}
  BY <1>1, <1>2 DEF whole
<1>3. CASE fits # {}
  <2>1. c \in fits
    <3>1. fits \in SUBSET Nat
      BY DEF DeviceIndices
    <3> HIDE DEF fits
    <3>2. \E m \in fits : \A b \in fits : m <= b
      BY <1>3, <3>1, LeastExists
    <3> QED
      BY <3>2
  <2>2. c \in DeviceIndices(table) /\ at # NoFit
    BY <2>1
  <2> HIDE DEF c, fits
  <2>3. c \in Nat /\ table \in Seq(DevRec)
    BY <2>2, DeviceFacts
  <2>4. Legal(Device(table, c), at) /\ IsRangeFree(exts, table, c, at, needed)
    BY <2>2, <2>3, FindFreeFacts
  <2> HIDE DEF at
  <2>5. r \in RunRec /\ r.source = c /\ r.at = at /\ r.num = needed
    BY <2>3, <2>4 DEF RunRec, Legal
  <2> HIDE DEF r
  <2>6. Complete(exts, table, <<r>>, needed)
    BY <2>2, <2>4, <2>5, OneRunIsComplete
  <2> QED
    BY <1>1, <1>3, <2>6 DEF whole, fits
<1> QED
  BY <1>2, <1>3

\* A complete plan needs as many sectors as the devices can still give out.
LEMMA CompleteFits ==
  ASSUME NEW exts \in Seq(ExtRec), NEW table, WholeTable(table), NEW needed \in Nat,
         NEW plan, Complete(exts, table, plan, needed)
  PROVE  needed <= Cardinality(Cells(exts, table))
<1> DEFINE P == PlanCells(plan)
           C == Cells(exts, table)
<1>1. P \subseteq C
  <2> SUFFICES ASSUME NEW i \in DOMAIN plan PROVE Blocks(plan[i]) \subseteq C
    BY DEF PlanCells
  <2> DEFINE r == plan[i]
  <2>1. r \in RunRec /\ Placed(exts, table, r)
    BY DEF Complete
  <2> HIDE DEF r
  <2>2. Blocks(r) \subseteq Cells(exts, table)
    BY <2>1, PlacedReach
  <2> QED
    BY <2>2 DEF r
<1>2. IsFiniteSet(C)
  BY CellsFinite
<1>3. Cardinality(P) = needed
  BY DEF Complete
<1> HIDE DEF P, C
<1>4. Cardinality(P) <= Cardinality(C)
  BY <1>1, <1>2, FS_Subset
<1> QED
  BY <1>3, <1>4 DEF C

\* plan_spanning_allocation answers with a complete plan if and only if the devices
\* together have as many reachable sectors as were asked for.
THEOREM PlanIsComplete ==
  ASSUME NEW exts \in Seq(ExtRec), NEW table, WholeTable(table), NEW needed \in Nat \ {0}
  PROVE  LET plan == PlanSpanning(exts, table, needed)
         IN IF needed <= Cardinality(Cells(exts, table))
            THEN Complete(exts, table, plan, needed)
            ELSE plan = NoPlan
<1> DEFINE plan == PlanSpanning(exts, table, needed)
           whole == FindFreeAny(exts, table, needed)
           last == Spanned(exts, table, needed)
           total == Cardinality(Cells(exts, table))
<1>1. plan = IF table = <<>> THEN NoPlan
             ELSE IF whole # NoPlan THEN whole
             ELSE IF last.remaining = 0 THEN last.plan ELSE NoPlan
  BY DEF PlanSpanning
<1>2. whole = NoPlan \/ Complete(exts, table, whole, needed)
  BY FindFreeAnyIs
<1>3. SpanInv(exts, table, needed, last) /\ (needed <= total => last.remaining = 0)
  BY SpannedFacts
<1>4. ASSUME table = <<>> PROVE total = 0
  <2>1. DeviceIndices(table) = {}
    BY <1>4 DEF DeviceIndices
  <2>2. Cells(exts, table) = {}
    BY <2>1 DEF Cells
  <2> QED
    BY <2>2, FS_EmptySet
<1>5. ASSUME last.remaining = 0 PROVE Complete(exts, table, last.plan, needed)
  <2> HIDE DEF last
  <2>1. /\ last.plan \in Seq(RunRec)
        /\ Cardinality(PlanCells(last.plan)) + last.remaining = needed
        /\ IsFiniteSet(PlanCells(last.plan))
    BY <1>3 DEF SpanInv, SpanRec
  <2>2. Cardinality(PlanCells(last.plan)) = needed
    BY <1>5, <2>1, FS_CardinalityType
  <2>3. last.plan # NoPlan
    <3> SUFFICES ASSUME last.plan = <<>> PROVE FALSE
      BY DEF NoPlan
    <3>1. PlanCells(last.plan) = {}
      BY DEF PlanCells
    <3>2. needed = 0
      BY <2>2, <3>1, FS_EmptySet
    <3> QED
      BY <3>2
  <2> QED
    BY <1>3, <2>1, <2>2, <2>3 DEF Complete, SpanInv
<1>6. \A p : Complete(exts, table, p, needed) => needed <= total /\ p # NoPlan
  BY CompleteFits DEF Complete
<1>7. total \in Nat
  BY CellsFinite
<1> HIDE DEF plan, whole, last, total
<1>8. IF needed <= total THEN Complete(exts, table, plan, needed) ELSE plan = NoPlan
  <2>1. CASE needed <= total
    <3>1. table # <<>>
      BY <1>4, <1>7, <2>1
    <3>2. last.remaining = 0
      BY <1>3, <2>1
    <3> QED
      BY <1>1, <1>2, <1>5, <2>1, <3>1, <3>2
  <2>2. CASE ~(needed <= total)
    <3>1. \A p : ~Complete(exts, table, p, needed)
      BY <1>6, <2>2
    <3> QED
      BY <1>1, <1>2, <1>5, <2>2, <3>1
  <2> QED
    BY <2>1, <2>2
<1> QED
  BY <1>8 DEF plan, total
=============================================================================
