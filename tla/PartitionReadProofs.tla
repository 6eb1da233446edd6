------------------------ MODULE PartitionReadProofs ------------------------
(***************************************************************************)
(* Proofs about SparseImage and PartitionRead.                             *)
(*                                                                         *)
(* An image that is open shows a content: its chunks cover it in order,    *)
(* and each stands for its part.  The search for a chunk and the read that *)
(* goes from chunk to chunk are recursive functions; each is shown to be   *)
(* the one function that fits its equation, by induction.                  *)
(***************************************************************************)
EXTENDS PartitionRead, SequenceTheorems, FiniteSetTheorems, TLAPS

----------------------------------------------------------------------------
\* Induction, with a set for the predicate.
LEMMA CountUp ==
  ASSUME NEW T, 0 \in T, \A n \in Nat : n \in T => n + 1 \in T,
         NEW m \in Nat
  PROVE  m \in T
<1> DEFINE S == {i \in 0 .. m : i \in T}
           f == [i \in S |-> i + 1]
<1>1. SUFFICES ASSUME m \notin T PROVE FALSE
  OBVIOUS
<1>2. IsFiniteSet(S) /\ 0 \in S
  BY FS_BoundedSetOfNaturals
<1>3. IsFiniteSet(S \ {0}) /\ Cardinality(S \ {0}) = Cardinality(S) - 1 /\ Cardinality(S) \in Nat
  BY <1>2, FS_RemoveElement, FS_CardinalityType
<1>4. f \in [S -> S \ {0}]
  <2>1. ASSUME NEW i \in S PROVE i + 1 \in S \ {0}
    <3>1. i \in Nat /\ i <= m /\ i # m
      BY <1>1
    <3> QED
      BY <3>1
  <2> QED
    BY <2>1
<1>5. \A x, y \in S : x # y => f[x] # f[y]
  OBVIOUS
<1> HIDE DEF S, f
<1>6. Cardinality(S \ {0}) < Cardinality(S)
  BY <1>3
<1>7. \E x, y \in S : x # y /\ f[x] = f[y]
  BY <1>2, <1>3, <1>4, <1>6, FS_PigeonHole
<1> QED
  BY <1>5, <1>7

----------------------------------------------------------------------------
\* Reading an image.

\* A chunk of an open image stands for its part of s.
ChunkShows(c, s) ==
  /\ c.kind \in {RAW, FILL, DONT_CARE, CRC} /\ c.start \in Nat /\ c.len \in Nat
  /\ c.data \in Seq(Nat)
  /\ c.kind = RAW => Len(c.data) = c.len
  /\ c.kind = FILL => Len(c.data) = 1
  /\ c.start + c.len <= Len(s)
  /\ \A k \in 1 .. c.len : s[c.start + k] = Unit(c, k)

Reaches(c, p) == c.start <= p /\ p < c.start + c.len

\* The chunks are in order and leave nothing out.
InOrder(chunks) ==
  /\ Len(chunks) \in Nat /\ DOMAIN chunks = 1 .. Len(chunks)
  /\ \A i \in DOMAIN chunks : chunks[i].start \in Nat /\ chunks[i].len \in Nat
  /\ \A i, j \in DOMAIN chunks : i < j => chunks[i].start + chunks[i].len <= chunks[j].start

Shows(img, s) ==
  /\ s \in Seq(Nat) /\ img.size = Len(s)
  /\ InOrder(img.chunks)
  /\ \A i \in DOMAIN img.chunks : ChunkShows(img.chunks[i], s)
  /\ \A p \in 0 .. Len(s) - 1 : \E i \in DOMAIN img.chunks : Reaches(img.chunks[i], p)

\* The binary search, on the chunks lo + 1 .. hi.
Between(chunks, p, lo, hi) == {chunks[i] : i \in {j \in lo + 1 .. hi : Reaches(chunks[j], p)}}
SearchStep(chunks, p, search, lo, hi) ==
  LET mid == lo + (hi - lo) \div 2
      c == chunks[mid + 1]
  IN IF lo >= hi THEN {}
     ELSE IF p < c.start THEN search[<<lo, mid>>]
     ELSE IF p >= c.start + c.len THEN search[<<mid + 1, hi>>]
     ELSE {c}

LEMMA MidIs ==
  ASSUME NEW lo \in Nat, NEW hi \in Nat, lo < hi
  PROVE  LET mid == lo + (hi - lo) \div 2 IN mid \in Nat /\ lo <= mid /\ mid < hi
OBVIOUS

LEMMA SearchSteps ==
  ASSUME NEW chunks, InOrder(chunks), NEW p \in Nat,
         NEW lo \in 0 .. Len(chunks), NEW hi \in 0 .. Len(chunks), NEW search,
         \A a, b \in 0 .. Len(chunks) :
           lo < hi /\ b - a < hi - lo => search[<<a, b>>] = Between(chunks, p, a, b)
  PROVE  SearchStep(chunks, p, search, lo, hi) = Between(chunks, p, lo, hi)
<1>1. /\ Len(chunks) \in Nat /\ DOMAIN chunks = 1 .. Len(chunks)
      /\ \A i \in 1 .. Len(chunks) : chunks[i].start \in Nat /\ chunks[i].len \in Nat
      /\ \A i, j \in 1 .. Len(chunks) : i < j => chunks[i].start + chunks[i].len <= chunks[j].start
  BY DEF InOrder
<1>2. CASE lo >= hi
  <2>1. lo + 1 .. hi = {}
    BY <1>2
  <2> QED
    BY <1>2, <2>1 DEF SearchStep, Between
<1>3. CASE lo < hi
  <2> DEFINE mid == lo + (hi - lo) \div 2
             c == chunks[mid + 1]
  <2>1. mid \in Nat /\ lo <= mid /\ mid < hi
    BY <1>3, MidIs
  <2>2. SearchStep(chunks, p, search, lo, hi) =
          IF p < c.start THEN search[<<lo, mid>>]
          ELSE IF p >= c.start + c.len THEN search[<<mid + 1, hi>>]
          ELSE {c}
    BY <1>3 DEF SearchStep
  <2> HIDE DEF mid
  <2>3. /\ mid + 1 \in 1 .. Len(chunks) /\ mid \in 0 .. Len(chunks) /\ mid + 1 \in 0 .. Len(chunks)
        /\ mid - lo < hi - lo /\ hi - (mid + 1) < hi - lo
        /\ mid + 1 \in lo + 1 .. hi
    BY <1>1, <2>1
  <2>4. c.start \in Nat /\ c.len \in Nat
    BY <1>1, <2>3
  <2>5. ASSUME NEW i \in lo + 1 .. hi, Reaches(chunks[i], p)
        PROVE  /\ p < c.start => i \in lo + 1 .. mid
               /\ p >= c.start + c.len => i \in mid + 2 .. hi
               /\ p >= c.start /\ p < c.start + c.len => i = mid + 1
    <3>1. i \in 1 .. Len(chunks)
      BY <1>1
    <3>2. chunks[i].start \in Nat /\ chunks[i].len \in Nat
      BY <1>1, <3>1
    <3>3. chunks[i].start <= p /\ p < chunks[i].start + chunks[i].len
      BY <2>5 DEF Reaches
    <3>4. /\ i < mid + 1 => chunks[i].start + chunks[i].len <= c.start
          /\ mid + 1 < i => c.start + c.len <= chunks[i].start
      BY <1>1, <2>3, <3>1
    <3>5. lo \in Nat /\ hi \in Nat /\ i \in Nat /\ lo + 1 <= i /\ i <= hi
      BY <1>1
    <3> DEFINE cs == c.start
               cl == c.len
               is == chunks[i].start
               il == chunks[i].len
    <3>6. /\ cs \in Nat /\ cl \in Nat /\ is \in Nat /\ il \in Nat
          /\ is <= p /\ p < is + il
          /\ i < mid + 1 => is + il <= cs
          /\ mid + 1 < i => cs + cl <= is
          /\ i = mid + 1 => is = cs /\ il = cl
      BY <2>4, <3>2, <3>3, <3>4
    <3> HIDE DEF cs, cl, is, il
    <3>7. /\ p < cs => i \in lo + 1 .. mid
          /\ p >= cs + cl => i \in mid + 2 .. hi
          /\ p >= cs /\ p < cs + cl => i = mid + 1
      <4>1. p < cs => i < mid + 1
        BY <2>1, <3>5, <3>6
      <4>2. p >= cs + cl => mid + 1 < i
        BY <2>1, <3>5, <3>6
      <4>3. p >= cs /\ p < cs + cl => i = mid + 1
        BY <2>1, <3>5, <3>6
      <4> QED
        BY <2>1, <3>5, <4>1, <4>2, <4>3
    <3> QED
      BY <3>7 DEF cs, cl
  <2>6. CASE p < c.start
    <3>1. search[<<lo, mid>>] = Between(chunks, p, lo, mid)
      BY <1>3, <2>3
    <3>2. lo + 1 .. mid \subseteq lo + 1 .. hi
      BY <2>1
    <3>3. {j \in lo + 1 .. hi : Reaches(chunks[j], p)} = {j \in lo + 1 .. mid : Reaches(chunks[j], p)}
      BY <2>5, <2>6, <3>2
    <3> QED
      BY <2>2, <2>6, <3>1, <3>3 DEF Between
  <2>7. CASE p >= c.start + c.len
    <3>1. search[<<mid + 1, hi>>] = Between(chunks, p, mid + 1, hi)
      BY <1>3, <2>3
    <3>2. mid + 1 + 1 .. hi \subseteq lo + 1 .. hi /\ mid + 2 .. hi = mid + 1 + 1 .. hi
      BY <2>1
    <3>3. {j \in lo + 1 .. hi : Reaches(chunks[j], p)}
            = {j \in mid + 1 + 1 .. hi : Reaches(chunks[j], p)}
      BY <2>5, <2>7, <3>2
    <3>4. ~(p < c.start)
      BY <2>4, <2>7
    <3> QED
      BY <2>2, <2>7, <3>1, <3>3, <3>4 DEF Between
  <2>8. CASE ~(p < c.start) /\ ~(p >= c.start + c.len)
    <3>0. p >= c.start /\ p < c.start + c.len
      BY <2>4, <2>8
    <3>1. Reaches(c, p)
      BY <3>0, <2>4 DEF Reaches
    <3>2. {j \in lo + 1 .. hi : Reaches(chunks[j], p)} = {mid + 1}
      BY <2>3, <2>5, <3>0, <3>1
    <3>3. Between(chunks, p, lo, hi) = {c}
      BY <3>2 DEF Between
    <3> QED
      BY <2>2, <2>8, <3>3
  <2> QED
    BY <2>6, <2>7, <2>8
<1> QED
  BY <1>2, <1>3

\* The search finds the chunk that reaches p, if there is one.
LEMMA FindChunkIs ==
  ASSUME NEW chunks, InOrder(chunks), NEW p \in Nat
  PROVE  FindChunk(chunks, p) = Between(chunks, p, 0, Len(chunks))
<1> DEFINE n == Len(chunks)
           Pairs == (0 .. n) \X (0 .. n)
           T(h) == h = [w \in Pairs |-> SearchStep(chunks, p, h, w[1], w[2])]
           d == CHOOSE h : T(h)
           g == [w \in Pairs |-> Between(chunks, p, w[1], w[2])]
<1>1. n \in Nat
  BY DEF InOrder
<1>2. T(g)
  <2>1. \A lo, hi \in 0 .. n : g[<<lo, hi>>] = Between(chunks, p, lo, hi)
    OBVIOUS
  <2> HIDE DEF g
  <2>2. ASSUME NEW lo \in 0 .. n, NEW hi \in 0 .. n
        PROVE  SearchStep(chunks, p, g, lo, hi) = Between(chunks, p, lo, hi)
    BY <2>1, SearchSteps
  <2> QED
    BY <2>2 DEF g
<1>3. T(d)
  <2> HIDE DEF T
  <2> QED
    BY <1>2
<1>4. \A lo, hi \in 0 .. n : d[<<lo, hi>>] = SearchStep(chunks, p, d, lo, hi)
  <2> HIDE DEF d
  <2> QED
    BY <1>3
<1>5. FindChunk(chunks, p) = d[<<0, n>>]
  BY DEF FindChunk, SearchStep
<1> HIDE DEF d
<1> DEFINE A == {m \in Nat : \A lo, hi \in 0 .. n :
                               hi - lo <= m => d[<<lo, hi>>] = Between(chunks, p, lo, hi)}
<1>6. 0 \in A
  <2> SUFFICES ASSUME NEW lo \in 0 .. n, NEW hi \in 0 .. n, hi - lo <= 0
               PROVE  d[<<lo, hi>>] = Between(chunks, p, lo, hi)
    OBVIOUS
  <2>1. ~(lo < hi)
    BY <1>1
  <2>2. SearchStep(chunks, p, d, lo, hi) = Between(chunks, p, lo, hi)
    BY <2>1, SearchSteps
  <2> QED
    BY <1>4, <2>2
<1>7. ASSUME NEW m \in Nat, m \in A PROVE m + 1 \in A
  <2> SUFFICES ASSUME NEW lo \in 0 .. n, NEW hi \in 0 .. n, hi - lo <= m + 1
               PROVE  d[<<lo, hi>>] = Between(chunks, p, lo, hi)
    OBVIOUS
  <2>1. ASSUME NEW a \in 0 .. n, NEW b \in 0 .. n, b - a < hi - lo
        PROVE  d[<<a, b>>] = Between(chunks, p, a, b)
    <3>1. b - a <= m
      BY <1>1, <2>1
    <3> QED
      BY <1>7, <3>1
  <2>2. SearchStep(chunks, p, d, lo, hi) = Between(chunks, p, lo, hi)
    BY <2>1, SearchSteps
  <2> QED
    BY <1>4, <2>2
<1> HIDE DEF A
<1>8. n \in A
  BY <1>1, <1>6, <1>7, CountUp
<1>9. 0 \in 0 .. n /\ n \in 0 .. n /\ n - 0 <= n
  BY <1>1
<1>10. d[<<0, n>>] = Between(chunks, p, 0, n)
  BY <1>8, <1>9 DEF A
<1> QED
  BY <1>5, <1>10

LEMMA FindChunkShows ==
  ASSUME NEW img, NEW s, Shows(img, s), NEW p \in 0 .. Len(s) - 1
  PROVE  \E c : FindChunk(img.chunks, p) = {c} /\ ChunkShows(c, s) /\ Reaches(c, p)
<1> DEFINE chunks == img.chunks
           n == Len(chunks)
<1>1. InOrder(chunks) /\ Len(s) \in Nat /\ p \in Nat
  BY LenProperties DEF Shows
<1>2. PICK i \in DOMAIN chunks : Reaches(chunks[i], p)
  BY DEF Shows
<1>3. ChunkShows(chunks[i], s)
  BY <1>2 DEF Shows
<1> HIDE DEF chunks
<1>4. n \in Nat /\ DOMAIN chunks = 1 .. n /\ DOMAIN chunks = 0 + 1 .. n
  BY <1>1 DEF InOrder
<1>5. ASSUME NEW j \in 1 .. n, Reaches(chunks[j], p) PROVE j = i
  <2>1. /\ chunks[i].start \in Nat /\ chunks[i].len \in Nat
        /\ chunks[j].start \in Nat /\ chunks[j].len \in Nat
        /\ j < i => chunks[j].start + chunks[j].len <= chunks[i].start
        /\ i < j => chunks[i].start + chunks[i].len <= chunks[j].start
    BY <1>1, <1>2, <1>4 DEF InOrder
  <2>2. /\ chunks[i].start <= p /\ p < chunks[i].start + chunks[i].len
        /\ chunks[j].start <= p /\ p < chunks[j].start + chunks[j].len
    BY <1>2, <1>5 DEF Reaches
  <2> DEFINE is == chunks[i].start
             il == chunks[i].len
             js == chunks[j].start
             jl == chunks[j].len
  <2>3. /\ is \in Nat /\ il \in Nat /\ js \in Nat /\ jl \in Nat
        /\ j < i => js + jl <= is
        /\ i < j => is + il <= js
        /\ is <= p /\ p < is + il /\ js <= p /\ p < js + jl
    BY <2>1, <2>2
  <2> HIDE DEF is, il, js, jl
  <2>4. ~(j < i) /\ ~(i < j)
    BY <1>1, <2>3
  <2>5. i \in Nat /\ j \in Nat
    BY <1>2, <1>4
  <2> QED
    BY <2>4, <2>5
<1>6. {j \in 0 + 1 .. n : Reaches(chunks[j], p)} = {i}
  BY <1>2, <1>4, <1>5
<1>7. FindChunk(chunks, p) = {chunks[i]}
  BY <1>1, <1>6, FindChunkIs DEF Between
<1> QED
  BY <1>2, <1>3, <1>7 DEF chunks

\* A stretch of a content.
LEMMA SliceIs ==
  ASSUME NEW s \in Seq(Nat), NEW at \in Nat, NEW n \in Nat, at + n <= Len(s)
  PROVE  /\ Slice(s, at, n) \in Seq(Nat) /\ Len(Slice(s, at, n)) = n
         /\ \A k \in 1 .. n : Slice(s, at, n)[k] = s[at + k]
<1>1. Len(s) \in Nat /\ \A i \in 1 .. Len(s) : s[i] \in Nat
  BY LenProperties, ElementOfSeq
<1>2. \A i \in at + 1 .. at + n : s[i] \in Nat
  BY <1>1
<1>3. /\ SubSeq(s, at + 1, at + n) \in Seq(Nat)
      /\ Len(SubSeq(s, at + 1, at + n)) = IF at + 1 <= at + n THEN at + n - (at + 1) + 1 ELSE 0
      /\ \A i \in 1 .. at + n - (at + 1) + 1 : SubSeq(s, at + 1, at + n)[i] = s[at + 1 + i - 1]
  BY <1>2, SubSeqProperties
<1> DEFINE sub == SubSeq(s, at + 1, at + n)
<1> HIDE DEF sub
<1>4. sub \in Seq(Nat) /\ Len(sub) = n
  BY <1>3 DEF sub
<1>5. ASSUME NEW k \in 1 .. n PROVE sub[k] = s[at + k]
  <2>1. k \in 1 .. at + n - (at + 1) + 1 /\ at + 1 + k - 1 = at + k
    OBVIOUS
  <2>2. sub[k] = s[at + 1 + k - 1]
    BY <1>3, <2>1 DEF sub
  <2> QED
    BY <2>1, <2>2
<1> QED
  BY <1>4, <1>5 DEF Slice, sub

\* Two slices in a row.
LEMMA SlicesJoin ==
  ASSUME NEW s \in Seq(Nat), NEW at \in Nat, NEW m \in Nat, NEW n \in Nat, at + m + n <= Len(s)
  PROVE  Slice(s, at, m) \o Slice(s, at + m, n) = Slice(s, at, m + n)
<1> DEFINE a == Slice(s, at, m)
           b == Slice(s, at + m, n)
           c == Slice(s, at, m + n)
<1>1. Len(s) \in Nat /\ at + m <= Len(s) /\ at + m \in Nat /\ m + n \in Nat /\ at + (m + n) <= Len(s)
      /\ (at + m) + n <= Len(s)
  BY LenProperties
<1>2. a \in Seq(Nat) /\ Len(a) = m /\ \A k \in 1 .. m : a[k] = s[at + k]
  BY <1>1, SliceIs
<1>3. b \in Seq(Nat) /\ Len(b) = n /\ \A k \in 1 .. n : b[k] = s[at + m + k]
  BY <1>1, SliceIs
<1>4. c \in Seq(Nat) /\ Len(c) = m + n /\ \A k \in 1 .. m + n : c[k] = s[at + k]
  BY <1>1, SliceIs
<1> HIDE DEF a, b, c
<1>5. /\ a \o b \in Seq(Nat) /\ Len(a \o b) = m + n
      /\ \A i \in 1 .. m + n : (a \o b)[i] = IF i <= m THEN a[i] ELSE b[i - m]
  BY <1>2, <1>3, ConcatProperties
<1>6. ASSUME NEW i \in 1 .. m + n PROVE (a \o b)[i] = c[i]
  <2>0. i \in Nat
    OBVIOUS
  <2>1. CASE i <= m
    <3>1. i \in 1 .. m
      BY <2>1
    <3>2. a[i] = s[at + i] /\ c[i] = s[at + i]
      BY <1>2, <1>4, <3>1
    <3> QED
      BY <1>5, <2>1, <3>2
  <2>2. CASE i > m
    <3>1. i - m \in 1 .. n /\ at + m + (i - m) = at + i /\ ~(i <= m)
      BY <2>2
    <3>2. b[i - m] = s[at + m + (i - m)]
      BY <1>3, <3>1
    <3>3. b[i - m] = s[at + i]
      BY <3>1, <3>2
    <3> QED
      BY <1>4, <1>5, <3>1, <3>3
  <2>3. i <= m \/ i > m
    BY <2>0
  <2> QED
    BY Zenon, <2>1, <2>2, <2>3
<1>7. a \o b = c
  BY <1>4, <1>5, <1>6, SeqEqual
<1> QED
  BY <1>7 DEF a, b, c

\* A piece of a chunk is that piece of the content.
LEMMA PieceIs ==
  ASSUME NEW s \in Seq(Nat), NEW c, ChunkShows(c, s), NEW p \in Nat, NEW n \in Nat,
         Reaches(c, p), p + n <= c.start + c.len
  PROVE  Piece(c, p, n) = Slice(s, p, n)
<1> DEFINE t == Slice(s, p, n)
<1>1. /\ c.start \in Nat /\ c.len \in Nat /\ c.data \in Seq(Nat) /\ Len(s) \in Nat
      /\ c.kind \in {RAW, FILL, DONT_CARE, CRC}
      /\ c.start + c.len <= Len(s) /\ p >= c.start
      /\ c.kind = RAW => Len(c.data) = c.len
      /\ c.kind = FILL => Len(c.data) = 1
  BY LenProperties DEF ChunkShows, Reaches
<1>2. t \in Seq(Nat) /\ Len(t) = n /\ \A k \in 1 .. n : t[k] = s[p + k]
  <2>1. p + n <= Len(s)
    BY <1>1
  <2> QED
    BY <2>1, SliceIs
<1> HIDE DEF t
<1>3. t = [k \in 1 .. n |-> t[k]]
  <2>1. t \in [1 .. n -> Nat]
    BY <1>2, LenProperties
  <2> QED
    BY <2>1
<1> DEFINE a == c.start
           l == c.len
           o == p - a
<1>4. o \in Nat /\ o + n <= l /\ a \in Nat /\ l \in Nat
  <2>1. a \in Nat /\ l \in Nat /\ p >= a /\ p + n <= a + l
    BY <1>1
  <2> HIDE DEF a, l
  <2> QED
    BY <2>1
<1>5. ASSUME NEW k \in 1 .. n PROVE t[k] = Unit(c, o + k) /\ o + k \in 1 .. c.len
  <2>1. o + k \in 1 .. l /\ a + (o + k) = p + k
    <3> HIDE DEF a, l
    <3> QED
      BY <1>4
  <2>2. s[c.start + (o + k)] = Unit(c, o + k)
    BY <2>1 DEF ChunkShows
  <2>3. t[k] = s[p + k]
    BY <1>2
  <2> QED
    BY <2>1, <2>2, <2>3
<1>6. CASE c.kind = RAW
  <2> DEFINE u == Slice(c.data, o, n)
  <2>1. u \in Seq(Nat) /\ Len(u) = n /\ \A k \in 1 .. n : u[k] = c.data[o + k]
    <3>1. o + n <= Len(c.data)
      BY <1>1, <1>4, <1>6
    <3> HIDE DEF o
    <3> QED
      BY <1>1, <1>4, <3>1, SliceIs
  <2>2. Piece(c, p, n) = u
    BY <1>6 DEF Piece, RAW, FILL, DONT_CARE, CRC
  <2> HIDE DEF u, o
  <2>3. \A k \in 1 .. n : t[k] = c.data[o + k]
    BY <1>5, <1>6 DEF Unit, RAW, FILL, DONT_CARE, CRC
  <2>4. u = t
    BY <1>2, <2>1, <2>3, SeqEqual
  <2> QED
    BY <2>2, <2>4 DEF t
<1>7. CASE c.kind = FILL
  <2>1. Piece(c, p, n) = [i \in 1 .. n |-> c.data[1]]
    BY <1>7 DEF Piece, RAW, FILL, DONT_CARE, CRC
  <2>2. \A k \in 1 .. n : t[k] = c.data[1]
    BY <1>5, <1>7 DEF Unit, RAW, FILL, DONT_CARE, CRC
  <2>3. [k \in 1 .. n |-> t[k]] = [i \in 1 .. n |-> c.data[1]]
    BY <2>2
  <2> QED
    BY Zenon, <1>3, <2>1, <2>3 DEF t
<1>8. CASE c.kind \in {DONT_CARE, CRC}
  <2>0. c.kind # RAW /\ c.kind # FILL
    <3>1. /\ RAW # DONT_CARE /\ RAW # CRC /\ FILL # DONT_CARE /\ FILL # CRC
      BY DEF RAW, FILL, DONT_CARE, CRC
    <3> QED
      BY Zenon, <1>8, <3>1
  <2>1. Piece(c, p, n) = [i \in 1 .. n |-> 0]
    BY <1>8, <2>0 DEF Piece, Zeros
  <2>2. \A k \in 1 .. n : t[k] = 0
    <3>1. \A k : Unit(c, k) = 0
      BY <1>8, <2>0 DEF Unit
    <3> QED
      BY <1>5, <3>1
  <2>3. [k \in 1 .. n |-> t[k]] = [i \in 1 .. n |-> 0]
    BY <2>2
  <2> QED
    BY Zenon, <1>3, <2>1, <2>3 DEF t
<1> QED
  BY <1>1, <1>6, <1>7, <1>8

\* One round of a read that is to end at `end`.
ReadStep(img, end, read, p) ==
  IF p = end THEN {<<>>}
  ELSE UNION {LET n == Least(c.start + c.len, end) - p
              IN {Piece(c, p, n) \o rest : rest \in read[p + n]} :
              c \in FindChunk(img.chunks, p)}

LEMMA ReadSteps ==
  ASSUME NEW img, NEW s, Shows(img, s), NEW end \in Nat, end <= Len(s),
         NEW p \in Nat, p <= end, NEW read,
         \A q \in p + 1 .. end : read[q] = {Slice(s, q, end - q)}
  PROVE  ReadStep(img, end, read, p) = {Slice(s, p, end - p)}
<1>1. Len(s) \in Nat /\ s \in Seq(Nat)
  BY LenProperties DEF Shows
<1>2. CASE p = end
  <2>1. Slice(s, p, end - p) \in Seq(Nat) /\ Len(Slice(s, p, end - p)) = 0
    BY <1>1, <1>2, SliceIs
  <2>2. Slice(s, p, end - p) = <<>>
    BY <2>1, EmptySeq
  <2> QED
    BY <1>2, <2>2 DEF ReadStep
<1>3. CASE p < end
  <2>1. p \in 0 .. Len(s) - 1 /\ p # end
    BY <1>1, <1>3
  <2>2. PICK c : FindChunk(img.chunks, p) = {c} /\ ChunkShows(c, s) /\ Reaches(c, p)
    BY <2>1, FindChunkShows
  <2> DEFINE n == Least(c.start + c.len, end) - p
  <2>3. /\ n \in Nat /\ n > 0 /\ p + n <= end /\ p + n <= c.start + c.len
        /\ p + n \in p + 1 .. end
    <3> DEFINE e == c.start + c.len
    <3>1. e \in Nat /\ p < e
      BY <2>2 DEF ChunkShows, Reaches
    <3> HIDE DEF e
    <3>2. Least(e, end) \in Nat /\ p < Least(e, end) /\ Least(e, end) <= e /\ Least(e, end) <= end
      BY <1>3, <3>1 DEF Least
    <3>3. /\ Least(e, end) - p \in Nat /\ Least(e, end) - p > 0
          /\ p + (Least(e, end) - p) <= end /\ p + (Least(e, end) - p) <= e
          /\ p + (Least(e, end) - p) \in p + 1 .. end
      BY <3>1, <3>2
    <3> QED
      BY <3>3 DEF e
  <2>4. ReadStep(img, end, read, p) = {Piece(c, p, n) \o rest : rest \in read[p + n]}
    BY <2>1, <2>2 DEF ReadStep
  <2> HIDE DEF n
  <2>5. Piece(c, p, n) = Slice(s, p, n)
    BY <1>1, <2>2, <2>3, PieceIs
  <2>6. read[p + n] = {Slice(s, p + n, end - (p + n))}
    BY <2>3
  <2>7. Slice(s, p, n) \o Slice(s, p + n, end - (p + n)) = Slice(s, p, n + (end - (p + n)))
    <3>1. end - (p + n) \in Nat /\ p + n + (end - (p + n)) <= Len(s)
      BY <1>1, <2>3
    <3> QED
      BY ZenonT(60), <1>1, <2>3, <3>1, SlicesJoin
  <2>8. n + (end - (p + n)) = end - p
    BY <2>3
  <2> DEFINE u == Piece(c, p, n)
             v == Slice(s, p + n, end - (p + n))
             w == Slice(s, p, end - p)
  <2>9. u \o v = w
    BY Zenon, <2>5, <2>7, <2>8
  <2>10. ReadStep(img, end, read, p) = {u \o rest : rest \in {v}}
    BY Zenon, <2>4, <2>6
  <2> HIDE DEF u, v, w
  <2>11. ReadStep(img, end, read, p) = {w}
    BY <2>9, <2>10
  <2> QED
    BY <2>11 DEF w
<1> QED
  BY <1>2, <1>3

\* A read gives the content, or nothing if it goes past the end.
LEMMA ReadAtShows ==
  ASSUME NEW img, NEW s, Shows(img, s), NEW at \in Nat, NEW len \in Nat
  PROVE  ReadAt(img, at, len) = IF at + len > Len(s) THEN {} ELSE {Slice(s, at, len)}
<1>1. Len(s) \in Nat /\ s \in Seq(Nat) /\ img.size = Len(s)
  BY LenProperties DEF Shows
<1>2. CASE at + len > Len(s)
  BY <1>1, <1>2 DEF ReadAt
<1>3. CASE ~(at + len > Len(s))
  <2> DEFINE end == at + len
             T(h) == h = [p \in at .. end |-> ReadStep(img, end, h, p)]
             d == CHOOSE h : T(h)
             g == [p \in at .. end |-> {Slice(s, p, end - p)}]
  <2>0. end \in Nat /\ end <= Len(s) /\ end - len = at /\ at <= end
    BY <1>1, <1>3
  <2>1. ReadAt(img, at, len) = d[at]
    BY <1>1, <1>3 DEF ReadAt, ReadStep
  <2> HIDE DEF end
  <2>2. T(g)
    <3>1. \A p \in at .. end : g[p] = {Slice(s, p, end - p)}
      OBVIOUS
    <3> HIDE DEF g
    <3>2. ASSUME NEW p \in at .. end PROVE ReadStep(img, end, g, p) = {Slice(s, p, end - p)}
      <4>1. p \in Nat /\ p <= end /\ \A q \in p + 1 .. end : q \in at .. end
        BY <2>0
      <4> QED
        BY <2>0, <3>1, <4>1, ReadSteps
    <3> QED
      BY <3>2 DEF g
  <2>3. T(d)
    <3> HIDE DEF T
    <3> QED
      BY <2>2
  <2>4. \A p \in at .. end : d[p] = ReadStep(img, end, d, p)
    <3> HIDE DEF d
    <3> QED
      BY <2>3
  <2> HIDE DEF d
  <2> DEFINE A == {m \in Nat : \A p \in at .. end : end - p <= m => d[p] = {Slice(s, p, end - p)}}
  <2>5. 0 \in A
    <3> SUFFICES ASSUME NEW p \in at .. end, end - p <= 0 PROVE d[p] = {Slice(s, p, end - p)}
      OBVIOUS
    <3>1. p \in Nat /\ p <= end /\ \A q \in p + 1 .. end : FALSE
      BY <2>0
    <3>2. \A q \in p + 1 .. end : d[q] = {Slice(s, q, end - q)}
      BY <3>1
    <3> QED
      BY <2>0, <2>4, <3>1, <3>2, ReadSteps
  <2>6. ASSUME NEW m \in Nat, m \in A PROVE m + 1 \in A
    <3> SUFFICES ASSUME NEW p \in at .. end, end - p <= m + 1
                 PROVE  d[p] = {Slice(s, p, end - p)}
      OBVIOUS
    <3>1. p \in Nat /\ p <= end /\ \A q \in p + 1 .. end : q \in at .. end /\ end - q <= m
      BY <2>0
    <3>2. \A q \in p + 1 .. end : d[q] = {Slice(s, q, end - q)}
      BY <2>6, <3>1
    <3> QED
      BY <2>0, <2>4, <3>1, <3>2, ReadSteps
  <2> HIDE DEF A
  <2>7. len \in A
    BY <2>5, <2>6, CountUp
  <2>8. at \in at .. end /\ end - at = len
    BY <2>0 DEF end
  <2>9. d[at] = {Slice(s, at, end - at)}
    BY <2>7, <2>8 DEF A
  <2> QED
    BY <1>3, <2>1, <2>8, <2>9
<1> QED
  BY <1>2, <1>3

----------------------------------------------------------------------------
\* The images of the model show their contents.

LEMMA RawShows ==
  ASSUME NEW s \in Seq(Nat)
  PROVE  Shows(RawImage(s), s)
<1> DEFINE c == [kind |-> RAW, start |-> 0, data |-> s, len |-> Len(s)]
           img == RawImage(s)
<1>1. /\ img.size = Len(s) /\ img.chunks = <<c>> /\ Len(<<c>>) = 1
      /\ DOMAIN <<c>> = 1 .. 1 /\ <<c>>[1] = c
  BY DEF RawImage
<1>2. /\ c.kind = RAW /\ c.start = 0 /\ c.data = s /\ c.len = Len(s)
      /\ Len(s) \in Nat
  BY LenProperties
<1> HIDE DEF c, img
<1>3. ChunkShows(c, s)
  <2>1. \A k : Unit(c, k) = c.data[k]
    BY <1>2 DEF Unit, RAW, FILL, DONT_CARE, CRC
  <2>2. c.kind # FILL
    BY <1>2 DEF RAW, FILL
  <2>3. \A k \in 1 .. c.len : s[c.start + k] = Unit(c, k)
    BY <1>2, <2>1
  <2> QED
    BY <1>2, <2>2, <2>3 DEF ChunkShows
<1>4. \A i \in DOMAIN <<c>> : i = 1 /\ <<c>>[i] = c
  BY <1>1
<1>5. InOrder(<<c>>)
  BY <1>1, <1>2, <1>4 DEF InOrder
<1>6. \A p \in 0 .. Len(s) - 1 : Reaches(<<c>>[1], p) /\ 1 \in DOMAIN <<c>>
  BY <1>1, <1>2 DEF Reaches
<1> QED
  BY <1>1, <1>3, <1>4, <1>5, <1>6 DEF Shows, img

\* Running totals, as a recursive function computes them.
Adds(n, f, g) ==
  /\ g = [i \in 0 .. n |-> g[i]]
  /\ g[0] = 0
  /\ \A i \in 1 .. n : g[i] = g[i - 1] + f[i]

LEMMA AddsExist ==
  ASSUME NEW n \in Nat, NEW f
  PROVE  \E g : Adds(n, f, g)
<1> DEFINE A == {m \in Nat : \E g : Adds(m, f, g)}
<1>1. 0 \in A
  <2> DEFINE g == [i \in 0 .. 0 |-> 0]
  <2>1. Adds(0, f, g)
    BY DEF Adds
  <2> QED
    BY <2>1
<1>2. ASSUME NEW m \in Nat, m \in A PROVE m + 1 \in A
  <2>1. PICK g : Adds(m, f, g)
    BY <1>2
  <2> DEFINE h == [i \in 0 .. m + 1 |-> IF i = m + 1 THEN g[m] + f[m + 1] ELSE g[i]]
  <2>2. /\ h = [i \in 0 .. m + 1 |-> h[i]] /\ h[0] = g[0]
        /\ h[m + 1] = g[m] + f[m + 1]
    OBVIOUS
  <2>3. \A i \in 0 .. m : h[i] = g[i]
    OBVIOUS
  <2> HIDE DEF h
  <2>4. ASSUME NEW i \in 1 .. m + 1 PROVE h[i] = h[i - 1] + f[i]
    <3>1. CASE i = m + 1
      <4>1. i - 1 = m /\ m \in 0 .. m
        BY <3>1
      <4>2. h[i - 1] = g[m]
        BY Zenon, <2>3, <4>1
      <4> QED
        BY <2>2, <3>1, <4>2
    <3>2. CASE i # m + 1
      <4>1. i \in 1 .. m /\ i \in 0 .. m /\ i - 1 \in 0 .. m
        BY <3>2
      <4>2. g[i] = g[i - 1] + f[i]
        BY <2>1, <4>1 DEF Adds
      <4>3. h[i] = g[i] /\ h[i - 1] = g[i - 1]
        BY <2>3, <4>1
      <4> QED
        BY Zenon, <4>2, <4>3
    <3> QED
      BY <3>1, <3>2
  <2>5. Adds(m + 1, f, h)
    BY <2>1, <2>2, <2>4 DEF Adds
  <2> QED
    BY <2>5
<1> HIDE DEF A
<1>3. n \in A
  BY <1>1, <1>2, CountUp
<1> QED
  BY <1>3 DEF A

LEMMA AddsAgree ==
  ASSUME NEW n \in Nat, NEW m \in Nat, NEW f, NEW g, NEW fm, NEW gm, n <= m, Adds(n, f, g), Adds(m, fm, gm),
         \A i \in 1 .. n : f[i] = fm[i]
  PROVE  \A i \in 0 .. n : g[i] = gm[i]
<1> DEFINE A == {i \in Nat : i <= n => g[i] = gm[i]}
<1>1. 0 \in A
  BY DEF Adds
<1>2. ASSUME NEW i \in Nat, i \in A PROVE i + 1 \in A
  <2> SUFFICES ASSUME i + 1 <= n PROVE g[i + 1] = gm[i + 1]
    OBVIOUS
  <2>1. i + 1 \in 1 .. n /\ i + 1 \in 1 .. m /\ (i + 1) - 1 = i /\ i <= n
    OBVIOUS
  <2>2. g[i] = gm[i] /\ f[i + 1] = fm[i + 1]
    BY <1>2, <2>1
  <2>3. g[i + 1] = g[i] + f[i + 1] /\ gm[i + 1] = gm[i] + fm[i + 1]
    BY <2>1 DEF Adds
  <2> QED
    BY Zenon, <2>2, <2>3
<1> HIDE DEF A
<1>3. \A i \in Nat : i \in A
  BY <1>1, <1>2, CountUp
<1> QED
  BY <1>3 DEF A

\* Totals of natural numbers are natural, and grow.
LEMMA AddsGrow ==
  ASSUME NEW n \in Nat, NEW f, NEW g, Adds(n, f, g), \A i \in 1 .. n : f[i] \in Nat
  PROVE  /\ \A i \in 0 .. n : g[i] \in Nat
         /\ \A i, j \in 0 .. n : i <= j => g[i] <= g[j]
<1> DEFINE A == {m \in Nat : m <= n => \A i \in 0 .. m : g[i] \in Nat /\ g[i] <= g[m]}
<1>1. 0 \in A
  BY DEF Adds
<1>2. ASSUME NEW m \in Nat, m \in A PROVE m + 1 \in A
  <2> SUFFICES ASSUME m + 1 <= n
               PROVE  \A i \in 0 .. m + 1 : g[i] \in Nat /\ g[i] <= g[m + 1]
    OBVIOUS
  <2>1. m + 1 \in 1 .. n /\ (m + 1) - 1 = m /\ m <= n /\ m \in 0 .. m
    OBVIOUS
  <2>2. g[m] \in Nat /\ \A i \in 0 .. m : g[i] \in Nat /\ g[i] <= g[m]
    BY <1>2, <2>1
  <2>3. g[m + 1] = g[m] + f[m + 1] /\ f[m + 1] \in Nat
    BY <2>1 DEF Adds
  <2>4. g[m + 1] \in Nat /\ g[m] <= g[m + 1]
    BY <2>2, <2>3
  <2>5. ASSUME NEW i \in 0 .. m + 1 PROVE g[i] \in Nat /\ g[i] <= g[m + 1]
    <3>1. CASE i = m + 1
      BY <2>4, <3>1
    <3>2. CASE i # m + 1
      <4>1. i \in 0 .. m
        BY <3>2
      <4> QED
        BY <2>2, <2>4, <4>1
    <3> QED
      BY <3>1, <3>2
  <2> QED
    BY <2>4, <2>5
<1> HIDE DEF A
<1>3. \A m \in Nat : m \in A
  BY <1>1, <1>2, CountUp
<1>4. \A m \in 0 .. n : m \in 0 .. m /\ \A i \in 0 .. m : g[i] \in Nat /\ g[i] <= g[m]
  BY <1>3 DEF A
<1>5. ASSUME NEW i \in 0 .. n, NEW j \in 0 .. n, i <= j PROVE g[i] <= g[j]
  <2>1. i \in 0 .. j
    BY <1>5
  <2> QED
    BY <1>4, <2>1
<1> QED
  BY <1>4, <1>5

\* Every unit in front of the total belongs to one of the summands.
LEMMA AddsReach ==
  ASSUME NEW n \in Nat, NEW f, NEW g, Adds(n, f, g), \A i \in 1 .. n : f[i] \in Nat
  PROVE  \A p \in 0 .. g[n] - 1 : \E i \in 1 .. n : g[i - 1] <= p /\ p < g[i]
<1>0. \A i \in 0 .. n : g[i] \in Nat
  BY AddsGrow
<1> DEFINE A == {m \in Nat : m <= n =>
                   \A p \in 0 .. g[m] - 1 : \E i \in 1 .. n : g[i - 1] <= p /\ p < g[i]}
<1>1. 0 \in A
  BY DEF Adds
<1>2. ASSUME NEW m \in Nat, m \in A PROVE m + 1 \in A
  <2> SUFFICES ASSUME m + 1 <= n, NEW p \in 0 .. g[m + 1] - 1
               PROVE  \E i \in 1 .. n : g[i - 1] <= p /\ p < g[i]
    OBVIOUS
  <2>1. m + 1 \in 1 .. n /\ (m + 1) - 1 = m /\ m <= n /\ m \in 0 .. n /\ m + 1 \in 0 .. n
    OBVIOUS
  <2>2. g[m] \in Nat /\ g[m + 1] \in Nat /\ p \in Nat /\ p < g[m + 1]
    BY <1>0, <2>1
  <2>3. CASE p < g[m]
    BY <1>2, <2>1, <2>2, <2>3
  <2>4. CASE g[m] <= p
    <3>1. g[(m + 1) - 1] <= p /\ p < g[m + 1]
      BY <2>1, <2>2, <2>4
    <3> QED
      BY <2>1, <3>1
  <2> QED
    BY <2>2, <2>3, <2>4
<1> HIDE DEF A
<1>3. n \in A
  BY <1>1, <1>2, CountUp
<1> QED
  BY <1>3 DEF A

Sizes1(chunks) == [i \in 1 .. Len(chunks) |-> chunks[i].blocks * BlockUnits]

LEMMA ChunkEndsAre ==
  ASSUME NEW chunks, Len(chunks) \in Nat
  PROVE  Adds(Len(chunks), Sizes1(chunks), ChunkEnds(chunks))
<1> DEFINE n == Len(chunks)
           f == Sizes1(chunks)
           T(g) == g = [i \in 0 .. n |-> IF i = 0 THEN 0 ELSE g[i - 1] + chunks[i].blocks * BlockUnits]
           d == CHOOSE g : T(g)
<1>1. PICK h : Adds(n, f, h)
  BY AddsExist
<1>2. \A i \in 0 .. n : i = 0 \/ i \in 1 .. n
  OBVIOUS
<1>3. \A i \in 1 .. n : i \in 0 .. n /\ i # 0 /\ f[i] = chunks[i].blocks * BlockUnits
  BY DEF Sizes1
<1> HIDE DEF f, n
<1>4. T(h)
  <2>1. \A i \in 0 .. n : h[i] = IF i = 0 THEN 0 ELSE h[i - 1] + chunks[i].blocks * BlockUnits
    BY <1>1, <1>2, <1>3 DEF Adds
  <2> QED
    BY <1>1, <2>1 DEF Adds
<1>5. T(d)
  <2> HIDE DEF T
  <2> QED
    BY <1>4
<1> HIDE DEF d
<1>6. \A i \in 0 .. n : d[i] = IF i = 0 THEN 0 ELSE d[i - 1] + chunks[i].blocks * BlockUnits
  BY <1>5
<1>7. Adds(n, f, d)
  <2>1. d = [i \in 0 .. n |-> d[i]]
    BY <1>5
  <2>2. 0 \in 0 .. n
    BY DEF n
  <2> QED
    BY <1>3, <1>6, <2>1, <2>2 DEF Adds
<1>8. ChunkEnds(chunks) = d
  BY DEF ChunkEnds, d, n
<1> QED
  BY <1>7, <1>8 DEF n, f

LEMMA ChunkSizes ==
  ASSUME NEW chunks \in Seq(ChunkType)
  PROVE  /\ Len(chunks) \in Nat /\ DOMAIN chunks = 1 .. Len(chunks)
         /\ \A i \in 1 .. Len(chunks) :
              /\ chunks[i] \in ChunkType /\ chunks[i].blocks \in Nat /\ chunks[i].data \in Seq(Nat)
              /\ chunks[i].kind \in {RAW, FILL, DONT_CARE, CRC}
              /\ chunks[i].blocks * BlockUnits \in Nat
              /\ Sizes1(chunks)[i] = chunks[i].blocks * BlockUnits
<1>1. Len(chunks) \in Nat /\ DOMAIN chunks = 1 .. Len(chunks)
  BY LenProperties
<1>2. ASSUME NEW i \in 1 .. Len(chunks)
      PROVE  /\ chunks[i] \in ChunkType /\ chunks[i].blocks \in Nat /\ chunks[i].data \in Seq(Nat)
             /\ chunks[i].kind \in {RAW, FILL, DONT_CARE, CRC}
  <2>1. chunks[i] \in ChunkType
    BY ElementOfSeq
  <2> QED
    BY <2>1 DEF ChunkType
<1>3. ASSUME NEW b \in Nat PROVE b * BlockUnits \in Nat
  BY SparseAssumption
<1> QED
  BY <1>1, <1>2, <1>3 DEF Sizes1

\* A complete container opens, if the reader takes so many chunks, and shows
\* what it is a container of.
\* A function on 1 .. n is a sequence of that length.
LEMMA FunctionLen ==
  ASSUME NEW n \in Nat, NEW S, NEW g \in [1 .. n -> S]
  PROVE  g \in Seq(S) /\ Len(g) = n
<1>1. g \in Seq(S)
  BY DEF Seq
<1>2. DOMAIN g = 1 .. n /\ DOMAIN g = 1 .. Len(g) /\ Len(g) \in Nat
  BY <1>1, LenProperties
<1> QED
  BY <1>1, <1>2

LEMMA ParseShows ==
  ASSUME NEW f, NEW s \in Seq(Nat), WholeOf(f, s)
  PROVE  /\ Len(f.chunks) <= MaxChunks => \E img : ParseSparse(f) = {img} /\ Shows(img, s)
         /\ ~(Len(f.chunks) <= MaxChunks) => ParseSparse(f) = {}
<1> DEFINE chunks == f.chunks
           n == Len(chunks)
           end == ChunkEnds(chunks)
           Placed(i) == [kind |-> chunks[i].kind, start |-> end[i - 1], data |-> chunks[i].data,
                         len |-> chunks[i].blocks * BlockUnits]
           placed == [i \in 1 .. n |-> Placed(i)]
           img == [size |-> end[n], chunks |-> placed]
<1>1. /\ chunks \in Seq(ChunkType) /\ f.count = n /\ end[n] = f.blocks * BlockUnits /\ end[n] = Len(s)
      /\ \A i \in DOMAIN chunks : ChunkValid(chunks[i])
      /\ \A i \in DOMAIN chunks : \A k \in 1 .. chunks[i].blocks * BlockUnits :
           s[end[i - 1] + k] = Unit(chunks[i], k)
  BY DEF WholeOf, Spells
<1>2. /\ n \in Nat /\ DOMAIN chunks = 1 .. n
      /\ \A i \in 1 .. n :
           /\ chunks[i].data \in Seq(Nat) /\ chunks[i].kind \in {RAW, FILL, DONT_CARE, CRC}
           /\ chunks[i].blocks * BlockUnits \in Nat
           /\ Sizes1(chunks)[i] = chunks[i].blocks * BlockUnits
  BY <1>1, ChunkSizes
<1>3. Adds(n, Sizes1(chunks), end)
  BY <1>2, ChunkEndsAre
<1>4. ParseSparse(f) = IF /\ f.count <= MaxChunks /\ f.count <= n
                          /\ \A i \in 1 .. f.count : ChunkValid(chunks[i])
                          /\ end[f.count] = f.blocks * BlockUnits
                       THEN {[size |-> end[f.count], chunks |-> [i \in 1 .. f.count |-> Placed(i)]]}
                       ELSE {}
  BY DEF ParseSparse
<1>5. /\ n <= MaxChunks => ParseSparse(f) = {img}
      /\ ~(n <= MaxChunks) => ParseSparse(f) = {}
  <2> HIDE DEF Placed, end, n
  <2>1. n <= n
    BY <1>2
  <2>2. \A i \in 1 .. n : ChunkValid(chunks[i])
    BY <1>1, <1>2
  <2>3. f.count = n /\ end[n] = f.blocks * BlockUnits
    BY <1>1
  <2> HIDE DEF chunks
  <2> QED
    BY <1>4, <2>1, <2>2, <2>3
<1> HIDE DEF end
<1>6. /\ \A i \in 0 .. n : end[i] \in Nat
      /\ \A i, j \in 0 .. n : i <= j => end[i] <= end[j]
      /\ \A p \in 0 .. end[n] - 1 : \E i \in 1 .. n : end[i - 1] <= p /\ p < end[i]
  <2>1. \A i \in 1 .. n : Sizes1(chunks)[i] \in Nat
    BY <1>2
  <2> HIDE DEF n, chunks
  <2> QED
    BY <1>2, <1>3, <2>1, AddsGrow, AddsReach
<1>7. ASSUME NEW i \in 1 .. n
      PROVE  /\ end[i - 1] \in Nat /\ end[i] \in Nat /\ chunks[i].blocks * BlockUnits \in Nat
             /\ end[i - 1] + chunks[i].blocks * BlockUnits = end[i]
             /\ end[i] <= Len(s)
  <2>1. i - 1 \in 0 .. n /\ i \in 0 .. n /\ n \in 0 .. n /\ i <= n
    BY <1>2
  <2>2. end[i] = end[i - 1] + Sizes1(chunks)[i]
    BY <1>3 DEF Adds
  <2> QED
    BY <1>1, <1>2, <1>6, <2>1, <2>2
<1>8. /\ img.size = Len(s) /\ img.chunks = placed
      /\ DOMAIN placed = 1 .. n /\ Len(placed) = n
      /\ \A i \in 1 .. n : /\ placed[i].kind = chunks[i].kind /\ placed[i].start = end[i - 1]
                           /\ placed[i].data = chunks[i].data
                           /\ placed[i].len = chunks[i].blocks * BlockUnits
  <2>1. img.size = Len(s) /\ img.chunks = placed /\ DOMAIN placed = 1 .. n
    BY <1>1
  <2>2. \A i \in 1 .. n : /\ placed[i].kind = chunks[i].kind /\ placed[i].start = end[i - 1]
                           /\ placed[i].data = chunks[i].data
                           /\ placed[i].len = chunks[i].blocks * BlockUnits
    OBVIOUS
  <2>3. Len(placed) = n
    <3> HIDE DEF Placed, n
    <3> DEFINE S == {Placed(i) : i \in 1 .. n}
    <3>1. placed \in [1 .. n -> S]
      OBVIOUS
    <3> HIDE DEF placed, S
    <3> QED
      BY <1>2, <3>1, FunctionLen
  <2> HIDE DEF placed, img, n, chunks
  <2> QED
    BY <2>1, <2>2, <2>3
<1> HIDE DEF placed, img, n
<1>9. ASSUME NEW i \in 1 .. n PROVE ChunkShows(placed[i], s)
  <2> DEFINE c == placed[i]
  <2>1. /\ c.kind = chunks[i].kind /\ c.start = end[i - 1] /\ c.data = chunks[i].data
        /\ c.len = chunks[i].blocks * BlockUnits
    BY <1>8
  <2>2. ChunkValid(chunks[i])
    BY <1>1, <1>2
  <2>3. c.kind = RAW => Len(c.data) = c.len
    BY <2>1, <2>2 DEF ChunkValid, RAW, FILL, DONT_CARE, CRC
  <2>4. c.kind = FILL => Len(c.data) = 1
    BY <2>1, <2>2 DEF ChunkValid, RAW, FILL, DONT_CARE, CRC
  <2>5. \A k : Unit(c, k) = Unit(chunks[i], k)
    BY <2>1 DEF Unit
  <2>6. \A k \in 1 .. chunks[i].blocks * BlockUnits : s[end[i - 1] + k] = Unit(chunks[i], k)
    BY <1>1, <1>2
  <2>7. \A k \in 1 .. c.len : s[c.start + k] = Unit(c, k)
    BY <2>1, <2>5, <2>6
  <2>8. c.start + c.len <= Len(s)
    BY <1>7, <2>1
  <2>9. c.kind \in {RAW, FILL, DONT_CARE, CRC} /\ c.start \in Nat /\ c.len \in Nat /\ c.data \in Seq(Nat)
    BY <1>2, <1>7, <2>1
  <2> QED
    BY <2>3, <2>4, <2>7, <2>8, <2>9 DEF ChunkShows
<1>10. InOrder(placed)
  <2>1. \A i \in 1 .. n : placed[i].start \in Nat /\ placed[i].len \in Nat
    BY <1>7, <1>8
  <2>2. ASSUME NEW i \in 1 .. n, NEW j \in 1 .. n, i < j
        PROVE  placed[i].start + placed[i].len <= placed[j].start
    <3>1. placed[i].start + placed[i].len = end[i] /\ placed[j].start = end[j - 1]
      BY <1>7, <1>8
    <3>2. i \in 0 .. n /\ j - 1 \in 0 .. n /\ i <= j - 1
      BY <1>2, <2>2
    <3>3. end[i] <= end[j - 1]
      BY <1>6, <3>2
    <3> QED
      BY <3>1, <3>3
  <2> QED
    BY <1>2, <1>8, <2>1, <2>2 DEF InOrder
<1>11. ASSUME NEW p \in 0 .. Len(s) - 1 PROVE \E i \in 1 .. n : Reaches(placed[i], p)
  <2>1. PICK i \in 1 .. n : end[i - 1] <= p /\ p < end[i]
    BY <1>1, <1>6 DEF n
  <2>2. placed[i].start = end[i - 1] /\ placed[i].start + placed[i].len = end[i]
    BY <1>7, <1>8
  <2>3. Reaches(placed[i], p)
    BY <2>1, <2>2 DEF Reaches
  <2> QED
    BY <2>3
<1>12. Shows(img, s)
  BY <1>8, <1>9, <1>10, <1>11 DEF Shows
<1> QED
  BY <1>5, <1>12 DEF n

----------------------------------------------------------------------------
\* The encoder.

LEMMA Blocks ==
  ASSUME NEW a \in Nat, NEW b \in Nat
  PROVE  /\ a * BlockUnits \in Nat /\ 0 * BlockUnits = 0
         /\ (a + b) * BlockUnits = a * BlockUnits + b * BlockUnits
         /\ (a + 1) * BlockUnits = a * BlockUnits + BlockUnits
         /\ a < b => a * BlockUnits + BlockUnits <= b * BlockUnits
         /\ (a * BlockUnits) \div BlockUnits = a
<1> DEFINE B == BlockUnits
<1>1. B \in Nat /\ B > 0
  BY SparseAssumption
<1> HIDE DEF B
<1>2. a * B \in Nat /\ 0 * B = 0 /\ (a + b) * B = a * B + b * B /\ (a + 1) * B = a * B + B
  BY <1>1
<1>3. a < b => a * B + B <= b * B
  <2> SUFFICES ASSUME a < b PROVE a * B + B <= b * B
    OBVIOUS
  <2>1. PICK c \in Nat : b = (a + 1) + c
    <3>1. b - (a + 1) \in Nat /\ b = (a + 1) + (b - (a + 1))
      OBVIOUS
    <3> QED
      BY <3>1
  <2>2. b * B = (a + 1) * B + c * B /\ c * B \in Nat
    BY <1>1, <2>1
  <2> QED
    BY <1>1, <1>2, <2>2
<1>4. (a * B) \div B = a
  BY <1>1, <1>2
<1> QED
  BY <1>2, <1>3, <1>4 DEF B

LEMMA WholeBlocks ==
  ASSUME NEW n \in Nat, n > 0, n % BlockUnits = 0
  PROVE  n \div BlockUnits \in Nat \ {0} /\ (n \div BlockUnits) * BlockUnits = n
<1> DEFINE B == BlockUnits
<1>1. B \in Nat /\ B > 0
  BY SparseAssumption
<1> HIDE DEF B
<1> DEFINE q == n \div B
           r == n % B
<1>2. n = B * q + r /\ q \in Nat /\ r = 0
  BY <1>1 DEF B
<1> HIDE DEF q, r
<1>3. B * q \in Nat
  BY <1>1, <1>2
<1> DEFINE t == B * q
<1> HIDE DEF t
<1>4. n = t
  BY <1>2, <1>3 DEF t
<1>5. q # 0 /\ q * B = n
  BY <1>1, <1>2, <1>4 DEF t
<1> QED
  BY <1>2, <1>5 DEF q, B

\* Chunks that stand for the first e units of s.
Written(chunks, s, e) ==
  /\ chunks \in Seq(ChunkType) /\ \A i \in DOMAIN chunks : ChunkValid(chunks[i])
  /\ ChunkEnds(chunks)[Len(chunks)] = e
  /\ Spells(chunks, s)

LEMMA NothingWritten ==
  ASSUME NEW s
  PROVE  Written(<<>>, s, 0)
<1>1. <<>> \in Seq(ChunkType) /\ Len(<<>>) = 0 /\ DOMAIN <<>> = {}
  OBVIOUS
<1>2. Adds(0, Sizes1(<<>>), ChunkEnds(<<>>))
  BY <1>1, ChunkEndsAre
<1> QED
  BY <1>1, <1>2 DEF Written, Spells, Adds

LEMMA AppendWrites ==
  ASSUME NEW chunks, NEW s, NEW e \in Nat, Written(chunks, s, e), NEW c \in ChunkType, ChunkValid(c),
         \A k \in 1 .. c.blocks * BlockUnits : s[e + k] = Unit(c, k)
  PROVE  Written(Append(chunks, c), s, e + c.blocks * BlockUnits)
<1> DEFINE n == Len(chunks)
           more == Append(chunks, c)
<1>1. /\ chunks \in Seq(ChunkType) /\ ChunkEnds(chunks)[n] = e
      /\ \A i \in DOMAIN chunks : ChunkValid(chunks[i])
      /\ \A i \in DOMAIN chunks : \A k \in 1 .. chunks[i].blocks * BlockUnits :
           s[ChunkEnds(chunks)[i - 1] + k] = Unit(chunks[i], k)
  BY DEF Written, Spells
<1>2. /\ n \in Nat /\ DOMAIN chunks = 1 .. n
      /\ \A i \in 1 .. n : Sizes1(chunks)[i] = chunks[i].blocks * BlockUnits
  BY <1>1, ChunkSizes
<1>3. /\ more \in Seq(ChunkType) /\ Len(more) = n + 1 /\ DOMAIN more = 1 .. n + 1
      /\ more[n + 1] = c /\ \A i \in 1 .. n : more[i] = chunks[i]
  BY <1>1, <1>2, AppendProperties, LenProperties
<1> HIDE DEF n, more
<1>4. /\ \A i \in 1 .. n + 1 : Sizes1(more)[i] = more[i].blocks * BlockUnits
      /\ n + 1 \in Nat /\ n <= n + 1 /\ \A i \in 1 .. n : i \in 1 .. n + 1
  <2>1. n + 1 \in Nat /\ n <= n + 1 /\ \A i \in 1 .. n : i \in 1 .. n + 1
    BY <1>2
  <2>2. \A i \in 1 .. Len(more) : Sizes1(more)[i] = more[i].blocks * BlockUnits
    BY <1>3, ChunkSizes
  <2> QED
    BY <1>3, <2>1, <2>2
<1>5. Adds(n, Sizes1(chunks), ChunkEnds(chunks)) /\ Adds(n + 1, Sizes1(more), ChunkEnds(more))
  BY <1>2, <1>3, <1>4, ChunkEndsAre DEF n
<1>6. \A i \in 1 .. n : Sizes1(chunks)[i] = Sizes1(more)[i]
  BY <1>2, <1>3, <1>4
<1>7. \A i \in 0 .. n : ChunkEnds(chunks)[i] = ChunkEnds(more)[i]
  BY <1>2, <1>4, <1>5, <1>6, AddsAgree
<1>8. ChunkEnds(more)[n] = e
  BY <1>1, <1>2, <1>7
<1>9. ChunkEnds(more)[n + 1] = e + c.blocks * BlockUnits
  <2>1. n + 1 \in 1 .. n + 1 /\ (n + 1) - 1 = n
    BY <1>2
  <2>2. ChunkEnds(more)[n + 1] = ChunkEnds(more)[(n + 1) - 1] + Sizes1(more)[n + 1]
    BY <1>5, <2>1 DEF Adds
  <2> QED
    BY Zenon, <1>3, <1>4, <1>8, <2>1, <2>2
<1>10. ASSUME NEW i \in 1 .. n + 1
       PROVE  /\ ChunkValid(more[i])
              /\ \A k \in 1 .. more[i].blocks * BlockUnits : s[ChunkEnds(more)[i - 1] + k] = Unit(more[i], k)
  <2>1. CASE i = n + 1
    <3>1. i - 1 = n
      BY <1>2, <2>1
    <3> QED
      BY Zenon, <1>3, <1>8, <2>1, <3>1
  <2>2. CASE i # n + 1
    <3>1. i \in 1 .. n /\ i - 1 \in 0 .. n
      BY <1>2, <2>2
    <3>2. more[i] = chunks[i] /\ ChunkEnds(more)[i - 1] = ChunkEnds(chunks)[i - 1] /\ i \in DOMAIN chunks
      BY <1>2, <1>3, <1>7, <3>1
    <3> QED
      BY Zenon, <1>1, <3>2
  <2> QED
    BY <2>1, <2>2
<1>11. Spells(more, s)
  BY <1>3, <1>10 DEF Spells
<1> QED
  BY <1>3, <1>9, <1>10, <1>11 DEF Written, more

FileType == [blocks : Nat, count : Nat, chunks : Seq(ChunkType)]

LEMMA FlushRawWrites ==
  ASSUME NEW f \in FileType, NEW s, NEW e \in Nat, Written(f.chunks, s, e),
         NEW run \in Seq(Nat), NEW b \in Nat, Len(run) = b * BlockUnits,
         \A k \in 1 .. Len(run) : s[e + k] = run[k]
  PROVE  LET g == FlushRaw(f, run)
         IN g \in FileType /\ g.blocks = f.blocks /\ g.count = f.count /\ Written(g.chunks, s, e + Len(run))
<1> DEFINE g == FlushRaw(f, run)
           c == Chunk(RAW, Len(run) \div BlockUnits, run)
<1>1. CASE run = <<>>
  <2>1. g = f /\ Len(run) = 0 /\ e + 0 = e
    BY <1>1 DEF FlushRaw
  <2> QED
    BY Zenon, <2>1
<1>2. CASE run # <<>>
  <2>1. Len(run) \div BlockUnits = b
    BY Blocks
  <2>2. c = [kind |-> RAW, blocks |-> b, data |-> run]
    BY Zenon, <2>1 DEF Chunk
  <2>3. c.kind = RAW /\ c.blocks = b /\ c.data = run
    BY <2>2
  <2>4. c \in ChunkType
    BY <2>2 DEF ChunkType
  <2>5. g = [f EXCEPT !.chunks = Append(@, c)]
    BY <1>2 DEF FlushRaw
  <2> HIDE DEF c, g
  <2>6. ChunkValid(c)
    BY <2>3 DEF ChunkValid, RAW, FILL, DONT_CARE, CRC
  <2>7. \A k : Unit(c, k) = run[k]
    BY <2>3 DEF Unit, RAW, FILL, DONT_CARE, CRC
  <2>8. \A k \in 1 .. c.blocks * BlockUnits : s[e + k] = Unit(c, k)
    BY Zenon, <2>3, <2>7
  <2>9. Written(Append(f.chunks, c), s, e + c.blocks * BlockUnits)
    BY <2>4, <2>6, <2>8, AppendWrites
  <2>10. g.blocks = f.blocks /\ g.count = f.count /\ g.chunks = Append(f.chunks, c)
    BY <2>5 DEF FileType
  <2>11. g \in FileType
    <3>1. Append(f.chunks, c) \in Seq(ChunkType)
      BY <2>9 DEF Written
    <3> QED
      BY <2>5, <3>1 DEF FileType
  <2>12. Written(g.chunks, s, e + Len(run))
    BY Zenon, <2>3, <2>9, <2>10
  <2> QED
    BY <2>10, <2>11, <2>12 DEF g
<1> QED
  BY <1>1, <1>2

LEMMA FlushCareWrites ==
  ASSUME NEW f \in FileType, NEW s, NEW e \in Nat, Written(f.chunks, s, e),
         NEW care \in Nat, \A k \in 1 .. care * BlockUnits : s[e + k] = 0
  PROVE  LET g == FlushCare(f, care)
         IN /\ g \in FileType /\ g.blocks = f.blocks /\ g.count = f.count
            /\ Written(g.chunks, s, e + care * BlockUnits)
<1> DEFINE g == FlushCare(f, care)
           nothing == <<>>
           c == Chunk(DONT_CARE, care, nothing)
<1>1. CASE care = 0
  <2>1. g = f /\ care * BlockUnits = 0 /\ e + 0 = e
    BY <1>1, Blocks DEF FlushCare
  <2> QED
    BY Zenon, <2>1
<1>2. CASE care # 0
  <2>1. nothing \in Seq(Nat)
    OBVIOUS
  <2> HIDE DEF nothing
  <2>2. c = [kind |-> DONT_CARE, blocks |-> care, data |-> nothing]
    BY DEF Chunk
  <2>3. c.kind = DONT_CARE /\ c.blocks = care /\ c.data = nothing
    BY <2>2
  <2>4. c \in ChunkType
    BY <2>1, <2>2 DEF ChunkType
  <2>5. g = [f EXCEPT !.chunks = Append(@, c)]
    BY <1>2 DEF FlushCare, nothing
  <2> HIDE DEF c, g
  <2>0. DONT_CARE # RAW /\ DONT_CARE # FILL /\ DONT_CARE # CRC
    BY DEF RAW, FILL, DONT_CARE, CRC
  <2>6. ChunkValid(c)
    <3>1. ChunkValid(c) = (c.data = <<>>)
      BY <2>0, <2>3 DEF ChunkValid
    <3> QED
      BY Zenon, <2>3, <3>1 DEF nothing
  <2>7. \A k : Unit(c, k) = 0
    BY <2>0, <2>3 DEF Unit
  <2>8. \A k \in 1 .. c.blocks * BlockUnits : s[e + k] = Unit(c, k)
    BY Zenon, <2>3, <2>7
  <2>9. Written(Append(f.chunks, c), s, e + c.blocks * BlockUnits)
    BY <2>4, <2>6, <2>8, AppendWrites
  <2>10. g.blocks = f.blocks /\ g.count = f.count /\ g.chunks = Append(f.chunks, c)
    BY <2>5 DEF FileType
  <2>11. g \in FileType
    <3>1. Append(f.chunks, c) \in Seq(ChunkType)
      BY <2>9 DEF Written
    <3> QED
      BY <2>5, <3>1 DEF FileType
  <2>12. Written(g.chunks, s, e + care * BlockUnits)
    BY Zenon, <2>3, <2>9, <2>10
  <2> QED
    BY <2>10, <2>11, <2>12 DEF g
<1> QED
  BY <1>1, <1>2

\* While it is encoding: the chunks stand for the first e units of the content,
\* the collected blocks for those that come next.
Collects(chunks, s, e, at, run, care) ==
  /\ e \in Nat /\ at \in Nat /\ run \in Seq(Nat) /\ care \in Nat
  /\ Written(chunks, s, e)
  /\ \E b \in Nat : Len(run) = b * BlockUnits
  /\ e + Len(run) + care * BlockUnits = at * BlockUnits
  /\ \A k \in 1 .. Len(run) : s[e + k] = run[k]
  /\ \A k \in 1 .. care * BlockUnits : s[e + Len(run) + k] = 0
  /\ Len(run) = 0 \/ care = 0

\* A run is written.
LEMMA RawFlushed ==
  ASSUME NEW f \in FileType, NEW s, NEW e, NEW at, NEW run, NEW care, Collects(f.chunks, s, e, at, run, care)
  PROVE  LET g == FlushRaw(f, run)
         IN /\ g \in FileType /\ g.blocks = f.blocks /\ g.count = f.count
            /\ Collects(g.chunks, s, e + Len(run), at, <<>>, care)
<1> DEFINE g == FlushRaw(f, run)
           m == Len(run)
           z == care * BlockUnits
           none == <<>>
<1>1. PICK b \in Nat : Len(run) = b * BlockUnits
  BY DEF Collects
<1>2. /\ e \in Nat /\ at \in Nat /\ run \in Seq(Nat) /\ care \in Nat
      /\ Written(f.chunks, s, e) /\ e + m + z = at * BlockUnits
      /\ \A k \in 1 .. m : s[e + k] = run[k]
      /\ \A k \in 1 .. z : s[e + m + k] = 0
  BY DEF Collects
<1>3. /\ g \in FileType /\ g.blocks = f.blocks /\ g.count = f.count /\ Written(g.chunks, s, e + m)
  BY <1>1, <1>2, FlushRawWrites
<1>4. m \in Nat /\ z \in Nat /\ none \in Seq(Nat) /\ Len(none) = 0 /\ 0 = 0 * BlockUnits /\ 0 \in Nat
  BY <1>2, Blocks, LenProperties
<1> HIDE DEF g, m, z, none
<1>5. e + m \in Nat /\ (e + m) + Len(none) + z = at * BlockUnits
  BY <1>2, <1>4
<1>6. \A k \in 1 .. z : (e + m) + Len(none) + k = e + m + k
  BY <1>2, <1>4
<1>7. \A k \in 1 .. z : s[(e + m) + Len(none) + k] = 0
  BY <1>2, <1>6
<1>8. \A k \in 1 .. Len(none) : s[(e + m) + k] = none[k]
  BY <1>4
<1>9. \E b1 \in Nat : Len(none) = b1 * BlockUnits
  BY <1>4
<1>10. Collects(g.chunks, s, e + m, at, none, care)
  BY <1>2, <1>3, <1>4, <1>5, <1>7, <1>8, <1>9 DEF Collects, z
<1> QED
  BY <1>3, <1>10 DEF g, m, none

\* The zero blocks are written.
LEMMA CareFlushed ==
  ASSUME NEW f \in FileType, NEW s, NEW e, NEW at, NEW run, NEW care, Collects(f.chunks, s, e, at, run, care)
  PROVE  LET g == FlushCare(f, care)
         IN /\ g \in FileType /\ g.blocks = f.blocks /\ g.count = f.count
            /\ Collects(g.chunks, s, e + care * BlockUnits, at, run, 0)
<1> DEFINE g == FlushCare(f, care)
           m == Len(run)
           z == care * BlockUnits
<1>1. /\ e \in Nat /\ at \in Nat /\ run \in Seq(Nat) /\ care \in Nat
      /\ Written(f.chunks, s, e) /\ e + m + z = at * BlockUnits
      /\ \A k \in 1 .. m : s[e + k] = run[k]
      /\ \A k \in 1 .. z : s[e + m + k] = 0
      /\ m = 0 \/ care = 0
      /\ \E b \in Nat : m = b * BlockUnits
  BY DEF Collects
<1>2. m \in Nat /\ z \in Nat /\ 0 * BlockUnits = 0 /\ 0 \in Nat /\ (m = 0 \/ z = 0)
  BY <1>1, Blocks, LenProperties
<1>3. \A k \in 1 .. z : s[e + k] = 0
  <2> HIDE DEF m, z
  <2>1. CASE z = 0
    BY <2>1
  <2>2. CASE m = 0
    <3>1. \A k \in 1 .. z : e + m + k = e + k
      BY <1>1, <1>2, <2>2
    <3> QED
      BY <1>1, <3>1
  <2> QED
    BY <1>2, <2>1, <2>2
<1>4. g \in FileType /\ g.blocks = f.blocks /\ g.count = f.count /\ Written(g.chunks, s, e + z)
  BY <1>1, <1>3, FlushCareWrites
<1> HIDE DEF g, m, z
<1>5. e + z \in Nat /\ (e + z) + m + 0 = at * BlockUnits
  BY <1>1, <1>2
<1>6. \A k \in 1 .. m : s[(e + z) + k] = run[k]
  <2>1. CASE m = 0
    BY <2>1
  <2>2. CASE z = 0
    <3>1. \A k \in 1 .. m : (e + z) + k = e + k
      BY <1>1, <1>2, <2>2
    <3> QED
      BY <1>1, <3>1
  <2> QED
    BY <1>2, <2>1, <2>2
<1>7. \A k \in 1 .. 0 : s[(e + z) + m + k] = 0
  OBVIOUS
<1>8. Collects(g.chunks, s, e + z, at, run, 0)
  BY <1>1, <1>2, <1>4, <1>5, <1>6, <1>7 DEF Collects, m
<1> QED
  BY <1>4, <1>8 DEF g, z

\* One block more, of zeros.
LEMMA ZeroCollected ==
  ASSUME NEW chunks, NEW s, NEW e, NEW at, NEW care, Collects(chunks, s, e, at, <<>>, care),
         \A k \in 1 .. BlockUnits : s[at * BlockUnits + k] = 0
  PROVE  Collects(chunks, s, e, at + 1, <<>>, care + 1)
<1> DEFINE none == <<>>
           B == BlockUnits
           z == care * B
           a == at * B
<1>1. Len(none) = 0 /\ none \in Seq(Nat)
  OBVIOUS
<1> HIDE DEF none
<1>2. /\ e \in Nat /\ at \in Nat /\ care \in Nat
      /\ Written(chunks, s, e) /\ e + 0 + z = a
      /\ \A k \in 1 .. z : s[e + 0 + k] = 0
      /\ \E b \in Nat : Len(none) = b * BlockUnits
  BY <1>1 DEF Collects, none
<1>3. /\ z \in Nat /\ a \in Nat /\ B \in Nat
      /\ (care + 1) * B = z + B /\ (at + 1) * B = a + B
  BY <1>2, Blocks, SparseAssumption
<1>4. \A k \in 1 .. B : s[a + k] = 0
  OBVIOUS
<1> HIDE DEF z, a, B
<1>5. ASSUME NEW k \in 1 .. z + B PROVE s[e + 0 + k] = 0
  <2>1. CASE k <= z
    <3>1. k \in 1 .. z
      BY <1>3, <2>1
    <3> QED
      BY <1>2, <3>1
  <2>2. CASE ~(k <= z)
    <3>1. k - z \in 1 .. B /\ e + 0 + k = a + (k - z)
      BY <1>2, <1>3, <2>2
    <3> QED
      BY <1>4, <3>1
  <2> QED
    BY <2>1, <2>2
<1>6. at + 1 \in Nat /\ care + 1 \in Nat /\ e + Len(none) + (z + B) = a + B
  BY <1>1, <1>2, <1>3
<1>7. \A k \in 1 .. Len(none) : s[e + k] = none[k]
  BY <1>1
<1>8. \A k \in 1 .. (care + 1) * BlockUnits : s[e + Len(none) + k] = 0
  BY <1>1, <1>3, <1>5 DEF B
<1>9. e + Len(none) + (care + 1) * BlockUnits = (at + 1) * BlockUnits
  BY <1>3, <1>6 DEF B
<1>10. Collects(chunks, s, e, at + 1, none, care + 1)
  BY <1>1, <1>2, <1>6, <1>7, <1>8, <1>9 DEF Collects
<1> QED
  BY <1>10 DEF none

\* One block more, of data.
LEMMA DataCollected ==
  ASSUME NEW chunks, NEW s, NEW e, NEW at, NEW run, Collects(chunks, s, e, at, run, 0),
         NEW block \in Seq(Nat), Len(block) = BlockUnits,
         \A k \in 1 .. BlockUnits : s[at * BlockUnits + k] = block[k]
  PROVE  Collects(chunks, s, e, at + 1, run \o block, 0)
<1> DEFINE m == Len(run)
           B == BlockUnits
           a == at * B
           more == run \o block
<1>1. PICK b \in Nat : m = b * B
  BY DEF Collects
<1>2. /\ e \in Nat /\ at \in Nat /\ run \in Seq(Nat)
      /\ Written(chunks, s, e) /\ e + m + 0 * B = a
      /\ \A k \in 1 .. m : s[e + k] = run[k]
  BY DEF Collects
<1>3. /\ m \in Nat /\ a \in Nat /\ B \in Nat /\ 0 * B = 0
      /\ (b + 1) * B = m + B /\ (at + 1) * B = a + B
  BY <1>1, <1>2, Blocks, SparseAssumption, LenProperties
<1>4. /\ more \in Seq(Nat) /\ Len(more) = m + B
      /\ \A k \in 1 .. m + B : more[k] = IF k <= m THEN run[k] ELSE block[k - m]
  BY <1>2, ConcatProperties
<1>5. \A k \in 1 .. B : s[a + k] = block[k]
  OBVIOUS
<1> HIDE DEF m, a, B, more
<1>6. ASSUME NEW k \in 1 .. m + B PROVE s[e + k] = more[k]
  <2>1. CASE k <= m
    <3>1. k \in 1 .. m
      BY <1>3, <2>1
    <3> QED
      BY <1>2, <1>4, <2>1, <3>1
  <2>2. CASE ~(k <= m)
    <3>1. k - m \in 1 .. B /\ e + k = a + (k - m)
      BY <1>2, <1>3, <2>2
    <3>2. more[k] = block[k - m]
      BY <1>4, <2>2
    <3>3. s[a + (k - m)] = block[k - m]
      BY <1>5, <3>1
    <3> QED
      BY Zenon, <3>1, <3>2, <3>3
  <2> QED
    BY <2>1, <2>2
<1>7. at + 1 \in Nat /\ b + 1 \in Nat /\ 0 \in Nat /\ e + (m + B) + 0 = a + B
  BY <1>2, <1>3
<1>8. e + Len(more) + 0 * BlockUnits = (at + 1) * BlockUnits
  BY <1>3, <1>4, <1>7 DEF B
<1>9. \E n \in Nat : Len(more) = n * BlockUnits
  BY <1>3, <1>4, <1>7 DEF B
<1>10. \A k \in 1 .. 0 * BlockUnits : s[e + Len(more) + k] = 0
  BY <1>3 DEF B
<1>11. \A k \in 1 .. Len(more) : s[e + k] = more[k]
  BY <1>4, <1>6
<1>12. Collects(chunks, s, e, at + 1, more, 0)
  BY <1>2, <1>4, <1>7, <1>8, <1>9, <1>10, <1>11 DEF Collects
<1> QED
  BY <1>12 DEF more

EncType ==
  [st : {"foreign", "encoding", "patching", "encoded", "stopped"}, at : Nat, run : Seq(Nat), care : Nat]

Encoding ==
  /\ file \in FileType /\ file.count = 0 /\ file.blocks = RawBlocks
  /\ RawBlocks \in Nat \ {0} /\ RawBlocks * BlockUnits = Len(raw)
  /\ enc.at <= RawBlocks
  /\ \E e : Collects(file.chunks, raw, e, enc.at, enc.run, enc.care)

EncInv ==
  /\ raw \in Seq(Nat) /\ enc \in EncType
  /\ enc.st \in {"foreign", "encoded"} => WholeOf(file, raw)
  /\ enc.st = "patching" => /\ file \in FileType /\ file.count = 0 /\ file.blocks \in Nat \ {0}
                            /\ WholeOf([file EXCEPT !.count = Len(file.chunks)], raw)
  /\ enc.st = "stopped" => file \in FileType /\ file.count = 0 /\ file.blocks \in Nat \ {0}
  /\ enc.st = "encoding" => Encoding

LEMMA EncInvInit ==
  ASSUME SparseInit
  PROVE  EncInv
<1>1. CASE \E x \in Foreign : raw = x.raw /\ file = x.file
                              /\ enc = [st |-> "foreign", at |-> 0, run |-> <<>>, care |-> 0]
  <2>1. PICK x \in Foreign : raw = x.raw /\ file = x.file
                             /\ enc = [st |-> "foreign", at |-> 0, run |-> <<>>, care |-> 0]
    BY <1>1
  <2>2. raw \in Seq(Nat) /\ WholeOf(file, raw)
    BY Zenon, <2>1, ForeignAssumption
  <2>3. enc \in EncType /\ enc.st = "foreign"
    BY <2>1 DEF EncType
  <2> QED
    BY <2>2, <2>3 DEF EncInv
<1>2. CASE /\ raw \in Contents
           /\ file = [blocks |-> RawBlocks, count |-> 0, chunks |-> <<>>]
           /\ enc = [st |-> "encoding", at |-> 0, run |-> <<>>, care |-> 0]
  <2> DEFINE none == <<>>
  <2>1. raw \in Seq(Nat) /\ Len(raw) \in Nat /\ Len(raw) > 0 /\ Len(raw) % BlockUnits = 0
    BY <1>2, ContentsAssumption, LenProperties
  <2>2. RawBlocks \in Nat \ {0} /\ RawBlocks * BlockUnits = Len(raw)
    BY <2>1, WholeBlocks DEF RawBlocks
  <2>3. none \in Seq(Nat) /\ none \in Seq(ChunkType) /\ Len(none) = 0
    OBVIOUS
  <2>4. Written(none, raw, 0)
    BY NothingWritten
  <2>5. 0 * BlockUnits = 0 /\ 0 \in Nat
    BY Blocks
  <2>6. file = [blocks |-> RawBlocks, count |-> 0, chunks |-> none]
        /\ enc = [st |-> "encoding", at |-> 0, run |-> none, care |-> 0]
    BY <1>2
  <2> HIDE DEF none
  <2>7. /\ file \in FileType /\ file.count = 0 /\ file.blocks = RawBlocks /\ file.chunks = none
        /\ enc \in EncType /\ enc.st = "encoding" /\ enc.at = 0 /\ enc.run = none /\ enc.care = 0
    BY <2>2, <2>3, <2>6 DEF FileType, EncType
  <2>8. Collects(none, raw, 0, 0, none, 0)
    <3>1. /\ \E b \in Nat : Len(none) = b * BlockUnits
          /\ 0 + Len(none) + 0 * BlockUnits = 0 * BlockUnits
          /\ \A k \in 1 .. Len(none) : raw[0 + k] = none[k]
          /\ \A k \in 1 .. 0 * BlockUnits : raw[0 + Len(none) + k] = 0
      BY <2>3, <2>5
    <3> QED
      BY <2>3, <2>4, <2>5, <3>1 DEF Collects
  <2>9. \E e : Collects(file.chunks, raw, e, enc.at, enc.run, enc.care)
    BY Zenon, <2>7, <2>8
  <2>10. Encoding
    BY <2>2, <2>7, <2>9 DEF Encoding
  <2> QED
    BY <2>1, <2>7, <2>10 DEF EncInv
<1> QED
  BY <1>1, <1>2 DEF SparseInit

\* What a round of the encoder changes in its record.
Moved(x, run, care) == [x EXCEPT !.at = @ + 1, !.run = run, !.care = care]

LEMMA EncMoves ==
  ASSUME NEW x \in EncType, NEW run \in Seq(Nat), NEW care \in Nat
  PROVE  /\ Moved(x, run, care) \in EncType /\ Moved(x, run, care).st = x.st
         /\ Moved(x, run, care).at = x.at + 1
         /\ Moved(x, run, care).run = run /\ Moved(x, run, care).care = care
<1>1. x.at \in Nat
  BY DEF EncType
<1> DEFINE a == x.at + 1
           y == [x EXCEPT !.at = a, !.run = run, !.care = care]
<1>2. a \in Nat
  BY <1>1
<1>3. Moved(x, run, care) = y
  BY DEF Moved
<1> HIDE DEF a
<1>4. y \in EncType /\ y.st = x.st /\ y.at = a /\ y.run = run /\ y.care = care
  BY <1>2 DEF EncType
<1> HIDE DEF y
<1>5. /\ Moved(x, run, care) \in EncType /\ Moved(x, run, care).st = x.st
      /\ Moved(x, run, care).at = a
      /\ Moved(x, run, care).run = run /\ Moved(x, run, care).care = care
  BY Zenon, <1>3, <1>4
<1> QED
  BY <1>5 DEF a

LEMMA EncInvBlock ==
  ASSUME EncInv, EncodeBlock
  PROVE  EncInv'
<1> DEFINE block == Slice(raw, enc.at * BlockUnits, BlockUnits)
           s == raw
           at == enc.at
           run == enc.run
           care == enc.care
<1>0. /\ s \in Seq(Nat) /\ enc \in EncType /\ enc.st = "encoding" /\ at < RawBlocks /\ raw' = s
      /\ Encoding
      /\ IF \A i \in DOMAIN block : block[i] = 0 THEN EncodeZero ELSE EncodeData(block)
  BY DEF EncInv, EncodeBlock
<1>1. PICK e : Collects(file.chunks, s, e, at, run, care)
  BY <1>0 DEF Encoding
<1>2. /\ file \in FileType /\ file.count = 0 /\ file.blocks = RawBlocks
      /\ RawBlocks \in Nat \ {0} /\ RawBlocks * BlockUnits = Len(s)
  BY <1>0 DEF Encoding
<1>3. at \in Nat /\ run \in Seq(Nat) /\ care \in Nat
  BY <1>0 DEF EncType
<1>4. /\ block \in Seq(Nat) /\ Len(block) = BlockUnits /\ DOMAIN block = 1 .. BlockUnits
      /\ \A k \in 1 .. BlockUnits : block[k] = s[at * BlockUnits + k]
  <2>1. at * BlockUnits \in Nat /\ BlockUnits \in Nat /\ at * BlockUnits + BlockUnits <= Len(s)
    BY ZenonT(60), <1>0, <1>2, <1>3, Blocks, SparseAssumption
  <2>2. /\ block \in Seq(Nat) /\ Len(block) = BlockUnits
        /\ \A k \in 1 .. BlockUnits : block[k] = s[at * BlockUnits + k]
    BY <1>0, <2>1, SliceIs
  <2> HIDE DEF block
  <2>3. DOMAIN block = 1 .. BlockUnits
    BY <2>2, LenProperties
  <2> QED
    BY <2>2, <2>3
<1> HIDE DEF block
<1>5. ASSUME enc' \in EncType, enc'.st = "encoding", enc'.at = at + 1,
             file' \in FileType, file'.blocks = file.blocks, file'.count = file.count,
             \E d : Collects(file'.chunks, s, d, at + 1, enc'.run, enc'.care)
      PROVE  EncInv'
  <2>1. at + 1 <= RawBlocks
    BY <1>0, <1>2, <1>3
  <2>2. RawBlocks' = RawBlocks
    BY <1>0 DEF RawBlocks
  <2>3. \E d : Collects(file'.chunks, raw', d, enc'.at, enc'.run, enc'.care)
    BY Zenon, <1>0, <1>5
  <2>4. Encoding'
    BY <1>0, <1>2, <1>5, <2>1, <2>2, <2>3 DEF Encoding
  <2> QED
    BY <1>0, <1>5, <2>4 DEF EncInv
<1>6. CASE \A i \in DOMAIN block : block[i] = 0
  <2> DEFINE g == FlushRaw(file, run)
             none == <<>>
  <2>1. file' = g /\ enc' = [enc EXCEPT !.at = @ + 1, !.run = none, !.care = @ + 1]
    BY <1>0, <1>6 DEF EncodeZero
  <2>2. none \in Seq(Nat)
    OBVIOUS
  <2>3. /\ g \in FileType /\ g.blocks = file.blocks /\ g.count = file.count
        /\ Collects(g.chunks, s, e + Len(run), at, none, care)
    BY <1>1, <1>2, RawFlushed
  <2>4. \A k \in 1 .. BlockUnits : s[at * BlockUnits + k] = 0
    BY <1>4, <1>6
  <2>5. Collects(g.chunks, s, e + Len(run), at + 1, none, care + 1)
    BY <2>3, <2>4, ZeroCollected
  <2> HIDE DEF g, none
  <2>6. /\ enc' \in EncType /\ enc'.st = "encoding" /\ enc'.at = at + 1
        /\ enc'.run = none /\ enc'.care = care + 1
    <3>1. care + 1 \in Nat /\ enc' = Moved(enc, none, care + 1)
      BY <1>3, <2>1 DEF Moved
    <3>2. enc \in EncType /\ enc.st = "encoding"
      BY <1>0
    <3> HIDE DEF care
    <3> QED
      BY <2>2, <3>1, <3>2, EncMoves
  <2>7. Collects(file'.chunks, s, e + Len(run), at + 1, enc'.run, enc'.care)
    BY Zenon, <2>1, <2>5, <2>6
  <2> QED
    BY <1>5, <2>1, <2>3, <2>6, <2>7
<1>7. CASE ~ \A i \in DOMAIN block : block[i] = 0
  <2> DEFINE more == run \o block
             cared == FlushCare(file, care)
             g == FlushRaw(cared, more)
             none == <<>>
             c == e + care * BlockUnits
  <2>1. /\ file' = IF Len(more) >= MaxRun THEN g ELSE cared
        /\ enc' = [enc EXCEPT !.at = @ + 1, !.care = 0, !.run = IF Len(more) >= MaxRun THEN none ELSE more]
    BY <1>0, <1>7 DEF EncodeData, block
  <2>2. none \in Seq(Nat) /\ more \in Seq(Nat)
    BY <1>3, <1>4, ConcatProperties
  <2>3. /\ cared \in FileType /\ cared.blocks = file.blocks /\ cared.count = file.count
        /\ Collects(cared.chunks, s, c, at, run, 0)
    BY <1>1, <1>2, CareFlushed
  <2>4. Collects(cared.chunks, s, c, at + 1, more, 0)
    <3>1. \A k \in 1 .. BlockUnits : s[at * BlockUnits + k] = block[k]
      BY <1>4
    <3>2. Collects(cared.chunks, s, c, at, run, 0) /\ block \in Seq(Nat) /\ Len(block) = BlockUnits
      BY <1>4, <2>3
    <3> DEFINE u == cared.chunks
    <3> HIDE DEF cared, c, s, at, run, more, u
    <3>3. Collects(u, s, c, at + 1, run \o block, 0)
      BY Zenon, <3>1, <3>2, DataCollected DEF u
    <3> QED
      BY Zenon, <3>3 DEF more, u
  <2>5. /\ g \in FileType /\ g.blocks = cared.blocks /\ g.count = cared.count
        /\ Collects(g.chunks, s, c + Len(more), at + 1, none, 0)
    BY <2>3, <2>4, RawFlushed
  <2> HIDE DEF g, none, cared, more, c
  <2>6. CASE Len(more) >= MaxRun
    <3>1. file' = g /\ enc' = Moved(enc, none, 0)
      BY <2>1, <2>6 DEF Moved
    <3>2. /\ enc' \in EncType /\ enc'.st = "encoding" /\ enc'.at = at + 1
          /\ enc'.run = none /\ enc'.care = 0
      <4>1. enc \in EncType /\ enc.st = "encoding" /\ 0 \in Nat
        BY <1>0
      <4> QED
        BY ZenonT(60), <2>2, <3>1, <4>1, EncMoves
    <3>3. Collects(file'.chunks, s, c + Len(more), at + 1, enc'.run, enc'.care)
      BY Zenon, <2>5, <3>1, <3>2
    <3> QED
      BY <1>5, <2>3, <2>5, <3>1, <3>2, <3>3
  <2>7. CASE ~(Len(more) >= MaxRun)
    <3>1. file' = cared /\ enc' = Moved(enc, more, 0)
      BY <2>1, <2>7 DEF Moved
    <3>2. /\ enc' \in EncType /\ enc'.st = "encoding" /\ enc'.at = at + 1
          /\ enc'.run = more /\ enc'.care = 0
      <4>1. enc \in EncType /\ enc.st = "encoding" /\ 0 \in Nat
        BY <1>0
      <4> QED
        BY ZenonT(60), <2>2, <3>1, <4>1, EncMoves
    <3>3. Collects(file'.chunks, s, c, at + 1, enc'.run, enc'.care)
      BY Zenon, <2>4, <3>1, <3>2
    <3> QED
      BY <1>5, <2>3, <3>1, <3>2, <3>3
  <2> QED
    BY <2>6, <2>7
<1> QED
  BY <1>6, <1>7

LEMMA EncInvEnd ==
  ASSUME EncInv, EncodeEnd
  PROVE  EncInv'
<1> DEFINE s == raw
           at == enc.at
           run == enc.run
           care == enc.care
           none == <<>>
           g == FlushRaw(file, run)
           h == FlushCare(g, care)
<1>0. /\ s \in Seq(Nat) /\ enc \in EncType /\ enc.st = "encoding" /\ at = RawBlocks /\ raw' = s
      /\ Encoding /\ file' = h /\ enc' = [enc EXCEPT !.st = "patching", !.run = none, !.care = 0]
  BY DEF EncInv, EncodeEnd
<1>1. PICK e : Collects(file.chunks, s, e, at, run, care)
  BY <1>0 DEF Encoding
<1>2. /\ file \in FileType /\ file.count = 0 /\ file.blocks = RawBlocks
      /\ RawBlocks \in Nat \ {0} /\ RawBlocks * BlockUnits = Len(s)
  BY <1>0 DEF Encoding
<1> DEFINE d == e + Len(run)
<1>3. /\ g \in FileType /\ g.blocks = file.blocks /\ g.count = file.count
      /\ Collects(g.chunks, s, d, at, none, care)
  BY <1>1, <1>2, RawFlushed
<1> HIDE DEF g, d, s, at, run, care, h
<1> DEFINE t == d + care * BlockUnits
<1>4. /\ h \in FileType /\ h.blocks = g.blocks /\ h.count = g.count
      /\ Collects(h.chunks, s, t, at, none, 0)
  BY <1>3, CareFlushed DEF h
<1>5. none \in Seq(Nat) /\ Len(none) = 0
  OBVIOUS
<1> HIDE DEF none, t
<1>6. enc' \in EncType /\ enc'.st = "patching"
  BY <1>0, <1>5 DEF EncType
<1>7. Written(h.chunks, s, Len(s))
  <2>1. /\ Written(h.chunks, s, t) /\ t \in Nat /\ t + Len(none) + 0 * BlockUnits = at * BlockUnits
    BY <1>4 DEF Collects
  <2>2. 0 * BlockUnits = 0 /\ at * BlockUnits = Len(s)
    BY <1>0, <1>2, Blocks
  <2>3. t = Len(s)
    BY <1>5, <2>1, <2>2
  <2> QED
    BY Zenon, <2>1, <2>3
<1>8. h.count = 0 /\ h.blocks = RawBlocks
  BY <1>2, <1>3, <1>4
<1>9. WholeOf([h EXCEPT !.count = Len(h.chunks)], s)
  <2> DEFINE f == [h EXCEPT !.count = Len(h.chunks)]
  <2>1. f.count = Len(h.chunks) /\ f.blocks = RawBlocks /\ f.chunks = h.chunks
    BY <1>4, <1>8 DEF FileType
  <2> HIDE DEF f
  <2>2. /\ f.chunks \in Seq(ChunkType) /\ (\A i \in DOMAIN f.chunks : ChunkValid(f.chunks[i]))
        /\ ChunkEnds(f.chunks)[Len(f.chunks)] = Len(s) /\ Spells(f.chunks, s)
    BY <1>7, <2>1 DEF Written
  <2>3. WholeOf(f, s)
    BY <1>2, <2>1, <2>2 DEF WholeOf
  <2> QED
    BY <2>3 DEF f
<1> QED
  BY <1>0, <1>2, <1>4, <1>6, <1>8, <1>9 DEF EncInv, s

LEMMA EncInvNext ==
  ASSUME EncInv, Encode \/ StopEncoder \/ UNCHANGED <<raw, file, enc>>
  PROVE  EncInv'
<1>1. CASE EncodeBlock
  BY <1>1, EncInvBlock
<1>2. CASE EncodeEnd
  BY <1>2, EncInvEnd
<1>3. CASE PatchHeader
  <2>1. /\ raw' = raw /\ enc.st = "patching" /\ file' = [file EXCEPT !.count = Len(file.chunks)]
        /\ enc' = [enc EXCEPT !.st = "encoded"]
    BY <1>3 DEF PatchHeader
  <2>2. enc \in EncType /\ raw \in Seq(Nat) /\ WholeOf([file EXCEPT !.count = Len(file.chunks)], raw)
    BY <2>1 DEF EncInv
  <2>3. WholeOf(file', raw')
    BY Zenon, <2>1, <2>2
  <2>4. enc' \in EncType /\ enc'.st = "encoded"
    BY <2>1, <2>2 DEF EncType
  <2> QED
    BY <2>1, <2>2, <2>3, <2>4 DEF EncInv
<1>4. CASE StopEncoder
  <2>1. /\ raw' = raw /\ file' = file /\ enc.st \in {"encoding", "patching"}
        /\ enc' = [enc EXCEPT !.st = "stopped"]
    BY <1>4 DEF StopEncoder
  <2>2. enc \in EncType /\ raw \in Seq(Nat) /\ file \in FileType /\ file.count = 0 /\ file.blocks \in Nat \ {0}
    BY <2>1 DEF EncInv, Encoding
  <2>3. enc' \in EncType /\ enc'.st = "stopped"
    BY <2>1, <2>2 DEF EncType
  <2> QED
    BY <2>1, <2>2, <2>3 DEF EncInv
<1>5. CASE UNCHANGED <<raw, file, enc>>
  <2>1. raw' = raw /\ file' = file /\ enc' = enc
    BY <1>5
  <2> QED
    BY <2>1 DEF EncInv, Encoding, RawBlocks
<1> QED
  BY <1>1, <1>2, <1>3, <1>4, <1>5 DEF Encode

\* Only a complete container opens, and it shows what it was made from.
LEMMA ParseIs ==
  ASSUME EncInv
  PROVE  /\ ~(enc.st \in {"encoded", "foreign"} /\ Len(file.chunks) <= MaxChunks) => ParseSparse(file) = {}
         /\ enc.st \in {"encoded", "foreign"} /\ Len(file.chunks) <= MaxChunks
              => \E img : ParseSparse(file) = {img} /\ Shows(img, raw)
<1>1. CASE enc.st \in {"encoded", "foreign"}
  <2>1. WholeOf(file, raw) /\ raw \in Seq(Nat)
    BY <1>1 DEF EncInv
  <2> QED
    BY <1>1, <2>1, ParseShows
<1>2. CASE ~(enc.st \in {"encoded", "foreign"})
  <2>1. file \in FileType /\ file.count = 0 /\ file.blocks \in Nat \ {0}
    BY <1>2 DEF EncInv, Encoding, EncType
  <2>2. file.chunks \in Seq(ChunkType) /\ Len(file.chunks) \in Nat
    BY <2>1, LenProperties DEF FileType
  <2>3. ChunkEnds(file.chunks)[file.count] = 0
    BY <2>1, <2>2, ChunkEndsAre DEF Adds
  <2>4. ~(ChunkEnds(file.chunks)[file.count] = file.blocks * BlockUnits)
    <3>1. \A b, n \in Nat \ {0} : b * n # 0
      OBVIOUS
    <3> QED
      BY <2>1, <2>3, <3>1, SparseAssumption
  <2>5. ParseSparse(file) = {}
    BY <2>4 DEF ParseSparse
  <2> QED
    BY <1>2, <2>5
<1> QED
  BY <1>1, <1>2

\* What OpensIffWhole says of one state.
LEMMA EncInvOpens ==
  ASSUME EncInv
  PROVE  OpensIffWhole
<1>1. ParseSparse(file) # {} <=> enc.st \in {"encoded", "foreign"} /\ Len(file.chunks) <= MaxChunks
  BY ParseIs
<1>2. ASSUME NEW img \in ParseSparse(file), NEW at \in 0 .. Len(raw), NEW len \in 0 .. Len(raw) - at
      PROVE  ReadAt(img, at, len) = {Slice(raw, at, len)}
  <2>1. Shows(img, raw)
    BY ParseIs
  <2>2. Len(raw) \in Nat
    BY LenProperties DEF EncInv
  <2>3. at \in Nat /\ len \in Nat /\ ~(at + len > Len(raw))
    BY <2>2
  <2> QED
    BY <2>1, <2>3, ReadAtShows
<1> QED
  BY <1>1, <1>2 DEF OpensIffWhole

----------------------------------------------------------------------------
\* Extents and their units.

ExtentType == [type : {"linear", "zero"}, source : Nat, data : Nat, num : Nat]
Units1(extents) == [i \in 1 .. Len(extents) |-> ExtentUnits(extents[i])]

LEMMA UnitsToAre ==
  ASSUME NEW extents, Len(extents) \in Nat
  PROVE  Adds(Len(extents), Units1(extents), UnitsTo(extents))
<1> DEFINE n == Len(extents)
           f == Units1(extents)
           T(g) == g = [i \in 0 .. n |-> IF i = 0 THEN 0 ELSE g[i - 1] + ExtentUnits(extents[i])]
           d == CHOOSE g : T(g)
<1>1. PICK h : Adds(n, f, h)
  BY AddsExist
<1>2. \A i \in 0 .. n : i = 0 \/ i \in 1 .. n
  OBVIOUS
<1>3. \A i \in 1 .. n : i \in 0 .. n /\ i # 0 /\ f[i] = ExtentUnits(extents[i])
  BY DEF Units1
<1> HIDE DEF f, n
<1>4. T(h)
  <2>1. \A i \in 0 .. n : h[i] = IF i = 0 THEN 0 ELSE h[i - 1] + ExtentUnits(extents[i])
    BY <1>1, <1>2, <1>3 DEF Adds
  <2> QED
    BY <1>1, <2>1 DEF Adds
<1>5. T(d)
  <2> HIDE DEF T
  <2> QED
    BY <1>4
<1> HIDE DEF d
<1>6. \A i \in 0 .. n : d[i] = IF i = 0 THEN 0 ELSE d[i - 1] + ExtentUnits(extents[i])
  BY <1>5
<1>7. Adds(n, f, d)
  <2>1. d = [i \in 0 .. n |-> d[i]]
    BY <1>5
  <2>2. 0 \in 0 .. n
    BY DEF n
  <2> QED
    BY <1>3, <1>6, <2>1, <2>2 DEF Adds
<1>8. UnitsTo(extents) = d
  BY DEF UnitsTo, d, n
<1> QED
  BY <1>7, <1>8 DEF n, f

\* An extent begins where the one before it ends.
LEMMA UnitsToGrow ==
  ASSUME NEW extents \in Seq(ExtentType)
  PROVE  LET n == Len(extents)
             U == UnitsTo(extents)
         IN /\ n \in Nat /\ DOMAIN extents = 1 .. n /\ U[0] = 0
            /\ \A i \in 0 .. n : U[i] \in Nat
            /\ \A i, j \in 0 .. n : i <= j => U[i] <= U[j]
            /\ \A i \in 1 .. n : /\ extents[i] \in ExtentType /\ ExtentUnits(extents[i]) \in Nat
                                 /\ U[i] = U[i - 1] + ExtentUnits(extents[i])
            /\ Total(extents) = U[n]
<1> DEFINE n == Len(extents)
           U == UnitsTo(extents)
<1>1. n \in Nat /\ DOMAIN extents = 1 .. n
  BY LenProperties
<1>2. ASSUME NEW i \in 1 .. n
      PROVE  extents[i] \in ExtentType /\ ExtentUnits(extents[i]) \in Nat /\ Units1(extents)[i] = ExtentUnits(extents[i])
  <2>1. extents[i] \in ExtentType
    BY ElementOfSeq
  <2>2. extents[i].num \in Nat /\ SectorUnits \in Nat
    BY <2>1, ReadAssumption DEF ExtentType
  <2>3. \A a, b \in Nat : a * b \in Nat
    OBVIOUS
  <2> QED
    BY <2>1, <2>2, <2>3 DEF ExtentUnits, Units1
<1>3. Adds(n, Units1(extents), U)
  BY <1>1, UnitsToAre
<1>4. Total(extents) = U[n]
  BY DEF Total
<1> HIDE DEF n, U
<1>5. /\ \A i \in 0 .. n : U[i] \in Nat
      /\ \A i, j \in 0 .. n : i <= j => U[i] <= U[j]
  BY <1>1, <1>2, <1>3, AddsGrow
<1>6. U[0] = 0 /\ \A i \in 1 .. n : U[i] = U[i - 1] + ExtentUnits(extents[i])
  BY <1>2, <1>3 DEF Adds
<1> QED
  BY <1>1, <1>2, <1>4, <1>5, <1>6 DEF n, U

\* UnitAt, of any contents, options and extents.
GivenBy(specs, d) == {specs[k].path : k \in {j \in DOMAIN specs : DeviceOf(specs[j]) = {d}}}
ContentOf(s, specs, d) == IF d = 0 THEN {s} ELSE {Files[path] : path \in GivenBy(specs, d)}
UnitOf(s, specs, extents, u) ==
  LET i == CHOOSE k \in DOMAIN extents :
             UnitsTo(extents)[k - 1] <= u /\ u < UnitsTo(extents)[k - 1] + ExtentUnits(extents[k])
      e == extents[i]
      at == e.data * SectorUnits + u - UnitsTo(extents)[i - 1]
  IN IF e.type = "zero" THEN {0}
     ELSE {c[at + 1] : c \in {b \in ContentOf(s, specs, e.source) : at < Len(b)}}

LEMMA UnitAtIs ==
  ASSUME NEW u
  PROVE  UnitAt(u) = UnitOf(raw, cmd.specs, cmd.extents, u)
BY DEF UnitAt, UnitOf, UnitsBefore, Content, ContentOf, Given, GivenBy

\* The unit at position p of extent e.
UnitHere(s, specs, e, p) ==
  LET at == e.data * SectorUnits + p
  IN IF e.type = "zero" THEN {0}
     ELSE {c[at + 1] : c \in {b \in ContentOf(s, specs, e.source) : at < Len(b)}}

LEMMA UnitIs ==
  ASSUME NEW s, NEW specs, NEW extents \in Seq(ExtentType), NEW i \in 1 .. Len(extents),
         NEW p \in Nat, p < ExtentUnits(extents[i])
  PROVE  UnitOf(s, specs, extents, UnitsTo(extents)[i - 1] + p) = UnitHere(s, specs, extents[i], p)
<1> DEFINE n == Len(extents)
           U == UnitsTo(extents)
           u == U[i - 1] + p
           Here(k) == U[k - 1] <= u /\ u < U[k - 1] + ExtentUnits(extents[k])
           j == CHOOSE k \in DOMAIN extents : Here(k)
<1>1. /\ n \in Nat /\ DOMAIN extents = 1 .. n
      /\ \A k \in 0 .. n : U[k] \in Nat
      /\ \A k, m \in 0 .. n : k <= m => U[k] <= U[m]
      /\ \A k \in 1 .. n : /\ extents[k] \in ExtentType /\ ExtentUnits(extents[k]) \in Nat
                           /\ U[k] = U[k - 1] + ExtentUnits(extents[k])
  BY UnitsToGrow
<1> HIDE DEF U
<1>2. U[i - 1] \in Nat /\ u \in Nat /\ Here(i)
  BY <1>1
<1>3. ASSUME NEW k \in 1 .. n, Here(k) PROVE k = i
  <2>1. /\ U[k] = U[k - 1] + ExtentUnits(extents[k]) /\ U[i] = U[i - 1] + ExtentUnits(extents[i])
        /\ U[k - 1] \in Nat /\ U[i - 1] \in Nat /\ U[k] \in Nat /\ U[i] \in Nat
    BY <1>1
  <2>2. U[k - 1] <= u /\ u < U[k] /\ U[i - 1] <= u /\ u < U[i]
    BY <1>2, <1>3, <2>1
  <2> HIDE DEF u, Here
  <2>3. CASE k < i
    <3>1. k \in 0 .. n /\ i - 1 \in 0 .. n /\ k <= i - 1
      BY <1>1, <2>3
    <3>2. U[k] <= U[i - 1]
      BY <1>1, <3>1
    <3> QED
      BY <1>2, <2>1, <2>2, <3>2
  <2>4. CASE i < k
    <3>1. i \in 0 .. n /\ k - 1 \in 0 .. n /\ i <= k - 1
      BY <1>1, <2>4
    <3>2. U[i] <= U[k - 1]
      BY <1>1, <3>1
    <3> QED
      BY <1>2, <2>1, <2>2, <3>2
  <2> QED
    BY <1>1, <2>3, <2>4
<1>4. j = i
  <2> HIDE DEF Here
  <2>1. j \in DOMAIN extents /\ Here(j)
    BY <1>1, <1>2
  <2> HIDE DEF j
  <2> QED
    BY <1>1, <1>3, <2>1
<1> DEFINE V(k) == LET e == extents[k]
                       at == e.data * SectorUnits + u - U[k - 1]
                   IN IF e.type = "zero" THEN {0}
                      ELSE {c[at + 1] : c \in {b \in ContentOf(s, specs, e.source) : at < Len(b)}}
<1>5. UnitOf(s, specs, extents, u) = V(j)
  BY DEF UnitOf, U
<1>6. UnitOf(s, specs, extents, u) = V(i)
  <2> HIDE DEF V, j
  <2> QED
    BY Zenon, <1>4, <1>5
<1>7. extents[i].data * SectorUnits + u - U[i - 1] = extents[i].data * SectorUnits + p
  <2>1. extents[i].data \in Nat /\ SectorUnits \in Nat
    BY <1>1, ReadAssumption DEF ExtentType
  <2> DEFINE a == extents[i].data * SectorUnits
  <2>2. a \in Nat
    BY <2>1
  <2> HIDE DEF a
  <2>3. a + u - U[i - 1] = a + p
    BY <1>2, <2>2
  <2> QED
    BY <2>3 DEF a
<1> QED
  BY <1>6, <1>7 DEF U, UnitHere

----------------------------------------------------------------------------
\* The options and the devices they give.

SpecsOK(specs) ==
  /\ DOMAIN specs = 1 .. Len(specs) /\ Len(specs) \in Nat
  /\ \A k \in DOMAIN specs : \A m, n \in specs[k].name : m = n

WrongOption(specs) ==
  \E k \in DOMAIN specs :
    \/ DeviceOf(specs[k]) = {}
    \/ specs[k].path \notin DOMAIN Files /\ DeviceOf(specs[k]) # {0}
    \/ DeviceOf(specs[k]) = {0} /\ specs[k].path \notin PrimaryPaths
    \/ \E j \in DOMAIN specs \ {k} : DeviceOf(specs[j]) = DeviceOf(specs[k])

\* An option means one device at most.
LEMMA DeviceOfOne ==
  ASSUME NEW spec, \A m, n \in spec.name : m = n, NEW d \in DeviceOf(spec)
  PROVE  DeviceOf(spec) = {d} /\ d \in Nat
<1>1. Numbers \subseteq Nat
  BY ReadAssumption DEF Numbers
<1>2. CASE spec.name = {}
  <2>1. DeviceOf(spec) = AutoMatchDevice(spec.path)
    BY <1>2 DEF DeviceOf
  <2>2. PICK hits : AutoMatchDevice(spec.path) = {e \in hits : hits = {e}} /\ hits \subseteq Numbers
    BY DEF AutoMatchDevice
  <2> QED
    BY <1>1, <2>1, <2>2
<1>3. CASE spec.name # {}
  <2>1. DeviceOf(spec) = {e \in Numbers : Name(e) \in spec.name /\ \A c \in 0 .. e - 1 : Name(c) # Name(e)}
    BY <1>3 DEF DeviceOf
  <2>2. ASSUME NEW e \in DeviceOf(spec) PROVE e = d
    <3>1. /\ Name(e) = Name(d) /\ e \in Nat /\ d \in Nat
          /\ \A c \in 0 .. e - 1 : Name(c) # Name(e)
          /\ \A c \in 0 .. d - 1 : Name(c) # Name(d)
      BY <1>1, <2>1, <2>2
    <3> QED
      BY <3>1
  <2> QED
    BY <1>1, <2>1, <2>2
<1> QED
  BY <1>2, <1>3

\* Accepted options give a device one file, those of the map.
LEMMA BoundOnce ==
  ASSUME NEW specs, SpecsOK(specs), Accepted(specs), NEW j \in DOMAIN specs, NEW k \in DOMAIN specs,
         NEW d, d # 0, d \in DeviceOf(specs[j]), d \in DeviceOf(specs[k])
  PROVE  j = k
<1>1. j \in Nat /\ k \in Nat
  BY DEF SpecsOK
<1>2. ASSUME NEW a \in DOMAIN specs, NEW b \in DOMAIN specs, a < b, d \in DeviceOf(specs[a]), d \in DeviceOf(specs[b])
      PROVE  FALSE
  <2>1. DeviceOf(specs[b]) = {d}
    BY <1>2, DeviceOfOne DEF SpecsOK
  <2>2. \A i \in 1 .. b - 1 : d \notin DeviceOf(specs[i])
    <3>1. \E e \in DeviceOf(specs[b]) : IF e = 0 THEN specs[b].path \in PrimaryPaths
                                        ELSE \A i \in 1 .. b - 1 : e \notin DeviceOf(specs[i])
      BY DEF Accepted
    <3> QED
      BY <2>1, <3>1
  <2>3. a \in 1 .. b - 1
    BY <1>2 DEF SpecsOK
  <2> QED
    BY <1>2, <2>2, <2>3
<1> QED
  BY <1>1, <1>2

LEMMA GivenAre ==
  ASSUME NEW specs, NEW e
  PROVE  e \in (UNION {DeviceOf(specs[k]) : k \in DOMAIN specs}) \ {0}
           <=> e # 0 /\ \E k \in DOMAIN specs : e \in DeviceOf(specs[k])
<1> DEFINE all == UNION {DeviceOf(specs[k]) : k \in DOMAIN specs}
           some == \E k \in DOMAIN specs : e \in DeviceOf(specs[k])
<1>1. e \in all <=> some
  OBVIOUS
<1> HIDE DEF all, some
<1>2. e \in all \ {0} <=> e # 0 /\ some
  BY <1>1
<1> QED
  BY <1>2 DEF all, some

LEMMA BindingIs ==
  ASSUME NEW specs, SpecsOK(specs), NEW b \in ResolveDeviceBindings(specs), NEW d, d # 0
  PROVE  GivenBy(specs, d) = {b[c] : c \in {d} \cap DOMAIN b}
<1> DEFINE given == (UNION {DeviceOf(specs[k]) : k \in DOMAIN specs}) \ {0}
           At(e) == CHOOSE k \in DOMAIN specs : e \in DeviceOf(specs[k])
           path(e) == specs[At(e)].path
<1>1. Accepted(specs) /\ b = [e \in given |-> path(e)]
  BY DEF ResolveDeviceBindings
<1>2. DOMAIN b = given /\ \A e \in given : b[e] = path(e)
  BY <1>1
<1>3. CASE d \in given
  <2>1. PICK k \in DOMAIN specs : d \in DeviceOf(specs[k])
    BY <1>3
  <2>2. At(d) \in DOMAIN specs /\ d \in DeviceOf(specs[At(d)])
    BY <2>1
  <2> HIDE DEF At
  <2>3. At(d) = k
    BY <1>1, <2>1, <2>2, BoundOnce
  <2>4. ASSUME NEW j \in DOMAIN specs PROVE DeviceOf(specs[j]) = {d} <=> j = k
    <3>1. DeviceOf(specs[k]) = {d}
      BY <2>1, DeviceOfOne DEF SpecsOK
    <3>2. DeviceOf(specs[j]) = {d} => j = k
      BY <1>1, <2>1, BoundOnce
    <3> QED
      BY <3>1, <3>2
  <2>5. {j \in DOMAIN specs : DeviceOf(specs[j]) = {d}} = {k}
    BY <2>4
  <2>6. GivenBy(specs, d) = {specs[k].path}
    BY <2>5 DEF GivenBy
  <2>7. b[d] = specs[k].path
    BY <1>2, <1>3, <2>3
  <2>8. {d} \cap DOMAIN b = {d}
    BY <1>2, <1>3
  <2>9. {b[c] : c \in {d}} = {b[d]}
    OBVIOUS
  <2> HIDE DEF given
  <2> QED
    BY Zenon, <2>6, <2>7, <2>8, <2>9
<1>4. CASE d \notin given
  <2>1. ASSUME NEW j \in DOMAIN specs PROVE DeviceOf(specs[j]) # {d}
    <3>1. d \in DeviceOf(specs[j]) => d \in given
      BY GivenAre
    <3> HIDE DEF given
    <3> QED
      BY <1>4, <3>1
  <2>2. GivenBy(specs, d) = {}
    BY <2>1 DEF GivenBy
  <2> HIDE DEF given
  <2>3. {d} \cap DOMAIN b = {}
    BY <1>2, <1>4
  <2> QED
    BY <2>2, <2>3
<1> QED
  BY <1>3, <1>4

\* If nothing can be opened, the image is not complete or an option is wrong.
LEMMA NotOpened ==
  ASSUME NEW specs, SpecsOK(specs), NEW sparse, OpenSplit(sparse, specs) = {}
  PROVE  (sparse /\ ParseSparse(file) = {}) \/ WrongOption(specs)
<1> SUFFICES ASSUME sparse => ParseSparse(file) # {} PROVE WrongOption(specs)
  OBVIOUS
<1>1. CASE ~Accepted(specs)
  <2>1. PICK k \in DOMAIN specs :
          \A d \in DeviceOf(specs[k]) :
            IF d = 0 THEN specs[k].path \notin PrimaryPaths
            ELSE \E j \in 1 .. k - 1 : d \in DeviceOf(specs[j])
    BY <1>1 DEF Accepted
  <2>2. CASE DeviceOf(specs[k]) = {}
    BY <2>2 DEF WrongOption
  <2>3. ASSUME NEW d \in DeviceOf(specs[k]) PROVE WrongOption(specs)
    <3>1. DeviceOf(specs[k]) = {d}
      BY DeviceOfOne DEF SpecsOK
    <3>2. CASE d = 0
      BY <2>1, <3>1, <3>2 DEF WrongOption
    <3>3. CASE d # 0
      <4>1. PICK j \in 1 .. k - 1 : d \in DeviceOf(specs[j])
        BY <2>1, <3>3
      <4>2. j \in DOMAIN specs \ {k}
        BY DEF SpecsOK
      <4>3. DeviceOf(specs[j]) = {d}
        BY <4>1, <4>2, DeviceOfOne DEF SpecsOK
      <4> QED
        BY <3>1, <4>2, <4>3 DEF WrongOption
    <3> QED
      BY <3>2, <3>3
  <2> QED
    BY <2>2, <2>3
<1>2. CASE Accepted(specs)
  <2> DEFINE given == (UNION {DeviceOf(specs[k]) : k \in DOMAIN specs}) \ {0}
             At(e) == CHOOSE k \in DOMAIN specs : e \in DeviceOf(specs[k])
             b == [e \in given |-> specs[At(e)].path]
  <2>1. ResolveDeviceBindings(specs) = {b}
    BY <1>2 DEF ResolveDeviceBindings
  <2>2. \E d \in DOMAIN b : b[d] \notin DOMAIN Files
    <3> HIDE DEF b
    <3> QED
      BY <2>1 DEF OpenSplit
  <2>3. PICK d \in given : specs[At(d)].path \notin DOMAIN Files
    BY <2>2
  <2>4. At(d) \in DOMAIN specs /\ d \in DeviceOf(specs[At(d)]) /\ d # 0
    <3>1. d \in given
      BY <2>3
    <3>2. d # 0 /\ \E k \in DOMAIN specs : d \in DeviceOf(specs[k])
      BY <3>1, GivenAre
    <3> HIDE DEF given
    <3> QED
      BY <3>1, <3>2
  <2> HIDE DEF At
  <2>5. DeviceOf(specs[At(d)]) # {0}
    BY <2>4
  <2> QED
    BY <2>3, <2>4, <2>5 DEF WrongOption
<1> QED
  BY <1>1, <1>2

----------------------------------------------------------------------------
\* Where the reader stands.

RdOK(extents, r) ==
  /\ r = [extent |-> r.extent, offset |-> r.offset, position |-> r.position]
  /\ r.extent \in 1 .. Len(extents) + 1 /\ r.offset \in Nat
  /\ r.position = UnitsTo(extents)[r.extent - 1] + r.offset
  /\ r.extent <= Len(extents) => r.offset <= ExtentUnits(extents[r.extent])
  /\ r.extent > Len(extents) => r.offset = 0

LEMMA RdStart ==
  ASSUME NEW extents \in Seq(ExtentType)
  PROVE  RdOK(extents, [extent |-> 1, offset |-> 0, position |-> 0])
<1> DEFINE n == Len(extents)
           U == UnitsTo(extents)
           r == [extent |-> 1, offset |-> 0, position |-> 0]
<1>1. /\ n \in Nat /\ U[0] = 0
      /\ \A i \in 1 .. n : ExtentUnits(extents[i]) \in Nat
  BY UnitsToGrow
<1>2. r.extent = 1 /\ r.offset = 0 /\ r.position = 0 /\ r = [extent |-> 1, offset |-> 0, position |-> 0]
  OBVIOUS
<1> HIDE DEF r, U, n
<1>3. r.extent - 1 = 0 /\ r.extent \in 1 .. n + 1 /\ r.offset \in Nat
  BY <1>1, <1>2
<1>4. r.position = U[r.extent - 1] + r.offset
  BY <1>1, <1>2, <1>3
<1>5. r.extent <= n => r.offset <= ExtentUnits(extents[r.extent])
  BY <1>1, <1>2
<1>6. r = [extent |-> r.extent, offset |-> r.offset, position |-> r.position]
  BY <1>2
<1>7. RdOK(extents, r)
  BY <1>2, <1>3, <1>4, <1>5, <1>6 DEF RdOK, n, U
<1> QED
  BY <1>7 DEF r

LEMMA RdBounds ==
  ASSUME NEW extents \in Seq(ExtentType), NEW r, RdOK(extents, r)
  PROVE  /\ r.position \in 0 .. Total(extents) /\ Total(extents) \in Nat /\ r.position \in Nat
         /\ r.extent > Len(extents) => r.position = Total(extents)
<1> DEFINE n == Len(extents)
           U == UnitsTo(extents)
           x == r.extent
           o == r.offset
           p == r.position
<1>1. /\ n \in Nat /\ U[0] = 0
      /\ \A i \in 0 .. n : U[i] \in Nat
      /\ \A i, j \in 0 .. n : i <= j => U[i] <= U[j]
      /\ \A i \in 1 .. n : /\ ExtentUnits(extents[i]) \in Nat
                           /\ U[i] = U[i - 1] + ExtentUnits(extents[i])
      /\ Total(extents) = U[n]
  BY UnitsToGrow
<1>2. /\ x \in 1 .. n + 1 /\ o \in Nat /\ p = U[x - 1] + o
      /\ x <= n => o <= ExtentUnits(extents[x])
      /\ x > n => o = 0
  BY DEF RdOK
<1> HIDE DEF n, U, x, o, p
<1>3. x - 1 \in 0 .. n /\ n \in 0 .. n /\ x - 1 <= n
  BY <1>1, <1>2
<1>4. U[x - 1] \in Nat /\ U[n] \in Nat /\ U[x - 1] <= U[n] /\ p \in Nat
  BY SMTT(30), <1>1, <1>2, <1>3
<1>5. CASE x <= n
  <2>1. x \in 1 .. n /\ x \in 0 .. n
    BY <1>1, <1>2, <1>5
  <2>2. U[x] = U[x - 1] + ExtentUnits(extents[x]) /\ U[x] <= U[n] /\ U[x] \in Nat
        /\ ExtentUnits(extents[x]) \in Nat
    BY <1>1, <1>3, <1>5, <2>1
  <2>3. p <= U[n]
    <3> DEFINE a == U[x - 1]
               b == U[x]
               c == ExtentUnits(extents[x])
               e == U[n]
    <3>1. /\ o \in Nat /\ p = a + o /\ o <= c /\ b = a + c /\ b <= e
          /\ a \in Nat /\ b \in Nat /\ c \in Nat /\ e \in Nat
      BY <1>2, <1>4, <1>5, <2>2
    <3> HIDE DEF a, b, c, e
    <3>2. p <= e
      BY <3>1
    <3> QED
      BY <3>2 DEF e
  <2>4. ~(x > n)
    BY <1>1, <2>1
  <2> QED
    BY <1>1, <1>4, <2>3, <2>4 DEF n, x, p
<1>6. CASE x > n
  <2>1. x - 1 = n
    BY <1>1, <1>2, <1>6
  <2>2. p = U[n]
    BY <1>2, <1>4, <1>6, <2>1
  <2> QED
    BY <1>1, <1>4, <2>2 DEF n, x, p
<1>7. x <= n \/ x > n
  BY <1>1, <1>2
<1> QED
  BY <1>5, <1>6, <1>7

\* An extent is passed.
LEMMA RdPasses ==
  ASSUME NEW extents \in Seq(ExtentType), NEW r, RdOK(extents, r), r.extent <= Len(extents),
         NEW m \in Nat, r.offset + m = ExtentUnits(extents[r.extent])
  PROVE  RdOK(extents, [extent |-> r.extent + 1, offset |-> 0, position |-> r.position + m])
<1> DEFINE n == Len(extents)
           U == UnitsTo(extents)
           x == r.extent
           o == r.offset
           p == r.position
           q == [extent |-> x + 1, offset |-> 0, position |-> p + m]
<1>1. /\ n \in Nat
      /\ \A i \in 0 .. n : U[i] \in Nat
      /\ \A i \in 1 .. n : /\ ExtentUnits(extents[i]) \in Nat
                           /\ U[i] = U[i - 1] + ExtentUnits(extents[i])
  BY UnitsToGrow
<1>2. /\ x \in 1 .. n + 1 /\ o \in Nat /\ p = U[x - 1] + o
      /\ x <= n /\ o + m = ExtentUnits(extents[x])
  BY DEF RdOK
<1>3. /\ q.extent = x + 1 /\ q.offset = 0 /\ q.position = p + m
      /\ q = [extent |-> q.extent, offset |-> q.offset, position |-> q.position]
  OBVIOUS
<1> HIDE DEF n, U, x, o, p, q
<1>4. x \in 1 .. n /\ x - 1 \in 0 .. n
  BY <1>1, <1>2
<1>5. U[x] = U[x - 1] + ExtentUnits(extents[x]) /\ U[x - 1] \in Nat /\ U[x] \in Nat
  <2>1. x \in 0 .. n
    BY <1>4
  <2> QED
    BY <1>1, <1>4, <2>1
<1>6. p + m = U[x] + 0
  <2> DEFINE a == U[x - 1]
             b == U[x]
             c == ExtentUnits(extents[x])
  <2>1. /\ o \in Nat /\ p = a + o /\ o + m = c /\ b = a + c /\ a \in Nat /\ b \in Nat
    BY <1>2, <1>5
  <2> HIDE DEF a, b, c
  <2>2. p + m = b + 0
    BY <2>1
  <2> QED
    BY <2>2 DEF b
<1>7. q.extent - 1 = x /\ q.extent \in 1 .. n + 1 /\ q.offset \in Nat
  BY <1>1, <1>3, <1>4
<1>8. q.position = U[q.extent - 1] + q.offset
  BY <1>3, <1>6, <1>7
<1>9. q.extent <= n => q.offset <= ExtentUnits(extents[q.extent])
  <2> SUFFICES ASSUME q.extent <= n PROVE q.offset <= ExtentUnits(extents[q.extent])
    OBVIOUS
  <2>1. q.extent \in 1 .. n
    BY <1>7
  <2> QED
    BY <1>1, <1>3, <2>1
<1>10. RdOK(extents, q)
  BY <1>3, <1>7, <1>8, <1>9 DEF RdOK, n, U
<1> QED
  BY <1>10 DEF q, x, p

\* Units of an extent are taken, not all that are left.
LEMMA RdTakes ==
  ASSUME NEW extents \in Seq(ExtentType), NEW r, RdOK(extents, r), r.extent <= Len(extents),
         NEW m \in Nat, r.offset + m < ExtentUnits(extents[r.extent])
  PROVE  RdOK(extents, [extent |-> r.extent, offset |-> r.offset + m, position |-> r.position + m])
<1> DEFINE n == Len(extents)
           U == UnitsTo(extents)
           x == r.extent
           o == r.offset
           p == r.position
           q == [extent |-> x, offset |-> o + m, position |-> p + m]
<1>1. /\ n \in Nat
      /\ \A i \in 0 .. n : U[i] \in Nat
      /\ \A i \in 1 .. n : ExtentUnits(extents[i]) \in Nat
  BY UnitsToGrow
<1>2. /\ x \in 1 .. n + 1 /\ o \in Nat /\ p = U[x - 1] + o
      /\ x <= n /\ o + m < ExtentUnits(extents[x])
  BY DEF RdOK
<1>3. /\ q.extent = x /\ q.offset = o + m /\ q.position = p + m
      /\ q = [extent |-> q.extent, offset |-> q.offset, position |-> q.position]
  OBVIOUS
<1> HIDE DEF n, U, x, o, p, q
<1>4. x \in 1 .. n /\ x - 1 \in 0 .. n
  BY <1>1, <1>2
<1>5. U[x - 1] \in Nat /\ ExtentUnits(extents[x]) \in Nat
  BY <1>1, <1>4
<1>6. p + m = U[x - 1] + (o + m) /\ o + m \in Nat /\ o + m <= ExtentUnits(extents[x]) /\ ~(x > n)
  <2> DEFINE a == U[x - 1]
             c == ExtentUnits(extents[x])
  <2>1. /\ o \in Nat /\ p = a + o /\ o + m < c /\ c \in Nat /\ a \in Nat /\ x \in 1 .. n /\ n \in Nat
    BY <1>1, <1>2, <1>4, <1>5
  <2> HIDE DEF a, c
  <2>2. p + m = a + (o + m) /\ o + m \in Nat /\ o + m <= c /\ ~(x > n)
    BY <2>1
  <2> QED
    BY <2>2 DEF a, c
<1>7. RdOK(extents, q)
  BY <1>2, <1>3, <1>6 DEF RdOK, n, U
<1> QED
  BY <1>7 DEF q, x, o, p

----------------------------------------------------------------------------
\* What a round of the reader finds.

Opened == SpecsOK(cmd.specs) /\ cmd.bound \in OpenSplit(cmd.sparse, cmd.specs)

LEMMA SourceShows ==
  ASSUME EncInv, Opened, NEW d
  PROVE  \/ Source(d) = {} /\ ContentOf(raw, cmd.specs, d) = {}
         \/ \E img, s : Source(d) = {img} /\ ContentOf(raw, cmd.specs, d) = {s} /\ Shows(img, s)
<1> DEFINE b == cmd.bound
<1>1. /\ SpecsOK(cmd.specs) /\ b \in ResolveDeviceBindings(cmd.specs)
      /\ cmd.sparse => ParseSparse(file) # {}
      /\ \A e \in DOMAIN b : b[e] \in DOMAIN Files
  BY DEF Opened, OpenSplit
<1>2. raw \in Seq(Nat)
  BY DEF EncInv
<1>3. CASE d = 0
  <2>1. ContentOf(raw, cmd.specs, d) = {raw}
    BY <1>3 DEF ContentOf
  <2>2. CASE cmd.sparse
    <3>1. PICK img : ParseSparse(file) = {img} /\ Shows(img, raw)
      BY <1>1, <2>2, ParseIs
    <3>2. Source(d) = {img}
      BY <1>3, <2>2, <3>1 DEF Source
    <3> QED
      BY <2>1, <3>1, <3>2
  <2>3. CASE ~cmd.sparse
    <3>1. Source(d) = {RawImage(raw)}
      BY <1>3, <2>3 DEF Source
    <3>2. Shows(RawImage(raw), raw)
      BY <1>2, RawShows
    <3> QED
      BY <2>1, <3>1, <3>2
  <2> QED
    BY <2>2, <2>3
<1>4. CASE d # 0
  <2>1. GivenBy(cmd.specs, d) = {b[c] : c \in {d} \cap DOMAIN b}
    BY <1>1, <1>4, BindingIs
  <2>2. ContentOf(raw, cmd.specs, d) = {Files[path] : path \in GivenBy(cmd.specs, d)}
    BY <1>4 DEF ContentOf
  <2>3. Source(d) = {RawImage(Files[b[c]]) : c \in {d} \cap DOMAIN b}
    BY <1>4 DEF Source
  <2> HIDE DEF b
  <2>4. CASE d \in DOMAIN b
    <3>1. {d} \cap DOMAIN b = {d}
      BY <2>4
    <3> DEFINE path == b[d]
               s == Files[path]
    <3>2. GivenBy(cmd.specs, d) = {path}
      BY <2>1, <3>1
    <3>3. ContentOf(raw, cmd.specs, d) = {s}
      BY <2>2, <3>2
    <3>4. Source(d) = {RawImage(s)}
      BY <2>3, <3>1
    <3>5. s \in Seq(Nat)
      BY <1>1, <2>4, ReadAssumption
    <3>6. Shows(RawImage(s), s)
      BY <3>5, RawShows
    <3> QED
      BY <3>3, <3>4, <3>6
  <2>5. CASE d \notin DOMAIN b
    <3>1. {d} \cap DOMAIN b = {}
      BY <2>5
    <3>2. GivenBy(cmd.specs, d) = {}
      BY <2>1, <3>1
    <3>3. Source(d) = {}
      BY <2>3, <3>1
    <3> QED
      BY <2>2, <3>2, <3>3
  <2> QED
    BY <2>4, <2>5
<1> QED
  BY <1>3, <1>4

Reading(x) == UnitOf(raw, cmd.specs, cmd.extents, x)

LEMMA FetchedShows ==
  ASSUME EncInv, Opened, cmd.extents \in Seq(ExtentType), RdOK(cmd.extents, rd),
         rd.extent <= Len(cmd.extents), NEW n \in Nat, n > 0, rd.offset + n <= ExtentUnits(Extent)
  PROVE  \/ Fetched(n) = {} /\ \E u \in 0 .. Total(cmd.extents) - 1 : Reading(u) = {}
         \/ \E t \in Seq(Nat) : /\ Fetched(n) = {t} /\ Len(t) = n
                                /\ \A k \in 1 .. n : Reading(rd.position + k - 1) = {t[k]}
<1> DEFINE E == cmd.extents
           U == UnitsTo(E)
           N == Len(E)
           x == rd.extent
           o == rd.offset
           e == E[x]
           data == e.data * SectorUnits
           content == ContentOf(raw, cmd.specs, e.source)
<1>1. /\ N \in Nat /\ U[N] = Total(E) /\ x \in 1 .. N /\ o \in Nat
      /\ rd.position = U[x - 1] + o /\ U[x - 1] \in Nat /\ U[x] \in Nat /\ U[N] \in Nat
      /\ U[x] = U[x - 1] + ExtentUnits(e) /\ U[x] <= U[N] /\ ExtentUnits(e) \in Nat
      /\ e \in ExtentType /\ o + n <= ExtentUnits(e)
  <2>1. /\ N \in Nat /\ x \in 1 .. N /\ o \in Nat /\ rd.position = U[x - 1] + o
    <3>1. N \in Nat
      BY LenProperties
    <3>2. x \in 1 .. N + 1 /\ o \in Nat /\ rd.position = U[x - 1] + o
      BY DEF RdOK
    <3>3. x \in 1 .. N
      BY <3>1, <3>2
    <3> QED
      BY <3>1, <3>2, <3>3
  <2>2. x - 1 \in 0 .. N /\ x \in 0 .. N /\ N \in 0 .. N /\ x <= N
    BY <2>1
  <2>3. /\ \A i \in 0 .. N : U[i] \in Nat
        /\ \A i, j \in 0 .. N : i <= j => U[i] <= U[j]
        /\ \A i \in 1 .. N : /\ E[i] \in ExtentType /\ ExtentUnits(E[i]) \in Nat
                             /\ U[i] = U[i - 1] + ExtentUnits(E[i])
        /\ Total(E) = U[N]
    BY UnitsToGrow
  <2>4. o + n <= ExtentUnits(e)
    BY DEF Extent
  <2> HIDE DEF E, U, N, x, o
  <2> QED
    BY <2>1, <2>2, <2>3, <2>4
<1>2. ASSUME NEW p \in Nat, p < ExtentUnits(e)
      PROVE  Reading(U[x - 1] + p) = IF e.type = "zero" THEN {0}
                                     ELSE {c[data + p + 1] : c \in {b \in content : data + p < Len(b)}}
  <2> DEFINE v == UnitOf(raw, cmd.specs, E, U[x - 1] + p)
             h == UnitHere(raw, cmd.specs, e, p)
  <2>1. E \in Seq(ExtentType) /\ x \in 1 .. Len(E)
    BY <1>1
  <2>2. v = h
    <3> HIDE DEF E, x
    <3> QED
      BY <1>2, <2>1, UnitIs
  <2>3. Reading(U[x - 1] + p) = v
    BY DEF Reading
  <2>4. Reading(U[x - 1] + p) = h
    <3> HIDE DEF v, h
    <3> QED
      BY <2>2, <2>3
  <2> QED
    BY <2>4 DEF UnitHere
<1>3. data \in Nat
  <2>1. e.data \in Nat /\ SectorUnits \in Nat
    BY <1>1, ReadAssumption DEF ExtentType
  <2> QED
    BY <2>1
<1> HIDE DEF U, N, x, o, data, content
<1>4. ASSUME NEW k \in 1 .. n
      PROVE  o + k - 1 \in Nat /\ o + k - 1 < ExtentUnits(e) /\ rd.position + k - 1 = U[x - 1] + (o + k - 1)
  <2> DEFINE a == U[x - 1]
             c == ExtentUnits(e)
             q == rd.position
  <2>1. o \in Nat /\ a \in Nat /\ c \in Nat /\ o + n <= c /\ q = a + o
    BY <1>1
  <2> HIDE DEF a, c, q
  <2>2. o + k - 1 \in Nat /\ o + k - 1 < c /\ q + k - 1 = a + (o + k - 1)
    BY <2>1
  <2> QED
    BY <2>2 DEF a, c, q
<1>5. U[x - 1] + (o + n - 1) \in 0 .. Total(E) - 1 /\ n \in 1 .. n
  <2> DEFINE a == U[x - 1]
             b == U[x]
             c == ExtentUnits(e)
             d == U[N]
  <2>1. o \in Nat /\ a \in Nat /\ b \in Nat /\ c \in Nat /\ d \in Nat /\ b = a + c /\ b <= d /\ o + n <= c
    BY <1>1
  <2> HIDE DEF a, b, c, d
  <2>2. a + (o + n - 1) \in 0 .. d - 1
    BY <2>1
  <2> QED
    BY <1>1, <2>2 DEF a, d
<1>6. CASE e.type = "zero"
  <2> DEFINE t == Zeros(n)
  <2>1. Fetched(n) = {t}
    BY <1>6 DEF Fetched, Extent, x
  <2>2. t \in Seq(Nat) /\ Len(t) = n /\ \A k \in 1 .. n : t[k] = 0
    <3>1. t \in [1 .. n -> Nat] /\ \A k \in 1 .. n : t[k] = 0
      BY DEF Zeros
    <3> HIDE DEF t
    <3> QED
      BY <3>1, FunctionLen
  <2> HIDE DEF t
  <2>3. ASSUME NEW k \in 1 .. n PROVE Reading(rd.position + k - 1) = {t[k]}
    <3>1. Reading(U[x - 1] + (o + k - 1)) = {0}
      BY <1>2, <1>4, <1>6
    <3> QED
      BY <1>4, <2>2, <3>1
  <2> QED
    BY <2>1, <2>2, <2>3
<1>7. CASE e.type # "zero"
  <2>1. Fetched(n) = UNION {ReadAt(img, data + o, n) : img \in Source(e.source)}
    BY <1>7 DEF Fetched, Extent, x, o, data
  <2>2. CASE Source(e.source) = {} /\ content = {}
    <3>1. Fetched(n) = {}
      BY <2>1, <2>2
    <3>2. Reading(U[x - 1] + (o + n - 1)) = {}
      BY <1>2, <1>4, <1>5, <1>7, <2>2
    <3> QED
      BY <1>5, <3>1, <3>2
  <2>3. ASSUME NEW img, NEW s, Source(e.source) = {img}, content = {s}, Shows(img, s)
        PROVE  \/ Fetched(n) = {} /\ \E u \in 0 .. Total(cmd.extents) - 1 : Reading(u) = {}
               \/ \E t \in Seq(Nat) : /\ Fetched(n) = {t} /\ Len(t) = n
                                      /\ \A k \in 1 .. n : Reading(rd.position + k - 1) = {t[k]}
    <3>1. Fetched(n) = ReadAt(img, data + o, n)
      BY <2>1, <2>3
    <3>2. s \in Seq(Nat) /\ Len(s) \in Nat /\ data + o \in Nat
      BY <1>1, <1>3, <2>3, LenProperties DEF Shows
    <3>3. Fetched(n) = IF data + o + n > Len(s) THEN {} ELSE {Slice(s, data + o, n)}
      <4> DEFINE at == data + o
      <4>1. at \in Nat /\ Fetched(n) = ReadAt(img, at, n)
        BY <3>1, <3>2
      <4> HIDE DEF at
      <4>2. Fetched(n) = IF at + n > Len(s) THEN {} ELSE {Slice(s, at, n)}
        BY <2>3, <4>1, ReadAtShows
      <4> QED
        BY <4>2 DEF at
    <3>4. CASE data + o + n > Len(s)
      <4>1. ~(data + (o + n - 1) < Len(s))
        BY <1>1, <1>3, <3>2, <3>4
      <4>2. {b \in content : data + (o + n - 1) < Len(b)} = {}
        BY <2>3, <4>1
      <4>3. Reading(U[x - 1] + (o + n - 1)) = {}
        BY <1>2, <1>4, <1>5, <1>7, <4>2
      <4> QED
        BY <1>5, <3>3, <3>4, <4>3
    <3>5. CASE ~(data + o + n > Len(s))
      <4> DEFINE t == Slice(s, data + o, n)
      <4>1. (data + o) + n <= Len(s)
        BY <1>1, <1>3, <3>2, <3>5
      <4>2. t \in Seq(Nat) /\ Len(t) = n /\ \A k \in 1 .. n : t[k] = s[(data + o) + k]
        BY <3>2, <4>1, SliceIs
      <4> HIDE DEF t
      <4>3. ASSUME NEW k \in 1 .. n PROVE Reading(rd.position + k - 1) = {t[k]}
        <5> DEFINE p == o + k - 1
        <5>1. p \in Nat /\ p < ExtentUnits(e) /\ rd.position + k - 1 = U[x - 1] + p
          BY <1>4
        <5>2. Reading(U[x - 1] + p) = {c[data + p + 1] : c \in {b \in content : data + p < Len(b)}}
          BY <1>2, <1>7, <5>1
        <5>3. data + p < Len(s) /\ data + p + 1 = (data + o) + k
          BY <1>1, <1>3, <3>2, <4>1
        <5> HIDE DEF p
        <5>4. {b \in content : data + p < Len(b)} = {s}
          BY <2>3, <5>3
        <5>5. Reading(U[x - 1] + p) = {s[data + p + 1]}
          BY <5>2, <5>4
        <5> QED
          BY <4>2, <5>1, <5>3, <5>5
      <4>4. Fetched(n) = {t}
        BY <3>3, <3>5 DEF t
      <4> QED
        BY <4>2, <4>3, <4>4
    <3> QED
      BY <3>4, <3>5
  <2>4. \/ Source(e.source) = {} /\ content = {}
        \/ \E img, s : Source(e.source) = {img} /\ content = {s} /\ Shows(img, s)
    BY SourceShows DEF content
  <2> QED
    BY <2>2, <2>3, <2>4
<1> QED
  BY <1>6, <1>7

----------------------------------------------------------------------------
\* The invariant of a read.

CmdStates == {"off", "skipping", "reading", "success", "failed", "pipe_closed", "write_failed"}

IsCmd(x) ==
  x = [st |-> x.st, sparse |-> x.sparse, specs |-> x.specs, bound |-> x.bound,
       extents |-> x.extents, skip |-> x.skip, left |-> x.left, max |-> x.max]
CmdOK(x) ==
  /\ IsCmd(x)
  /\ x.st \in CmdStates
  /\ x.extents \in Seq(ExtentType)
  /\ x.skip \in Nat /\ x.left \in Nat /\ x.max \in Nat

\* The buffer holds the units in front of the position.
BufOK ==
  /\ buf = [want |-> buf.want, got |-> buf.got] /\ buf.want \in Nat /\ buf.got \in Seq(Nat)
  /\ Len(buf.got) <= buf.want /\ Len(buf.got) <= rd.position
  /\ \A k \in 1 .. Len(buf.got) : Reading(rd.position - Len(buf.got) + k - 1) = {buf.got[k]}

OutOK ==
  /\ out \in Seq(Nat) /\ Len(out) <= cmd.max
  /\ \A k \in 1 .. Len(out) : Reading(cmd.skip + k - 1) = {out[k]}

Excuse ==
  \/ cmd.sparse /\ ParseSparse(file) = {}
  \/ WrongOption(cmd.specs)
  \/ \E u \in 0 .. Total(cmd.extents) - 1 : Reading(u) = {}

\* What is known in each phase of the command.
PhaseOK ==
  /\ cmd.st = "off" => /\ rd = [extent |-> 1, offset |-> 0, position |-> 0]
                       /\ buf = [want |-> 0, got |-> <<>>] /\ out = <<>>
  /\ cmd.st # "off" => enc.st \notin {"encoding", "patching"}
  /\ Busy => Opened /\ cmd.skip < Total(cmd.extents) /\ cmd.skip + cmd.max <= Total(cmd.extents)
  /\ cmd.st = "skipping" => /\ out = <<>> /\ buf.want <= cmd.left
                            /\ rd.position + cmd.left = cmd.skip + Len(buf.got)
  /\ cmd.st = "reading" => /\ Len(out) + buf.want <= cmd.max
                           /\ rd.position = cmd.skip + Len(out) + Len(buf.got)
  /\ cmd.st = "success" => Len(out) = cmd.max
  /\ cmd.st = "failed" => Excuse

ReadInv ==
  EncInv /\ CmdOK(cmd) /\ RdOK(cmd.extents, rd) /\ BufOK /\ OutOK /\ PhaseOK

\* What a step that keeps the devices, options and extents leaves as it is.
Kept ==
  /\ raw' = raw /\ file' = file /\ enc' = enc
  /\ cmd'.specs = cmd.specs /\ cmd'.extents = cmd.extents /\ cmd'.sparse = cmd.sparse
  /\ cmd'.bound = cmd.bound /\ cmd'.skip = cmd.skip /\ cmd'.max = cmd.max

LEMMA KeptKeeps ==
  ASSUME EncInv, Kept
  PROVE  /\ EncInv' /\ (\A u : Reading(u)' = Reading(u))
         /\ (Opened => Opened') /\ (Excuse => Excuse')
<1>1. EncInv'
  BY EncInvNext DEF Kept
<1>2. \A u : Reading(u)' = Reading(u)
  BY DEF Kept, Reading
<1>3. Opened => Opened'
  BY DEF Kept, Opened, OpenSplit
<1>4. Excuse => Excuse'
  <2>1. CASE cmd.sparse /\ ParseSparse(file) = {}
    BY <2>1 DEF Kept, Excuse
  <2>2. CASE WrongOption(cmd.specs)
    BY <2>2 DEF Kept, Excuse
  <2>3. CASE \E u \in 0 .. Total(cmd.extents) - 1 : Reading(u) = {}
    <3>1. Total(cmd.extents)' = Total(cmd.extents)
      BY DEF Kept
    <3> QED
      BY <1>2, <2>3, <3>1 DEF Excuse
  <2> QED
    BY <2>1, <2>2, <2>3 DEF Excuse
<1> QED
  BY <1>1, <1>2, <1>3, <1>4

SetSt(x, v) == [x EXCEPT !.st = v]
SetLeft(x, v) == [x EXCEPT !.left = v]

LEMMA SetsSt ==
  ASSUME NEW x, CmdOK(x),
         NEW v \in CmdStates
  PROVE  LET y == SetSt(x, v)
         IN /\ CmdOK(y) /\ y.st = v /\ y.specs = x.specs /\ y.extents = x.extents /\ y.sparse = x.sparse
            /\ y.bound = x.bound /\ y.skip = x.skip /\ y.left = x.left /\ y.max = x.max
<1> DEFINE y == [st |-> v, sparse |-> x.sparse, specs |-> x.specs, bound |-> x.bound,
                 extents |-> x.extents, skip |-> x.skip, left |-> x.left, max |-> x.max]
<1>1. SetSt(x, v) = y
  BY DEF SetSt, CmdOK, IsCmd
<1>2. /\ y.st = v /\ y.specs = x.specs /\ y.extents = x.extents /\ y.sparse = x.sparse
      /\ y.bound = x.bound /\ y.skip = x.skip /\ y.left = x.left /\ y.max = x.max
  OBVIOUS
<1>3. IsCmd(y)
  BY DEF IsCmd
<1> HIDE DEF y
<1>4. CmdOK(y)
  BY <1>2, <1>3 DEF CmdOK
<1> QED
  BY <1>1, <1>2, <1>4

LEMMA SetsLeft ==
  ASSUME NEW x, CmdOK(x), NEW v \in Nat
  PROVE  LET y == SetLeft(x, v)
         IN /\ CmdOK(y) /\ y.st = x.st /\ y.specs = x.specs /\ y.extents = x.extents /\ y.sparse = x.sparse
            /\ y.bound = x.bound /\ y.skip = x.skip /\ y.left = v /\ y.max = x.max
<1> DEFINE y == [st |-> x.st, sparse |-> x.sparse, specs |-> x.specs, bound |-> x.bound,
                 extents |-> x.extents, skip |-> x.skip, left |-> v, max |-> x.max]
<1>1. SetLeft(x, v) = y
  BY DEF SetLeft, CmdOK, IsCmd
<1>2. /\ y.st = x.st /\ y.specs = x.specs /\ y.extents = x.extents /\ y.sparse = x.sparse
      /\ y.bound = x.bound /\ y.skip = x.skip /\ y.left = v /\ y.max = x.max
  OBVIOUS
<1>3. IsCmd(y)
  BY DEF IsCmd
<1> HIDE DEF y
<1>4. CmdOK(y)
  BY <1>2, <1>3 DEF CmdOK
<1> QED
  BY <1>1, <1>2, <1>4

LEMMA ReadInvInit ==
  ASSUME Init
  PROVE  ReadInv
<1> DEFINE none == <<>>
<1>1. none \in Seq(Nat) /\ none \in Seq(ExtentType) /\ Len(none) = 0
  OBVIOUS
<1>2. /\ cmd = [st |-> "off", sparse |-> FALSE, specs |-> none, bound |-> none,
                extents |-> none, skip |-> 0, left |-> 0, max |-> 0]
      /\ rd = [extent |-> 1, offset |-> 0, position |-> 0]
      /\ buf = [want |-> 0, got |-> none] /\ out = none
  BY DEF Init
<1>3. EncInv
  BY EncInvInit DEF Init
<1> HIDE DEF none
<1>4. cmd.st = "off" /\ cmd.extents = none /\ cmd.skip = 0 /\ cmd.left = 0 /\ cmd.max = 0
      /\ IsCmd(cmd)
  BY <1>2 DEF IsCmd
<1>5. CmdOK(cmd)
  BY <1>1, <1>4 DEF CmdOK, CmdStates
<1>6. RdOK(cmd.extents, rd) /\ rd.position = 0
  BY <1>1, <1>2, <1>4, RdStart
<1>7. BufOK
  BY <1>1, <1>2, <1>6 DEF BufOK
<1>8. OutOK
  BY <1>1, <1>2, <1>4 DEF OutOK
<1>9. PhaseOK
  BY <1>2, <1>4 DEF PhaseOK, Busy, none
<1> QED
  BY <1>3, <1>5, <1>6, <1>7, <1>8, <1>9 DEF ReadInv

\* Before the command starts the encoder is free to go on.
LEMMA ReadInvEncode ==
  ASSUME ReadInv, Encode \/ StopEncoder, UNCHANGED cmdVars
  PROVE  ReadInv'
<1>1. EncInv'
  BY EncInvNext DEF ReadInv
<1>2. enc.st \in {"encoding", "patching"}
  BY DEF Encode, EncodeBlock, EncodeEnd, PatchHeader, StopEncoder
<1>3. cmd' = cmd /\ rd' = rd /\ buf' = buf /\ out' = out /\ raw' = raw
  BY DEF cmdVars, Encode, EncodeBlock, EncodeEnd, PatchHeader, StopEncoder
<1>4. cmd.st = "off" /\ CmdOK(cmd) /\ RdOK(cmd.extents, rd) /\ BufOK /\ OutOK
  BY <1>2 DEF ReadInv, PhaseOK
<1>5. \A u : Reading(u)' = Reading(u)
  BY <1>3 DEF Reading
<1>6. BufOK'
  BY <1>3, <1>4, <1>5 DEF BufOK
<1>7. OutOK'
  BY <1>3, <1>4, <1>5 DEF OutOK
<1>8. PhaseOK'
  <2>1. /\ rd = [extent |-> 1, offset |-> 0, position |-> 0]
        /\ buf = [want |-> 0, got |-> <<>>] /\ out = <<>>
    BY <1>4 DEF ReadInv, PhaseOK
  <2>2. cmd'.st = "off"
    BY <1>3, <1>4
  <2> QED
    BY <1>3, <2>1, <2>2 DEF PhaseOK, Busy
<1> QED
  BY <1>1, <1>3, <1>4, <1>6, <1>7, <1>8 DEF ReadInv

LEMMA ReadInvStart ==
  ASSUME ReadInv, NEW sparse \in BOOLEAN, NEW specs \in SpecLists, NEW extents \in ExtentLists,
         NEW skip \in Skips, NEW size \in Sizes, Start(sparse, specs, extents, skip, size),
         UNCHANGED <<raw, file, enc>>
  PROVE  ReadInv'
<1> DEFINE T == Total(extents)
           past == skip >= T
           opened == OpenSplit(sparse, specs)
           st == IF past THEN "success" ELSE IF opened = {} THEN "failed"
                 ELSE IF skip > 0 THEN "skipping" ELSE "reading"
           bound == IF opened = {} THEN <<>> ELSE CHOOSE b \in opened : TRUE
           max == IF past THEN 0 ELSE Least(size, T - skip)
<1>1. /\ cmd.st = "off" /\ enc.st \notin {"encoding", "patching"}
      /\ cmd' = [st |-> st, sparse |-> sparse, specs |-> specs, bound |-> bound,
                 extents |-> extents, skip |-> skip, left |-> skip, max |-> max]
      /\ rd' = rd /\ buf' = buf /\ out' = out
  BY DEF Start
<1>2. raw' = raw /\ file' = file /\ enc' = enc
  OBVIOUS
<1>3. EncInv'
  BY EncInvNext DEF ReadInv
<1> DEFINE none == <<>>
<1>4. /\ rd = [extent |-> 1, offset |-> 0, position |-> 0]
      /\ buf = [want |-> 0, got |-> none] /\ out = none
  BY <1>1 DEF ReadInv, PhaseOK
<1>5. none \in Seq(Nat) /\ Len(none) = 0
  OBVIOUS
<1>6. extents \in Seq(ExtentType) /\ skip \in Nat /\ size \in Nat /\ SpecsOK(specs)
  BY ReadAssumption DEF ExtentType, SpecsOK
<1>7. T \in Nat
  <2>1. LET n == Len(extents)
        IN n \in Nat /\ UnitsTo(extents)[n] \in Nat /\ T = UnitsTo(extents)[n]
    BY <1>6, UnitsToGrow
  <2> QED
    BY <2>1
<1> HIDE DEF none, T
<1>8. max \in Nat /\ (~past => max <= T - skip /\ skip + max <= T /\ skip < T) /\ (past => max = 0)
  BY <1>6, <1>7 DEF Least
<1>9. /\ st \in CmdStates /\ st # "off"
      /\ st = "success" <=> past
      /\ st = "failed" <=> ~past /\ opened = {}
      /\ st = "skipping" <=> ~past /\ opened # {} /\ skip > 0
      /\ st = "reading" <=> ~past /\ opened # {} /\ ~(skip > 0)
  <2> HIDE DEF past, opened
  <2> QED
    BY DEF CmdStates
<1> HIDE DEF past, opened, st, bound, max
<1>10. /\ cmd'.st = st /\ cmd'.sparse = sparse /\ cmd'.specs = specs /\ cmd'.bound = bound
       /\ cmd'.extents = extents /\ cmd'.skip = skip /\ cmd'.left = skip /\ cmd'.max = max
       /\ IsCmd(cmd')
  BY <1>1 DEF IsCmd
<1>11. CmdOK(cmd')
  BY <1>6, <1>8, <1>9, <1>10 DEF CmdOK
<1>12. RdOK(cmd'.extents, rd')
  BY <1>1, <1>4, <1>6, <1>10, RdStart
<1>13. buf'.want = 0 /\ buf'.got = none /\ rd'.position = 0
  BY <1>1, <1>4
<1>14. BufOK'
  BY <1>1, <1>4, <1>5, <1>13 DEF BufOK
<1>15. OutOK'
  BY <1>1, <1>4, <1>5, <1>8, <1>10 DEF OutOK
<1>16. opened = {} => Excuse'
  <2>1. opened = {} => (sparse /\ ParseSparse(file) = {}) \/ WrongOption(specs)
    BY <1>6, NotOpened DEF opened
  <2> QED
    BY <1>2, <1>10, <2>1 DEF Excuse
<1>17. opened # {} => Opened'
  <2> SUFFICES ASSUME opened # {} PROVE Opened'
    OBVIOUS
  <2>1. bound \in OpenSplit(sparse, specs)
    BY DEF bound, opened
  <2>2. OpenSplit(sparse, specs)' = OpenSplit(sparse, specs)
    BY <1>2 DEF OpenSplit
  <2> QED
    BY <1>6, <1>10, <2>1, <2>2 DEF Opened, OpenSplit
<1>18. PhaseOK'
  <2>1. cmd'.st # "off" /\ enc'.st \notin {"encoding", "patching"}
    BY <1>1, <1>2, <1>9, <1>10
  <2>2. Busy' => Opened' /\ skip < T /\ skip + max <= T
    BY <1>8, <1>9, <1>10, <1>17 DEF Busy
  <2>3. cmd'.st = "skipping" => out' = none /\ 0 <= skip /\ 0 + skip = skip + Len(none)
    BY <1>1, <1>4, <1>5, <1>6
  <2>4. cmd'.st = "reading" => Len(none) + 0 <= max /\ 0 = skip + Len(none) + Len(none)
    BY <1>5, <1>6, <1>8, <1>9, <1>10
  <2>5. cmd'.st = "success" => Len(none) = max
    BY <1>5, <1>8, <1>9, <1>10
  <2>6. cmd'.st = "failed" => Excuse'
    BY <1>9, <1>10, <1>16
  <2>7. Total(cmd.extents)' = T
    BY <1>10 DEF T
  <2> QED
    BY <1>1, <1>4, <1>10, <1>13, <2>1, <2>2, <2>3, <2>4, <2>5, <2>6, <2>7 DEF PhaseOK, none
<1> QED
  BY <1>3, <1>11, <1>12, <1>14, <1>15, <1>18 DEF ReadInv

LEMMA ReadInvNextBuffer ==
  ASSUME ReadInv, NextBuffer, UNCHANGED <<raw, file, enc>>
  PROVE  ReadInv'
<1> DEFINE E == cmd.extents
           T == Total(E)
           m == Len(out)
           left == IF cmd.st = "skipping" THEN cmd.left ELSE cmd.max - m
           size == IF cmd.st = "skipping" THEN Least(cmd.skip, SkipBuf) ELSE ReadBuf
           over == IF cmd.st = "skipping" THEN "reading" ELSE "success"
           none == <<>>
<1>1. /\ EncInv /\ CmdOK(cmd) /\ RdOK(E, rd) /\ BufOK /\ OutOK /\ PhaseOK
  BY DEF ReadInv
<1>2. /\ Busy /\ buf.want = 0 /\ rd' = rd /\ out' = out /\ raw' = raw /\ file' = file /\ enc' = enc
      /\ \/ (left = 0 \/ rd.position >= T) /\ cmd' = [cmd EXCEPT !.st = over] /\ buf' = buf
         \/ /\ ~(left = 0 \/ rd.position >= T) /\ cmd' = cmd
            /\ buf' = [want |-> Least(left, size), got |-> none]
  BY DEF NextBuffer
<1>3. none \in Seq(Nat) /\ Len(none) = 0
  OBVIOUS
<1>4. /\ E \in Seq(ExtentType) /\ cmd.skip \in Nat /\ cmd.left \in Nat /\ cmd.max \in Nat
  BY <1>1 DEF CmdOK
<1>5. rd.position \in Nat /\ T \in Nat
  BY <1>1, <1>4, RdBounds
<1>6. m \in Nat /\ m <= cmd.max /\ Len(buf.got) \in Nat /\ Len(buf.got) = 0
  BY <1>1, <1>2, LenProperties DEF OutOK, BufOK
<1>7. /\ Opened /\ cmd.skip < T /\ cmd.skip + cmd.max <= T
      /\ cmd.st = "skipping" => out = none /\ rd.position + cmd.left = cmd.skip
      /\ cmd.st = "reading" => rd.position = cmd.skip + m
      /\ enc.st \notin {"encoding", "patching"}
  BY <1>1, <1>2, <1>4, <1>5, <1>6 DEF PhaseOK, Busy
<1>8. cmd.st = "skipping" \/ cmd.st = "reading"
  BY <1>2 DEF Busy
<1> HIDE DEF T, m, none, left, size, over
<1>9. CASE left = 0 \/ rd.position >= T
  <2>1. cmd' = SetSt(cmd, over) /\ buf' = buf
    BY <1>2, <1>9 DEF SetSt
  <2>2. over \in CmdStates
    BY DEF over, CmdStates
  <2>3. /\ CmdOK(cmd') /\ cmd'.st = over /\ cmd'.specs = cmd.specs /\ cmd'.extents = E /\ cmd'.sparse = cmd.sparse
        /\ cmd'.bound = cmd.bound /\ cmd'.skip = cmd.skip /\ cmd'.left = cmd.left /\ cmd'.max = cmd.max
    BY <1>1, <2>1, <2>2, SetsSt
  <2>4. Kept
    BY <1>2, <2>3 DEF Kept
  <2>5. EncInv' /\ (\A u : Reading(u)' = Reading(u)) /\ Opened'
    BY <1>1, <1>7, <2>4, KeptKeeps
  <2>6. RdOK(cmd'.extents, rd')
    BY <1>1, <1>2, <2>3
  <2>7. BufOK'
    BY <1>1, <1>2, <2>1, <2>5 DEF BufOK
  <2>8. OutOK'
    BY <1>1, <1>2, <2>3, <2>5 DEF OutOK
  <2>9. CASE cmd.st = "skipping"
    <3>1. over = "reading" /\ left = cmd.left /\ out = none /\ rd.position + cmd.left = cmd.skip
      BY <1>7, <2>9 DEF over, left
    <3>2. cmd.left = 0 /\ rd.position = cmd.skip
      BY <1>4, <1>5, <1>7, <1>9, <3>1
    <3>3. cmd'.st = "reading"
      BY <2>3, <3>1
    <3>4. m = 0
      BY <1>3, <3>1 DEF m
    <3>5. m + 0 <= cmd.max /\ rd.position = cmd.skip + m + 0
      BY <1>4, <1>5, <3>2, <3>4
    <3>6. Total(cmd.extents)' = T
      BY <2>3 DEF T
    <3>7. PhaseOK'
      BY <1>2, <1>6, <1>7, <2>1, <2>3, <2>5, <3>3, <3>5, <3>6 DEF PhaseOK, m
    <3> QED
      BY <2>3, <2>5, <2>6, <2>7, <2>8, <3>7 DEF ReadInv
  <2>10. CASE cmd.st = "reading"
    <3>1. over = "success" /\ left = cmd.max - m /\ rd.position = cmd.skip + m
      BY <1>7, <2>10 DEF over, left
    <3>2. m = cmd.max
      BY <1>4, <1>5, <1>6, <1>7, <1>9, <3>1
    <3>3. cmd'.st = "success"
      BY <2>3, <3>1
    <3>4. PhaseOK'
      BY <1>2, <1>7, <2>3, <3>2, <3>3 DEF PhaseOK, Busy, m
    <3> QED
      BY <2>3, <2>5, <2>6, <2>7, <2>8, <3>4 DEF ReadInv
  <2> QED
    BY <1>8, <2>9, <2>10
<1>10. CASE ~(left = 0 \/ rd.position >= T)
  <2> DEFINE want == Least(left, size)
  <2>1. cmd' = cmd /\ buf' = [want |-> want, got |-> none]
    BY <1>2, <1>10
  <2>2. left \in Nat /\ size \in Nat
    BY <1>4, <1>6, ReadAssumption DEF left, size, Least
  <2>3. want \in Nat /\ want <= left
    BY <2>2 DEF Least
  <2> HIDE DEF want
  <2>4. buf'.want = want /\ buf'.got = none /\ buf' = [want |-> buf'.want, got |-> buf'.got]
    BY <2>1
  <2>5. Kept
    BY <1>2, <2>1 DEF Kept
  <2>6. EncInv' /\ (\A u : Reading(u)' = Reading(u)) /\ Opened'
    BY <1>1, <1>7, <2>5, KeptKeeps
  <2>7. BufOK'
    BY <1>2, <1>3, <1>5, <2>3, <2>4 DEF BufOK
  <2>8. OutOK'
    BY <1>1, <1>2, <2>1, <2>6 DEF OutOK
  <2>9. PhaseOK'
    <3>1. cmd.st = "skipping" => want <= cmd.left /\ rd.position + cmd.left = cmd.skip + 0
      BY <1>4, <1>7, <2>3 DEF left
    <3>2. cmd.st = "reading" => m + want <= cmd.max /\ rd.position = cmd.skip + m + 0
      BY <1>4, <1>6, <1>7, <2>3 DEF left
    <3> QED
      BY <1>2, <1>3, <1>7, <1>8, <2>1, <2>4, <2>6, <3>1, <3>2 DEF PhaseOK, m, T, none
  <2> QED
    BY <1>1, <1>2, <2>1, <2>6, <2>7, <2>8, <2>9 DEF ReadInv
<1> QED
  BY <1>9, <1>10

LEMMA RdExcept ==
  ASSUME NEW r, r = [extent |-> r.extent, offset |-> r.offset, position |-> r.position], NEW x, NEW o, NEW p
  PROVE  /\ [r EXCEPT !.extent = x, !.offset = o] = [extent |-> x, offset |-> o, position |-> r.position]
         /\ [r EXCEPT !.offset = o, !.position = p] = [extent |-> r.extent, offset |-> o, position |-> p]
<1> DEFINE a == r.extent
           b == r.offset
           c == r.position
           r1 == [extent |-> x, offset |-> b, position |-> c]
           r2 == [extent |-> a, offset |-> o, position |-> c]
<1>1. r = [extent |-> a, offset |-> b, position |-> c]
  OBVIOUS
<1> HIDE DEF a, b, c
<1>2. [r EXCEPT !.extent = x] = r1 /\ [r EXCEPT !.offset = o] = r2
  BY <1>1
<1>3. /\ [r1 EXCEPT !.offset = o] = [extent |-> x, offset |-> o, position |-> c]
      /\ [r2 EXCEPT !.position = p] = [extent |-> a, offset |-> o, position |-> p]
  OBVIOUS
<1> HIDE DEF r1, r2
<1> QED
  BY Zenon, <1>2, <1>3 DEF a, c

LEMMA ReadInvPass ==
  ASSUME ReadInv, PassExtent, UNCHANGED <<raw, file, enc>>
  PROVE  ReadInv'
<1> DEFINE E == cmd.extents
<1>1. /\ EncInv /\ CmdOK(cmd) /\ RdOK(E, rd) /\ BufOK /\ OutOK /\ PhaseOK
  BY DEF ReadInv
<1>2. /\ Busy /\ rd.extent <= Len(E) /\ rd.offset >= ExtentUnits(E[rd.extent])
      /\ rd' = [rd EXCEPT !.extent = @ + 1, !.offset = 0]
      /\ cmd' = cmd /\ buf' = buf /\ out' = out /\ raw' = raw /\ file' = file /\ enc' = enc
  BY DEF PassExtent, Filling, InRead, Extent
<1>3. E \in Seq(ExtentType)
  BY <1>1 DEF CmdOK
<1>4. /\ rd = [extent |-> rd.extent, offset |-> rd.offset, position |-> rd.position]
      /\ rd.offset \in Nat /\ rd.offset <= ExtentUnits(E[rd.extent]) /\ rd.extent \in 1 .. Len(E) + 1
  BY <1>1, <1>2 DEF RdOK
<1>5. rd.position \in Nat /\ Len(E) \in Nat /\ ExtentUnits(E[rd.extent]) \in Nat
  <2>1. Len(E) \in Nat
    BY <1>3, LenProperties
  <2>2. rd.extent \in 1 .. Len(E)
    BY <1>2, <1>4, <2>1
  <2> QED
    BY <1>1, <1>3, <2>1, <2>2, RdBounds, UnitsToGrow
<1> DEFINE q == [extent |-> rd.extent + 1, offset |-> 0, position |-> rd.position + 0]
<1>6. RdOK(E, q)
  <2>1. 0 \in Nat /\ rd.offset + 0 = ExtentUnits(E[rd.extent])
    BY <1>2, <1>4, <1>5
  <2> HIDE DEF E
  <2> QED
    BY <1>1, <1>2, <1>3, <2>1, RdPasses
<1>7. rd' = q /\ q.position = rd.position
  <2> DEFINE x == rd.extent + 1
             p == rd.position + 0
  <2>1. p = rd.position
    BY <1>5
  <2>2. rd' = [rd EXCEPT !.extent = x, !.offset = 0]
    BY <1>2
  <2>3. q = [extent |-> x, offset |-> 0, position |-> p]
    OBVIOUS
  <2> HIDE DEF x, p, q
  <2>4. rd' = [extent |-> x, offset |-> 0, position |-> rd.position]
    BY Zenon, <1>4, <2>2, RdExcept
  <2> QED
    BY <2>1, <2>3, <2>4
<1> HIDE DEF q
<1>8. Kept
  BY <1>2 DEF Kept
<1>9. EncInv' /\ (\A u : Reading(u)' = Reading(u)) /\ (Opened => Opened') /\ rd'.position = rd.position
  BY <1>1, <1>7, <1>8, KeptKeeps
<1>10. BufOK'
  BY <1>1, <1>2, <1>9 DEF BufOK
<1>11. OutOK'
  BY <1>1, <1>2, <1>9 DEF OutOK
<1>12. PhaseOK'
  BY <1>1, <1>2, <1>9 DEF PhaseOK, Busy
<1> QED
  BY <1>1, <1>2, <1>6, <1>7, <1>9, <1>10, <1>11, <1>12 DEF ReadInv

\* The units of a are those of the partition from unit s on.
Holds(s, a) == \A k \in 1 .. Len(a) : Reading(s + k - 1) = {a[k]}

LEMMA HoldsJoin ==
  ASSUME NEW a \in Seq(Nat), NEW b \in Seq(Nat), NEW s \in Nat, Holds(s, a), Holds(s + Len(a), b)
  PROVE  /\ a \o b \in Seq(Nat) /\ Len(a \o b) = Len(a) + Len(b)
         /\ Holds(s, a \o b)
<1> DEFINE c == a \o b
           m == Len(a)
           n == Len(b)
<1>1. m \in Nat /\ n \in Nat
  BY LenProperties
<1>2. /\ c \in Seq(Nat) /\ Len(c) = m + n
      /\ \A k \in 1 .. m + n : c[k] = IF k <= m THEN a[k] ELSE b[k - m]
  BY ConcatProperties
<1> HIDE DEF c
<1>3. ASSUME NEW k \in 1 .. m + n PROVE Reading(s + k - 1) = {c[k]}
  <2>1. CASE k <= m
    <3>1. k \in 1 .. m
      BY <1>1, <2>1
    <3> QED
      BY <1>2, <2>1, <3>1 DEF Holds
  <2>2. CASE ~(k <= m)
    <3> DEFINE j == k - m
    <3>1. j \in 1 .. n /\ s + m + j - 1 = s + k - 1
      <4> HIDE DEF m, n
      <4> QED
        BY <1>1, <2>2
    <3>2. c[k] = b[j]
      BY <1>2, <2>2
    <3> HIDE DEF j
    <3>3. Reading(s + m + j - 1) = {b[j]}
      BY <3>1 DEF Holds
    <3> QED
      BY Zenon, <3>1, <3>2, <3>3
  <2> QED
    BY <2>1, <2>2
<1> QED
  BY <1>2, <1>3 DEF c, Holds

LEMMA ReadInvTake ==
  ASSUME ReadInv, TakeExtent, UNCHANGED <<raw, file, enc>>
  PROVE  ReadInv'
<1> DEFINE E == cmd.extents
           x == rd.extent
           o == rd.offset
           units == ExtentUnits(E[x])
           m == Len(buf.got)
           n == Room
           failed == "failed"
<1>1. /\ EncInv /\ CmdOK(cmd) /\ RdOK(E, rd) /\ BufOK /\ OutOK /\ PhaseOK
  BY DEF ReadInv
<1>2. /\ Busy /\ buf.want > 0 /\ m < buf.want /\ x <= Len(E) /\ o < units
      /\ \/ Fetched(n) = {} /\ cmd' = [cmd EXCEPT !.st = failed] /\ rd' = rd /\ buf' = buf
         \/ /\ Fetched(n) # {} /\ (\E t \in Fetched(n) : buf' = [buf EXCEPT !.got = @ \o t])
            /\ rd' = Advanced(n) /\ cmd' = cmd
      /\ out' = out /\ raw' = raw /\ file' = file /\ enc' = enc
  BY DEF TakeExtent, Filling, InRead, Extent
<1>3. E \in Seq(ExtentType)
  BY <1>1 DEF CmdOK
<1>4. Opened /\ enc.st \notin {"encoding", "patching"}
  BY <1>1, <1>2 DEF PhaseOK, Busy
<1>5. /\ rd = [extent |-> x, offset |-> o, position |-> rd.position]
      /\ o \in Nat /\ x \in 1 .. Len(E) + 1 /\ rd.position \in Nat /\ Len(E) \in Nat /\ units \in Nat
  <2>1. /\ rd = [extent |-> x, offset |-> o, position |-> rd.position]
        /\ o \in Nat /\ x \in 1 .. Len(E) + 1
    BY <1>1 DEF RdOK
  <2>2. rd.position \in Nat
    BY <1>1, <1>3, RdBounds
  <2>3. Len(E) \in Nat
    BY <1>3, LenProperties
  <2>4. x \in 1 .. Len(E)
    BY <1>2, <2>1, <2>3
  <2>5. units \in Nat
    BY <1>3, <2>4, UnitsToGrow
  <2> QED
    BY <2>1, <2>2, <2>3, <2>5
<1>6. /\ buf = [want |-> buf.want, got |-> buf.got] /\ buf.want \in Nat /\ buf.got \in Seq(Nat)
      /\ m \in Nat /\ m <= rd.position
      /\ \A k \in 1 .. m : Reading(rd.position - m + k - 1) = {buf.got[k]}
  BY <1>1, LenProperties DEF BufOK
<1>7. n \in Nat /\ n > 0 /\ o + n <= units /\ m + n <= buf.want
  <2>1. n = Least(units - o, buf.want - m)
    BY DEF Room, Extent
  <2> DEFINE w == buf.want
  <2>2. units \in Nat /\ o \in Nat /\ m \in Nat /\ w \in Nat /\ o < units /\ m < w
    BY <1>2, <1>5, <1>6
  <2> HIDE DEF units, o, m, w, n
  <2>3. n \in Nat /\ n > 0 /\ o + n <= units /\ m + n <= w
    <3>1. CASE units - o < w - m
      <4>1. n = units - o
        BY <2>1, <3>1 DEF Least, w
      <4> QED
        BY <2>2, <3>1, <4>1
    <3>2. CASE ~(units - o < w - m)
      <4>1. n = w - m
        BY <2>1, <3>2 DEF Least, w
      <4> QED
        BY <2>2, <3>2, <4>1
    <3> QED
      BY <3>1, <3>2
  <2> QED
    BY <2>3 DEF w
<1>8. \/ Fetched(n) = {} /\ \E u \in 0 .. Total(E) - 1 : Reading(u) = {}
      \/ \E t \in Seq(Nat) : /\ Fetched(n) = {t} /\ Len(t) = n
                             /\ \A k \in 1 .. n : Reading(rd.position + k - 1) = {t[k]}
  <2>1. rd.offset + n <= ExtentUnits(Extent)
    BY <1>7 DEF Extent
  <2> HIDE DEF n
  <2> QED
    BY <1>1, <1>2, <1>3, <1>4, <1>7, <2>1, FetchedShows
<1> HIDE DEF n, units, m, E
<1>9. CASE Fetched(n) = {}
  <2>1. cmd' = SetSt(cmd, failed) /\ rd' = rd /\ buf' = buf
    BY <1>2, <1>9 DEF SetSt
  <2>2. failed \in CmdStates
    BY DEF CmdStates
  <2> HIDE DEF failed
  <2>3. /\ CmdOK(cmd') /\ cmd'.st = failed /\ cmd'.specs = cmd.specs /\ cmd'.extents = E /\ cmd'.sparse = cmd.sparse
        /\ cmd'.bound = cmd.bound /\ cmd'.skip = cmd.skip /\ cmd'.left = cmd.left /\ cmd'.max = cmd.max
    BY <1>1, <2>1, <2>2, SetsSt DEF E
  <2>4. Kept
    BY <1>2, <2>3 DEF Kept, E
  <2>5. Excuse
    <3>1. \E u \in 0 .. Total(E) - 1 : Reading(u) = {}
      BY <1>8, <1>9
    <3> QED
      BY <3>1 DEF Excuse, E
  <2>6. EncInv' /\ (\A u : Reading(u)' = Reading(u)) /\ Excuse'
    BY <1>1, <2>4, <2>5, KeptKeeps
  <2>7. RdOK(cmd'.extents, rd')
    BY <1>1, <2>1, <2>3
  <2>8. BufOK'
    BY <1>1, <2>1, <2>6 DEF BufOK
  <2>9. OutOK'
    BY <1>1, <1>2, <2>3, <2>6 DEF OutOK
  <2>10. PhaseOK'
    <3>1. cmd'.st = "failed"
      BY <2>3 DEF failed
    <3> QED
      BY <1>2, <1>4, <2>6, <3>1 DEF PhaseOK, Busy
  <2> QED
    BY <2>3, <2>6, <2>7, <2>8, <2>9, <2>10 DEF ReadInv
<1>10. ASSUME NEW t \in Seq(Nat), Fetched(n) = {t}, Len(t) = n,
              \A k \in 1 .. n : Reading(rd.position + k - 1) = {t[k]}
       PROVE  ReadInv'
  <2> DEFINE more == buf.got \o t
  <2>1. buf' = [buf EXCEPT !.got = more] /\ rd' = Advanced(n) /\ cmd' = cmd
    BY <1>2, <1>10
  <2>2. Kept
    BY <1>2, <2>1 DEF Kept
  <2>3. EncInv' /\ (\A u : Reading(u)' = Reading(u)) /\ Opened'
    BY <1>1, <1>4, <2>2, KeptKeeps
  <2>4. RdOK(E, rd') /\ rd'.position = rd.position + n
    <3>1. rd' = IF o + n >= units THEN [extent |-> x + 1, offset |-> 0, position |-> rd.position + n]
                ELSE [rd EXCEPT !.offset = o + n, !.position = rd.position + n]
      BY <2>1 DEF Advanced, Extent, units, E
    <3>2. CASE o + n >= units
      <4>1. o + n = units
        <5> HIDE DEF o
        <5>1. o \in Nat /\ n \in Nat /\ units \in Nat /\ o + n <= units
          BY <1>5, <1>7
        <5>2. o + n >= units
          BY <3>2
        <5> QED
          BY <5>1, <5>2
      <4>2. rd' = [extent |-> x + 1, offset |-> 0, position |-> rd.position + n]
        BY <3>1, <3>2
      <4>3. RdOK(E, [extent |-> x + 1, offset |-> 0, position |-> rd.position + n])
        BY <1>1, <1>2, <1>3, <1>7, <4>1, RdPasses DEF units
      <4> QED
        BY <4>2, <4>3
    <3>3. CASE ~(o + n >= units)
      <4>1. o + n < units
        BY <1>5, <1>7, <3>3
      <4>2. rd' = [rd EXCEPT !.offset = o + n, !.position = rd.position + n]
        BY <3>1, <3>3
      <4>3. RdOK(E, [extent |-> x, offset |-> o + n, position |-> rd.position + n])
        BY <1>1, <1>2, <1>3, <1>7, <4>1, RdTakes DEF units
      <4>4. rd' = [extent |-> x, offset |-> o + n, position |-> rd.position + n]
        <5> DEFINE c == o + n
                   q == rd.position + n
        <5>1. rd' = [rd EXCEPT !.offset = c, !.position = q]
          BY <4>2
        <5> HIDE DEF c, q
        <5>2. rd' = [extent |-> rd.extent, offset |-> c, position |-> q]
          BY Zenon, <1>5, <5>1, RdExcept
        <5> QED
          BY <5>2 DEF c, q
      <4> QED
        BY <4>3, <4>4
    <3> QED
      BY <3>2, <3>3
  <2>5. buf' = [want |-> buf.want, got |-> more] /\ buf'.want = buf.want /\ buf'.got = more
    <3> HIDE DEF more
    <3> QED
      BY <1>6, <2>1
  <2> DEFINE q == rd.position + n
  <2>6. /\ more \in Seq(Nat) /\ Len(more) = m + n /\ Len(more) <= q /\ q \in Nat
        /\ \A k \in 1 .. Len(more) : Reading(q - Len(more) + k - 1) = {more[k]}
    <3> DEFINE s == rd.position - m
    <3>1. /\ s \in Nat /\ m + n \in Nat /\ q \in Nat /\ m + n <= q /\ s + m = rd.position
          /\ q - (m + n) = s
      <4> DEFINE p == rd.position
      <4>1. p \in Nat /\ m \in Nat /\ m <= p /\ n \in Nat /\ s = p - m /\ q = p + n
        BY <1>5, <1>6, <1>7
      <4> HIDE DEF p, q, s
      <4>2. /\ s \in Nat /\ m + n \in Nat /\ q \in Nat /\ m + n <= q /\ s + m = p
            /\ q - (m + n) = s
        BY <4>1
      <4> QED
        BY <4>2 DEF p
    <3>2. Holds(s, buf.got)
      BY <1>6 DEF m, Holds
    <3> HIDE DEF s
    <3>3. Holds(s + Len(buf.got), t)
      BY <1>10, <3>1 DEF m, Holds
    <3>4. more \in Seq(Nat) /\ Len(more) = Len(buf.got) + Len(t) /\ Holds(s, more)
      <4>1. buf.got \in Seq(Nat) /\ s \in Nat
        BY <1>6, <3>1
      <4> QED
        BY <3>2, <3>3, <4>1, HoldsJoin
    <3>5. Len(more) = m + n
      BY <1>10, <3>4 DEF m
    <3> HIDE DEF more, q
    <3> QED
      BY <3>1, <3>4, <3>5 DEF Holds
  <2> HIDE DEF more, q
  <2>7. BufOK'
    <3>1. rd'.position = q
      BY <2>4 DEF q
    <3>2. Len(more) <= buf.want
      BY <1>7, <2>6
    <3> QED
      BY <1>6, <2>3, <2>5, <2>6, <3>1, <3>2 DEF BufOK
  <2>8. OutOK'
    BY <1>1, <1>2, <2>1, <2>3 DEF OutOK
  <2>9. PhaseOK'
    <3>1. cmd.st = "skipping" => rd.position + n + cmd.left = cmd.skip + (m + n)
      <4>1. cmd.st = "skipping" => rd.position + cmd.left = cmd.skip + m
        BY <1>1 DEF PhaseOK, m
      <4>2. cmd.left \in Nat /\ cmd.skip \in Nat
        BY <1>1 DEF CmdOK
      <4> DEFINE p == rd.position
                 l == cmd.left
                 i == cmd.skip
      <4>3. /\ p \in Nat /\ l \in Nat /\ i \in Nat /\ m \in Nat /\ n \in Nat
            /\ cmd.st = "skipping" => p + l = i + m
        BY <1>5, <1>6, <1>7, <4>1, <4>2
      <4> HIDE DEF p, l, i
      <4>4. cmd.st = "skipping" => p + n + l = i + (m + n)
        BY <4>3
      <4> QED
        BY <4>4 DEF p, l, i
    <3>2. cmd.st = "reading" => rd.position + n = cmd.skip + Len(out) + (m + n)
      <4>1. cmd.st = "reading" => rd.position = cmd.skip + Len(out) + m
        BY <1>1 DEF PhaseOK, m
      <4>2. Len(out) \in Nat /\ cmd.skip \in Nat
        BY <1>1, LenProperties DEF CmdOK, OutOK
      <4> QED
        BY SMTT(30), <1>5, <1>6, <1>7, <4>1, <4>2
    <3>3. Len(buf'.got) = m + n /\ rd'.position = rd.position + n
      BY <2>4, <2>5, <2>6
    <3> QED
      BY <1>1, <1>2, <2>1, <2>3, <2>5, <3>1, <3>2, <3>3 DEF PhaseOK, Busy
  <2> QED
    BY <1>1, <2>1, <2>3, <2>4, <2>7, <2>8, <2>9 DEF ReadInv, E
<1> QED
  BY <1>8, <1>9, <1>10

LEMMA ReadInvReturn ==
  ASSUME ReadInv, ReturnBuffer, UNCHANGED <<raw, file, enc>>
  PROVE  ReadInv'
<1> DEFINE E == cmd.extents
           T == Total(E)
           m == Len(out)
           n == Len(buf.got)
           i == cmd.skip
           p == rd.position
           none == <<>>
           less == IF n > cmd.left THEN 0 ELSE cmd.left - n
           more == out \o buf.got
           success == "success"
<1>1. /\ EncInv /\ CmdOK(cmd) /\ RdOK(E, rd) /\ BufOK /\ OutOK /\ PhaseOK
  BY DEF ReadInv
<1>2. /\ Busy /\ buf.want > 0 /\ ~(n < buf.want /\ rd.extent <= Len(E))
      /\ buf' = [want |-> 0, got |-> none]
      /\ rd' = rd /\ raw' = raw /\ file' = file /\ enc' = enc
  BY DEF ReturnBuffer, InRead, Filling
<1>3. /\ E \in Seq(ExtentType) /\ i \in Nat /\ cmd.left \in Nat /\ cmd.max \in Nat
  BY <1>1 DEF CmdOK
<1>4. p \in Nat /\ T \in Nat /\ (rd.extent > Len(E) => p = T)
  BY <1>1, <1>3, RdBounds
<1>5. /\ m \in Nat /\ m <= cmd.max /\ n \in Nat /\ n <= buf.want /\ buf.want \in Nat /\ n <= p
      /\ out \in Seq(Nat) /\ buf.got \in Seq(Nat)
  BY <1>1, LenProperties DEF OutOK, BufOK
<1>6. /\ Opened /\ i < T /\ i + cmd.max <= T
      /\ cmd.st = "skipping" => out = none /\ buf.want <= cmd.left /\ p + cmd.left = i + n
      /\ cmd.st = "reading" => m + buf.want <= cmd.max /\ p = i + m + n
      /\ enc.st \notin {"encoding", "patching"}
  BY <1>1, <1>2 DEF PhaseOK, Busy
<1>7. cmd.st = "skipping" \/ cmd.st = "reading"
  BY <1>2 DEF Busy
<1>8. none \in Seq(Nat) /\ Len(none) = 0
  OBVIOUS
<1>9. buf'.want = 0 /\ buf'.got = none /\ buf' = [want |-> buf'.want, got |-> buf'.got]
  BY <1>2
<1>10. \/ n = 0 /\ cmd' = [cmd EXCEPT !.st = IF cmd.st = "skipping" THEN "reading" ELSE success] /\ out' = out
       \/ n # 0 /\ cmd.st = "skipping" /\ cmd' = [cmd EXCEPT !.left = less] /\ out' = out
       \/ n # 0 /\ cmd.st # "skipping" /\ out' = more /\ cmd' = cmd
       \/ /\ n # 0 /\ cmd.st # "skipping" /\ out' = out
          /\ \E st \in {"pipe_closed", "write_failed"} : cmd' = [cmd EXCEPT !.st = st]
  BY DEF ReturnBuffer
<1> HIDE DEF none, n, m, T, less, more, success
\* What every case has.
<1>11. ASSUME Kept PROVE /\ EncInv' /\ (\A u : Reading(u)' = Reading(u)) /\ Opened'
                         /\ RdOK(cmd'.extents, rd') /\ BufOK' /\ Total(cmd.extents)' = T
  <2>1. EncInv' /\ (\A u : Reading(u)' = Reading(u)) /\ Opened'
    BY <1>1, <1>6, <1>11, KeptKeeps
  <2>2. RdOK(cmd'.extents, rd') /\ Total(cmd.extents)' = T
    BY <1>1, <1>2, <1>11 DEF Kept, T
  <2>3. BufOK'
    BY <1>2, <1>4, <1>8, <1>9 DEF BufOK
  <2> QED
    BY <2>1, <2>2, <2>3
\* The extents are used up.
<1>12. CASE n = 0
  <2>1. rd.extent > Len(E)
    <3>1. n < buf.want
      BY <1>2, <1>5, <1>12
    <3>2. rd.extent \in 1 .. Len(E) + 1 /\ Len(E) \in Nat
      BY <1>1, <1>3, LenProperties DEF RdOK
    <3> HIDE DEF E
    <3> QED
      BY <1>2, <3>1, <3>2
  <2>2. cmd.st = "reading"
    BY <1>3, <1>4, <1>6, <1>7, <1>12, <2>1
  <2>3. m = cmd.max
    BY <1>3, <1>4, <1>5, <1>6, <1>12, <2>1, <2>2
  <2>4. cmd' = SetSt(cmd, success) /\ out' = out
    BY <1>10, <1>12, <2>2 DEF SetSt
  <2>5. success \in CmdStates
    BY DEF success, CmdStates
  <2>6. /\ CmdOK(cmd') /\ cmd'.st = success /\ cmd'.specs = cmd.specs /\ cmd'.extents = E /\ cmd'.sparse = cmd.sparse
        /\ cmd'.bound = cmd.bound /\ cmd'.skip = i /\ cmd'.left = cmd.left /\ cmd'.max = cmd.max
    BY <1>1, <2>4, <2>5, SetsSt
  <2>7. Kept
    BY <1>2, <2>6 DEF Kept
  <2>8. OutOK'
    BY <1>1, <1>11, <2>4, <2>6, <2>7 DEF OutOK
  <2>9. PhaseOK'
    <3>1. cmd'.st = "success"
      BY <2>6 DEF success
    <3> QED
      BY <1>2, <1>6, <2>3, <2>4, <2>6, <3>1 DEF PhaseOK, Busy, m
  <2> QED
    BY <1>11, <2>6, <2>7, <2>8, <2>9 DEF ReadInv
\* Units are dropped.
<1>13. CASE n # 0 /\ cmd.st = "skipping"
  <2>1. cmd' = SetLeft(cmd, less) /\ out' = out
    BY <1>10, <1>13 DEF SetLeft
  <2>2. n <= cmd.left
    BY <1>3, <1>5, <1>6, <1>13
  <2>3. less = cmd.left - n
    BY <1>3, <1>5, <2>2 DEF less
  <2>4. less \in Nat /\ p + less = i
    <3> DEFINE l == cmd.left
    <3>1. l \in Nat /\ n \in Nat /\ p \in Nat /\ i \in Nat /\ n <= l /\ p + l = i + n /\ less = l - n
      BY <1>3, <1>4, <1>5, <1>6, <1>13, <2>2, <2>3
    <3> HIDE DEF l, p, i
    <3> QED
      BY <3>1
  <2>5. /\ CmdOK(cmd') /\ cmd'.st = cmd.st /\ cmd'.specs = cmd.specs /\ cmd'.extents = E /\ cmd'.sparse = cmd.sparse
        /\ cmd'.bound = cmd.bound /\ cmd'.skip = i /\ cmd'.left = less /\ cmd'.max = cmd.max
    BY <1>1, <2>1, <2>4, SetsLeft
  <2>6. Kept
    BY <1>2, <2>5 DEF Kept
  <2>7. OutOK'
    BY <1>1, <1>11, <2>1, <2>5, <2>6 DEF OutOK
  <2>8. PhaseOK'
    <3>1. cmd'.st = "skipping" /\ rd'.position = p /\ Len(buf'.got) = 0 /\ 0 <= less /\ p + less = i + 0
      BY <1>2, <1>3, <1>8, <1>9, <1>13, <2>4, <2>5
    <3>2. Opened' /\ Total(cmd.extents)' = T
      BY <1>11, <2>6
    <3> QED
      BY <1>2, <1>6, <1>9, <1>13, <2>1, <2>5, <3>1, <3>2 DEF PhaseOK, Busy, none
  <2> QED
    BY <1>11, <2>5, <2>6, <2>7, <2>8 DEF ReadInv
\* Units are written.
<1>14. CASE n # 0 /\ cmd.st = "reading" /\ out' = more /\ cmd' = cmd
  <2>1. Kept
    BY <1>2, <1>14 DEF Kept
  <2>2. p - n = i + m /\ i + m \in Nat /\ m + n <= cmd.max
    <3>1. p = i + m + n /\ m + buf.want <= cmd.max
      BY <1>6, <1>14
    <3> DEFINE w == buf.want
               x == cmd.max
    <3>2. /\ p \in Nat /\ i \in Nat /\ m \in Nat /\ n \in Nat /\ w \in Nat /\ x \in Nat /\ n <= w
          /\ p = i + m + n /\ m + w <= x
      BY <1>3, <1>4, <1>5, <3>1
    <3> HIDE DEF p, i, w, x
    <3>3. p - n = i + m /\ i + m \in Nat /\ m + n <= x
      BY <3>2
    <3> QED
      BY <3>3 DEF x
  <2>3. Holds(i, out)
    BY <1>1 DEF OutOK, Holds
  <2>4. Holds(i + Len(out), buf.got)
    <3>1. \A k \in 1 .. n : Reading((p - n) + k - 1) = {buf.got[k]}
      BY <1>1 DEF BufOK, n
    <3> HIDE DEF p, i
    <3>2. \A k \in 1 .. n : Reading((i + m) + k - 1) = {buf.got[k]}
      BY <2>2, <3>1
    <3> QED
      BY <3>2 DEF Holds, m, n
  <2>5. more \in Seq(Nat) /\ Len(more) = m + n /\ Holds(i, more)
    BY <1>3, <1>5, <2>3, <2>4, HoldsJoin DEF more, m, n
  <2>6. OutOK'
    <3>2. out' = more /\ cmd' = cmd /\ Len(more) <= cmd.max
      BY <1>14, <2>2, <2>5
    <3>3. \A k \in 1 .. Len(more) : Reading(i + k - 1) = {more[k]}
      BY <2>5 DEF Holds
    <3>4. \A u : Reading(u)' = Reading(u)
      BY <1>11, <2>1
    <3> QED
      BY <2>5, <3>2, <3>3, <3>4 DEF OutOK
  <2>7. PhaseOK'
    <3>1. Len(out') = m + n /\ p = i + (m + n) + 0 /\ m + n + 0 <= cmd.max
      <4>1. Len(out') = m + n
        BY <1>14, <2>5
      <4>2. /\ p \in Nat /\ i \in Nat /\ m \in Nat /\ n \in Nat /\ p = i + m + n
            /\ m + n <= cmd.max /\ cmd.max \in Nat
        BY <1>3, <1>4, <1>5, <1>6, <1>14, <2>2
      <4> HIDE DEF p, i
      <4> QED
        BY <4>1, <4>2
    <3>2. rd'.position = p /\ buf'.want = 0 /\ Len(buf'.got) = 0
      BY <1>2, <1>8, <1>9
    <3>3. Opened' /\ Total(cmd.extents)' = T
      BY <1>11, <2>1
    <3> QED
      BY <1>2, <1>6, <1>14, <3>1, <3>2, <3>3 DEF PhaseOK, Busy
  <2> QED
    BY <1>11, <1>14, <2>1, <2>6, <2>7, <1>1 DEF ReadInv
\* Nobody takes them.
<1>15. ASSUME NEW st \in {"pipe_closed", "write_failed"}, cmd' = [cmd EXCEPT !.st = st], out' = out
       PROVE  ReadInv'
  <2>1. cmd' = SetSt(cmd, st) /\ st \in CmdStates
    BY <1>15 DEF SetSt, CmdStates
  <2>2. /\ CmdOK(cmd') /\ cmd'.st = st /\ cmd'.specs = cmd.specs /\ cmd'.extents = E /\ cmd'.sparse = cmd.sparse
        /\ cmd'.bound = cmd.bound /\ cmd'.skip = i /\ cmd'.left = cmd.left /\ cmd'.max = cmd.max
    BY <1>1, <2>1, SetsSt
  <2>3. Kept
    BY <1>2, <2>2 DEF Kept
  <2>4. OutOK'
    BY <1>1, <1>11, <1>15, <2>2, <2>3 DEF OutOK
  <2>5. PhaseOK'
    BY <1>2, <1>6, <2>2 DEF PhaseOK, Busy
  <2> QED
    BY <1>11, <2>2, <2>3, <2>4, <2>5 DEF ReadInv
<1> QED
  BY <1>7, <1>10, <1>12, <1>13, <1>14, <1>15

LEMMA ReadInvNext ==
  ASSUME ReadInv, [Next]_vars
  PROVE  ReadInv'
<1>1. CASE (Encode \/ StopEncoder) /\ UNCHANGED cmdVars
  BY <1>1, ReadInvEncode
<1>2. CASE \E sparse \in BOOLEAN, specs \in SpecLists, extents \in ExtentLists, skip \in Skips, size \in Sizes :
             Start(sparse, specs, extents, skip, size) /\ UNCHANGED <<raw, file, enc>>
  BY <1>2, ReadInvStart
<1>3. CASE NextBuffer /\ UNCHANGED <<raw, file, enc>>
  BY <1>3, ReadInvNextBuffer
<1>4. CASE PassExtent /\ UNCHANGED <<raw, file, enc>>
  BY <1>4, ReadInvPass
<1>5. CASE TakeExtent /\ UNCHANGED <<raw, file, enc>>
  BY <1>5, ReadInvTake
<1>6. CASE ReturnBuffer /\ UNCHANGED <<raw, file, enc>>
  BY <1>6, ReadInvReturn
<1>7. CASE UNCHANGED vars
  <2>1. /\ raw' = raw /\ file' = file /\ enc' = enc /\ cmd' = cmd /\ rd' = rd /\ buf' = buf /\ out' = out
    BY <1>7 DEF vars
  <2>2. Kept
    BY <2>1 DEF Kept
  <2>3. EncInv' /\ (\A u : Reading(u)' = Reading(u)) /\ (Opened => Opened') /\ (Excuse => Excuse')
    BY <2>2, KeptKeeps DEF ReadInv
  <2>4. CmdOK(cmd') /\ RdOK(cmd'.extents, rd')
    BY <2>1 DEF ReadInv
  <2>5. BufOK'
    BY <2>1, <2>3 DEF ReadInv, BufOK
  <2>6. OutOK'
    BY <2>1, <2>3 DEF ReadInv, OutOK
  <2>7. PhaseOK'
    BY <2>1, <2>3 DEF ReadInv, PhaseOK, Busy
  <2> QED
    BY <2>3, <2>4, <2>5, <2>6, <2>7 DEF ReadInv
<1> QED
  BY <1>1, <1>2, <1>3, <1>4, <1>5, <1>6, <1>7 DEF Next, Read

LEMMA ReadInvFaithful ==
  ASSUME ReadInv
  PROVE  ReadIsFaithful
<1>1. /\ CmdOK(cmd) /\ OutOK /\ PhaseOK
  BY DEF ReadInv
<1>2. ASSUME NEW u \in DOMAIN out PROVE UnitAt(cmd.skip + u - 1) = {out[u]}
  <2>1. u \in 1 .. Len(out)
    BY <1>1, LenProperties DEF OutOK
  <2>2. Reading(cmd.skip + u - 1) = {out[u]}
    BY <1>1, <2>1 DEF OutOK
  <2> QED
    BY <2>2, UnitAtIs DEF Reading
<1>3. Len(out) <= cmd.max /\ (cmd.st = "success" => Len(out) = cmd.max)
  BY <1>1 DEF OutOK, PhaseOK
<1>4. ASSUME Excuse
      PROVE  \/ cmd.sparse /\ ParseSparse(file) = {}
             \/ WrongOption(cmd.specs)
             \/ \E u \in 0 .. Total(cmd.extents) - 1 : UnitAt(u) = {}
  <2>1. CASE \E u \in 0 .. Total(cmd.extents) - 1 : Reading(u) = {}
    BY <2>1, UnitAtIs DEF Reading
  <2> QED
    BY <1>4, <2>1 DEF Excuse
<1>5. cmd.st = "failed" => Excuse
  BY <1>1 DEF PhaseOK
<1> QED
  BY <1>2, <1>3, <1>4, <1>5 DEF ReadIsFaithful, WrongOption

LEMMA ReadInvTypeOK ==
  ASSUME ReadInv
  PROVE  TypeOK
<1>1. /\ EncInv /\ CmdOK(cmd) /\ RdOK(cmd.extents, rd) /\ BufOK
  BY DEF ReadInv
<1>2. cmd.st \in {"off", "skipping", "reading", "success", "failed", "pipe_closed", "write_failed"}
  BY <1>1 DEF CmdOK, CmdStates
<1>3. rd.extent \in 1 .. Len(cmd.extents) + 1
  BY <1>1 DEF RdOK
<1>4. rd.position \in 0 .. Total(cmd.extents)
  BY <1>1, RdBounds DEF CmdOK
<1>5. Len(buf.got) <= buf.want
  BY <1>1 DEF BufOK
<1>6. enc.st \in {"encoding", "patching", "encoded", "foreign", "stopped"}
  BY <1>1 DEF EncInv, EncType
<1> QED
  BY <1>2, <1>3, <1>4, <1>5, <1>6 DEF TypeOK

----------------------------------------------------------------------------
\* The theorems.

\* In every state of the reads, the encoder has written so much of the raw
\* image as it says, the reader's position is that of its extent and offset,
\* and the buffer and the output are the units of the partition before it.
THEOREM SpecReadInv == Spec => []ReadInv
<1>1. Init => ReadInv
  BY ReadInvInit
<1>2. ReadInv /\ [Next]_vars => ReadInv'
  BY ReadInvNext
<1> QED
  BY <1>1, <1>2, PTL DEF Spec

\* The command, the reader and the buffer keep their form: the reader never
\* runs past the end of the partition nor the buffer over what was asked for.
THEOREM SpecTypeOK == Spec => []TypeOK
<1>1. ReadInv => TypeOK
  BY ReadInvTypeOK
<1> QED
  BY <1>1, SpecReadInv, PTL

\* Whatever image the encoder is given and wherever it stops, its file opens
\* only when it is whole, and then every part of it reads as the image.
THEOREM SpecOpensIffWhole == Spec => []OpensIffWhole
<1>1. ReadInv => OpensIffWhole
  BY EncInvOpens DEF ReadInv
<1> QED
  BY <1>1, SpecReadInv, PTL

\* What `read` writes is the part of the partition that was asked for, from
\* its start on and all of it on success, for all extents, options, skips,
\* sizes and buffers; and it fails only when it has a reason.
THEOREM SpecReadIsFaithful == Spec => []ReadIsFaithful
<1>1. ReadInv => ReadIsFaithful
  BY ReadInvFaithful
<1> QED
  BY <1>1, SpecReadInv, PTL
=============================================================================
