----------------------------- MODULE MakeProofs -----------------------------
(***************************************************************************)
(* What `make` plans, and what its runs leave in the files, for all        *)
(* devices, groups, layouts and requests.  Each partition's runs are what  *)
(* the allocator grants beside the extents laid so far (LpAllocProofs);    *)
(* PlanInv says what the plan is after k of them.  The program of a plan   *)
(* is taken apart into writes at different places; MakeInv says how far    *)
(* the files are by the part of the program that is left, and that the     *)
(* tables which are in the primary output are of runs whose payload is in  *)
(* place.                                                                  *)
(***************************************************************************)
EXTENDS Make, LpAllocProofs, SequenceTheorems

----------------------------------------------------------------------------
\* The device table.

PartRec == [group : DOMAIN GroupMax, pin : SUBSET Indices, len : Nat, short : BOOLEAN]

LEMMA RequestFacts ==
  ASSUME NEW req \in Requests
  PROVE  /\ req.parts \in Seq(PartRec) /\ Len(req.parts) \in Nat
         /\ \A i \in 1 .. Len(req.parts) :
              req.parts[i] \in PartRec /\ Cardinality(req.parts[i].pin) <= 1
<1> DEFINE ps == req.parts
<1>1. ps \in Seq(PartRec) /\ \A i \in DOMAIN ps : Cardinality(ps[i].pin) <= 1
  BY RequestsAssumption, Zenon DEF PartRec, Indices
<1> HIDE DEF ps
<1>2. Len(ps) \in Nat /\ DOMAIN ps = 1 .. Len(ps) /\ \A i \in 1 .. Len(ps) : ps[i] \in PartRec
  BY <1>1
<1> QED
  BY <1>1, <1>2 DEF ps

\* The metadata ends where the reserved area does, or before.
LEMMA ReserveHolds ==
  /\ ReserveBytes \in Nat /\ ReserveSectors \in Nat
  /\ BackupAt(SlotCount - 1) + CopySectors <= ReserveSectors
<1> DEFINE align == IF Alignment > SECTOR THEN Alignment ELSE SECTOR
           last == MetadataBase + 2 * SlotCount * CopySectors
           e == last * SECTOR
           n == e + align - 1
           q == n \div align
<1>1. align \in Nat \ {0}
  BY LayoutAssumption DEF SECTOR
<1>2. last \in Nat /\ last = BackupAt(SlotCount - 1) + CopySectors
  <2>1. Page \in Nat /\ SlotCount \in Nat /\ CopySectors \in Nat
    BY LayoutAssumption
  <2>2. 2 * SlotCount * CopySectors \in Nat
    BY <2>1
  <2>3. (SlotCount + (SlotCount - 1)) * CopySectors + CopySectors = 2 * SlotCount * CopySectors
    BY <2>1
  <2> QED
    BY <2>1, <2>2, <2>3 DEF BackupAt, MetadataBase
<1>3. ReserveSectors = (q * align) \div SECTOR /\ ReserveBytes = q * align
  BY DEF ReserveSectors, ReserveBytes
<1> HIDE DEF align, last
<1>4. e \in Nat /\ n \in Nat
  BY <1>1, <1>2 DEF SECTOR
<1>5. q \in Nat /\ (n % align) \in 0 .. align - 1 /\ n = q * align + (n % align)
  <2> HIDE DEF n, q
  <2>1. n \div align \in Nat /\ n % align \in 0 .. align - 1 /\ n = (n \div align) * align + (n % align)
    <3>1. n \div align \in Nat /\ n % align \in Nat /\ n % align < align
          /\ n = align * (n \div align) + (n % align)
      BY <1>1, <1>4, DivMod
    <3> QED
      BY <1>1, <3>1
  <2> QED
    BY <2>1 DEF q
<1> HIDE DEF q
<1>6. q * align \in Nat
  BY <1>1, <1>5
<1>7. e <= q * align
  <2> DEFINE m == q * align
             r == n % align
  <2>1. m \in Nat /\ r \in 0 .. align - 1 /\ e + align - 1 = m + r
    BY <1>5, <1>6
  <2> HIDE DEF m, r, e
  <2>2. e <= m
    BY <1>1, <1>4, <2>1
  <2> QED
    BY <2>2 DEF m
<1> DEFINE m == q * align
<1>8. m \in Nat /\ last * SECTOR <= m
  BY <1>6, <1>7
<1> HIDE DEF m, n
<1>9. m \div SECTOR \in Nat /\ last <= m \div SECTOR
  BY <1>2, <1>8 DEF SECTOR
<1> QED
  BY <1>2, <1>3, <1>6, <1>9 DEF m

\* Every device has room for the metadata and at least a sector.
LEMMA DevsFacts ==
  /\ Devs \in Seq(DevRec) /\ DeviceIndices(Devs) = Indices
  /\ SpecsFit => WholeTable(Devs)
  /\ \A d \in Indices : BackupAt(SlotCount - 1) + CopySectors <= Device(Devs, d).first
<1>1. /\ Len(Specs) \in Nat /\ DOMAIN Specs = 1 .. Len(Specs)
      /\ \A i \in 1 .. Len(Specs) : Specs[i] \in [size : Nat, alignment : Nat, offset : Nat]
  <2> DEFINE S == [size : Nat, alignment : Nat, offset : Nat]
  <2>1. Specs \in Seq(S)
    BY SpecsAssumption
  <2> HIDE DEF S
  <2>2. Len(Specs) \in Nat /\ DOMAIN Specs = 1 .. Len(Specs) /\ \A i \in 1 .. Len(Specs) : Specs[i] \in S
    BY <2>1
  <2> QED
    BY <2>2 DEF S
<1>2. ASSUME NEW i \in 1 .. Len(Specs)
      PROVE  Devs[i] \in DevRec /\ ReserveSectors <= Devs[i].first /\ Devs[i].size = Specs[i].size
  <2> DEFINE spec == Specs[i]
             dev == [first |-> ReserveSectors, size |-> spec.size, alignment |-> spec.alignment,
                     offset |-> spec.offset]
  <2>1. spec \in [size : Nat, alignment : Nat, offset : Nat]
    BY <1>1
  <2>2. dev \in DevRec /\ dev.alignment = spec.alignment /\ dev.offset = spec.offset
    BY <2>1, ReserveHolds DEF DevRec
  <2>3. Devs[i] = [first |-> AlignUp(ReserveSectors, spec.alignment, spec.offset), size |-> spec.size,
                   alignment |-> spec.alignment, offset |-> spec.offset]
    BY <1>1 DEF Devs
  <2> HIDE DEF dev, spec
  <2>4. Aligned(dev, ReserveSectors) \in Nat /\ ReserveSectors <= Aligned(dev, ReserveSectors)
    BY <2>2, ReserveHolds, AlignedFacts
  <2>5. Aligned(dev, ReserveSectors) = AlignUp(ReserveSectors, spec.alignment, spec.offset)
    BY <2>2 DEF Aligned
  <2> QED
    BY <2>1, <2>3, <2>4, <2>5 DEF DevRec, spec
<1>3. Devs \in Seq(DevRec) /\ Len(Devs) = Len(Specs)
  <2>1. Devs = [i \in 1 .. Len(Specs) |-> Devs[i]]
    BY <1>1 DEF Devs
  <2> HIDE DEF Devs
  <2> QED
    BY <1>1, <1>2, <2>1, SeqDef
<1>4. DeviceIndices(Devs) = Indices
  BY <1>3 DEF DeviceIndices, Indices
<1>5. ASSUME SpecsFit, NEW i \in 1 .. Len(Specs) PROVE Limit(Devs[i]) > 0
  <2> DEFINE size == Specs[i].size
  <2>1. size \in Nat /\ size >= ReserveBytes + SECTOR
    BY <1>1, <1>5 DEF SpecsFit
  <2>2. Devs[i].size = size
    BY <1>2
  <2> HIDE DEF size
  <2>3. size \div SECTOR > 0
    BY <2>1, ReserveHolds DEF SECTOR
  <2> QED
    BY <2>2, <2>3 DEF Limit
<1>6. ASSUME NEW d \in Indices
      PROVE  BackupAt(SlotCount - 1) + CopySectors <= Device(Devs, d).first
  <2>1. d + 1 \in 1 .. Len(Specs) /\ Device(Devs, d) = Devs[d + 1]
    BY <1>1 DEF Indices, Device
  <2>2. Devs[d + 1] \in DevRec /\ ReserveSectors <= Devs[d + 1].first
    BY <1>2, <2>1
  <2> DEFINE end == BackupAt(SlotCount - 1) + CopySectors
             first == Devs[d + 1].first
  <2>3. first \in Nat /\ end \in Int /\ end <= ReserveSectors /\ ReserveSectors <= first
    <3>1. end \in Int
      BY LayoutAssumption DEF BackupAt, MetadataBase
    <3> QED
      BY <2>2, <3>1, ReserveHolds DEF DevRec
  <2> HIDE DEF end, first
  <2>4. end <= first
    BY <2>3, ReserveHolds
  <2> QED
    BY <2>1, <2>4 DEF end, first
<1>7. DOMAIN Devs = 1 .. Len(Specs)
  BY <1>1 DEF Devs
<1> QED
  BY <1>3, <1>4, <1>5, <1>6, <1>7 DEF WholeTable

----------------------------------------------------------------------------
\* The runs of a partition, and the slices of its payload.

LEMMA RunsComplete ==
  ASSUME SpecsFit, NEW exts \in Seq(ExtRec), NEW part \in PartRec, part.len > 0
  PROVE  LET runs == Runs(exts, part)
         IN \/ runs = NoPlan
            \/ /\ Complete(exts, Devs, runs, part.len)
               /\ part.pin # {} => \A k \in DOMAIN runs : runs[k].source \in part.pin
<1> DEFINE runs == Runs(exts, part)
           len == part.len
           pin == part.pin
<1>1. len \in Nat \ {0} /\ pin \in SUBSET Indices
  BY DEF PartRec
<1>2. WholeTable(Devs) /\ Devs \in Seq(DevRec) /\ DeviceIndices(Devs) = Indices
  BY DevsFacts
<1>3. CASE pin = {}
  <2>1. runs = PlanSpanning(exts, Devs, len)
    BY <1>3 DEF Runs
  <2> HIDE DEF runs, len, pin
  <2>2. runs = NoPlan \/ Complete(exts, Devs, runs, len)
    BY <1>1, <1>2, <2>1, PlanIsComplete
  <2> QED
    BY <1>3, <2>2 DEF runs, len, pin
<1>4. CASE pin # {}
  <2> DEFINE d == CHOOSE c \in pin : TRUE
             at == FindFree(exts, Devs, d, len)
             r == [source |-> d, at |-> at, num |-> len]
  <2>1. d \in pin /\ d \in DeviceIndices(Devs)
    BY <1>1, <1>2, <1>4
  <2>2. runs = IF at = NoFit THEN NoPlan ELSE <<r>>
    BY <1>4 DEF Runs
  <2> HIDE DEF runs, len, pin, d
  <2>3. at # NoFit => Legal(Device(Devs, d), at) /\ IsRangeFree(exts, Devs, d, at, len)
    BY <1>1, <1>2, <2>1, FindFreeFacts
  <2> HIDE DEF at
  <2>4. CASE at # NoFit
    <3>1. d \in Nat
      BY <1>2, <2>1, DeviceFacts
    <3>2. r \in RunRec /\ r.source = d /\ r.num = len /\ r.at = at
      BY <1>1, <2>3, <2>4, <3>1 DEF RunRec, Legal
    <3> HIDE DEF r
    <3>3. Complete(exts, Devs, <<r>>, len)
      BY <2>1, <2>3, <2>4, <3>2, OneRunIsComplete
    <3>4. runs = <<r>> /\ \A k \in DOMAIN <<r>> : <<r>>[k] = r
      BY <2>2, <2>4
    <3> QED
      BY <2>1, <3>2, <3>3, <3>4 DEF runs, len, pin
  <2> QED
    BY <2>2, <2>4 DEF runs
<1> QED
  BY <1>3, <1>4

\* How many sectors the first runs hold.
Sums(runs, b) ==
  b = [k \in 0 .. Len(runs) |-> IF k = 0 THEN 0 ELSE b[k - 1] + runs[k].num]

SegRec == [part : Nat, from : Nat, run : RunRec]

LEMMA SegmentsIs ==
  ASSUME NEW runs \in Seq(RunRec), NEW i \in Nat
  PROVE  \E b : /\ Sums(runs, b) /\ b \in [0 .. Len(runs) -> Nat]
                /\ Segments(i, runs) =
                     [k \in DOMAIN runs |-> [part |-> i, from |-> b[k - 1], run |-> runs[k]]]
<1> DEFINE n == Len(runs)
           step == [p \in Nat \X (1 .. n) |-> p[1] + runs[p[2]].num]
<1>0. n \in Nat /\ \A k \in 1 .. n : runs[k] \in RunRec
  OBVIOUS
<1>1. step \in [Nat \X (1 .. n) -> Nat]
  <2>1. \A k \in 1 .. n : runs[k].num \in Nat
    BY <1>0 DEF RunRec
  <2> QED
    BY <2>1
<1>2. PICK g : Iterates(n, Nat, 0, step, g)
  <2> HIDE DEF step, n
  <2> QED
    BY <1>0, <1>1, IteratesExist
<1>3. \A a \in Nat : \A k \in 1 .. n : step[<<a, k>>] = a + runs[k].num
  OBVIOUS
<1> HIDE DEF step
<1>4. g \in [0 .. n -> Nat] /\ g[0] = 0
  BY <1>2 DEF Iterates
<1>5. ASSUME NEW k \in 0 .. n, k # 0 PROVE g[k] = g[k - 1] + runs[k].num
  <2>1. k \in 1 .. n /\ k - 1 \in 0 .. n
    BY <1>0, <1>5
  <2> QED
    BY <1>2, <1>3, <1>4, <2>1 DEF Iterates
<1>6. Sums(runs, g)
  BY <1>4, <1>5 DEF Sums
<1> DEFINE p == CHOOSE h : Sums(runs, h)
<1>7. Sums(runs, p)
  BY <1>6
<1>8. Segments(i, runs) = [k \in DOMAIN runs |-> [part |-> i, from |-> p[k - 1], run |-> runs[k]]]
  BY DEF Segments, Sums
<1> HIDE DEF p
<1>9. \A k \in 0 .. n : p[k] = g[k]
  <2> DEFINE T == {k \in Nat : k <= n => p[k] = g[k]}
  <2>1. 0 \in T
    BY <1>0, <1>6, <1>7 DEF Sums
  <2>2. ASSUME NEW k \in Nat, k \in T PROVE k + 1 \in T
    <3> SUFFICES ASSUME k + 1 <= n PROVE p[k + 1] = g[k + 1]
      OBVIOUS
    <3>1. k + 1 \in 0 .. n /\ k + 1 # 0 /\ (k + 1) - 1 = k /\ p[k] = g[k]
      BY <1>0, <2>2
    <3>2. p[k + 1] = p[k] + runs[k + 1].num /\ g[k + 1] = g[k] + runs[k + 1].num
      BY <1>6, <1>7, <3>1 DEF Sums
    <3> QED
      BY <3>1, <3>2
  <2>3. \A k \in Nat : k \in T
    <3> HIDE DEF T
    <3> QED
      BY <2>1, <2>2, CountUp
  <2> QED
    BY <2>3
<1>10. p \in [0 .. n -> Nat]
  <2>1. p = [k \in 0 .. n |-> p[k]]
    BY <1>7 DEF Sums
  <2> QED
    BY <1>4, <1>9, <2>1
<1> QED
  BY <1>7, <1>8, <1>10

\* The sectors of the first runs, and the slices of the payload they take.
FirstCells(runs, k) == UNION {Blocks(runs[i]) : i \in 1 .. k}
SliceOf(runs, b, i) == {b[i - 1] + m : m \in 1 .. runs[i].num}
FirstSlices(runs, b, k) == UNION {SliceOf(runs, b, i) : i \in 1 .. k}

LEMMA SumsCount ==
  ASSUME NEW runs \in Seq(RunRec), NEW b \in [0 .. Len(runs) -> Nat], Sums(runs, b),
         \A i, j \in DOMAIN runs : i # j => Blocks(runs[i]) \cap Blocks(runs[j]) = {}
  PROVE  Cardinality(PlanCells(runs)) = b[Len(runs)]
<1> DEFINE n == Len(runs)
           T == {k \in Nat : k <= n => /\ IsFiniteSet(FirstCells(runs, k))
                                       /\ Cardinality(FirstCells(runs, k)) = b[k]}
<1>0. n \in Nat /\ DOMAIN runs = 1 .. n /\ \A k \in 1 .. n : runs[k] \in RunRec
  OBVIOUS
<1>1. 0 \in T
  <2>1. FirstCells(runs, 0) = {}
    BY DEF FirstCells
  <2>2. IsFiniteSet({}) /\ Cardinality({}) = 0
    BY FS_EmptySet
  <2>3. IsFiniteSet(FirstCells(runs, 0)) /\ Cardinality(FirstCells(runs, 0)) = 0
    BY <2>1, <2>2, Zenon
  <2>4. b[0] = 0
    BY <1>0 DEF Sums
  <2> QED
    BY <2>3, <2>4
<1>2. ASSUME NEW k \in Nat, k \in T PROVE k + 1 \in T
  <2> SUFFICES ASSUME k + 1 <= n
               PROVE  /\ IsFiniteSet(FirstCells(runs, k + 1))
                      /\ Cardinality(FirstCells(runs, k + 1)) = b[k + 1]
    OBVIOUS
  <2> DEFINE F == FirstCells(runs, k)
             r == runs[k + 1]
             B == Blocks(r)
  <2>1. IsFiniteSet(F) /\ Cardinality(F) = b[k]
    BY <1>2
  <2>2. k + 1 \in 1 .. n /\ k + 1 \in 0 .. n /\ k + 1 # 0 /\ (k + 1) - 1 = k /\ k \in 0 .. n
    BY <1>0
  <2>3. r \in RunRec
    BY <1>0, <2>2
  <2>4. b[k + 1] = b[k] + r.num /\ b[k] \in Nat /\ b[k + 1] \in Nat
    BY <2>2 DEF Sums
  <2>5. FirstCells(runs, k + 1) = F \cup B
    <3>1. \A i : i \in 1 .. k + 1 <=> i \in 1 .. k \/ i = k + 1
      OBVIOUS
    <3> QED
      BY <3>1 DEF FirstCells
  <2>6. F \cap B = {}
    <3>1. \A i \in 1 .. k : i \in DOMAIN runs /\ k + 1 \in DOMAIN runs /\ i # k + 1
      BY <1>0, <2>2
    <3> QED
      BY <3>1 DEF FirstCells
  <2> HIDE DEF r
  <2>7. IsFiniteSet(B) /\ Cardinality(B) = r.num
    BY <2>3, BlocksCount
  <2> HIDE DEF F, B
  <2>8. /\ IsFiniteSet(F \cup B)
        /\ Cardinality(F \cup B) = Cardinality(F) + Cardinality(B) - Cardinality(F \cap B)
    BY <2>1, <2>7, FS_Union
  <2>9. Cardinality(F \cap B) = 0
    <3>1. Cardinality({}) = 0
      BY FS_EmptySet
    <3> QED
      BY <2>6, <3>1, Zenon
  <2>10. r.num \in Nat
    BY <2>3 DEF RunRec
  <2>11. Cardinality(F \cup B) = b[k + 1]
    BY <2>1, <2>4, <2>7, <2>8, <2>9, <2>10
  <2> QED
    BY <2>5, <2>8, <2>11
<1>3. n \in T
  <2> HIDE DEF T
  <2> QED
    BY <1>0, <1>1, <1>2, CountUp
<1>4. PlanCells(runs) = FirstCells(runs, n)
  BY <1>0 DEF PlanCells, FirstCells
<1> QED
  BY <1>0, <1>3, <1>4

LEMMA SlicesTile ==
  ASSUME NEW runs \in Seq(RunRec), NEW b \in [0 .. Len(runs) -> Nat], Sums(runs, b)
  PROVE  FirstSlices(runs, b, Len(runs)) = 1 .. b[Len(runs)]
<1> DEFINE n == Len(runs)
           T == {k \in Nat : k <= n => FirstSlices(runs, b, k) = 1 .. b[k]}
<1>0. n \in Nat /\ DOMAIN runs = 1 .. n /\ \A k \in 1 .. n : runs[k] \in RunRec
  OBVIOUS
<1>1. 0 \in T
  <2>1. FirstSlices(runs, b, 0) = {}
    BY DEF FirstSlices
  <2>2. b[0] = 0
    BY <1>0 DEF Sums
  <2>3. FirstSlices(runs, b, 0) = 1 .. b[0]
    BY <2>1, <2>2
  <2> QED
    BY <2>3
<1>2. ASSUME NEW k \in Nat, k \in T PROVE k + 1 \in T
  <2> SUFFICES ASSUME k + 1 <= n PROVE FirstSlices(runs, b, k + 1) = 1 .. b[k + 1]
    OBVIOUS
  <2> DEFINE num == runs[k + 1].num
             new == {b[k] + m : m \in 1 .. num}
  <2>1. FirstSlices(runs, b, k) = 1 .. b[k]
    BY <1>2
  <2>2. k + 1 \in 1 .. n /\ k + 1 \in 0 .. n /\ k + 1 # 0 /\ (k + 1) - 1 = k /\ k \in 0 .. n
    BY <1>0
  <2>3. num \in Nat
    BY <1>0, <2>2 DEF RunRec
  <2>4. b[k + 1] = b[k] + num /\ b[k] \in Nat
    BY <2>2 DEF Sums
  <2>5. FirstSlices(runs, b, k + 1) = FirstSlices(runs, b, k) \cup new
    <3>1. \A i : i \in 1 .. k + 1 <=> i \in 1 .. k \/ i = k + 1
      OBVIOUS
    <3>2. FirstSlices(runs, b, k + 1) = FirstSlices(runs, b, k) \cup SliceOf(runs, b, k + 1)
      BY <3>1 DEF FirstSlices
    <3>3. SliceOf(runs, b, k + 1) = new
      BY <2>2, Zenon DEF SliceOf
    <3> QED
      BY <3>2, <3>3
  <2> DEFINE c == b[k]
  <2>6. c \in Nat
    BY <2>4
  <2> HIDE DEF num, c
  <2>7. (1 .. c) \cup {c + m : m \in 1 .. num} = 1 .. c + num
    <3>1. ASSUME NEW x \in 1 .. c + num PROVE x \in 1 .. c \/ \E m \in 1 .. num : x = c + m
      <4>1. CASE x <= c
        BY <2>3, <2>6, <4>1
      <4>2. CASE x > c
        <5>1. x - c \in 1 .. num /\ x = c + (x - c)
          BY <2>3, <2>6, <4>2
        <5> QED
          BY <5>1
      <4> QED
        BY <2>3, <2>6, <4>1, <4>2
    <3>2. ASSUME NEW m \in 1 .. num PROVE c + m \in 1 .. c + num
      BY <2>3, <2>6
    <3>3. 1 .. c \subseteq 1 .. c + num
      BY <2>3, <2>6
    <3> QED
      BY <3>1, <3>2, <3>3
  <2> QED
    BY <2>1, <2>4, <2>5, <2>7 DEF c
<1>3. n \in T
  <2> HIDE DEF T
  <2> QED
    BY <1>0, <1>1, <1>2, CountUp
<1> QED
  BY <1>0, <1>3

----------------------------------------------------------------------------
\* What the segments of a plan say of a partition: the slices of its payload, and
\* the sectors they go to.
Slice(seg) == {seg.from + m : m \in 1 .. seg.run.num}
OfPart(segs, i) == {j \in DOMAIN segs : segs[j].part = i}
SlicesOf(segs, i) == UNION {Slice(segs[j]) : j \in OfPart(segs, i)}
PlacesOf(segs, i) == UNION {Blocks(segs[j].run) : j \in OfPart(segs, i)}

LEMMA PlannedSets ==
  ASSUME NEW plan, plan.segments \in Seq(SegRec), NEW i
  PROVE  /\ {w[3] : w \in PlannedAt(plan, i)} = SlicesOf(plan.segments, i)
         /\ {<<w[1], w[2]>> : w \in PlannedAt(plan, i)} = PlacesOf(plan.segments, i)
<1> DEFINE segs == plan.segments
           cells(seg) == {<<seg.run.source, seg.run.at + k - 1, seg.from + k>> : k \in 1 .. seg.run.num}
<1>1. PlannedAt(plan, i) = UNION {cells(segs[j]) : j \in OfPart(segs, i)}
  BY SMTT(30) DEF PlannedAt, OfPart
<1>2. ASSUME NEW seg \in SegRec
      PROVE  /\ {w[3] : w \in cells(seg)} = Slice(seg)
             /\ {<<w[1], w[2]>> : w \in cells(seg)} = Blocks(seg.run)
  <2>1. seg.run.num \in Nat /\ seg.run.at \in Nat
    BY DEF SegRec, RunRec
  <2>2. {w[3] : w \in cells(seg)} = Slice(seg)
    <3>1. \A w \in cells(seg) : \E k \in 1 .. seg.run.num : w[3] = seg.from + k
      OBVIOUS
    <3>2. ASSUME NEW k \in 1 .. seg.run.num PROVE \E w \in cells(seg) : w[3] = seg.from + k
      <4> DEFINE w == <<seg.run.source, seg.run.at + k - 1, seg.from + k>>
      <4>1. w \in cells(seg) /\ w[3] = seg.from + k
        OBVIOUS
      <4> QED
        BY <4>1
    <3> HIDE DEF cells
    <3> QED
      BY <3>1, <3>2 DEF Slice
  <2> DEFINE at == seg.run.at
             num == seg.run.num
             src == seg.run.source
  <2>3. {<<w[1], w[2]>> : w \in cells(seg)} = {<<src, at + k - 1>> : k \in 1 .. num}
    <3>1. \A w \in cells(seg) : \E k \in 1 .. num : <<w[1], w[2]>> = <<src, at + k - 1>>
      OBVIOUS
    <3>2. ASSUME NEW k \in 1 .. num
          PROVE  \E w \in cells(seg) : <<w[1], w[2]>> = <<src, at + k - 1>>
      <4> DEFINE w == <<src, at + k - 1, seg.from + k>>
      <4>1. w \in cells(seg) /\ w[1] = src /\ w[2] = at + k - 1
        OBVIOUS
      <4> HIDE DEF w
      <4> QED
        BY <4>1
    <3> HIDE DEF cells, src, at, num
    <3> QED
      BY <3>1, <3>2
  <2>4. Blocks(seg.run) = {<<src, t>> : t \in at .. at + num - 1}
    BY DEF Blocks
  <2>5. at \in Nat /\ num \in Nat
    BY <2>1
  <2> HIDE DEF at, num, src
  <2>6. ASSUME NEW k \in 1 .. num PROVE at + k - 1 \in at .. at + num - 1
    BY <2>5
  <2>7. ASSUME NEW t \in at .. at + num - 1 PROVE \E k \in 1 .. num : t = at + k - 1
    <3>1. t - at + 1 \in 1 .. num /\ t = at + (t - at + 1) - 1
      BY <2>5
    <3> QED
      BY <3>1
  <2>8. {<<src, at + k - 1>> : k \in 1 .. num} = {<<src, t>> : t \in at .. at + num - 1}
    BY <2>6, <2>7
  <2> QED
    BY <2>2, <2>3, <2>4, <2>8
<1>3. \A j \in OfPart(segs, i) : segs[j] \in SegRec
  BY DEF OfPart
<1> HIDE DEF cells
<1> DEFINE J == OfPart(segs, i)
           P == PlannedAt(plan, i)
<1>4. {w[3] : w \in P} = UNION {{w[3] : w \in cells(segs[j])} : j \in J}
  BY <1>1
<1>5. {<<w[1], w[2]>> : w \in P} = UNION {{<<w[1], w[2]>> : w \in cells(segs[j])} : j \in J}
  BY <1>1
<1> QED
  BY <1>2, <1>3, <1>4, <1>5 DEF SlicesOf, PlacesOf

LEMMA SegmentsFacts ==
  ASSUME NEW runs \in Seq(RunRec), NEW i \in Nat,
         \A j, k \in DOMAIN runs : j # k => Blocks(runs[j]) \cap Blocks(runs[k]) = {}
  PROVE  LET new == Segments(i, runs)
         IN /\ new \in Seq(SegRec) /\ Len(new) = Len(runs)
            /\ \A k \in 1 .. Len(runs) : new[k].part = i /\ new[k].run = runs[k]
            /\ SlicesOf(new, i) = 1 .. Cardinality(PlanCells(runs))
            /\ PlacesOf(new, i) = PlanCells(runs)
<1> DEFINE n == Len(runs)
           new == Segments(i, runs)
<1>1. PICK b : /\ Sums(runs, b) /\ b \in [0 .. n -> Nat]
               /\ new = [k \in DOMAIN runs |-> [part |-> i, from |-> b[k - 1], run |-> runs[k]]]
  BY SegmentsIs
<1>0. n \in Nat /\ DOMAIN runs = 1 .. n /\ \A k \in 1 .. n : runs[k] \in RunRec
  OBVIOUS
<1> HIDE DEF new
<1>2. ASSUME NEW k \in 1 .. n
      PROVE  /\ new[k] \in SegRec /\ new[k].part = i /\ new[k].run = runs[k]
             /\ Slice(new[k]) = SliceOf(runs, b, k)
  <2>1. new[k] = [part |-> i, from |-> b[k - 1], run |-> runs[k]]
    BY <1>0, <1>1
  <2>2. k - 1 \in 0 .. n
    BY <1>0
  <2>3. b[k - 1] \in Nat /\ runs[k] \in RunRec
    BY <1>0, <1>1, <2>2
  <2>4. new[k].part = i /\ new[k].from = b[k - 1] /\ new[k].run = runs[k]
    BY <2>1
  <2>5. new[k] \in SegRec
    BY <2>1, <2>3 DEF SegRec
  <2>6. Slice(new[k]) = SliceOf(runs, b, k)
    BY <2>4 DEF Slice, SliceOf
  <2> QED
    BY <2>4, <2>5, <2>6
<1>3. new = [k \in 1 .. n |-> new[k]]
  BY <1>0, <1>1
<1>4. new \in Seq(SegRec) /\ Len(new) = n /\ DOMAIN new = 1 .. n
  BY <1>0, <1>2, <1>3, SeqDef
<1>5. OfPart(new, i) = 1 .. n
  BY <1>2, <1>4 DEF OfPart
<1>6. SlicesOf(new, i) = FirstSlices(runs, b, n)
  BY <1>2, <1>5 DEF SlicesOf, FirstSlices
<1>7. PlacesOf(new, i) = PlanCells(runs)
  BY <1>0, <1>2, <1>5 DEF PlacesOf, PlanCells
<1>8. FirstSlices(runs, b, n) = 1 .. b[n] /\ Cardinality(PlanCells(runs)) = b[n]
  BY <1>1, SlicesTile, SumsCount
<1> QED
  BY <1>2, <1>4, <1>6, <1>7, <1>8 DEF new

LEMMA JoinParts ==
  ASSUME NEW segs \in Seq(SegRec), NEW new \in Seq(SegRec), NEW k,
         \A j \in DOMAIN segs : segs[j].part # k,
         \A j \in DOMAIN new : new[j].part = k
  PROVE  /\ \A i : i # k => /\ SlicesOf(segs \o new, i) = SlicesOf(segs, i)
                            /\ PlacesOf(segs \o new, i) = PlacesOf(segs, i)
         /\ SlicesOf(segs \o new, k) = SlicesOf(new, k)
         /\ PlacesOf(segs \o new, k) = PlacesOf(new, k)
<1> DEFINE m == Len(segs)
           n == Len(new)
           s == segs \o new
<1>1. /\ s \in Seq(SegRec) /\ Len(s) = m + n
      /\ \A i \in 1 .. m + n : s[i] = IF i <= m THEN segs[i] ELSE new[i - m]
  BY ConcatProperties
<1>2. m \in Nat /\ n \in Nat /\ DOMAIN segs = 1 .. m /\ DOMAIN new = 1 .. n /\ DOMAIN s = 1 .. m + n
  BY <1>1
<1> HIDE DEF m, n, s
<1>3. \A j \in 1 .. m : j \in DOMAIN s /\ s[j] = segs[j]
  BY <1>1, <1>2
<1>4. \A j \in 1 .. n : m + j \in DOMAIN s /\ s[m + j] = new[j]
  <2> SUFFICES ASSUME NEW j \in 1 .. n PROVE m + j \in DOMAIN s /\ s[m + j] = new[j]
    OBVIOUS
  <2>1. m + j \in 1 .. m + n /\ ~(m + j <= m) /\ (m + j) - m = j
    BY <1>2
  <2> QED
    BY <1>1, <1>2, <2>1
<1>5. \A j \in DOMAIN s : j \in 1 .. m \/ \E i \in 1 .. n : j = m + i
  <2> SUFFICES ASSUME NEW j \in 1 .. m + n, j \notin 1 .. m PROVE \E i \in 1 .. n : j = m + i
    BY <1>2
  <2>1. j - m \in 1 .. n /\ j = m + (j - m)
    BY <1>2
  <2> QED
    BY <2>1
<1>6. ASSUME NEW i, i # k PROVE SlicesOf(s, i) = SlicesOf(segs, i) /\ PlacesOf(s, i) = PlacesOf(segs, i)
  <2>1. OfPart(s, i) = OfPart(segs, i)
    <3>1. ASSUME NEW j \in DOMAIN s, s[j].part = i PROVE j \in DOMAIN segs /\ segs[j].part = i
      <4>1. ASSUME NEW l \in 1 .. n, j = m + l PROVE FALSE
        <5>1. s[j] = new[l] /\ new[l].part = k
          BY <1>2, <1>4, <4>1
        <5> QED
          BY <1>6, <3>1, <5>1
      <4> QED
        BY <1>2, <1>3, <1>5, <3>1, <4>1
    <3>2. ASSUME NEW j \in DOMAIN segs, segs[j].part = i PROVE j \in DOMAIN s /\ s[j].part = i
      BY <1>2, <1>3, <3>2
    <3> QED
      BY <3>1, <3>2 DEF OfPart
  <2>2. \A j \in OfPart(segs, i) : s[j] = segs[j]
    BY <1>2, <1>3 DEF OfPart
  <2> QED
    BY <2>1, <2>2 DEF SlicesOf, PlacesOf
<1>7. OfPart(s, k) = {m + j : j \in 1 .. n} /\ OfPart(new, k) = 1 .. n
  <2>1. OfPart(new, k) = 1 .. n
    BY <1>2 DEF OfPart
  <2>2. ASSUME NEW j \in DOMAIN s, s[j].part = k PROVE j \in {m + l : l \in 1 .. n}
    <3>1. j \notin 1 .. m
      BY <1>2, <1>3, <2>2
    <3> QED
      BY <1>5, <3>1
  <2>3. ASSUME NEW l \in 1 .. n PROVE m + l \in DOMAIN s /\ s[m + l].part = k
    <3>1. new[l].part = k
      BY <1>2
    <3> QED
      BY <1>4, <3>1
  <2>4. OfPart(s, k) = {m + j : j \in 1 .. n}
    BY <2>2, <2>3 DEF OfPart
  <2> QED
    BY <2>1, <2>4
<1>8. SlicesOf(s, k) = SlicesOf(new, k) /\ PlacesOf(s, k) = PlacesOf(new, k)
  BY <1>4, <1>7 DEF SlicesOf, PlacesOf
<1> QED
  BY <1>6, <1>8 DEF s

----------------------------------------------------------------------------
\* The plan after k partitions.
PlanRec(req) ==
  [ok : BOOLEAN, extents : Seq(ExtRec), used : [DOMAIN GroupMax -> Nat], segments : Seq(SegRec),
   req : {req}]

\* The extents are the runs of the segments.
Mirrors(exts, segs) ==
  Len(exts) = Len(segs) /\ \A j \in 1 .. Len(segs) : exts[j] = RunExtent(segs[j].run)

\* The runs are where the device table allows them, for partitions up to the
\* k-th, and apart from each other.
RunsAllowed(req, k, segs) ==
  /\ \A j \in DOMAIN segs :
       /\ segs[j].part \in 1 .. k
       /\ Placed(<<>>, Devs, segs[j].run)
       /\ req.parts[segs[j].part].pin # {} => segs[j].run.source \in req.parts[segs[j].part].pin
  /\ \A j, l \in DOMAIN segs : j # l => Blocks(segs[j].run) \cap Blocks(segs[l].run) = {}

\* They hold exactly the payload.
HoldsPayload(req, k, segs) ==
  \A i \in 1 .. k :
    /\ SlicesOf(segs, i) = 1 .. req.parts[i].len
    /\ Cardinality(PlacesOf(segs, i)) = req.parts[i].len

GroupsAllowed(req, used) ==
  \A g \in DOMAIN GroupMax : GroupMax[g] > 0 /\ ~req.force => used[g] <= GroupMax[g]

PlanInv(req, k, acc) ==
  /\ acc \in PlanRec(req)
  /\ acc.ok => /\ SpecsFit
               /\ Mirrors(acc.extents, acc.segments)
               /\ RunsAllowed(req, k, acc.segments)
               /\ HoldsPayload(req, k, acc.segments)
               /\ GroupsAllowed(req, acc.used)

LEMMA NewPlanHolds ==
  ASSUME NEW req \in Requests
  PROVE  PlanInv(req, 0, NewPlan(req))
<1> DEFINE acc == NewPlan(req)
<1>1. /\ acc.ok = SpecsFit /\ acc.extents = <<>> /\ acc.segments = <<>>
      /\ acc.used = [g \in DOMAIN GroupMax |-> 0]
  BY DEF NewPlan
<1>2. acc \in PlanRec(req)
  <2>1. SpecsFit \in BOOLEAN
    BY DEF SpecsFit
  <2>2. <<>> \in Seq(ExtRec) /\ <<>> \in Seq(SegRec)
    OBVIOUS
  <2>3. [g \in DOMAIN GroupMax |-> 0] \in [DOMAIN GroupMax -> Nat]
    OBVIOUS
  <2> QED
    BY <2>1, <2>2, <2>3 DEF NewPlan, PlanRec
<1> HIDE DEF acc
<1>3. Mirrors(acc.extents, acc.segments) /\ RunsAllowed(req, 0, acc.segments)
  BY <1>1 DEF Mirrors, RunsAllowed
<1>4. HoldsPayload(req, 0, acc.segments)
  BY DEF HoldsPayload
<1>5. GroupsAllowed(req, acc.used)
  BY <1>1, LayoutAssumption DEF GroupsAllowed
<1>6. acc.ok => SpecsFit
  BY <1>1, Zenon
<1> QED
  BY <1>2, <1>3, <1>4, <1>5, <1>6 DEF PlanInv, acc

\* The runs of one more partition.
ExtentsOf(runs) == [k \in DOMAIN runs |-> RunExtent(runs[k])]
Charged(used, part) == [used EXCEPT ![part.group] = @ + part.len]

LEMMA AllotIs ==
  ASSUME NEW req \in Requests, NEW acc \in PlanRec(req), NEW i \in Nat, NEW part \in PartRec,
         NEW runs \in Seq(RunRec), runs # NoPlan,
         \A j, k \in DOMAIN runs : j # k => Blocks(runs[j]) \cap Blocks(runs[k]) = {}
  PROVE  LET new == Allot(acc, i, part, runs)
         IN /\ new \in PlanRec(req) /\ new.ok = acc.ok
            /\ new.extents = acc.extents \o ExtentsOf(runs)
            /\ new.segments = acc.segments \o Segments(i, runs)
            /\ new.used = Charged(acc.used, part)
            /\ ExtentsOf(runs) \in Seq(ExtRec)
<1> DEFINE exts == ExtentsOf(runs)
           segs == Segments(i, runs)
           new == Allot(acc, i, part, runs)
<1>1. segs \in Seq(SegRec)
  BY SegmentsFacts
<1>2. exts \in Seq(ExtRec)
  <2>1. Len(runs) \in Nat /\ DOMAIN runs = 1 .. Len(runs) /\ \A k \in 1 .. Len(runs) : runs[k] \in RunRec
    OBVIOUS
  <2>2. \A k \in 1 .. Len(runs) : RunExtent(runs[k]) \in ExtRec
    BY <2>1 DEF RunExtent, RunRec, ExtRec
  <2>3. exts = [k \in 1 .. Len(runs) |-> RunExtent(runs[k])]
    BY <2>1 DEF ExtentsOf
  <2> HIDE DEF exts
  <2> QED
    BY <2>1, <2>2, <2>3, SeqDef
<1>3. new = [acc EXCEPT !.extents = @ \o exts, !.used[part.group] = @ + part.len,
                        !.segments = @ \o segs]
  BY DEF Allot, ExtentsOf
<1> DEFINE used == [acc.used EXCEPT ![part.group] = @ + part.len]
<1>4. used \in [DOMAIN GroupMax -> Nat]
  BY DEF PlanRec, PartRec
<1> HIDE DEF exts, segs, new
<1>5. /\ new.ok = acc.ok /\ new.extents = acc.extents \o exts /\ new.segments = acc.segments \o segs
      /\ new.used = used
  BY <1>3 DEF PlanRec
<1>6. acc.extents \o exts \in Seq(ExtRec) /\ acc.segments \o segs \in Seq(SegRec)
  <2>1. acc.extents \in Seq(ExtRec) /\ acc.segments \in Seq(SegRec)
    BY DEF PlanRec
  <2> QED
    BY <1>1, <1>2, <2>1, ConcatProperties
<1> HIDE DEF used
<1>7. new \in PlanRec(req)
  <2> DEFINE E == Seq(ExtRec)
             S == Seq(SegRec)
             U == [DOMAIN GroupMax -> Nat]
             e == acc.extents \o exts
             s == acc.segments \o segs
  <2>1. new = [acc EXCEPT !.extents = e, !.used = used, !.segments = s]
    BY <1>3 DEF used
  <2>2. acc \in [ok : BOOLEAN, extents : E, used : U, segments : S, req : {req}]
    BY DEF PlanRec
  <2>3. e \in E /\ s \in S /\ used \in U
    BY <1>4, <1>6
  <2> HIDE DEF E, S, U, e, s
  <2>4. new \in [ok : BOOLEAN, extents : E, used : U, segments : S, req : {req}]
    BY <2>1, <2>2, <2>3
  <2> QED
    BY <2>4 DEF E, S, U, PlanRec
<1> QED
  BY <1>2, <1>5, <1>7 DEF exts, segs, new, used, Charged

\* The segments with those of one more partition.
LEMMA JoinSegments ==
  ASSUME NEW segs \in Seq(SegRec), NEW runs \in Seq(RunRec), NEW k \in Nat,
         \A j, l \in DOMAIN runs : j # l => Blocks(runs[j]) \cap Blocks(runs[l]) = {}
  PROVE  LET all == segs \o Segments(k, runs)
             m == Len(segs)
         IN /\ DOMAIN all = 1 .. m + Len(runs) /\ DOMAIN segs = 1 .. m /\ DOMAIN runs = 1 .. Len(runs)
            /\ m \in Nat /\ Len(runs) \in Nat /\ Len(all) = m + Len(runs)
            /\ \A j \in 1 .. m : all[j] = segs[j]
            /\ \A j \in 1 .. m + Len(runs) : j \notin 1 .. m =>
                 j - m \in 1 .. Len(runs) /\ all[j].part = k /\ all[j].run = runs[j - m]
<1> DEFINE new == Segments(k, runs)
           all == segs \o new
           m == Len(segs)
           n == Len(runs)
<1>1. /\ new \in Seq(SegRec) /\ Len(new) = n
      /\ \A j \in 1 .. n : new[j].part = k /\ new[j].run = runs[j]
  BY SegmentsFacts
<1> HIDE DEF new
<1>2. /\ all \in Seq(SegRec) /\ Len(all) = m + n
      /\ \A j \in 1 .. m + n : all[j] = IF j <= m THEN segs[j] ELSE new[j - m]
  <2>1. /\ all \in Seq(SegRec) /\ Len(all) = m + Len(new)
        /\ \A j \in 1 .. m + Len(new) : all[j] = IF j <= m THEN segs[j] ELSE new[j - m]
    BY <1>1, ConcatProperties
  <2> HIDE DEF all, n
  <2> QED
    BY <1>1, <2>1
<1>3. m \in Nat /\ n \in Nat /\ DOMAIN segs = 1 .. m /\ DOMAIN all = 1 .. m + n /\ DOMAIN runs = 1 .. n
  BY <1>2
<1> HIDE DEF all, m, n
<1>4. \A j \in 1 .. m : all[j] = segs[j]
  BY <1>2, <1>3
<1>5. ASSUME NEW j \in 1 .. m + n, j \notin 1 .. m
      PROVE  j - m \in 1 .. n /\ all[j].part = k /\ all[j].run = runs[j - m]
  <2>1. j - m \in 1 .. n /\ ~(j <= m)
    BY <1>3, <1>5
  <2> QED
    BY <1>1, <1>2, <2>1
<1> QED
  BY <1>2, <1>3, <1>4, <1>5 DEF all, m, n, new

\* A run that was free beside the extents of a plan lies apart from its runs.
LEMMA ApartFromPlan ==
  ASSUME NEW exts \in Seq(ExtRec), NEW segs \in Seq(SegRec), Mirrors(exts, segs),
         NEW r \in RunRec, Placed(exts, Devs, r), NEW j \in DOMAIN segs
  PROVE  Blocks(segs[j].run) \cap Blocks(r) = {}
<1> DEFINE q == segs[j].run
<1>1. j \in 1 .. Len(segs) /\ j \in DOMAIN exts /\ exts[j] = RunExtent(segs[j].run)
  BY DEF Mirrors
<1>2. q \in RunRec
  <2>1. segs[j] \in SegRec
    BY <1>1
  <2> QED
    BY <2>1 DEF SegRec
<1>3. OnDevice(exts[j], r.source) => ~Meets(exts[j], r.at, r.num)
  BY <1>1 DEF Placed, IsRangeFree
<1>4. exts[j] = RunExtent(q)
  BY <1>1
<1> HIDE DEF q
<1>5. /\ OnDevice(RunExtent(q), q.source)
      /\ Meets(RunExtent(q), r.at, r.num) <=> r.at < q.at + q.num /\ q.at < r.at + r.num
  BY <1>2, MeetsRun
<1>6. q.source = r.source => ~(r.at < q.at + q.num /\ q.at < r.at + r.num)
  BY <1>3, <1>4, <1>5
<1>7. Blocks(q) \cap Blocks(r) = {}
  BY <1>2, <1>6, ApartRuns
<1> QED
  BY <1>7 DEF q

LEMMA AllotMirrors ==
  ASSUME NEW exts \in Seq(ExtRec), NEW segs \in Seq(SegRec), Mirrors(exts, segs),
         NEW runs \in Seq(RunRec), NEW k \in Nat,
         \A j, l \in DOMAIN runs : j # l => Blocks(runs[j]) \cap Blocks(runs[l]) = {},
         ExtentsOf(runs) \in Seq(ExtRec)
  PROVE  Mirrors(exts \o ExtentsOf(runs), segs \o Segments(k, runs))
<1> DEFINE more == ExtentsOf(runs)
           all == segs \o Segments(k, runs)
           both == exts \o more
           m == Len(segs)
           n == Len(runs)
<1>1. /\ DOMAIN all = 1 .. m + n /\ Len(all) = m + n /\ m \in Nat /\ n \in Nat
      /\ DOMAIN segs = 1 .. m /\ DOMAIN runs = 1 .. n
      /\ \A j \in 1 .. m : all[j] = segs[j]
      /\ \A j \in 1 .. m + n : j \notin 1 .. m =>
           j - m \in 1 .. n /\ all[j].part = k /\ all[j].run = runs[j - m]
  BY ZenonT(60), JoinSegments
<1>2. more \in Seq(ExtRec) /\ Len(more) = n /\ \A j \in 1 .. n : more[j] = RunExtent(runs[j])
  BY <1>1 DEF ExtentsOf
<1>3. Len(exts) = m /\ \A j \in 1 .. m : exts[j] = RunExtent(segs[j].run)
  BY DEF Mirrors
<1> HIDE DEF more, all, m, n
<1>4. /\ Len(both) = m + n
      /\ \A j \in 1 .. m + n : both[j] = IF j <= m THEN exts[j] ELSE more[j - m]
  BY ZenonT(60), <1>2, <1>3, ConcatProperties
<1> HIDE DEF both
<1>5. ASSUME NEW j \in 1 .. m + n PROVE both[j] = RunExtent(all[j].run)
  <2>1. CASE j \in 1 .. m
    BY <1>1, <1>3, <1>4, <2>1
  <2>2. CASE j \notin 1 .. m
    <3>1. j - m \in 1 .. n /\ all[j].run = runs[j - m] /\ ~(j <= m)
      BY <1>1, <2>2
    <3>2. both[j] = more[j - m] /\ more[j - m] = RunExtent(runs[j - m])
      BY <1>2, <1>4, <3>1
    <3> QED
      BY <3>1, <3>2
  <2> QED
    BY <2>1, <2>2
<1>6. Mirrors(both, all)
  BY <1>1, <1>4, <1>5 DEF Mirrors
<1> QED
  BY <1>6 DEF both, all, more

LEMMA AllotAllowed ==
  ASSUME NEW req \in Requests, NEW k \in 1 .. Len(req.parts),
         NEW exts \in Seq(ExtRec), NEW segs \in Seq(SegRec), Mirrors(exts, segs),
         RunsAllowed(req, k - 1, segs),
         NEW runs, Complete(exts, Devs, runs, req.parts[k].len),
         req.parts[k].pin # {} => \A j \in DOMAIN runs : runs[j].source \in req.parts[k].pin
  PROVE  RunsAllowed(req, k, segs \o Segments(k, runs))
<1> DEFINE all == segs \o Segments(k, runs)
           m == Len(segs)
           n == Len(runs)
<1>1. /\ runs \in Seq(RunRec) /\ \A j \in DOMAIN runs : Placed(exts, Devs, runs[j])
      /\ \A j, l \in DOMAIN runs : j # l => Blocks(runs[j]) \cap Blocks(runs[l]) = {}
  BY DEF Complete
<1>2. k \in Nat /\ k - 1 \in Nat /\ k \in 1 .. k /\ 1 .. k - 1 \subseteq 1 .. k
  <2>1. Len(req.parts) \in Nat
    BY RequestFacts
  <2> QED
    BY <2>1
<1>3. /\ DOMAIN all = 1 .. m + n /\ m \in Nat /\ n \in Nat
      /\ DOMAIN segs = 1 .. m /\ DOMAIN runs = 1 .. n
      /\ \A j \in 1 .. m : all[j] = segs[j]
      /\ \A j \in 1 .. m + n : j \notin 1 .. m =>
           j - m \in 1 .. n /\ all[j].part = k /\ all[j].run = runs[j - m]
  <2>1. runs \in Seq(RunRec) /\ k \in Nat
    BY <1>1, <1>2
  <2>2. \A j, l \in DOMAIN runs : j # l => Blocks(runs[j]) \cap Blocks(runs[l]) = {}
    BY <1>1
  <2> HIDE DEF all, m, n
  <2> QED
    BY ZenonT(60), <2>1, <2>2, JoinSegments DEF all, m, n
<1>4. \A j \in 1 .. n : runs[j] \in RunRec
  BY <1>1
<1> HIDE DEF all, m, n
<1>5. ASSUME NEW j \in DOMAIN all
      PROVE  /\ all[j].part \in 1 .. k
             /\ Placed(<<>>, Devs, all[j].run)
             /\ req.parts[all[j].part].pin # {} => all[j].run.source \in req.parts[all[j].part].pin
  <2>1. CASE j \in 1 .. m
    BY <1>2, <1>3, <2>1 DEF RunsAllowed
  <2>2. CASE j \notin 1 .. m
    <3>1. j - m \in DOMAIN runs /\ all[j].part = k /\ all[j].run = runs[j - m]
      BY <1>3, <2>2
    <3>2. Placed(exts, Devs, runs[j - m])
      BY <1>1, <3>1
    <3>3. Placed(<<>>, Devs, runs[j - m])
      BY <3>2 DEF Placed, IsRangeFree
    <3> QED
      BY <1>2, <3>1, <3>3
  <2> QED
    BY <2>1, <2>2
<1>6. ASSUME NEW j \in 1 .. m, NEW l \in DOMAIN all, l \notin 1 .. m
      PROVE  Blocks(all[j].run) \cap Blocks(all[l].run) = {}
  <2> DEFINE r == runs[l - m]
  <2>1. l - m \in 1 .. n /\ l - m \in DOMAIN runs /\ all[l].run = r /\ all[j] = segs[j] /\ j \in DOMAIN segs
    BY <1>3, <1>6
  <2>2. r \in RunRec /\ Placed(exts, Devs, r)
    BY <1>1, <1>4, <2>1
  <2> HIDE DEF r
  <2>3. Blocks(segs[j].run) \cap Blocks(r) = {}
    BY <2>1, <2>2, ApartFromPlan
  <2> QED
    BY <2>1, <2>3
<1>7. ASSUME NEW j \in DOMAIN all, NEW l \in DOMAIN all, j # l
      PROVE  Blocks(all[j].run) \cap Blocks(all[l].run) = {}
  <2>1. CASE j \in 1 .. m /\ l \in 1 .. m
    BY <1>3, <1>7, <2>1 DEF RunsAllowed
  <2>2. CASE j \in 1 .. m /\ l \notin 1 .. m
    BY <1>6, <2>2
  <2>3. CASE j \notin 1 .. m /\ l \in 1 .. m
    <3>1. Blocks(all[l].run) \cap Blocks(all[j].run) = {}
      BY <1>6, <2>3
    <3> QED
      BY <3>1
  <2>4. CASE j \notin 1 .. m /\ l \notin 1 .. m
    <3>1. j - m \in DOMAIN runs /\ l - m \in DOMAIN runs /\ j - m # l - m
      BY <1>3, <1>7, <2>4
    <3>2. all[j].run = runs[j - m] /\ all[l].run = runs[l - m]
      BY <1>3, <2>4
    <3> QED
      BY <1>1, <3>1, <3>2
  <2> QED
    BY <2>1, <2>2, <2>3, <2>4
<1>8. RunsAllowed(req, k, all)
  BY <1>5, <1>7 DEF RunsAllowed
<1> QED
  BY <1>8 DEF all

LEMMA AllotHolds ==
  ASSUME NEW req \in Requests, NEW k \in 1 .. Len(req.parts),
         NEW exts, NEW segs \in Seq(SegRec),
         RunsAllowed(req, k - 1, segs), HoldsPayload(req, k - 1, segs),
         NEW runs, Complete(exts, Devs, runs, req.parts[k].len)
  PROVE  HoldsPayload(req, k, segs \o Segments(k, runs))
<1> DEFINE new == Segments(k, runs)
           all == segs \o new
           len == req.parts[k].len
<1>1. /\ runs \in Seq(RunRec) /\ Cardinality(PlanCells(runs)) = len
      /\ \A j, l \in DOMAIN runs : j # l => Blocks(runs[j]) \cap Blocks(runs[l]) = {}
  BY DEF Complete
<1>2. k \in Nat /\ \A i \in 1 .. k : i = k \/ (i \in 1 .. k - 1 /\ i # k)
  <2>1. Len(req.parts) \in Nat
    BY RequestFacts
  <2> QED
    BY <2>1
<1>3. /\ new \in Seq(SegRec) /\ Len(new) = Len(runs)
      /\ \A j \in 1 .. Len(runs) : new[j].part = k /\ new[j].run = runs[j]
      /\ SlicesOf(new, k) = 1 .. Cardinality(PlanCells(runs))
      /\ PlacesOf(new, k) = PlanCells(runs)
  <2> HIDE DEF len, new
  <2> QED
    BY <1>1, <1>2, SegmentsFacts DEF new
<1> HIDE DEF new
<1>4. \A j \in DOMAIN segs : segs[j].part # k
  <2> SUFFICES ASSUME NEW j \in DOMAIN segs PROVE segs[j].part # k
    OBVIOUS
  <2>1. segs[j].part \in 1 .. k - 1
    BY DEF RunsAllowed
  <2> QED
    BY <1>2, <2>1
<1>5. \A j \in DOMAIN new : new[j].part = k
  <2>1. DOMAIN new = 1 .. Len(new)
    BY <1>3
  <2> QED
    BY <1>3, <2>1
<1>6. /\ \A i : i # k => SlicesOf(all, i) = SlicesOf(segs, i) /\ PlacesOf(all, i) = PlacesOf(segs, i)
      /\ SlicesOf(all, k) = SlicesOf(new, k) /\ PlacesOf(all, k) = PlacesOf(new, k)
  BY <1>3, <1>4, <1>5, JoinParts
<1> HIDE DEF all
<1>7. ASSUME NEW i \in 1 .. k
      PROVE  SlicesOf(all, i) = 1 .. req.parts[i].len /\ Cardinality(PlacesOf(all, i)) = req.parts[i].len
  <2>1. CASE i = k
    <3>1. SlicesOf(all, k) = 1 .. len /\ PlacesOf(all, k) = PlanCells(runs)
      BY <1>1, <1>3, <1>6
    <3>2. Cardinality(PlacesOf(all, k)) = len
      BY <1>1, <3>1, Zenon
    <3> QED
      BY <2>1, <3>1, <3>2
  <2>2. CASE i \in 1 .. k - 1 /\ i # k
    <3>1. SlicesOf(segs, i) = 1 .. req.parts[i].len /\ Cardinality(PlacesOf(segs, i)) = req.parts[i].len
      BY <2>2 DEF HoldsPayload
    <3>2. SlicesOf(all, i) = SlicesOf(segs, i) /\ PlacesOf(all, i) = PlacesOf(segs, i)
      BY <1>6, <2>2
    <3> QED
      BY <3>1, <3>2, Zenon
  <2> QED
    BY <1>2, <2>1, <2>2
<1>8. HoldsPayload(req, k, all)
  BY <1>7 DEF HoldsPayload
<1> QED
  BY <1>8 DEF all, new

LEMMA AllotKeeps ==
  ASSUME NEW req \in Requests, NEW k \in 1 .. Len(req.parts), NEW acc, PlanInv(req, k - 1, acc),
         acc.ok, ~OverLimit(acc, req.parts[k], req.force),
         NEW runs, Complete(acc.extents, Devs, runs, req.parts[k].len),
         req.parts[k].pin # {} => \A j \in DOMAIN runs : runs[j].source \in req.parts[k].pin
  PROVE  PlanInv(req, k, Allot(acc, k, req.parts[k], runs))
<1> DEFINE part == req.parts[k]
           new == Allot(acc, k, part, runs)
           more == ExtentsOf(runs)
<1>1. /\ acc \in PlanRec(req) /\ SpecsFit /\ Mirrors(acc.extents, acc.segments)
      /\ RunsAllowed(req, k - 1, acc.segments) /\ HoldsPayload(req, k - 1, acc.segments)
      /\ GroupsAllowed(req, acc.used)
  BY DEF PlanInv
<1>2. /\ acc.extents \in Seq(ExtRec) /\ acc.segments \in Seq(SegRec)
      /\ acc.used \in [DOMAIN GroupMax -> Nat]
  BY <1>1 DEF PlanRec
<1>3. part \in PartRec /\ k \in Nat
  <2>1. Len(req.parts) \in Nat /\ \A i \in 1 .. Len(req.parts) : req.parts[i] \in PartRec
    BY RequestFacts
  <2> QED
    BY <2>1
<1>4. /\ runs \in Seq(RunRec) /\ runs # NoPlan
      /\ \A j, l \in DOMAIN runs : j # l => Blocks(runs[j]) \cap Blocks(runs[l]) = {}
  BY DEF Complete
<1>5. /\ new \in PlanRec(req) /\ new.ok = acc.ok
      /\ new.extents = acc.extents \o more
      /\ new.segments = acc.segments \o Segments(k, runs)
      /\ new.used = Charged(acc.used, part)
      /\ more \in Seq(ExtRec)
  <2>1. acc \in PlanRec(req)
    BY <1>1
  <2> HIDE DEF part, new, more
  <2> QED
    BY <1>3, <1>4, <2>1, AllotIs DEF new, more
<1>6. RunsAllowed(req, k, acc.segments \o Segments(k, runs))
  BY <1>1, <1>2, AllotAllowed
<1>7. HoldsPayload(req, k, acc.segments \o Segments(k, runs))
  BY <1>1, <1>2, AllotHolds
<1>8. Mirrors(acc.extents \o more, acc.segments \o Segments(k, runs))
  BY <1>1, <1>2, <1>3, <1>4, <1>5, AllotMirrors
<1>9. GroupsAllowed(req, new.used)
  <2> SUFFICES ASSUME NEW g \in DOMAIN GroupMax, GroupMax[g] > 0, ~req.force
               PROVE  new.used[g] <= GroupMax[g]
    BY DEF GroupsAllowed
  <2>1. part.group \in DOMAIN GroupMax /\ part.len \in Nat
    BY <1>3 DEF PartRec
  <2>2. acc.used[g] <= GroupMax[g]
    BY <1>1 DEF GroupsAllowed
  <2>3. CASE g = part.group
    <3>1. new.used[g] = acc.used[g] + part.len
      BY <1>2, <1>5, <2>1, <2>3 DEF Charged
    <3>2. ~(acc.used[g] + part.len > GroupMax[g])
      BY <2>3 DEF OverLimit
    <3>3. acc.used[g] \in Nat
      BY <1>2
    <3>4. GroupMax[g] \in Nat
      BY LayoutAssumption
    <3> QED
      BY <2>1, <3>1, <3>2, <3>3, <3>4
  <2>4. CASE g # part.group
    <3>1. new.used[g] = acc.used[g]
      BY <1>2, <1>5, <2>1, <2>4 DEF Charged
    <3> QED
      BY <2>2, <3>1
  <2> QED
    BY <2>3, <2>4
<1> HIDE DEF new, more
<1>10. PlanInv(req, k, new)
  BY <1>1, <1>5, <1>6, <1>7, <1>8, <1>9 DEF PlanInv
<1> QED
  BY <1>10 DEF new, part

\* A refused partition leaves a plan that is not ok, and no plan becomes ok again.
LEMMA PlanPartKeeps ==
  ASSUME NEW req \in Requests, NEW k \in 1 .. Len(req.parts), NEW acc, PlanInv(req, k - 1, acc)
  PROVE  LET new == PlanPart(acc, k, req)
         IN /\ PlanInv(req, k, new)
            /\ new.ok => acc.ok /\ new.used = Charged(acc.used, req.parts[k])
<1> DEFINE part == req.parts[k]
           len == part.len
           runs == Runs(acc.extents, part)
           new == PlanPart(acc, k, req)
           refused == [acc EXCEPT !.ok = FALSE]
<1>1. acc \in PlanRec(req) /\ part \in PartRec /\ len \in Nat
  <2>1. \A i \in 1 .. Len(req.parts) : req.parts[i] \in PartRec
    BY RequestFacts
  <2> QED
    BY <2>1 DEF PlanInv, PartRec
<1>2. /\ acc.extents \in Seq(ExtRec) /\ acc.segments \in Seq(SegRec)
      /\ acc.used \in [DOMAIN GroupMax -> Nat] /\ acc.ok \in BOOLEAN
  BY <1>1 DEF PlanRec
<1>3. new = IF ~acc.ok \/ len = 0 THEN acc
            ELSE IF OverLimit(acc, part, req.force) THEN refused
            ELSE IF runs = NoPlan THEN refused
            ELSE Allot(acc, k, part, runs)
  BY DEF PlanPart, Allot
<1>4. k \in Nat /\ Len(req.parts) \in Nat /\ 1 .. k - 1 \subseteq 1 .. k
      /\ \A i \in 1 .. k : i = k \/ i \in 1 .. k - 1
  <2>1. Len(req.parts) \in Nat
    BY RequestFacts
  <2> QED
    BY <2>1
<1>5. refused \in PlanRec(req) /\ ~refused.ok
  BY <1>1 DEF PlanRec
<1>6. PlanInv(req, k, refused)
  BY <1>5 DEF PlanInv
<1>7. CASE ~acc.ok
  <2>1. new = acc
    BY <1>3, <1>7
  <2> QED
    BY <1>1, <1>7, <2>1 DEF PlanInv
<1>8. CASE acc.ok /\ len = 0
  <2>1. new = acc
    BY <1>3, <1>8
  <2>2. /\ SpecsFit /\ Mirrors(acc.extents, acc.segments)
        /\ RunsAllowed(req, k - 1, acc.segments) /\ HoldsPayload(req, k - 1, acc.segments)
        /\ GroupsAllowed(req, acc.used)
    BY <1>8 DEF PlanInv
  <2>3. RunsAllowed(req, k, acc.segments)
    <3>1. \A j \in DOMAIN acc.segments : acc.segments[j].part \in 1 .. k
      BY <1>4, <2>2 DEF RunsAllowed
    <3> QED
      BY <2>2, <3>1 DEF RunsAllowed
  <2>4. OfPart(acc.segments, k) = {}
    <3> SUFFICES ASSUME NEW j \in DOMAIN acc.segments, acc.segments[j].part = k PROVE FALSE
      BY DEF OfPart
    <3>1. acc.segments[j].part \in 1 .. k - 1
      BY <2>2 DEF RunsAllowed
    <3> QED
      BY <1>4, <3>1
  <2>5. SlicesOf(acc.segments, k) = 1 .. len /\ Cardinality(PlacesOf(acc.segments, k)) = len
    <3>1. SlicesOf(acc.segments, k) = {} /\ PlacesOf(acc.segments, k) = {}
      BY <2>4 DEF SlicesOf, PlacesOf
    <3>2. Cardinality({}) = 0 /\ 1 .. 0 = {}
      BY FS_EmptySet
    <3>3. Cardinality(PlacesOf(acc.segments, k)) = 0
      BY <3>1, <3>2, Zenon
    <3> QED
      BY <1>8, <3>1, <3>2, <3>3
  <2>6. HoldsPayload(req, k, acc.segments)
    <3> SUFFICES ASSUME NEW i \in 1 .. k
                 PROVE  /\ SlicesOf(acc.segments, i) = 1 .. req.parts[i].len
                        /\ Cardinality(PlacesOf(acc.segments, i)) = req.parts[i].len
      BY DEF HoldsPayload
    <3>1. CASE i = k
      BY <2>5, <3>1
    <3>2. CASE i \in 1 .. k - 1
      BY <2>2, <3>2 DEF HoldsPayload
    <3> QED
      BY <1>4, <3>1, <3>2
  <2>7. PlanInv(req, k, acc)
    BY <1>1, <2>2, <2>3, <2>6 DEF PlanInv
  <2>8. Charged(acc.used, part) = acc.used
    <3>1. part.len = 0
      BY <1>8
    <3> HIDE DEF part
    <3>2. acc.used[part.group] + part.len = acc.used[part.group]
      BY <1>1, <1>2, <3>1 DEF PartRec
    <3> QED
      BY <1>2, <3>2 DEF Charged
  <2> HIDE DEF new, part
  <2>9. new.used = Charged(acc.used, part)
    BY <2>1, <2>8
  <2> QED
    BY <1>8, <2>1, <2>7, <2>9 DEF new, part
<1>9. CASE acc.ok /\ len # 0
  <2>1. CASE OverLimit(acc, part, req.force) \/ runs = NoPlan
    <3>1. new = refused
      BY <1>3, <1>9, <2>1
    <3> QED
      BY <1>5, <1>6, <3>1
  <2>2. CASE ~OverLimit(acc, part, req.force) /\ runs # NoPlan
    <3>1. new = Allot(acc, k, part, runs)
      BY <1>3, <1>9, <2>2
    <3>2. SpecsFit /\ len > 0
      BY <1>1, <1>9 DEF PlanInv
    <3>3. /\ Complete(acc.extents, Devs, runs, part.len)
          /\ part.pin # {} => \A j \in DOMAIN runs : runs[j].source \in part.pin
      <4>1. acc.extents \in Seq(ExtRec) /\ part \in PartRec /\ part.len > 0
        BY <1>1, <1>2, <3>2
      <4> HIDE DEF part
      <4> QED
        BY <2>2, <3>2, <4>1, RunsComplete
    <3> HIDE DEF runs
    <3>4. PlanInv(req, k, Allot(acc, k, part, runs))
      BY <1>9, <2>2, <3>3, AllotKeeps
    <3>5. Allot(acc, k, part, runs).used = Charged(acc.used, part)
      <4>1. /\ runs \in Seq(RunRec) /\ runs # NoPlan
            /\ \A j, l \in DOMAIN runs : j # l => Blocks(runs[j]) \cap Blocks(runs[l]) = {}
        BY <3>3 DEF Complete
      <4> HIDE DEF part
      <4> QED
        BY <1>1, <1>4, <4>1, AllotIs
    <3> QED
      BY <1>9, <3>1, <3>4, <3>5
  <2> QED
    BY <2>1, <2>2
<1> QED
  BY <1>2, <1>7, <1>8, <1>9

\* The recursion over the partitions.
PlanScan(req, g) ==
  g = [i \in 0 .. Len(req.parts) |-> IF i = 0 THEN NewPlan(req) ELSE PlanPart(g[i - 1], i, req)]

LEMMA PlanOfIs ==
  ASSUME NEW req \in Requests
  PROVE  \E g : /\ PlanScan(req, g) /\ PlanOf(req) = g[Len(req.parts)]
                /\ \A k \in 0 .. Len(req.parts) : PlanInv(req, k, g[k])
<1> DEFINE n == Len(req.parts)
           S == PlanRec(req)
           x == NewPlan(req)
           next(a, k) == IF PlanInv(req, k - 1, a) THEN PlanPart(a, k, req) ELSE x
           step == [p \in S \X (1 .. n) |-> next(p[1], p[2])]
<1>0. n \in Nat
  BY RequestFacts
<1>1. x \in S /\ PlanInv(req, 0, x)
  BY NewPlanHolds DEF PlanInv
<1>2. ASSUME NEW a \in S, NEW k \in 1 .. n PROVE next(a, k) \in S
  <2>1. CASE PlanInv(req, k - 1, a)
    <3>1. PlanInv(req, k, PlanPart(a, k, req))
      BY <2>1, PlanPartKeeps
    <3> QED
      BY <2>1, <3>1 DEF PlanInv
  <2>2. CASE ~PlanInv(req, k - 1, a)
    BY <1>1, <2>2
  <2> QED
    BY <2>1, <2>2
<1> HIDE DEF S, x, next
<1>3. step \in [S \X (1 .. n) -> S]
  BY <1>2
<1>4. PICK g : Iterates(n, S, x, step, g)
  <2> HIDE DEF step, n
  <2> QED
    BY <1>0, <1>1, <1>3, IteratesExist
<1>5. \A a \in S : \A k \in 1 .. n : step[<<a, k>>] = next(a, k)
  OBVIOUS
<1> HIDE DEF step
<1>6. g \in [0 .. n -> S] /\ g[0] = x
  BY <1>4 DEF Iterates
<1>7. ASSUME NEW k \in 0 .. n, k # 0 PROVE g[k] = next(g[k - 1], k)
  <2>1. k \in 1 .. n /\ k - 1 \in 0 .. n
    BY <1>0, <1>7
  <2> QED
    BY <1>4, <1>5, <1>6, <2>1 DEF Iterates
<1>8. \A k \in Nat : k <= n => PlanInv(req, k, g[k])
  <2> DEFINE T == {k \in Nat : k <= n => PlanInv(req, k, g[k])}
  <2>1. 0 \in T
    BY <1>1, <1>6
  <2>2. ASSUME NEW k \in Nat, k \in T PROVE k + 1 \in T
    <3> SUFFICES ASSUME k + 1 <= n PROVE PlanInv(req, k + 1, g[k + 1])
      OBVIOUS
    <3>1. k + 1 \in 0 .. n /\ k + 1 \in 1 .. n /\ k + 1 # 0 /\ (k + 1) - 1 = k /\ PlanInv(req, k, g[k])
      BY <1>0, <2>2
    <3>2. g[k + 1] = next(g[k], k + 1)
      BY <1>7, <3>1
    <3>3. g[k + 1] = PlanPart(g[k], k + 1, req)
      BY <3>1, <3>2 DEF next
    <3> DEFINE i == k + 1
               a == g[k]
    <3>4. i \in 1 .. Len(req.parts) /\ PlanInv(req, i - 1, a)
      BY <3>1
    <3>5. g[k + 1] = PlanPart(a, i, req)
      BY <3>3
    <3> HIDE DEF i, a
    <3>6. PlanInv(req, i, PlanPart(a, i, req))
      BY <3>4, PlanPartKeeps
    <3> QED
      BY <3>5, <3>6 DEF i
  <2>3. \A k \in Nat : k \in T
    <3> HIDE DEF T
    <3> QED
      BY <2>1, <2>2, CountUp
  <2> QED
    BY <2>3
<1>9. ASSUME NEW k \in 0 .. n, k # 0 PROVE g[k] = PlanPart(g[k - 1], k, req)
  <2>1. k - 1 \in Nat /\ k - 1 <= n
    BY <1>0, <1>9
  <2>2. PlanInv(req, k - 1, g[k - 1])
    BY <1>8, <2>1
  <2> QED
    BY <1>7, <1>9, <2>2 DEF next
<1>10. PlanScan(req, g)
  <2>1. g = [k \in 0 .. n |-> g[k]]
    BY <1>6
  <2> QED
    BY <1>6, <1>9, <2>1 DEF PlanScan, x
<1> DEFINE p == CHOOSE h : PlanScan(req, h)
<1>11. PlanScan(req, p)
  BY <1>10
<1>12. PlanOf(req) = p[n]
  BY DEF PlanOf, PlanScan
<1> HIDE DEF p
<1>13. \A k \in 0 .. n : p[k] = g[k]
  <2> DEFINE T == {k \in Nat : k <= n => p[k] = g[k]}
  <2>1. 0 \in T
    BY <1>0, <1>10, <1>11 DEF PlanScan
  <2>2. ASSUME NEW k \in Nat, k \in T PROVE k + 1 \in T
    <3> SUFFICES ASSUME k + 1 <= n PROVE p[k + 1] = g[k + 1]
      OBVIOUS
    <3>1. k + 1 \in 0 .. n /\ k + 1 # 0 /\ (k + 1) - 1 = k /\ p[k] = g[k]
      BY <1>0, <2>2
    <3>2. p[k + 1] = PlanPart(p[k], k + 1, req) /\ g[k + 1] = PlanPart(g[k], k + 1, req)
      BY <1>10, <1>11, <3>1 DEF PlanScan
    <3> QED
      BY <3>1, <3>2
  <2>3. \A k \in Nat : k \in T
    <3> HIDE DEF T
    <3> QED
      BY <2>1, <2>2, CountUp
  <2> QED
    BY <2>3
<1>14. \A k \in 0 .. n : PlanInv(req, k, g[k])
  BY <1>0, <1>8
<1> QED
  BY <1>0, <1>10, <1>12, <1>13, <1>14

----------------------------------------------------------------------------
\* What a group is charged by the plan is what its payloads have.
ChargeScan(parts, c) ==
  c = [k \in 0 .. Len(parts) |->
         IF k = 0 THEN [g \in DOMAIN GroupMax |-> 0]
         ELSE Charged(c[k - 1], parts[k])]

LEMMA UsedIsCharge ==
  ASSUME NEW req \in Requests, PlanOf(req).ok
  PROVE  ChargeOf(req.parts) = PlanOf(req).used
<1> DEFINE parts == req.parts
           n == Len(parts)
           c == CHOOSE h : ChargeScan(parts, h)
<1>1. PICK g : /\ PlanScan(req, g) /\ PlanOf(req) = g[n]
               /\ \A k \in 0 .. n : PlanInv(req, k, g[k])
  BY PlanOfIs
<1>0. n \in Nat
  BY RequestFacts
<1>2. ASSUME NEW k \in 1 .. n
      PROVE  g[k].ok => g[k - 1].ok /\ g[k].used = Charged(g[k - 1].used, parts[k])
  <2>1. k \in 0 .. n /\ k # 0 /\ k - 1 \in 0 .. n
    BY <1>0
  <2>2. g[k] = PlanPart(g[k - 1], k, req)
    BY <1>1, <2>1 DEF PlanScan
  <2> DEFINE a == g[k - 1]
  <2>3. PlanInv(req, k - 1, a)
    BY <1>1, <2>1
  <2> HIDE DEF a
  <2>4. PlanPart(a, k, req).ok => a.ok /\ PlanPart(a, k, req).used = Charged(a.used, parts[k])
    BY <2>3, PlanPartKeeps
  <2> QED
    BY <2>2, <2>4 DEF a
<1> HIDE DEF parts, n
\* Counting down from the last: every plan on the way is ok.
<1>3. \A k \in 0 .. n : g[k].ok
  <2> DEFINE T == {k \in Nat : k <= n => g[n - k].ok}
  <2>1. 0 \in T
    BY <1>0, <1>1
  <2>2. ASSUME NEW k \in Nat, k \in T PROVE k + 1 \in T
    <3> SUFFICES ASSUME k + 1 <= n PROVE g[n - (k + 1)].ok
      OBVIOUS
    <3> DEFINE i == n - k
    <3>1. i \in 1 .. n /\ i - 1 = n - (k + 1) /\ g[i].ok
      BY <1>0, <2>2
    <3> HIDE DEF i
    <3>2. g[i - 1].ok
      BY <1>2, <3>1
    <3> QED
      BY <3>1, <3>2
  <2>3. \A k \in Nat : k \in T
    <3> HIDE DEF T
    <3> QED
      BY <2>1, <2>2, CountUp
  <2> SUFFICES ASSUME NEW k \in 0 .. n PROVE g[k].ok
    OBVIOUS
  <2>4. n - k \in Nat /\ n - k <= n /\ n - (n - k) = k
    BY <1>0
  <2>5. n - k \in T
    BY <2>3, <2>4
  <2> QED
    BY <2>4, <2>5
<1> DEFINE used == [k \in 0 .. n |-> g[k].used]
<1>4. ChargeScan(parts, used)
  <2>1. used[0] = [g_ \in DOMAIN GroupMax |-> 0]
    <3>1. g[0] = NewPlan(req)
      BY <1>0, <1>1 DEF PlanScan, n, parts
    <3> QED
      BY <1>0, <3>1 DEF NewPlan
  <2>2. ASSUME NEW k \in 0 .. n, k # 0
        PROVE  used[k] = Charged(used[k - 1], parts[k])
    <3>1. k \in 1 .. n /\ k - 1 \in 0 .. n
      BY <1>0, <2>2
    <3>2. g[k].used = Charged(g[k - 1].used, parts[k])
      BY <1>2, <1>3, <3>1
    <3>3. used[k] = g[k].used /\ used[k - 1] = g[k - 1].used
      BY <3>1
    <3> HIDE DEF used
    <3> QED
      BY <3>2, <3>3
  <2>3. used = [k \in 0 .. n |-> used[k]]
    OBVIOUS
  <2> HIDE DEF used
  <2> QED
    BY <2>1, <2>2, <2>3 DEF ChargeScan, n
<1>5. ChargeScan(parts, c)
  BY <1>4
<1>6. ChargeOf(parts) = c[n]
  BY DEF ChargeOf, ChargeScan, Charged, n
<1> HIDE DEF c, used
<1>7. n \in Nat /\ c[n] = used[n]
  <2> DEFINE T == {k \in Nat : k <= n => c[k] = used[k]}
  <2>1. 0 \in T
    BY <1>0, <1>4, <1>5 DEF ChargeScan, n
  <2>2. ASSUME NEW k \in Nat, k \in T PROVE k + 1 \in T
    <3> SUFFICES ASSUME k + 1 <= n PROVE c[k + 1] = used[k + 1]
      OBVIOUS
    <3>1. k + 1 \in 0 .. n /\ k + 1 # 0 /\ (k + 1) - 1 = k /\ c[k] = used[k]
      BY <1>0, <2>2
    <3>2. c[k + 1] = Charged(c[k], parts[k + 1]) /\ used[k + 1] = Charged(used[k], parts[k + 1])
      BY <1>4, <1>5, <3>1 DEF ChargeScan, n
    <3> QED
      BY <3>1, <3>2
  <2>3. n \in T
    <3> HIDE DEF T
    <3> QED
      BY <1>0, <2>1, <2>2, CountUp
  <2> QED
    BY <1>0, <2>3
<1>8. used[n] = PlanOf(req).used
  BY <1>0, <1>1 DEF used
<1> QED
  BY <1>6, <1>7, <1>8 DEF parts

\* A plan that is ok is sound, for every request.
LEMMA SoundPlanOf ==
  ASSUME NEW req \in Requests, PlanOf(req).ok
  PROVE  SoundPlan(PlanOf(req))
<1> DEFINE plan == PlanOf(req)
           parts == req.parts
           n == Len(parts)
           segs == plan.segments
           places(i) == {<<w[1], w[2]>> : w \in PlannedAt(plan, i)}
<1>1. PlanInv(req, n, plan) /\ n \in Nat /\ DOMAIN parts = 1 .. n
  <2>1. PICK g : PlanOf(req) = g[n] /\ \A k \in 0 .. n : PlanInv(req, k, g[k])
    BY PlanOfIs
  <2>2. n \in Nat /\ parts \in Seq(PartRec)
    BY RequestFacts
  <2>3. n \in 0 .. n
    BY <2>2
  <2> QED
    BY <2>1, <2>2, <2>3
<1>2. ChargeOf(parts) = plan.used
  BY UsedIsCharge
<1>3. plan.ok
  OBVIOUS
<1> HIDE DEF plan, parts, n
<1>4. /\ SpecsFit /\ RunsAllowed(req, n, segs) /\ HoldsPayload(req, n, segs)
      /\ GroupsAllowed(req, plan.used) /\ plan.req = req /\ segs \in Seq(SegRec)
  BY <1>1, <1>3 DEF PlanInv, PlanRec
<1>5. ASSUME NEW i
      PROVE  {w[3] : w \in PlannedAt(plan, i)} = SlicesOf(segs, i) /\ places(i) = PlacesOf(segs, i)
  BY <1>4, PlannedSets
<1> HIDE DEF segs, places
<1>6. ASSUME NEW i \in 1 .. n
      PROVE  /\ {w[3] : w \in PlannedAt(plan, i)} = 1 .. parts[i].len
             /\ Cardinality(places(i)) = parts[i].len
  <2>1. SlicesOf(segs, i) = 1 .. parts[i].len /\ Cardinality(PlacesOf(segs, i)) = parts[i].len
    BY <1>4 DEF HoldsPayload, parts
  <2> QED
    BY <1>5, <2>1, Zenon
<1>7. ASSUME NEW i \in 1 .. n, NEW w \in places(i)
      PROVE  /\ w[2] \in Sectors(w[1]) /\ w[2] >= BackupAt(SlotCount - 1) + CopySectors
             /\ parts[i].pin # {} => w[1] \in parts[i].pin
  <2>1. PICK j \in DOMAIN segs : segs[j].part = i /\ w \in Blocks(segs[j].run)
    BY <1>5, <1>7 DEF PlacesOf, OfPart
  <2> DEFINE r == segs[j].run
             dev == Device(Devs, r.source)
  <2>2. r \in RunRec /\ Placed(<<>>, Devs, r) /\ (parts[i].pin # {} => r.source \in parts[i].pin)
    <3>1. segs[j] \in SegRec
      BY <1>4
    <3>2. segs[j].run \in RunRec
      BY <3>1 DEF SegRec
    <3> QED
      BY <1>4, <2>1, <3>2 DEF RunsAllowed, parts
  <2> HIDE DEF r
  <2>3. PICK t \in r.at .. r.at + r.num - 1 : w = <<r.source, t>>
    BY <2>1 DEF Blocks, r
  <2>4. w[1] = r.source /\ w[2] = t
    BY <2>3
  <2>5. r.source \in DeviceIndices(Devs) /\ r.source \in Indices /\ WholeTable(Devs)
    BY <1>4, <2>2, DevsFacts DEF Placed
  <2>6. r.at >= dev.first /\ (Limit(dev) > 0 => r.at + r.num <= Limit(dev))
    BY <2>2 DEF Placed, Legal, IsRangeFree
  <2>7. dev.first \in Nat /\ Limit(dev) \in Nat \ {0}
    <3>1. dev \in DevRec /\ Limit(dev) \in Nat \ {0}
      BY <2>5, DeviceFacts
    <3> QED
      BY <3>1 DEF DevRec
  <2>8. BackupAt(SlotCount - 1) + CopySectors <= dev.first
    BY <2>5, DevsFacts
  <2>9. BackupAt(SlotCount - 1) + CopySectors \in Int
    BY LayoutAssumption DEF BackupAt, MetadataBase
  <2> DEFINE meta == BackupAt(SlotCount - 1) + CopySectors
             lim == Limit(dev)
             first == dev.first
  <2>10. r.at \in Nat /\ r.num \in Nat
    BY <2>2 DEF RunRec
  <2>11. Sectors(w[1]) = 0 .. lim - 1
    BY <2>4 DEF Sectors
  <2> HIDE DEF meta, lim, first, dev
  <2>12. /\ meta \in Int /\ lim \in Nat \ {0} /\ first \in Nat /\ meta <= first /\ r.at >= first
         /\ r.at + r.num <= lim
    BY <2>6, <2>7, <2>8, <2>9 DEF meta, lim, first
  <2>13. t \in 0 .. lim - 1 /\ t >= meta
    BY <2>10, <2>12
  <2> QED
    BY <2>2, <2>4, <2>11, <2>13 DEF meta
<1>8. ASSUME NEW i \in 1 .. n, NEW j \in 1 .. n, i # j PROVE places(i) \cap places(j) = {}
  <2> SUFFICES ASSUME NEW w \in places(i), w \in places(j) PROVE FALSE
    OBVIOUS
  <2>1. PICK a \in DOMAIN segs : segs[a].part = i /\ w \in Blocks(segs[a].run)
    BY <1>5 DEF PlacesOf, OfPart
  <2>2. PICK b \in DOMAIN segs : segs[b].part = j /\ w \in Blocks(segs[b].run)
    BY <1>5 DEF PlacesOf, OfPart
  <2>3. a # b
    BY <1>8, <2>1, <2>2
  <2> QED
    BY <1>4, <2>1, <2>2, <2>3 DEF RunsAllowed
<1>9. ASSUME NEW g \in DOMAIN GroupMax, GroupMax[g] > 0 /\ ~req.force
      PROVE  ChargeOf(parts)[g] <= GroupMax[g]
  BY <1>2, <1>4, <1>9 DEF GroupsAllowed
<1>10. SoundPlan(plan)
  <2>1. plan.req.parts = parts /\ plan.req.force = req.force
    BY <1>4 DEF parts
  <2> QED
    BY <1>1, <1>6, <1>7, <1>8, <1>9, <2>1, Zenon DEF SoundPlan, places
<1> QED
  BY <1>10 DEF plan

----------------------------------------------------------------------------
Plans == {PlanOf(req) : req \in Requests}

\* Every plan `make` ever commits to is sound, for all requests, devices, groups
\* and layouts: its extents are between the metadata area and the end of their
\* device and apart from each other, they hold exactly the payloads, in order
\* and on the pinned devices, and no group is over its maximum unless forced.
THEOREM SpecPlanIsSound == Spec => []PlanIsSound
<1> DEFINE Inv == made \in Seq(Plans)
<1>1. Init => Inv
  BY DEF Init
<1>2. ASSUME Inv, [Next]_vars PROVE Inv'
  <2>1. ASSUME NEW req \in Requests, Start(req) PROVE Inv'
    <3>1. made' = Append(made, PlanOf(req)) /\ PlanOf(req) \in Plans
      BY <2>1 DEF Start, Plans
    <3> DEFINE plan == PlanOf(req)
    <3> HIDE DEF plan
    <3> QED
      BY <1>2, <3>1 DEF plan
  <2>2. CASE UNCHANGED made
    BY <1>2, <2>2
  <2>3. CASE Step \/ Stop \/ Verify \/ UNCHANGED vars
    BY <2>2, <2>3 DEF Step, Stop, Verify, vars
  <2> QED
    BY <1>2, <2>1, <2>3 DEF Next
<1>3. Inv => PlanIsSound
  <2> SUFFICES ASSUME Inv, NEW run \in DOMAIN made, made[run].ok PROVE SoundPlan(made[run])
    BY DEF PlanIsSound
  <2>1. made[run] \in Plans
    OBVIOUS
  <2>2. PICK req \in Requests : made[run] = PlanOf(req)
    BY <2>1 DEF Plans
  <2>3. SoundPlan(PlanOf(req))
    BY <2>2, SoundPlanOf
  <2> QED
    BY <2>2, <2>3
<1> QED
  BY <1>1, <1>2, <1>3, PTL DEF Spec

----------------------------------------------------------------------------
\* Sequences of sequences, and the rounds in which they are joined.
Joined(s, n, g) ==
  /\ g = [i \in 1 .. n |-> g[i]]
  /\ \A i \in 1 .. n : g[i] = IF i = 1 THEN s[i] ELSE g[i - 1] \o s[i]

\* Every sequence of sequences has its rounds.
LEMMA JoinedExists ==
  ASSUME NEW s, NEW n \in Nat
  PROVE  \E g : Joined(s, n, g)
<1> DEFINE T == {i \in Nat : \E g : Joined(s, i, g)}
<1>1. 0 \in T
  <2> DEFINE g == [i \in 1 .. 0 |-> s]
  <2>1. Joined(s, 0, g)
    BY DEF Joined
  <2> QED
    BY <2>1
<1>2. ASSUME NEW i \in Nat, i \in T PROVE i + 1 \in T
  <2>1. PICK g : Joined(s, i, g)
    BY <1>2
  <2> DEFINE h == [k \in 1 .. i + 1 |->
                     IF k <= i THEN g[k] ELSE IF k = 1 THEN s[k] ELSE g[k - 1] \o s[k]]
  <2>2. ASSUME NEW k \in 1 .. i + 1
        PROVE  h[k] = IF k = 1 THEN s[k] ELSE h[k - 1] \o s[k]
    <3>1. CASE k <= i
      <4>1. k \in 1 .. i /\ (k # 1 => k - 1 \in 1 .. i)
        BY <3>1
      <4>2. g[k] = IF k = 1 THEN s[k] ELSE g[k - 1] \o s[k]
        BY <2>1, <4>1 DEF Joined
      <4>3. h[k] = g[k] /\ (k # 1 => h[k - 1] = g[k - 1])
        BY <4>1
      <4> HIDE DEF h
      <4> QED
        BY <4>2, <4>3
    <3>2. CASE ~(k <= i)
      <4>1. k # 1 => k - 1 \in 1 .. i
        BY <3>2
      <4>2. /\ h[k] = IF k = 1 THEN s[k] ELSE g[k - 1] \o s[k]
            /\ k # 1 => h[k - 1] = g[k - 1]
        BY <3>2, <4>1
      <4> HIDE DEF h
      <4> QED
        BY <4>2
    <3> QED
      BY <3>1, <3>2
  <2>3. h = [k \in 1 .. i + 1 |-> h[k]]
    OBVIOUS
  <2> HIDE DEF h
  <2>4. Joined(s, i + 1, h)
    BY <2>2, <2>3 DEF Joined
  <2> QED
    BY <2>4
<1> HIDE DEF T
<1>3. n \in T
  BY <1>1, <1>2, CountUp
<1> QED
  BY <1>3 DEF T

\* FlattenSeq is the last of them.
LEMMA FlattenIsJoined ==
  ASSUME NEW s, NEW n \in Nat \ {0}, Len(s) = n
  PROVE  \E g : Joined(s, n, g) /\ SeqX!FlattenSeq(s) = g[n]
<1> DEFINE F(g) == [i \in 1 .. n |-> IF i = 1 THEN s[i] ELSE g[i - 1] \o s[i]]
           p == CHOOSE g : g = F(g)
<1>1. \E g : g = F(g)
  <2>1. PICK g : Joined(s, n, g)
    BY JoinedExists
  <2>2. g = F(g)
    BY <2>1 DEF Joined
  <2> HIDE DEF F
  <2> QED
    BY <2>2
<1>2. p = F(p)
  <2> HIDE DEF F
  <2> QED
    BY <1>1
<1>3. SeqX!FlattenSeq(s) = p[n]
  BY DEF SeqX!FlattenSeq
<1> HIDE DEF p
<1>4. Joined(s, n, p)
  BY <1>2 DEF Joined
<1> QED
  BY <1>3, <1>4

\* Where each of n sequences starts in a sequence f they are joined to.
Offsets(s, n, o) ==
  o \in [0 .. n -> Nat] /\ o[0] = 0 /\ \A k \in 1 .. n : o[k] = o[k - 1] + Len(s[k])
Tiles(s, n, o, f) ==
  /\ Len(f) = o[n]
  /\ \A k \in 1 .. n : \A j \in 1 .. Len(s[k]) :
       o[k - 1] + j \in 1 .. Len(f) /\ f[o[k - 1] + j] = s[k][j]
  /\ \A x \in 1 .. Len(f) : \E k \in 1 .. n : \E j \in 1 .. Len(s[k]) : x = o[k - 1] + j

\* One more sequence extends the tiling.
LEMMA TilesMore ==
  ASSUME NEW S, NEW n \in Nat, NEW s, NEW t \in Seq(S), s[n + 1] = t,
         NEW o, NEW f \in Seq(S), Tiles(s, n, o, f), o[n + 1] = o[n] + Len(t)
  PROVE  Tiles(s, n + 1, o, f \o t)
<1> DEFINE h == f \o t
<1>1. Len(t) \in Nat /\ Len(f) = o[n] /\ Len(f) \in Nat
  BY DEF Tiles
<1>2. /\ h \in Seq(S) /\ Len(h) = o[n] + Len(t)
      /\ \A i \in 1 .. Len(f) + Len(t) : h[i] = IF i <= Len(f) THEN f[i] ELSE t[i - Len(f)]
  <2>1. /\ h \in Seq(S) /\ Len(h) = Len(f) + Len(t)
        /\ \A i \in 1 .. Len(f) + Len(t) : h[i] = IF i <= Len(f) THEN f[i] ELSE t[i - Len(f)]
    BY <1>1, ConcatProperties
  <2> QED
    BY <1>1, <2>1
<1> HIDE DEF h
<1>3. ASSUME NEW k \in 1 .. n + 1, NEW j \in 1 .. Len(s[k])
      PROVE  o[k - 1] + j \in 1 .. Len(h) /\ h[o[k - 1] + j] = s[k][j]
  <2>1. CASE k <= n
    <3> DEFINE x == o[k - 1] + j
    <3>1. k \in 1 .. n /\ x \in 1 .. Len(f) /\ f[x] = s[k][j]
      BY SMTT(30), <2>1 DEF Tiles
    <3> HIDE DEF x
    <3>2. Len(f) \in Nat /\ x \in 1 .. Len(f) + Len(t) /\ x <= Len(f) /\ x \in 1 .. Len(h)
      BY <1>1, <1>2, <3>1
    <3> QED
      BY <1>2, <3>1, <3>2 DEF x
  <2>2. CASE k = n + 1
    <3>1. k - 1 = n /\ j \in 1 .. Len(t) /\ s[k] = t /\ o[k - 1] = Len(f)
      BY <1>1, <2>2
    <3> DEFINE a == Len(f)
               b == Len(t)
               x == a + j
    <3>4. a \in Nat /\ b \in Nat /\ j \in 1 .. b
      BY <1>1, <3>1
    <3> HIDE DEF a, b
    <3>5. x \in 1 .. a + b /\ ~(x <= a) /\ x - a = j
      BY <3>4
    <3>2. x \in 1 .. Len(f) + Len(t) /\ ~(x <= Len(f)) /\ x - Len(f) = j
      BY <3>5 DEF a, b
    <3>3. o[k - 1] + j = x
      BY <3>1 DEF a
    <3> HIDE DEF x
    <3> QED
      BY <1>1, <1>2, <3>1, <3>2, <3>3
  <2> QED
    BY <2>1, <2>2
<1>4. ASSUME NEW x \in 1 .. Len(h)
      PROVE  \E k \in 1 .. n + 1 : \E j \in 1 .. Len(s[k]) : x = o[k - 1] + j
  <2>1. CASE x <= Len(f)
    <3>1. x \in 1 .. Len(f)
      BY <1>1, <2>1
    <3>2. PICK k \in 1 .. n : \E j \in 1 .. Len(s[k]) : x = o[k - 1] + j
      BY <3>1 DEF Tiles
    <3>3. k \in 1 .. n + 1
      OBVIOUS
    <3> QED
      BY <3>2, <3>3
  <2>2. CASE ~(x <= Len(f))
    <3> DEFINE j == x - Len(f)
    <3>1. j \in 1 .. Len(t) /\ x = o[n] + j /\ (n + 1) - 1 = n /\ n + 1 \in 1 .. n + 1
      BY <1>1, <1>2, <2>2
    <3> HIDE DEF j
    <3> QED
      BY <3>1
  <2> QED
    BY <2>1, <2>2
<1>5. Len(h) = o[n + 1]
  BY <1>1, <1>2
<1> QED
  BY <1>3, <1>4, <1>5 DEF Tiles, h

\* A flattened sequence is tiled by its parts: where each begins, and what is there.
LEMMA FlattenFacts ==
  ASSUME NEW S, NEW s, Len(s) \in Nat, \A k \in 1 .. Len(s) : s[k] \in Seq(S), s \in Seq(Seq(S))
  PROVE  /\ SeqX!FlattenSeq(s) \in Seq(S)
         /\ \E o : Offsets(s, Len(s), o) /\ Tiles(s, Len(s), o, SeqX!FlattenSeq(s))
<1> DEFINE n == Len(s)
<1>1. CASE n = 0
  <2>1. SeqX!FlattenSeq(s) = s /\ s = <<>>
    BY <1>1 DEF SeqX!FlattenSeq
  <2> DEFINE o == [k \in 0 .. 0 |-> 0]
  <2>2. Offsets(s, n, o) /\ Tiles(s, n, o, <<>>)
    BY <1>1 DEF Offsets, Tiles
  <2> QED
    BY <2>1, <2>2
<1>2. CASE n # 0
  <2>1. PICK g : Joined(s, n, g) /\ SeqX!FlattenSeq(s) = g[n]
    BY <1>2, FlattenIsJoined
  <2> DEFINE o == [k \in 0 .. n |-> IF k = 0 THEN 0 ELSE Len(g[k])]
             T == {m \in Nat : m + 1 <= n => /\ g[m + 1] \in Seq(S) /\ o[m + 1] \in Nat
                                             /\ o[m + 1] = o[m] + Len(s[m + 1])
                                             /\ \A k \in 0 .. m : o[k] \in Nat
                                             /\ Tiles(s, m + 1, o, g[m + 1])}
  <2> HIDE DEF n
  <2>0. n \in Nat \ {0} /\ \A k \in 1 .. n : s[k] \in Seq(S) /\ Len(s[k]) \in Nat
    BY <1>2 DEF n
  <2>2. o[0] = 0 /\ \A k \in 1 .. n : o[k] = Len(g[k])
    BY <2>0
  <2>3. o = [k \in 0 .. n |-> o[k]]
    OBVIOUS
  <2> HIDE DEF o
  <2>4. 0 \in T
    <3>1. g[1] = s[1]
      <4>1. 1 \in 1 .. n
        BY <2>0
      <4>2. \A k \in 1 .. n : g[k] = IF k = 1 THEN s[k] ELSE g[k - 1] \o s[k]
        BY <2>1 DEF Joined
      <4> QED
        BY <4>1, <4>2
    <3>2. g[1] \in Seq(S) /\ o[1] = Len(s[1]) /\ o[1] \in Nat /\ o[1] = o[0] + Len(s[1])
      BY <2>0, <2>2, <3>1
    <3>3. Tiles(s, 1, o, g[1])
      <4>1. \A k \in 1 .. 1 : k = 1 /\ o[k - 1] = 0
        BY <2>2
      <4>2. \A j \in 1 .. Len(s[1]) : o[1 - 1] + j = j
        BY <2>0, <2>2
      <4>3. 1 \in 1 .. 1
        OBVIOUS
      <4> QED
        BY <2>0, <3>1, <3>2, <4>1, <4>2, <4>3 DEF Tiles
    <3>4. \A k \in 0 .. 0 : o[k] \in Nat
      BY <2>2
    <3> QED
      BY <3>2, <3>3, <3>4
  <2>5. ASSUME NEW m \in Nat, m \in T PROVE m + 1 \in T
    <3> SUFFICES ASSUME (m + 1) + 1 <= n
                 PROVE  /\ g[(m + 1) + 1] \in Seq(S) /\ o[(m + 1) + 1] \in Nat
                        /\ o[(m + 1) + 1] = o[m + 1] + Len(s[(m + 1) + 1])
                        /\ \A k \in 0 .. m + 1 : o[k] \in Nat
                        /\ Tiles(s, (m + 1) + 1, o, g[(m + 1) + 1])
      OBVIOUS
    <3> DEFINE i == m + 1
    <3>1. i \in 1 .. n /\ i + 1 \in 1 .. n /\ m + 1 <= n /\ i \in Nat /\ (i + 1) - 1 = i /\ i + 1 # 1
      BY <2>0
    <3>2. g[i] \in Seq(S) /\ o[i] \in Nat /\ Tiles(s, i, o, g[i]) /\ \A k \in 0 .. m : o[k] \in Nat
      BY <2>5, <3>1
    <3>3. \A k \in 0 .. i : o[k] \in Nat
      <4>1. \A k \in 0 .. i : k \in 0 .. m \/ k = i
        OBVIOUS
      <4> QED
        BY <3>2, <4>1
    <3> HIDE DEF i
    <3>4. g[i + 1] = g[i] \o s[i + 1]
      BY <2>1, <3>1 DEF Joined
    <3> DEFINE t == s[i + 1]
    <3>5. t \in Seq(S) /\ Len(t) \in Nat
      BY <2>0, <3>1
    <3>6. g[i + 1] \in Seq(S) /\ Len(g[i + 1]) = Len(g[i]) + Len(t)
      <4> HIDE DEF t
      <4>1. g[i] \o t \in Seq(S) /\ Len(g[i] \o t) = Len(g[i]) + Len(t)
        BY <3>2, <3>5, ConcatProperties
      <4> QED
        BY <3>4, <4>1 DEF t
    <3>7. o[i + 1] = o[i] + Len(t) /\ o[i + 1] \in Nat
      <4>1. o[i + 1] = Len(g[i + 1]) /\ o[i] = Len(g[i])
        BY <2>2, <3>1
      <4> HIDE DEF t
      <4> QED
        BY <3>2, <3>5, <3>6, <4>1
    <3>8. Tiles(s, i + 1, o, g[i + 1])
      <4>1. s[i + 1] = t
        OBVIOUS
      <4> HIDE DEF t
      <4>2. Tiles(s, i + 1, o, g[i] \o t)
        BY <3>1, <3>2, <3>5, <3>7, <4>1, TilesMore
      <4> QED
        BY <3>4, <4>1, <4>2
    <3> QED
      BY <3>3, <3>6, <3>7, <3>8 DEF i
  <2>6. \A m \in Nat : m \in T
    <3> HIDE DEF T
    <3> QED
      BY <2>4, <2>5, CountUp
  <2>7. ASSUME NEW k \in 1 .. n
        PROVE  /\ g[k] \in Seq(S) /\ o[k] \in Nat /\ o[k] = o[k - 1] + Len(s[k])
               /\ Tiles(s, k, o, g[k])
    <3>1. k - 1 \in Nat /\ (k - 1) + 1 = k /\ (k - 1) + 1 <= n
      BY <2>0
    <3>2. k - 1 \in T
      BY <2>6, <3>1
    <3> QED
      BY <3>1, <3>2
  <2>8. Offsets(s, n, o)
    <3>1. \A k \in 0 .. n : o[k] \in Nat
      <4>1. \A k \in 0 .. n : k = 0 \/ k \in 1 .. n
        BY <2>0
      <4> QED
        BY <2>2, <2>7, <4>1
    <3> QED
      BY <2>2, <2>3, <2>7, <3>1 DEF Offsets
  <2>9. n \in 1 .. n
    BY <2>0
  <2> QED
    BY <2>1, <2>7, <2>8, <2>9 DEF n
<1> QED
  BY <1>1, <1>2

----------------------------------------------------------------------------
\* Where a layout has its tables.

MetaEnd == BackupAt(SlotCount - 1) + CopySectors

\* Multiples of different factors do not overlap.
LEMMA TimesApart ==
  ASSUME NEW a \in Nat, NEW b \in Nat, NEW c \in Nat, a < b
  PROVE  a * c + c <= b * c /\ a * c \in Nat /\ b * c \in Nat
<1> DEFINE e == b - a - 1
<1>1. e \in Nat /\ b = a + e + 1
  OBVIOUS
<1> HIDE DEF e
<1>2. b * c = a * c + e * c + c
  BY <1>1
<1>3. e * c \in Nat /\ a * c \in Nat /\ b * c \in Nat
  BY <1>1
<1> QED
  BY <1>2, <1>3

TableAt(n) == MetadataBase + n * CopySectors

\* Slot s has its copies at places s and SlotCount + s.
LEMMA TableAtFacts ==
  /\ MetadataBase \in Nat /\ CopySectors \in Nat \ {0}
  /\ \A n \in 0 .. 2 * SlotCount - 1 :
       TableAt(n) \in Nat /\ MetadataBase <= TableAt(n) /\ TableAt(n) + CopySectors <= MetaEnd
  /\ \A m, n \in 0 .. 2 * SlotCount - 1 : m # n => TableAt(m) # TableAt(n)
  /\ \A s \in Slots : /\ PrimaryAt(s) = TableAt(s) /\ BackupAt(s) = TableAt(SlotCount + s)
                      /\ s \in 0 .. 2 * SlotCount - 1 /\ SlotCount + s \in 0 .. 2 * SlotCount - 1
<1> DEFINE base == MetadataBase
           last == 2 * SlotCount - 1
<1>1. base \in Nat /\ CopySectors \in Nat \ {0} /\ SlotCount \in Nat \ {0} /\ last \in Nat
  BY LayoutAssumption DEF MetadataBase
<1>2. MetaEnd = TableAt(last) + CopySectors
  <2>1. SlotCount + (SlotCount - 1) = last
    BY <1>1
  <2> QED
    BY <2>1 DEF MetaEnd, TableAt, BackupAt
<1>3. \A s \in Slots : PrimaryAt(s) = TableAt(s) /\ BackupAt(s) = TableAt(SlotCount + s)
  BY DEF PrimaryAt, BackupAt, TableAt
<1>4. \A s \in Slots : s \in 0 .. last /\ SlotCount + s \in 0 .. last
  BY <1>1 DEF Slots
<1>5. \A n \in Nat : TableAt(n) \in Nat /\ base <= TableAt(n)
  <2> SUFFICES ASSUME NEW n \in Nat PROVE TableAt(n) \in Nat /\ base <= TableAt(n)
    OBVIOUS
  <2>1. n * CopySectors \in Nat
    BY <1>1
  <2> QED
    BY <1>1, <2>1 DEF TableAt
<1>6. ASSUME NEW m \in Nat, NEW n \in Nat, m < n PROVE TableAt(m) + CopySectors <= TableAt(n)
  <2>1. m * CopySectors + CopySectors <= n * CopySectors /\ m * CopySectors \in Nat /\ n * CopySectors \in Nat
    BY <1>1, <1>6, TimesApart
  <2> DEFINE x == m * CopySectors
             y == n * CopySectors
  <2> HIDE DEF x, y
  <2>2. x + CopySectors <= y /\ x \in Nat /\ y \in Nat
    BY <2>1 DEF x, y
  <2>3. (base + x) + CopySectors <= base + y
    BY <1>1, <2>2
  <2> QED
    BY <2>3 DEF TableAt, x, y
<1> HIDE DEF base, last
<1>7. ASSUME NEW n \in 0 .. last PROVE TableAt(n) + CopySectors <= MetaEnd
  <2>1. n = last \/ n < last
    BY <1>1
  <2>2. TableAt(n) \in Nat /\ TableAt(last) \in Nat
    BY <1>1, <1>5
  <2> QED
    BY <1>1, <1>2, <1>6, <2>1, <2>2
<1>8. ASSUME NEW m \in 0 .. last, NEW n \in 0 .. last, m # n PROVE TableAt(m) # TableAt(n)
  <2>1. m < n \/ n < m
    BY <1>1, <1>8
  <2>2. TableAt(n) \in Nat /\ TableAt(m) \in Nat
    BY <1>1, <1>5
  <2> QED
    BY <1>1, <1>6, <2>1, <2>2
<1> QED
  BY <1>1, <1>3, <1>4, <1>5, <1>7, <1>8 DEF base, last

\* Both copies of the geometry are before the first table.
LEMMA GeometryFacts ==
  /\ GeometryPrimary \in Nat /\ GeometryBackup \in Nat
  /\ GeometryPrimary < GeometryBackup /\ GeometryBackup < MetadataBase /\ MetadataBase < MetaEnd
<1>1. 0 \in 0 .. 2 * SlotCount - 1
  BY LayoutAssumption
<1>2. MetadataBase <= TableAt(0) /\ TableAt(0) \in Nat /\ TableAt(0) + CopySectors <= MetaEnd
  BY <1>1, TableAtFacts
<1>3. MetadataBase < MetaEnd
  <2>1. MetaEnd \in Int
    BY LayoutAssumption DEF MetaEnd, BackupAt, MetadataBase
  <2> QED
    BY <1>2, <2>1, TableAtFacts
<1> QED
  BY <1>3, LayoutAssumption DEF GeometryPrimary, GeometryBackup, MetadataBase

\* A device that fits holds the metadata.
LEMMA SectorsHold ==
  ASSUME SpecsFit, NEW d \in Indices
  PROVE  /\ Limit(Device(Devs, d)) \in Nat \ {0} /\ Device(Devs, d).first \in Nat
         /\ MetaEnd \in Nat /\ MetaEnd <= Device(Devs, d).first /\ MetaEnd < Limit(Device(Devs, d))
<1> DEFINE dev == Device(Devs, d)
           size == Specs[d + 1].size
<1>1. dev \in DevRec /\ Limit(dev) \in Nat \ {0} /\ MetaEnd <= dev.first
  BY DevsFacts, DeviceFacts DEF MetaEnd
<1>2. MetaEnd \in Nat
  <2>1. MetaEnd \in Int
    BY LayoutAssumption DEF MetaEnd, BackupAt, MetadataBase
  <2> QED
    BY <2>1, GeometryFacts, TableAtFacts
<1>3. d + 1 \in DOMAIN Specs /\ dev.size = size
  <2>1. d + 1 \in DOMAIN Specs
    BY SpecsAssumption DEF Indices
  <2> QED
    BY <2>1 DEF Device, Devs
<1>4. size >= ReserveBytes + SECTOR
  BY <1>3 DEF SpecsFit
<1>5. size \in Nat
  BY <1>1, <1>3 DEF DevRec
<1>6. MetaEnd <= ReserveBytes \div SECTOR
  BY ReserveHolds DEF MetaEnd, ReserveSectors
<1> HIDE DEF dev, size
<1>7. size \div SECTOR > ReserveBytes \div SECTOR
  BY <1>4, <1>5, ReserveHolds DEF SECTOR
<1>8. Limit(dev) = size \div SECTOR
  BY <1>3 DEF Limit
<1>9. ReserveBytes \div SECTOR \in Nat /\ size \div SECTOR \in Nat
  BY <1>5, ReserveHolds DEF SECTOR
<1>10. MetaEnd < Limit(dev)
  BY <1>2, <1>6, <1>7, <1>8, <1>9
<1>11. dev.first \in Nat
  BY <1>1 DEF DevRec
<1> QED
  BY <1>1, <1>2, <1>10, <1>11 DEF dev

----------------------------------------------------------------------------
\* Writes to the raw image, as entries: device, sector and cell.

OpOf(e, req, short) ==
  [do |-> "write", path |-> Raw(e[1], req), at |-> e[2], cell |-> e[3], short |-> short]
OpsOf(req, E) == {OpOf(e, req, TRUE) : e \in E} \cup {OpOf(e, req, FALSE) : e \in E}

Place(e) == <<e[1], e[2]>>
Placing(op) == <<op.path, op.at>>

\* A sequence of writes has all of some entries, and writes at no place twice.
Covers(f, req, E) ==
  /\ f \in Seq(OpsOf(req, E))
  /\ \A e \in E : \E k \in 1 .. Len(f) : \E short \in BOOLEAN : f[k] = OpOf(e, req, short)
  /\ \A j, k \in 1 .. Len(f) : Placing(f[j]) = Placing(f[k]) => j = k

\* The fields of a write.
LEMMA OpOfFacts ==
  ASSUME NEW e, NEW req, NEW short
  PROVE  LET op == OpOf(e, req, short)
         IN /\ op.do = "write" /\ op.path = Raw(e[1], req) /\ op.at = e[2] /\ op.cell = e[3]
            /\ op.short = short /\ op.path[2] = e[1]
BY DEF OpOf, Raw, Out, Staging

\* A write of an entry is one of the writes of the set.
LEMMA OpIsIn ==
  ASSUME NEW E, NEW e \in E, NEW req, NEW short \in BOOLEAN
  PROVE  OpOf(e, req, short) \in OpsOf(req, E)
<1>1. short = TRUE \/ short = FALSE
  OBVIOUS
<1>2. CASE short = TRUE
  BY <1>2, Zenon DEF OpsOf
<1>3. CASE short = FALSE
  BY <1>3, Zenon DEF OpsOf
<1> QED
  BY <1>1, <1>2, <1>3

\* Writes at one place are of entries at one place.
LEMMA PlacingIs ==
  ASSUME NEW e, NEW d, NEW req, NEW a, NEW b, Placing(OpOf(e, req, a)) = Placing(OpOf(d, req, b))
  PROVE  Place(e) = Place(d)
<1> DEFINE p == OpOf(e, req, a)
           q == OpOf(d, req, b)
<1>1. p.path[2] = e[1] /\ p.at = e[2] /\ q.path[2] = d[1] /\ q.at = d[2]
  BY OpOfFacts
<1>2. p.path = q.path /\ p.at = q.at
  BY DEF Placing
<1> HIDE DEF p, q
<1> QED
  BY <1>1, <1>2 DEF Place

\* Covers are joined if they have no place in common.
LEMMA CoversJoined ==
  ASSUME NEW req, NEW E, NEW D, NEW f, NEW g, Covers(f, req, E), Covers(g, req, D),
         \A e \in E : \A d \in D : Place(e) # Place(d)
  PROVE  /\ Covers(f \o g, req, E \cup D)
         /\ Len(f) \in Nat /\ Len(g) \in Nat /\ Len(f \o g) = Len(f) + Len(g)
         /\ \A k \in 1 .. Len(f) : (f \o g)[k] \in OpsOf(req, E)
         /\ \A k \in 1 .. Len(f \o g) : k > Len(f) => (f \o g)[k] \in OpsOf(req, D)
<1> DEFINE S == OpsOf(req, E \cup D)
           SE == OpsOf(req, E)
           SD == OpsOf(req, D)
           h == f \o g
           m == Len(f)
           n == Len(g)
<1>1. f \in Seq(SE) /\ g \in Seq(SD)
  BY DEF Covers
<1>2. SE \subseteq S /\ SD \subseteq S
  BY DEF OpsOf
<1> HIDE DEF SE, SD, S
<1>3. m \in Nat /\ n \in Nat /\ (\A k \in 1 .. m : f[k] \in SE) /\ (\A k \in 1 .. n : g[k] \in SD)
  BY <1>1
<1>4. f \in Seq(S) /\ g \in Seq(S)
  BY <1>1, <1>2
<1>5. /\ h \in Seq(S) /\ Len(h) = m + n
      /\ \A k \in 1 .. m + n : h[k] = IF k <= m THEN f[k] ELSE g[k - m]
  BY <1>4, ConcatProperties
<1> HIDE DEF h, m, n
<1>6. \A k \in 1 .. m : k \in 1 .. m + n /\ h[k] = f[k] /\ h[k] \in SE
  BY <1>3, <1>5
<1>7. \A k \in 1 .. n : m + k \in 1 .. m + n /\ h[m + k] = g[k] /\ h[m + k] \in SD
  <2> SUFFICES ASSUME NEW k \in 1 .. n PROVE m + k \in 1 .. m + n /\ h[m + k] = g[k] /\ h[m + k] \in SD
    OBVIOUS
  <2>1. m + k \in 1 .. m + n /\ ~(m + k <= m) /\ (m + k) - m = k
    BY <1>3
  <2> QED
    BY <1>3, <1>5, <2>1
<1>8. \A k \in 1 .. m + n : k > m => k - m \in 1 .. n /\ m + (k - m) = k /\ h[k] = g[k - m] /\ h[k] \in SD
  <2> SUFFICES ASSUME NEW k \in 1 .. m + n, k > m
               PROVE  k - m \in 1 .. n /\ m + (k - m) = k /\ h[k] = g[k - m] /\ h[k] \in SD
    OBVIOUS
  <2>1. k - m \in 1 .. n /\ m + (k - m) = k /\ ~(k <= m)
    BY <1>3
  <2> QED
    BY <1>3, <1>5, <2>1
<1>9. ASSUME NEW e \in E \cup D
      PROVE  \E k \in 1 .. Len(h) : \E short \in BOOLEAN : h[k] = OpOf(e, req, short)
  <2>1. CASE e \in E
    <3>1. PICK k \in 1 .. m : \E short \in BOOLEAN : f[k] = OpOf(e, req, short)
      BY <2>1 DEF Covers, m
    <3> QED
      BY <1>5, <1>6, <3>1
  <2>2. CASE e \in D
    <3>1. PICK k \in 1 .. n : \E short \in BOOLEAN : g[k] = OpOf(e, req, short)
      BY <2>2 DEF Covers, n
    <3>2. m + k \in 1 .. Len(h) /\ h[m + k] = g[k]
      BY <1>5, <1>7
    <3> QED
      BY <3>1, <3>2
  <2> QED
    BY <2>1, <2>2
<1>10. ASSUME NEW p \in SE, NEW q \in SD PROVE Placing(p) # Placing(q)
  <2>1. PICK e \in E, a \in BOOLEAN : p = OpOf(e, req, a)
    BY DEF SE, OpsOf
  <2>2. PICK d \in D, b \in BOOLEAN : q = OpOf(d, req, b)
    BY DEF SD, OpsOf
  <2> QED
    BY <2>1, <2>2, PlacingIs
<1>11. ASSUME NEW j \in 1 .. Len(h), NEW k \in 1 .. Len(h), Placing(h[j]) = Placing(h[k]) PROVE j = k
  <2>0. j \in 1 .. m + n /\ k \in 1 .. m + n
    BY <1>5
  <2>1. CASE j <= m /\ k <= m
    <3>1. j \in 1 .. m /\ k \in 1 .. m
      BY <1>3, <2>0, <2>1
    <3>2. Placing(f[j]) = Placing(f[k])
      BY <1>6, <1>11, <3>1
    <3> QED
      BY <3>1, <3>2 DEF Covers, m
  <2>2. CASE j <= m /\ k > m
    <3>1. h[j] \in SE /\ h[k] \in SD
      BY <1>3, <1>6, <1>8, <2>0, <2>2
    <3> QED
      BY <1>10, <1>11, <3>1
  <2>3. CASE j > m /\ k <= m
    <3>1. h[k] \in SE /\ h[j] \in SD
      BY <1>3, <1>6, <1>8, <2>0, <2>3
    <3> QED
      BY <1>10, <1>11, <3>1
  <2>4. CASE j > m /\ k > m
    <3>1. /\ j - m \in 1 .. n /\ k - m \in 1 .. n /\ m + (k - m) = k /\ m + (j - m) = j
          /\ h[j] = g[j - m] /\ h[k] = g[k - m]
      BY <1>8, <2>0, <2>4
    <3>2. j - m = k - m
      BY <1>11, <3>1 DEF Covers, n
    <3> QED
      BY <3>1, <3>2
  <2> QED
    BY <1>3, <2>0, <2>1, <2>2, <2>3, <2>4
<1>12. Covers(h, req, E \cup D)
  BY <1>5, <1>9, <1>11 DEF Covers, S
<1> QED
  BY <1>3, <1>5, <1>6, <1>8, <1>12 DEF h, m, n, SE, SD

----------------------------------------------------------------------------
\* The entries of a run.

Geometries(run) == {<<0, GeometryPrimary, Geometry(run)>>, <<0, GeometryBackup, Geometry(run)>>}
SegEntry(run, seg, k) == <<seg.run.source, seg.run.at + k - 1, Payload(run, seg.part, seg.from + k)>>
SegEntries(run, seg) == {SegEntry(run, seg, k) : k \in 1 .. seg.run.num}
Payloads(run, plan) == UNION {SegEntries(run, plan.segments[j]) : j \in DOMAIN plan.segments}
SlotSectors(req) == {PrimaryAt(s) : s \in req.slots} \cup {BackupAt(s) : s \in req.slots}
Tables(run, req) == {<<0, s, TableOf(run)>> : s \in SlotSectors(req)}
Entries(run, plan) == (Geometries(run) \cup Payloads(run, plan)) \cup Tables(run, plan.req)

\* The geometry is written as its two entries.
LEMMA GeometryCovers ==
  ASSUME NEW run, NEW req
  PROVE  Covers(WriteGeometry(run, req), req, Geometries(run)) /\ Len(WriteGeometry(run, req)) = 2
<1> DEFINE a == <<0, GeometryPrimary, Geometry(run)>>
           b == <<0, GeometryBackup, Geometry(run)>>
           p == OpOf(a, req, FALSE)
           q == OpOf(b, req, FALSE)
<1>1. p = Write(Raw(0, req), GeometryPrimary, Geometry(run)) /\ q = Write(Raw(0, req), GeometryBackup, Geometry(run))
  BY DEF OpOf, Write
<1>2. p \in OpsOf(req, Geometries(run)) /\ q \in OpsOf(req, Geometries(run))
  <2>1. a \in Geometries(run) /\ b \in Geometries(run) /\ FALSE \in BOOLEAN
    BY DEF Geometries
  <2> HIDE DEF a, b
  <2> QED
    BY <2>1, OpIsIn
<1>3. Placing(p) # Placing(q)
  <2>1. p.at = GeometryPrimary /\ q.at = GeometryBackup
    BY DEF OpOf
  <2>2. GeometryPrimary # GeometryBackup
    BY GeometryFacts
  <2> HIDE DEF p, q
  <2> QED
    BY <2>1, <2>2 DEF Placing
<1>4. WriteGeometry(run, req) = <<p, q>>
  BY <1>1 DEF WriteGeometry
<1>5. Geometries(run) = {a, b}
  BY DEF Geometries
<1>6. p = OpOf(a, req, FALSE) /\ q = OpOf(b, req, FALSE)
  OBVIOUS
<1> HIDE DEF a, b, p, q
<1> DEFINE f == <<p, q>>
<1>7. f \in Seq(OpsOf(req, Geometries(run))) /\ Len(f) = 2 /\ f[1] = p /\ f[2] = q
  BY <1>2
<1> HIDE DEF f
<1>8. \A e \in {a, b} : \E k \in 1 .. Len(f) : \E short \in BOOLEAN : f[k] = OpOf(e, req, short)
  <2>1. 1 \in 1 .. Len(f) /\ 2 \in 1 .. Len(f) /\ FALSE \in BOOLEAN
    BY <1>7
  <2> QED
    BY <1>6, <1>7, <2>1
<1>9. \A j, k \in 1 .. Len(f) : Placing(f[j]) = Placing(f[k]) => j = k
  <2>1. \A j \in 1 .. Len(f) : j = 1 \/ j = 2
    BY <1>7
  <2> QED
    BY <1>3, <1>7, <2>1
<1>10. Covers(f, req, Geometries(run))
  BY <1>5, <1>7, <1>8, <1>9 DEF Covers
<1> QED
  BY <1>4, <1>7, <1>10 DEF f

----------------------------------------------------------------------------
\* Writes that cover entries, part by part.

ListOf(f, n) == f = [k \in 1 .. n |-> f[k]]
ValuesOf(e, n) == {e[k] : k \in 1 .. n}

\* Any number of covers, one after the other.
LEMMA CoversFlattened ==
  ASSUME NEW req, NEW n \in Nat, NEW E, NEW s, ListOf(s, n),
         \A i \in 1 .. n : Covers(s[i], req, E[i]),
         \A i, j \in 1 .. n : i # j => \A e \in E[i] : \A d \in E[j] : Place(e) # Place(d)
  PROVE  Covers(SeqX!FlattenSeq(s), req, UNION ValuesOf(E, n))
<1> DEFINE D == UNION ValuesOf(E, n)
           S == OpsOf(req, D)
           f == SeqX!FlattenSeq(s)
<1>1. ASSUME NEW i \in 1 .. n PROVE s[i] \in Seq(S) /\ s[i] \in Seq(OpsOf(req, E[i]))
  <2>1. s[i] \in Seq(OpsOf(req, E[i]))
    BY DEF Covers
  <2>2. OpsOf(req, E[i]) \subseteq S
    BY DEF OpsOf, ValuesOf
  <2> DEFINE R == OpsOf(req, E[i])
             t == s[i]
  <2> HIDE DEF R, S, t
  <2>3. t \in Seq(S)
    BY <2>1, <2>2 DEF R, t
  <2> QED
    BY <2>1, <2>3 DEF t
<1> HIDE DEF S, D, f
<1>2. s \in Seq(Seq(S)) /\ Len(s) = n
  <2> DEFINE Q == Seq(S)
  <2>1. \A i \in 1 .. n : s[i] \in Q
    BY <1>1
  <2> HIDE DEF Q
  <2>2. s \in [1 .. n -> Q]
    BY <2>1 DEF ListOf
  <2>3. s \in Seq(Q)
    BY <2>2, SeqDef
  <2>4. Len(s) = n
    BY <2>2, <2>3
  <2> QED
    BY <2>3, <2>4 DEF Q
<1>3. PICK o : f \in Seq(S) /\ Offsets(s, n, o) /\ Tiles(s, n, o, f)
  BY <1>1, <1>2, FlattenFacts DEF f
<1>4. ASSUME NEW e \in D
      PROVE  \E k \in 1 .. Len(f) : \E short \in BOOLEAN : f[k] = OpOf(e, req, short)
  <2>1. PICK i \in 1 .. n : e \in E[i]
    BY DEF D, ValuesOf
  <2>2. PICK j \in 1 .. Len(s[i]) : \E short \in BOOLEAN : s[i][j] = OpOf(e, req, short)
    BY <2>1 DEF Covers
  <2>3. o[i - 1] + j \in 1 .. Len(f) /\ f[o[i - 1] + j] = s[i][j]
    BY <1>3 DEF Tiles
  <2> QED
    BY <2>2, <2>3
<1>5. ASSUME NEW i \in 1 .. n, NEW j \in 1 .. Len(s[i])
      PROVE  \E e \in E[i] : \E short \in BOOLEAN : s[i][j] = OpOf(e, req, short)
  <2>1. s[i] \in Seq(OpsOf(req, E[i]))
    BY <1>1
  <2> DEFINE R == OpsOf(req, E[i])
             t == s[i]
  <2> HIDE DEF R, t
  <2>2. t \in Seq(R) /\ j \in 1 .. Len(t)
    BY <2>1 DEF R, t
  <2>3. t[j] \in R
    BY <2>2
  <2> QED
    BY <2>3, Zenon DEF R, t, OpsOf
<1>6. ASSUME NEW x \in 1 .. Len(f), NEW y \in 1 .. Len(f), Placing(f[x]) = Placing(f[y]) PROVE x = y
  <2>1. PICK i \in 1 .. n : \E j \in 1 .. Len(s[i]) : x = o[i - 1] + j
    BY <1>3 DEF Tiles
  <2>2. PICK j \in 1 .. Len(s[i]) : x = o[i - 1] + j
    BY <2>1
  <2>3. PICK k \in 1 .. n : \E l \in 1 .. Len(s[k]) : y = o[k - 1] + l
    BY <1>3 DEF Tiles
  <2>4. PICK l \in 1 .. Len(s[k]) : y = o[k - 1] + l
    BY <2>3
  <2>5. f[x] = s[i][j] /\ f[y] = s[k][l]
    BY <1>3, <2>2, <2>4 DEF Tiles
  <2>6. PICK e \in E[i], a \in BOOLEAN : s[i][j] = OpOf(e, req, a)
    BY <1>5
  <2>7. PICK d \in E[k], b \in BOOLEAN : s[k][l] = OpOf(d, req, b)
    BY <1>5
  <2>8. Placing(OpOf(e, req, a)) = Placing(OpOf(d, req, b))
    BY <1>6, <2>5, <2>6, <2>7
  <2>9. Place(e) = Place(d)
    BY <2>8, PlacingIs
  <2>10. i = k
    BY <2>9
  <2>11. Placing(s[i][j]) = Placing(s[i][l]) /\ l \in 1 .. Len(s[i])
    BY <1>6, <2>5, <2>10
  <2>12. j = l
    BY <2>11 DEF Covers
  <2> QED
    BY <2>2, <2>4, <2>10, <2>12
<1> QED
  BY <1>3, <1>4, <1>6 DEF Covers, S, D, f

----------------------------------------------------------------------------
\* What the steps of a plan that is ok rest on.

SegAllowed(plan, seg) ==
  /\ seg.part \in DOMAIN plan.req.parts
  /\ seg.run.source \in Indices /\ seg.run.at \in Nat /\ seg.run.num \in Nat \ {0} /\ seg.from \in Nat
  /\ MetaEnd <= seg.run.at /\ seg.run.at + seg.run.num <= Limit(Device(Devs, seg.run.source))
  /\ \A k \in 1 .. seg.run.num : seg.from + k \in 1 .. plan.req.parts[seg.part].len

\* What a plan that is carried out keeps to.
LEMMA PlanFacts ==
  ASSUME NEW plan \in Plans, plan.ok
  PROVE  /\ SpecsFit /\ plan.req \in Requests /\ SoundPlan(plan)
         /\ plan.segments \in Seq(SegRec)
         /\ \A j \in DOMAIN plan.segments : SegAllowed(plan, plan.segments[j])
         /\ \A j, l \in DOMAIN plan.segments :
              j # l => Blocks(plan.segments[j].run) \cap Blocks(plan.segments[l].run) = {}
<1>1. PICK req \in Requests : plan = PlanOf(req)
  BY DEF Plans
<1> DEFINE parts == req.parts
           n == Len(parts)
           segs == plan.segments
<1>2. n \in Nat /\ DOMAIN parts = 1 .. n /\ \A i \in 1 .. n : parts[i] \in PartRec
  BY RequestFacts
<1>3. PlanInv(req, n, plan)
  <2>1. PICK g : PlanOf(req) = g[n] /\ \A k \in 0 .. n : PlanInv(req, k, g[k])
    BY PlanOfIs
  <2>2. n \in 0 .. n
    BY <1>2
  <2> QED
    BY <1>1, <2>1, <2>2
<1> HIDE DEF n
<1>4. /\ SpecsFit /\ RunsAllowed(req, n, segs) /\ HoldsPayload(req, n, segs)
      /\ plan.req = req /\ segs \in Seq(SegRec)
  BY <1>3 DEF PlanInv, PlanRec
<1> HIDE DEF segs, parts
<1>5. ASSUME NEW j \in DOMAIN segs PROVE SegAllowed(plan, segs[j])
  <2> DEFINE seg == segs[j]
             r == seg.run
             dev == Device(Devs, r.source)
  <2>1. seg \in SegRec
    BY <1>4
  <2>2. seg.from \in Nat /\ r \in RunRec /\ seg.part \in 1 .. n /\ Placed(<<>>, Devs, r)
    BY <1>4, <2>1 DEF RunsAllowed, SegRec
  <2> HIDE DEF seg, r
  <2>3. r.at \in Nat /\ r.num \in Nat \ {0}
    BY <2>2 DEF RunRec
  <2>4. r.source \in Indices
    BY <2>2, DevsFacts DEF Placed
  <2>5. r.at >= dev.first /\ (Limit(dev) > 0 => r.at + r.num <= Limit(dev))
    BY <2>2 DEF Placed, Legal, IsRangeFree
  <2>6. Limit(dev) \in Nat \ {0} /\ dev.first \in Nat /\ MetaEnd \in Nat /\ MetaEnd <= dev.first
    BY <1>4, <2>4, SectorsHold
  <2> DEFINE lim == Limit(dev)
             first == dev.first
  <2> HIDE DEF lim, first
  <2>7. MetaEnd <= r.at /\ r.at + r.num <= lim
    BY <2>3, <2>5, <2>6 DEF lim, first
  <2>8. ASSUME NEW k \in 1 .. r.num PROVE seg.from + k \in 1 .. parts[seg.part].len
    <3>1. seg.from + k \in Slice(seg)
      BY DEF Slice, r
    <3>2. seg.from + k \in SlicesOf(segs, seg.part)
      BY <3>1 DEF SlicesOf, OfPart, seg
    <3>3. SlicesOf(segs, seg.part) = 1 .. parts[seg.part].len
      BY <1>4, <2>2 DEF HoldsPayload, parts
    <3> QED
      BY <3>2, <3>3
  <2>9. seg.part \in DOMAIN parts
    BY <1>2, <2>2
  <2>10. seg.run = r /\ plan.req.parts = parts
    BY <1>4 DEF r, parts
  <2> QED
    BY <2>2, <2>3, <2>4, <2>7, <2>8, <2>9, <2>10, Zenon DEF SegAllowed, seg, lim
<1>6. SoundPlan(plan)
  BY <1>1, SoundPlanOf
<1> QED
  BY <1>4, <1>5, <1>6 DEF RunsAllowed, segs

\* A list of writes at different places covers its entries.
LEMMA OneCovers ==
  ASSUME NEW req, NEW n \in Nat, NEW e, NEW b, NEW f,
         \A k \in 1 .. n : b[k] \in BOOLEAN,
         ListOf(f, n), \A k \in 1 .. n : f[k] = OpOf(e[k], req, b[k]),
         \A j, k \in 1 .. n : Place(e[j]) = Place(e[k]) => j = k
  PROVE  Covers(f, req, ValuesOf(e, n)) /\ Len(f) = n
<1> DEFINE E == ValuesOf(e, n)
           S == OpsOf(req, E)
<1>1. ASSUME NEW k \in 1 .. n PROVE f[k] = OpOf(e[k], req, b[k]) /\ f[k] \in S
  <2>1. f[k] = OpOf(e[k], req, b[k])
    OBVIOUS
  <2>2. e[k] \in E
    BY DEF ValuesOf
  <2> HIDE DEF E
  <2> QED
    BY <2>1, <2>2, OpIsIn
<1> HIDE DEF S, E
<1>2. f \in Seq(S) /\ Len(f) = n
  <2>1. f = [k \in 1 .. n |-> f[k]]
    BY DEF ListOf
  <2>2. f \in [1 .. n -> S]
    BY <1>1, <2>1
  <2>3. f \in Seq(S)
    BY <2>2, SeqDef
  <2> QED
    BY <2>2, <2>3
<1>3. \A x \in E : \E k \in 1 .. Len(f) : \E short \in BOOLEAN : f[k] = OpOf(x, req, short)
  <2> SUFFICES ASSUME NEW x \in E
               PROVE  \E k \in 1 .. Len(f) : \E short \in BOOLEAN : f[k] = OpOf(x, req, short)
    OBVIOUS
  <2>1. PICK k \in 1 .. n : x = e[k]
    BY DEF E, ValuesOf
  <2>2. f[k] = OpOf(x, req, b[k]) /\ b[k] \in BOOLEAN /\ k \in 1 .. Len(f)
    BY <1>1, <1>2, <2>1
  <2> QED
    BY <2>2, Zenon
<1>4. ASSUME NEW j \in 1 .. Len(f), NEW k \in 1 .. Len(f), Placing(f[j]) = Placing(f[k]) PROVE j = k
  <2>1. j \in 1 .. n /\ k \in 1 .. n
    BY <1>2
  <2>2. Placing(OpOf(e[j], req, b[j])) = Placing(OpOf(e[k], req, b[k]))
    BY <1>1, <1>4, <2>1, Zenon
  <2>3. Place(e[j]) = Place(e[k])
    BY <2>2, PlacingIs
  <2> QED
    BY <2>1, <2>3
<1> QED
  BY <1>2, <1>3, <1>4 DEF Covers, S, E

\* A segment is written sector by sector.
LEMMA SegmentCovers ==
  ASSUME NEW run, NEW plan \in Plans, plan.ok, NEW j \in DOMAIN plan.segments
  PROVE  Covers(CopySegment(run, plan.segments[j], plan.req), plan.req, SegEntries(run, plan.segments[j]))
<1> DEFINE seg == plan.segments[j]
           req == plan.req
           n == seg.run.num
           part == req.parts[seg.part]
           e == [k \in 1 .. n |-> SegEntry(run, seg, k)]
           b == [k \in 1 .. n |-> part.short /\ seg.from + k = part.len]
           f == [k \in 1 .. n |-> OpOf(e[k], req, b[k])]
<1>1. n \in Nat /\ seg.run.at \in Nat
  BY PlanFacts DEF SegAllowed
<1>2. CopySegment(run, seg, req) = f
  <2>1. ASSUME NEW k \in 1 .. n
        PROVE  [Write(Raw(seg.run.source, req), seg.run.at + k - 1, Payload(run, seg.part, seg.from + k))
                  EXCEPT !.short = part.short /\ seg.from + k = part.len] = OpOf(e[k], req, b[k])
    <3> DEFINE x == part.short /\ seg.from + k = part.len
               y == SegEntry(run, seg, k)
    <3>1. e[k] = y /\ b[k] = x
      OBVIOUS
    <3>2. y[1] = seg.run.source /\ y[2] = seg.run.at + k - 1 /\ y[3] = Payload(run, seg.part, seg.from + k)
      BY DEF SegEntry
    <3> HIDE DEF x, y, e, b
    <3>3. [Write(Raw(y[1], req), y[2], y[3]) EXCEPT !.short = x] = OpOf(y, req, x)
      BY DEF Write, OpOf
    <3> QED
      BY <3>1, <3>2, <3>3, Zenon DEF x
  <2> HIDE DEF e, b
  <2> QED
    BY <2>1 DEF CopySegment
<1>3. \A k \in 1 .. n : b[k] \in BOOLEAN
  OBVIOUS
<1>4. \A k \in 1 .. n : e[k] = SegEntry(run, seg, k)
  OBVIOUS
<1> HIDE DEF e, b, seg, n
<1>5. \A k, l \in 1 .. n : Place(e[k]) = Place(e[l]) => k = l
  <2> SUFFICES ASSUME NEW k \in 1 .. n, NEW l \in 1 .. n, Place(e[k]) = Place(e[l]) PROVE k = l
    OBVIOUS
  <2>1. e[k][2] = e[l][2]
    BY DEF Place
  <2>2. e[k][2] = seg.run.at + k - 1 /\ e[l][2] = seg.run.at + l - 1
    BY <1>4 DEF SegEntry
  <2> DEFINE at == seg.run.at
  <2>3. at \in Nat /\ at + k - 1 = at + l - 1
    BY <1>1, <2>1, <2>2
  <2> HIDE DEF at
  <2> QED
    BY <1>1, <2>3
<1>8. ListOf(f, n) /\ \A k \in 1 .. n : f[k] = OpOf(e[k], req, b[k])
  BY DEF ListOf
<1> HIDE DEF f
<1>6. Covers(f, req, ValuesOf(e, n))
  <2> HIDE DEF req
  <2> QED
    BY <1>1, <1>3, <1>5, <1>8, OneCovers
<1>7. SegEntries(run, seg) = ValuesOf(e, n)
  BY <1>4 DEF SegEntries, n, ValuesOf
<1> QED
  BY <1>2, <1>6, <1>7, Zenon DEF seg

\* The payload is written segment by segment.
LEMMA CopyCovers ==
  ASSUME NEW run, NEW plan \in Plans, plan.ok
  PROVE  Covers(CopyPayload(run, plan), plan.req, Payloads(run, plan))
<1> DEFINE segs == plan.segments
           n == Len(segs)
           s == [i \in DOMAIN segs |-> CopySegment(run, segs[i], plan.req)]
           E == [i \in DOMAIN segs |-> SegEntries(run, segs[i])]
<1>1. n \in Nat /\ DOMAIN segs = 1 .. n
  BY PlanFacts
<1>2. CopyPayload(run, plan) = SeqX!FlattenSeq(s)
  BY DEF CopyPayload
<1>3. ListOf(s, n)
  BY <1>1 DEF ListOf
<1>4. ASSUME NEW i \in 1 .. n PROVE Covers(s[i], plan.req, E[i])
  <2>1. s[i] = CopySegment(run, segs[i], plan.req) /\ E[i] = SegEntries(run, segs[i])
    BY <1>1
  <2> HIDE DEF s, E
  <2> QED
    BY <1>1, <2>1, SegmentCovers
<1>5. ASSUME NEW i \in 1 .. n, NEW j \in 1 .. n, i # j, NEW e \in E[i], NEW d \in E[j]
      PROVE  Place(e) # Place(d)
  <2>1. \A k \in 1 .. n : \A x \in E[k] : Place(x) \in Blocks(segs[k].run)
    <3> SUFFICES ASSUME NEW k \in 1 .. n, NEW x \in E[k] PROVE Place(x) \in Blocks(segs[k].run)
      OBVIOUS
    <3> DEFINE seg == segs[k]
    <3>1. PICK m \in 1 .. seg.run.num : x = SegEntry(run, seg, m)
      BY <1>1 DEF SegEntries
    <3>2. seg.run.at \in Nat /\ seg.run.num \in Nat
      BY <1>1, PlanFacts DEF SegAllowed
    <3>3. Place(x) = <<seg.run.source, seg.run.at + m - 1>>
      BY <3>1 DEF Place, SegEntry
    <3> DEFINE r == seg.run
               t == r.at + m - 1
    <3>5. r.at \in Nat /\ r.num \in Nat /\ m \in 1 .. r.num
      BY <3>2
    <3>6. Place(x) = <<r.source, t>>
      BY <3>3
    <3>7. Blocks(r) = Blocks(segs[k].run)
      OBVIOUS
    <3> DEFINE a == r.at
               c == r.num
    <3>8. a \in Nat /\ c \in Nat /\ m \in 1 .. c
      BY <3>5
    <3> HIDE DEF a, c, r
    <3>9. a + m - 1 \in a .. a + c - 1
      BY <3>8
    <3>4. t \in r.at .. r.at + r.num - 1
      BY <3>9 DEF a, c
    <3> HIDE DEF t
    <3> QED
      BY <3>4, <3>6, <3>7 DEF Blocks
  <2>2. Blocks(segs[i].run) \cap Blocks(segs[j].run) = {}
    BY <1>1, <1>5, PlanFacts
  <2> QED
    BY <1>5, <2>1, <2>2
<1>6. Payloads(run, plan) = UNION ValuesOf(E, n)
  BY <1>1 DEF Payloads, ValuesOf
<1> HIDE DEF E, s, n
<1>8. \A i \in 1 .. n : Covers(s[i], plan.req, E[i])
  BY <1>4
<1>9. \A i, j \in 1 .. n : i # j => \A e \in E[i] : \A d \in E[j] : Place(e) # Place(d)
  BY <1>5
<1>7. Covers(SeqX!FlattenSeq(s), plan.req, UNION ValuesOf(E, n))
  BY <1>1, <1>3, <1>8, <1>9, CoversFlattened
<1> QED
  BY <1>2, <1>6, <1>7

\* The target slots of a request are slots.
LEMMA RequestSlots ==
  ASSUME NEW req \in Requests
  PROVE  req.slots \subseteq Slots /\ req.sparse \in BOOLEAN
BY RequestsAssumption, Zenon DEF Slots

SlotEntries(run, s) == {<<0, PrimaryAt(s), TableOf(run)>>, <<0, BackupAt(s), TableOf(run)>>}

\* A slot is written as its two copies.
LEMMA SlotCovers ==
  ASSUME NEW run, NEW req, NEW s \in Slots
  PROVE  Covers(WriteSlot(run, s, req), req, SlotEntries(run, s))
<1> DEFINE a == <<0, PrimaryAt(s), TableOf(run)>>
           b == <<0, BackupAt(s), TableOf(run)>>
           p == OpOf(a, req, FALSE)
           q == OpOf(b, req, FALSE)
           e == <<a, b>>
           c == <<FALSE, FALSE>>
<1>1. p = Write(Raw(0, req), PrimaryAt(s), TableOf(run)) /\ q = Write(Raw(0, req), BackupAt(s), TableOf(run))
  BY DEF OpOf, Write
<1>2. WriteSlot(run, s, req) = <<p, q>>
  BY <1>1 DEF WriteSlot
<1>3. PrimaryAt(s) # BackupAt(s)
  <2>1. s # SlotCount + s
    BY LayoutAssumption DEF Slots
  <2> QED
    BY <2>1, TableAtFacts
<1>4. a[2] = PrimaryAt(s) /\ b[2] = BackupAt(s) /\ SlotEntries(run, s) = {a, b}
  BY DEF SlotEntries
<1>5. p = OpOf(a, req, FALSE) /\ q = OpOf(b, req, FALSE)
  OBVIOUS
<1> HIDE DEF a, b, p, q
<1>6. Place(a) # Place(b)
  BY <1>3, <1>4 DEF Place
<1> DEFINE f == <<p, q>>
<1>7. ListOf(f, 2) /\ f[1] = p /\ f[2] = q /\ e[1] = a /\ e[2] = b
  BY DEF ListOf
<1>8. \A k \in 1 .. 2 : k = 1 \/ k = 2
  OBVIOUS
<1>9. ValuesOf(e, 2) = {a, b}
  <2>1. 1 \in 1 .. 2 /\ 2 \in 1 .. 2
    OBVIOUS
  <2> HIDE DEF e
  <2> QED
    BY <1>7, <1>8, <2>1 DEF ValuesOf
<1>10. c[1] = FALSE /\ c[2] = FALSE
  OBVIOUS
<1> HIDE DEF e, f, c
<1>11. \A k \in 1 .. 2 : c[k] \in BOOLEAN
  BY <1>8, <1>10, Zenon
<1>12. \A k \in 1 .. 2 : f[k] = OpOf(e[k], req, c[k])
  BY <1>5, <1>7, <1>8, <1>10, Zenon
<1>13. \A j, k \in 1 .. 2 : Place(e[j]) = Place(e[k]) => j = k
  BY <1>6, <1>7, <1>8
<1>14. 2 \in Nat
  OBVIOUS
<1>15. Covers(f, req, ValuesOf(e, 2))
  BY <1>7, <1>11, <1>12, <1>13, <1>14, OneCovers
<1> QED
  BY <1>2, <1>4, <1>9, <1>15 DEF f

\* No write covers no entry.
LEMMA NothingCovers == ASSUME NEW req PROVE Covers(<<>>, req, {})
BY DEF Covers

\* The tables are written slot by slot.
LEMMA SlotsCover ==
  ASSUME NEW run, NEW req \in Requests
  PROVE  Covers(WriteSlots(run, req), req, Tables(run, req))
<1> DEFINE n == SlotCount
           s == [i \in 1 .. SlotCount |-> IF i - 1 \in req.slots THEN WriteSlot(run, i - 1, req) ELSE <<>>]
           E == [i \in 1 .. SlotCount |-> IF i - 1 \in req.slots THEN SlotEntries(run, i - 1) ELSE {}]
<1>1. n \in Nat /\ ListOf(s, n)
  BY LayoutAssumption DEF ListOf
<1>2. WriteSlots(run, req) = SeqX!FlattenSeq(s)
  BY DEF WriteSlots
<1>3. ASSUME NEW i \in 1 .. n PROVE Covers(s[i], req, E[i])
  <2>1. CASE i - 1 \in req.slots
    <3>1. s[i] = WriteSlot(run, i - 1, req) /\ E[i] = SlotEntries(run, i - 1) /\ i - 1 \in Slots
      BY <2>1, RequestSlots
    <3> QED
      BY <3>1, SlotCovers
  <2>2. CASE i - 1 \notin req.slots
    <3>1. s[i] = <<>> /\ E[i] = {}
      BY <2>2
    <3> QED
      BY <3>1, NothingCovers
  <2> QED
    BY <2>1, <2>2
<1>4. ASSUME NEW i \in 1 .. n, NEW e \in E[i]
      PROVE  /\ i - 1 \in req.slots /\ i - 1 \in Slots
             /\ Place(e)[2] \in {TableAt(i - 1), TableAt(SlotCount + (i - 1))}
  <2>1. i - 1 \in req.slots /\ E[i] = SlotEntries(run, i - 1)
    OBVIOUS
  <2>2. i - 1 \in Slots
    BY <2>1, RequestSlots
  <2>3. e[2] \in {PrimaryAt(i - 1), BackupAt(i - 1)}
    BY <2>1 DEF SlotEntries
  <2> QED
    BY <2>1, <2>2, <2>3, TableAtFacts DEF Place
<1>5. ASSUME NEW i \in 1 .. n, NEW j \in 1 .. n, i # j, NEW e \in E[i], NEW d \in E[j]
      PROVE  Place(e) # Place(d)
  <2> DEFINE a == i - 1
             b == j - 1
  <2>1. /\ a \in Slots /\ b \in Slots /\ Place(e)[2] \in {TableAt(a), TableAt(SlotCount + a)}
        /\ Place(d)[2] \in {TableAt(b), TableAt(SlotCount + b)}
    BY <1>4
  <2>2. a # b
    BY <1>5
  <2> HIDE DEF a, b
  <2>3. /\ a \in 0 .. 2 * SlotCount - 1 /\ SlotCount + a \in 0 .. 2 * SlotCount - 1
        /\ b \in 0 .. 2 * SlotCount - 1 /\ SlotCount + b \in 0 .. 2 * SlotCount - 1
    BY <2>1, TableAtFacts
  <2>4. a # b /\ a # SlotCount + b /\ SlotCount + a # b /\ SlotCount + a # SlotCount + b
    BY <2>1, <2>2, LayoutAssumption DEF Slots
  <2>5. {TableAt(a), TableAt(SlotCount + a)} \cap {TableAt(b), TableAt(SlotCount + b)} = {}
    BY <2>3, <2>4, TableAtFacts
  <2> QED
    BY <2>1, <2>5
<1>6. Tables(run, req) = UNION ValuesOf(E, n)
  <2>1. ASSUME NEW e \in Tables(run, req) PROVE e \in UNION ValuesOf(E, n)
    <3>1. PICK t \in SlotSectors(req) : e = <<0, t, TableOf(run)>>
      BY DEF Tables
    <3>2. PICK k \in req.slots : t \in {PrimaryAt(k), BackupAt(k)}
      BY DEF SlotSectors
    <3>3. k + 1 \in 1 .. n /\ (k + 1) - 1 = k
      BY RequestSlots, LayoutAssumption DEF Slots
    <3>4. E[k + 1] = SlotEntries(run, k)
      BY <3>3
    <3>5. e \in E[k + 1]
      BY <3>1, <3>2, <3>4 DEF SlotEntries
    <3> HIDE DEF E
    <3> QED
      BY <3>3, <3>5 DEF ValuesOf
  <2>2. ASSUME NEW e \in UNION ValuesOf(E, n) PROVE e \in Tables(run, req)
    <3>1. PICK i \in 1 .. n : e \in E[i]
      BY DEF ValuesOf
    <3>2. i - 1 \in req.slots /\ E[i] = SlotEntries(run, i - 1)
      BY <3>1
    <3>3. e \in SlotEntries(run, i - 1)
      BY <3>1, <3>2
    <3> DEFINE k == i - 1
    <3> HIDE DEF k
    <3>4. k \in req.slots /\ e \in SlotEntries(run, k)
      BY <3>2, <3>3 DEF k
    <3>5. PrimaryAt(k) \in SlotSectors(req) /\ BackupAt(k) \in SlotSectors(req)
      BY <3>4 DEF SlotSectors
    <3> QED
      BY <3>4, <3>5 DEF SlotEntries, Tables
  <2> HIDE DEF E
  <2> QED
    BY <2>1, <2>2
<1> HIDE DEF E, s
<1>7. \A i \in 1 .. n : Covers(s[i], req, E[i])
  BY <1>3
<1>8. \A i, j \in 1 .. n : i # j => \A e \in E[i] : \A d \in E[j] : Place(e) # Place(d)
  BY <1>5
<1> HIDE DEF n
<1>9. Covers(SeqX!FlattenSeq(s), req, UNION ValuesOf(E, n))
  BY <1>1, <1>7, <1>8, CoversFlattened
<1> QED
  BY <1>2, <1>6, <1>9

----------------------------------------------------------------------------
\* What a run has done so far.

Writes(run, plan) == WriteGeometry(run, plan.req) \o CopyPayload(run, plan) \o WriteSlots(run, plan.req)

\* The raw image of a device after the first m of them.
Hits(run, plan, d, m, s) ==
  {k \in 1 .. m : /\ Writes(run, plan)[k].path = Raw(d, plan.req)
                  /\ Writes(run, plan)[k].at = s}
ImageAfter(run, plan, d, m) ==
  [s \in Sectors(d) |->
     IF Hits(run, plan, d, m, s) = {} THEN Blank
     ELSE Writes(run, plan)[CHOOSE k \in Hits(run, plan, d, m, s) : TRUE].cell]
Built(run, plan, d) == ImageAfter(run, plan, d, Len(Writes(run, plan)))

\* An output that has been blanked, as far as a step blanks it.
Blanked(op) ==
  IF op.do = "create" THEN disk[op.path] = {Sized(op.path[2], Blank)}
  ELSE \A f \in disk[op.path] : f[op.at] = Blank

Blanking(plan, n) == \A k \in 1 .. n : Blanked(BlankOutputs(plan.req)[k])

Writing(run, plan, m) == \A d \in Indices : disk[Raw(d, plan.req)] = {ImageAfter(run, plan, d, m)}

Did(plan, m, op) == \E k \in 1 .. m : ConvertOutputs(plan.req)[k] = op
Converting(run, plan, m) ==
  \A d \in Indices :
    /\ ~plan.req.sparse \/ Did(plan, m, Convert(d)) => disk[Out(d)] = {Built(run, plan, d)}
    /\ plan.req.sparse /\ ~Did(plan, m, Unlink(Staging(d))) => disk[Staging(d)] = {Built(run, plan, d)}

\* What is left of a sequence after the first n.
After(s, n) == [k \in 1 .. Len(s) - n |-> s[n + k]]

Progress(run, plan) ==
  LET B == BlankOutputs(plan.req)
      W == Writes(run, plan)
      V == ConvertOutputs(plan.req)
      P == Program(run, plan)
  IN \/ \E n \in 0 .. Len(B) : todo = After(P, n) /\ Blanking(plan, n)
     \/ \E m \in 0 .. Len(W) : todo = After(P, Len(B) + m) /\ Writing(run, plan, m)
     \/ \E m \in 0 .. Len(V) : todo = After(P, Len(B) + Len(W) + m) /\ Converting(run, plan, m)

Running ==
  exit = "running" =>
    LET run == Len(made)
        plan == made[run]
    IN /\ made # <<>> /\ plan.ok
       /\ plan.req.sparse => blocks = {}
       /\ Progress(run, plan)

\* What a sector may hold.
IsCell(c) ==
  \/ c \in {Blank, Junk}
  \/ \E run \in DOMAIN made :
       \/ \E kind \in Kinds : c = <<run, kind>>
       \/ \E i \in DOMAIN made[run].req.parts :
            \E k \in 1 .. made[run].req.parts[i].len : c = Payload(run, i, k)
IsFile(f, d) == f = [s \in Sectors(d) |-> f[s]] /\ \A s \in Sectors(d) : IsCell(f[s])

Typed ==
  /\ blocks \subseteq Indices
  /\ made \in Seq(Plans)
  /\ exit \in {"none", "running", Success, Failure, Stopped}
  /\ disk = [p \in Paths |-> disk[p]]
  /\ \A p \in Paths : disk[p] = {} \/ \E f \in disk[p] : disk[p] = {f} /\ (f = NoImage \/ IsFile(f, p[2]))
  /\ \A d \in blocks : \E f \in disk[Out(d)] : disk[Out(d)] = {f} /\ IsFile(f, d)

\* Nothing is ever written if a device does not fit.
UnfitUntouched ==
  ~SpecsFit => exit # "running" /\ \A p \in Paths : \A f \in disk[p] : f = Sized(p[2], Junk)

\* Where tables are, and the runs whose tables are there.
TableSectors == {PrimaryAt(s) : s \in Slots} \cup {BackupAt(s) : s \in Slots}
Marked(run) == \E f \in disk[Out(0)] : \E s \in TableSectors \cap DOMAIN f : f[s] = TableOf(run)
Reach(run) == IF made[run].req.sparse THEN {0} ELSE Indices
MarkedIsWhole == \A run \in DOMAIN made : Marked(run) => made[run].ok /\ WholeOn(run, Reach(run))

MakeInv == Typed /\ UnfitUntouched /\ Running /\ MarkedIsWhole /\ SuccessIsBuilt

\* There is a primary device.
LEMMA ZeroIsDevice == 0 \in Indices /\ Indices \subseteq Nat
BY SpecsAssumption DEF Indices

\* Geometry before tables before payload, on the primary device.
LEMMA EntryPlaces ==
  ASSUME NEW run, NEW plan \in Plans, plan.ok
  PROVE  /\ \A e \in Geometries(run) : e[1] = 0 /\ e[2] \in Nat /\ e[2] < MetadataBase
         /\ \A e \in Tables(run, plan.req) :
              e[1] = 0 /\ e[2] \in Nat /\ MetadataBase <= e[2] /\ e[2] < MetaEnd /\ e[2] \in TableSectors
         /\ \A e \in Payloads(run, plan) :
              e[1] \in Indices /\ e[2] \in Nat /\ MetaEnd <= e[2] /\ e[2] < Limit(Device(Devs, e[1]))
<1>1. ASSUME NEW e \in Geometries(run) PROVE e[1] = 0 /\ e[2] \in Nat /\ e[2] < MetadataBase
  <2>1. MetadataBase \in Nat
    BY TableAtFacts
  <2>2. e[1] = 0 /\ e[2] \in {GeometryPrimary, GeometryBackup}
    BY DEF Geometries
  <2> QED
    BY <2>1, <2>2, GeometryFacts
<1>2. ASSUME NEW e \in Tables(run, plan.req)
      PROVE  e[1] = 0 /\ e[2] \in Nat /\ MetadataBase <= e[2] /\ e[2] < MetaEnd /\ e[2] \in TableSectors
  <2>1. PICK t \in SlotSectors(plan.req) : e = <<0, t, TableOf(run)>>
    BY DEF Tables
  <2>2. PICK s \in plan.req.slots : t = PrimaryAt(s) \/ t = BackupAt(s)
    BY DEF SlotSectors
  <2>3. s \in Slots
    BY PlanFacts, RequestSlots
  <2>4. t \in TableSectors
    BY <2>2, <2>3 DEF TableSectors
  <2>5. PICK n \in 0 .. 2 * SlotCount - 1 : t = TableAt(n)
    BY <2>2, <2>3, TableAtFacts
  <2>6. /\ TableAt(n) \in Nat /\ MetadataBase <= TableAt(n) /\ TableAt(n) + CopySectors <= MetaEnd
        /\ CopySectors \in Nat \ {0}
    BY TableAtFacts
  <2>7. MetaEnd \in Nat
    BY PlanFacts, SectorsHold, ZeroIsDevice
  <2>8. TableAt(n) < MetaEnd
    BY <2>6, <2>7
  <2> QED
    BY <2>1, <2>4, <2>5, <2>6, <2>8
<1>3. ASSUME NEW e \in Payloads(run, plan)
      PROVE  e[1] \in Indices /\ e[2] \in Nat /\ MetaEnd <= e[2] /\ e[2] < Limit(Device(Devs, e[1]))
  <2>1. PICK j \in DOMAIN plan.segments : e \in SegEntries(run, plan.segments[j])
    BY DEF Payloads
  <2> DEFINE seg == plan.segments[j]
             r == seg.run
  <2>2. PICK k \in 1 .. r.num : e = SegEntry(run, seg, k)
    BY <2>1 DEF SegEntries
  <2>3. e[1] = r.source /\ e[2] = r.at + k - 1
    BY <2>2 DEF SegEntry
  <2>4. /\ r.source \in Indices /\ r.at \in Nat /\ r.num \in Nat
        /\ MetaEnd <= r.at /\ r.at + r.num <= Limit(Device(Devs, r.source))
    BY PlanFacts DEF SegAllowed
  <2>5. Limit(Device(Devs, r.source)) \in Nat /\ MetaEnd \in Nat
    BY <2>4, PlanFacts, SectorsHold
  <2> DEFINE at == r.at
             num == r.num
             lim == Limit(Device(Devs, r.source))
  <2>6. at \in Nat /\ num \in Nat /\ lim \in Nat /\ MetaEnd <= at /\ at + num <= lim /\ k \in 1 .. num
    BY <2>4, <2>5
  <2>7. e[2] = at + k - 1
    BY <2>3
  <2> HIDE DEF at, num, lim
  <2>8. at + k - 1 \in Nat /\ MetaEnd <= at + k - 1 /\ at + k - 1 < lim
    BY <2>5, <2>6
  <2>9. e[2] \in Nat /\ MetaEnd <= e[2] /\ e[2] < lim
    BY <2>7, <2>8
  <2> QED
    BY <2>3, <2>4, <2>9 DEF lim
<1> QED
  BY <1>1, <1>2, <1>3

\* Every entry is on its device.
LEMMA EntriesFit ==
  ASSUME NEW run, NEW plan \in Plans, plan.ok, NEW e \in Entries(run, plan)
  PROVE  e[1] \in Indices /\ e[2] \in Sectors(e[1])
<1> DEFINE lim == Limit(Device(Devs, e[1]))
<1>1. e[1] \in Indices /\ e[2] \in Nat /\ (e[2] < lim \/ e[2] < MetaEnd)
  <2>1. CASE e \in Geometries(run)
    <3>1. e[1] = 0 /\ e[2] \in Nat /\ e[2] < MetadataBase
      BY <2>1, EntryPlaces
    <3>2. MetadataBase < MetaEnd /\ MetaEnd \in Nat /\ MetadataBase \in Nat
      BY PlanFacts, GeometryFacts, SectorsHold, ZeroIsDevice, TableAtFacts
    <3> QED
      BY <3>1, <3>2, ZeroIsDevice
  <2>2. CASE e \in Tables(run, plan.req)
    BY <2>2, EntryPlaces, ZeroIsDevice
  <2>3. CASE e \in Payloads(run, plan)
    BY <2>3, EntryPlaces
  <2> QED
    BY <2>1, <2>2, <2>3 DEF Entries
<1>2. lim \in Nat /\ MetaEnd \in Nat /\ MetaEnd < lim
  BY <1>1, PlanFacts, SectorsHold
<1>3. Sectors(e[1]) = 0 .. lim - 1
  BY DEF Sectors
<1> HIDE DEF lim
<1>4. e[2] < lim
  BY <1>1, <1>2
<1> QED
  BY <1>1, <1>2, <1>3, <1>4

\* Geometry, payload and tables are written entry by entry, no place twice, and
\* the payload before any table.
LEMMA WriteFacts ==
  ASSUME NEW run, NEW plan \in Plans, plan.ok
  PROVE  LET W == Writes(run, plan)
         IN /\ Covers(W, plan.req, Entries(run, plan)) /\ Len(W) \in Nat
            /\ \E c \in Nat : \A k \in 1 .. Len(W) :
                 /\ k <= c => W[k] \in OpsOf(plan.req, Geometries(run) \cup Payloads(run, plan))
                 /\ k > c => W[k] \in OpsOf(plan.req, Tables(run, plan.req))
<1> DEFINE req == plan.req
           G == WriteGeometry(run, req)
           C == CopyPayload(run, plan)
           T == WriteSlots(run, req)
           EG == Geometries(run)
           EC == Payloads(run, plan)
           ET == Tables(run, req)
           W == Writes(run, plan)
<1>0. req \in Requests
  BY PlanFacts
<1>1. Covers(G, req, EG) /\ Covers(C, req, EC) /\ Covers(T, req, ET)
  BY <1>0, GeometryCovers, CopyCovers, SlotsCover
<1>2. W = (G \o C) \o T
  BY DEF Writes
<1>3. MetadataBase \in Nat /\ MetaEnd \in Nat /\ MetadataBase < MetaEnd
  BY PlanFacts, GeometryFacts, SectorsHold, ZeroIsDevice, TableAtFacts
<1>4. \A e \in EG : \A d \in EC : Place(e) # Place(d)
  <2> SUFFICES ASSUME NEW e \in EG, NEW d \in EC PROVE e[2] # d[2]
    BY DEF Place
  <2>1. e[2] \in Nat /\ e[2] < MetadataBase /\ d[2] \in Nat /\ MetaEnd <= d[2]
    BY EntryPlaces
  <2> QED
    BY <1>3, <2>1
<1>5. \A e \in EG \cup EC : \A d \in ET : Place(e) # Place(d)
  <2> SUFFICES ASSUME NEW e \in EG \cup EC, NEW d \in ET PROVE e[2] # d[2]
    BY DEF Place
  <2>1. d[2] \in Nat /\ MetadataBase <= d[2] /\ d[2] < MetaEnd
    BY EntryPlaces
  <2>2. e[2] \in Nat /\ (e[2] < MetadataBase \/ MetaEnd <= e[2])
    BY EntryPlaces
  <2> QED
    BY <1>3, <2>1, <2>2
<1> HIDE DEF G, C, T, EG, EC, ET, W, req
<1>6. /\ Covers(G \o C, req, EG \cup EC)
      /\ Len(G \o C) \in Nat
  <2>1. /\ Covers(G \o C, req, EG \cup EC)
        /\ Len(G) \in Nat /\ Len(C) \in Nat /\ Len(G \o C) = Len(G) + Len(C)
        /\ \A k \in 1 .. Len(G) : (G \o C)[k] \in OpsOf(req, EG)
        /\ \A k \in 1 .. Len(G \o C) : k > Len(G) => (G \o C)[k] \in OpsOf(req, EC)
    BY <1>1, <1>4, CoversJoined
  <2> QED
    BY <2>1
<1> DEFINE X == G \o C
           EX == EG \cup EC
<1> HIDE DEF X, EX
<1>7. Covers(X, req, EX) /\ Len(X) \in Nat /\ W = X \o T /\ \A e \in EX : \A d \in ET : Place(e) # Place(d)
  BY <1>2, <1>5, <1>6 DEF X, EX
<1>8. /\ Covers(X \o T, req, EX \cup ET)
      /\ Len(X) \in Nat /\ Len(T) \in Nat /\ Len(X \o T) = Len(X) + Len(T)
      /\ \A k \in 1 .. Len(X) : (X \o T)[k] \in OpsOf(req, EX)
      /\ \A k \in 1 .. Len(X \o T) : k > Len(X) => (X \o T)[k] \in OpsOf(req, ET)
  BY <1>1, <1>7, CoversJoined
<1>9. \A k \in 1 .. Len(W) : /\ k <= Len(X) => W[k] \in OpsOf(req, EX)
                             /\ k > Len(X) => W[k] \in OpsOf(req, ET)
  <2> SUFFICES ASSUME NEW k \in 1 .. Len(W)
               PROVE  /\ k <= Len(X) => W[k] \in OpsOf(req, EX)
                      /\ k > Len(X) => W[k] \in OpsOf(req, ET)
    OBVIOUS
  <2>1. k <= Len(X) => k \in 1 .. Len(X)
    BY <1>8
  <2> QED
    BY <1>7, <1>8, <2>1
<1>10. Len(W) \in Nat
  BY <1>7, <1>8
<1>11. Covers(W, req, EX \cup ET) /\ EX \cup ET = Entries(run, plan)
  BY <1>7, <1>8 DEF Entries, EX, EG, EC, ET, req
<1> QED
  BY <1>7, <1>9, <1>10, <1>11 DEF W, EX, EG, EC, ET, req

----------------------------------------------------------------------------
\* Blanking.

BlankOps(req) ==
  {Create(Raw(d, req)) : d \in Indices \ blocks}
    \cup UNION {{Write(Out(d), s, Blank) : s \in Sectors(d)} : d \in blocks}

\* How one output is blanked.
LEMMA BlankOutputFacts ==
  ASSUME SpecsFit, blocks \subseteq Indices, NEW req, NEW d \in Indices
  PROVE  LET one == BlankOutput(d, req)
             lim == Limit(Device(Devs, d))
         IN /\ one \in Seq(BlankOps(req)) /\ Len(one) \in Nat
            /\ d \notin blocks => Len(one) = 1 /\ one[1] = Create(Raw(d, req))
            /\ d \in blocks => Len(one) = lim /\ \A k \in 1 .. lim : one[k] = Write(Out(d), k - 1, Blank)
<1> DEFINE one == BlankOutput(d, req)
           lim == Limit(Device(Devs, d))
           S == BlankOps(req)
<1>1. lim \in Nat \ {0}
  BY SectorsHold
<1>2. CASE d \in blocks
  <2>1. one = [k \in 1 .. lim |-> Write(Out(d), k - 1, Blank)]
    BY <1>2 DEF BlankOutput
  <2>2. Sectors(d) = 0 .. lim - 1
    BY DEF Sectors
  <2> HIDE DEF one, lim
  <2>3. ASSUME NEW k \in 1 .. lim PROVE one[k] \in S
    <3>1. one[k] = Write(Out(d), k - 1, Blank) /\ k - 1 \in Sectors(d)
      BY <1>1, <2>1, <2>2
    <3> QED
      BY <1>2, <3>1 DEF BlankOps
  <2> HIDE DEF S
  <2>4. one \in [1 .. lim -> S]
    BY <2>1, <2>3
  <2>5. one \in Seq(S)
    BY <1>1, <2>4, SeqDef
  <2>6. Len(one) = lim
    BY <1>1, <2>4, <2>5
  <2> QED
    BY <1>1, <1>2, <2>1, <2>5, <2>6 DEF one, lim, S
<1>3. CASE d \notin blocks
  <2> DEFINE c == Create(Raw(d, req))
  <2>1. one = <<c>> /\ c \in S
    BY <1>3 DEF BlankOutput, BlankOps
  <2> HIDE DEF one, c, S
  <2>2. one \in Seq(S) /\ Len(one) = 1 /\ one[1] = c
    BY <2>1
  <2> QED
    BY <1>3, <2>2 DEF one, c, S
<1> QED
  BY <1>2, <1>3

\* Every output is blanked, the primary one first and from its start.
LEMMA BlankFacts ==
  ASSUME SpecsFit, blocks \subseteq Indices, NEW req
  PROVE  LET B == BlankOutputs(req)
             lim == Limit(Device(Devs, 0))
         IN /\ B \in Seq(BlankOps(req)) /\ Len(B) \in Nat
            /\ \A d \in Indices \ blocks : \E k \in 1 .. Len(B) : B[k] = Create(Raw(d, req))
            /\ \A d \in blocks : \A s \in Sectors(d) :
                 \E k \in 1 .. Len(B) : B[k] = Write(Out(d), s, Blank)
            /\ 0 \notin blocks => 1 \in 1 .. Len(B) /\ B[1] = Create(Raw(0, req))
            /\ 0 \in blocks => \A k \in 1 .. lim : k \in 1 .. Len(B) /\ B[k] = Write(Out(0), k - 1, Blank)
<1> DEFINE B == BlankOutputs(req)
           s == [i \in DOMAIN Specs |-> BlankOutput(i - 1, req)]
           n == Len(Specs)
           S == BlankOps(req)
           lim == Limit(Device(Devs, 0))
<1>1. n \in Nat \ {0} /\ DOMAIN Specs = 1 .. n
  BY SpecsAssumption
<1>2. ASSUME NEW d \in Indices
      PROVE  d + 1 \in 1 .. n /\ s[d + 1] = BlankOutput(d, req) /\ (d + 1) - 1 = d
  BY <1>1 DEF Indices
<1>3. ASSUME NEW i \in 1 .. n PROVE i - 1 \in Indices /\ s[i] \in Seq(S)
  <2>1. i - 1 \in Indices /\ s[i] = BlankOutput(i - 1, req)
    BY <1>1 DEF Indices
  <2> HIDE DEF s, S
  <2> QED
    BY <2>1, BlankOutputFacts DEF S
<1>4. s = [i \in 1 .. n |-> s[i]]
  BY <1>1
<1>5. B = SeqX!FlattenSeq(s)
  BY DEF BlankOutputs
<1> HIDE DEF s, S, n, B
<1>6. s \in Seq(Seq(S)) /\ Len(s) = n
  <2> DEFINE Q == Seq(S)
  <2>1. \A i \in 1 .. n : s[i] \in Q
    BY <1>3
  <2> HIDE DEF Q
  <2>2. s \in [1 .. n -> Q]
    BY <1>4, <2>1
  <2>3. s \in Seq(Q)
    BY <1>1, <2>2, SeqDef
  <2>4. Len(s) = n
    BY <1>1, <2>2, <2>3
  <2> QED
    BY <2>3, <2>4 DEF Q
<1>7. PICK o : B \in Seq(S) /\ Offsets(s, n, o) /\ Tiles(s, n, o, B)
  BY <1>1, <1>3, <1>5, <1>6, FlattenFacts
<1>8. ASSUME NEW d \in Indices, NEW j \in 1 .. Len(BlankOutput(d, req))
      PROVE  o[d] + j \in 1 .. Len(B) /\ B[o[d] + j] = BlankOutput(d, req)[j]
  <2> DEFINE i == d + 1
  <2>1. i \in 1 .. n /\ j \in 1 .. Len(s[i]) /\ s[i] = BlankOutput(d, req) /\ i - 1 = d
    BY <1>2
  <2> HIDE DEF i
  <2>2. o[i - 1] + j \in 1 .. Len(B) /\ B[o[i - 1] + j] = s[i][j]
    BY <1>7, <2>1 DEF Tiles
  <2> QED
    BY <2>1, <2>2
<1>9. ASSUME NEW d \in Indices \ blocks
      PROVE  o[d] + 1 \in 1 .. Len(B) /\ B[o[d] + 1] = Create(Raw(d, req))
  <2>1. Len(BlankOutput(d, req)) = 1 /\ BlankOutput(d, req)[1] = Create(Raw(d, req))
    BY BlankOutputFacts
  <2>2. 1 \in 1 .. Len(BlankOutput(d, req))
    BY <2>1
  <2> QED
    BY <1>8, <2>1, <2>2
<1>10. ASSUME NEW d \in blocks, NEW k \in 1 .. Limit(Device(Devs, d))
       PROVE  o[d] + k \in 1 .. Len(B) /\ B[o[d] + k] = Write(Out(d), k - 1, Blank)
  <2>0. d \in Indices
    OBVIOUS
  <2>1. /\ Len(BlankOutput(d, req)) = Limit(Device(Devs, d))
        /\ BlankOutput(d, req)[k] = Write(Out(d), k - 1, Blank)
    BY <2>0, BlankOutputFacts
  <2>2. k \in 1 .. Len(BlankOutput(d, req))
    BY <2>1
  <2> QED
    BY <1>8, <2>0, <2>1, <2>2
<1>11. ASSUME NEW d \in blocks, NEW t \in Sectors(d)
       PROVE  \E k \in 1 .. Len(B) : B[k] = Write(Out(d), t, Blank)
  <2> DEFINE l == Limit(Device(Devs, d))
  <2>0. d \in Indices
    OBVIOUS
  <2>1. l \in Nat /\ t \in 0 .. l - 1
    BY <2>0, SectorsHold DEF Sectors
  <2> HIDE DEF l
  <2>2. t + 1 \in 1 .. l /\ (t + 1) - 1 = t
    BY <2>1
  <2>3. o[d] + (t + 1) \in 1 .. Len(B) /\ B[o[d] + (t + 1)] = Write(Out(d), (t + 1) - 1, Blank)
    BY <1>10, <2>2 DEF l
  <2> QED
    BY <2>2, <2>3
<1>12. o[0] = 0
  BY <1>7 DEF Offsets
<1>13. 0 \in Indices
  BY ZeroIsDevice
<1>14. 0 \notin blocks => 1 \in 1 .. Len(B) /\ B[1] = Create(Raw(0, req))
  <2> SUFFICES ASSUME 0 \notin blocks PROVE 1 \in 1 .. Len(B) /\ B[1] = Create(Raw(0, req))
    OBVIOUS
  <2>1. o[0] + 1 \in 1 .. Len(B) /\ B[o[0] + 1] = Create(Raw(0, req))
    BY <1>9, <1>13
  <2>2. o[0] + 1 = 1
    BY <1>12
  <2> QED
    BY <2>1, <2>2
<1>15. 0 \in blocks => \A k \in 1 .. lim : k \in 1 .. Len(B) /\ B[k] = Write(Out(0), k - 1, Blank)
  <2> SUFFICES ASSUME 0 \in blocks, NEW k \in 1 .. lim
               PROVE  k \in 1 .. Len(B) /\ B[k] = Write(Out(0), k - 1, Blank)
    OBVIOUS
  <2>1. o[0] + k \in 1 .. Len(B) /\ B[o[0] + k] = Write(Out(0), k - 1, Blank)
    BY <1>10
  <2>2. o[0] + k = k
    BY <1>12
  <2> QED
    BY <2>1, <2>2
<1>16. \A d \in Indices \ blocks : \E k \in 1 .. Len(B) : B[k] = Create(Raw(d, req))
  BY <1>9
<1> QED
  BY <1>7, <1>11, <1>14, <1>15, <1>16 DEF B, S

----------------------------------------------------------------------------
\* Conversion.

ConvertOps == {Convert(d) : d \in Indices} \cup {Unlink(Staging(d)) : d \in Indices}

\* A sequence of steps converts a device.
Converts(V, d) == \E k \in 1 .. Len(V) : V[k] = Convert(d)

\* Every output is converted, the primary one first, and its staging file removed
\* after that.
LEMMA ConvertFacts ==
  ASSUME NEW req, req.sparse \in BOOLEAN
  PROVE  LET V == ConvertOutputs(req)
         IN /\ V \in Seq(ConvertOps) /\ Len(V) \in Nat
            /\ ~req.sparse => Len(V) = 0
            /\ req.sparse => \A d \in Indices : Converts(V, d)
            /\ req.sparse => 1 \in 1 .. Len(V) /\ V[1] = Convert(0)
            /\ \A d \in Indices : \A j, k \in 1 .. Len(V) :
                 V[j] = Unlink(Staging(d)) /\ V[k] = Convert(d) => k < j
<1> DEFINE V == ConvertOutputs(req)
           s == [i \in DOMAIN Specs |-> ToSparse(i - 1, req)]
           n == Len(Specs)
           S == ConvertOps
           c(i) == Convert(i - 1)
           u(i) == Unlink(Staging(i - 1))
<1>1. n \in Nat \ {0} /\ DOMAIN Specs = 1 .. n
  BY SpecsAssumption
<1>2. ASSUME NEW i \in 1 .. n
      PROVE  /\ i - 1 \in Indices /\ s[i] = ToSparse(i - 1, req)
             /\ req.sparse => s[i] = <<c(i), u(i)>>
             /\ ~req.sparse => s[i] = <<>>
  BY <1>1 DEF Indices, ToSparse
<1>3. ASSUME NEW i \in 1 .. n PROVE c(i) \in S /\ u(i) \in S
  BY <1>2 DEF ConvertOps
<1>4. s = [i \in 1 .. n |-> s[i]]
  BY <1>1
<1>5. V = SeqX!FlattenSeq(s)
  BY DEF ConvertOutputs
<1>6. \A i \in 1 .. n : c(i).do = "convert" /\ c(i).path = Out(i - 1) /\ u(i).do = "remove" /\ u(i).path = Staging(i - 1)
  BY DEF Convert, Unlink
<1> HIDE DEF s, S, n, V, c, u
<1>7. ASSUME NEW i \in 1 .. n
      PROVE  /\ s[i] \in Seq(S)
             /\ req.sparse => Len(s[i]) = 2 /\ s[i][1] = c(i) /\ s[i][2] = u(i)
             /\ ~req.sparse => Len(s[i]) = 0
  <2>1. CASE req.sparse
    <3> DEFINE a == c(i)
               b == u(i)
    <3>1. a \in S /\ b \in S /\ s[i] = <<a, b>>
      BY <1>2, <1>3, <2>1
    <3> HIDE DEF a, b
    <3>2. <<a, b>> \in Seq(S) /\ Len(<<a, b>>) = 2
      BY <3>1
    <3> QED
      BY <2>1, <3>1, <3>2 DEF a, b
  <2>2. CASE ~req.sparse
    <3>1. s[i] = <<>>
      BY <1>2, <2>2
    <3>2. <<>> \in Seq(S) /\ Len(<<>>) = 0
      OBVIOUS
    <3>3. s[i] \in Seq(S) /\ Len(s[i]) = 0
      BY <3>1, <3>2, Zenon
    <3> QED
      BY <2>2, <3>3, Zenon
  <2> QED
    BY <2>1, <2>2
<1>8. s \in Seq(Seq(S)) /\ Len(s) = n
  <2> DEFINE Q == Seq(S)
  <2>1. \A i \in 1 .. n : s[i] \in Q
    BY <1>7
  <2> HIDE DEF Q
  <2>2. s \in [1 .. n -> Q]
    BY <1>4, <2>1
  <2>3. s \in Seq(Q)
    BY <1>1, <2>2, SeqDef
  <2>4. Len(s) = n
    BY <1>1, <2>2, <2>3
  <2> QED
    BY <2>3, <2>4 DEF Q
<1>9. PICK o : V \in Seq(S) /\ Offsets(s, n, o) /\ Tiles(s, n, o, V)
  BY <1>1, <1>5, <1>7, <1>8, FlattenFacts
<1>10. ASSUME NEW x \in 1 .. Len(V)
       PROVE  /\ req.sparse
              /\ \E i \in 1 .. n : \/ x = o[i - 1] + 1 /\ V[x] = c(i)
                                   \/ x = o[i - 1] + 2 /\ V[x] = u(i)
  <2>1. PICK i \in 1 .. n : \E j \in 1 .. Len(s[i]) : x = o[i - 1] + j
    BY <1>9 DEF Tiles
  <2>2. PICK j \in 1 .. Len(s[i]) : x = o[i - 1] + j
    BY <2>1
  <2>3. V[x] = s[i][j]
    BY <1>9, <2>2 DEF Tiles
  <2>4. Len(s[i]) # 0
    OBVIOUS
  <2>5. req.sparse
    BY <1>7, <2>4
  <2>6. Len(s[i]) = 2 /\ s[i][1] = c(i) /\ s[i][2] = u(i)
    BY <1>7, <2>5
  <2>7. j = 1 \/ j = 2
    BY <2>6
  <2> QED
    BY <2>2, <2>3, <2>5, <2>6, <2>7
<1>11. ~req.sparse => Len(V) = 0
  <2> SUFFICES ASSUME Len(V) # 0 PROVE req.sparse
    OBVIOUS
  <2>1. 1 \in 1 .. Len(V)
    BY <1>9
  <2> QED
    BY <1>10, <2>1
<1>12. ASSUME req.sparse, NEW d \in Indices PROVE Converts(V, d)
  <2> DEFINE i == d + 1
  <2>1. i \in 1 .. n /\ i - 1 = d
    BY <1>1 DEF Indices, n
  <2>2. c(i) = Convert(d)
    BY <2>1 DEF c
  <2> HIDE DEF i
  <2>3. 1 \in 1 .. Len(s[i]) /\ s[i][1] = c(i)
    BY <1>7, <1>12, <2>1
  <2>4. o[i - 1] + 1 \in 1 .. Len(V) /\ V[o[i - 1] + 1] = s[i][1]
    BY <1>9, <2>1, <2>3 DEF Tiles
  <2> QED
    BY <2>2, <2>3, <2>4 DEF Converts
<1>13. ASSUME NEW d \in Indices, NEW j \in 1 .. Len(V), NEW k \in 1 .. Len(V),
              V[j] = Unlink(Staging(d)), V[k] = Convert(d)
       PROVE  k < j
  <2>1. V[j].do = "remove" /\ V[j].path = Staging(d) /\ V[k].do = "convert" /\ V[k].path = Out(d)
    BY <1>13 DEF Unlink, Convert
  <2>2. PICK a \in 1 .. n : \/ j = o[a - 1] + 1 /\ V[j] = c(a)
                            \/ j = o[a - 1] + 2 /\ V[j] = u(a)
    BY <1>10
  <2>3. j = o[a - 1] + 2 /\ Staging(a - 1) = Staging(d)
    BY <1>6, <2>1, <2>2
  <2>4. PICK b \in 1 .. n : \/ k = o[b - 1] + 1 /\ V[k] = c(b)
                            \/ k = o[b - 1] + 2 /\ V[k] = u(b)
    BY <1>10
  <2>5. k = o[b - 1] + 1 /\ Out(b - 1) = Out(d)
    BY <1>6, <2>1, <2>4
  <2>6. a - 1 = d /\ b - 1 = d
    BY <2>3, <2>5 DEF Staging, Out
  <2>7. o[d] \in Nat
    <3>1. d \in 0 .. n
      BY <1>1 DEF Indices, n
    <3> QED
      BY <1>9, <3>1 DEF Offsets
  <2>8. j = o[d] + 2 /\ k = o[d] + 1
    BY <2>3, <2>5, <2>6, Zenon
  <2> DEFINE x == o[d]
  <2>9. x \in Nat /\ j = x + 2 /\ k = x + 1
    BY <2>7, <2>8
  <2> HIDE DEF x
  <2> QED
    BY <2>9
<1>14. req.sparse => 1 \in 1 .. Len(V) /\ V[1] = Convert(0)
  <2> SUFFICES ASSUME req.sparse PROVE 1 \in 1 .. Len(V) /\ V[1] = Convert(0)
    OBVIOUS
  <2>1. 1 \in 1 .. n /\ c(1) = Convert(0)
    BY <1>1 DEF c
  <2>2. 1 \in 1 .. Len(s[1]) /\ s[1][1] = c(1)
    BY <1>7, <2>1
  <2>3. o[1 - 1] + 1 \in 1 .. Len(V) /\ V[o[1 - 1] + 1] = s[1][1]
    BY <1>9, <2>1, <2>2 DEF Tiles
  <2>4. o[1 - 1] = 0
    BY <1>9 DEF Offsets
  <2>5. o[1 - 1] + 1 = 1
    BY <2>4
  <2> QED
    BY <2>1, <2>2, <2>3, <2>5
<1> QED
  BY <1>9, <1>11, <1>12, <1>13, <1>14 DEF V, S

\* What covers a set is a sequence of its writes.
LEMMA CoversIn ==
  ASSUME NEW f, NEW req, NEW E, NEW S, Covers(f, req, E), OpsOf(req, E) \subseteq S
  PROVE  f \in Seq(S)
<1> DEFINE R == OpsOf(req, E)
<1>1. f \in Seq(R) /\ R \subseteq S
  BY DEF Covers
<1> HIDE DEF R
<1> QED
  BY <1>1

Regroups(b, g, c, t) == ((b \o g) \o c) \o t = b \o ((g \o c) \o t)

\* Four sequences are joined in any grouping.
LEMMA JoinFour ==
  ASSUME NEW S, NEW b \in Seq(S), NEW g \in Seq(S), NEW c \in Seq(S), NEW t \in Seq(S)
  PROVE  Regroups(b, g, c, t)
<1> DEFINE x == g \o c
<1>1. (b \o g) \o c = b \o x
  BY SMTT(30), ConcatAssociative
<1>2. x \in Seq(S)
  BY ConcatProperties
<1> HIDE DEF x
<1>3. (b \o x) \o t = b \o (x \o t)
  BY SMTT(30), <1>2, ConcatAssociative
<1> QED
  BY <1>1, <1>3 DEF x, Regroups

\* A program is what blanks, then what writes, then what converts.
LEMMA ProgramParts ==
  ASSUME blocks \subseteq Indices, NEW run, NEW plan \in Plans, plan.ok
  PROVE  LET P == Program(run, plan)
             B == BlankOutputs(plan.req)
             W == Writes(run, plan)
             V == ConvertOutputs(plan.req)
         IN /\ Len(B) \in Nat /\ Len(W) \in Nat /\ Len(V) \in Nat /\ Len(P) = Len(B) + Len(W) + Len(V)
            /\ \E S : P \in Seq(S)
            /\ \A k \in 1 .. Len(B) : P[k] = B[k]
            /\ \A k \in 1 .. Len(W) : P[Len(B) + k] = W[k]
            /\ \A k \in 1 .. Len(V) : P[Len(B) + Len(W) + k] = V[k]
<1> DEFINE req == plan.req
           P == Program(run, plan)
           B == BlankOutputs(req)
           W == Writes(run, plan)
           V == ConvertOutputs(req)
           G == WriteGeometry(run, req)
           C == CopyPayload(run, plan)
           T == WriteSlots(run, req)
           S == BlankOps(req) \cup OpsOf(req, Entries(run, plan)) \cup ConvertOps
           D == OpsOf(req, Entries(run, plan))
<1>0. SpecsFit /\ req \in Requests /\ req.sparse \in BOOLEAN
  BY PlanFacts, RequestSlots
<1>1. B \in Seq(BlankOps(req)) /\ V \in Seq(ConvertOps)
  BY <1>0, BlankFacts, ConvertFacts
<1>2. Covers(W, req, Entries(run, plan))
  BY WriteFacts
<1>3. Covers(G, req, Geometries(run)) /\ Covers(C, req, Payloads(run, plan)) /\ Covers(T, req, Tables(run, req))
  BY <1>0, GeometryCovers, CopyCovers, SlotsCover
<1>4. /\ OpsOf(req, Geometries(run)) \subseteq D /\ OpsOf(req, Payloads(run, plan)) \subseteq D
      /\ OpsOf(req, Tables(run, req)) \subseteq D
  BY DEF OpsOf, Entries
<1>5. BlankOps(req) \subseteq S /\ D \subseteq S /\ ConvertOps \subseteq S
  OBVIOUS
<1> HIDE DEF S
<1>6. G \in Seq(S) /\ C \in Seq(S) /\ T \in Seq(S) /\ W \in Seq(S)
  <2>1. /\ OpsOf(req, Geometries(run)) \subseteq S /\ OpsOf(req, Payloads(run, plan)) \subseteq S
        /\ OpsOf(req, Tables(run, req)) \subseteq S
    BY <1>4, <1>5
  <2> HIDE DEF G, C, T, W, req
  <2> QED
    BY <1>2, <1>3, <1>5, <2>1, CoversIn
<1>7. B \in Seq(S) /\ V \in Seq(S)
  <2> DEFINE X == BlankOps(req)
             Y == ConvertOps
  <2> HIDE DEF X, Y, B, V
  <2>1. B \in Seq(X) /\ V \in Seq(Y) /\ X \subseteq S /\ Y \subseteq S
    BY <1>1, <1>5 DEF X, Y
  <2> QED
    BY <2>1
<1>8. P = (((B \o G) \o C) \o T) \o V /\ W = (G \o C) \o T
  BY DEF Program, Writes
<1> HIDE DEF P, B, W, V, G, C, T, D
<1>9. P = (B \o W) \o V
  <2>1. Regroups(B, G, C, T)
    BY <1>6, <1>7, JoinFour
  <2> QED
    BY <1>8, <2>1 DEF Regroups
<1>10. /\ B \o W \in Seq(S) /\ Len(B \o W) = Len(B) + Len(W)
       /\ \A i \in 1 .. Len(B) + Len(W) : (B \o W)[i] = IF i <= Len(B) THEN B[i] ELSE W[i - Len(B)]
  BY <1>6, <1>7, ConcatProperties
<1> DEFINE Y == B \o W
<1>11. /\ Y \in Seq(S) /\ Len(Y) = Len(B) + Len(W) /\ P = Y \o V
       /\ \A i \in 1 .. Len(B) + Len(W) : Y[i] = IF i <= Len(B) THEN B[i] ELSE W[i - Len(B)]
  BY <1>9, <1>10
<1> HIDE DEF Y
<1>12. /\ Y \o V \in Seq(S) /\ Len(Y \o V) = Len(Y) + Len(V)
       /\ \A i \in 1 .. Len(Y) + Len(V) : (Y \o V)[i] = IF i <= Len(Y) THEN Y[i] ELSE V[i - Len(Y)]
  BY <1>7, <1>11, ConcatProperties
<1> DEFINE b == Len(B)
           w == Len(W)
           v == Len(V)
           y == Len(Y)
<1>13. b \in Nat /\ w \in Nat /\ v \in Nat /\ y = b + w
  BY <1>6, <1>7, <1>11
<1>14. /\ P \in Seq(S) /\ Len(P) = y + v
       /\ \A i \in 1 .. y + v : P[i] = IF i <= y THEN Y[i] ELSE V[i - y]
       /\ \A i \in 1 .. y : Y[i] = IF i <= b THEN B[i] ELSE W[i - b]
  BY <1>11, <1>12, <1>13
<1> HIDE DEF b, w, v, y
<1>15. \A k \in 1 .. b : P[k] = B[k]
  <2> SUFFICES ASSUME NEW k \in 1 .. b PROVE P[k] = B[k]
    OBVIOUS
  <2>1. k \in 1 .. y + v /\ k \in 1 .. y /\ k <= y /\ k <= b
    BY <1>13
  <2> QED
    BY <1>14, <2>1
<1>16. \A k \in 1 .. w : P[b + k] = W[k]
  <2> SUFFICES ASSUME NEW k \in 1 .. w PROVE P[b + k] = W[k]
    OBVIOUS
  <2> DEFINE i == b + k
  <2>1. i \in 1 .. y + v /\ i \in 1 .. y /\ i <= y /\ ~(i <= b) /\ i - b = k
    BY <1>13
  <2> HIDE DEF i
  <2>2. P[i] = Y[i] /\ Y[i] = W[i - b]
    BY <1>14, <2>1
  <2> QED
    BY <2>1, <2>2 DEF i
<1>17. \A k \in 1 .. v : P[b + w + k] = V[k]
  <2> SUFFICES ASSUME NEW k \in 1 .. v PROVE P[b + w + k] = V[k]
    OBVIOUS
  <2> DEFINE i == b + w + k
  <2>1. i \in 1 .. y + v /\ ~(i <= y) /\ i - y = k
    BY <1>13
  <2> HIDE DEF i
  <2>2. P[i] = V[i - y]
    BY <1>14, <2>1
  <2> QED
    BY <2>1, <2>2 DEF i
<1>18. Len(P) = b + w + v
  BY <1>13, <1>14
<1>19. \E R : P \in Seq(R)
  BY <1>14
<1> QED
  BY <1>13, <1>15, <1>16, <1>17, <1>18, <1>19 DEF b, w, v, B, W, V, P, req

\* What is left of a program.
LEMMA AfterFacts ==
  ASSUME NEW S, NEW s \in Seq(S), NEW n \in 0 .. Len(s)
  PROVE  /\ After(s, n) = <<>> <=> n = Len(s)
         /\ n < Len(s) => Head(After(s, n)) = s[n + 1] /\ Tail(After(s, n)) = After(s, n + 1)
<1> DEFINE l == Len(s)
           a == After(s, n)
<1>1. l \in Nat /\ \A k \in 1 .. l : s[k] \in S
  OBVIOUS
<1>2. a = [k \in 1 .. l - n |-> s[n + k]]
  BY DEF After
<1> HIDE DEF l, a
<1>0. n \in 0 .. l
  BY DEF l
<1>3. \A k \in 1 .. l - n : n + k \in 1 .. l
  BY <1>0, <1>1
<1>4. a \in [1 .. l - n -> S]
  BY <1>1, <1>2, <1>3
<1>5. l - n \in Nat
  BY <1>0, <1>1
<1>6. a \in Seq(S) /\ Len(a) = l - n
  <2>1. a \in Seq(S)
    BY <1>4, <1>5, SeqDef
  <2> QED
    BY <1>4, <1>5, <2>1
<1>7. a = <<>> <=> n = l
  <2>1. a = <<>> <=> Len(a) = 0
    BY <1>6
  <2> QED
    BY <1>0, <1>1, <1>6, <2>1
<1>8. ASSUME n < l PROVE Head(a) = s[n + 1] /\ Tail(a) = After(s, n + 1)
  <2>1. 1 \in 1 .. l - n /\ Len(a) # 0 /\ a # <<>>
    BY <1>0, <1>1, <1>6, <1>7, <1>8
  <2>2. a[1] = s[n + 1]
    BY <1>2, <2>1
  <2>3. Head(a) = a[1]
    BY <1>6, <2>1
  <2>4. Tail(a) = [k \in 1 .. Len(a) - 1 |-> a[k + 1]]
    <3> DEFINE t == Tail(a)
    <3>1. t \in Seq(S) /\ Len(t) = Len(a) - 1 /\ \A k \in 1 .. Len(t) : t[k] = a[k + 1]
      BY <1>6, <2>1, HeadTailProperties
    <3> HIDE DEF t
    <3>2. t = [k \in 1 .. Len(t) |-> t[k]]
      BY <3>1
    <3> QED
      BY <3>1, <3>2 DEF t
  <2>5. After(s, n + 1) = [k \in 1 .. l - (n + 1) |-> s[(n + 1) + k]]
    BY DEF After, l
  <2>6. Len(a) - 1 = l - (n + 1)
    BY <1>0, <1>1, <1>6
  <2>7. ASSUME NEW k \in 1 .. l - (n + 1) PROVE a[k + 1] = s[(n + 1) + k]
    <3>1. k + 1 \in 1 .. l - n /\ n + (k + 1) = (n + 1) + k
      BY <1>0, <1>1
    <3>2. a[k + 1] = s[n + (k + 1)]
      BY <1>2, <3>1
    <3> QED
      BY <3>1, <3>2
  <2>8. Tail(a) = After(s, n + 1)
    BY <2>4, <2>5, <2>6, <2>7
  <2> QED
    BY <2>2, <2>3, <2>8
<1> QED
  BY <1>7, <1>8 DEF a, l

----------------------------------------------------------------------------
\* The raw image, write by write.

\* A write is that of an entry.
LEMMA WriteIs ==
  ASSUME NEW run, NEW plan \in Plans, plan.ok, NEW k \in 1 .. Len(Writes(run, plan))
  PROVE  \E e \in Entries(run, plan) : \E short \in BOOLEAN :
           /\ Writes(run, plan)[k] = OpOf(e, plan.req, short)
           /\ e[1] \in Indices /\ e[2] \in Sectors(e[1])
<1> DEFINE W == Writes(run, plan)
           R == OpsOf(plan.req, Entries(run, plan))
<1>1. W \in Seq(R)
  BY WriteFacts DEF Covers
<1> HIDE DEF W, R
<1>2. W[k] \in R
  BY <1>1 DEF W
<1>3. PICK e \in Entries(run, plan) : W[k] = OpOf(e, plan.req, TRUE) \/ W[k] = OpOf(e, plan.req, FALSE)
  BY <1>2 DEF R, OpsOf
<1>4. e[1] \in Indices /\ e[2] \in Sectors(e[1])
  BY EntriesFit
<1>5. TRUE \in BOOLEAN /\ FALSE \in BOOLEAN
  OBVIOUS
<1> QED
  BY <1>3, <1>4, <1>5, Zenon DEF W

\* The raw images of different devices are different files.
LEMMA RawIs ==
  ASSUME NEW d, NEW c, NEW req, Raw(d, req) = Raw(c, req)
  PROVE  d = c
BY DEF Raw, Out, Staging

\* At most one of the writes is at a place.
LEMMA OneHit ==
  ASSUME NEW run, NEW plan \in Plans, plan.ok, NEW m \in 0 .. Len(Writes(run, plan)), NEW d, NEW s,
         NEW k \in Hits(run, plan, d, m, s)
  PROVE  Hits(run, plan, d, m, s) = {k}
<1> DEFINE W == Writes(run, plan)
           H == Hits(run, plan, d, m, s)
<1>1. Len(W) \in Nat /\ \A i, j \in 1 .. Len(W) : Placing(W[i]) = Placing(W[j]) => i = j
  BY WriteFacts DEF Covers
<1>2. \A j \in H : j \in 1 .. Len(W) /\ W[j].path = Raw(d, plan.req) /\ W[j].at = s
  <2>1. \A j \in 1 .. m : j \in 1 .. Len(W)
    BY <1>1
  <2> QED
    BY <2>1 DEF Hits
<1> HIDE DEF W, H
<1>3. ASSUME NEW j \in H PROVE j = k
  <2>1. k \in H
    BY DEF H
  <2>2. Placing(W[j]) = Placing(W[k])
    BY <1>2, <2>1 DEF Placing
  <2> QED
    BY <1>1, <1>2, <2>1, <2>2
<1> QED
  BY <1>3 DEF H

\* What an image holds after m writes.
LEMMA ImageHolds ==
  ASSUME NEW run, NEW plan \in Plans, plan.ok, NEW m \in 0 .. Len(Writes(run, plan)), NEW d, NEW s \in Sectors(d)
  PROVE  /\ \A k \in Hits(run, plan, d, m, s) : ImageAfter(run, plan, d, m)[s] = Writes(run, plan)[k].cell
         /\ Hits(run, plan, d, m, s) = {} => ImageAfter(run, plan, d, m)[s] = Blank
<1> DEFINE H == Hits(run, plan, d, m, s)
           c == CHOOSE k \in H : TRUE
<1>1. ImageAfter(run, plan, d, m)[s] = IF H = {} THEN Blank ELSE Writes(run, plan)[c].cell
  BY DEF ImageAfter
<1>2. ASSUME NEW k \in H PROVE c = k
  <2>1. H = {k}
    BY OneHit
  <2> HIDE DEF H
  <2> QED
    BY <2>1
<1> HIDE DEF H, c
<1> QED
  BY <1>1, <1>2 DEF H

\* The next write makes the next image, and leaves those of other devices.
LEMMA ImageSteps ==
  ASSUME NEW run, NEW plan \in Plans, plan.ok, NEW m \in Nat, m < Len(Writes(run, plan)), NEW d
  PROVE  LET op == Writes(run, plan)[m + 1]
             now == ImageAfter(run, plan, d, m)
             next == ImageAfter(run, plan, d, m + 1)
         IN /\ op.path = Raw(d, plan.req) => Put(now, op) = next
            /\ op.path # Raw(d, plan.req) => next = now
<1> DEFINE W == Writes(run, plan)
           op == W[m + 1]
           now == ImageAfter(run, plan, d, m)
           next == ImageAfter(run, plan, d, m + 1)
           raw == Raw(d, plan.req)
           H(s) == Hits(run, plan, d, m, s)
           N(s) == Hits(run, plan, d, m + 1, s)
<1>1. Len(W) \in Nat /\ \A i, j \in 1 .. Len(W) : Placing(W[i]) = Placing(W[j]) => i = j
  BY WriteFacts DEF Covers
<1>2. m \in 0 .. Len(W) /\ m + 1 \in 0 .. Len(W) /\ m + 1 \in 1 .. Len(W)
  BY <1>1
<1>3. now = [s \in Sectors(d) |-> now[s]] /\ next = [s \in Sectors(d) |-> next[s]]
  BY DEF ImageAfter
<1>4. ASSUME NEW s
      PROVE  N(s) = H(s) \cup {k \in {m + 1} : op.path = raw /\ op.at = s}
  <2>1. \A k : k \in 1 .. m + 1 <=> k \in 1 .. m \/ k = m + 1
    OBVIOUS
  <2> QED
    BY <2>1 DEF Hits
<1>5. ASSUME NEW s \in Sectors(d)
      PROVE  /\ \A k \in H(s) : now[s] = W[k].cell
             /\ H(s) = {} => now[s] = Blank
             /\ \A k \in N(s) : next[s] = W[k].cell
             /\ N(s) = {} => next[s] = Blank
  BY <1>2, ImageHolds
<1>6. \A s : m + 1 \notin H(s)
  BY DEF Hits
<1>7. \A s : \A k \in H(s) : k \in N(s)
  BY <1>4
<1>8. \A s \in Sectors(d) : op.path = raw /\ op.at = s => now[s] = Blank /\ next[s] = op.cell
  <2> SUFFICES ASSUME NEW s \in Sectors(d), op.path = raw, op.at = s
               PROVE  now[s] = Blank /\ next[s] = op.cell
    OBVIOUS
  <2>1. m + 1 \in N(s)
    BY <1>4
  <2>2. N(s) = {m + 1}
    BY <1>2, <2>1, OneHit
  <2> HIDE DEF now, next, W, H, N
  <2>3. H(s) = {}
    BY <1>6, <1>7, <2>2
  <2>4. now[s] = Blank
    BY <1>5, <2>3
  <2>5. next[s] = W[m + 1].cell
    BY <1>5, <2>1
  <2> QED
    BY <2>4, <2>5
<1>9. \A s \in Sectors(d) : ~(op.path = raw /\ op.at = s) => next[s] = now[s]
  <2> SUFFICES ASSUME NEW s \in Sectors(d), ~(op.path = raw /\ op.at = s) PROVE next[s] = now[s]
    OBVIOUS
  <2>1. N(s) = H(s)
    BY <1>4
  <2> HIDE DEF now, next, W, H, N
  <2>2. CASE H(s) = {}
    BY <1>5, <2>1, <2>2
  <2>3. CASE H(s) # {}
    <3>1. PICK k : k \in H(s)
      BY <2>3
    <3> QED
      BY <1>5, <2>1, <3>1
  <2> QED
    BY <2>2, <2>3
<1>10. op.path = raw => op.at \in Sectors(d)
  <2> SUFFICES ASSUME op.path = raw PROVE op.at \in Sectors(d)
    OBVIOUS
  <2>1. PICK e \in Entries(run, plan), short \in BOOLEAN :
          op = OpOf(e, plan.req, short) /\ e[1] \in Indices /\ e[2] \in Sectors(e[1])
    BY <1>2, WriteIs
  <2>2. op.path = Raw(e[1], plan.req) /\ op.at = e[2]
    BY <2>1, OpOfFacts
  <2>3. e[1] = d
    BY <2>2, RawIs
  <2> QED
    BY <2>1, <2>2, <2>3
<1> HIDE DEF now, next, op, raw
<1>11. op.path # raw => next = now
  <2> SUFFICES ASSUME op.path # raw PROVE next = now
    OBVIOUS
  <2>1. \A s \in Sectors(d) : next[s] = now[s]
    BY <1>9
  <2>2. next = [s \in Sectors(d) |-> now[s]]
    BY <1>3, <2>1
  <2> QED
    BY <1>3, <2>2
<1>12. op.path = raw => Put(now, op) = next
  <2> SUFFICES ASSUME op.path = raw PROVE Put(now, op) = next
    OBVIOUS
  <2> DEFINE t == op.at
             p == [now EXCEPT ![t] = IF op.short /\ now[t] # Blank THEN Junk ELSE op.cell]
  <2>1. Put(now, op) = p
    BY DEF Put
  <2>2. t \in Sectors(d) /\ now[t] = Blank /\ next[t] = op.cell
    BY <1>8, <1>10
  <2>3. DOMAIN now = Sectors(d)
    BY <1>3
  <2> HIDE DEF t
  <2>4. p = [s \in Sectors(d) |-> IF s = t THEN op.cell ELSE now[s]]
    <3>1. (IF op.short /\ now[t] # Blank THEN Junk ELSE op.cell) = op.cell
      BY <2>2
    <3> QED
      BY <1>3, <2>2, <2>3, <3>1
  <2>5. \A s \in Sectors(d) : next[s] = IF s = t THEN op.cell ELSE now[s]
    BY <1>9, <2>2 DEF t
  <2> HIDE DEF p
  <2>6. next = [s \in Sectors(d) |-> IF s = t THEN op.cell ELSE now[s]]
    BY <1>3, <2>5
  <2> QED
    BY <2>1, <2>4, <2>6
<1> QED
  BY <1>11, <1>12 DEF now, next, op, raw

\* Before the first write it is blank.
LEMMA ImageStarts ==
  ASSUME NEW run, NEW plan, NEW d
  PROVE  ImageAfter(run, plan, d, 0) = Sized(d, Blank)
<1>1. \A s : Hits(run, plan, d, 0, s) = {}
  BY DEF Hits
<1> QED
  BY <1>1 DEF ImageAfter, Sized

----------------------------------------------------------------------------
\* Cells of the four kinds, and what they tell.

LEMMA CellKinds ==
  ASSUME NEW run, NEW r, NEW i, NEW k
  PROVE  /\ Payload(run, i, k) # TableOf(r) /\ Geometry(run) # TableOf(r)
         /\ Blank # TableOf(r) /\ Junk # TableOf(r)
         /\ TableOf(run) = TableOf(r) => run = r
<1>1. TableOf(r) = <<r, "table">> /\ TableOf(run) = <<run, "table">> /\ Geometry(run) = <<run, "geometry">>
  BY DEF TableOf, Geometry
<1>2. Len(Payload(run, i, k)) = 4 /\ Len(Blank) = 0 /\ Len(Junk) = 1 /\ Len(TableOf(r)) = 2
  BY DEF Payload, Blank, Junk, TableOf
<1>3. Geometry(run)[2] # TableOf(r)[2] /\ TableOf(run)[1] = run /\ TableOf(r)[1] = r
  BY <1>1
<1>4. Geometry(run) # TableOf(r)
  BY <1>3, Zenon
<1>5. TableOf(run) = TableOf(r) => run = r
  BY <1>3, Zenon
<1>6. Len(Payload(run, i, k)) # Len(TableOf(r)) /\ Len(Blank) # Len(TableOf(r)) /\ Len(Junk) # Len(TableOf(r))
  BY <1>2
<1>7. Payload(run, i, k) # TableOf(r) /\ Blank # TableOf(r) /\ Junk # TableOf(r)
  BY <1>6, Zenon
<1> QED
  BY <1>4, <1>5, <1>7, Zenon

\* An entry holds a geometry, a payload sector or a table of its run.
LEMMA EntryKinds ==
  ASSUME NEW run, NEW plan, NEW r
  PROVE  /\ \A e \in Geometries(run) \cup Payloads(run, plan) : e[3] # TableOf(r)
         /\ \A e \in Tables(run, plan.req) : e[3] = TableOf(run)
<1>1. \A e \in Geometries(run) : e[3] = Geometry(run)
  BY DEF Geometries
<1>2. \A e \in Payloads(run, plan) : \E i, k : e[3] = Payload(run, i, k)
  <2> SUFFICES ASSUME NEW e \in Payloads(run, plan) PROVE \E i, k : e[3] = Payload(run, i, k)
    OBVIOUS
  <2>1. PICK j \in DOMAIN plan.segments : e \in SegEntries(run, plan.segments[j])
    BY DEF Payloads
  <2> DEFINE seg == plan.segments[j]
  <2>2. PICK k \in 1 .. seg.run.num : e = SegEntry(run, seg, k)
    BY <2>1 DEF SegEntries
  <2>3. e[3] = Payload(run, seg.part, seg.from + k)
    BY <2>2 DEF SegEntry
  <2> QED
    BY <2>3
<1>3. \A e \in Tables(run, plan.req) : e[3] = TableOf(run)
  BY DEF Tables
<1> QED
  BY <1>1, <1>2, <1>3, CellKinds

----------------------------------------------------------------------------
\* The payload entries of a run are the sectors its plan speaks of.

CellsOf(seg) == {<<seg.run.source, seg.run.at + k - 1, seg.from + k>> : k \in 1 .. seg.run.num}

\* The planned sectors of a part are those of its segments.
LEMMA PlannedIs ==
  ASSUME NEW plan, NEW i, NEW w
  PROVE  w \in PlannedAt(plan, i) <=>
           \E j \in DOMAIN plan.segments : plan.segments[j].part = i /\ w \in CellsOf(plan.segments[j])
<1> DEFINE segs == plan.segments
           J == OfPart(segs, i)
<1>1. PlannedAt(plan, i) = UNION {CellsOf(segs[j]) : j \in J}
  BY DEF PlannedAt, OfPart, CellsOf
<1>2. \A j : j \in J <=> j \in DOMAIN segs /\ segs[j].part = i
  BY DEF OfPart
<1> HIDE DEF J, segs
<1> QED
  BY <1>1, <1>2 DEF segs

\* The payload entries of a run are the sectors its plan speaks of.
LEMMA PayloadPlanned ==
  ASSUME NEW run, NEW plan \in Plans, plan.ok
  PROVE  /\ \A i \in DOMAIN plan.req.parts : \A w \in PlannedAt(plan, i) :
              <<w[1], w[2], Payload(run, i, w[3])>> \in Payloads(run, plan)
         /\ \A e \in Payloads(run, plan) :
              \E i \in DOMAIN plan.req.parts :
                /\ \E w \in PlannedAt(plan, i) : Place(w) = Place(e)
                /\ \E k \in 1 .. plan.req.parts[i].len : e[3] = Payload(run, i, k)
<1> DEFINE segs == plan.segments
<1>1. ASSUME NEW i \in DOMAIN plan.req.parts, NEW w \in PlannedAt(plan, i)
      PROVE  <<w[1], w[2], Payload(run, i, w[3])>> \in Payloads(run, plan)
  <2>1. PICK j \in DOMAIN segs : segs[j].part = i /\ w \in CellsOf(segs[j])
    BY PlannedIs
  <2> DEFINE seg == segs[j]
  <2>2. PICK k \in 1 .. seg.run.num : w = <<seg.run.source, seg.run.at + k - 1, seg.from + k>>
    BY <2>1 DEF CellsOf
  <2>3. seg.part = i
    BY <2>1
  <2>4. <<w[1], w[2], Payload(run, i, w[3])>> = SegEntry(run, seg, k)
    <3>1. w[1] = seg.run.source /\ w[2] = seg.run.at + k - 1 /\ w[3] = seg.from + k
      BY <2>2
    <3> QED
      BY <2>3, <3>1, Zenon DEF SegEntry
  <2>5. SegEntry(run, seg, k) \in SegEntries(run, seg)
    BY DEF SegEntries
  <2> HIDE DEF seg
  <2>6. SegEntry(run, seg, k) \in Payloads(run, plan)
    BY <2>5 DEF Payloads, seg
  <2> QED
    BY <2>4, <2>6, Zenon
<1>2. ASSUME NEW e \in Payloads(run, plan)
      PROVE  \E i \in DOMAIN plan.req.parts :
               /\ \E w \in PlannedAt(plan, i) : Place(w) = Place(e)
               /\ \E k \in 1 .. plan.req.parts[i].len : e[3] = Payload(run, i, k)
  <2>1. PICK j \in DOMAIN segs : e \in SegEntries(run, segs[j])
    BY DEF Payloads
  <2> DEFINE seg == segs[j]
             i == seg.part
  <2>2. PICK k \in 1 .. seg.run.num : e = SegEntry(run, seg, k)
    BY <2>1 DEF SegEntries
  <2>3. i \in DOMAIN plan.req.parts /\ seg.from + k \in 1 .. plan.req.parts[i].len
    BY PlanFacts DEF SegAllowed
  <2> DEFINE w == <<seg.run.source, seg.run.at + k - 1, seg.from + k>>
  <2>4. w \in CellsOf(seg)
    BY DEF CellsOf
  <2>5. w \in PlannedAt(plan, i)
    BY <2>4, PlannedIs
  <2>6. Place(w) = Place(e)
    <3>1. e[1] = w[1] /\ e[2] = w[2]
      BY <2>2 DEF SegEntry
    <3> QED
      BY <3>1 DEF Place
  <2>7. e[3] = Payload(run, i, seg.from + k)
    BY <2>2 DEF SegEntry
  <2> HIDE DEF w, i
  <2> QED
    BY <2>3, <2>5, <2>6, <2>7
<1> QED
  BY <1>1, <1>2

----------------------------------------------------------------------------
\* The raw images once a table is in them.

\* A table that is written is the run's own, and written after all payload.
LEMMA WrittenIsWhole ==
  ASSUME NEW run, NEW plan \in Plans, plan.ok, NEW m \in 0 .. Len(Writes(run, plan)),
         NEW r, NEW t \in Sectors(0), ImageAfter(run, plan, 0, m)[t] = TableOf(r)
  PROVE  /\ r = run
         /\ \A e \in Payloads(run, plan) : ImageAfter(run, plan, e[1], m)[e[2]] = e[3]
         /\ \A k \in 1 .. Len(Writes(run, plan)) : k > m =>
              \E e \in Tables(run, plan.req) : \E short \in BOOLEAN :
                Writes(run, plan)[k] = OpOf(e, plan.req, short)
<1> DEFINE W == Writes(run, plan)
           req == plan.req
           EX == Geometries(run) \cup Payloads(run, plan)
           ET == Tables(run, req)
<1>1. Covers(W, req, Entries(run, plan)) /\ Len(W) \in Nat
  BY WriteFacts
<1>2. PICK c \in Nat : \A k \in 1 .. Len(W) : /\ k <= c => W[k] \in OpsOf(req, EX)
                                              /\ k > c => W[k] \in OpsOf(req, ET)
  BY WriteFacts
<1>3. ASSUME NEW k \in 1 .. Len(W) PROVE k <= c => W[k].cell # TableOf(r)
  <2> SUFFICES ASSUME k <= c PROVE W[k].cell # TableOf(r)
    OBVIOUS
  <2>1. PICK e \in EX : W[k] = OpOf(e, req, TRUE) \/ W[k] = OpOf(e, req, FALSE)
    BY <1>2 DEF OpsOf
  <2>2. e[3] # TableOf(r)
    BY EntryKinds
  <2>3. W[k].cell = e[3]
    <3>1. OpOf(e, req, TRUE).cell = e[3] /\ OpOf(e, req, FALSE).cell = e[3]
      BY DEF OpOf
    <3> QED
      BY <2>1, <3>1, Zenon
  <2> QED
    BY <2>2, <2>3
<1>4. ASSUME NEW k \in 1 .. Len(W), k > c
      PROVE  \E e \in ET : \E short \in BOOLEAN : W[k] = OpOf(e, req, short)
  <2>1. W[k] \in OpsOf(req, ET)
    BY <1>2, <1>4
  <2>2. TRUE \in BOOLEAN /\ FALSE \in BOOLEAN
    OBVIOUS
  <2> HIDE DEF W, req, ET
  <2> QED
    BY <2>1, <2>2, Zenon DEF OpsOf
<1>5. ASSUME NEW k \in 1 .. Len(W), k > c PROVE W[k].cell = TableOf(run)
  <2>1. PICK e \in ET, short \in BOOLEAN : W[k] = OpOf(e, req, short)
    BY <1>4, <1>5
  <2>2. e[3] = TableOf(run)
    BY EntryKinds
  <2> QED
    BY <2>1, <2>2, OpOfFacts
<1>6. PICK h : h \in Hits(run, plan, 0, m, t) /\ W[h].cell = TableOf(r)
  <2> DEFINE H == Hits(run, plan, 0, m, t)
  <2>1. H # {}
    BY ImageHolds, CellKinds
  <2>2. PICK h : h \in H
    BY <2>1
  <2>3. W[h].cell = TableOf(r)
    BY <2>2, ImageHolds
  <2> QED
    BY <2>2, <2>3
<1>7. h \in 1 .. m
  BY <1>6 DEF Hits
<1> HIDE DEF W, req, EX, ET
<1>8. h \in 1 .. Len(W) /\ h > c /\ c < m /\ m <= Len(W)
  <2>1. m \in 0 .. Len(W)
    BY DEF W
  <2>2. h \in 1 .. Len(W)
    BY <1>1, <1>7, <2>1
  <2>3. ~(h <= c)
    BY <1>3, <1>6, <2>2
  <2> QED
    BY <1>1, <1>7, <2>1, <2>2, <2>3
<1>9. r = run
  <2>1. TableOf(run) = TableOf(r)
    BY <1>5, <1>6, <1>8
  <2> QED
    BY <2>1, CellKinds
<1>10. ASSUME NEW e \in Payloads(run, plan) PROVE ImageAfter(run, plan, e[1], m)[e[2]] = e[3]
  <2>1. e \in Entries(run, plan)
    BY DEF Entries
  <2>2. PICK k \in 1 .. Len(W) : \E short \in BOOLEAN : W[k] = OpOf(e, req, short)
    BY <1>1, <2>1 DEF Covers
  <2>3. W[k].path = Raw(e[1], req) /\ W[k].at = e[2] /\ W[k].cell = e[3]
    BY <2>2, OpOfFacts
  <2>4. \A q : e[3] # TableOf(q)
    BY EntryKinds
  <2>5. ~(k > c)
    BY <1>5, <2>3, <2>4
  <2>6. k \in 1 .. m
    BY <1>1, <1>8, <2>5
  <2>7. k \in Hits(run, plan, e[1], m, e[2])
    BY <2>3, <2>6 DEF Hits, W, req
  <2>8. e[2] \in Sectors(e[1])
    BY <2>1, EntriesFit
  <2> QED
    BY <2>3, <2>7, <2>8, ImageHolds DEF W
<1>11. \A k \in 1 .. Len(W) : k > m => k > c
  BY <1>1, <1>8
<1>12. \A k \in 1 .. Len(W) : k > m => \E e \in ET : \E short \in BOOLEAN : W[k] = OpOf(e, req, short)
  BY <1>4, <1>11
<1> QED
  BY <1>9, <1>10, <1>12 DEF W, req, ET

----------------------------------------------------------------------------
\* From one phase of a run to the next.

LEMMA BlankedIs ==
  ASSUME NEW d, NEW req, NEW s
  PROVE  /\ Blanked(Create(Raw(d, req))) <=> disk[Raw(d, req)] = {Sized(d, Blank)}
         /\ Blanked(Write(Out(d), s, Blank)) <=> \A f \in disk[Out(d)] : f[s] = Blank
<1>1. Create(Raw(d, req)).do = "create" /\ Create(Raw(d, req)).path = Raw(d, req) /\ Raw(d, req)[2] = d
  BY DEF Create, Raw, Out, Staging
<1>2. /\ Write(Out(d), s, Blank).do = "write" /\ Write(Out(d), s, Blank).path = Out(d)
      /\ Write(Out(d), s, Blank).at = s
  BY DEF Write
<1>3. "write" # "create"
  OBVIOUS
<1>4. Blanked(Create(Raw(d, req))) <=> disk[Raw(d, req)] = {Sized(d, Blank)}
  BY <1>1, Zenon DEF Blanked
<1>5. Blanked(Write(Out(d), s, Blank)) <=> \A f \in disk[Out(d)] : f[s] = Blank
  BY <1>2, <1>3, Zenon DEF Blanked
<1> QED
  BY <1>4, <1>5

\* A block device whose sectors are all blank.
LEMMA AllBlank ==
  ASSUME NEW d, NEW f, f = [s \in Sectors(d) |-> f[s]], \A s \in Sectors(d) : f[s] = Blank
  PROVE  f = Sized(d, Blank)
BY DEF Sized

\* Blanking leaves the raw images before their first write.
LEMMA BlankingDone ==
  ASSUME Typed, NEW run, NEW plan \in Plans, plan.ok, plan.req.sparse => blocks = {},
         Blanking(plan, Len(BlankOutputs(plan.req)))
  PROVE  Writing(run, plan, 0)
<1> DEFINE req == plan.req
           B == BlankOutputs(req)
<1>1. SpecsFit /\ blocks \subseteq Indices
  BY PlanFacts DEF Typed
<1>2. /\ \A d \in Indices \ blocks : \E k \in 1 .. Len(B) : B[k] = Create(Raw(d, req))
      /\ \A d \in blocks : \A s \in Sectors(d) : \E k \in 1 .. Len(B) : B[k] = Write(Out(d), s, Blank)
  BY <1>1, BlankFacts
<1>3. \A k \in 1 .. Len(B) : Blanked(B[k])
  BY DEF Blanking
<1> HIDE DEF B
<1>4. ASSUME NEW d \in Indices PROVE disk[Raw(d, req)] = {ImageAfter(run, plan, d, 0)}
  <2>1. CASE d \notin blocks
    <3>1. Blanked(Create(Raw(d, req)))
      BY <1>2, <1>3, <2>1
    <3>2. disk[Raw(d, req)] = {Sized(d, Blank)}
      BY <3>1, BlankedIs
    <3> QED
      BY <3>2, ImageStarts
  <2>2. CASE d \in blocks
    <3>1. Raw(d, req) = Out(d)
      BY <2>2 DEF Raw
    <3>2. PICK f \in disk[Out(d)] : disk[Out(d)] = {f} /\ IsFile(f, d)
      BY <2>2 DEF Typed
    <3>3. f = [s \in Sectors(d) |-> f[s]]
      BY <3>2, Zenon DEF IsFile
    <3>4. ASSUME NEW s \in Sectors(d) PROVE f[s] = Blank
      <4>1. Blanked(Write(Out(d), s, Blank))
        BY <1>2, <1>3, <2>2
      <4> QED
        BY <4>1, BlankedIs
    <3>5. f = Sized(d, Blank)
      BY <3>3, <3>4, AllBlank
    <3> QED
      BY <3>1, <3>2, <3>5, ImageStarts
  <2> QED
    BY <2>1, <2>2
<1> QED
  BY <1>4 DEF Writing

\* After the last write they are what conversion starts from.
LEMMA WritingDone ==
  ASSUME NEW run, NEW plan, plan.req.sparse \in BOOLEAN, Writing(run, plan, Len(Writes(run, plan)))
  PROVE  Converting(run, plan, 0)
<1>1. \A op : ~Did(plan, 0, op)
  BY DEF Did
<1>2. \A d \in Indices : disk[Raw(d, plan.req)] = {Built(run, plan, d)}
  BY DEF Writing, Built
<1> SUFFICES ASSUME NEW d \in Indices
             PROVE  /\ ~plan.req.sparse \/ Did(plan, 0, Convert(d)) => disk[Out(d)] = {Built(run, plan, d)}
                    /\ plan.req.sparse /\ ~Did(plan, 0, Unlink(Staging(d))) => disk[Staging(d)] = {Built(run, plan, d)}
  BY DEF Converting
<1>3. (~plan.req.sparse => Raw(d, plan.req) = Out(d)) /\ (plan.req.sparse => Raw(d, plan.req) = Staging(d))
  BY DEF Raw
<1> QED
  BY <1>1, <1>2, <1>3

\* The run that is at work.
LEMMA RunningIs ==
  ASSUME Typed, Running, exit = "running"
  PROVE  /\ Len(made) \in DOMAIN made /\ made[Len(made)] \in Plans /\ made[Len(made)].ok
         /\ made[Len(made)].req.sparse \in BOOLEAN
         /\ made[Len(made)].req.sparse => blocks = {}
         /\ SpecsFit /\ blocks \subseteq Indices
         /\ Progress(Len(made), made[Len(made)])
<1>1. made # <<>> /\ made \in Seq(Plans) /\ blocks \subseteq Indices
  BY DEF Typed, Running
<1>2. Len(made) \in DOMAIN made /\ made[Len(made)] \in Plans
  BY <1>1
<1> DEFINE plan == made[Len(made)]
<1>3. plan.ok /\ (plan.req.sparse => blocks = {}) /\ Progress(Len(made), plan)
  BY DEF Running
<1>4. plan \in Plans
  BY <1>2
<1> HIDE DEF plan
<1>5. SpecsFit /\ plan.req \in Requests
  BY <1>3, <1>4, PlanFacts
<1>6. plan.req.sparse \in BOOLEAN
  BY <1>5, RequestSlots
<1> QED
  BY <1>1, <1>2, <1>3, <1>5, <1>6 DEF plan

\* Where a run is: before a step of one of its phases, or done.
AtBlank(run, plan, n) ==
  /\ n < Len(BlankOutputs(plan.req)) /\ Blanking(plan, n)
  /\ todo # <<>> /\ Head(todo) = BlankOutputs(plan.req)[n + 1]
  /\ Tail(todo) = After(Program(run, plan), n + 1)
AtWrite(run, plan, m) ==
  /\ m < Len(Writes(run, plan)) /\ Writing(run, plan, m)
  /\ todo # <<>> /\ Head(todo) = Writes(run, plan)[m + 1]
  /\ Tail(todo) = After(Program(run, plan), Len(BlankOutputs(plan.req)) + (m + 1))
AtConvert(run, plan, m) ==
  /\ m < Len(ConvertOutputs(plan.req)) /\ Converting(run, plan, m)
  /\ todo # <<>> /\ Head(todo) = ConvertOutputs(plan.req)[m + 1]
  /\ Tail(todo) =
       After(Program(run, plan), Len(BlankOutputs(plan.req)) + Len(Writes(run, plan)) + (m + 1))
AtEnd(run, plan) == todo = <<>> /\ Converting(run, plan, Len(ConvertOutputs(plan.req)))

\* Conversion goes on, or is over.
LEMMA ConvertPhase ==
  ASSUME Typed, NEW run, NEW plan \in Plans, plan.ok, NEW m \in 0 .. Len(ConvertOutputs(plan.req)),
         todo = After(Program(run, plan), Len(BlankOutputs(plan.req)) + Len(Writes(run, plan)) + m),
         Converting(run, plan, m)
  PROVE  AtConvert(run, plan, m) \/ AtEnd(run, plan)
<1> DEFINE P == Program(run, plan)
           B == BlankOutputs(plan.req)
           W == Writes(run, plan)
           V == ConvertOutputs(plan.req)
<1>1. blocks \subseteq Indices
  BY DEF Typed
<1>2. /\ Len(B) \in Nat /\ Len(W) \in Nat /\ Len(V) \in Nat /\ Len(P) = Len(B) + Len(W) + Len(V)
      /\ \E S : P \in Seq(S)
      /\ \A k \in 1 .. Len(V) : P[Len(B) + Len(W) + k] = V[k]
  BY <1>1, ProgramParts
<1>3. PICK S : P \in Seq(S)
  BY <1>2
<1>4. m \in 0 .. Len(V) /\ todo = After(P, Len(B) + Len(W) + m) /\ Converting(run, plan, m)
  OBVIOUS
<1> HIDE DEF P, B, W, V
<1> DEFINE b == Len(B)
           w == Len(W)
           v == Len(V)
           n == b + w + m
<1>5. b \in Nat /\ w \in Nat /\ v \in Nat /\ m \in 0 .. v /\ Len(P) = b + w + v /\ todo = After(P, n)
      /\ \A k \in 1 .. v : P[b + w + k] = V[k]
  BY <1>2, <1>4
<1> HIDE DEF b, w, v
<1>6. n \in 0 .. Len(P) /\ (n = Len(P) <=> m = v) /\ (m < v => n < Len(P)) /\ n + 1 = b + w + (m + 1)
      /\ (m < v => m + 1 \in 1 .. v)
  BY <1>5
<1> HIDE DEF n
<1>7. /\ After(P, n) = <<>> <=> n = Len(P)
      /\ n < Len(P) => Head(After(P, n)) = P[n + 1] /\ Tail(After(P, n)) = After(P, n + 1)
  BY <1>3, <1>6, AfterFacts
<1>8. CASE m < v
  <2>1. n < Len(P) /\ n # Len(P) /\ m + 1 \in 1 .. v
    BY <1>5, <1>6, <1>8
  <2>2. todo # <<>> /\ Head(todo) = P[n + 1] /\ Tail(todo) = After(P, n + 1)
    BY <1>5, <1>7, <2>1
  <2>3. P[n + 1] = V[m + 1]
    BY <1>5, <1>6, <2>1
  <2> QED
    BY <1>4, <1>6, <1>8, <2>2, <2>3, Zenon DEF AtConvert, b, w, v, P, B, W, V
<1>9. CASE m = v
  <2>1. todo = <<>>
    BY <1>5, <1>6, <1>7, <1>9
  <2> QED
    BY <1>4, <1>9, <2>1, Zenon DEF AtEnd, V, v
<1> QED
  BY <1>5, <1>8, <1>9

\* Writing goes on, or conversion begins.
LEMMA WritePhase ==
  ASSUME Typed, NEW run, NEW plan \in Plans, plan.ok, NEW m \in 0 .. Len(Writes(run, plan)),
         todo = After(Program(run, plan), Len(BlankOutputs(plan.req)) + m), Writing(run, plan, m)
  PROVE  \/ AtWrite(run, plan, m)
         \/ /\ Converting(run, plan, 0)
            /\ todo = After(Program(run, plan), Len(BlankOutputs(plan.req)) + Len(Writes(run, plan)) + 0)
<1> DEFINE P == Program(run, plan)
           B == BlankOutputs(plan.req)
           W == Writes(run, plan)
           V == ConvertOutputs(plan.req)
<1>1. blocks \subseteq Indices
  BY DEF Typed
<1>2. /\ Len(B) \in Nat /\ Len(W) \in Nat /\ Len(V) \in Nat /\ Len(P) = Len(B) + Len(W) + Len(V)
      /\ \E S : P \in Seq(S)
      /\ \A k \in 1 .. Len(W) : P[Len(B) + k] = W[k]
  BY SMTT(30), <1>1, ProgramParts
<1>3. PICK S : P \in Seq(S)
  BY <1>2
<1>4. m \in 0 .. Len(W) /\ todo = After(P, Len(B) + m) /\ Writing(run, plan, m)
  OBVIOUS
<1> HIDE DEF P, B, W, V
<1> DEFINE b == Len(B)
           w == Len(W)
           v == Len(V)
           n == b + m
<1>5. b \in Nat /\ w \in Nat /\ v \in Nat /\ m \in 0 .. w /\ Len(P) = b + w + v /\ todo = After(P, n)
      /\ \A k \in 1 .. w : P[b + k] = W[k]
  BY <1>2, <1>4
<1> HIDE DEF b, w, v
<1>6. n \in 0 .. Len(P) /\ (m < w => n < Len(P) /\ n # Len(P) /\ m + 1 \in 1 .. w) /\ n + 1 = b + (m + 1)
      /\ (m = w => n = b + w + 0)
  BY <1>5
<1> HIDE DEF n
<1>7. /\ After(P, n) = <<>> <=> n = Len(P)
      /\ n < Len(P) => Head(After(P, n)) = P[n + 1] /\ Tail(After(P, n)) = After(P, n + 1)
  BY <1>3, <1>6, AfterFacts
<1>8. CASE m < w
  <2>2. todo # <<>> /\ Head(todo) = P[n + 1] /\ Tail(todo) = After(P, n + 1)
    BY <1>5, <1>6, <1>7, <1>8
  <2>3. P[n + 1] = W[m + 1]
    BY <1>5, <1>6, <1>8
  <2> QED
    BY <1>4, <1>6, <1>8, <2>2, <2>3, Zenon DEF AtWrite, b, w, P, B, W
<1>9. CASE m = w
  <2>1. Writing(run, plan, Len(Writes(run, plan)))
    BY <1>4, <1>9, Zenon DEF w, W
  <2>2. plan.req.sparse \in BOOLEAN
    BY PlanFacts, RequestSlots
  <2>3. Converting(run, plan, 0)
    BY <2>1, <2>2, WritingDone
  <2>4. todo = After(P, b + w + 0)
    BY <1>5, <1>6, <1>9, Zenon
  <2> QED
    BY <2>3, <2>4, Zenon DEF P, b, w, B, W
<1> QED
  BY <1>5, <1>8, <1>9

\* Blanking goes on, or writing begins.
LEMMA BlankPhase ==
  ASSUME Typed, NEW run, NEW plan \in Plans, plan.ok, plan.req.sparse => blocks = {},
         NEW n \in 0 .. Len(BlankOutputs(plan.req)),
         todo = After(Program(run, plan), n), Blanking(plan, n)
  PROVE  \/ AtBlank(run, plan, n)
         \/ /\ Writing(run, plan, 0)
            /\ todo = After(Program(run, plan), Len(BlankOutputs(plan.req)) + 0)
<1> DEFINE P == Program(run, plan)
           B == BlankOutputs(plan.req)
           W == Writes(run, plan)
           V == ConvertOutputs(plan.req)
<1>1. blocks \subseteq Indices
  BY DEF Typed
<1>2. /\ Len(B) \in Nat /\ Len(W) \in Nat /\ Len(V) \in Nat /\ Len(P) = Len(B) + Len(W) + Len(V)
      /\ \E S : P \in Seq(S)
      /\ \A k \in 1 .. Len(B) : P[k] = B[k]
  BY <1>1, ProgramParts
<1>3. PICK S : P \in Seq(S)
  BY <1>2
<1>4. n \in 0 .. Len(B) /\ todo = After(P, n) /\ Blanking(plan, n)
  OBVIOUS
<1> HIDE DEF P, B, W, V
<1> DEFINE b == Len(B)
           w == Len(W)
           v == Len(V)
<1>5. b \in Nat /\ w \in Nat /\ v \in Nat /\ n \in 0 .. b /\ Len(P) = b + w + v
      /\ \A k \in 1 .. b : P[k] = B[k]
  BY <1>2, <1>4
<1> HIDE DEF b, w, v
<1>6. n \in 0 .. Len(P) /\ (n < b => n < Len(P) /\ n # Len(P) /\ n + 1 \in 1 .. b) /\ (n = b => n = b + 0)
  BY <1>5
<1>7. /\ After(P, n) = <<>> <=> n = Len(P)
      /\ n < Len(P) => Head(After(P, n)) = P[n + 1] /\ Tail(After(P, n)) = After(P, n + 1)
  BY <1>3, <1>6, AfterFacts
<1>8. CASE n < b
  <2>2. todo # <<>> /\ Head(todo) = P[n + 1] /\ Tail(todo) = After(P, n + 1)
    BY <1>4, <1>6, <1>7, <1>8
  <2>3. P[n + 1] = B[n + 1]
    BY <1>5, <1>6, <1>8
  <2> QED
    BY <1>4, <1>8, <2>2, <2>3, Zenon DEF AtBlank, b, P, B
<1>9. CASE n = b
  <2>1. Blanking(plan, Len(BlankOutputs(plan.req)))
    BY <1>4, <1>9, Zenon DEF b, B
  <2>2. Writing(run, plan, 0)
    BY <2>1, BlankingDone
  <2>4. todo = After(P, b + 0)
    BY <1>4, <1>6, <1>9, Zenon
  <2> QED
    BY <2>2, <2>4, Zenon DEF P, b, B
<1> QED
  BY <1>5, <1>8, <1>9

\* A running command is before a step of one of the phases, or at its end.
LEMMA Phases ==
  ASSUME Typed, Running, exit = "running"
  PROVE  LET run == Len(made)
             plan == made[Len(made)]
         IN \/ \E n \in Nat : AtBlank(run, plan, n) \/ AtWrite(run, plan, n) \/ AtConvert(run, plan, n)
            \/ AtEnd(run, plan)
<1> DEFINE run == Len(made)
           plan == made[Len(made)]
           P == Program(run, plan)
           B == BlankOutputs(plan.req)
           W == Writes(run, plan)
           V == ConvertOutputs(plan.req)
           C0 == todo = After(P, Len(B) + Len(W) + 0) /\ Converting(run, plan, 0)
           W0 == todo = After(P, Len(B) + 0) /\ Writing(run, plan, 0)
           Goal == \/ \E n \in Nat : AtBlank(run, plan, n) \/ AtWrite(run, plan, n) \/ AtConvert(run, plan, n)
                   \/ AtEnd(run, plan)
<1>1. plan \in Plans /\ plan.ok /\ (plan.req.sparse => blocks = {}) /\ blocks \subseteq Indices /\ Progress(run, plan)
  BY RunningIs
<1>2. Len(B) \in Nat /\ Len(W) \in Nat /\ Len(V) \in Nat
  BY <1>1, ProgramParts
<1> HIDE DEF plan, run
<1>3. ASSUME NEW m \in 0 .. Len(V), todo = After(P, Len(B) + Len(W) + m), Converting(run, plan, m) PROVE Goal
  <2>1. AtConvert(run, plan, m) \/ AtEnd(run, plan)
    BY <1>1, <1>3, ConvertPhase
  <2>2. m \in Nat
    BY <1>2
  <2> QED
    BY <2>1, <2>2, Zenon
<1>4. C0 => Goal
  <2>1. 0 \in 0 .. Len(V)
    BY <1>2
  <2> QED
    BY <1>3, <2>1, Zenon
<1>5. ASSUME NEW m \in 0 .. Len(W), todo = After(P, Len(B) + m), Writing(run, plan, m) PROVE Goal
  <2>1. AtWrite(run, plan, m) \/ C0
    BY <1>1, <1>5, WritePhase
  <2>2. m \in Nat
    BY <1>2
  <2> QED
    BY <1>4, <2>1, <2>2, Zenon
<1>6. W0 => Goal
  <2>1. 0 \in 0 .. Len(W)
    BY <1>2
  <2> QED
    BY <1>5, <2>1, Zenon
<1>7. ASSUME NEW n \in 0 .. Len(B), todo = After(P, n), Blanking(plan, n) PROVE Goal
  <2>1. AtBlank(run, plan, n) \/ W0
    BY <1>1, <1>7, BlankPhase
  <2>2. n \in Nat
    BY <1>2
  <2> QED
    BY <1>6, <2>1, <2>2, Zenon
<1>8. \/ \E n \in 0 .. Len(B) : todo = After(P, n) /\ Blanking(plan, n)
      \/ \E m \in 0 .. Len(W) : todo = After(P, Len(B) + m) /\ Writing(run, plan, m)
      \/ \E m \in 0 .. Len(V) : todo = After(P, Len(B) + Len(W) + m) /\ Converting(run, plan, m)
  BY <1>1 DEF Progress
<1>9. Goal
  BY <1>3, <1>5, <1>7, <1>8, Zenon
<1> QED
  BY <1>9 DEF run, plan

----------------------------------------------------------------------------
\* What one step, whole or half, does to the files.

LEMMA NoImageStays ==
  ASSUME NEW a, NEW b
  PROVE  [NoImage EXCEPT ![a] = b] = NoImage
<1> DEFINE f == NoImage
           g == [f EXCEPT ![a] = b]
<1>1. f = <<>> /\ DOMAIN f = 1 .. 0
  BY DEF NoImage
<1>2. g = [x \in DOMAIN f |-> IF x = a THEN b ELSE f[x]]
  OBVIOUS
<1> HIDE DEF f, g
<1>3. g \in [1 .. 0 -> {b}]
  BY <1>1, <1>2
<1>4. g \in Seq({b}) /\ Len(g) = 0
  <2>1. g \in Seq({b})
    BY <1>3, SeqDef
  <2> QED
    BY <1>3, <2>1
<1>5. g = <<>>
  BY <1>4
<1> QED
  BY <1>1, <1>5 DEF f, g

\* A file with one sector changed.
LEMMA FileChanged ==
  ASSUME NEW d, NEW f, IsFile(f, d), NEW t \in Sectors(d), NEW c
  PROVE  /\ [f EXCEPT ![t] = c] = [s \in Sectors(d) |-> IF s = t THEN c ELSE f[s]]
         /\ IsCell(c) => IsFile([f EXCEPT ![t] = c], d)
<1>1. f = [s \in Sectors(d) |-> f[s]] /\ \A s \in Sectors(d) : IsCell(f[s])
  BY Zenon DEF IsFile
<1> DEFINE S == Sectors(d)
           g == [f EXCEPT ![t] = c]
<1>2. DOMAIN f = S
  BY <1>1
<1>3. g = [s \in DOMAIN f |-> IF s = t THEN c ELSE f[s]]
  OBVIOUS
<1> HIDE DEF g, S
<1>4. g = [s \in S |-> IF s = t THEN c ELSE f[s]]
  BY <1>2, <1>3
<1>5. \A s \in S : g[s] = IF s = t THEN c ELSE f[s]
  BY <1>4
<1>6. g = [s \in S |-> g[s]]
  BY <1>4
<1>7. IsCell(c) => \A s \in S : IsCell(g[s])
  <2> SUFFICES ASSUME IsCell(c), NEW s \in S PROVE IsCell(g[s])
    OBVIOUS
  <2>1. CASE s = t
    BY <1>5, <2>1, Zenon
  <2>2. CASE s # t
    <3>1. g[s] = f[s]
      BY <1>5, <2>2
    <3> QED
      BY <1>1, <3>1, Zenon DEF S
  <2> QED
    BY <2>1, <2>2
<1>8. IsCell(c) => IsFile(g, d)
  BY <1>6, <1>7, Zenon DEF IsFile, S
<1> QED
  BY <1>4, <1>8 DEF g, S

\* The disk with other content at one path.
Changed(path, files) == [p \in Paths |-> IF p = path THEN files ELSE disk[p]]
Spoiled(f, op) == [f EXCEPT ![op.at] = Junk]

\* Outputs and staging files are different files.
LEMMA PathFacts ==
  ASSUME NEW d \in Indices
  PROVE  /\ Out(d) \in Paths /\ Staging(d) \in Paths /\ Out(d)[2] = d /\ Staging(d)[2] = d
         /\ \A c : Out(d) # Staging(c) /\ (Out(c) = Out(d) => c = d) /\ (Staging(c) = Staging(d) => c = d)
         /\ \A req : Raw(d, req) \in {Out(d), Staging(d)} /\ Raw(d, req)[2] = d
<1>1. Out(d) \in Paths /\ Staging(d) \in Paths
  BY DEF Paths
<1>2. Out(d)[2] = d /\ Staging(d)[2] = d /\ Out(d)[1] = "out"
  BY DEF Out, Staging
<1>3. \A c : Staging(c)[1] = "staging" /\ Out(c)[2] = c /\ Staging(c)[2] = c
  BY DEF Out, Staging
<1>4. "out" # "staging"
  OBVIOUS
<1>5. \A c : Out(d) # Staging(c)
  BY <1>2, <1>3, <1>4, Zenon
<1>6. \A c : (Out(c) = Out(d) => c = d) /\ (Staging(c) = Staging(d) => c = d)
  BY <1>2, <1>3, Zenon
<1>7. \A req : Raw(d, req) = Out(d) \/ Raw(d, req) = Staging(d)
  BY DEF Raw
<1>8. \A req : Raw(d, req)[2] = d
  BY <1>2, <1>7, Zenon
<1> QED
  BY <1>1, <1>2, <1>5, <1>6, <1>7, <1>8

\* One file changes.
LEMMA ChangedIs ==
  ASSUME NEW path \in Paths, NEW files, NEW p \in Paths
  PROVE  Changed(path, files)[p] = IF p = path THEN files ELSE disk[p]
BY DEF Changed

\* EXCEPT changes one file.
LEMMA ExceptIsChanged ==
  ASSUME disk = [p \in Paths |-> disk[p]], NEW path, NEW files
  PROVE  [disk EXCEPT ![path] = files] = Changed(path, files)
<1>1. DOMAIN disk = Paths
  OBVIOUS
<1>2. [disk EXCEPT ![path] = files] = [p \in DOMAIN disk |-> IF p = path THEN files ELSE disk[p]]
  OBVIOUS
<1> QED
  BY <1>1, <1>2, Zenon DEF Changed

\* Of all operations.
LEMMA EffectIs ==
  ASSUME Typed, NEW op
  PROVE  /\ op.do = "create" => /\ Effect(op) = Changed(op.path, {Sized(op.path[2], Blank)})
                                /\ HalfEffect(op) = Changed(op.path, {NoImage})
         /\ op.do = "write" => \A f : disk[op.path] = {f} =>
              /\ Effect(op) = Changed(op.path, {Put(f, op)})
              /\ HalfEffect(op) = Changed(op.path, {Spoiled(f, op)})
         /\ op.do = "write" /\ disk[op.path] = {} =>
              Effect(op) = Changed(op.path, {}) /\ HalfEffect(op) = Changed(op.path, {})
         /\ op.do = "convert" => /\ Effect(op) = Changed(op.path, disk[Staging(op.path[2])])
                                 /\ HalfEffect(op) = Changed(op.path, {NoImage})
         /\ op.do = "remove" => Effect(op) = Changed(op.path, {}) /\ HalfEffect(op) = disk
<1> DEFINE k == op.do
           path == op.path
<1>0. disk = [p \in Paths |-> disk[p]]
  BY DEF Typed
<1>1. "create" # "write" /\ "create" # "convert" /\ "create" # "remove" /\ "write" # "convert"
      /\ "write" # "remove" /\ "convert" # "remove"
  OBVIOUS
<1>2. ASSUME NEW files PROVE [disk EXCEPT ![path] = files] = Changed(path, files)
  BY <1>0, ExceptIsChanged
<1>3. ASSUME k = "create"
      PROVE  /\ Effect(op) = Changed(path, {Sized(path[2], Blank)})
             /\ HalfEffect(op) = Changed(path, {NoImage})
  <2>1. Effect(op) = [disk EXCEPT ![path] = {Sized(path[2], Blank)}]
    BY <1>1, <1>3 DEF Effect
  <2>2. HalfEffect(op) = [disk EXCEPT ![path] = {NoImage}]
    BY <1>1, <1>3 DEF HalfEffect
  <2> QED
    BY <1>2, <2>1, <2>2
<1>4. ASSUME k = "write", NEW f, disk[path] = {f}
      PROVE  /\ Effect(op) = Changed(path, {Put(f, op)})
             /\ HalfEffect(op) = Changed(path, {Spoiled(f, op)})
  <2>1. Effect(op) = [disk EXCEPT ![path] = {Put(g, op) : g \in disk[path]}]
    BY <1>1, <1>4 DEF Effect
  <2>2. HalfEffect(op) = [disk EXCEPT ![path] = {Spoiled(g, op) : g \in disk[path]}]
    BY <1>1, <1>4 DEF HalfEffect, Spoiled
  <2>3. {Put(g, op) : g \in disk[path]} = {Put(f, op)}
    BY <1>4
  <2>4. {Spoiled(g, op) : g \in disk[path]} = {Spoiled(f, op)}
    BY <1>4
  <2> QED
    BY <1>2, <2>1, <2>2, <2>3, <2>4
<1>5. ASSUME k = "write", disk[path] = {}
      PROVE  Effect(op) = Changed(path, {}) /\ HalfEffect(op) = Changed(path, {})
  <2>1. Effect(op) = [disk EXCEPT ![path] = {Put(g, op) : g \in disk[path]}]
    BY <1>1, <1>5 DEF Effect
  <2>2. HalfEffect(op) = [disk EXCEPT ![path] = {Spoiled(g, op) : g \in disk[path]}]
    BY <1>1, <1>5 DEF HalfEffect, Spoiled
  <2>3. {Put(g, op) : g \in disk[path]} = {} /\ {Spoiled(g, op) : g \in disk[path]} = {}
    BY <1>5
  <2> QED
    BY <1>2, <2>1, <2>2, <2>3
<1>6. ASSUME k = "convert"
      PROVE  /\ Effect(op) = Changed(path, disk[Staging(path[2])])
             /\ HalfEffect(op) = Changed(path, {NoImage})
  <2>1. Effect(op) = [disk EXCEPT ![path] = disk[Staging(path[2])]]
    BY <1>1, <1>6 DEF Effect
  <2>2. HalfEffect(op) = [disk EXCEPT ![path] = {NoImage}]
    BY <1>1, <1>6 DEF HalfEffect
  <2> QED
    BY <1>2, <2>1, <2>2
<1>7. ASSUME k = "remove" PROVE Effect(op) = Changed(path, {}) /\ HalfEffect(op) = disk
  <2>1. Effect(op) = [disk EXCEPT ![path] = {}]
    BY <1>1, <1>7 DEF Effect
  <2>2. HalfEffect(op) = disk
    BY <1>1, <1>7 DEF HalfEffect
  <2> QED
    BY <1>2, <2>1, <2>2
<1> QED
  BY <1>3, <1>4, <1>5, <1>6, <1>7

----------------------------------------------------------------------------
\* What a run asks for.

OpAllowed(plan, op) ==
  \/ \E d \in Indices \ blocks : op = Create(Raw(d, plan.req))
  \/ \E d \in Indices : \E s \in Sectors(d) : \E c : \E short \in BOOLEAN :
       IsCell(c) /\ op = OpOf(<<d, s, c>>, plan.req, short)
  \/ plan.req.sparse /\ \E d \in Indices : op = Convert(d) \/ op = Unlink(Staging(d))

\* A run writes cells of its own.
LEMMA EntryCells ==
  ASSUME NEW run \in DOMAIN made, made[run] \in Plans, made[run].ok,
         NEW e \in Entries(run, made[run])
  PROVE  IsCell(e[3])
<1> DEFINE plan == made[run]
<1>1. CASE e \in Geometries(run)
  <2>1. e[3] = <<run, "geometry">>
    BY <1>1 DEF Geometries, Geometry
  <2>2. "geometry" \in Kinds
    BY DEF Kinds
  <2> QED
    BY <2>1, <2>2 DEF IsCell
<1>2. CASE e \in Tables(run, plan.req)
  <2>1. e[3] = <<run, "table">>
    BY <1>2 DEF Tables, TableOf
  <2>2. "table" \in Kinds
    BY DEF Kinds
  <2> QED
    BY <2>1, <2>2 DEF IsCell
<1>3. CASE e \in Payloads(run, plan)
  <2>1. PICK i \in DOMAIN plan.req.parts : \E k \in 1 .. plan.req.parts[i].len : e[3] = Payload(run, i, k)
    <3> DEFINE p == made[run]
    <3>1. p \in Plans /\ p.ok /\ e \in Payloads(run, p)
      BY <1>3
    <3> HIDE DEF p
    <3>2. \E i \in DOMAIN p.req.parts : \E k \in 1 .. p.req.parts[i].len : e[3] = Payload(run, i, k)
      BY <3>1, PayloadPlanned
    <3> QED
      BY <3>2 DEF p
  <2> QED
    BY <2>1 DEF IsCell
<1> QED
  BY <1>1, <1>2, <1>3 DEF Entries

\* The steps of each phase are allowed.
LEMMA BlankIsAllowed ==
  ASSUME blocks \subseteq Indices, NEW plan, plan.req.sparse => blocks = {}, NEW op \in BlankOps(plan.req)
  PROVE  OpAllowed(plan, op)
<1> DEFINE req == plan.req
<1>1. CASE \E d \in Indices \ blocks : op = Create(Raw(d, req))
  BY <1>1 DEF OpAllowed
<1>2. CASE \E d \in blocks : \E s \in Sectors(d) : op = Write(Out(d), s, Blank)
  <2>1. PICK d \in blocks : \E s \in Sectors(d) : op = Write(Out(d), s, Blank)
    BY <1>2
  <2>2. PICK s \in Sectors(d) : op = Write(Out(d), s, Blank)
    BY <2>1
  <2>3. Raw(d, req) = Out(d)
    BY DEF Raw
  <2> DEFINE e == <<d, s, Blank>>
  <2>4. e[1] = d /\ e[2] = s /\ e[3] = Blank
    OBVIOUS
  <2>5. op = OpOf(e, req, FALSE)
    BY <2>2, <2>3, <2>4 DEF OpOf, Write
  <2>6. IsCell(Blank)
    BY DEF IsCell
  <2>7. d \in Indices /\ FALSE \in BOOLEAN
    OBVIOUS
  <2> QED
    BY <2>5, <2>6, <2>7 DEF OpAllowed
<1>3. \/ \E d \in Indices \ blocks : op = Create(Raw(d, req))
      \/ \E d \in blocks : \E s \in Sectors(d) : op = Write(Out(d), s, Blank)
  BY DEF BlankOps
<1> QED
  BY <1>1, <1>2, <1>3

LEMMA WriteIsAllowed ==
  ASSUME NEW run \in DOMAIN made, NEW plan \in Plans, plan = made[run], plan.ok,
         NEW k \in 1 .. Len(Writes(run, plan))
  PROVE  OpAllowed(plan, Writes(run, plan)[k])
<1> DEFINE op == Writes(run, plan)[k]
<1>1. PICK e \in Entries(run, plan) : \E short \in BOOLEAN :
           /\ op = OpOf(e, plan.req, short)
           /\ e[1] \in Indices /\ e[2] \in Sectors(e[1])
  BY WriteIs
<1>2. PICK short \in BOOLEAN : /\ op = OpOf(e, plan.req, short)
                               /\ e[1] \in Indices /\ e[2] \in Sectors(e[1])
  BY <1>1
<1>3. IsCell(e[3])
  BY EntryCells
<1> DEFINE d == e[1]
           s == e[2]
           c == e[3]
           x == <<d, s, c>>
<1>4. OpOf(x, plan.req, short) = OpOf(e, plan.req, short)
  <2>1. x[1] = e[1] /\ x[2] = e[2] /\ x[3] = e[3]
    OBVIOUS
  <2> QED
    BY <2>1, Zenon DEF OpOf
<1> HIDE DEF op, d, s, c
<1>5. d \in Indices /\ s \in Sectors(d) /\ IsCell(c) /\ op = OpOf(<<d, s, c>>, plan.req, short)
  BY <1>2, <1>3, <1>4 DEF d, s, c
<1> QED
  BY <1>5, Zenon DEF OpAllowed, op

LEMMA ConvertIsAllowed ==
  ASSUME NEW plan, plan.req.sparse, NEW op \in ConvertOps
  PROVE  OpAllowed(plan, op)
BY DEF OpAllowed, ConvertOps

\* So is the next step of a running command.
LEMMA StepIsAllowed ==
  ASSUME Typed, Running, exit = "running", todo # <<>>
  PROVE  OpAllowed(made[Len(made)], Head(todo))
<1> DEFINE run == Len(made)
           plan == made[Len(made)]
           B == BlankOutputs(plan.req)
           W == Writes(run, plan)
           V == ConvertOutputs(plan.req)
           op == Head(todo)
<1>1. /\ run \in DOMAIN made /\ plan \in Plans /\ plan.ok /\ plan.req.sparse \in BOOLEAN
      /\ (plan.req.sparse => blocks = {}) /\ SpecsFit /\ blocks \subseteq Indices
  BY RunningIs
<1>2. PICK n \in Nat : AtBlank(run, plan, n) \/ AtWrite(run, plan, n) \/ AtConvert(run, plan, n)
  <2>1. ~AtEnd(run, plan)
    BY DEF AtEnd
  <2>2. \/ \E n \in Nat : AtBlank(run, plan, n) \/ AtWrite(run, plan, n) \/ AtConvert(run, plan, n)
        \/ AtEnd(run, plan)
    BY Phases
  <2> QED
    BY <2>1, <2>2
<1>0. plan = made[run]
  OBVIOUS
<1> HIDE DEF run, plan
<1>3. CASE AtBlank(run, plan, n)
  <2>1. B \in Seq(BlankOps(plan.req)) /\ Len(B) \in Nat
    BY <1>1, BlankFacts
  <2>2. n < Len(B) /\ op = B[n + 1]
    BY <1>3 DEF AtBlank
  <2> DEFINE S == BlankOps(plan.req)
  <2> HIDE DEF S, B
  <2>3. op \in S
    BY <2>1, <2>2 DEF S
  <2> QED
    BY <1>1, <2>3, BlankIsAllowed DEF S, plan
<1>4. CASE AtWrite(run, plan, n)
  <2>1. Len(W) \in Nat
    BY <1>1, WriteFacts
  <2>2. n < Len(W) /\ op = W[n + 1]
    BY <1>4 DEF AtWrite
  <2>3. n + 1 \in 1 .. Len(W)
    BY <2>1, <2>2
  <2> QED
    BY <1>0, <1>1, <2>2, <2>3, WriteIsAllowed DEF plan
<1>5. CASE AtConvert(run, plan, n)
  <2>1. V \in Seq(ConvertOps) /\ Len(V) \in Nat /\ (~plan.req.sparse => Len(V) = 0)
    BY <1>1, ConvertFacts
  <2>2. n < Len(V) /\ op = V[n + 1]
    BY <1>5 DEF AtConvert
  <2> HIDE DEF V
  <2>3. op \in ConvertOps /\ plan.req.sparse
    BY <2>1, <2>2
  <2> QED
    BY <2>3, ConvertIsAllowed DEF plan
<1> QED
  BY <1>2, <1>3, <1>4, <1>5

----------------------------------------------------------------------------
\* Types are kept.

LEMMA FilesKept ==
  ASSUME made \in Seq(Plans), made' = made \/ \E plan \in Plans : made' = Append(made, plan)
  PROVE  /\ DOMAIN made \subseteq DOMAIN made' /\ \A run \in DOMAIN made : made'[run] = made[run]
         /\ \A f, d : IsFile(f, d) => IsFile(f, d)'
<1>1. DOMAIN made \subseteq DOMAIN made' /\ \A run \in DOMAIN made : made'[run] = made[run]
  <2>1. CASE made' = made
    BY <2>1
  <2>2. CASE \E plan \in Plans : made' = Append(made, plan)
    <3>1. PICK plan \in Plans : made' = Append(made, plan)
      BY <2>2
    <3> QED
      BY <3>1
  <2> QED
    BY <2>1, <2>2
<1>2. ASSUME NEW c, IsCell(c) PROVE IsCell(c)'
  <2>1. CASE c \in {Blank, Junk}
    BY <2>1 DEF IsCell
  <2>2. CASE c \notin {Blank, Junk}
    <3>1. PICK run \in DOMAIN made :
            \/ \E kind \in Kinds : c = <<run, kind>>
            \/ \E i \in DOMAIN made[run].req.parts :
                 \E k \in 1 .. made[run].req.parts[i].len : c = Payload(run, i, k)
      BY <1>2, <2>2 DEF IsCell
    <3>2. run \in DOMAIN made' /\ made'[run] = made[run]
      BY <1>1
    <3>3. \/ \E kind \in Kinds : c = <<run, kind>>
          \/ \E i \in DOMAIN made'[run].req.parts :
               \E k \in 1 .. made'[run].req.parts[i].len : c = Payload(run, i, k)
      BY <3>1, <3>2
    <3> QED
      BY <3>2, <3>3 DEF IsCell
  <2> QED
    BY <2>1, <2>2
<1>3. ASSUME NEW f, NEW d, IsFile(f, d) PROVE IsFile(f, d)'
  <2>1. f = [s \in Sectors(d) |-> f[s]] /\ \A s \in Sectors(d) : IsCell(f[s])
    BY <1>3, Zenon DEF IsFile
  <2>2. ASSUME NEW s \in Sectors(d) PROVE IsCell(f[s])'
    <3> DEFINE c == f[s]
    <3>1. IsCell(c)
      BY <2>1
    <3> HIDE DEF c
    <3>2. IsCell(c)'
      BY <1>2, <3>1
    <3> QED
      BY <3>2 DEF c
  <2> QED
    BY <2>1, <2>2 DEF IsFile
<1> QED
  BY <1>1, <1>3

\* Files that may be at a path.
Fits(path, files) ==
  /\ files = {} \/ \E f \in files : files = {f} /\ (f = NoImage \/ IsFile(f, path[2]))
  /\ \A d \in blocks : path = Out(d) => \E f \in files : files = {f} /\ IsFile(f, d)

\* Typed, file by file.
LEMMA TypedIs ==
  ASSUME Typed, NEW p \in Paths
  PROVE  Fits(p, disk[p])
BY DEF Typed, Fits

\* Typed holds on if the file that changes fits.
LEMMA TypedChanged ==
  ASSUME Typed, NEW path \in Paths, NEW files, Fits(path, files),
         disk' = Changed(path, files) \/ disk' = disk,
         made' = made \/ \E plan \in Plans : made' = Append(made, plan),
         blocks' = blocks, exit' \in {"none", "running", Success, Failure, Stopped}
  PROVE  Typed'
<1>1. made \in Seq(Plans) /\ blocks \subseteq Indices /\ disk = [p \in Paths |-> disk[p]]
  BY DEF Typed
<1>2. made' \in Seq(Plans)
  <2>1. CASE made' = made
    BY <1>1, <2>1
  <2>2. CASE \E plan \in Plans : made' = Append(made, plan)
    <3>1. PICK plan \in Plans : made' = Append(made, plan)
      BY <2>2
    <3> QED
      BY <1>1, <3>1
  <2> QED
    BY <2>1, <2>2
<1>3. \A f, d : IsFile(f, d) => IsFile(f, d)'
  BY <1>1, FilesKept
<1>4. disk' = [p \in Paths |-> disk'[p]]
  BY <1>1 DEF Changed
<1>5. ASSUME NEW p \in Paths PROVE Fits(p, disk'[p])
  <2>1. CASE disk' = disk
    BY <2>1, TypedIs
  <2>2. CASE disk' = Changed(path, files)
    <3>1. disk'[p] = IF p = path THEN files ELSE disk[p]
      BY <2>2, ChangedIs
    <3>2. CASE p = path
      BY <3>1, <3>2, Zenon
    <3>3. CASE p # path
      <4>1. disk'[p] = disk[p]
        BY <3>1, <3>3
      <4>2. Fits(p, disk[p])
        BY TypedIs
      <4> QED
        BY <4>1, <4>2, Zenon
    <3> QED
      BY <3>2, <3>3
  <2> QED
    BY <2>1, <2>2
<1>6. ASSUME NEW p \in Paths
      PROVE  disk'[p] = {} \/ \E f \in disk'[p] : disk'[p] = {f} /\ (f = NoImage \/ IsFile(f, p[2])')
  <2> DEFINE F == disk'[p]
  <2>1. F = {} \/ \E f \in F : F = {f} /\ (f = NoImage \/ IsFile(f, p[2]))
    BY <1>5, Zenon DEF Fits
  <2> HIDE DEF F
  <2>2. F = {} \/ \E f \in F : F = {f} /\ (f = NoImage \/ IsFile(f, p[2])')
    BY <1>3, <2>1
  <2> QED
    BY <2>2 DEF F
<1>7. ASSUME NEW d \in blocks
      PROVE  \E f \in disk'[Out(d)] : disk'[Out(d)] = {f} /\ IsFile(f, d)'
  <2> DEFINE F == disk'[Out(d)]
  <2>1. Out(d) \in Paths
    BY <1>1 DEF Paths
  <2>2. \E f \in F : F = {f} /\ IsFile(f, d)
    BY <1>5, <2>1, Zenon DEF Fits
  <2> HIDE DEF F
  <2>3. \E f \in F : F = {f} /\ IsFile(f, d)'
    BY <1>3, <2>2
  <2> QED
    BY <2>3 DEF F
<1> QED
  BY <1>1, <1>2, <1>4, <1>6, <1>7 DEF Typed

\* A file that was just created is one.
LEMMA SizedIsFile ==
  ASSUME NEW d, NEW c \in {Blank, Junk}
  PROVE  IsFile(Sized(d, c), d)
<1>1. IsCell(c)
  BY DEF IsCell
<1>2. \A s \in Sectors(d) : Sized(d, c)[s] = c
  BY DEF Sized
<1>3. Sized(d, c) = [s \in Sectors(d) |-> Sized(d, c)[s]]
  BY DEF Sized
<1>4. \A s \in Sectors(d) : IsCell(Sized(d, c)[s])
  BY <1>1, <1>2, Zenon
<1> QED
  BY <1>3, <1>4, Zenon DEF IsFile

\* A write, whole or half, into whatever is there.
LEMMA WriteFits ==
  ASSUME NEW d \in Indices, NEW t \in Sectors(d), NEW c, IsCell(c), NEW req, NEW short \in BOOLEAN,
         NEW op, op = OpOf(<<d, t, c>>, req, short), NEW f, Fits(op.path, {f})
  PROVE  Fits(op.path, {Put(f, op)}) /\ Fits(op.path, {Spoiled(f, op)})
<1> DEFINE p == op.path
<1>1. op.at = t /\ op.cell = c /\ op.short = short /\ p[2] = d /\ p = Raw(d, req)
  <2> DEFINE e == <<d, t, c>>
  <2>1. e[1] = d /\ e[2] = t /\ e[3] = c
    OBVIOUS
  <2> HIDE DEF e
  <2>2. op = OpOf(e, req, short)
    BY DEF e
  <2> QED
    BY <2>1, <2>2, OpOfFacts
<1>2. ASSUME NEW x, IsCell(x) PROVE Fits(p, {[f EXCEPT ![t] = x]})
  <2> DEFINE g == [f EXCEPT ![t] = x]
  <2>1. CASE f = NoImage
    <3>1. g = NoImage
      BY <2>1, NoImageStays
    <3> QED
      BY <2>1, <3>1, Zenon
  <2>2. CASE f # NoImage
    <3>1. IsFile(f, d)
      BY <1>1, <2>2 DEF Fits
    <3>2. IsFile(g, d)
      BY <1>2, <3>1, FileChanged
    <3> HIDE DEF g
    <3>3. \A b : p = Out(b) => b = d
      BY <1>1 DEF Raw, Out, Staging
    <3>4. g \in {g} /\ (g = NoImage \/ IsFile(g, p[2]))
      BY <1>1, <3>2, Zenon
    <3>5. \A b \in blocks : p = Out(b) => \E h \in {g} : {g} = {h} /\ IsFile(h, b)
      BY <3>2, <3>3, Zenon
    <3> HIDE DEF p
    <3>6. Fits(p, {g})
      BY <3>4, <3>5, Zenon DEF Fits
    <3> QED
      BY <3>6 DEF g
  <2> QED
    BY <2>1, <2>2
<1>3. IsCell(Junk)
  BY DEF IsCell
<1> DEFINE x == IF op.short /\ f[t] # Blank THEN Junk ELSE op.cell
<1>4. IsCell(x)
  <2>1. x = Junk \/ x = c
    BY <1>1
  <2> HIDE DEF x
  <2> QED
    BY <1>3, <2>1, Zenon
<1>5. Put(f, op) = [f EXCEPT ![t] = x]
  BY <1>1, Zenon DEF Put
<1>6. Spoiled(f, op) = [f EXCEPT ![t] = Junk]
  BY <1>1, Zenon DEF Spoiled
<1> HIDE DEF x
<1>7. Fits(p, {[f EXCEPT ![t] = x]})
  BY <1>2, <1>4
<1>8. Fits(p, {[f EXCEPT ![t] = Junk]})
  BY <1>2, <1>3
<1> QED
  BY <1>5, <1>6, <1>7, <1>8, Zenon

\* An allowed step, whole or half, keeps the types.
LEMMA TypedKept ==
  ASSUME Typed, NEW plan, plan.req.sparse => blocks = {}, NEW op, OpAllowed(plan, op),
         disk' \in {Effect(op), HalfEffect(op)}, made' = made, blocks' = blocks,
         exit' \in {"none", "running", Success, Failure, Stopped}
  PROVE  Typed'
<1> DEFINE req == plan.req
<1>0. blocks \subseteq Indices
  BY DEF Typed
<1>1. ASSUME NEW d \in Indices \ blocks, op = Create(Raw(d, req)) PROVE Typed'
  <2> DEFINE path == Raw(d, req)
  <2>1. op.do = "create" /\ op.path = path /\ path[2] = d /\ path \in Paths
    <3>1. op.do = "create" /\ op.path = path
      BY <1>1 DEF Create
    <3>2. path[2] = d /\ path \in Paths
      BY PathFacts
    <3> QED
      BY <3>1, <3>2
  <2>2. disk' = Changed(path, {Sized(d, Blank)}) \/ disk' = Changed(path, {NoImage})
    BY <2>1, EffectIs
  <2>3. \A b \in blocks : path # Out(b)
    BY <1>0, PathFacts DEF Raw
  <2>4. IsFile(Sized(d, Blank), d)
    BY SizedIsFile
  <2>5. Fits(path, {Sized(d, Blank)})
    BY <2>1, <2>3, <2>4, Zenon DEF Fits
  <2>6. Fits(path, {NoImage})
    BY <2>3, Zenon DEF Fits
  <2> HIDE DEF path
  <2> QED
    BY <2>1, <2>2, <2>5, <2>6, TypedChanged
<1>2. ASSUME NEW d \in Indices, NEW t \in Sectors(d), NEW c, NEW short \in BOOLEAN,
             IsCell(c), op = OpOf(<<d, t, c>>, req, short)
      PROVE  Typed'
  <2> DEFINE path == op.path
  <2>1. op.do = "write" /\ path = Raw(d, req)
    BY <1>2 DEF OpOf
  <2>2. path \in Paths
    BY <2>1, PathFacts
  <2>3. Fits(path, disk[path])
    BY <2>2, TypedIs
  <2>4. CASE disk[path] = {}
    <3>1. disk' = Changed(path, {})
      BY <2>1, <2>4, EffectIs
    <3>2. Fits(path, {})
      BY <2>3, <2>4, Zenon
    <3> HIDE DEF path
    <3> QED
      BY <2>2, <3>1, <3>2, TypedChanged
  <2>5. ASSUME NEW f, disk[path] = {f} PROVE Typed'
    <3>1. disk' = Changed(path, {Put(f, op)}) \/ disk' = Changed(path, {Spoiled(f, op)})
      BY <2>1, <2>5, EffectIs
    <3>2. Fits(path, {f})
      BY <2>3, <2>5, Zenon
    <3>3. Fits(path, {Put(f, op)}) /\ Fits(path, {Spoiled(f, op)})
      BY <1>2, <3>2, WriteFits
    <3> HIDE DEF path
    <3> QED
      BY <2>2, <3>1, <3>3, TypedChanged
  <2>6. disk[path] = {} \/ \E f : disk[path] = {f}
    BY <2>3, Zenon DEF Fits
  <2> QED
    BY <2>4, <2>5, <2>6
<1>3. ASSUME req.sparse, NEW d \in Indices, op = Convert(d) PROVE Typed'
  <2>1. op.do = "convert" /\ op.path = Out(d) /\ Out(d)[2] = d /\ Out(d) \in Paths /\ Staging(d) \in Paths
        /\ Staging(d)[2] = d
    <3>1. op.do = "convert" /\ op.path = Out(d)
      BY <1>3 DEF Convert
    <3> QED
      BY <3>1, PathFacts
  <2>2. disk' = Changed(Out(d), disk[Staging(d)]) \/ disk' = Changed(Out(d), {NoImage})
    BY <2>1, EffectIs
  <2>3. blocks = {}
    BY <1>3
  <2>4. Fits(Out(d), {NoImage})
    BY <2>3 DEF Fits
  <2>5. Fits(Out(d), disk[Staging(d)])
    <3>1. Fits(Staging(d), disk[Staging(d)])
      BY <2>1, TypedIs
    <3> QED
      BY <2>1, <2>3, <3>1, Zenon DEF Fits
  <2> QED
    BY <2>1, <2>2, <2>4, <2>5, TypedChanged
<1>4. ASSUME req.sparse, NEW d \in Indices, op = Unlink(Staging(d)) PROVE Typed'
  <2>1. op.do = "remove" /\ op.path = Staging(d) /\ Staging(d) \in Paths
    <3>1. op.do = "remove" /\ op.path = Staging(d)
      BY <1>4 DEF Unlink
    <3> QED
      BY <3>1, PathFacts
  <2>2. disk' = Changed(Staging(d), {}) \/ disk' = disk
    BY <2>1, EffectIs
  <2>3. Fits(Staging(d), {})
    BY <1>4, Zenon DEF Fits
  <2> QED
    BY <2>1, <2>2, <2>3, TypedChanged
<1>5. CASE \E d \in Indices \ blocks : op = Create(Raw(d, req))
  BY <1>1, <1>5
<1>6. CASE \E d \in Indices : \E s \in Sectors(d) : \E c : \E short \in BOOLEAN :
       IsCell(c) /\ op = OpOf(<<d, s, c>>, req, short)
  BY <1>2, <1>6
<1>7. CASE req.sparse /\ \E d \in Indices : op = Convert(d) \/ op = Unlink(Staging(d))
  BY <1>3, <1>4, <1>7
<1> QED
  BY <1>5, <1>6, <1>7 DEF OpAllowed

----------------------------------------------------------------------------
\* A step of each phase.

LEMMA BlankOutputsSame ==
  ASSUME blocks' = blocks, NEW req
  PROVE  BlankOutputs(req)' = BlankOutputs(req)
BY DEF BlankOutputs, BlankOutput

\* What is to be blanked, and so the program, is as the block devices are.
LEMMA ProgramSame ==
  ASSUME blocks' = blocks, NEW run, NEW plan
  PROVE  Program(run, plan)' = Program(run, plan)
<1>1. BlankOutputs(plan.req)' = BlankOutputs(plan.req)
  BY BlankOutputsSame
<1> QED
  BY <1>1 DEF Program

\* What blanks has blanked, and nothing that blanks undoes it.
LEMMA BlankedKept ==
  ASSUME Typed, SpecsFit, NEW req, NEW op \in BlankOps(req), NEW x \in BlankOps(req),
         x = op \/ Blanked(x), disk' = Effect(op)
  PROVE  Blanked(x)'
<1>0. blocks \subseteq Indices
  BY DEF Typed
<1>1. \A y \in BlankOps(req) :
        \/ \E d \in Indices \ blocks : y = Create(Raw(d, req))
        \/ \E d \in blocks : \E s \in Sectors(d) : y = Write(Out(d), s, Blank)
  BY DEF BlankOps
<1>2. ASSUME NEW d \in Indices \ blocks, op = Create(Raw(d, req)) PROVE Blanked(x)'
  <2> DEFINE path == Raw(d, req)
  <2>1. op.do = "create" /\ op.path = path /\ path[2] = d /\ path \in Paths
    <3>1. op.do = "create" /\ op.path = path
      BY <1>2 DEF Create
    <3> QED
      BY <3>1, PathFacts
  <2>2. disk' = Changed(path, {Sized(d, Blank)})
    BY <2>1, EffectIs
  <2>3. CASE \E b \in Indices \ blocks : x = Create(Raw(b, req))
    <3>1. PICK b \in Indices \ blocks : x = Create(Raw(b, req))
      BY <2>3
    <3>2. x.do = "create" /\ x.path = Raw(b, req) /\ x.path[2] = b /\ x.path \in Paths
      <4>1. x.do = "create" /\ x.path = Raw(b, req)
        BY <3>1 DEF Create
      <4> QED
        BY <4>1, PathFacts
    <3>3. x = op \/ disk[Raw(b, req)] = {Sized(b, Blank)}
      BY <3>1, BlankedIs
    <3>4. disk'[x.path] = {Sized(x.path[2], Blank)}
      <4>1. disk'[x.path] = IF x.path = path THEN {Sized(d, Blank)} ELSE disk[x.path]
        BY <2>1, <2>2, <3>2, ChangedIs
      <4>2. x = op => x.path = path /\ x.path[2] = d
        BY <2>1
      <4>3. x.path = path => x.path[2] = d
        BY <2>1
      <4> QED
        BY <3>2, <3>3, <4>1, <4>2, <4>3
    <3> QED
      BY <3>2, <3>4 DEF Blanked
  <2>4. CASE \E b \in blocks : \E s \in Sectors(b) : x = Write(Out(b), s, Blank)
    <3>1. PICK b \in blocks : \E s \in Sectors(b) : x = Write(Out(b), s, Blank)
      BY <2>4
    <3>2. PICK s \in Sectors(b) : x = Write(Out(b), s, Blank)
      BY <3>1
    <3>3. x.do = "write" /\ x.path = Out(b) /\ x.at = s
      BY <3>2 DEF Write
    <3>4. "write" # "create"
      OBVIOUS
    <3>5. \A f \in disk[Out(b)] : f[s] = Blank
      BY <2>1, <3>2, <3>3, <3>4, BlankedIs
    <3>6. Out(b) # path /\ Out(b) \in Paths
      BY <1>0, PathFacts DEF Raw
    <3>7. disk'[Out(b)] = disk[Out(b)]
      BY <2>1, <2>2, <3>6, ChangedIs
    <3> QED
      BY <3>3, <3>4, <3>5, <3>7 DEF Blanked
  <2> QED
    BY <1>1, <2>3, <2>4
<1>3. ASSUME NEW d \in blocks, NEW t \in Sectors(d), op = Write(Out(d), t, Blank) PROVE Blanked(x)'
  <2>1. op.do = "write" /\ op.path = Out(d) /\ op.at = t /\ op.cell = Blank /\ op.short = FALSE
    BY <1>3 DEF Write
  <2>2. PICK f \in disk[Out(d)] : disk[Out(d)] = {f} /\ IsFile(f, d)
    BY DEF Typed
  <2> DEFINE g == Put(f, op)
  <2>3. Out(d) \in Paths
    BY <1>0, PathFacts
  <2>4. disk' = Changed(Out(d), {g})
    BY <2>1, <2>2, EffectIs
  <2>5. g = [f EXCEPT ![t] = Blank]
    BY <2>1 DEF Put
  <2>6. [f EXCEPT ![t] = Blank] = [s \in Sectors(d) |-> IF s = t THEN Blank ELSE f[s]]
    BY <2>2, FileChanged
  <2>7. \A s \in Sectors(d) : g[s] = IF s = t THEN Blank ELSE f[s]
    BY <2>5, <2>6
  <2> HIDE DEF g
  <2>8. CASE \E b \in Indices \ blocks : x = Create(Raw(b, req))
    <3>1. PICK b \in Indices \ blocks : x = Create(Raw(b, req))
      BY <2>8
    <3>2. x.do = "create" /\ x.path = Raw(b, req) /\ x.path[2] = b /\ x.path \in Paths
      <4>1. x.do = "create" /\ x.path = Raw(b, req)
        BY <3>1 DEF Create
      <4> QED
        BY <4>1, PathFacts
    <3>3. "write" # "create"
      OBVIOUS
    <3>4. disk[Raw(b, req)] = {Sized(b, Blank)}
      BY <2>1, <3>1, <3>2, <3>3, BlankedIs
    <3>5. x.path # Out(d)
      BY <1>0, <3>2, PathFacts DEF Raw
    <3>6. disk'[x.path] = disk[x.path]
      BY <2>3, <2>4, <3>2, <3>5, ChangedIs
    <3> QED
      BY <3>2, <3>4, <3>6 DEF Blanked
  <2>9. CASE \E b \in blocks : \E s \in Sectors(b) : x = Write(Out(b), s, Blank)
    <3>1. PICK b \in blocks : \E s \in Sectors(b) : x = Write(Out(b), s, Blank)
      BY <2>9
    <3>2. PICK s \in Sectors(b) : x = Write(Out(b), s, Blank)
      BY <3>1
    <3>3. x.do = "write" /\ x.path = Out(b) /\ x.at = s
      BY <3>2 DEF Write
    <3>4. "write" # "create"
      OBVIOUS
    <3>5. x = op \/ \A h \in disk[Out(b)] : h[s] = Blank
      BY <3>2, BlankedIs
    <3>6. Out(b) \in Paths /\ (Out(b) = Out(d) => b = d)
      BY <1>0, PathFacts
    <3>7. disk'[Out(b)] = IF Out(b) = Out(d) THEN {g} ELSE disk[Out(b)]
      BY <2>3, <2>4, <3>6, ChangedIs
    <3>8. x = op => Out(b) = Out(d) /\ s = t
      BY <2>1, <3>3
    <3>9. CASE Out(b) # Out(d)
      BY <3>3, <3>4, <3>5, <3>7, <3>8, <3>9 DEF Blanked
    <3>10. CASE Out(b) = Out(d)
      <4>1. s \in Sectors(d)
        BY <3>6, <3>10
      <4>2. x = op => g[s] = Blank
        BY <2>7, <3>8, <4>1
      <4>3. (\A h \in disk[Out(b)] : h[s] = Blank) => g[s] = Blank
        BY <2>2, <2>7, <3>10, <4>1
      <4>4. \A h \in disk'[Out(b)] : h[s] = Blank
        BY <3>5, <3>7, <3>10, <4>2, <4>3
      <4> QED
        BY <3>3, <3>4, <4>4 DEF Blanked
    <3> QED
      BY <3>9, <3>10
  <2> QED
    BY <1>1, <2>8, <2>9
<1> QED
  BY <1>1, <1>2, <1>3

\* A step of blanking blanks one more.
LEMMA BlankStep ==
  ASSUME Typed, SpecsFit, NEW plan, NEW n \in Nat, n < Len(BlankOutputs(plan.req)), Blanking(plan, n),
         disk' = Effect(BlankOutputs(plan.req)[n + 1]), blocks' = blocks
  PROVE  Blanking(plan, n + 1)'
<1> DEFINE B == BlankOutputs(plan.req)
           S == BlankOps(plan.req)
<1>1. B \in Seq(S) /\ Len(B) \in Nat
  BY BlankFacts DEF Typed
<1>2. \A k \in 1 .. n : Blanked(B[k])
  BY DEF Blanking
<1>3. disk' = Effect(B[n + 1]) /\ n < Len(B)
  OBVIOUS
<1>4. B' = B
  BY BlankOutputsSame
<1> HIDE DEF B, S
<1>5. ASSUME NEW k \in 1 .. n + 1 PROVE Blanked(B[k])'
  <2> DEFINE op == B[n + 1]
             x == B[k]
  <2>1. op \in S /\ x \in S
    BY <1>1, <1>3
  <2>2. x = op \/ Blanked(x)
    <3>1. k = n + 1 \/ k \in 1 .. n
      OBVIOUS
    <3> QED
      BY <1>2, <3>1
  <2>3. disk' = Effect(op)
    BY <1>3
  <2>4. (B[k])' = B[k]
    BY <1>4
  <2> HIDE DEF op
  <2>5. \A y : y \in BlankOps(plan.req) /\ (y = op \/ Blanked(y)) => Blanked(y)'
    BY <2>1, <2>3, BlankedKept DEF S
  <2>6. x \in BlankOps(plan.req)
    BY <2>1 DEF S
  <2>7. x' = x
    BY <2>4
  <2> HIDE DEF x
  <2>8. PICK y : y = x
    OBVIOUS
  <2>9. Blanked(y)'
    BY <2>2, <2>5, <2>6, <2>8
  <2>10. y = x'
    BY <2>7, <2>8
  <2>11. Blanked(x)'
    BY <2>9, <2>10 DEF Blanked
  <2> QED
    BY <2>11 DEF x
<1> QED
  BY <1>5 DEF Blanking, B

\* A write makes the next image.
LEMMA WriteStep ==
  ASSUME Typed, NEW run, NEW plan \in Plans, plan.ok, NEW m \in Nat, m < Len(Writes(run, plan)),
         Writing(run, plan, m), disk' = Effect(Writes(run, plan)[m + 1])
  PROVE  Writing(run, plan, m + 1)'
<1> DEFINE op == Writes(run, plan)[m + 1]
           req == plan.req
<1>1. m + 1 \in 1 .. Len(Writes(run, plan))
  BY WriteFacts
<1>2. PICK e \in Entries(run, plan), short \in BOOLEAN :
        op = OpOf(e, req, short) /\ e[1] \in Indices /\ e[2] \in Sectors(e[1])
  BY <1>1, WriteIs
<1> DEFINE c == e[1]
           now(d) == ImageAfter(run, plan, d, m)
           next(d) == ImageAfter(run, plan, d, m + 1)
<1>3. c \in Indices /\ op.do = "write" /\ op.path = Raw(c, req)
  BY <1>2, OpOfFacts
<1>4. \A d : /\ op.path = Raw(d, req) => Put(now(d), op) = next(d)
             /\ op.path # Raw(d, req) => next(d) = now(d)
  BY ImageSteps
<1>5. \A d \in Indices : disk[Raw(d, req)] = {now(d)}
  BY DEF Writing
<1>6. disk' = Effect(op)
  OBVIOUS
<1> HIDE DEF op, c, now, next
<1>7. disk' = Changed(op.path, {Put(now(c), op)})
  BY <1>3, <1>5, <1>6, EffectIs
<1>8. ASSUME NEW d \in Indices PROVE disk'[Raw(d, req)] = {next(d)}
  <2>1. Raw(d, req) \in Paths /\ Raw(c, req) \in Paths
    BY <1>3, PathFacts
  <2>2. disk'[Raw(d, req)] = IF Raw(d, req) = op.path THEN {Put(now(c), op)} ELSE disk[Raw(d, req)]
    BY <1>3, <1>7, <2>1, ChangedIs
  <2>3. CASE Raw(d, req) = op.path
    <3>1. d = c
      BY <1>3, <2>3, RawIs
    <3> QED
      BY <1>4, <2>2, <2>3, <3>1
  <2>4. CASE Raw(d, req) # op.path
    BY <1>4, <1>5, <2>2, <2>4
  <2> QED
    BY <2>3, <2>4
<1>9. \A d \in Indices : disk'[Raw(d, plan.req)] = {ImageAfter(run, plan, d, m + 1)}
  BY <1>8 DEF next
<1> QED
  BY <1>9 DEF Writing

\* A conversion does not undo another, and its staging file is still there.
LEMMA ConvertStep ==
  ASSUME Typed, NEW run, NEW plan \in Plans, plan.ok, NEW m \in Nat, m < Len(ConvertOutputs(plan.req)),
         Converting(run, plan, m), disk' = Effect(ConvertOutputs(plan.req)[m + 1])
  PROVE  Converting(run, plan, m + 1)'
<1> DEFINE req == plan.req
           V == ConvertOutputs(req)
           op == V[m + 1]
<1>0. req.sparse \in BOOLEAN
  BY PlanFacts, RequestSlots
<1>1. /\ V \in Seq(ConvertOps) /\ Len(V) \in Nat /\ (~req.sparse => Len(V) = 0)
      /\ \A d \in Indices : \A j, k \in 1 .. Len(V) :
           V[j] = Unlink(Staging(d)) /\ V[k] = Convert(d) => k < j
  BY <1>0, ConvertFacts
<1>2. m < Len(V) /\ disk' = Effect(op)
  OBVIOUS
<1>3. \A y : Did(plan, m + 1, y) <=> Did(plan, m, y) \/ y = op
  <2>1. \A k : k \in 1 .. m + 1 <=> k \in 1 .. m \/ k = m + 1
    OBVIOUS
  <2> QED
    BY <2>1 DEF Did
<1>4. \A y : Did(plan, m, y) => \E k \in 1 .. m : V[k] = y
  BY DEF Did
<1> HIDE DEF V
<1>5. req.sparse /\ op \in ConvertOps /\ m + 1 \in 1 .. Len(V)
  BY <1>1, <1>2
<1>6. \A d \in Indices : /\ Did(plan, m, Convert(d)) => disk[Out(d)] = {Built(run, plan, d)}
                         /\ ~Did(plan, m, Unlink(Staging(d))) => disk[Staging(d)] = {Built(run, plan, d)}
  BY <1>5 DEF Converting
<1> HIDE DEF op
<1>7. \A d : /\ Convert(d).do = "convert" /\ Convert(d).path = Out(d)
             /\ Unlink(Staging(d)).do = "remove" /\ Unlink(Staging(d)).path = Staging(d)
  BY DEF Convert, Unlink
<1>8. "convert" # "remove"
  OBVIOUS
<1>9. ASSUME NEW d \in Indices
      PROVE  /\ Did(plan, m + 1, Convert(d)) => disk'[Out(d)] = {Built(run, plan, d)}
             /\ ~Did(plan, m + 1, Unlink(Staging(d))) => disk'[Staging(d)] = {Built(run, plan, d)}
  <2>0. Out(d) \in Paths /\ Staging(d) \in Paths /\ Out(d)[2] = d
    BY PathFacts
  <2>1. ASSUME NEW c \in Indices, op = Convert(c)
        PROVE  /\ Did(plan, m + 1, Convert(d)) => disk'[Out(d)] = {Built(run, plan, d)}
               /\ ~Did(plan, m + 1, Unlink(Staging(d))) => disk'[Staging(d)] = {Built(run, plan, d)}
    <3>1. op.do = "convert" /\ op.path = Out(c) /\ Out(c) \in Paths /\ Out(c)[2] = c
      BY <1>7, <2>1, PathFacts
    <3>2. disk' = Changed(Out(c), disk[Staging(c)])
      BY <1>2, <3>1, EffectIs
    <3>3. disk'[Staging(d)] = disk[Staging(d)]
      BY <2>0, <3>1, <3>2, ChangedIs, PathFacts
    <3>4. disk'[Out(d)] = IF Out(d) = Out(c) THEN disk[Staging(c)] ELSE disk[Out(d)]
      BY <2>0, <3>1, <3>2, ChangedIs
    <3>5. op # Unlink(Staging(d))
      BY <1>7, <1>8, <3>1
    <3>6. ~Did(plan, m, Unlink(Staging(c)))
      <4> SUFFICES ASSUME NEW k \in 1 .. m, V[k] = Unlink(Staging(c)) PROVE FALSE
        BY <1>4
      <4>1. k \in 1 .. Len(V) /\ ~(m + 1 < k)
        BY <1>1, <1>2
      <4>2. V[m + 1] = Convert(c)
        BY <2>1 DEF op
      <4> QED
        BY <1>1, <1>5, <4>1, <4>2
    <3>7. CASE d = c
      BY <1>3, <1>6, <3>3, <3>4, <3>5, <3>6, <3>7
    <3>8. CASE d # c
      <4>1. Out(d) # Out(c) /\ Convert(d) # op
        BY <1>7, <3>1, <3>8, PathFacts
      <4> QED
        BY <1>3, <1>6, <3>3, <3>4, <3>5, <4>1
    <3> QED
      BY <3>7, <3>8
  <2>2. ASSUME NEW c \in Indices, op = Unlink(Staging(c))
        PROVE  /\ Did(plan, m + 1, Convert(d)) => disk'[Out(d)] = {Built(run, plan, d)}
               /\ ~Did(plan, m + 1, Unlink(Staging(d))) => disk'[Staging(d)] = {Built(run, plan, d)}
    <3>1. op.do = "remove" /\ op.path = Staging(c) /\ Staging(c) \in Paths
      BY <1>7, <2>2, PathFacts
    <3>2. disk' = Changed(Staging(c), {})
      BY <1>2, <3>1, EffectIs
    <3>3. disk'[Out(d)] = disk[Out(d)]
      BY <2>0, <3>1, <3>2, ChangedIs, PathFacts
    <3>4. disk'[Staging(d)] = IF Staging(d) = Staging(c) THEN {} ELSE disk[Staging(d)]
      BY <2>0, <3>1, <3>2, ChangedIs
    <3>5. op # Convert(d)
      BY <1>7, <1>8, <3>1
    <3>6. CASE d = c
      BY <1>3, <1>6, <2>2, <3>3, <3>5, <3>6
    <3>7. CASE d # c
      <4>1. Staging(d) # Staging(c)
        BY <3>7, PathFacts
      <4> QED
        BY <1>3, <1>6, <3>3, <3>4, <3>5, <4>1
    <3> QED
      BY <3>6, <3>7
  <2>3. \E c \in Indices : op = Convert(c) \/ op = Unlink(Staging(c))
    BY <1>5 DEF ConvertOps
  <2> QED
    BY <2>1, <2>2, <2>3
<1>10. \A d \in Indices :
         /\ ~plan.req.sparse \/ Did(plan, m + 1, Convert(d)) => disk'[Out(d)] = {Built(run, plan, d)}
         /\ plan.req.sparse /\ ~Did(plan, m + 1, Unlink(Staging(d))) => disk'[Staging(d)] = {Built(run, plan, d)}
  BY <1>5, <1>9
<1> QED
  BY <1>10 DEF Converting

----------------------------------------------------------------------------
\* The run goes on.

LEMMA RunningKept ==
  ASSUME Typed, Running, Step
  PROVE  Running'
<1> DEFINE run == Len(made)
           plan == made[Len(made)]
           B == BlankOutputs(plan.req)
           W == Writes(run, plan)
           V == ConvertOutputs(plan.req)
           P == Program(run, plan)
<1>1. /\ exit = "running" /\ todo # <<>> /\ disk' = Effect(Head(todo)) /\ todo' = Tail(todo)
      /\ blocks' = blocks /\ made' = made /\ exit' = exit
  BY DEF Step
<1>2. /\ run \in DOMAIN made /\ plan \in Plans /\ plan.ok /\ plan.req.sparse \in BOOLEAN
      /\ (plan.req.sparse => blocks = {}) /\ SpecsFit /\ blocks \subseteq Indices
  BY <1>1, RunningIs
<1>3. PICK n \in Nat : AtBlank(run, plan, n) \/ AtWrite(run, plan, n) \/ AtConvert(run, plan, n)
  <2>1. ~AtEnd(run, plan)
    BY <1>1 DEF AtEnd
  <2>2. \/ \E n \in Nat : AtBlank(run, plan, n) \/ AtWrite(run, plan, n) \/ AtConvert(run, plan, n)
        \/ AtEnd(run, plan)
    BY <1>1, Phases
  <2> QED
    BY <2>1, <2>2
<1>4. Len(B) \in Nat /\ Len(W) \in Nat /\ Len(V) \in Nat
  BY <1>2, ProgramParts
<1>5. PICK r, q : r = run /\ q = plan
  OBVIOUS
<1> DEFINE Bq == BlankOutputs(q.req)
           Wq == Writes(r, q)
           Vq == ConvertOutputs(q.req)
           Pq == Program(r, q)
<1>6. Bq' = Bq /\ Pq' = Pq
  BY <1>1, BlankOutputsSame, ProgramSame
<1>7. Bq = B /\ Wq = W /\ Vq = V /\ Pq = P
  BY <1>5
<1> DEFINE Bs(k) == Blanking(q, k)'
           Ws(k) == Writing(r, q, k)'
           Vs(k) == Converting(r, q, k)'
           Went == \/ \E k \in 0 .. Len(Bq) : todo' = After(Pq, k) /\ Bs(k)
                   \/ \E k \in 0 .. Len(Wq) : todo' = After(Pq, Len(Bq) + k) /\ Ws(k)
                   \/ \E k \in 0 .. Len(Vq) : todo' = After(Pq, Len(Bq) + Len(Wq) + k) /\ Vs(k)
<1> HIDE DEF run, plan
<1>8. ASSUME AtBlank(run, plan, n) PROVE Went
  <2>1. /\ n < Len(Bq) /\ Blanking(q, n) /\ Head(todo) = Bq[n + 1] /\ todo' = After(Pq, n + 1)
    BY <1>1, <1>5, <1>8 DEF AtBlank
  <2>2. Bs(n + 1)
    BY <1>1, <1>2, <2>1, BlankStep
  <2>3. n + 1 \in 0 .. Len(Bq)
    BY <1>4, <1>7, <2>1
  <2> HIDE DEF Bq, Pq, Wq, Vq, Bs, Ws, Vs
  <2> QED
    BY <2>1, <2>2, <2>3
<1>9. ASSUME AtWrite(run, plan, n) PROVE Went
  <2>1. /\ n < Len(Wq) /\ Writing(r, q, n) /\ Head(todo) = Wq[n + 1] /\ todo' = After(Pq, Len(Bq) + (n + 1))
    BY <1>1, <1>5, <1>9 DEF AtWrite
  <2>2. Ws(n + 1)
    BY <1>1, <1>2, <1>5, <2>1, WriteStep
  <2>3. n + 1 \in 0 .. Len(Wq)
    BY <1>4, <1>7, <2>1
  <2> HIDE DEF Bq, Pq, Wq, Vq, Bs, Ws, Vs
  <2> QED
    BY <2>1, <2>2, <2>3
<1>10. ASSUME AtConvert(run, plan, n) PROVE Went
  <2>1. /\ n < Len(Vq) /\ Converting(r, q, n) /\ Head(todo) = Vq[n + 1]
        /\ todo' = After(Pq, Len(Bq) + Len(Wq) + (n + 1))
    BY <1>1, <1>5, <1>10 DEF AtConvert
  <2>2. Vs(n + 1)
    BY <1>1, <1>2, <1>5, <2>1, ConvertStep
  <2>3. n + 1 \in 0 .. Len(Vq)
    BY <1>4, <1>7, <2>1
  <2> HIDE DEF Bq, Pq, Wq, Vq, Bs, Ws, Vs
  <2> QED
    BY <2>1, <2>2, <2>3
<1>11. Went
  <2> HIDE DEF Went
  <2> QED
    BY <1>3, <1>8, <1>9, <1>10
<1>12. Progress(r, q)'
  <2> HIDE DEF Bq, Pq, Wq, Vq
  <2>1. \/ \E k \in 0 .. Len(Bq) : todo' = After(Pq, k) /\ Blanking(q, k)'
        \/ \E k \in 0 .. Len(Wq) : todo' = After(Pq, Len(Bq) + k) /\ Writing(r, q, k)'
        \/ \E k \in 0 .. Len(Vq) : todo' = After(Pq, Len(Bq) + Len(Wq) + k) /\ Converting(r, q, k)'
    BY <1>11
  <2>2. Progress(r, q)' = (\/ \E k \in 0 .. Len(Bq') : todo' = After(Pq', k) /\ Blanking(q, k)'
                           \/ \E k \in 0 .. Len(Wq) : todo' = After(Pq', Len(Bq') + k) /\ Writing(r, q, k)'
                           \/ \E k \in 0 .. Len(Vq) : todo' = After(Pq', Len(Bq') + Len(Wq) + k) /\ Converting(r, q, k)')
    BY DEF Progress, Bq, Pq, Wq, Vq
  <2> QED
    BY <1>6, <2>1, <2>2
<1>13. r = Len(made') /\ q = made'[Len(made')]
  BY <1>1, <1>5 DEF run, plan
<1>14. Progress(Len(made), made[Len(made)])'
  BY <1>12, <1>13
<1>15. made' # <<>> /\ made'[Len(made')].ok /\ (made'[Len(made')].req.sparse => blocks' = {})
  BY <1>1, <1>2 DEF Running, plan
<1> QED
  BY <1>14, <1>15 DEF Running

----------------------------------------------------------------------------
\* Marks and payload, of any disk.
MarkedIn(files, r) == \E f \in files : \E s \in TableSectors \cap DOMAIN f : f[s] = TableOf(r)
HoldsIn(at, d, s, cell) == \E file \in at[Out(d)] : file # NoImage /\ file[s] = cell
WholeIn(at, r, plan, devs) ==
  \A i \in DOMAIN plan.req.parts : \A w \in PlannedAt(plan, i) :
    w[1] \in devs => HoldsIn(at, w[1], w[2], Payload(r, i, w[3]))

\* MarkedIsWhole, of this disk and of the next.
LEMMA MarkedNow ==
  MarkedIsWhole <=>
    \A r \in DOMAIN made : MarkedIn(disk[Out(0)], r) => made[r].ok /\ WholeIn(disk, r, made[r], Reach(r))
BY DEF MarkedIsWhole, Marked, MarkedIn, WholeOn, WholeIn, Holds, HoldsIn

LEMMA MarkedNext ==
  ASSUME made' = made,
         \A r \in DOMAIN made :
           MarkedIn(disk'[Out(0)], r) => made[r].ok /\ WholeIn(disk', r, made[r], Reach(r))
  PROVE  MarkedIsWhole'
<1>1. ASSUME NEW r \in DOMAIN made', Marked(r)' PROVE made'[r].ok /\ WholeOn(r, Reach(r))'
  <2>1. MarkedIn(disk'[Out(0)], r)
    BY <1>1 DEF Marked, MarkedIn
  <2>2. made[r].ok /\ WholeIn(disk', r, made[r], Reach(r))
    BY <1>1, <2>1
  <2>3. Reach(r)' = Reach(r)
    BY DEF Reach
  <2>4. WholeOn(r, Reach(r))'
    BY <2>2, <2>3 DEF WholeOn, WholeIn, Holds, HoldsIn
  <2> QED
    BY <2>2, <2>4
<1> QED
  BY <1>1 DEF MarkedIsWhole

\* No marks, nothing to show.
LEMMA Unmarked ==
  ASSUME made' = made, \A r \in DOMAIN made : ~MarkedIn(disk'[Out(0)], r)
  PROVE  MarkedIsWhole'
BY MarkedNext

\* A blank file and a broken one have none.
LEMMA NoMarks ==
  /\ \A r : ~MarkedIn({Sized(0, Blank)}, r) /\ ~MarkedIn({NoImage}, r)
<1> SUFFICES ASSUME NEW r PROVE ~MarkedIn({Sized(0, Blank)}, r) /\ ~MarkedIn({NoImage}, r)
  OBVIOUS
<1>1. DOMAIN Sized(0, Blank) = Sectors(0) /\ \A s \in Sectors(0) : Sized(0, Blank)[s] = Blank
  BY DEF Sized
<1>2. DOMAIN NoImage = {}
  BY DEF NoImage
<1>3. Blank # TableOf(r)
  BY CellKinds
<1>4. ~MarkedIn({Sized(0, Blank)}, r)
  BY <1>1, <1>3 DEF MarkedIn
<1>5. ~MarkedIn({NoImage}, r)
  BY <1>2 DEF MarkedIn
<1> QED
  BY <1>4, <1>5

\* A run reaches devices.
LEMMA ReachIsIn ==
  ASSUME NEW r
  PROVE  Reach(r) \subseteq Indices
BY ZeroIsDevice DEF Reach

\* Staging files do not matter.
LEMMA OutsSame ==
  ASSUME MarkedIsWhole, made' = made, \A d \in Indices : disk'[Out(d)] = disk[Out(d)]
  PROVE  MarkedIsWhole'
<1>1. ASSUME NEW r \in DOMAIN made, MarkedIn(disk'[Out(0)], r)
      PROVE  made[r].ok /\ WholeIn(disk', r, made[r], Reach(r))
  <2>1. MarkedIn(disk[Out(0)], r)
    BY <1>1, ZeroIsDevice
  <2>2. made[r].ok /\ WholeIn(disk, r, made[r], Reach(r))
    BY <2>1, MarkedNow
  <2>3. WholeIn(disk', r, made[r], Reach(r))
    BY <2>2, ReachIsIn DEF WholeIn, HoldsIn
  <2> QED
    BY <2>2, <2>3
<1> QED
  BY <1>1, MarkedNext

\* Tables are in front of all payload.
LEMMA TableSectorsIn ==
  ASSUME SpecsFit, NEW s \in TableSectors
  PROVE  s \in Nat /\ s < MetaEnd /\ MetaEnd \in Nat /\ s \in Sectors(0)
<1>1. PICK n \in 0 .. 2 * SlotCount - 1 : s = TableAt(n)
  <2>1. \E t \in Slots : s = PrimaryAt(t) \/ s = BackupAt(t)
    BY DEF TableSectors
  <2> QED
    BY <2>1, TableAtFacts
<1>2. /\ TableAt(n) \in Nat /\ TableAt(n) + CopySectors <= MetaEnd /\ CopySectors \in Nat \ {0}
  BY TableAtFacts
<1>3. MetaEnd \in Nat /\ MetaEnd < Limit(Device(Devs, 0)) /\ Limit(Device(Devs, 0)) \in Nat
  BY SectorsHold, ZeroIsDevice
<1>4. s \in Nat /\ s < MetaEnd
  BY <1>1, <1>2, <1>3
<1> DEFINE lim == Limit(Device(Devs, 0))
<1>5. Sectors(0) = 0 .. lim - 1
  BY DEF Sectors
<1> HIDE DEF lim
<1>6. s \in 0 .. lim - 1
  BY <1>3, <1>4 DEF lim
<1> QED
  BY <1>3, <1>4, <1>5, <1>6

\* Payload is behind the tables.
LEMMA PlannedIsIn ==
  ASSUME NEW plan \in Plans, plan.ok, NEW i \in DOMAIN plan.req.parts, NEW w \in PlannedAt(plan, i)
  PROVE  w[1] \in Indices /\ w[2] \in Sectors(w[1]) /\ w[2] \in Nat /\ MetaEnd <= w[2]
<1> DEFINE e == <<w[1], w[2], Payload(0, i, w[3])>>
<1>1. e \in Payloads(0, plan)
  BY PayloadPlanned
<1>2. e[1] \in Indices /\ e[2] \in Nat /\ MetaEnd <= e[2]
  BY <1>1, EntryPlaces
<1>3. e \in Entries(0, plan)
  BY <1>1 DEF Entries
<1>4. e[2] \in Sectors(e[1])
  BY <1>3, EntriesFit
<1>5. e[1] = w[1] /\ e[2] = w[2]
  OBVIOUS
<1> HIDE DEF e
<1> QED
  BY <1>2, <1>4, <1>5

\* A cell that is no table goes where no payload is, whenever there is a table.
LEMMA StaleMarks ==
  ASSUME Typed, SpecsFit, MarkedIsWhole, made' = made,
         NEW f, disk[Out(0)] = {f}, IsFile(f, 0), NEW n \in Sectors(0), NEW c, \A r : c # TableOf(r),
         disk' = Changed(Out(0), {[f EXCEPT ![n] = c]}),
         \A r \in DOMAIN made : MarkedIn(disk[Out(0)], r) => n < MetaEnd
  PROVE  MarkedIsWhole'
<1> DEFINE g == [f EXCEPT ![n] = c]
<1>1. g = [s \in Sectors(0) |-> IF s = n THEN c ELSE f[s]]
  BY FileChanged
<1>2. f = [s \in Sectors(0) |-> f[s]]
  BY Zenon DEF IsFile
<1>3. disk' = Changed(Out(0), {g})
  OBVIOUS
<1> HIDE DEF g
<1>4. DOMAIN f = Sectors(0) /\ DOMAIN g = Sectors(0) /\ \A s \in Sectors(0) : g[s] = IF s = n THEN c ELSE f[s]
  BY <1>1, <1>2
<1>5. ASSUME NEW d \in Indices PROVE disk'[Out(d)] = IF d = 0 THEN {g} ELSE disk[Out(d)]
  <2>1. Out(0) \in Paths /\ Out(d) \in Paths /\ (Out(d) = Out(0) <=> d = 0)
    BY ZeroIsDevice, PathFacts
  <2>2. disk'[Out(d)] = IF Out(d) = Out(0) THEN {g} ELSE disk[Out(d)]
    BY <1>3, <2>1, ChangedIs
  <2> QED
    BY <2>1, <2>2
<1>6. g # NoImage
  <2>1. DOMAIN NoImage = {}
    BY DEF NoImage
  <2> QED
    BY <1>4, <2>1
<1>7. ASSUME NEW r \in DOMAIN made, MarkedIn(disk'[Out(0)], r)
      PROVE  made[r].ok /\ WholeIn(disk', r, made[r], Reach(r))
  <2>1. disk'[Out(0)] = {g}
    BY <1>5, ZeroIsDevice
  <2>2. PICK s \in TableSectors \cap Sectors(0) : g[s] = TableOf(r)
    BY <1>4, <1>7, <2>1 DEF MarkedIn
  <2>3. f[s] = TableOf(r)
    BY <1>4, <2>2
  <2>4. MarkedIn(disk[Out(0)], r)
    BY <1>4, <2>2, <2>3 DEF MarkedIn
  <2>5. n < MetaEnd /\ made[r].ok /\ WholeIn(disk, r, made[r], Reach(r))
    BY <2>4, MarkedNow
  <2> DEFINE plan == made[r]
  <2>6. plan \in Plans
    BY DEF Typed
  <2>7. ASSUME NEW i \in DOMAIN plan.req.parts, NEW w \in PlannedAt(plan, i), w[1] \in Reach(r)
        PROVE  HoldsIn(disk', w[1], w[2], Payload(r, i, w[3]))
    <3> DEFINE d == w[1]
               t == w[2]
               x == Payload(r, i, w[3])
    <3>1. d \in Indices /\ t \in Sectors(d) /\ t \in Nat /\ MetaEnd <= t
      BY <2>5, <2>6, PlannedIsIn
    <3>2. HoldsIn(disk, d, t, x)
      BY <2>5, <2>7 DEF WholeIn
    <3> HIDE DEF d, t, x, plan
    <3>3. n \in Nat /\ MetaEnd \in Nat
      <4>1. Limit(Device(Devs, 0)) \in Nat /\ MetaEnd \in Nat
        BY SectorsHold, ZeroIsDevice
      <4> QED
        BY <4>1 DEF Sectors
    <3>4. t # n
      BY <2>5, <3>1, <3>3
    <3>5. CASE d = 0
      <4>1. f[t] = x
        BY <3>2, <3>5 DEF HoldsIn
      <4>2. g[t] = x
        BY <1>4, <3>1, <3>4, <3>5, <4>1
      <4>3. disk'[Out(d)] = {g}
        BY <1>5, <3>1, <3>5
      <4>4. HoldsIn(disk', d, t, x)
        BY <1>6, <4>2, <4>3 DEF HoldsIn
      <4> QED
        BY <4>4 DEF d, t, x
    <3>6. CASE d # 0
      <4>1. HoldsIn(disk', d, t, x)
        BY <1>5, <3>1, <3>2, <3>6 DEF HoldsIn
      <4> QED
        BY <4>1 DEF d, t, x
    <3> QED
      BY <3>5, <3>6
  <2>8. WholeIn(disk', r, made[r], Reach(r))
    BY <2>7 DEF WholeIn
  <2> QED
    BY <2>5, <2>8
<1> QED
  BY <1>7, MarkedNext

\* Images that a run has made.
Imaged(at, run, plan, devs, m) == \A d \in devs : at[Out(d)] = {ImageAfter(run, plan, d, m)}

\* An image with a table in it is of its own run, all of whose payload was written before.
LEMMA ImagesWhole ==
  ASSUME NEW run, NEW plan \in Plans, plan.ok, NEW m \in 0 .. Len(Writes(run, plan)),
         NEW devs, devs \subseteq Indices, 0 \in devs, NEW at, Imaged(at, run, plan, devs, m),
         NEW r, MarkedIn(at[Out(0)], r)
  PROVE  r = run /\ WholeIn(at, run, plan, devs)
<1> DEFINE img(d) == ImageAfter(run, plan, d, m)
<1>1. \A d : DOMAIN img(d) = Sectors(d)
  BY DEF ImageAfter
<1>2. at[Out(0)] = {img(0)}
  BY DEF Imaged
<1>3. PICK s \in TableSectors \cap Sectors(0) : img(0)[s] = TableOf(r)
  <2> HIDE DEF img
  <2> QED
    BY <1>1, <1>2 DEF MarkedIn
<1>4. s \in Sectors(0) /\ ImageAfter(run, plan, 0, m)[s] = TableOf(r)
  BY <1>3
<1>5. r = run /\ \A e \in Payloads(run, plan) : ImageAfter(run, plan, e[1], m)[e[2]] = e[3]
  BY <1>4, WrittenIsWhole
<1>6. ASSUME NEW i \in DOMAIN plan.req.parts, NEW w \in PlannedAt(plan, i), w[1] \in devs
      PROVE  HoldsIn(at, w[1], w[2], Payload(run, i, w[3]))
  <2> DEFINE d == w[1]
             t == w[2]
             x == Payload(run, i, w[3])
             e == <<d, t, x>>
  <2>1. e \in Payloads(run, plan)
    BY PayloadPlanned
  <2>2. e[1] = d /\ e[2] = t /\ e[3] = x
    OBVIOUS
  <2> HIDE DEF e
  <2>3. img(d)[t] = x
    BY <1>5, <2>1, <2>2
  <2>4. t \in Sectors(d)
    BY PlannedIsIn
  <2>5. img(d) # NoImage
    <3>1. DOMAIN NoImage = {}
      BY DEF NoImage
    <3> HIDE DEF img
    <3> QED
      BY <1>1, <2>4, <3>1
  <2>6. at[Out(d)] = {img(d)}
    BY <1>6 DEF Imaged
  <2> HIDE DEF img, d, t, x
  <2>7. HoldsIn(at, d, t, x)
    BY <2>3, <2>5, <2>6 DEF HoldsIn
  <2> QED
    BY <2>7 DEF d, t, x
<1>7. WholeIn(at, run, plan, devs)
  BY <1>6 DEF WholeIn
<1> QED
  BY <1>5, <1>7

----------------------------------------------------------------------------
\* The marks after a step, whole or half, of each phase.

OnlyOut(path, files) ==
  \A d \in Indices : disk'[Out(d)] = IF Out(d) = path THEN files ELSE disk[Out(d)]

\* Of the outputs, one changes.
LEMMA ChangedOuts ==
  ASSUME NEW path \in Paths, NEW files, disk' = Changed(path, files)
  PROVE  OnlyOut(path, files)
<1>1. ASSUME NEW d \in Indices PROVE disk'[Out(d)] = IF Out(d) = path THEN files ELSE disk[Out(d)]
  <2>1. Out(d) \in Paths
    BY PathFacts
  <2> QED
    BY <2>1, ChangedIs
<1> QED
  BY <1>1 DEF OnlyOut

\* While there is a mark, blanking is at the primary output and before the payload.
LEMMA BlankMarks ==
  ASSUME Typed, SpecsFit, NEW plan, ~plan.req.sparse,
         NEW n \in Nat, n < Len(BlankOutputs(plan.req)), Blanking(plan, n),
         NEW r, MarkedIn(disk[Out(0)], r)
  PROVE  LET op == BlankOutputs(plan.req)[n + 1]
         IN /\ 0 \in blocks => op = Write(Out(0), n, Blank) /\ n < MetaEnd
            /\ 0 \notin blocks => op = Create(Out(0))
<1> DEFINE req == plan.req
           B == BlankOutputs(req)
           lim == Limit(Device(Devs, 0))
<1>1. /\ Len(B) \in Nat
      /\ 0 \notin blocks => 1 \in 1 .. Len(B) /\ B[1] = Create(Raw(0, req))
      /\ 0 \in blocks => \A k \in 1 .. lim : k \in 1 .. Len(B) /\ B[k] = Write(Out(0), k - 1, Blank)
  BY BlankFacts DEF Typed
<1>2. \A k \in 1 .. n : Blanked(B[k])
  BY DEF Blanking
<1>3. Raw(0, req) = Out(0)
  BY DEF Raw
<1>4. lim \in Nat /\ MetaEnd \in Nat /\ MetaEnd < lim
  BY SectorsHold, ZeroIsDevice
<1>9. PICK f \in disk[Out(0)] : \E s \in TableSectors \cap DOMAIN f : f[s] = TableOf(r)
  BY DEF MarkedIn
<1>5. PICK s \in TableSectors \cap DOMAIN f : f[s] = TableOf(r)
  BY <1>9
<1>6. s \in Nat /\ s < MetaEnd
  BY TableSectorsIn
<1> HIDE DEF B, lim
<1>7. ASSUME 0 \in blocks PROVE B[n + 1] = Write(Out(0), n, Blank) /\ n < MetaEnd
  <2>1. ASSUME s < n PROVE FALSE
    <3>1. s + 1 \in 1 .. n /\ s + 1 \in 1 .. lim /\ (s + 1) - 1 = s
      BY <1>4, <1>6, <2>1
    <3>2. B[s + 1] = Write(Out(0), (s + 1) - 1, Blank) /\ Blanked(B[s + 1])
      BY <1>1, <1>2, <1>7, <3>1
    <3>3. Blanked(Write(Out(0), s, Blank))
      BY <3>1, <3>2
    <3>4. f[s] = Blank
      BY <1>5, <3>3, BlankedIs
    <3> QED
      BY <1>5, <3>4, CellKinds
  <2>2. n < MetaEnd /\ n + 1 \in 1 .. lim /\ (n + 1) - 1 = n
    BY <1>4, <1>6, <2>1
  <2>3. B[n + 1] = Write(Out(0), (n + 1) - 1, Blank)
    BY <1>1, <1>7, <2>2
  <2> QED
    BY <2>2, <2>3
<1>8. ASSUME 0 \notin blocks PROVE B[n + 1] = Create(Out(0))
  <2>1. CASE n = 0
    BY <1>1, <1>3, <1>8, <2>1
  <2>2. CASE n # 0
    <3>1. 1 \in 1 .. n
      BY <2>2
    <3>2. Blanked(Create(Raw(0, req)))
      BY <1>1, <1>2, <1>8, <3>1
    <3>3. disk[Out(0)] = {Sized(0, Blank)}
      BY <1>3, <3>2, BlankedIs
    <3> QED
      BY <3>3, NoMarks
  <2> QED
    BY <2>1, <2>2
<1> QED
  BY <1>7, <1>8 DEF B

\* Blanking removes the tables before anything behind them.
LEMMA BlankKeepsMarks ==
  ASSUME Typed, SpecsFit, MarkedIsWhole, NEW plan, plan.req.sparse \in BOOLEAN, plan.req.sparse => blocks = {},
         NEW n \in Nat, n < Len(BlankOutputs(plan.req)), Blanking(plan, n),
         NEW op, op = BlankOutputs(plan.req)[n + 1],
         disk' \in {Effect(op), HalfEffect(op)}, made' = made
  PROVE  MarkedIsWhole'
<1> DEFINE req == plan.req
           B == BlankOutputs(req)
<1>0. blocks \subseteq Indices
  BY DEF Typed
<1>1. op \in BlankOps(req)
  <2> DEFINE S == BlankOps(req)
  <2>1. B \in Seq(S) /\ Len(B) \in Nat
    BY <1>0, BlankFacts
  <2>2. op = B[n + 1] /\ n < Len(B)
    OBVIOUS
  <2> HIDE DEF B, S
  <2>3. op \in S
    BY <2>1, <2>2
  <2> QED
    BY <2>3 DEF S
<1>2. ~req.sparse => \A r : MarkedIn(disk[Out(0)], r) =>
        /\ 0 \in blocks => op = Write(Out(0), n, Blank) /\ n < MetaEnd
        /\ 0 \notin blocks => op = Create(Out(0))
  BY BlankMarks
<1> HIDE DEF B
<1>3. ASSUME NEW d \in Indices \ blocks, op = Create(Raw(d, req)) PROVE MarkedIsWhole'
  <2> DEFINE path == Raw(d, req)
  <2>1. op.do = "create" /\ op.path = path /\ path[2] = d /\ path \in Paths
    <3>1. op.do = "create" /\ op.path = path
      BY <1>3 DEF Create
    <3> QED
      BY <3>1, PathFacts
  <2>2. PICK F \in {{Sized(d, Blank)}, {NoImage}} : disk' = Changed(path, F)
    <3>1. disk' = Changed(path, {Sized(d, Blank)}) \/ disk' = Changed(path, {NoImage})
      BY <2>1, EffectIs
    <3> QED
      BY <3>1
  <2>3. OnlyOut(path, F)
    BY <2>1, <2>2, ChangedOuts
  <2>4. CASE req.sparse
    <3>1. path = Staging(d)
      BY <2>4 DEF Raw
    <3>2. \A c \in Indices : Out(c) # path
      BY <3>1, PathFacts
    <3>3. \A c \in Indices : disk'[Out(c)] = disk[Out(c)]
      BY <2>3, <3>2 DEF OnlyOut
    <3> QED
      BY <3>3, OutsSame
  <2>5. CASE ~req.sparse /\ d = 0
    <3>1. path = Out(0)
      BY <2>5 DEF Raw
    <3>2. disk'[Out(0)] = F
      BY <2>3, <3>1, ZeroIsDevice DEF OnlyOut
    <3>3. F = {Sized(0, Blank)} \/ F = {NoImage}
      BY <2>2, <2>5
    <3>4. \A r : ~MarkedIn(disk'[Out(0)], r)
      BY <3>2, <3>3, NoMarks, Zenon
    <3> QED
      BY <3>4, Unmarked
  <2>6. CASE ~req.sparse /\ d # 0
    <3>1. path = Out(d)
      BY <2>6 DEF Raw
    <3>2. Out(0) # path
      BY <2>6, <3>1, ZeroIsDevice, PathFacts
    <3>3. disk'[Out(0)] = disk[Out(0)]
      BY <2>3, <3>2, ZeroIsDevice DEF OnlyOut
    <3>4. op # Write(Out(0), n, Blank) /\ op # Create(Out(0))
      <4>1. Write(Out(0), n, Blank).do = "write" /\ Create(Out(0)).path = Out(0)
        BY DEF Write, Create
      <4>2. "write" # "create"
        OBVIOUS
      <4> QED
        BY <2>1, <3>2, <4>1, <4>2
    <3>5. \A r : ~MarkedIn(disk[Out(0)], r)
      BY <1>2, <2>6, <3>4
    <3>6. \A r : ~MarkedIn(disk'[Out(0)], r)
      BY <3>3, <3>5, Zenon
    <3> QED
      BY <3>6, Unmarked
  <2> QED
    BY <2>4, <2>5, <2>6
<1>4. ASSUME NEW d \in blocks, NEW t \in Sectors(d), op = Write(Out(d), t, Blank) PROVE MarkedIsWhole'
  <2>1. op.do = "write" /\ op.path = Out(d) /\ op.at = t /\ op.cell = Blank /\ op.short = FALSE
    BY <1>4 DEF Write
  <2>2. PICK f \in disk[Out(d)] : disk[Out(d)] = {f} /\ IsFile(f, d)
    BY DEF Typed
  <2>3. ~req.sparse
    BY <1>4
  <2>4. PICK c \in {Blank, Junk} : disk' = Changed(Out(d), {[f EXCEPT ![t] = c]})
    <3>1. disk' = Changed(Out(d), {Put(f, op)}) \/ disk' = Changed(Out(d), {Spoiled(f, op)})
      <4>1. \A h : disk[op.path] = {h} => /\ Effect(op) = Changed(op.path, {Put(h, op)})
                                         /\ HalfEffect(op) = Changed(op.path, {Spoiled(h, op)})
        BY <2>1, EffectIs
      <4> QED
        BY <2>1, <2>2, <4>1
    <3>2. Put(f, op) = [f EXCEPT ![t] = Blank]
      BY <2>1 DEF Put
    <3>3. Spoiled(f, op) = [f EXCEPT ![t] = Junk]
      BY <2>1 DEF Spoiled
    <3> QED
      BY <3>1, <3>2, <3>3
  <2>5. CASE d = 0
    <3>1. t \in Sectors(0) /\ disk[Out(0)] = {f} /\ IsFile(f, 0)
      BY <2>2, <2>5
    <3>2. \A r : c # TableOf(r)
      BY CellKinds
    <3>3. disk' = Changed(Out(0), {[f EXCEPT ![t] = c]})
      BY <2>4, <2>5
    <3>4. ASSUME NEW r \in DOMAIN made, MarkedIn(disk[Out(0)], r) PROVE t < MetaEnd
      <4>1. op = Write(Out(0), n, Blank) /\ n < MetaEnd
        BY <1>2, <2>3, <2>5, <3>4
      <4>2. op.at = n
        BY <4>1 DEF Write
      <4> QED
        BY <2>1, <4>1, <4>2
    <3> QED
      BY <3>1, <3>2, <3>3, <3>4, StaleMarks
  <2>6. CASE d # 0
    <3>1. Out(d) \in Paths /\ Out(0) # Out(d)
      BY <1>0, <2>6, ZeroIsDevice, PathFacts
    <3>2. OnlyOut(Out(d), {[f EXCEPT ![t] = c]})
      BY <2>4, <3>1, ChangedOuts
    <3>3. disk'[Out(0)] = disk[Out(0)]
      BY <3>1, <3>2, ZeroIsDevice DEF OnlyOut
    <3>4. op # Write(Out(0), n, Blank) /\ op # Create(Out(0))
      <4>1. Write(Out(0), n, Blank).path = Out(0) /\ Create(Out(0)).path = Out(0)
        BY DEF Write, Create
      <4> QED
        BY <2>1, <3>1, <4>1
    <3>5. \A r : ~MarkedIn(disk[Out(0)], r)
      BY <1>2, <2>3, <3>4
    <3>6. \A r : ~MarkedIn(disk'[Out(0)], r)
      BY <3>3, <3>5, Zenon
    <3> QED
      BY <3>6, Unmarked
  <2> QED
    BY <2>5, <2>6
<1> QED
  BY <1>1, <1>3, <1>4 DEF BlankOps

\* Writing, whole: marks are those of the images.
LEMMA WriteKeepsMarks ==
  ASSUME Typed, SpecsFit, MarkedIsWhole, NEW run \in DOMAIN made, NEW plan \in Plans, plan = made[run], plan.ok,
         plan.req.sparse \in BOOLEAN,
         NEW m \in Nat, m < Len(Writes(run, plan)), Writing(run, plan, m),
         NEW op, op = Writes(run, plan)[m + 1], disk' = Effect(op), made' = made
  PROVE  MarkedIsWhole'
<1> DEFINE req == plan.req
           W == Writes(run, plan)
<1>1. Len(W) \in Nat
  BY WriteFacts
<1>2. m + 1 \in 1 .. Len(W) /\ m + 1 \in 0 .. Len(W)
  BY <1>1
<1>3. PICK e \in Entries(run, plan), short \in BOOLEAN :
        op = OpOf(e, req, short) /\ e[1] \in Indices /\ e[2] \in Sectors(e[1])
  BY <1>2, WriteIs
<1>4. op.do = "write" /\ op.path = Raw(e[1], req)
  BY <1>3, OpOfFacts
<1>5. CASE req.sparse
  <2> DEFINE d == e[1]
             now == ImageAfter(run, plan, d, m)
  <2>1. disk[Raw(d, req)] = {now} /\ Raw(d, req) = Staging(d) /\ d \in Indices
    BY <1>3, <1>5 DEF Writing, Raw
  <2> HIDE DEF now, d
  <2>2. disk' = Changed(Staging(d), {Put(now, op)})
    <3>1. \A h : disk[op.path] = {h} => Effect(op) = Changed(op.path, {Put(h, op)})
      BY <1>4, EffectIs
    <3>2. op.path = Staging(d)
      BY <1>4, <2>1 DEF d
    <3> QED
      BY <2>1, <3>1, <3>2
  <2>3. Staging(d) \in Paths /\ \A c \in Indices : Out(c) # Staging(d)
    BY <2>1, PathFacts
  <2>4. OnlyOut(Staging(d), {Put(now, op)})
    BY <2>2, <2>3, ChangedOuts
  <2>5. \A c \in Indices : disk'[Out(c)] = disk[Out(c)]
    BY <2>3, <2>4 DEF OnlyOut
  <2> QED
    BY <2>5, OutsSame
<1>6. CASE ~req.sparse
  <2>1. Writing(run, plan, m + 1)'
    BY WriteStep
  <2>2. \A d \in Indices : disk'[Out(d)] = {ImageAfter(run, plan, d, m + 1)}
    BY <1>6, <2>1 DEF Writing, Raw
  <2>3. ASSUME NEW r \in DOMAIN made, MarkedIn(disk'[Out(0)], r)
        PROVE  made[r].ok /\ WholeIn(disk', r, made[r], Reach(r))
    <3>1. PICK at, k : at = disk' /\ k = m + 1
      OBVIOUS
    <3>2. k \in 0 .. Len(Writes(run, plan)) /\ MarkedIn(at[Out(0)], r)
      BY <1>2, <2>3, <3>1
    <3>3. Imaged(at, run, plan, Indices, k)
      BY <2>2, <3>1 DEF Imaged
    <3>4. Indices \subseteq Indices /\ 0 \in Indices
      BY ZeroIsDevice
    <3>5. r = run /\ WholeIn(at, run, plan, Indices)
      BY <3>2, <3>3, <3>4, ImagesWhole
    <3>6. Reach(r) = Indices
      BY <1>6, <3>5 DEF Reach
    <3> QED
      BY <3>1, <3>5, <3>6
  <2> QED
    BY <2>3, MarkedNext
<1> QED
  BY <1>5, <1>6

\* A write that is cut short spoils no payload once there is a table.
LEMMA HalfWriteKeepsMarks ==
  ASSUME Typed, SpecsFit, MarkedIsWhole, NEW run \in DOMAIN made, NEW plan \in Plans, plan = made[run], plan.ok,
         plan.req.sparse \in BOOLEAN,
         NEW m \in Nat, m < Len(Writes(run, plan)), Writing(run, plan, m),
         NEW op, op = Writes(run, plan)[m + 1], disk' = HalfEffect(op), made' = made
  PROVE  MarkedIsWhole'
<1> DEFINE req == plan.req
           W == Writes(run, plan)
           now(d) == ImageAfter(run, plan, d, m)
<1>1. Len(W) \in Nat
  BY WriteFacts
<1>2. m + 1 \in 1 .. Len(W) /\ m \in 0 .. Len(W) /\ m + 1 > m
  BY <1>1
<1>3. PICK e \in Entries(run, plan), short \in BOOLEAN :
        op = OpOf(e, req, short) /\ e[1] \in Indices /\ e[2] \in Sectors(e[1])
  BY <1>2, WriteIs
<1> DEFINE c == e[1]
           t == e[2]
<1>4. op.do = "write" /\ op.path = Raw(c, req) /\ op.at = t /\ c \in Indices /\ t \in Sectors(c)
  BY <1>3, OpOfFacts
<1>5. \A d \in Indices : disk[Raw(d, req)] = {now(d)}
  BY DEF Writing
<1>6. \A d : DOMAIN now(d) = Sectors(d) /\ now(d) = [s \in Sectors(d) |-> now(d)[s]]
  BY DEF ImageAfter
<1> HIDE DEF W, c, t, now
<1>7. disk' = Changed(op.path, {Spoiled(now(c), op)})
  <2>1. \A h : disk[op.path] = {h} => HalfEffect(op) = Changed(op.path, {Spoiled(h, op)})
    BY <1>4, EffectIs
  <2> QED
    BY <1>4, <1>5, <2>1
<1>8. Raw(c, req) \in Paths
  BY <1>4, PathFacts
<1>9. OnlyOut(Raw(c, req), {Spoiled(now(c), op)})
  BY <1>4, <1>7, <1>8, ChangedOuts
<1>10. CASE req.sparse
  <2>1. \A d \in Indices : Out(d) # Raw(c, req)
    BY <1>4, <1>10, PathFacts DEF Raw
  <2>2. \A d \in Indices : disk'[Out(d)] = disk[Out(d)]
    BY <1>9, <2>1 DEF OnlyOut
  <2> QED
    BY <2>2, OutsSame
<1>11. CASE ~req.sparse
  <2>0. Raw(c, req) = Out(c) /\ Raw(0, req) = Out(0)
    BY <1>11 DEF Raw
  <2>1. disk[Out(0)] = {now(0)}
    BY <1>5, <2>0, ZeroIsDevice
  <2>2. ASSUME NEW r, MarkedIn(disk[Out(0)], r) PROVE c = 0 /\ t < MetaEnd
    <3>1. PICK s \in TableSectors \cap Sectors(0) : now(0)[s] = TableOf(r)
      BY <1>6, <2>1, <2>2 DEF MarkedIn
    <3>2. s \in Sectors(0) /\ ImageAfter(run, plan, 0, m)[s] = TableOf(r)
      BY <3>1 DEF now
    <3>3. \A k \in 1 .. Len(W) : k > m =>
            \E x \in Tables(run, plan.req) : \E b \in BOOLEAN : W[k] = OpOf(x, plan.req, b)
      BY <1>2, <3>2, WrittenIsWhole DEF W
    <3>4. PICK x \in Tables(run, plan.req), b \in BOOLEAN : W[m + 1] = OpOf(x, req, b)
      BY <1>2, <3>3
    <3>5. x[1] = 0 /\ x[2] < MetaEnd
      BY EntryPlaces
    <3>6. op.path = Raw(x[1], req) /\ op.at = x[2]
      BY <3>4, OpOfFacts DEF W
    <3>7. Raw(c, req) = Raw(0, req)
      BY <1>4, <3>5, <3>6
    <3>8. c = 0
      BY <3>7, RawIs
    <3> QED
      BY <1>4, <3>5, <3>6, <3>8
  <2>3. CASE c = 0
    <3>1. Spoiled(now(c), op) = [now(0) EXCEPT ![t] = Junk]
      BY <1>4, <2>3 DEF Spoiled
    <3>2. disk' = Changed(Out(0), {[now(0) EXCEPT ![t] = Junk]})
      BY <1>4, <1>7, <2>0, <2>3, <3>1
    <3>3. IsFile(now(0), 0)
      <4>1. Fits(Out(0), disk[Out(0)])
        BY TypedIs, PathFacts, ZeroIsDevice
      <4>2. now(0) = NoImage \/ IsFile(now(0), 0)
        <5>1. Out(0)[2] = 0
          BY PathFacts, ZeroIsDevice
        <5> QED
          BY <2>1, <4>1, <5>1 DEF Fits
      <4>3. now(0) # NoImage
        <5>1. DOMAIN NoImage = {}
          BY DEF NoImage
        <5> QED
          BY <1>4, <1>6, <2>3, <5>1
      <4> QED
        BY <4>2, <4>3
    <3>4. \A r : Junk # TableOf(r)
      BY CellKinds
    <3>5. t \in Sectors(0)
      BY <1>4, <2>3
    <3>6. \A r \in DOMAIN made : MarkedIn(disk[Out(0)], r) => t < MetaEnd
      BY <2>2
    <3> DEFINE f == now(0)
    <3>7. disk[Out(0)] = {f} /\ IsFile(f, 0) /\ disk' = Changed(Out(0), {[f EXCEPT ![t] = Junk]})
      BY <2>1, <3>2, <3>3
    <3> HIDE DEF f
    <3> QED
      BY <3>4, <3>5, <3>6, <3>7, StaleMarks
  <2>4. CASE c # 0
    <3>1. Out(0) # Out(c)
      BY <1>4, <2>4, ZeroIsDevice, PathFacts
    <3>2. disk'[Out(0)] = disk[Out(0)]
      BY <1>9, <2>0, <3>1, ZeroIsDevice DEF OnlyOut
    <3>3. \A r : ~MarkedIn(disk'[Out(0)], r)
      BY <2>2, <2>4, <3>2
    <3> QED
      BY <3>3, Unmarked
  <2> QED
    BY <2>3, <2>4
<1> QED
  BY <1>10, <1>11

\* Conversion gives the outputs the images of this run, the primary first.
LEMMA ConvertKeepsMarks ==
  ASSUME Typed, SpecsFit, MarkedIsWhole, NEW run \in DOMAIN made, NEW plan \in Plans, plan = made[run], plan.ok,
         NEW m \in Nat, m < Len(ConvertOutputs(plan.req)), Converting(run, plan, m),
         NEW op, op = ConvertOutputs(plan.req)[m + 1],
         disk' \in {Effect(op), HalfEffect(op)}, made' = made
  PROVE  MarkedIsWhole'
<1> DEFINE req == plan.req
           V == ConvertOutputs(req)
<1>0. req.sparse \in BOOLEAN
  BY PlanFacts, RequestSlots
<1>1. /\ V \in Seq(ConvertOps) /\ Len(V) \in Nat /\ (~req.sparse => Len(V) = 0)
      /\ req.sparse => 1 \in 1 .. Len(V) /\ V[1] = Convert(0)
      /\ \A d \in Indices : \A j, k \in 1 .. Len(V) :
           V[j] = Unlink(Staging(d)) /\ V[k] = Convert(d) => k < j
  BY <1>0, ConvertFacts
<1>2. m < Len(V) /\ op = V[m + 1]
  OBVIOUS
<1>3. \A y : Did(plan, m, y) <=> \E k \in 1 .. m : V[k] = y
  BY DEF Did
<1> HIDE DEF V
<1>4. req.sparse /\ op \in ConvertOps /\ m + 1 \in 1 .. Len(V)
  BY <1>1, <1>2
<1>5. \A d \in Indices : /\ Did(plan, m, Convert(d)) => disk[Out(d)] = {Built(run, plan, d)}
                         /\ ~Did(plan, m, Unlink(Staging(d))) => disk[Staging(d)] = {Built(run, plan, d)}
  BY <1>4 DEF Converting
<1>6. Len(Writes(run, plan)) \in Nat
  BY WriteFacts
\* If the primary output is what the run has built, all is well.
<1>7. ASSUME disk'[Out(0)] = {Built(run, plan, 0)} PROVE MarkedIsWhole'
  <2>1. ASSUME NEW r \in DOMAIN made, MarkedIn(disk'[Out(0)], r)
        PROVE  made[r].ok /\ WholeIn(disk', r, made[r], Reach(r))
    <3>1. PICK at, k, devs : at = disk' /\ k = Len(Writes(run, plan)) /\ devs = {0}
      OBVIOUS
    <3>2. k \in 0 .. Len(Writes(run, plan)) /\ MarkedIn(at[Out(0)], r)
      BY <1>6, <2>1, <3>1
    <3>3. Imaged(at, run, plan, devs, k)
      BY <1>7, <3>1 DEF Imaged, Built
    <3>4. devs \subseteq Indices /\ 0 \in devs
      BY <3>1, ZeroIsDevice
    <3>5. r = run /\ WholeIn(at, run, plan, devs)
      BY <3>2, <3>3, <3>4, ImagesWhole
    <3>6. Reach(r) = {0}
      BY <1>4, <3>5 DEF Reach
    <3> QED
      BY <3>1, <3>5, <3>6
  <2> QED
    BY <2>1, MarkedNext
<1>8. ASSUME NEW d \in Indices, op = Convert(d) PROVE MarkedIsWhole'
  <2>1. op.do = "convert" /\ op.path = Out(d) /\ Out(d)[2] = d /\ Out(d) \in Paths
    <3>1. op.do = "convert" /\ op.path = Out(d)
      BY <1>8 DEF Convert
    <3> QED
      BY <3>1, PathFacts
  <2>2. disk' = Changed(Out(d), disk[Staging(d)]) \/ disk' = Changed(Out(d), {NoImage})
    <3>1. /\ Effect(op) = Changed(op.path, disk[Staging(op.path[2])])
          /\ HalfEffect(op) = Changed(op.path, {NoImage})
      BY <2>1, EffectIs
    <3> QED
      BY <2>1, <3>1
  <2>3. CASE d = 0
    <3>1. ~Did(plan, m, Unlink(Staging(0)))
      <4> SUFFICES ASSUME NEW k \in 1 .. m, V[k] = Unlink(Staging(0)) PROVE FALSE
        BY <1>3
      <4>1. k \in 1 .. Len(V) /\ ~(m + 1 < k)
        BY <1>1, <1>2
      <4>2. V[m + 1] = Convert(0)
        BY <1>2, <1>8, <2>3
      <4> QED
        BY <1>1, <1>4, <4>1, <4>2, ZeroIsDevice
    <3>2. disk[Staging(0)] = {Built(run, plan, 0)}
      BY <1>5, <3>1, ZeroIsDevice
    <3>3. disk'[Out(0)] = {Built(run, plan, 0)} \/ disk'[Out(0)] = {NoImage}
      <4>1. ASSUME NEW F, disk' = Changed(Out(0), F) PROVE disk'[Out(0)] = F
        BY <2>1, <2>3, <4>1, ChangedIs
      <4>2. disk' = Changed(Out(0), {Built(run, plan, 0)}) \/ disk' = Changed(Out(0), {NoImage})
        BY <2>2, <2>3, <3>2
      <4> QED
        BY <4>1, <4>2
    <3>4. CASE disk'[Out(0)] = {NoImage}
      <4>1. \A r : ~MarkedIn(disk'[Out(0)], r)
        BY <3>4, NoMarks, Zenon
      <4> QED
        BY <4>1, Unmarked
    <3> QED
      BY <1>7, <3>3, <3>4
  <2>4. CASE d # 0
    <3>1. Out(0) \in Paths /\ Out(0) # Out(d) /\ Convert(0) # op
      <4>1. Out(0) \in Paths /\ Out(0) # Out(d)
        BY <2>4, ZeroIsDevice, PathFacts
      <4>2. Convert(0).path = Out(0)
        BY DEF Convert
      <4> QED
        BY <2>1, <4>1, <4>2
    <3>2. m # 0
      <4>1. m = 0 => m + 1 = 1
        OBVIOUS
      <4>2. V[1] = Convert(0)
        BY <1>1, <1>4
      <4> QED
        BY <1>2, <3>1, <4>1, <4>2
    <3>3. Did(plan, m, Convert(0))
      <4>1. 1 \in 1 .. m
        BY <3>2
      <4> QED
        BY <1>1, <1>3, <1>4, <4>1
    <3>4. disk[Out(0)] = {Built(run, plan, 0)}
      BY <1>5, <3>3, ZeroIsDevice
    <3>5. disk'[Out(0)] = disk[Out(0)]
      <4>1. ASSUME NEW F, disk' = Changed(Out(d), F) PROVE disk'[Out(0)] = disk[Out(0)]
        BY <2>1, <3>1, <4>1, ChangedIs
      <4> QED
        BY <2>2, <4>1
    <3> QED
      BY <1>7, <3>4, <3>5
  <2> QED
    BY <2>3, <2>4
<1>9. ASSUME NEW d \in Indices, op = Unlink(Staging(d)) PROVE MarkedIsWhole'
  <2>1. op.do = "remove" /\ op.path = Staging(d) /\ Staging(d) \in Paths
    <3>1. op.do = "remove" /\ op.path = Staging(d)
      BY <1>9 DEF Unlink
    <3> QED
      BY <3>1, PathFacts
  <2>2. disk' = Changed(Staging(d), {}) \/ disk' = disk
    BY <2>1, EffectIs
  <2>3. ASSUME NEW c \in Indices PROVE disk'[Out(c)] = disk[Out(c)]
    <3>1. Out(c) \in Paths /\ Out(c) # Staging(d)
      BY PathFacts
    <3>2. CASE disk' = Changed(Staging(d), {})
      BY <2>1, <3>1, <3>2, ChangedIs
    <3>3. CASE disk' = disk
      BY <3>3
    <3> QED
      BY <2>2, <3>2, <3>3
  <2> QED
    BY <2>3, OutsSame
<1> QED
  BY <1>4, <1>8, <1>9 DEF ConvertOps

\* Whatever a run is at, its next step keeps the marks, whole or half.
LEMMA MarksKept ==
  ASSUME Typed, Running, MarkedIsWhole, exit = "running", todo # <<>>,
         disk' \in {Effect(Head(todo)), HalfEffect(Head(todo))}, made' = made
  PROVE  MarkedIsWhole'
<1>1. PICK run, plan, op : run = Len(made) /\ plan = made[run] /\ op = Head(todo)
  OBVIOUS
<1>2. /\ run \in DOMAIN made /\ plan \in Plans /\ plan.ok /\ plan.req.sparse \in BOOLEAN
      /\ (plan.req.sparse => blocks = {}) /\ SpecsFit /\ blocks \subseteq Indices
  BY <1>1, RunningIs
<1>3. PICK n \in Nat : AtBlank(run, plan, n) \/ AtWrite(run, plan, n) \/ AtConvert(run, plan, n)
  <2>1. ~AtEnd(run, plan)
    BY DEF AtEnd
  <2>2. \/ \E n \in Nat : AtBlank(run, plan, n) \/ AtWrite(run, plan, n) \/ AtConvert(run, plan, n)
        \/ AtEnd(run, plan)
    BY <1>1, Phases
  <2> QED
    BY <2>1, <2>2
<1>4. disk' \in {Effect(op), HalfEffect(op)}
  BY <1>1
<1>5. CASE AtBlank(run, plan, n)
  <2>1. n < Len(BlankOutputs(plan.req)) /\ Blanking(plan, n) /\ op = BlankOutputs(plan.req)[n + 1]
    BY <1>1, <1>5 DEF AtBlank
  <2> QED
    BY <1>2, <1>4, <2>1, BlankKeepsMarks
<1>6. CASE AtWrite(run, plan, n)
  <2>1. n < Len(Writes(run, plan)) /\ Writing(run, plan, n) /\ op = Writes(run, plan)[n + 1]
    BY <1>1, <1>6 DEF AtWrite
  <2>2. CASE disk' = Effect(op)
    BY <1>1, <1>2, <2>1, <2>2, WriteKeepsMarks
  <2>3. CASE disk' = HalfEffect(op)
    BY <1>1, <1>2, <2>1, <2>3, HalfWriteKeepsMarks
  <2> QED
    BY <1>4, <2>2, <2>3
<1>7. CASE AtConvert(run, plan, n)
  <2>1. n < Len(ConvertOutputs(plan.req)) /\ Converting(run, plan, n) /\ op = ConvertOutputs(plan.req)[n + 1]
    BY <1>1, <1>7 DEF AtConvert
  <2> QED
    BY <1>1, <1>2, <1>4, <2>1, ConvertKeepsMarks
<1> QED
  BY <1>3, <1>5, <1>6, <1>7

----------------------------------------------------------------------------
\* What loads.

LEMMA TableCells ==
  ASSUME NEW c, IsCell(c), Is(c, "table")
  PROVE  c[1] \in DOMAIN made /\ c = TableOf(c[1])
<1>1. Len(c) = 2 /\ c[2] = "table"
  BY DEF Is
<1>2. c # Blank /\ c # Junk
  <2>1. Len(Blank) = 0 /\ Len(Junk) = 1
    BY DEF Blank, Junk
  <2> QED
    BY <1>1, <2>1
<1>3. PICK run \in DOMAIN made :
        \/ \E kind \in Kinds : c = <<run, kind>>
        \/ \E i \in DOMAIN made[run].req.parts :
             \E k \in 1 .. made[run].req.parts[i].len : c = Payload(run, i, k)
  BY <1>2 DEF IsCell
<1>4. CASE \E kind \in Kinds : c = <<run, kind>>
  <2>1. PICK kind \in Kinds : c = <<run, kind>>
    BY <1>4
  <2>2. c[1] = run /\ c[2] = kind
    BY <2>1
  <2>3. c = <<run, "table">>
    BY <1>1, <2>1, <2>2
  <2> QED
    BY <2>2, <2>3 DEF TableOf
<1>5. \A i, k : c # Payload(run, i, k)
  <2> SUFFICES ASSUME NEW i, NEW k, c = Payload(run, i, k) PROVE FALSE
    OBVIOUS
  <2>1. Len(c) = 4
    BY DEF Payload
  <2> QED
    BY <1>1, <2>1
<1> QED
  BY <1>3, <1>4, <1>5

\* A table is of a run that was made.
LEMMA TableIsOf ==
  ASSUME NEW r, IsCell(TableOf(r))
  PROVE  r \in DOMAIN made
<1> DEFINE c == TableOf(r)
<1>1. Is(c, "table") /\ c[1] = r
  BY DEF Is, TableOf
<1>2. IsCell(c)
  OBVIOUS
<1> HIDE DEF c
<1> QED
  BY <1>1, <1>2, TableCells

\* The tables that a search for the metadata tries.
LEMMA FoundIsMarked ==
  ASSUME SpecsFit, NEW f, IsFile(f, 0), NEW r \in FindMetadata(f)
  PROVE  MarkedIn({f}, r) /\ r \in DOMAIN made
<1> DEFINE copies == [k \in 1 .. 2 * SlotCount |->
                        IF k <= SlotCount THEN PrimaryAt(k - 1) ELSE BackupAt(k - 1 - SlotCount)]
           valid == {k \in DOMAIN copies : Is(f[copies[k]], "table")}
<1>1. FindMetadata(f) = {f[copies[k]][1] : k \in {j \in valid : \A i \in valid : j <= i}}
  BY DEF FindMetadata
<1>2. PICK k \in valid : r = f[copies[k]][1]
  BY <1>1
<1> DEFINE s == copies[k]
<1>3. k \in 1 .. 2 * SlotCount /\ s = (IF k <= SlotCount THEN PrimaryAt(k - 1) ELSE BackupAt(k - 1 - SlotCount))
      /\ Is(f[s], "table") /\ r = f[s][1]
  BY <1>2
<1> HIDE DEF copies, valid, s
<1>4. s \in TableSectors
  <2>1. k <= SlotCount => k - 1 \in Slots
    BY <1>3, LayoutAssumption DEF Slots
  <2>2. ~(k <= SlotCount) => k - 1 - SlotCount \in Slots
    BY <1>3, LayoutAssumption DEF Slots
  <2> QED
    BY <1>3, <2>1, <2>2 DEF TableSectors
<1>5. s \in Sectors(0)
  BY <1>4, TableSectorsIn
<1>6. f = [t \in Sectors(0) |-> f[t]] /\ \A t \in Sectors(0) : IsCell(f[t])
  BY Zenon DEF IsFile
<1>7. IsCell(f[s]) /\ DOMAIN f = Sectors(0)
  BY <1>5, <1>6
<1> DEFINE c == f[s]
<1>8. IsCell(c) /\ Is(c, "table") /\ r = c[1]
  BY <1>3, <1>7
<1> HIDE DEF c
<1>9. r \in DOMAIN made /\ c = TableOf(r)
  BY <1>8, TableCells
<1>10. f[s] = TableOf(r)
  BY <1>9 DEF c
<1> QED
  BY <1>4, <1>5, <1>7, <1>9, <1>10 DEF MarkedIn

\* What loads was found in the file of the path.
LEMMA LoadsIs ==
  ASSUME NEW path
  PROVE  /\ \A r \in Loads(path) : \E f \in disk[path] :
              f # NoImage /\ FindGeometry(f) # {} /\ r \in FindMetadata(f)
         /\ \A f : disk[path] = {f} /\ Loads(path) # {} => Loads(path) = FindMetadata(f)
<1> DEFINE one(f) == IF f = NoImage \/ FindGeometry(f) = {} THEN {} ELSE FindMetadata(f)
<1>1. Loads(path) = UNION {one(f) : f \in disk[path]}
  BY DEF Loads
<1> HIDE DEF one
<1>2. ASSUME NEW r \in Loads(path) PROVE \E f \in disk[path] : r \in one(f)
  BY <1>1
<1>3. ASSUME NEW f, NEW r \in one(f) PROVE f # NoImage /\ FindGeometry(f) # {} /\ r \in FindMetadata(f)
  BY <1>3 DEF one
<1>4. ASSUME NEW f, disk[path] = {f}, Loads(path) # {} PROVE Loads(path) = FindMetadata(f)
  <2>1. Loads(path) = one(f)
    BY <1>1, <1>4
  <2> QED
    BY <1>4, <2>1 DEF one
<1> QED
  BY <1>2, <1>3, <1>4

----------------------------------------------------------------------------
\* What a run has built.

LEMMA BuiltHolds ==
  ASSUME NEW run, NEW plan \in Plans, plan.ok
  PROVE  /\ \A e \in Entries(run, plan) : Built(run, plan, e[1])[e[2]] = e[3]
         /\ \A d \in Indices : \A s \in Sectors(d) :
              (\A e \in Entries(run, plan) : Place(e) # <<d, s>>) => Built(run, plan, d)[s] = Blank
         /\ \A d \in Indices : Built(run, plan, d) # NoImage /\ DOMAIN Built(run, plan, d) = Sectors(d)
<1> DEFINE W == Writes(run, plan)
           m == Len(W)
           req == plan.req
<1>1. Covers(W, req, Entries(run, plan)) /\ m \in Nat
  BY WriteFacts
<1>2. \A d : Built(run, plan, d) = ImageAfter(run, plan, d, m)
  BY DEF Built
<1>3. m = Len(Writes(run, plan)) /\ m \in 0 .. Len(Writes(run, plan))
  BY <1>1
<1> HIDE DEF m
<1>4. ASSUME NEW e \in Entries(run, plan) PROVE Built(run, plan, e[1])[e[2]] = e[3]
  <2>1. PICK k \in 1 .. Len(W) : \E short \in BOOLEAN : W[k] = OpOf(e, req, short)
    BY <1>1 DEF Covers
  <2>2. W[k].path = Raw(e[1], req) /\ W[k].at = e[2] /\ W[k].cell = e[3]
    BY <2>1, OpOfFacts
  <2>3. k \in Hits(run, plan, e[1], m, e[2])
    BY <1>3, <2>2 DEF Hits
  <2>4. e[2] \in Sectors(e[1])
    BY EntriesFit
  <2> QED
    BY <1>2, <1>3, <2>2, <2>3, <2>4, ImageHolds
<1>5. ASSUME NEW d \in Indices, NEW s \in Sectors(d), \A e \in Entries(run, plan) : Place(e) # <<d, s>>
      PROVE  Built(run, plan, d)[s] = Blank
  <2>1. ASSUME NEW k \in Hits(run, plan, d, m, s) PROVE FALSE
    <3>1. k \in 1 .. Len(W) /\ W[k].path = Raw(d, req) /\ W[k].at = s
      BY <1>3, <2>1 DEF Hits
    <3>2. PICK e \in Entries(run, plan), short \in BOOLEAN : W[k] = OpOf(e, req, short)
      BY <3>1, WriteIs
    <3>3. Raw(e[1], req) = Raw(d, req) /\ e[2] = s
      BY <3>1, <3>2, OpOfFacts
    <3>4. e[1] = d
      BY <3>3, RawIs
    <3>5. Place(e) = <<d, s>>
      BY <3>3, <3>4 DEF Place
    <3> QED
      BY <1>5, <3>5
  <2>2. Hits(run, plan, d, m, s) = {}
    BY <2>1
  <2> QED
    BY <1>2, <1>3, <2>2, ImageHolds
<1>6. ASSUME NEW d \in Indices PROVE Built(run, plan, d) # NoImage /\ DOMAIN Built(run, plan, d) = Sectors(d)
  <2>1. DOMAIN Built(run, plan, d) = Sectors(d)
    BY <1>2 DEF ImageAfter
  <2>2. Sectors(d) # {}
    <3> DEFINE lim == Limit(Device(Devs, d))
    <3>1. lim \in Nat \ {0}
      BY PlanFacts, SectorsHold
    <3>2. Sectors(d) = 0 .. lim - 1
      BY DEF Sectors
    <3> HIDE DEF lim
    <3>3. 0 \in 0 .. lim - 1
      BY <3>1
    <3> QED
      BY <3>2, <3>3
  <2>3. DOMAIN NoImage = {}
    BY DEF NoImage
  <2> QED
    BY <2>1, <2>2, <2>3
<1> QED
  BY <1>4, <1>5, <1>6

\* The files of a run that is done.
LEMMA EndBuilt ==
  ASSUME NEW run, NEW plan \in Plans, plan.ok, AtEnd(run, plan), NEW d \in Indices
  PROVE  disk[Out(d)] = {Built(run, plan, d)}
<1> DEFINE V == ConvertOutputs(plan.req)
<1>0. plan.req.sparse \in BOOLEAN
  BY PlanFacts, RequestSlots
<1>1. plan.req.sparse => \E k \in 1 .. Len(V) : V[k] = Convert(d)
  <2> DEFINE req == plan.req
  <2> HIDE DEF req
  <2>1. req.sparse \in BOOLEAN
    BY <1>0 DEF req
  <2>2. /\ ConvertOutputs(req) \in Seq(ConvertOps)
        /\ req.sparse => \A e \in Indices : Converts(ConvertOutputs(req), e)
    BY <2>1, ConvertFacts
  <2> QED
    BY <2>2 DEF req, Converts
<1>2. plan.req.sparse => Did(plan, Len(V), Convert(d))
  BY <1>1 DEF Did
<1>3. Converting(run, plan, Len(V))
  BY DEF AtEnd
<1> HIDE DEF V
<1> QED
  BY <1>2, <1>3 DEF Converting

IsBuilt ==
  LET run == Len(made)
      plan == made[run]
      at == UNION {{<<w[1], w[2]>> : w \in PlannedAt(plan, i)} : i \in DOMAIN plan.req.parts}
      tables == {PrimaryAt(s) : s \in plan.req.slots} \cup {BackupAt(s) : s \in plan.req.slots}
      meta == {<<0, s>> : s \in tables \cup {GeometryPrimary, GeometryBackup}}
  IN /\ Loads(Out(0)) = {run}
     /\ WholeOn(run, Indices)
     /\ \A s \in tables : Holds(0, s, TableOf(run))
     /\ \A s \in {GeometryPrimary, GeometryBackup} : Holds(0, s, Geometry(run))
     /\ \A d \in Indices : \A s \in Sectors(d) :
          <<d, s>> \notin at \cup meta => Holds(d, s, Blank)

\* At the end of a run its outputs are what success means.
LEMMA EndIsBuilt ==
  ASSUME Typed, Running, exit = "running", todo = <<>>, Loads(Out(0)) # {}
  PROVE  IsBuilt
<1> DEFINE run == Len(made)
           plan == made[run]
           at == UNION {{<<w[1], w[2]>> : w \in PlannedAt(plan, i)} : i \in DOMAIN plan.req.parts}
           tables == {PrimaryAt(s) : s \in plan.req.slots} \cup {BackupAt(s) : s \in plan.req.slots}
           meta == {<<0, s>> : s \in tables \cup {GeometryPrimary, GeometryBackup}}
           E == Entries(run, plan)
<1>1. run \in DOMAIN made /\ plan \in Plans /\ plan.ok /\ SpecsFit
  BY RunningIs
<1>2. AtEnd(run, plan)
  <2>1. \/ \E n \in Nat : AtBlank(run, plan, n) \/ AtWrite(run, plan, n) \/ AtConvert(run, plan, n)
        \/ AtEnd(run, plan)
    BY Phases
  <2> QED
    BY <2>1 DEF AtBlank, AtWrite, AtConvert
<1>3. \A s \in tables : <<0, s, TableOf(run)>> \in E
  BY DEF Entries, Tables, SlotSectors
<1>4. \A s \in {GeometryPrimary, GeometryBackup} : <<0, s, Geometry(run)>> \in E
  BY DEF Entries, Geometries
<1>5. \A i \in DOMAIN plan.req.parts : \A w \in PlannedAt(plan, i) :
        w[1] \in Indices /\ <<w[1], w[2], Payload(run, i, w[3])>> \in E
  <2>1. \A i \in DOMAIN plan.req.parts : \A w \in PlannedAt(plan, i) : w[1] \in Indices
    <3> HIDE DEF plan
    <3> QED
      BY <1>1, PlannedIsIn
  <2>2. \A i \in DOMAIN plan.req.parts : \A w \in PlannedAt(plan, i) :
          <<w[1], w[2], Payload(run, i, w[3])>> \in Payloads(run, plan)
    <3> HIDE DEF plan
    <3> QED
      BY <1>1, PayloadPlanned
  <2> QED
    BY <2>1, <2>2 DEF Entries
<1>6. \A e \in E : Place(e) \in at \cup meta
  <2> SUFFICES ASSUME NEW e \in E PROVE Place(e) \in at \cup meta
    OBVIOUS
  <2>1. CASE e \in Geometries(run)
    BY <2>1 DEF Geometries, Place
  <2>2. CASE e \in Tables(run, plan.req)
    <3>1. PICK s \in SlotSectors(plan.req) : e = <<0, s, TableOf(run)>>
      BY <2>2 DEF Tables
    <3>2. s \in tables /\ Place(e) = <<0, s>>
      BY <3>1 DEF SlotSectors, Place
    <3> QED
      BY <3>2
  <2>3. CASE e \in Payloads(run, plan)
    <3>1. PICK i \in DOMAIN plan.req.parts : \E w \in PlannedAt(plan, i) : Place(w) = Place(e)
      <4> HIDE DEF plan
      <4> QED
        BY <1>1, <2>3, PayloadPlanned
    <3>2. PICK w \in PlannedAt(plan, i) : Place(w) = Place(e)
      BY <3>1
    <3>3. <<w[1], w[2]>> \in at
      OBVIOUS
    <3> QED
      BY <3>2, <3>3 DEF Place
  <2> QED
    BY <2>1, <2>2, <2>3 DEF Entries
<1> HIDE DEF plan, run, at, tables, meta, E
<1>7. ASSUME NEW d \in Indices, NEW s, NEW c, Built(run, plan, d)[s] = c PROVE Holds(d, s, c)
  <2>1. disk[Out(d)] = {Built(run, plan, d)}
    BY <1>1, <1>2, EndBuilt
  <2>2. Built(run, plan, d) # NoImage
    BY <1>1, BuiltHolds
  <2> QED
    BY <1>7, <2>1, <2>2 DEF Holds
<1>8. /\ \A e \in E : Built(run, plan, e[1])[e[2]] = e[3]
      /\ \A d \in Indices : \A s \in Sectors(d) :
           (\A e \in E : Place(e) # <<d, s>>) => Built(run, plan, d)[s] = Blank
  BY <1>1, BuiltHolds DEF E
<1>9. ASSUME NEW d \in Indices, NEW s, NEW c, <<d, s, c>> \in E PROVE Holds(d, s, c)
  <2> DEFINE e == <<d, s, c>>
  <2>1. e[1] = d /\ e[2] = s /\ e[3] = c /\ e \in E
    BY <1>9
  <2> HIDE DEF e
  <2>2. Built(run, plan, d)[s] = c
    BY <1>8, <2>1
  <2> QED
    BY <1>7, <2>2
<1>10. Loads(Out(0)) = {run}
  <2> DEFINE f == Built(run, plan, 0)
  <2>1. disk[Out(0)] = {f}
    BY <1>1, <1>2, EndBuilt, ZeroIsDevice
  <2>2. f # NoImage
    BY <1>1, BuiltHolds, ZeroIsDevice
  <2>3. IsFile(f, 0)
    <3>1. Fits(Out(0), disk[Out(0)]) /\ Out(0)[2] = 0
      BY TypedIs, PathFacts, ZeroIsDevice
    <3> HIDE DEF f
    <3> QED
      BY <2>1, <2>2, <3>1 DEF Fits
  <2> HIDE DEF f
  <2>4. Loads(Out(0)) = FindMetadata(f)
    BY <2>1, LoadsIs
  <2>5. ASSUME NEW r \in FindMetadata(f) PROVE r = run
    <3>1. MarkedIn({f}, r)
      BY <1>1, <2>3, FoundIsMarked
    <3>2. PICK a, k, devs : a = disk /\ k = Len(Writes(run, plan)) /\ devs = {0}
      OBVIOUS
    <3>3. k \in 0 .. Len(Writes(run, plan)) /\ MarkedIn(a[Out(0)], r)
      <4>1. Len(Writes(run, plan)) \in Nat
        BY <1>1, WriteFacts
      <4>2. k \in 0 .. Len(Writes(run, plan))
        BY <3>2, <4>1
      <4>3. a[Out(0)] = {f}
        BY <2>1, <3>2, Zenon
      <4> QED
        BY <3>1, <4>2, <4>3, Zenon
    <3>4. Imaged(a, run, plan, devs, k)
      BY <2>1, <3>2 DEF Imaged, Built, f
    <3>5. devs \subseteq Indices /\ 0 \in devs
      BY <3>2, ZeroIsDevice
    <3>6. r = run /\ WholeIn(a, run, plan, devs)
      BY <1>1, <3>3, <3>4, <3>5, ImagesWhole
    <3> QED
      BY <3>6
  <2>6. FindMetadata(f) # {}
    BY <2>4
  <2>7. FindMetadata(f) = {run}
    BY <2>5, <2>6
  <2> QED
    BY <2>4, <2>7
<1>11. WholeOn(run, Indices)
  <2>1. plan = made[run]
    BY DEF plan
  <2>2. ASSUME NEW i \in DOMAIN plan.req.parts, NEW w \in PlannedAt(plan, i)
        PROVE  Holds(w[1], w[2], Payload(run, i, w[3]))
    BY <1>5, <1>9
  <2> QED
    BY <2>1, <2>2 DEF WholeOn
<1>12. \A s \in tables : Holds(0, s, TableOf(run))
  BY <1>3, <1>9, ZeroIsDevice
<1>13. \A s \in {GeometryPrimary, GeometryBackup} : Holds(0, s, Geometry(run))
  BY <1>4, <1>9, ZeroIsDevice
<1>14. ASSUME NEW d \in Indices, NEW s \in Sectors(d), <<d, s>> \notin at \cup meta PROVE Holds(d, s, Blank)
  <2>1. \A e \in E : Place(e) # <<d, s>>
    BY <1>6, <1>14
  <2>2. Built(run, plan, d)[s] = Blank
    BY <1>8, <2>1
  <2> QED
    BY <1>7, <2>2
<1> QED
  BY <1>10, <1>11, <1>12, <1>13, <1>14, Zenon DEF IsBuilt, run, plan, at, tables, meta

----------------------------------------------------------------------------
\* The start.

LEMMA InitHolds == Init => MakeInv
<1> SUFFICES ASSUME Init PROVE MakeInv
  OBVIOUS
<1>1. blocks \subseteq Indices /\ made = <<>> /\ exit = "none" /\ todo = <<>>
  BY DEF Init
<1> DEFINE start(p) == IF \E d \in blocks : p = Out(d) THEN {Sized(p[2], Junk)} ELSE {}
<1>2. disk = [p \in Paths |-> start(p)]
  BY DEF Init
<1>3. ASSUME NEW p \in Paths PROVE disk[p] = start(p)
  BY <1>2
<1>4. ASSUME NEW d \in blocks PROVE disk[Out(d)] = {Sized(d, Junk)}
  <2>1. Out(d) \in Paths /\ Out(d)[2] = d
    BY <1>1, PathFacts
  <2>2. start(Out(d)) = {Sized(Out(d)[2], Junk)}
    OBVIOUS
  <2> QED
    BY <1>3, <2>1, <2>2
<1>5. \A p \in Paths : disk[p] = {} \/ disk[p] = {Sized(p[2], Junk)}
  BY <1>3
<1>6. disk = [p \in Paths |-> disk[p]]
  BY <1>2
<1> HIDE DEF start
<1>7. Typed
  <2>1. \A p \in Paths : disk[p] = {} \/ \E f \in disk[p] : disk[p] = {f} /\ (f = NoImage \/ IsFile(f, p[2]))
    BY <1>5, SizedIsFile
  <2>2. \A d \in blocks : \E f \in disk[Out(d)] : disk[Out(d)] = {f} /\ IsFile(f, d)
    BY <1>4, SizedIsFile
  <2>3. made \in Seq(Plans)
    BY <1>1
  <2> QED
    BY <1>1, <1>6, <2>1, <2>2, <2>3 DEF Typed
<1>8. UnfitUntouched
  BY <1>1, <1>5 DEF UnfitUntouched
<1>9. Running /\ SuccessIsBuilt
  BY <1>1 DEF Running, SuccessIsBuilt, Success
<1>10. MarkedIsWhole
  BY <1>1 DEF MarkedIsWhole
<1> QED
  BY <1>7, <1>8, <1>9, <1>10 DEF MakeInv

----------------------------------------------------------------------------
\* A new run.

LEMMA PlanOfFacts ==
  ASSUME NEW req \in Requests
  PROVE  PlanOf(req) \in Plans /\ PlanOf(req).req = req
<1> DEFINE n == Len(req.parts)
           plan == PlanOf(req)
<1>1. PICK g : plan = g[n] /\ \A k \in 0 .. n : PlanInv(req, k, g[k])
  BY PlanOfIs
<1>2. n \in 0 .. n
  BY RequestFacts
<1> HIDE DEF n, plan
<1>3. plan \in PlanRec(req)
  BY <1>1, <1>2 DEF PlanInv
<1>4. plan.req = req
  BY <1>3 DEF PlanRec
<1> QED
  BY <1>4 DEF plan, Plans

\* After nothing all is left.
LEMMA AfterNone ==
  ASSUME NEW S, NEW s \in Seq(S)
  PROVE  After(s, 0) = s
<1>1. After(s, 0) = [k \in 1 .. Len(s) |-> s[k]]
  <2> DEFINE n == Len(s)
  <2>1. n \in Nat
    OBVIOUS
  <2>2. n - 0 = n /\ \A k \in 1 .. n : 0 + k = k
    BY <2>1
  <2> HIDE DEF n
  <2>3. [k \in 1 .. n - 0 |-> s[0 + k]] = [k \in 1 .. n |-> s[k]]
    BY <2>2
  <2> QED
    BY <2>3 DEF After, n
<1>2. s = [k \in 1 .. Len(s) |-> s[k]]
  OBVIOUS
<1> QED
  BY <1>1, <1>2, Zenon

\* What a new run does to the other variables, once its plan is given a name.
Begins(plan) ==
  /\ plan \in Plans /\ made' = Append(made, plan) /\ disk' = disk /\ blocks' = blocks
  /\ \/ exit' = Failure
     \/ /\ plan.ok /\ (plan.req.sparse => blocks = {}) /\ plan.req.sparse \in BOOLEAN
        /\ exit' = "running" /\ todo' = Program(Len(made) + 1, plan)

\* A start is one of the two.
LEMMA StartBegins ==
  ASSUME NEW req \in Requests, Start(req)
  PROVE  Begins(PlanOf(req))
<1> DEFINE plan == PlanOf(req)
<1>1. plan \in Plans /\ plan.req = req
  BY PlanOfFacts
<1>2. /\ made' = Append(made, plan) /\ disk' = disk /\ blocks' = blocks
      /\ IF Refused(req, plan) THEN exit' = Failure /\ todo' = <<>>
         ELSE exit' = "running" /\ todo' = Program(Len(made) + 1, plan)
  BY DEF Start
<1>3. req.sparse \in BOOLEAN
  BY RequestSlots
<1> HIDE DEF plan
<1>4. ~Refused(req, plan) => plan.ok /\ (plan.req.sparse => blocks = {})
  BY <1>1 DEF Refused
<1>5. plan.req.sparse \in BOOLEAN
  BY <1>1, <1>3, Zenon
<1>6. Begins(plan)
  <2>1. CASE Refused(req, plan)
    BY <1>1, <1>2, <2>1 DEF Begins
  <2>2. CASE ~Refused(req, plan)
    BY <1>1, <1>2, <1>4, <1>5, <2>2 DEF Begins
  <2> QED
    BY <2>1, <2>2
<1> QED
  BY <1>6 DEF plan

\* One more run.
LEMMA AppendIs ==
  ASSUME NEW S, NEW s \in Seq(S), NEW x, NEW t, t = Append(s, x)
  PROVE  /\ Len(s) \in Nat /\ Len(t) = Len(s) + 1 /\ DOMAIN t = 1 .. Len(s) + 1 /\ DOMAIN s = 1 .. Len(s)
         /\ t[Len(s) + 1] = x /\ \A k \in 1 .. Len(s) : t[k] = s[k]
OBVIOUS

\* A new run changes no file.
LEMMA BeginsTyped ==
  ASSUME Typed, NEW plan, Begins(plan)
  PROVE  Typed'
<1>1. 0 \in Indices /\ Out(0) \in Paths
  BY ZeroIsDevice, PathFacts
<1>2. Fits(Out(0), disk[Out(0)])
  BY <1>1, TypedIs
<1>3. exit' \in {"none", "running", Success, Failure, Stopped}
  BY DEF Begins
<1> DEFINE p == Out(0)
           files == disk[Out(0)]
<1>4. p \in Paths /\ Fits(p, files)
  BY <1>1, <1>2
<1>5. disk' = disk /\ blocks' = blocks /\ \E q \in Plans : made' = Append(made, q)
  BY DEF Begins
<1> HIDE DEF p, files
<1> QED
  BY <1>3, <1>4, <1>5, TypedChanged

\* It is before its first step of blanking.
LEMMA BeginsRunning ==
  ASSUME Typed, NEW plan, Begins(plan)
  PROVE  Running'
<1> SUFFICES ASSUME exit' = "running"
             PROVE  /\ made' # <<>> /\ made'[Len(made')].ok
                    /\ made'[Len(made')].req.sparse => blocks' = {}
                    /\ Progress(Len(made), made[Len(made)])'
  BY DEF Running
<1>1. /\ plan \in Plans /\ made' = Append(made, plan) /\ disk' = disk /\ blocks' = blocks
      /\ plan.ok /\ (plan.req.sparse => blocks = {}) /\ todo' = Program(Len(made) + 1, plan)
  BY DEF Begins, Failure
<1>2. made \in Seq(Plans) /\ blocks \subseteq Indices
  BY DEF Typed
<1>3. PICK r : r = Len(made) + 1
  OBVIOUS
<1>4. Len(made') = r /\ made'[Len(made')] = plan /\ made' # <<>>
  <2>1. made' = Append(made, plan)
    BY <1>1
  <2>2. Len(made') = r /\ made'[r] = plan /\ r \in Nat /\ r > 0
    BY <1>2, <1>3, <2>1, AppendIs
  <2>3. made' # <<>>
    <3>1. Len(<<>>) = 0
      OBVIOUS
    <3> QED
      BY <2>2, <3>1
  <2> QED
    BY <2>2, <2>3
<1> DEFINE B == BlankOutputs(plan.req)
           P == Program(r, plan)
           W == Writes(r, plan)
           V == ConvertOutputs(plan.req)
<1>5. B' = B /\ P' = P
  BY <1>1, BlankOutputsSame, ProgramSame
<1>6. Len(B) \in Nat /\ \E S : P \in Seq(S)
  BY <1>1, <1>2, ProgramParts
<1>7. todo' = After(P, 0)
  <2>1. todo' = P
    BY <1>1, <1>3
  <2>2. PICK S : P \in Seq(S)
    BY <1>6
  <2> HIDE DEF P
  <2> QED
    BY <2>1, <2>2, AfterNone
<1>8. Blanking(plan, 0)'
  BY DEF Blanking
<1>9. Progress(r, plan)'
  <2> DEFINE Bs(k) == Blanking(plan, k)'
  <2>1. 0 \in 0 .. Len(B)
    BY <1>6
  <2>2. Bs(0)
    BY <1>8
  <2> HIDE DEF B, P, W, V, Bs
  <2>3. \E k \in 0 .. Len(B) : todo' = After(P, k) /\ Bs(k)
    BY <1>7, <2>1, <2>2
  <2>4. \E k \in 0 .. Len(B') : todo' = After(P', k) /\ Blanking(plan, k)'
    BY <1>5, <2>3 DEF Bs
  <2>5. Progress(r, plan)' = (\/ \E k \in 0 .. Len(B') : todo' = After(P', k) /\ Blanking(plan, k)'
                              \/ \E k \in 0 .. Len(W) : todo' = After(P', Len(B') + k) /\ Writing(r, plan, k)'
                              \/ \E k \in 0 .. Len(V) : todo' = After(P', Len(B') + Len(W) + k) /\ Converting(r, plan, k)')
    BY DEF Progress, B, P, W, V
  <2> QED
    BY <2>4, <2>5
<1>10. Progress(Len(made), made[Len(made)])'
  BY <1>4, <1>9
<1> QED
  BY <1>1, <1>4, <1>10

----------------------------------------------------------------------------
\* Only a run that was made has left tables, so that a new one has none yet.

LEMMA MarkedIsRun ==
  ASSUME Typed, NEW r, MarkedIn(disk[Out(0)], r)
  PROVE  r \in DOMAIN made
<1>1. PICK f \in disk[Out(0)] : \E s \in TableSectors \cap DOMAIN f : f[s] = TableOf(r)
  BY DEF MarkedIn
<1>2. PICK s \in DOMAIN f : f[s] = TableOf(r)
  BY <1>1
<1>3. Fits(Out(0), disk[Out(0)]) /\ Out(0)[2] = 0
  BY TypedIs, PathFacts, ZeroIsDevice
<1>4. f = NoImage \/ IsFile(f, 0)
  BY <1>1, <1>3 DEF Fits
<1>5. f # NoImage
  <2>1. DOMAIN NoImage = {}
    BY DEF NoImage
  <2> QED
    BY <1>2, <2>1
<1>6. f = [t \in Sectors(0) |-> f[t]] /\ \A t \in Sectors(0) : IsCell(f[t])
  BY <1>4, <1>5, Zenon DEF IsFile
<1>7. DOMAIN f = Sectors(0)
  BY <1>6
<1>8. IsCell(f[s])
  BY <1>2, <1>6, <1>7
<1>9. IsCell(TableOf(r))
  BY <1>2, <1>8, Zenon
<1> QED
  BY <1>9, TableIsOf

\* It has left no table yet, those of the others stay.
LEMMA BeginsMarks ==
  ASSUME Typed, MarkedIsWhole, NEW plan, Begins(plan)
  PROVE  MarkedIsWhole'
<1>1. disk' = disk /\ \E p \in Plans : made' = Append(made, p)
  BY DEF Begins
<1>2. made \in Seq(Plans)
  BY DEF Typed
<1> SUFFICES ASSUME NEW r \in DOMAIN made', Marked(r)' PROVE made'[r].ok /\ WholeOn(r, Reach(r))'
  BY DEF MarkedIsWhole
<1>3. MarkedIn(disk[Out(0)], r)
  BY <1>1 DEF Marked, MarkedIn
<1>4. r \in DOMAIN made
  BY <1>3, MarkedIsRun
<1>5. made'[r] = made[r]
  BY <1>1, <1>2, <1>4, FilesKept
<1>6. made[r].ok /\ WholeIn(disk, r, made[r], Reach(r))
  BY <1>3, <1>4, MarkedNow
<1>7. Reach(r)' = Reach(r)
  BY <1>5 DEF Reach
<1>8. WholeOn(r, Reach(r))'
  BY <1>1, <1>5, <1>6, <1>7 DEF WholeOn, WholeIn, Holds, HoldsIn
<1> QED
  BY <1>5, <1>6, <1>8

\* The invariant holds on.
LEMMA StartKeeps ==
  ASSUME MakeInv, NEW req \in Requests, Start(req)
  PROVE  MakeInv'
<1>1. PICK plan : Begins(plan)
  BY StartBegins
<1>2. Typed /\ UnfitUntouched /\ MarkedIsWhole
  BY DEF MakeInv
<1>3. Typed' /\ Running' /\ MarkedIsWhole'
  BY <1>1, <1>2, BeginsTyped, BeginsRunning, BeginsMarks
<1>4. UnfitUntouched'
  <2> SUFFICES ASSUME ~SpecsFit
               PROVE  exit' # "running" /\ \A p \in Paths : \A f \in disk'[p] : f = Sized(p[2], Junk)
    BY DEF UnfitUntouched
  <2>1. disk' = disk /\ \A p \in Paths : \A f \in disk[p] : f = Sized(p[2], Junk)
    BY <1>1, <1>2 DEF UnfitUntouched, Begins
  <2>2. exit' # "running"
    <3> SUFFICES ASSUME exit' = "running" PROVE FALSE
      OBVIOUS
    <3>1. plan \in Plans /\ plan.ok
      BY <1>1 DEF Begins, Failure
    <3> QED
      BY <3>1, PlanFacts
  <2> QED
    BY <2>1, <2>2
<1>5. SuccessIsBuilt'
  BY <1>1 DEF SuccessIsBuilt, Begins, Success, Failure
<1> QED
  BY <1>3, <1>4, <1>5 DEF MakeInv

----------------------------------------------------------------------------
\* The steps of a run, whole or half.

LEMMA TypedStays ==
  ASSUME Typed, disk' = disk, made' = made, blocks' = blocks,
         exit' \in {"none", "running", Success, Failure, Stopped}
  PROVE  Typed'
<1> DEFINE p == Out(0)
           files == disk[Out(0)]
<1>1. p \in Paths /\ Fits(p, files)
  BY ZeroIsDevice, PathFacts, TypedIs
<1> HIDE DEF p, files
<1> QED
  BY <1>1, TypedChanged

\* A step keeps the invariant, by its phase.
LEMMA StepKeeps ==
  ASSUME MakeInv, Step
  PROVE  MakeInv'
<1>1. /\ exit = "running" /\ todo # <<>> /\ disk' = Effect(Head(todo))
      /\ blocks' = blocks /\ made' = made /\ exit' = exit
  BY DEF Step
<1>2. Typed /\ Running /\ MarkedIsWhole
  BY DEF MakeInv
<1>3. SpecsFit /\ (made[Len(made)].req.sparse => blocks = {})
  BY <1>1, <1>2, RunningIs
<1>4. OpAllowed(made[Len(made)], Head(todo))
  BY <1>1, <1>2, StepIsAllowed
<1>5. Typed'
  BY <1>1, <1>2, <1>3, <1>4, TypedKept
<1>6. Running'
  BY <1>2, RunningKept
<1>7. MarkedIsWhole'
  BY <1>1, <1>2, MarksKept
<1>8. UnfitUntouched' /\ SuccessIsBuilt'
  BY <1>1, <1>3 DEF UnfitUntouched, SuccessIsBuilt, Success
<1> QED
  BY <1>5, <1>6, <1>7, <1>8 DEF MakeInv

\* A failure keeps it, before the next step or half-way in it.
LEMMA StopKeeps ==
  ASSUME MakeInv, Stop
  PROVE  MakeInv'
<1>1. /\ exit = "running" /\ exit' = Stopped /\ blocks' = blocks /\ made' = made
      /\ disk' = disk \/ (todo # <<>> /\ disk' = HalfEffect(Head(todo)))
  <2>1. disk' \in {disk} \cup {HalfEffect(Head(t)) : t \in {todo} \ {<<>>}}
    BY DEF Stop
  <2> DEFINE half(t) == HalfEffect(Head(t))
  <2>2. disk' = disk \/ \E t \in {todo} \ {<<>>} : disk' = half(t)
    BY <2>1
  <2> HIDE DEF half
  <2>3. disk' = disk \/ (todo # <<>> /\ disk' = half(todo))
    BY <2>2
  <2> QED
    BY <2>3 DEF Stop, half
<1>2. Typed /\ Running /\ MarkedIsWhole
  BY DEF MakeInv
<1>3. SpecsFit /\ (made[Len(made)].req.sparse => blocks = {})
  BY <1>1, <1>2, RunningIs
<1>4. exit' \in {"none", "running", Success, Failure, Stopped}
  BY <1>1
<1>5. Typed' /\ MarkedIsWhole'
  <2>1. CASE disk' = disk
    <3>1. Typed'
      BY <1>1, <1>2, <1>4, <2>1, TypedStays
    <3>2. MarkedIsWhole'
      BY <1>1, <1>2, <2>1, OutsSame
    <3> QED
      BY <3>1, <3>2
  <2>2. CASE todo # <<>> /\ disk' = HalfEffect(Head(todo))
    <3>1. OpAllowed(made[Len(made)], Head(todo))
      BY <1>1, <1>2, <2>2, StepIsAllowed
    <3>2. Typed'
      BY <1>1, <1>2, <1>3, <1>4, <2>2, <3>1, TypedKept
    <3>3. MarkedIsWhole'
      BY <1>1, <1>2, <2>2, MarksKept
    <3> QED
      BY <3>2, <3>3
  <2> QED
    BY <1>1, <2>1, <2>2
<1>6. UnfitUntouched' /\ Running' /\ SuccessIsBuilt'
  BY <1>1, <1>3 DEF UnfitUntouched, Running, SuccessIsBuilt, Success, Stopped
<1> QED
  BY <1>5, <1>6 DEF MakeInv

----------------------------------------------------------------------------
\* The self-check, and no step at all.

LEMMA BuiltStays ==
  ASSUME disk' = disk, made' = made
  PROVE  IsBuilt' <=> IsBuilt
BY DEF IsBuilt, Loads, WholeOn, Holds

\* The self-check is passed by what the run has built.
LEMMA VerifyKeeps ==
  ASSUME MakeInv, Verify
  PROVE  MakeInv'
<1>1. /\ exit = "running" /\ todo = <<>> /\ disk' = disk /\ blocks' = blocks /\ made' = made
      /\ exit' = IF Loads(Out(0)) # {} THEN Success ELSE Failure
  BY DEF Verify
<1>2. Typed /\ Running /\ MarkedIsWhole
  BY DEF MakeInv
<1>3. SpecsFit
  BY <1>1, <1>2, RunningIs
<1>4. exit' \in {Success, Failure}
  BY <1>1
<1>5. Typed' /\ MarkedIsWhole'
  BY <1>1, <1>2, <1>4, TypedStays, OutsSame
<1>6. UnfitUntouched' /\ Running'
  BY <1>3, <1>4 DEF UnfitUntouched, Running, Success, Failure
<1>7. SuccessIsBuilt'
  <2>1. exit' = Success => Loads(Out(0)) # {}
    BY <1>1 DEF Success, Failure
  <2>2. exit' = Success => IsBuilt
    BY <1>1, <1>2, <2>1, EndIsBuilt
  <2>3. exit' = Success => IsBuilt'
    BY <1>1, <2>2, BuiltStays
  <2> QED
    BY <2>3 DEF SuccessIsBuilt, IsBuilt
<1> QED
  BY <1>5, <1>6, <1>7 DEF MakeInv

\* Nothing happens.
LEMMA StutterKeeps ==
  ASSUME MakeInv, UNCHANGED vars
  PROVE  MakeInv'
<1>1. disk' = disk /\ blocks' = blocks /\ todo' = todo /\ made' = made /\ exit' = exit
  BY DEF vars
<1>2. Typed /\ UnfitUntouched /\ Running /\ MarkedIsWhole /\ SuccessIsBuilt
  BY DEF MakeInv
<1>3. Typed' /\ MarkedIsWhole'
  <2>1. exit' \in {"none", "running", Success, Failure, Stopped}
    BY <1>1, <1>2 DEF Typed
  <2> QED
    BY <1>1, <1>2, <2>1, TypedStays, OutsSame
<1>4. UnfitUntouched'
  BY <1>1, <1>2 DEF UnfitUntouched
<1>5. Running'
  <2> SUFFICES ASSUME exit' = "running"
               PROVE  /\ made' # <<>> /\ made'[Len(made')].ok
                      /\ made'[Len(made')].req.sparse => blocks' = {}
                      /\ Progress(Len(made), made[Len(made)])'
    BY DEF Running
  <2>1. /\ made # <<>> /\ made[Len(made)].ok /\ (made[Len(made)].req.sparse => blocks = {})
        /\ Progress(Len(made), made[Len(made)])
    BY <1>1, <1>2 DEF Running
  <2>2. PICK r, q : r = Len(made) /\ q = made[Len(made)]
    OBVIOUS
  <2>3. r = Len(made') /\ q = made'[Len(made')] /\ Progress(r, q)
    BY <1>1, <2>1, <2>2
  <2>4. BlankOutputs(q.req)' = BlankOutputs(q.req) /\ Program(r, q)' = Program(r, q)
    BY <1>1, BlankOutputsSame, ProgramSame
  <2>5. /\ \A n : Blanking(q, n) => Blanking(q, n)'
        /\ \A n : Writing(r, q, n) => Writing(r, q, n)'
        /\ \A n : Converting(r, q, n) => Converting(r, q, n)'
    BY <1>1, <2>4 DEF Blanking, Blanked, Writing, Converting
  <2>6. Progress(r, q)'
    BY <1>1, <2>3, <2>4, <2>5 DEF Progress
  <2> QED
    BY <1>1, <2>1, <2>3, <2>6
<1>6. SuccessIsBuilt'
  BY <1>1, <1>2, BuiltStays DEF SuccessIsBuilt, IsBuilt
<1> QED
  BY <1>3, <1>4, <1>5, <1>6 DEF MakeInv

\* Every step keeps the invariant.
LEMMA NextKeeps ==
  ASSUME MakeInv, [Next]_vars
  PROVE  MakeInv'
BY StartKeeps, StepKeeps, StopKeeps, VerifyKeeps, StutterKeeps DEF Next

\* The invariant holds of the specification.
LEMMA SpecMakeInv == Spec => []MakeInv
BY InitHolds, NextKeeps, PTL DEF Spec

----------------------------------------------------------------------------
\* What the invariant says.

\* An output is at most one file at any time, and a file is an image of its
\* device: each of its sectors blank, left over, or written by a run that was
\* made, payload within its length.
THEOREM SpecTypeOK == Spec => []TypeOK
<1>1. MakeInv => TypeOK
  <2> SUFFICES ASSUME Typed PROVE TypeOK
    BY DEF MakeInv
  <2>1. ASSUME NEW p \in Paths
        PROVE  /\ Cardinality(disk[p]) <= 1
               /\ \A f \in disk[p] : f = NoImage \/ IsFile(f, p[2])
    <3>1. disk[p] = {} \/ \E f \in disk[p] : disk[p] = {f} /\ (f = NoImage \/ IsFile(f, p[2]))
      BY DEF Typed
    <3>2. CASE disk[p] = {}
      BY <3>2, FS_EmptySet
    <3>3. CASE \E f \in disk[p] : disk[p] = {f} /\ (f = NoImage \/ IsFile(f, p[2]))
      BY <3>3, FS_Singleton
    <3> QED
      BY <3>1, <3>2, <3>3
  <2>2. ASSUME NEW p \in Paths, NEW f \in disk[p], f # NoImage
        PROVE  DOMAIN f = Sectors(p[2]) /\ \A s \in Sectors(p[2]) : IsCell(f[s])
    <3>1. IsFile(f, p[2])
      BY <2>1, <2>2
    <3> QED
      BY <3>1 DEF IsFile
  <2>3. blocks \subseteq Indices /\ exit \in {"none", "running", Success, Failure, Stopped}
    BY DEF Typed
  <2> QED
    BY <2>1, <2>2, <2>3 DEF TypeOK, IsCell
<1> QED
  BY <1>1, SpecMakeInv, PTL

\* Whatever loads is whole: at every moment, over any older image and after any
\* failure, if the primary output loads with the table of some run, the payload
\* of that run is in the files, for all devices, groups, layouts and requests.
THEOREM SpecLoadableIsWhole == Spec => []LoadableIsWhole
<1>1. MakeInv => LoadableIsWhole
  <2> SUFFICES ASSUME MakeInv, NEW r \in Loads(Out(0)) PROVE WholeOn(r, Reach(r))
    BY DEF LoadableIsWhole, Reach
  <2>1. Typed /\ UnfitUntouched /\ MarkedIsWhole
    BY DEF MakeInv
  <2>2. PICK f \in disk[Out(0)] : f # NoImage /\ FindGeometry(f) # {} /\ r \in FindMetadata(f)
    BY LoadsIs
  <2>3. Out(0) \in Paths /\ Out(0)[2] = 0
    BY ZeroIsDevice, PathFacts
  <2>4. SpecsFit
    <3> SUFFICES ASSUME ~SpecsFit PROVE FALSE
      OBVIOUS
    <3>1. f = Sized(0, Junk)
      BY <2>1, <2>2, <2>3 DEF UnfitUntouched
    <3>2. \A g \in DOMAIN f : f[g] = Junk
      BY <3>1 DEF Sized
    <3>3. ~Is(Junk, "geometry")
      <4>1. Len(Junk) = 1
        BY DEF Junk
      <4> QED
        BY <4>1 DEF Is
    <3>4. FindGeometry(f) = {}
      BY <3>2, <3>3 DEF FindGeometry
    <3> QED
      BY <2>2, <3>4
  <2>5. IsFile(f, 0) /\ disk[Out(0)] = {f}
    <3>1. Fits(Out(0), disk[Out(0)])
      BY <2>1, <2>3, TypedIs
    <3> QED
      BY <2>2, <2>3, <3>1 DEF Fits
  <2>6. MarkedIn(disk[Out(0)], r) /\ r \in DOMAIN made
    BY <2>2, <2>4, <2>5, FoundIsMarked
  <2>7. Marked(r)
    BY <2>6 DEF Marked, MarkedIn
  <2> QED
    BY <2>1, <2>6, <2>7 DEF MarkedIsWhole
<1> QED
  BY <1>1, SpecMakeInv, PTL

\* Success is what the plan says on every device, whatever the outputs held
\* before and whichever runs had failed over them: the image loads with this
\* run's table, in the target slots and nowhere else, all payload is in place,
\* and every other sector is blank.
THEOREM SpecSuccessIsBuilt == Spec => []SuccessIsBuilt
<1>1. MakeInv => SuccessIsBuilt
  BY DEF MakeInv
<1> QED
  BY <1>1, SpecMakeInv, PTL
=============================================================================
