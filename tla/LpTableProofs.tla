--------------------------- MODULE LpTableProofs ---------------------------
(***************************************************************************)
(* Proofs about LpTable: a table that make or the commands wrote stays     *)
(* sound through any sequence of commands, for every set of names and      *)
(* groups, every table of block devices and every size.                    *)
(*                                                                         *)
(* A command is an edit of the partition table, the extent table and the   *)
(* group table; there is a lemma per edit, and the step of each action     *)
(* follows from the lemmas of the edits it makes.                          *)
(*                                                                         *)
(* That the tables implement VolumePool, that groups keep to their limits  *)
(* and that the cascade's loop compacts is the second half, which has an   *)
(* introduction of its own.                                                *)
(***************************************************************************)
EXTENDS LpTable, SequenceTheorems, FiniteSetTheorems, TLAPS

----------------------------------------------------------------------------
\* The allocator.

\* A device of the table, with fields of its type.
LEMMA DeviceType ==
  ASSUME NEW d \in DeviceIndices(Devs)
  PROVE  /\ Device(Devs, d) \in [first : Nat, size : Nat, alignment : Nat, offset : Nat]
         /\ Limit(Device(Devs, d)) \in Nat \ {0}
<1>1. d + 1 \in 1 .. Len(Devs) /\ DOMAIN Devs = 1 .. Len(Devs)
  BY DevicesAssumption, LenProperties DEF DeviceIndices
<1>2. Device(Devs, d) \in [first : Nat, size : Nat, alignment : Nat, offset : Nat]
  BY <1>1, DevicesAssumption, ElementOfSeq DEF Device
<1>3. Limit(Devs[d + 1]) > 0
  BY <1>1, DevicesAssumption
<1>4. Limit(Device(Devs, d)) \in Nat
  <2>1. Device(Devs, d).size \in Nat
    BY <1>2
  <2> QED
    BY <2>1 DEF Limit, SECTOR
<1> QED
  BY <1>2, <1>3, <1>4 DEF Device

\* The fields of an extent of a table.
LEMMA ExtentFields ==
  ASSUME NEW exts \in Seq(Extent), NEW i \in 1 .. Len(exts)
  PROVE  /\ exts[i] \in Extent
         /\ exts[i].num \in Nat /\ exts[i].data \in Nat
         /\ exts[i].source \in DeviceIndices(Devs)
         /\ End(exts[i]) \in Nat
<1>1. exts[i] \in Extent
  BY ElementOfSeq
<1>2. /\ exts[i].num \in Nat /\ exts[i].data \in Nat
      /\ exts[i].source \in DeviceIndices(Devs)
  BY <1>1 DEF Extent
<1> QED
  BY <1>1, <1>2 DEF End

\* Aligning a sector never moves it down.
LEMMA AlignUpIsUp ==
  ASSUME NEW v \in Nat, NEW alignment \in Nat, NEW offset \in Nat
  PROVE  AlignUp(v, alignment, offset) \in Nat /\ v <= AlignUp(v, alignment, offset)
<1>1. CASE alignment = 0
  BY <1>1 DEF AlignUp
<1>2. CASE alignment > 0
  <2> DEFINE off == offset % alignment
             rem == (v * SECTOR) % alignment
             shift == IF rem <= off THEN off - rem ELSE alignment + off - rem
             sectors == (alignment + SECTOR - 1) \div SECTOR
             left == v % sectors
  <2>1. off \in 0 .. alignment - 1 /\ rem \in 0 .. alignment - 1
    BY <1>2 DEF SECTOR
  <2>2. shift \in Nat
    BY <1>2, <2>1
  <2>3. shift \div SECTOR \in Nat
    <3> HIDE DEF shift
    <3> QED
      BY <2>2 DEF SECTOR
  <2>4. sectors \in Nat \ {0}
    BY <1>2 DEF SECTOR
  <2>5. left \in 0 .. sectors - 1
    <3> HIDE DEF sectors
    <3> QED
      BY <2>4
  <2>6. AlignUp(v, alignment, offset) =
          IF alignment % SECTOR = 0 /\ off % SECTOR = 0 THEN v + shift \div SECTOR
          ELSE IF left = 0 THEN v ELSE v + sectors - left
    BY <1>2 DEF AlignUp
  <2> HIDE DEF off, rem, shift, sectors, left
  <2> QED
    BY <2>3, <2>4, <2>5, <2>6
<1> QED
  BY <1>1, <1>2

\* What the search of a device returns: a free range inside the device, past
\* its reserved area.
LEMMA FreeStartsSound ==
  ASSUME NEW exts \in Seq(Extent), NEW d \in DeviceIndices(Devs), NEW needed \in Nat,
         NEW s \in FreeStarts(exts, Devs, d, needed)
  PROVE  /\ s \in Nat
         /\ Device(Devs, d).first <= s
         /\ IsRangeFree(exts, Devs, d, s, needed)
<1> DEFINE dev == Device(Devs, d)
<1>1. /\ dev.first \in Nat /\ dev.alignment \in Nat /\ dev.offset \in Nat
  BY DeviceType
<1>2. Aligned(dev, dev.first) \in Nat /\ dev.first <= Aligned(dev, dev.first)
  BY <1>1, AlignUpIsUp DEF Aligned
<1>3. ASSUME NEW i \in DOMAIN exts
      PROVE  Aligned(dev, End(exts[i])) \in Nat
  <2>1. End(exts[i]) \in Nat
    BY <1>3, LenProperties, ExtentFields
  <2> QED
    BY <1>1, <2>1, AlignUpIsUp DEF Aligned
<1>4. s \in Starts(exts, Devs, d) /\ Aligned(dev, dev.first) <= s
      /\ IsRangeFree(exts, Devs, d, s, needed)
  BY DEF FreeStarts
<1>5. s \in Nat
  BY <1>2, <1>3, <1>4 DEF Starts, Used
<1> QED
  BY <1>1, <1>2, <1>4, <1>5

----------------------------------------------------------------------------
\* The extent table.

\* Ranges that do not meet do not meet when they shrink at the end.
LEMMA RangesShrink ==
  ASSUME NEW s \in Nat, NEW t \in Nat, NEW m \in Nat, NEW n \in Nat,
         NEW m1 \in Nat, NEW n1 \in Nat, m1 <= m, n1 <= n,
         ~(t < s + m /\ s < t + n)
  PROVE  ~(t < s + m1 /\ s < t + n1)
OBVIOUS

\* The extents of a table that takes extents of another one, each at most
\* once, whole or in part, are as far apart as they were there.
LEMMA ApartInherited ==
  ASSUME NEW exts \in Seq(Extent), TableExtentsApart(exts),
         NEW new \in Seq(Extent), NEW f \in [1 .. Len(new) -> 1 .. Len(exts)],
         \A i, j \in 1 .. Len(new) : f[i] = f[j] => i = j,
         \A i \in 1 .. Len(new) :
           /\ new[i].type = exts[f[i]].type
           /\ new[i].data = exts[f[i]].data
           /\ new[i].source = exts[f[i]].source
           /\ new[i].num <= exts[f[i]].num
  PROVE  TableExtentsApart(new)
<1>1. DOMAIN exts = 1 .. Len(exts) /\ DOMAIN new = 1 .. Len(new)
  BY LenProperties
<1>2. ASSUME NEW i \in 1 .. Len(exts)
      PROVE  exts[i].num \in Nat /\ exts[i].data \in Nat /\ exts[i].source \in DeviceIndices(Devs)
  BY <1>2, ExtentFields
<1>3. ASSUME NEW i \in 1 .. Len(new)
      PROVE  new[i].num \in Nat /\ new[i].data \in Nat /\ f[i] \in 1 .. Len(exts)
  BY <1>3, ExtentFields
<1>4. ASSUME NEW i \in DOMAIN new, new[i].type = Linear
      PROVE  /\ Device(Devs, new[i].source).first <= new[i].data
             /\ End(new[i]) <= Limit(Device(Devs, new[i].source))
  <2>1. /\ Device(Devs, exts[f[i]].source).first <= exts[f[i]].data
        /\ End(exts[f[i]]) <= Limit(Device(Devs, exts[f[i]].source))
    BY <1>1, <1>3, <1>4 DEF TableExtentsApart
  <2>2. Limit(Device(Devs, exts[f[i]].source)) \in Nat
    BY <1>1, <1>2, <1>3, DeviceType
  <2> QED
    BY SMTT(60), <1>1, <1>2, <1>3, <2>1, <2>2 DEF End
<1>5. ASSUME NEW i \in DOMAIN new, NEW j \in DOMAIN new, i # j,
             OnDevice(new[i], new[j].source), new[j].type = Linear
      PROVE  ~Meets(new[i], new[j].data, new[j].num)
  <2>1. f[i] \in DOMAIN exts /\ f[j] \in DOMAIN exts /\ f[i] # f[j]
    BY <1>1, <1>3, <1>5
  <2>2. OnDevice(exts[f[i]], exts[f[j]].source) /\ exts[f[j]].type = Linear
    BY <1>1, <1>5 DEF OnDevice
  <2>3. ~Meets(exts[f[i]], exts[f[j]].data, exts[f[j]].num)
    BY <2>1, <2>2 DEF TableExtentsApart
  <2> QED
    <3>1. /\ new[i].data \in Nat /\ new[i].num \in Nat
          /\ new[j].data \in Nat /\ new[j].num \in Nat
          /\ exts[f[i]].num \in Nat /\ exts[f[j]].num \in Nat
      BY <1>1, <1>2, <1>3, <1>5
    <3>2. /\ new[i].num <= exts[f[i]].num /\ new[j].num <= exts[f[j]].num
          /\ ~(/\ new[j].data < new[i].data + exts[f[i]].num
               /\ new[i].data < new[j].data + exts[f[j]].num)
      BY <1>1, <1>5, <2>3 DEF Meets, End
    <3>3. ~(/\ new[j].data < new[i].data + new[i].num
            /\ new[i].data < new[j].data + new[j].num)
      BY <3>1, <3>2, RangesShrink
    <3> QED
      BY <3>3 DEF Meets, End
<1> QED
  BY <1>4, <1>5 DEF TableExtentsApart

\* ... and an extent more, at a free range of a device, meets none of them.
LEMMA ApartWithNew ==
  ASSUME NEW exts \in Seq(Extent), TableExtentsApart(exts),
         NEW new \in Seq(Extent), NEW f \in [1 .. Len(new) -> Int], NEW q \in 1 .. Len(new),
         \A i, j \in 1 .. Len(new) \ {q} : f[i] = f[j] => i = j,
         \A i \in 1 .. Len(new) \ {q} : f[i] \in 1 .. Len(exts) /\ new[i] = exts[f[i]],
         new[q].num > 0,
         Device(Devs, new[q].source).first <= new[q].data,
         IsRangeFree(exts, Devs, new[q].source, new[q].data, new[q].num)
  PROVE  TableExtentsApart(new)
<1>1. DOMAIN exts = 1 .. Len(exts) /\ DOMAIN new = 1 .. Len(new)
  BY LenProperties
<1>2. ASSUME NEW i \in 1 .. Len(exts)
      PROVE  exts[i].num \in Nat /\ exts[i].data \in Nat /\ exts[i].source \in DeviceIndices(Devs)
  BY <1>2, ExtentFields
<1>3. new[q].num \in Nat /\ new[q].data \in Nat /\ new[q].source \in DeviceIndices(Devs)
  BY ExtentFields
<1>4. /\ End(new[q]) <= Limit(Device(Devs, new[q].source))
      /\ \A i \in 1 .. Len(exts) :
           OnDevice(exts[i], new[q].source) => ~Meets(exts[i], new[q].data, new[q].num)
  <2> DEFINE limit == Limit(Device(Devs, new[q].source))
  <2>1. limit > 0
    BY <1>3, DeviceType
  <2>2. /\ new[q].data + new[q].num <= limit
        /\ \A i \in DOMAIN exts :
             OnDevice(exts[i], new[q].source) => ~Meets(exts[i], new[q].data, new[q].num)
    BY <2>1 DEF IsRangeFree
  <2> QED
    BY <1>1, <2>2 DEF End
<1>5. ASSUME NEW i \in DOMAIN new, new[i].type = Linear
      PROVE  /\ Device(Devs, new[i].source).first <= new[i].data
             /\ End(new[i]) <= Limit(Device(Devs, new[i].source))
  <2>1. CASE i = q
    BY <1>4, <2>1
  <2>2. CASE i # q
    BY <1>1, <1>5, <2>2 DEF TableExtentsApart
  <2> QED
    BY <2>1, <2>2
<1>6. ASSUME NEW i \in DOMAIN new, NEW j \in DOMAIN new, i # j,
             OnDevice(new[i], new[j].source), new[j].type = Linear
      PROVE  ~Meets(new[i], new[j].data, new[j].num)
  <2>1. CASE i # q /\ j # q
    <3>1. f[i] \in DOMAIN exts /\ f[j] \in DOMAIN exts /\ f[i] # f[j]
          /\ new[i] = exts[f[i]] /\ new[j] = exts[f[j]]
      BY <1>1, <1>6, <2>1
    <3> QED
      BY <1>6, <3>1 DEF TableExtentsApart
  <2>2. CASE i # q /\ j = q
    BY <1>1, <1>4, <1>6, <2>2
  <2>3. CASE i = q /\ j # q
    <3>1. f[j] \in 1 .. Len(exts) /\ new[j] = exts[f[j]]
      BY <1>1, <2>3
    <3>2. ~Meets(new[j], new[q].data, new[q].num)
      BY <1>4, <1>6, <2>3, <3>1 DEF OnDevice
    <3> QED
      BY <1>2, <1>3, <2>3, <3>1, <3>2 DEF Meets, End
  <2> QED
    BY <1>6, <2>1, <2>2, <2>3
<1> QED
  BY <1>5, <1>6 DEF TableExtentsApart

\* What insert and drain leave of a table.
LEMMA InsertProperties ==
  ASSUME NEW exts \in Seq(Extent), NEW at \in 0 .. Len(exts), NEW e \in Extent
  PROVE  /\ Insert(exts, at, e) \in Seq(Extent)
         /\ Len(Insert(exts, at, e)) = Len(exts) + 1
         /\ \A i \in 1 .. Len(exts) + 1 :
              Insert(exts, at, e)[i] =
                IF i <= at THEN exts[i] ELSE IF i = at + 1 THEN e ELSE exts[i - 1]
<1> DEFINE front == SubSeq(exts, 1, at)
           back == SubSeq(exts, at + 1, Len(exts))
           head == front \o <<e>>
           all == head \o back
<1>0. Len(exts) \in Nat /\ \A i \in 1 .. Len(exts) : exts[i] \in Extent
  BY LenProperties, ExtentFields
<1>1. /\ front \in Seq(Extent) /\ Len(front) = at
      /\ \A i \in 1 .. at : front[i] = exts[i]
  <2>1. \A i \in 1 .. at : exts[i] \in Extent
    BY <1>0
  <2>2. /\ front \in Seq(Extent) /\ Len(front) = IF 1 <= at THEN at - 1 + 1 ELSE 0
        /\ \A i \in 1 .. at - 1 + 1 : front[i] = exts[1 + i - 1]
    BY <1>0, <2>1, SubSeqProperties
  <2> QED
    BY <1>0, <2>2
<1>2. /\ back \in Seq(Extent) /\ Len(back) = Len(exts) - at
      /\ \A i \in 1 .. Len(exts) - at : back[i] = exts[at + i]
  <2>1. \A i \in at + 1 .. Len(exts) : exts[i] \in Extent
    BY <1>0
  <2>2. /\ back \in Seq(Extent)
        /\ Len(back) = IF at + 1 <= Len(exts) THEN Len(exts) - (at + 1) + 1 ELSE 0
        /\ \A i \in 1 .. Len(exts) - (at + 1) + 1 : back[i] = exts[at + 1 + i - 1]
    BY <1>0, <2>1, SubSeqProperties
  <2> QED
    BY <1>0, <2>2
<1>3. <<e>> \in Seq(Extent) /\ Len(<<e>>) = 1 /\ <<e>>[1] = e
  OBVIOUS
<1> HIDE DEF front, back
<1>4. /\ head \in Seq(Extent) /\ Len(head) = at + 1
      /\ \A i \in 1 .. at + 1 : head[i] = IF i <= at THEN exts[i] ELSE e
  <2>1. /\ head \in Seq(Extent) /\ Len(head) = Len(front) + Len(<<e>>)
        /\ \A i \in 1 .. Len(front) + Len(<<e>>) :
             head[i] = IF i <= Len(front) THEN front[i] ELSE <<e>>[i - Len(front)]
    BY <1>1, <1>3, ConcatProperties
  <2> QED
    BY <1>0, <1>1, <1>3, <2>1
<1> HIDE DEF head
<1>5. /\ all \in Seq(Extent) /\ Len(all) = Len(head) + Len(back)
      /\ \A i \in 1 .. Len(head) + Len(back) :
           all[i] = IF i <= Len(head) THEN head[i] ELSE back[i - Len(head)]
  BY <1>2, <1>4, ConcatProperties
<1>6. Insert(exts, at, e) = all
  BY DEF Insert, all, head, front, back
<1> HIDE DEF all
<1>7. \A i \in 1 .. Len(exts) + 1 :
        all[i] = IF i <= at + 1 THEN head[i] ELSE back[i - (at + 1)]
  <2>1. Len(head) + Len(back) = Len(exts) + 1 /\ Len(head) = at + 1
    BY <1>0, <1>2, <1>4
  <2> QED
    BY <1>5, <2>1
<1>8. ASSUME NEW i \in 1 .. Len(exts) + 1
      PROVE  all[i] =
               IF i <= at THEN exts[i] ELSE IF i = at + 1 THEN e ELSE exts[i - 1]
  <2>1. CASE i <= at + 1
    BY <1>0, <1>4, <1>7, <2>1
  <2>2. CASE i > at + 1
    <3>1. all[i] = back[i - (at + 1)] /\ i - (at + 1) \in 1 .. Len(exts) - at
      BY <1>0, <1>7, <2>2
    <3>2. at + (i - (at + 1)) = i - 1
      BY <1>0
    <3>3. back[i - (at + 1)] = exts[at + (i - (at + 1))]
      BY <1>2, <3>1
    <3>4. all[i] = exts[i - 1]
      BY <3>1, <3>2, <3>3
    <3> QED
      BY <1>0, <2>2, <3>4
  <2>3. i \in Int
    BY <1>0
  <2> QED
    BY <2>1, <2>2, <2>3
<1> QED
  BY <1>0, <1>2, <1>4, <1>5, <1>6, <1>8

LEMMA DrainProperties ==
  ASSUME NEW exts \in Seq(Extent), NEW from \in Nat, NEW n \in Nat, from + n <= Len(exts)
  PROVE  /\ Drain(exts, from, n) \in Seq(Extent)
         /\ Len(Drain(exts, from, n)) = Len(exts) - n
         /\ \A i \in 1 .. Len(exts) - n :
              Drain(exts, from, n)[i] = exts[IF i <= from THEN i ELSE i + n]
<1> DEFINE front == SubSeq(exts, 1, from)
           back == SubSeq(exts, from + n + 1, Len(exts))
           all == front \o back
<1>0. Len(exts) \in Nat /\ \A i \in 1 .. Len(exts) : exts[i] \in Extent
  BY LenProperties, ExtentFields
<1>1. /\ front \in Seq(Extent) /\ Len(front) = from
      /\ \A i \in 1 .. from : front[i] = exts[i]
  <2>1. \A i \in 1 .. from : exts[i] \in Extent
    BY <1>0
  <2>2. /\ front \in Seq(Extent) /\ Len(front) = IF 1 <= from THEN from - 1 + 1 ELSE 0
        /\ \A i \in 1 .. from - 1 + 1 : front[i] = exts[1 + i - 1]
    BY <1>0, <2>1, SubSeqProperties
  <2> QED
    BY <1>0, <2>2
<1>2. /\ back \in Seq(Extent) /\ Len(back) = Len(exts) - (from + n)
      /\ \A i \in 1 .. Len(exts) - (from + n) : back[i] = exts[from + n + i]
  <2>1. \A i \in from + n + 1 .. Len(exts) : exts[i] \in Extent
    BY <1>0
  <2>2. /\ back \in Seq(Extent)
        /\ Len(back) =
             IF from + n + 1 <= Len(exts) THEN Len(exts) - (from + n + 1) + 1 ELSE 0
        /\ \A i \in 1 .. Len(exts) - (from + n + 1) + 1 : back[i] = exts[from + n + 1 + i - 1]
    BY <1>0, <2>1, SubSeqProperties
  <2> QED
    BY <1>0, <2>2
<1> HIDE DEF front, back
<1>3. /\ all \in Seq(Extent) /\ Len(all) = Len(front) + Len(back)
      /\ \A i \in 1 .. Len(front) + Len(back) :
           all[i] = IF i <= Len(front) THEN front[i] ELSE back[i - Len(front)]
  <2>1. front \in Seq(Extent) /\ back \in Seq(Extent)
    BY <1>1, <1>2
  <2> QED
    BY <2>1, ConcatProperties
<1>4. Drain(exts, from, n) = all
  BY DEF Drain, all, front, back
<1> HIDE DEF all
<1>5. ASSUME NEW i \in 1 .. Len(exts) - n
      PROVE  all[i] = exts[IF i <= from THEN i ELSE i + n]
  <2>1. CASE i <= from
    BY <1>0, <1>1, <1>2, <1>3, <2>1
  <2>2. CASE i > from
    <3>1. all[i] = back[i - from] /\ i - from \in 1 .. Len(exts) - (from + n)
      BY <1>0, <1>1, <1>2, <1>3, <2>2
    <3>2. from + n + (i - from) = i + n
      BY <1>0
    <3>3. back[i - from] = exts[from + n + (i - from)]
      BY <1>2, <3>1
    <3>4. all[i] = exts[i + n]
      BY <3>1, <3>2, <3>3
    <3> QED
      BY <1>0, <2>2, <3>4
  <2>3. i \in Int
    BY <1>0
  <2> QED
    BY <2>1, <2>2, <2>3
<1> QED
  <2>1. Drain(exts, from, n) \in Seq(Extent) /\ Len(Drain(exts, from, n)) = Len(exts) - n
    <3>1. Len(front) + Len(back) = Len(exts) - n
      BY <1>0, <1>1, <1>2
    <3> QED
      BY <1>3, <1>4, <3>1
  <2> QED
    BY <1>4, <1>5, <2>1

----------------------------------------------------------------------------
\* Every edit of the extent table keeps it sound.
SoundExtents(exts) ==
  exts \in Seq(Extent) /\ TableExtentsApart(exts) /\ TableExtentsFilled(exts)

LEMMA NewExtentType ==
  ASSUME NEW exts \in Seq(Extent), NEW d \in DeviceIndices(Devs), NEW needed \in Nat,
         NEW s \in FreeStarts(exts, Devs, d, needed)
  PROVE  LinearExtent(d, s, needed) \in Extent
<1>1. s \in Nat
  BY FreeStartsSound
<1> QED
  BY <1>1 DEF LinearExtent, Extent

\* push and insert of a fresh extent, which the search found room for.
LEMMA AppendSound ==
  ASSUME NEW exts, SoundExtents(exts), NEW d \in DeviceIndices(Devs),
         NEW needed \in Nat \ {0}, NEW s \in FreeStarts(exts, Devs, d, needed)
  PROVE  /\ SoundExtents(Append(exts, LinearExtent(d, s, needed)))
         /\ Len(Append(exts, LinearExtent(d, s, needed))) = Len(exts) + 1
<1> DEFINE e == LinearExtent(d, s, needed)
           new == Append(exts, e)
           f == [i \in 1 .. Len(new) |-> i]
<1>1. exts \in Seq(Extent) /\ DOMAIN exts = 1 .. Len(exts) /\ Len(exts) \in Nat
  BY LenProperties DEF SoundExtents
<1>2. e \in Extent
  BY <1>1, NewExtentType
<1>3. e.num = needed /\ e.data = s /\ e.source = d
  BY DEF LinearExtent
<1> HIDE DEF e
<1>4. /\ new \in Seq(Extent) /\ Len(new) = Len(exts) + 1
      /\ \A i \in 1 .. Len(exts) : new[i] = exts[i]
      /\ new[Len(exts) + 1] = e
  BY <1>1, <1>2, AppendProperties
<1> HIDE DEF new
<1>5. TableExtentsApart(new)
  <2> DEFINE q == Len(exts) + 1
  <2>1. q \in 1 .. Len(new) /\ f \in [1 .. Len(new) -> Int]
    BY <1>1, <1>4
  <2>2. \A i, j \in 1 .. Len(new) \ {q} : f[i] = f[j] => i = j
    OBVIOUS
  <2>3. \A i \in 1 .. Len(new) \ {q} : f[i] \in 1 .. Len(exts) /\ new[i] = exts[f[i]]
    BY <1>1, <1>4
  <2>4. /\ new[q].num > 0
        /\ Device(Devs, new[q].source).first <= new[q].data
        /\ IsRangeFree(exts, Devs, new[q].source, new[q].data, new[q].num)
    BY <1>1, <1>3, <1>4, FreeStartsSound
  <2> HIDE DEF q, f
  <2> QED
    BY <1>1, <1>4, <2>1, <2>2, <2>3, <2>4, ApartWithNew DEF SoundExtents
<1>6. TableExtentsFilled(new)
  <2>1. DOMAIN new = 1 .. Len(exts) + 1
    BY <1>4, LenProperties
  <2> QED
    BY <1>1, <1>3, <1>4, <2>1 DEF TableExtentsFilled, SoundExtents
<1> QED
  BY <1>4, <1>5, <1>6 DEF SoundExtents, new, e

LEMMA InsertSound ==
  ASSUME NEW exts, SoundExtents(exts), NEW d \in DeviceIndices(Devs),
         NEW needed \in Nat \ {0}, NEW s \in FreeStarts(exts, Devs, d, needed),
         NEW at \in 0 .. Len(exts)
  PROVE  /\ SoundExtents(Insert(exts, at, LinearExtent(d, s, needed)))
         /\ Len(Insert(exts, at, LinearExtent(d, s, needed))) = Len(exts) + 1
<1> DEFINE e == LinearExtent(d, s, needed)
           new == Insert(exts, at, e)
           f == [i \in 1 .. Len(new) |-> IF i <= at THEN i ELSE i - 1]
<1>1. exts \in Seq(Extent) /\ DOMAIN exts = 1 .. Len(exts) /\ Len(exts) \in Nat
  BY LenProperties DEF SoundExtents
<1>2. e \in Extent
  BY <1>1, NewExtentType
<1>3. e.num = needed /\ e.data = s /\ e.source = d
  BY DEF LinearExtent
<1> HIDE DEF e
<1>4. /\ new \in Seq(Extent) /\ Len(new) = Len(exts) + 1
      /\ \A i \in 1 .. Len(exts) + 1 :
           new[i] = IF i <= at THEN exts[i] ELSE IF i = at + 1 THEN e ELSE exts[i - 1]
  <2>1. exts \in Seq(Extent) /\ at \in 0 .. Len(exts) /\ e \in Extent
    BY <1>1, <1>2
  <2> QED
    BY ZenonT(30), <2>1, InsertProperties
<1> HIDE DEF new
<1>5. TableExtentsApart(new)
  <2> DEFINE q == at + 1
  <2>1. q \in 1 .. Len(new) /\ f \in [1 .. Len(new) -> Int]
    BY <1>1, <1>4
  <2>2. \A i, j \in 1 .. Len(new) \ {q} : f[i] = f[j] => i = j
    BY <1>1, <1>4
  <2>3. \A i \in 1 .. Len(new) \ {q} : f[i] \in 1 .. Len(exts) /\ new[i] = exts[f[i]]
    BY <1>1, <1>4
  <2>4. /\ new[q].num > 0
        /\ Device(Devs, new[q].source).first <= new[q].data
        /\ IsRangeFree(exts, Devs, new[q].source, new[q].data, new[q].num)
    <3>1. new[q] = e
      BY <1>1, <1>4
    <3> QED
      BY <1>1, <1>3, <3>1, FreeStartsSound
  <2> HIDE DEF q, f
  <2> QED
    BY <1>1, <1>4, <2>1, <2>2, <2>3, <2>4, ApartWithNew DEF SoundExtents
<1>6. TableExtentsFilled(new)
  <2>1. DOMAIN new = 1 .. Len(exts) + 1
    BY <1>4, LenProperties
  <2>2. ASSUME NEW i \in 1 .. Len(exts) + 1
        PROVE  new[i].num > 0
    <3>1. CASE i <= at
      BY <1>1, <1>4, <3>1 DEF TableExtentsFilled, SoundExtents
    <3>2. CASE i = at + 1
      BY <1>1, <1>3, <1>4, <3>2
    <3>3. CASE i > at + 1
      <4>1. new[i] = exts[i - 1] /\ i - 1 \in 1 .. Len(exts)
        BY <1>1, <1>4, <3>3
      <4> QED
        BY <1>1, <4>1 DEF TableExtentsFilled, SoundExtents
    <3> QED
      BY <1>1, <3>1, <3>2, <3>3
  <2> QED
    BY <2>1, <2>2 DEF TableExtentsFilled
<1> QED
  BY <1>4, <1>5, <1>6 DEF SoundExtents, new, e

\* drain.
LEMMA DrainSound ==
  ASSUME NEW exts, SoundExtents(exts), NEW from \in Nat, NEW n \in Nat, from + n <= Len(exts)
  PROVE  /\ SoundExtents(Drain(exts, from, n))
         /\ Len(Drain(exts, from, n)) = Len(exts) - n
<1> DEFINE new == Drain(exts, from, n)
           f == [i \in 1 .. Len(new) |-> IF i <= from THEN i ELSE i + n]
<1>1. exts \in Seq(Extent) /\ DOMAIN exts = 1 .. Len(exts) /\ Len(exts) \in Nat
  BY LenProperties DEF SoundExtents
<1>2. /\ new \in Seq(Extent) /\ Len(new) = Len(exts) - n
      /\ \A i \in 1 .. Len(exts) - n : new[i] = exts[IF i <= from THEN i ELSE i + n]
  BY <1>1, DrainProperties
<1> HIDE DEF new
<1>3. f \in [1 .. Len(new) -> 1 .. Len(exts)]
  BY <1>1, <1>2
<1>4. \A i, j \in 1 .. Len(new) : f[i] = f[j] => i = j
  BY <1>1, <1>2
<1>5. \A i \in 1 .. Len(new) : new[i] = exts[f[i]] /\ exts[f[i]].num \in Nat
  BY <1>1, <1>2, <1>3, ExtentFields
<1> HIDE DEF f
<1>6. TableExtentsApart(new)
  <2>1. \A i \in 1 .. Len(new) :
          /\ new[i].type = exts[f[i]].type
          /\ new[i].data = exts[f[i]].data
          /\ new[i].source = exts[f[i]].source
          /\ new[i].num <= exts[f[i]].num
    BY <1>5
  <2> QED
    BY <1>1, <1>2, <1>3, <1>4, <2>1, ApartInherited DEF SoundExtents
<1>7. TableExtentsFilled(new)
  <2>1. DOMAIN new = 1 .. Len(new)
    BY <1>2, LenProperties
  <2> QED
    BY <1>1, <1>3, <1>5, <2>1 DEF TableExtentsFilled, SoundExtents
<1> QED
  BY <1>2, <1>6, <1>7 DEF SoundExtents, new

\* An extent is cut short.
LEMMA TruncateSound ==
  ASSUME NEW exts, SoundExtents(exts), NEW q \in 1 .. Len(exts),
         NEW keep \in 1 .. exts[q].num
  PROVE  /\ SoundExtents([exts EXCEPT ![q] = [@ EXCEPT !.num = keep]])
         /\ Len([exts EXCEPT ![q] = [@ EXCEPT !.num = keep]]) = Len(exts)
<1> DEFINE e == [exts[q] EXCEPT !.num = keep]
           new == [exts EXCEPT ![q] = e]
           f == [i \in 1 .. Len(new) |-> i]
<1>1. exts \in Seq(Extent) /\ DOMAIN exts = 1 .. Len(exts) /\ Len(exts) \in Nat
  BY LenProperties DEF SoundExtents
<1>2. \A i \in 1 .. Len(exts) : exts[i] \in Extent /\ exts[i].num \in Nat
  BY <1>1, ExtentFields
<1>3. /\ e \in Extent /\ e.num = keep
      /\ e.type = exts[q].type /\ e.data = exts[q].data /\ e.source = exts[q].source
  BY <1>2 DEF Extent
<1> HIDE DEF e
<1>4. /\ new \in Seq(Extent) /\ Len(new) = Len(exts)
      /\ \A i \in 1 .. Len(exts) : new[i] = IF i = q THEN e ELSE exts[i]
  BY <1>1, <1>3, ExceptSeq
<1>5. new = [exts EXCEPT ![q] = [@ EXCEPT !.num = keep]]
  BY DEF e
<1> HIDE DEF new
<1>6. TableExtentsApart(new)
  <2>1. f \in [1 .. Len(new) -> 1 .. Len(exts)]
    BY <1>4
  <2>2. \A i, j \in 1 .. Len(new) : f[i] = f[j] => i = j
    OBVIOUS
  <2>3. \A i \in 1 .. Len(new) :
          /\ new[i].type = exts[f[i]].type
          /\ new[i].data = exts[f[i]].data
          /\ new[i].source = exts[f[i]].source
          /\ new[i].num <= exts[f[i]].num
    BY <1>2, <1>3, <1>4
  <2> HIDE DEF f
  <2> QED
    BY <1>1, <1>4, <2>1, <2>2, <2>3, ApartInherited DEF SoundExtents
<1>7. TableExtentsFilled(new)
  <2>1. DOMAIN new = 1 .. Len(new)
    BY <1>4, LenProperties
  <2> QED
    BY <1>1, <1>3, <1>4, <2>1 DEF TableExtentsFilled, SoundExtents
<1> QED
  BY <1>4, <1>5, <1>6, <1>7 DEF SoundExtents

\* An extent grows into the free sectors behind it.  That the extents have
\* sectors matters here: an extent of none could sit at the very end of the
\* one that grows and end up inside it.
LEMMA GrowSound ==
  ASSUME NEW exts, SoundExtents(exts), NEW q \in 1 .. Len(exts), NEW extra \in Nat,
         exts[q].type = Linear,
         IsRangeFree(exts, Devs, exts[q].source, End(exts[q]), extra)
  PROVE  /\ SoundExtents([exts EXCEPT ![q] = [exts[q] EXCEPT !.num = @ + extra]])
         /\ Len([exts EXCEPT ![q] = [exts[q] EXCEPT !.num = @ + extra]]) = Len(exts)
<1> DEFINE old == exts[q]
           e == [exts[q] EXCEPT !.num = @ + extra]
           new == [exts EXCEPT ![q] = e]
<1>1. exts \in Seq(Extent) /\ DOMAIN exts = 1 .. Len(exts) /\ Len(exts) \in Nat
  BY LenProperties DEF SoundExtents
<1>2. \A i \in 1 .. Len(exts) :
        /\ exts[i] \in Extent /\ exts[i].num \in Nat /\ exts[i].data \in Nat
        /\ exts[i].source \in DeviceIndices(Devs)
  BY <1>1, ExtentFields
<1>3. /\ e \in Extent /\ e.num = old.num + extra
      /\ e.type = Linear /\ e.data = old.data /\ e.source = old.source
  BY <1>2 DEF Extent
<1> HIDE DEF e
<1>4. /\ new \in Seq(Extent) /\ Len(new) = Len(exts)
      /\ \A i \in 1 .. Len(exts) : new[i] = IF i = q THEN e ELSE exts[i]
  BY <1>1, <1>3, ExceptSeq
<1>5. new = [exts EXCEPT ![q] = [exts[q] EXCEPT !.num = @ + extra]]
  BY DEF e
<1> HIDE DEF new
<1>6. DOMAIN new = 1 .. Len(exts)
  BY <1>4, LenProperties
<1>7. \A i \in 1 .. Len(exts) : exts[i].num > 0
  BY <1>1 DEF SoundExtents, TableExtentsFilled
<1>8. /\ old.num \in Nat \ {0} /\ old.data \in Nat /\ End(old) = old.data + old.num
      /\ End(e) = old.data + old.num + extra
  BY <1>2, <1>3, <1>7 DEF End
<1>9. ASSUME NEW i \in 1 .. Len(exts), i # q, OnDevice(exts[i], old.source)
      PROVE  ~Meets(exts[i], old.data, old.num + extra)
  <2>1. ~Meets(exts[i], old.data, old.num)
    BY <1>1, <1>9 DEF SoundExtents, TableExtentsApart
  <2>2. ~Meets(exts[i], End(old), extra)
    BY <1>1, <1>9 DEF IsRangeFree
  <2>3. exts[i].num \in Nat \ {0} /\ exts[i].data \in Nat
    BY <1>2, <1>7
  <2> HIDE DEF old
  <2> QED
    BY SMTT(30), <1>8, <2>1, <2>2, <2>3 DEF Meets, End
<1>10. TableExtentsApart(new)
  <2>1. ASSUME NEW i \in DOMAIN new, new[i].type = Linear
        PROVE  /\ Device(Devs, new[i].source).first <= new[i].data
               /\ End(new[i]) <= Limit(Device(Devs, new[i].source))
    <3>1. CASE i = q
      <4>1. Limit(Device(Devs, old.source)) > 0
        BY <1>2, DeviceType
      <4>2. End(old) + extra <= Limit(Device(Devs, old.source))
        BY <4>1 DEF IsRangeFree
      <4>3. Device(Devs, old.source).first <= old.data
        BY <1>1 DEF SoundExtents, TableExtentsApart
      <4> HIDE DEF old
      <4> QED
        BY <1>3, <1>4, <1>8, <3>1, <4>2, <4>3
    <3>2. CASE i # q
      BY <1>1, <1>4, <1>6, <2>1, <3>2 DEF SoundExtents, TableExtentsApart
    <3> QED
      BY <3>1, <3>2
  <2>2. ASSUME NEW i \in DOMAIN new, NEW j \in DOMAIN new, i # j,
               OnDevice(new[i], new[j].source), new[j].type = Linear
        PROVE  ~Meets(new[i], new[j].data, new[j].num)
    <3>1. CASE i # q /\ j # q
      BY <1>1, <1>4, <1>6, <2>2, <3>1 DEF SoundExtents, TableExtentsApart
    <3>2. CASE j = q
      BY <1>3, <1>4, <1>6, <1>9, <2>2, <3>2
    <3>3. CASE i = q
      <4>1. new[i] = e /\ new[j] = exts[j] /\ j \in 1 .. Len(exts) /\ j # q
        BY <1>4, <1>6, <2>2, <3>3
      <4>2. OnDevice(exts[j], old.source)
        BY <1>3, <2>2, <4>1 DEF OnDevice
      <4>3. ~Meets(exts[j], old.data, old.num + extra)
        BY <1>9, <4>1, <4>2
      <4>4. exts[j].num \in Nat /\ exts[j].data \in Nat
        BY <1>2, <4>1
      <4> HIDE DEF old
      <4> QED
        BY <1>3, <1>8, <4>1, <4>3, <4>4 DEF Meets, End
    <3> QED
      BY <3>1, <3>2, <3>3
  <2> QED
    BY <2>1, <2>2 DEF TableExtentsApart
<1>11. TableExtentsFilled(new)
  <2> HIDE DEF old
  <2> QED
    BY <1>3, <1>4, <1>6, <1>7, <1>8 DEF TableExtentsFilled
<1> QED
  BY <1>4, <1>5, <1>10, <1>11 DEF SoundExtents

----------------------------------------------------------------------------
\* Every edit of the windows keeps them apart, and leaves no extent unowned.
SoundWindows(prts, exts) ==
  /\ \A n \in DOMAIN prts : prts[n] \in Partition
  /\ TableWindowsApart(prts, exts)
  /\ TableOwned(prts, exts)

LEMMA OwnedPointwise ==
  ASSUME NEW prts, NEW exts, Len(exts) \in Nat,
         \A n \in DOMAIN prts : prts[n].first \in Nat /\ prts[n].num \in Nat,
         \A n \in DOMAIN prts : prts[n].first + prts[n].num <= Len(exts)
  PROVE  TableOwned(prts, exts) <=>
           \A k \in 0 .. Len(exts) - 1 : \E n \in DOMAIN prts :
             prts[n].first <= k /\ k < prts[n].first + prts[n].num
<1>1. \A n \in DOMAIN prts : \A k \in Window(prts[n]) : k \in 0 .. Len(exts) - 1
  BY DEF Window
<1>2. \A n \in DOMAIN prts : \A k \in 0 .. Len(exts) - 1 :
        k \in Window(prts[n]) <=> prts[n].first <= k /\ k < prts[n].first + prts[n].num
  BY DEF Window
<1>3. UNION {Window(prts[n]) : n \in DOMAIN prts} \subseteq 0 .. Len(exts) - 1
  BY <1>1
<1>4. TableOwned(prts, exts) <=>
        \A k \in 0 .. Len(exts) - 1 : \E n \in DOMAIN prts : k \in Window(prts[n])
  BY <1>3 DEF TableOwned
<1> QED
  BY <1>2, <1>4

\* The windows read pointwise, as the lemmas below use them.
LEMMA WindowsPointwise ==
  ASSUME NEW prts, NEW exts, Len(exts) \in Nat
  PROVE  SoundWindows(prts, exts) <=>
           /\ \A n \in DOMAIN prts :
                /\ prts[n] \in Partition
                /\ prts[n].first + prts[n].num <= Len(exts)
           /\ \A m, n \in DOMAIN prts : m # n =>
                \/ prts[m].first + prts[m].num <= prts[n].first
                \/ prts[n].first + prts[n].num <= prts[m].first
           /\ \A k \in 0 .. Len(exts) - 1 : \E n \in DOMAIN prts :
                prts[n].first <= k /\ k < prts[n].first + prts[n].num
<1>1. \A n \in DOMAIN prts : prts[n] \in Partition => prts[n].first \in Nat /\ prts[n].num \in Nat
  BY DEF Partition
<1> QED
  BY <1>1, OwnedPointwise DEF SoundWindows, TableWindowsApart

LEMMA WindowFacts ==
  ASSUME NEW prts, NEW exts, Len(exts) \in Nat, SoundWindows(prts, exts)
  PROVE  /\ \A m \in DOMAIN prts :
              /\ prts[m] \in Partition
              /\ prts[m].first \in Nat /\ prts[m].num \in Nat
              /\ prts[m].first + prts[m].num <= Len(exts)
         /\ \A k, m \in DOMAIN prts : k # m =>
              \/ prts[k].first + prts[k].num <= prts[m].first
              \/ prts[m].first + prts[m].num <= prts[k].first
         /\ \A k \in 0 .. Len(exts) - 1 : \E m \in DOMAIN prts :
              prts[m].first <= k /\ k < prts[m].first + prts[m].num
<1>1. \A n \in DOMAIN prts : prts[n] \in Partition => prts[n].first \in Nat /\ prts[n].num \in Nat
  BY DEF Partition
<1> QED
  BY <1>1, WindowsPointwise

\* A window of one extent, or of none, at the end of the table, for a new
\* partition or for one that had no extents.
LEMMA WindowAtEnd ==
  ASSUME NEW prts, NEW exts, NEW new, Len(exts) \in Nat, SoundWindows(prts, exts),
         NEW n, n \in DOMAIN prts => prts[n].num = 0,
         NEW p \in Partition, p.first = Len(exts), p.num \in {0, 1}, Len(new) = Len(exts) + p.num
  PROVE  SoundWindows(With(prts, n, p), new)
<1> DEFINE q == With(prts, n, p)
<1>1. /\ DOMAIN q = DOMAIN prts \cup {n}
      /\ q[n] = p
      /\ \A m \in DOMAIN prts : m # n => q[m] = prts[m]
  BY DEF With
<1>2. /\ \A m \in DOMAIN prts :
           /\ prts[m] \in Partition
           /\ prts[m].first \in Nat /\ prts[m].num \in Nat
           /\ prts[m].first + prts[m].num <= Len(exts)
      /\ \A k, m \in DOMAIN prts : k # m =>
           \/ prts[k].first + prts[k].num <= prts[m].first
           \/ prts[m].first + prts[m].num <= prts[k].first
      /\ \A k \in 0 .. Len(exts) - 1 : \E m \in DOMAIN prts :
           prts[m].first <= k /\ k < prts[m].first + prts[m].num
  BY WindowFacts
<1> HIDE DEF q
<1>3. ASSUME NEW m \in DOMAIN q
      PROVE  /\ q[m] \in Partition
             /\ q[m].first \in Nat /\ q[m].num \in Nat
             /\ q[m].first + q[m].num <= Len(new)
             /\ m # n => q[m].first + q[m].num <= Len(exts)
  BY <1>1, <1>2, <1>3
<1>4. ASSUME NEW k \in DOMAIN q, NEW m \in DOMAIN q, k # m
      PROVE  \/ q[k].first + q[k].num <= q[m].first
             \/ q[m].first + q[m].num <= q[k].first
  BY <1>1, <1>2, <1>3, <1>4
<1>5. ASSUME NEW k \in 0 .. Len(new) - 1
      PROVE  \E m \in DOMAIN q : q[m].first <= k /\ k < q[m].first + q[m].num
  <2>1. CASE k < Len(exts)
    <3>1. PICK m \in DOMAIN prts : prts[m].first <= k /\ k < prts[m].first + prts[m].num
      BY <1>2, <2>1
    <3>2. m # n
      BY <1>2, <3>1
    <3> QED
      BY <1>1, <3>1, <3>2
  <2>2. CASE k = Len(exts)
    BY <1>1, <2>2
  <2> QED
    BY <2>1, <2>2
<1>6. Len(new) \in Nat
  OBVIOUS
<1> QED
  BY <1>3, <1>4, <1>5, <1>6, WindowsPointwise DEF q

\* Two windows stay apart when those behind a gap from lo to hi move by x, as
\* long as they do not move past lo.
Moved(a, c, lo, hi, x) ==
  /\ c.num = a.num
  /\ \/ a.first >= hi /\ c.first = a.first + x
     \/ a.first + a.num <= lo /\ c.first = a.first

LEMMA MovesKeepApart ==
  ASSUME NEW a, a.first \in Nat, a.num \in Nat, NEW b, b.first \in Nat, b.num \in Nat,
         NEW lo \in Int, NEW hi \in Int, NEW x \in Int, lo <= hi, lo <= hi + x,
         a.first + a.num <= b.first \/ b.first + b.num <= a.first,
         NEW c, Moved(a, c, lo, hi, x), NEW d, Moved(b, d, lo, hi, x)
  PROVE  c.first + c.num <= d.first \/ d.first + d.num <= c.first
<1>1. CASE a.first >= hi /\ c.first = a.first + x /\ b.first >= hi /\ d.first = b.first + x
  BY <1>1 DEF Moved
<1>2. CASE a.first >= hi /\ c.first = a.first + x /\ b.first + b.num <= lo /\ d.first = b.first
  BY <1>2 DEF Moved
<1>3. CASE a.first + a.num <= lo /\ c.first = a.first /\ b.first >= hi /\ d.first = b.first + x
  BY <1>3 DEF Moved
<1>4. CASE a.first + a.num <= lo /\ c.first = a.first /\ b.first + b.num <= lo /\ d.first = b.first
  BY <1>4 DEF Moved
<1> QED
  BY <1>1, <1>2, <1>3, <1>4 DEF Moved

\* One extent more, right behind the window of a partition that has some: the
\* windows from there on move up.
LEMMA WindowGrows ==
  ASSUME NEW prts, NEW exts, NEW new, Len(exts) \in Nat, SoundWindows(prts, exts),
         NEW n \in DOMAIN prts, prts[n].num > 0, Len(new) = Len(exts) + 1,
         NEW p \in Partition, p.first = prts[n].first, p.num = prts[n].num + 1
  PROVE  SoundWindows(With(ShiftUp(prts, prts[n].first + prts[n].num), n, p), new)
<1> DEFINE at == prts[n].first + prts[n].num
           q == With(ShiftUp(prts, at), n, p)
<1>1. /\ DOMAIN q = DOMAIN prts
      /\ q[n] = p
      /\ \A m \in DOMAIN prts : m # n =>
           q[m] = IF prts[m].first >= at THEN [prts[m] EXCEPT !.first = @ + 1] ELSE prts[m]
  BY DEF With, ShiftUp
<1>2. /\ \A m \in DOMAIN prts :
           /\ prts[m] \in Partition
           /\ prts[m].first \in Nat /\ prts[m].num \in Nat
           /\ prts[m].first + prts[m].num <= Len(exts)
      /\ \A k, m \in DOMAIN prts : k # m =>
           \/ prts[k].first + prts[k].num <= prts[m].first
           \/ prts[m].first + prts[m].num <= prts[k].first
      /\ \A k \in 0 .. Len(exts) - 1 : \E m \in DOMAIN prts :
           prts[m].first <= k /\ k < prts[m].first + prts[m].num
  BY WindowFacts
<1> HIDE DEF q
<1>3. ASSUME NEW m \in DOMAIN prts, m # n
      PROVE  /\ q[m] \in Partition
             /\ q[m].num = prts[m].num
             /\ \/ prts[m].first >= at /\ q[m].first = prts[m].first + 1
                \/ prts[m].first + prts[m].num <= prts[n].first /\ q[m].first = prts[m].first
  <2>1. /\ prts[m] \in Partition /\ prts[m].first \in Nat /\ prts[m].num \in Nat
        /\ prts[n].first \in Nat /\ prts[n].num \in Nat
    BY <1>2, <1>3
  <2>2. prts[m].first + prts[m].num <= prts[n].first \/ prts[m].first >= at
    BY <1>2, <1>3
  <2>3. CASE prts[m].first >= at
    <3>1. q[m] = [prts[m] EXCEPT !.first = @ + 1]
      BY <1>1, <1>3, <2>3
    <3> QED
      BY SMTT(30), <2>1, <2>3, <3>1 DEF Partition
  <2>4. CASE ~(prts[m].first >= at)
    <3>1. q[m] = prts[m]
      BY <1>1, <1>3, <2>4
    <3> QED
      BY <2>1, <2>2, <2>4, <3>1
  <2> QED
    BY <2>3, <2>4
<1>4. ASSUME NEW m \in DOMAIN q
      PROVE  /\ q[m] \in Partition
             /\ q[m].first + q[m].num <= Len(new)
  BY <1>1, <1>2, <1>3, <1>4
<1>5. ASSUME NEW k \in DOMAIN q, NEW m \in DOMAIN q, k # m
      PROVE  \/ q[k].first + q[k].num <= q[m].first
             \/ q[m].first + q[m].num <= q[k].first
  <2>1. /\ prts[k].first \in Nat /\ prts[k].num \in Nat
        /\ prts[m].first \in Nat /\ prts[m].num \in Nat
        /\ prts[n].first \in Nat /\ prts[n].num \in Nat
    BY <1>1, <1>2, <1>5
  <2>2. \/ prts[k].first + prts[k].num <= prts[m].first
        \/ prts[m].first + prts[m].num <= prts[k].first
    BY <1>1, <1>2, <1>5
  <2>3. CASE k = n
    <3>1. m \in DOMAIN prts /\ m # n
      BY <1>1, <1>5, <2>3
    <3> QED
      BY <1>1, <1>3, <2>1, <2>2, <2>3, <3>1
  <2>4. CASE m = n
    <3>1. k \in DOMAIN prts /\ k # n
      BY <1>1, <1>5, <2>4
    <3> QED
      BY <1>1, <1>3, <2>1, <2>2, <2>4, <3>1
  <2>5. CASE k # n /\ m # n
    <3>1. k \in DOMAIN prts /\ m \in DOMAIN prts
      BY <1>1, <1>5
    <3>2. /\ Moved(prts[k], q[k], prts[n].first, at, 1)
          /\ Moved(prts[m], q[m], prts[n].first, at, 1)
      BY <1>3, <2>5, <3>1 DEF Moved
    <3>3. /\ prts[n].first <= at /\ prts[n].first <= at + 1
          /\ at \in Int /\ 1 \in Int /\ prts[n].first \in Int
      BY <2>1
    <3> HIDE DEF at
    <3> QED
      BY Zenon, <2>1, <2>2, <3>2, <3>3, MovesKeepApart
  <2> QED
    BY <2>3, <2>4, <2>5
<1>6. ASSUME NEW k \in 0 .. Len(new) - 1
      PROVE  \E m \in DOMAIN q : q[m].first <= k /\ k < q[m].first + q[m].num
  <2>1. CASE k < at
    <3>1. k \in 0 .. Len(exts) - 1
      BY <1>2, <2>1
    <3>2. PICK m \in DOMAIN prts : prts[m].first <= k /\ k < prts[m].first + prts[m].num
      BY <1>2, <3>1
    <3>3. CASE m = n
      BY <1>1, <1>2, <3>2, <3>3
    <3>4. CASE m # n
      BY SMTT(30), <1>1, <1>2, <1>3, <2>1, <3>2, <3>4
    <3> QED
      BY <3>3, <3>4
  <2>2. CASE k = at
    BY <1>1, <1>2, <2>2
  <2>3. CASE k > at
    <3>1. k - 1 \in 0 .. Len(exts) - 1
      BY <1>2, <2>3
    <3>2. PICK m \in DOMAIN prts :
            prts[m].first <= k - 1 /\ k - 1 < prts[m].first + prts[m].num
      BY <1>2, <3>1
    <3>3. m # n
      BY <1>2, <2>3, <3>2
    <3> QED
      BY SMTT(30), <1>1, <1>2, <1>3, <2>3, <3>2, <3>3
  <2> QED
    BY <1>2, <2>1, <2>2, <2>3
<1>7. Len(new) \in Nat
  OBVIOUS
<1> QED
  BY <1>4, <1>5, <1>6, <1>7, WindowsPointwise DEF q

\* The last extents of the window of n are dropped, all but j, or all of them
\* and the partition too: the windows behind it move down.
Shrunk(prts, n, j, q) ==
  /\ DOMAIN q = DOMAIN prts \/ (DOMAIN q = DOMAIN prts \ {n} /\ j = 0)
  /\ n \in DOMAIN q => q[n] \in Partition /\ q[n].first = prts[n].first /\ q[n].num = j
  /\ \A m \in DOMAIN prts : m # n =>
       /\ q[m] \in Partition
       /\ q[m].num = prts[m].num
       /\ q[m].first = IF prts[m].first >= prts[n].first + prts[n].num
                       THEN prts[m].first - (prts[n].num - j) ELSE prts[m].first

LEMMA WindowShrinks ==
  ASSUME NEW prts, NEW exts, NEW new, Len(exts) \in Nat, SoundWindows(prts, exts),
         NEW n \in DOMAIN prts, NEW j \in 0 .. prts[n].num,
         Len(new) = Len(exts) - (prts[n].num - j),
         NEW q, Shrunk(prts, n, j, q)
  PROVE  SoundWindows(q, new)
<1> DEFINE at == prts[n].first + prts[n].num
           less == prts[n].num - j
           down == 0 - less
<1>1. /\ \A m \in DOMAIN prts :
           /\ prts[m] \in Partition
           /\ prts[m].first \in Nat /\ prts[m].num \in Nat
           /\ prts[m].first + prts[m].num <= Len(exts)
      /\ \A k, m \in DOMAIN prts : k # m =>
           \/ prts[k].first + prts[k].num <= prts[m].first
           \/ prts[m].first + prts[m].num <= prts[k].first
      /\ \A k \in 0 .. Len(exts) - 1 : \E m \in DOMAIN prts :
           prts[m].first <= k /\ k < prts[m].first + prts[m].num
  BY WindowFacts
<1>2. ASSUME NEW m \in DOMAIN prts, m # n
      PROVE  /\ q[m] \in Partition
             /\ q[m].num = prts[m].num
             /\ \/ prts[m].first >= at /\ q[m].first = prts[m].first - less
                \/ /\ prts[m].first + prts[m].num <= prts[n].first
                   /\ prts[m].first < at
                   /\ q[m].first = prts[m].first
  <2>1. /\ prts[m].first \in Nat /\ prts[m].num \in Nat
        /\ prts[n].first \in Nat /\ prts[n].num \in Nat
        /\ \/ prts[m].first + prts[m].num <= prts[n].first
           \/ at <= prts[m].first
    BY <1>1, <1>2
  <2>2. /\ q[m] \in Partition
        /\ q[m].num = prts[m].num
        /\ q[m].first = IF prts[m].first >= at THEN prts[m].first - less ELSE prts[m].first
    BY <1>2 DEF Shrunk
  <2> HIDE DEF less
  <2> QED
    BY <2>1, <2>2
<1>0. /\ DOMAIN q = DOMAIN prts \/ (DOMAIN q = DOMAIN prts \ {n} /\ j = 0)
      /\ n \in DOMAIN q => q[n] \in Partition /\ q[n].first = prts[n].first /\ q[n].num = j
  BY DEF Shrunk
<1>3. less \in Nat /\ less <= prts[n].num /\ at \in Nat /\ Len(new) \in Nat
  BY <1>1
<1>4. ASSUME NEW m \in DOMAIN q
      PROVE  /\ q[m] \in Partition
             /\ q[m].first + q[m].num <= Len(new)
  <2>1. /\ m \in DOMAIN prts
        /\ prts[m].first \in Nat /\ prts[m].num \in Nat
        /\ prts[n].first \in Nat /\ prts[n].num \in Nat
        /\ prts[m].first + prts[m].num <= Len(exts)
        /\ prts[n].first + prts[n].num <= Len(exts)
    BY <1>0, <1>1, <1>4
  <2>2. CASE m = n
    BY <1>0, <1>3, <1>4, <2>1, <2>2
  <2>3. CASE m # n
    <3>1. /\ q[m] \in Partition /\ q[m].num = prts[m].num
          /\ \/ prts[m].first >= at /\ q[m].first = prts[m].first - less
             \/ /\ prts[m].first + prts[m].num <= prts[n].first
                /\ q[m].first = prts[m].first
      BY <1>2, <2>1, <2>3
    <3>2. /\ prts[n].first + less <= Len(exts)
          /\ Len(new) = Len(exts) - less
      BY <2>1
    <3>3. less \in Nat
      BY <1>3
    <3>4. prts[n].first + prts[n].num - less <= Len(new) /\ prts[n].num - less \in Nat
      BY SMTT(60), <1>3, <2>1
    <3>5. CASE prts[m].first >= at /\ q[m].first = prts[m].first - less
      <4> HIDE DEF at, less
      <4> QED
        BY SMTT(60), <2>1, <3>1, <3>2, <3>3, <3>5
    <3>6. CASE prts[m].first + prts[m].num <= prts[n].first /\ q[m].first = prts[m].first
      <4> HIDE DEF at, less
      <4> QED
        <5>1. prts[n].first <= Len(new)
          BY <2>1, <3>2, <3>3
        <5>2. q[m] \in Partition /\ q[m].num = prts[m].num
          BY <3>1
        <5>3. Len(new) \in Int
          BY <3>2, <3>3
        <5> QED
          BY <2>1, <3>6, <5>1, <5>2, <5>3
    <3> QED
      BY <3>1, <3>5, <3>6
  <2> QED
    BY <2>2, <2>3
<1>5. ASSUME NEW k \in DOMAIN q, NEW m \in DOMAIN q, k # m
      PROVE  \/ q[k].first + q[k].num <= q[m].first
             \/ q[m].first + q[m].num <= q[k].first
  <2>1. /\ k \in DOMAIN prts /\ m \in DOMAIN prts
        /\ prts[k].first \in Nat /\ prts[k].num \in Nat
        /\ prts[m].first \in Nat /\ prts[m].num \in Nat
        /\ prts[n].first \in Nat /\ prts[n].num \in Nat
    BY <1>0, <1>1, <1>5
  <2>2. \/ prts[k].first + prts[k].num <= prts[m].first
        \/ prts[m].first + prts[m].num <= prts[k].first
    BY <1>1, <1>5, <2>1
  <2>3. CASE k = n
    BY SMTT(60), <1>0, <1>2, <1>3, <1>5, <2>1, <2>2, <2>3
  <2>4. CASE m = n
    BY SMTT(60), <1>0, <1>2, <1>3, <1>5, <2>1, <2>2, <2>4
  <2>5. CASE k # n /\ m # n
    <3>1. /\ Moved(prts[k], q[k], prts[n].first, at, down)
          /\ Moved(prts[m], q[m], prts[n].first, at, down)
      <4>1. \A i \in {k, m} :
              /\ q[i].num = prts[i].num
              /\ \/ prts[i].first >= at /\ q[i].first = prts[i].first - less
                 \/ prts[i].first + prts[i].num <= prts[n].first /\ q[i].first = prts[i].first
        BY <1>2, <2>1, <2>5
      <4>2. \A i \in {k, m} : prts[i].first - less = prts[i].first + down
        <5>1. less \in Nat /\ prts[k].first \in Nat /\ prts[m].first \in Nat
          BY <1>3, <2>1
        <5> HIDE DEF less
        <5> QED
          BY <5>1
      <4> QED
        BY <4>1, <4>2 DEF Moved
    <3>2. /\ prts[n].first <= at /\ prts[n].first <= at + down
          /\ at \in Int /\ down \in Int /\ prts[n].first \in Int
      BY SMTT(60), <1>3, <2>1
    <3> HIDE DEF at, down
    <3> QED
      BY Zenon, <2>1, <2>2, <3>1, <3>2, MovesKeepApart
  <2> QED
    BY <2>3, <2>4, <2>5
<1>6. ASSUME NEW k \in 0 .. Len(new) - 1
      PROVE  \E m \in DOMAIN q : q[m].first <= k /\ k < q[m].first + q[m].num
  <2>1. CASE k < prts[n].first + j
    <3>1. k \in 0 .. Len(exts) - 1
      BY SMTT(30), <1>1, <1>3, <2>1
    <3>2. PICK m \in DOMAIN prts : prts[m].first <= k /\ k < prts[m].first + prts[m].num
      BY <1>1, <3>1
    <3>3. CASE m = n
      BY SMTT(30), <1>0, <1>1, <2>1, <3>2, <3>3
    <3>4. CASE m # n
      <4>1. /\ prts[m].first \in Nat /\ prts[m].num \in Nat
            /\ prts[n].first \in Nat /\ prts[n].num \in Nat
            /\ m \in DOMAIN q
        BY <1>0, <1>1, <3>4
      <4>2. ~(prts[m].first >= at)
        <5>1. k < at /\ at \in Int
          BY SMTT(60), <2>1, <4>1
        <5> HIDE DEF at
        <5> QED
          BY <3>2, <4>1, <5>1
      <4> QED
        BY <1>2, <3>2, <3>4, <4>1, <4>2
    <3> QED
      BY <3>3, <3>4
  <2>2. CASE k >= prts[n].first + j
    <3>0. /\ prts[n].first \in Nat /\ prts[n].num \in Nat
          /\ prts[n].first + prts[n].num <= Len(exts)
      BY <1>1
    <3>1. k + less \in 0 .. Len(exts) - 1 /\ k + less >= at
      BY SMTT(60), <2>2, <3>0
    <3>2. PICK m \in DOMAIN prts :
            prts[m].first <= k + less /\ k + less < prts[m].first + prts[m].num
      BY <1>1, <3>1
    <3>3. m # n
      BY SMTT(30), <1>1, <3>1, <3>2
    <3>4. /\ prts[m].first \in Nat /\ prts[m].num \in Nat
          /\ m \in DOMAIN q
      BY <1>0, <1>1, <3>3
    <3>5. prts[m].first >= at /\ q[m].first = prts[m].first - less /\ q[m].num = prts[m].num
      <4>1. ~(prts[m].first + prts[m].num <= prts[n].first)
        <5>1. prts[n].first <= at /\ at \in Int /\ less \in Nat
          BY SMTT(30), <1>3, <3>0
        <5> HIDE DEF at, less
        <5> QED
          BY SMTT(60), <3>0, <3>1, <3>2, <3>4, <5>1
      <4> QED
        BY <1>2, <3>3, <4>1
    <3> QED
      BY SMTT(60), <1>3, <3>2, <3>4, <3>5
  <2> QED
    BY <1>1, <2>1, <2>2
<1> QED
  BY <1>3, <1>4, <1>5, <1>6, WindowsPointwise

----------------------------------------------------------------------------
\* Counting the positions below one: what the compaction moves a window by.

\* The count up to b is the count up to a and what lies between.
LEMMA BelowSplits ==
  ASSUME NEW X, IsFiniteSet(X), X \subseteq Int, NEW a \in Int, NEW b \in Int, a <= b
  PROVE  /\ Below(X, a) \in Nat
         /\ Below(X, b) = Below(X, a) + Cardinality({k \in X : a <= k /\ k < b})
         /\ Cardinality({k \in X : a <= k /\ k < b}) \in 0 .. b - a
<1> DEFINE lower == {k \in X : k < a}
           middle == {k \in X : a <= k /\ k < b}
<1>1. IsFiniteSet(lower) /\ IsFiniteSet(middle)
  BY FS_Subset
<1>2. Cardinality(lower) \in Nat /\ Cardinality(middle) \in Nat
  BY <1>1, FS_CardinalityType
<1>3. lower \cup middle = {k \in X : k < b} /\ lower \cap middle = {}
  <2>1. \A k \in X : /\ k < b <=> (k < a \/ (a <= k /\ k < b))
                     /\ ~(k < a /\ a <= k)
    <3>1. SUFFICES ASSUME NEW k \in X
                   PROVE  /\ k < b <=> (k < a \/ (a <= k /\ k < b))
                          /\ ~(k < a /\ a <= k)
      OBVIOUS
    <3>2. k \in Int
      OBVIOUS
    <3> QED
      BY <3>2
  <2> QED
    BY Zenon, <2>1
<1>4. Cardinality(lower \cup middle) = Cardinality(lower) + Cardinality(middle)
  <2>1. Cardinality(lower \cap middle) = 0
    BY <1>3, FS_EmptySet
  <2>2. Cardinality(lower \cup middle) =
          Cardinality(lower) + Cardinality(middle) - Cardinality(lower \cap middle)
    <3> HIDE DEF lower, middle
    <3> QED
      BY <1>1, FS_Union
  <2> HIDE DEF lower, middle
  <2> QED
    BY <1>2, <2>1, <2>2
<1>5. Cardinality(middle) <= b - a
  <2>1. middle \subseteq a .. b - 1
    <3> SUFFICES ASSUME NEW k \in X, a <= k, k < b
                 PROVE  k \in a .. b - 1
      OBVIOUS
    <3>1. k \in Int
      OBVIOUS
    <3> QED
      BY <3>1
  <2>2. IsFiniteSet(a .. b - 1) /\ Cardinality(a .. b - 1) = b - a
    <3>1. b - 1 \in Int
      OBVIOUS
    <3>2. /\ IsFiniteSet(a .. b - 1)
          /\ Cardinality(a .. b - 1) = IF a > b - 1 THEN 0 ELSE (b - 1) - a + 1
      BY <3>1, FS_Interval
    <3> QED
      BY <3>2
  <2> HIDE DEF middle
  <2> QED
    BY <2>1, <2>2, FS_Subset
<1>6. Below(X, a) = Cardinality(lower) /\ Below(X, b) = Cardinality(lower \cup middle)
  BY <1>3 DEF Below
<1> QED
  BY <1>2, <1>4, <1>5, <1>6

LEMMA BelowGrows ==
  ASSUME NEW X, IsFiniteSet(X), X \subseteq Int, NEW a \in Int, NEW b \in Int, a <= b
  PROVE  /\ Below(X, a) \in Nat /\ Below(X, b) \in Nat
         /\ Below(X, a) <= Below(X, b) /\ Below(X, b) <= Below(X, a) + (b - a)
<1> DEFINE between == Cardinality({k \in X : a <= k /\ k < b})
<1>1. Below(X, a) \in Nat /\ Below(X, b) = Below(X, a) + between /\ between \in 0 .. b - a
  BY ZenonT(60), BelowSplits
<1> HIDE DEF between
<1> QED
  BY <1>1

\* Nothing between a and b, or everything.
LEMMA BelowGap ==
  ASSUME NEW X, IsFiniteSet(X), X \subseteq Int, NEW a \in Int, NEW b \in Int, a <= b
  PROVE  /\ (\A k \in X : k < a \/ b <= k) => Below(X, b) = Below(X, a)
         /\ (\A k \in a .. b - 1 : k \in X) => Below(X, b) = Below(X, a) + (b - a)
<1> DEFINE middle == {k \in X : a <= k /\ k < b}
<1>1. Below(X, a) \in Nat /\ Below(X, b) = Below(X, a) + Cardinality(middle)
  BY ZenonT(60), BelowSplits
<1>2. ASSUME \A k \in X : k < a \/ b <= k
      PROVE  Cardinality(middle) = 0
  <2>1. ASSUME NEW k \in X, a <= k, k < b PROVE FALSE
    <3>1. k \in Int
      OBVIOUS
    <3> QED
      BY <1>2, <2>1, <3>1
  <2>2. middle = {}
    BY <2>1
  <2> QED
    BY <2>2, FS_EmptySet
<1>3. ASSUME \A k \in a .. b - 1 : k \in X
      PROVE  Cardinality(middle) = b - a
  <2>1. middle \subseteq a .. b - 1
    <3> SUFFICES ASSUME NEW k \in X, a <= k, k < b
                 PROVE  k \in a .. b - 1
      OBVIOUS
    <3>1. k \in Int
      OBVIOUS
    <3> QED
      BY <3>1
  <2>2. \A k \in a .. b - 1 : k \in X /\ a <= k /\ k < b
    BY <1>3
  <2>3. middle = a .. b - 1
    BY <2>1, <2>2
  <2>4. Cardinality(a .. b - 1) = IF a > b - 1 THEN 0 ELSE (b - 1) - a + 1
    BY FS_Interval
  <2> HIDE DEF middle
  <2> QED
    BY <2>3, <2>4
<1> HIDE DEF middle
<1> QED
  BY <1>1, <1>2, <1>3

\* The positions that go and those that stay add up.
LEMMA BelowComplement ==
  ASSUME NEW len \in Nat, NEW X, X \subseteq 0 .. len - 1, NEW i \in 0 .. len
  PROVE  Below((0 .. len - 1) \ X, i) = i - Below(X, i)
<1> DEFINE gone == {k \in X : k < i}
           kept == {k \in (0 .. len - 1) \ X : k < i}
<1>1. gone \cup kept = 0 .. i - 1 /\ gone \cap kept = {}
  <2>1. \A k : k \in 0 .. i - 1 <=> k \in 0 .. len - 1 /\ k < i
    OBVIOUS
  <2>2. \A k \in gone : k \in 0 .. len - 1
    OBVIOUS
  <2> QED
    BY Zenon, <2>1, <2>2
<1>2. IsFiniteSet(0 .. i - 1) /\ Cardinality(0 .. i - 1) = i
  BY FS_Interval
<1>3. IsFiniteSet(gone) /\ IsFiniteSet(kept)
  BY <1>1, <1>2, FS_Subset
<1>4. Cardinality(gone) \in Nat /\ Cardinality(kept) \in Nat /\ Cardinality({}) = 0
  BY <1>3, FS_CardinalityType, FS_EmptySet
<1>5. Below(X, i) = Cardinality(gone) /\ Below((0 .. len - 1) \ X, i) = Cardinality(kept)
  BY DEF Below
<1> HIDE DEF gone, kept
<1>6. Cardinality(gone \cup kept) =
        Cardinality(gone) + Cardinality(kept) - Cardinality(gone \cap kept)
  BY <1>3, FS_Union
<1>7. Cardinality(gone \cap kept) = 0 /\ Cardinality(gone \cup kept) = i
  BY <1>1, <1>2, <1>4
<1> QED
  BY <1>4, <1>5, <1>6, <1>7

\* Counting up to the end counts all.
LEMMA BelowAll ==
  ASSUME NEW len \in Nat, NEW X, X \subseteq 0 .. len - 1
  PROVE  /\ IsFiniteSet(X) /\ X \subseteq Int
         /\ Cardinality(X) \in Nat
         /\ Below(X, len) = Cardinality(X)
         /\ Below(X, 0) = 0
<1>1. IsFiniteSet(0 .. len - 1)
  BY FS_Interval
<1>2. IsFiniteSet(X)
  BY <1>1, FS_Subset
<1>3. \A k \in X : k \in Int /\ k < len /\ ~(k < 0)
  OBVIOUS
<1>4. {k \in X : k < len} = X /\ {k \in X : k < 0} = {}
  BY <1>3
<1>5. Below(X, len) = Cardinality(X) /\ Below(X, 0) = Cardinality({})
  BY <1>4 DEF Below
<1>6. Cardinality(X) \in Nat /\ Cardinality({}) = 0
  BY <1>2, FS_CardinalityType, FS_EmptySet
<1> QED
  BY <1>2, <1>3, <1>5, <1>6

\* The positions that stay are numbered without gaps, in their order.
LEMMA OriginExists ==
  ASSUME NEW len \in Nat, NEW X, X \subseteq 0 .. len - 1
  PROVE  /\ \A i \in X : Below(X, i) \in 0 .. Cardinality(X) - 1
         /\ \A i, j \in X : Below(X, i) = Below(X, j) => i = j
         /\ \A k \in 0 .. Cardinality(X) - 1 : \E i \in X : Below(X, i) = k
<1> DEFINE n == Cardinality(X)
           f == [i \in X |-> Below(X, i)]
<1>1. IsFiniteSet(X) /\ X \subseteq Int /\ n \in Nat /\ Below(X, len) = n
  BY BelowAll
<1> HIDE DEF n
<1>2. ASSUME NEW i \in X, NEW j \in i + 1 .. len
      PROVE  Below(X, i) \in Nat /\ Below(X, j) \in Nat /\ Below(X, i) < Below(X, j)
  <2>1. i \in Int /\ j \in Int /\ i <= i + 1 /\ i + 1 <= j /\ i + 1 \in Int
    BY <1>1
  <2>2. Below(X, i + 1) = Below(X, i) + 1
    <3>1. \A k \in i .. (i + 1) - 1 : k \in X
      BY <2>1
    <3>2. (i + 1) - i = 1
      BY <2>1
    <3> QED
      BY <1>1, <2>1, <3>1, <3>2, BelowGap
  <2>3. Below(X, i) \in Nat
    BY <1>1, <2>1, BelowSplits
  <2>4. Below(X, j) \in Nat /\ Below(X, i + 1) <= Below(X, j)
    BY <1>1, <2>1, BelowGrows
  <2> QED
    BY <2>1, <2>2, <2>3, <2>4
<1>3. \A i \in X : Below(X, i) \in 0 .. n - 1
  <2> SUFFICES ASSUME NEW i \in X PROVE Below(X, i) \in 0 .. n - 1
    OBVIOUS
  <2>1. len \in i + 1 .. len
    OBVIOUS
  <2>2. Below(X, i) \in Nat /\ Below(X, i) < n
    BY <1>1, <1>2, <2>1
  <2> QED
    BY <1>1, <2>2
<1>4. \A i, j \in X : Below(X, i) = Below(X, j) => i = j
  <2> SUFFICES ASSUME NEW i \in X, NEW j \in X, Below(X, i) = Below(X, j) PROVE i = j
    OBVIOUS
  <2>1. CASE i < j
    <3>1. j \in i + 1 .. len
      BY <2>1
    <3> QED
      BY <1>2, <3>1
  <2>2. CASE j < i
    <3>1. i \in j + 1 .. len
      BY <2>2
    <3> QED
      BY <1>2, <3>1
  <2> QED
    BY <2>1, <2>2
<1>5. ASSUME NEW k \in 0 .. n - 1, \A i \in X : Below(X, i) # k
      PROVE  FALSE
  <2> DEFINE T == (0 .. n - 1) \ {k}
  <2>1. IsFiniteSet(0 .. n - 1) /\ Cardinality(0 .. n - 1) = n
    <3>1. 0 \in Int /\ n - 1 \in Int
      BY <1>1
    <3>2. /\ IsFiniteSet(0 .. n - 1)
          /\ Cardinality(0 .. n - 1) = IF 0 > n - 1 THEN 0 ELSE (n - 1) - 0 + 1
      BY <3>1, FS_Interval
    <3> QED
      BY <1>1, <3>2
  <2>2. IsFiniteSet(T) /\ Cardinality(T) = n - 1
    BY <1>5, <2>1, FS_RemoveElement
  <2>3. f \in [X -> T]
    BY <1>3, <1>5
  <2>4. Cardinality(T) < Cardinality(X)
    BY <1>1, <2>2 DEF n
  <2>5. \E i, j \in X : i # j /\ f[i] = f[j]
    <3> HIDE DEF f, T
    <3> QED
      BY <1>1, <2>2, <2>3, <2>4, FS_PigeonHole
  <2> QED
    BY <1>4, <2>5
<1> QED
  BY <1>3, <1>4, <1>5 DEF n

----------------------------------------------------------------------------
\* The cascade: the windows of S are drained.
Kept(S) == (0 .. Len(extents) - 1) \ Gone(S)

\* The positions that go lie in the table and in no window that stays.
LEMMA GoneFacts ==
  ASSUME Len(extents) \in Nat, SoundWindows(parts, extents), NEW S, S \subseteq DOMAIN parts
  PROVE  /\ Gone(S) \subseteq 0 .. Len(extents) - 1
         /\ \A n \in DOMAIN parts \ S : \A k \in Gone(S) :
              k < parts[n].first \/ parts[n].first + parts[n].num <= k
         /\ \A n \in S : \A k \in Int :
              parts[n].first <= k /\ k < parts[n].first + parts[n].num => k \in Gone(S)
<1>1. /\ \A m \in DOMAIN parts :
           /\ parts[m].first \in Nat /\ parts[m].num \in Nat
           /\ parts[m].first + parts[m].num <= Len(extents)
      /\ \A k, m \in DOMAIN parts : k # m =>
           \/ parts[k].first + parts[k].num <= parts[m].first
           \/ parts[m].first + parts[m].num <= parts[k].first
  BY WindowFacts
<1>2. ASSUME NEW k \in Gone(S)
      PROVE  \E m \in S : /\ k \in Int
                          /\ parts[m].first <= k /\ k < parts[m].first + parts[m].num
  <2>1. PICK m \in S : k \in parts[m].first .. parts[m].first + parts[m].num - 1
    BY <1>2 DEF Gone, Window
  <2>2. parts[m].first \in Nat /\ parts[m].num \in Nat
    BY <1>1
  <2> QED
    BY <2>1, <2>2
<1>3. ASSUME NEW k \in Gone(S)
      PROVE  k \in 0 .. Len(extents) - 1
  <2>1. PICK m \in S : k \in Int /\ parts[m].first <= k /\ k < parts[m].first + parts[m].num
    BY <1>2
  <2>2. /\ parts[m].first \in Nat /\ parts[m].num \in Nat
        /\ parts[m].first + parts[m].num <= Len(extents)
    BY <1>1
  <2> QED
    BY <2>1, <2>2
<1>4. ASSUME NEW n \in DOMAIN parts \ S, NEW k \in Gone(S)
      PROVE  k < parts[n].first \/ parts[n].first + parts[n].num <= k
  <2>1. PICK m \in S : k \in Int /\ parts[m].first <= k /\ k < parts[m].first + parts[m].num
    BY <1>2
  <2>2. /\ parts[m].first \in Nat /\ parts[m].num \in Nat
        /\ parts[n].first \in Nat /\ parts[n].num \in Nat
        /\ \/ parts[m].first + parts[m].num <= parts[n].first
           \/ parts[n].first + parts[n].num <= parts[m].first
    BY <1>1
  <2> QED
    BY <2>1, <2>2
<1>5. ASSUME NEW n \in S, NEW k \in Int,
             parts[n].first <= k, k < parts[n].first + parts[n].num
      PROVE  k \in Gone(S)
  <2>1. parts[n].first \in Nat /\ parts[n].num \in Nat
    BY <1>1
  <2>2. k \in Window(parts[n])
    BY <1>5, <2>1 DEF Window
  <2> QED
    BY <2>2 DEF Gone
<1> QED
  BY <1>3, <1>4, <1>5

\* Counting the positions that stay.
LEMMA KeptFacts ==
  ASSUME Len(extents) \in Nat, SoundWindows(parts, extents), NEW S, S \subseteq DOMAIN parts
  PROVE  /\ Kept(S) \subseteq 0 .. Len(extents) - 1
         /\ IsFiniteSet(Kept(S)) /\ Kept(S) \subseteq Int
         /\ Cardinality(Kept(S)) \in Nat
         /\ Below(Kept(S), Len(extents)) = Cardinality(Kept(S))
         /\ \A n \in DOMAIN parts \ S :
              /\ parts[n].first - Below(Gone(S), parts[n].first) = Below(Kept(S), parts[n].first)
              /\ Below(Kept(S), parts[n].first) + parts[n].num
                   = Below(Kept(S), parts[n].first + parts[n].num)
<1> DEFINE G == Gone(S)
           K == Kept(S)
<1>1. G \subseteq 0 .. Len(extents) - 1
  BY GoneFacts
<1>2. K \subseteq 0 .. Len(extents) - 1
  BY DEF Kept
<1>3. /\ IsFiniteSet(G) /\ G \subseteq Int
      /\ IsFiniteSet(K) /\ K \subseteq Int /\ Cardinality(K) \in Nat
      /\ Below(K, Len(extents)) = Cardinality(K)
  <2> HIDE DEF G, K
  <2> QED
    BY <1>1, <1>2, BelowAll
<1>4. ASSUME NEW i \in 0 .. Len(extents)
      PROVE  Below(K, i) = i - Below(G, i)
  <2> HIDE DEF G
  <2>1. Below((0 .. Len(extents) - 1) \ G, i) = i - Below(G, i)
    BY <1>1, BelowComplement
  <2> QED
    BY <2>1 DEF Kept, G
<1>5. ASSUME NEW n \in DOMAIN parts \ S
      PROVE  /\ parts[n].first - Below(G, parts[n].first) = Below(K, parts[n].first)
             /\ Below(K, parts[n].first) + parts[n].num = Below(K, parts[n].first + parts[n].num)
  <2> DEFINE a == parts[n].first
             b == parts[n].first + parts[n].num
  <2>1. /\ parts[n].first \in Nat /\ parts[n].num \in Nat
        /\ parts[n].first + parts[n].num <= Len(extents)
    BY WindowFacts
  <2>2. a \in 0 .. Len(extents) /\ b \in 0 .. Len(extents) /\ a <= b
    BY <2>1
  <2>3. \A k \in G : k < a \/ b <= k
    BY GoneFacts
  <2>4. Below(K, a) = a - Below(G, a) /\ Below(K, b) = b - Below(G, b)
    BY <1>4, <2>2
  <2>5. Below(G, b) = Below(G, a) /\ Below(G, a) \in Nat
    <3> HIDE DEF a, b, G
    <3>1. a \in Int /\ b \in Int
      BY <2>2
    <3> QED
      BY <1>3, <2>2, <2>3, <3>1, BelowGap, BelowGrows
  <2> HIDE DEF G, K
  <2> QED
    BY <2>1, <2>4, <2>5
<1> QED
  BY <1>2, <1>3, <1>5

LEMMA SameLength ==
  ASSUME NEW m \in Nat, NEW n \in Nat, 1 .. m = 1 .. n
  PROVE  m = n
<1>1. CASE m < n
  <2>1. n \in 1 .. n /\ n \notin 1 .. m
    BY <1>1
  <2> QED
    BY <2>1
<1>2. CASE n < m
  <2>1. m \in 1 .. m /\ m \notin 1 .. n
    BY <1>2
  <2> QED
    BY <2>1
<1> QED
  BY <1>1, <1>2

\* The extents that stay close up, in their order.
LEMMA CompactExtentsSound ==
  ASSUME SoundExtents(extents), SoundWindows(parts, extents), NEW S, S \subseteq DOMAIN parts
  PROVE  /\ SoundExtents(CompactExtents(S))
         /\ Len(CompactExtents(S)) = Cardinality(Kept(S))
<1> DEFINE K == Kept(S)
           n == Cardinality(K)
           Origin(k) == CHOOSE i \in K : Below(K, i) = k
           new == [k \in 1 .. n |-> extents[Origin(k - 1) + 1]]
           f == [k \in 1 .. n |-> Origin(k - 1) + 1]
<1>0. CompactExtents(S) = new
  BY DEF CompactExtents, Kept
<1>1. extents \in Seq(Extent) /\ DOMAIN extents = 1 .. Len(extents) /\ Len(extents) \in Nat
  BY LenProperties DEF SoundExtents
<1>2. K \subseteq 0 .. Len(extents) - 1 /\ n \in Nat
  BY <1>1, KeptFacts
<1> HIDE DEF K
<1>3. \A k \in 0 .. n - 1 : \E i \in K : Below(K, i) = k
  BY <1>1, <1>2, OriginExists
<1> HIDE DEF n
<1>4. \A k \in 1 .. n : Origin(k - 1) \in K /\ Below(K, Origin(k - 1)) = k - 1
  <2> SUFFICES ASSUME NEW k \in 1 .. n
               PROVE  Origin(k - 1) \in K /\ Below(K, Origin(k - 1)) = k - 1
    OBVIOUS
  <2>1. k - 1 \in 0 .. n - 1
    BY <1>2
  <2>2. \E i \in K : Below(K, i) = k - 1
    BY <1>3, <2>1
  <2> QED
    BY <2>2
<1> HIDE DEF Origin
<1>5. f \in [1 .. n -> 1 .. Len(extents)]
  <2>1. ASSUME NEW k \in 1 .. n PROVE Origin(k - 1) + 1 \in 1 .. Len(extents)
    <3>1. Origin(k - 1) \in 0 .. Len(extents) - 1
      BY <1>2, <1>4
    <3> QED
      BY <1>1, <3>1
  <2> QED
    BY <2>1
<1>6. \A i, j \in 1 .. n : f[i] = f[j] => i = j
  <2> SUFFICES ASSUME NEW i \in 1 .. n, NEW j \in 1 .. n, f[i] = f[j]
               PROVE  i = j
    OBVIOUS
  <2>1. Origin(i - 1) + 1 = Origin(j - 1) + 1
    OBVIOUS
  <2>2. Origin(i - 1) \in Int /\ Origin(j - 1) \in Int
    <3>1. Origin(i - 1) \in 0 .. Len(extents) - 1 /\ Origin(j - 1) \in 0 .. Len(extents) - 1
      BY <1>2, <1>4
    <3> QED
      BY <3>1
  <2>3. Origin(i - 1) = Origin(j - 1)
    BY <2>1, <2>2
  <2>4. i - 1 = j - 1
    BY <1>4, <2>3
  <2> QED
    BY <1>2, <2>4
<1>7. \A k \in 1 .. n : new[k] = extents[f[k]]
  OBVIOUS
<1>8. new \in [1 .. n -> Extent]
  <2>1. \A k \in 1 .. n : extents[f[k]] \in Extent
    BY SMTT(30), <1>1, <1>5, ExtentFields
  <2> QED
    BY <2>1
<1> HIDE DEF new, f
<1>9. new \in Seq(Extent)
  BY <1>2, <1>8, SeqDef
<1>10. Len(new) = n
  <2>1. DOMAIN new = 1 .. Len(new) /\ Len(new) \in Nat
    BY <1>9, LenProperties
  <2>2. DOMAIN new = 1 .. n
    BY <1>8
  <2> QED
    BY <1>2, <2>1, <2>2, SameLength
<1>11. \A i \in 1 .. Len(new) :
         /\ new[i].type = extents[f[i]].type
         /\ new[i].data = extents[f[i]].data
         /\ new[i].source = extents[f[i]].source
         /\ new[i].num <= extents[f[i]].num
  <2>1. \A i \in 1 .. n : extents[f[i]].num \in Nat
    BY <1>1, <1>5, ExtentFields
  <2> QED
    BY <1>7, <1>10, <2>1
<1>12. TableExtentsApart(new)
  BY <1>1, <1>5, <1>6, <1>9, <1>10, <1>11, ApartInherited DEF SoundExtents
<1>13. TableExtentsFilled(new)
  <2>1. DOMAIN new = 1 .. n
    BY <1>8
  <2> QED
    BY <1>1, <1>5, <1>7, <2>1 DEF SoundExtents, TableExtentsFilled
<1> QED
  BY <1>0, <1>9, <1>10, <1>12, <1>13 DEF SoundExtents, n, K

\* ... and the windows that stay follow their extents.
LEMMA CompactWindowsSound ==
  ASSUME SoundExtents(extents), SoundWindows(parts, extents), NEW S, S \subseteq DOMAIN parts
  PROVE  SoundWindows(CompactParts(S), CompactExtents(S))
<1> DEFINE K == Kept(S)
           q == CompactParts(S)
           new == CompactExtents(S)
<1>1. Len(extents) \in Nat
  BY LenProperties DEF SoundExtents
<1>2. Len(new) = Cardinality(K)
  BY CompactExtentsSound
<1>3. /\ K \subseteq 0 .. Len(extents) - 1 /\ IsFiniteSet(K) /\ K \subseteq Int
      /\ Cardinality(K) \in Nat /\ Below(K, Len(extents)) = Cardinality(K)
      /\ \A m \in DOMAIN parts \ S :
           /\ parts[m].first - Below(Gone(S), parts[m].first) = Below(K, parts[m].first)
           /\ Below(K, parts[m].first) + parts[m].num = Below(K, parts[m].first + parts[m].num)
  BY <1>1, KeptFacts
<1>4. /\ \A m \in DOMAIN parts :
           /\ parts[m] \in Partition
           /\ parts[m].first \in Nat /\ parts[m].num \in Nat
           /\ parts[m].first + parts[m].num <= Len(extents)
      /\ \A k, m \in DOMAIN parts : k # m =>
           \/ parts[k].first + parts[k].num <= parts[m].first
           \/ parts[m].first + parts[m].num <= parts[k].first
      /\ \A k \in 0 .. Len(extents) - 1 : \E m \in DOMAIN parts :
           parts[m].first <= k /\ k < parts[m].first + parts[m].num
  BY <1>1, WindowFacts
<1>5. /\ DOMAIN q = DOMAIN parts \ S
      /\ \A m \in DOMAIN parts \ S :
           q[m] = [parts[m] EXCEPT !.first = parts[m].first - Below(Gone(S), parts[m].first)]
  BY DEF CompactParts
<1> HIDE DEF K, q, new
<1>6. ASSUME NEW a \in Nat, NEW b \in Nat, a <= b
      PROVE  Below(K, a) \in Nat /\ Below(K, b) \in Nat /\ Below(K, a) <= Below(K, b)
  <2>1. a \in Int /\ b \in Int
    OBVIOUS
  <2> QED
    BY <1>3, <1>6, <2>1, BelowGrows
<1>7. ASSUME NEW m \in DOMAIN parts \ S
      PROVE  /\ q[m] \in Partition
             /\ q[m].first \in Nat /\ q[m].num \in Nat
             /\ q[m].first = Below(K, parts[m].first)
             /\ q[m].first + q[m].num = Below(K, parts[m].first + parts[m].num)
             /\ q[m].group = parts[m].group
  <2>1. /\ parts[m] \in Partition /\ parts[m].first \in Nat /\ parts[m].num \in Nat
    BY <1>4
  <2>2. Below(K, parts[m].first) \in Nat
    BY <1>6, <2>1
  <2>3. q[m] = [parts[m] EXCEPT !.first = Below(K, parts[m].first)]
    BY <1>3, <1>5
  <2>4. /\ q[m] \in Partition
        /\ q[m].first = Below(K, parts[m].first) /\ q[m].num = parts[m].num
        /\ q[m].group = parts[m].group
    BY <2>1, <2>2, <2>3 DEF Partition
  <2>5. Below(K, parts[m].first) + parts[m].num = Below(K, parts[m].first + parts[m].num)
    BY <1>3
  <2> QED
    BY <2>1, <2>2, <2>4, <2>5
<1>8. ASSUME NEW m \in DOMAIN q
      PROVE  q[m] \in Partition /\ q[m].first + q[m].num <= Len(new)
  <2>1. /\ parts[m].first + parts[m].num \in Nat
        /\ parts[m].first + parts[m].num <= Len(extents)
    BY <1>4, <1>5
  <2>2. Below(K, parts[m].first + parts[m].num) <= Below(K, Len(extents))
    BY <1>1, <1>6, <2>1
  <2> QED
    BY <1>2, <1>3, <1>5, <1>7, <2>2
<1>9. ASSUME NEW k \in DOMAIN q, NEW m \in DOMAIN q, k # m
      PROVE  q[k].first + q[k].num <= q[m].first \/ q[m].first + q[m].num <= q[k].first
  <2>1. /\ k \in DOMAIN parts \ S /\ m \in DOMAIN parts \ S
        /\ parts[k].first \in Nat /\ parts[k].first + parts[k].num \in Nat
        /\ parts[m].first \in Nat /\ parts[m].first + parts[m].num \in Nat
    BY <1>4, <1>5
  <2>2. CASE parts[k].first + parts[k].num <= parts[m].first
    <3>1. Below(K, parts[k].first + parts[k].num) <= Below(K, parts[m].first)
      BY <1>6, <2>1, <2>2
    <3> QED
      BY <1>7, <2>1, <3>1
  <2>3. CASE parts[m].first + parts[m].num <= parts[k].first
    <3>1. Below(K, parts[m].first + parts[m].num) <= Below(K, parts[k].first)
      BY <1>6, <2>1, <2>3
    <3> QED
      BY <1>7, <2>1, <3>1
  <2> QED
    BY <1>4, <1>9, <2>1, <2>2, <2>3
<1>10. ASSUME NEW k \in 0 .. Len(new) - 1
       PROVE  \E m \in DOMAIN q : q[m].first <= k /\ k < q[m].first + q[m].num
  <2>1. PICK i \in K : Below(K, i) = k
    BY <1>1, <1>2, <1>3, OriginExists
  <2>2. i \in 0 .. Len(extents) - 1 /\ i \notin Gone(S)
    BY <1>3 DEF K, Kept
  <2>3. PICK m \in DOMAIN parts :
          parts[m].first <= i /\ i < parts[m].first + parts[m].num
    BY <1>4, <2>2
  <2>4. m \in DOMAIN parts \ S
    BY <1>1, <2>2, <2>3, GoneFacts
  <2>5. /\ i \in Nat /\ i + 1 \in Nat /\ parts[m].first \in Nat
        /\ parts[m].first + parts[m].num \in Nat
        /\ i + 1 <= parts[m].first + parts[m].num
    BY <1>4, <2>2, <2>3
  <2>6. Below(K, i + 1) = Below(K, i) + 1
    <3>1. \A j \in i .. (i + 1) - 1 : j \in K
      BY <2>5
    <3>2. (i + 1) - i = 1 /\ i \in Int /\ i + 1 \in Int /\ i <= i + 1
      BY <2>5
    <3> QED
      <4> DEFINE j == i + 1
      <4>1. j \in Int /\ i \in Int /\ i <= j /\ j - i = 1 /\ \A x \in i .. j - 1 : x \in K
        BY <3>1, <3>2
      <4>2. IsFiniteSet(K) /\ K \subseteq Int
        BY <1>3
      <4> HIDE DEF j, K
      <4>3. Below(K, j) = Below(K, i) + (j - i)
        BY <4>1, <4>2, BelowGap
      <4> QED
        BY <4>1, <4>3 DEF j
  <2>7. /\ Below(K, parts[m].first) <= Below(K, i)
        /\ Below(K, i + 1) <= Below(K, parts[m].first + parts[m].num)
        /\ Below(K, i) \in Nat /\ Below(K, parts[m].first) \in Nat
        /\ Below(K, parts[m].first + parts[m].num) \in Nat
    BY <1>6, <2>3, <2>5
  <2>8. q[m].first <= k /\ k < q[m].first + q[m].num
    BY <1>7, <2>1, <2>4, <2>6, <2>7
  <2> QED
    BY <1>5, <2>4, <2>8
<1>11. Len(new) \in Nat
  BY <1>2, <1>3
<1> QED
  BY <1>8, <1>9, <1>10, <1>11, WindowsPointwise DEF q, new

----------------------------------------------------------------------------
\* The three tables together.  The inductive invariant is that the table is
\* sound: windows, extents and their ownership go together, because what one
\* edit relies on another has to keep.  Draining a window leaves no orphan
\* because the windows were apart; an extent can grow in place because no
\* extent is empty.
IInv == SoundTable(parts, extents, groups) /\ forced \in BOOLEAN

LEMMA SoundTableIs ==
  ASSUME NEW prts, NEW exts, NEW grps
  PROVE  SoundTable(prts, exts, grps) <=>
           /\ SoundExtents(exts) /\ SoundWindows(prts, exts)
           /\ DOMAIN prts \subseteq Names /\ grps \in Seq(Group)
           /\ \A n \in DOMAIN prts : prts[n].group < Len(grps)
  BY DEF SoundTable, SoundExtents, SoundWindows, TableTyped

LEMMA InvFacts ==
  ASSUME IInv
  PROVE  /\ SoundExtents(extents) /\ SoundWindows(parts, extents)
         /\ extents \in Seq(Extent) /\ Len(extents) \in Nat /\ DOMAIN extents = 1 .. Len(extents)
         /\ DOMAIN parts \subseteq Names
         /\ groups \in Seq(Group) /\ Len(groups) \in Nat /\ DOMAIN groups = 1 .. Len(groups)
         /\ \A n \in DOMAIN parts :
              /\ parts[n] \in Partition
              /\ parts[n].first \in Nat /\ parts[n].num \in Nat
              /\ parts[n].first + parts[n].num <= Len(extents)
              /\ parts[n].group \in 0 .. Len(groups) - 1
<1>1. /\ SoundExtents(extents) /\ SoundWindows(parts, extents)
      /\ DOMAIN parts \subseteq Names /\ groups \in Seq(Group)
      /\ \A n \in DOMAIN parts : parts[n].group < Len(groups)
  BY SoundTableIs DEF IInv
<1>2. extents \in Seq(Extent)
  BY <1>1 DEF SoundExtents
<1>3. /\ Len(extents) \in Nat /\ DOMAIN extents = 1 .. Len(extents)
      /\ Len(groups) \in Nat /\ DOMAIN groups = 1 .. Len(groups)
  BY <1>1, <1>2, LenProperties
<1>4. \A n \in DOMAIN parts :
        /\ parts[n] \in Partition
        /\ parts[n].first \in Nat /\ parts[n].num \in Nat
        /\ parts[n].first + parts[n].num <= Len(extents)
  BY <1>1, <1>3, WindowFacts
<1>5. \A n \in DOMAIN parts : parts[n].group \in 0 .. Len(groups) - 1
  <2>1. \A n \in DOMAIN parts : parts[n].group \in Nat
    BY <1>4 DEF Partition
  <2> QED
    BY <1>1, <1>3, <2>1
<1> QED
  BY <1>1, <1>2, <1>3, <1>4, <1>5

LEMMA WriteSound ==
  ASSUME NEW prts, NEW exts, NEW grps, WriteMetadata(prts, exts, grps),
         SoundExtents(exts), SoundWindows(prts, exts),
         DOMAIN prts \subseteq Names, grps \in Seq(Group),
         \A n \in DOMAIN prts : prts[n].group < Len(grps)
  PROVE  SoundTable(parts', extents', groups')
<1>1. SoundTable(prts, exts, grps)
  BY SoundTableIs
<1> QED
  BY <1>1 DEF WriteMetadata

\* Whether --force was used stays a Boolean.
LEMMA ChargeType ==
  ASSUME forced \in BOOLEAN, NEW ok, NEW force \in BOOLEAN, Charge(ok, force)
  PROVE  forced' \in BOOLEAN
BY Zenon DEF Charge

\* add and create, on the group table they end with.
LEMMA PlaceSound ==
  ASSUME IInv, NEW n \in Names, n \notin DOMAIN parts,
         NEW grps \in Seq(Group), Len(groups) <= Len(grps), NEW i \in 0 .. Len(grps) - 1,
         NEW needed \in Nat \ {0}, NEW allowed, allowed \subseteq DeviceIndices(Devs),
         NEW force \in BOOLEAN, Place(n, i, grps, needed, allowed, force)
  PROVE  IInv'
<1> DEFINE p == [first |-> Len(extents), num |-> 1, group |-> i]
<1>1. PICK d \in allowed : \E s \in FreeStarts(extents, Devs, d, needed) :
        WriteMetadata(With(parts, n, p), Append(extents, LinearExtent(d, s, needed)), grps)
  BY DEF Place
<1>2. PICK s \in FreeStarts(extents, Devs, d, needed) :
        WriteMetadata(With(parts, n, p), Append(extents, LinearExtent(d, s, needed)), grps)
  BY <1>1
<1> DEFINE new == Append(extents, LinearExtent(d, s, needed))
           q == With(parts, n, p)
<1>3. SoundExtents(new) /\ Len(new) = Len(extents) + 1
  BY <1>2, InvFacts, AppendSound
<1>4. p \in Partition /\ p.first = Len(extents) /\ p.num = 1 /\ p.group = i
  BY InvFacts DEF Partition
<1>5. SoundWindows(q, new)
  <2> HIDE DEF p, new
  <2> QED
    BY <1>3, <1>4, InvFacts, WindowAtEnd
<1>6. DOMAIN q \subseteq Names
  BY InvFacts DEF With
<1>7. \A m \in DOMAIN q : q[m].group < Len(grps)
  <2>1. Len(grps) \in Nat
    BY LenProperties
  <2>2. \A m \in DOMAIN parts : parts[m].group < Len(grps)
    BY <2>1, InvFacts
  <2> HIDE DEF p
  <2> QED
    BY <1>4, <2>1, <2>2 DEF With
<1> HIDE DEF q, new
<1>8. SoundTable(parts', extents', groups')
  BY <1>2, <1>3, <1>5, <1>6, <1>7, WriteSound DEF q, new
<1>9. forced' \in BOOLEAN
  BY Zenon, ChargeType DEF Place, IInv
<1> QED
  BY <1>8, <1>9 DEF IInv

LEMMA AddSound ==
  ASSUME IInv, NEW n \in Names, NEW i \in GroupIndices, NEW needed \in Requests,
         NEW bound \in SUBSET (DeviceIndices(Devs) \ {0}), NEW force \in BOOLEAN,
         Add(n, i, needed, bound, force)
  PROVE  IInv'
<1>1. needed \in Nat \ {0}
  BY SizesAssumption DEF Requests
<1>2. 0 \in DeviceIndices(Devs)
  BY DevicesAssumption, EmptySeq DEF DeviceIndices
<1>3. /\ n \notin DOMAIN parts /\ i \in 0 .. Len(groups) - 1
      /\ Place(n, i, groups, needed, {0} \cup bound, force)
  BY DEF Add, GroupIndices
<1> QED
  BY <1>1, <1>2, <1>3, InvFacts, PlaceSound

\* The group table of create.
LEMMA GroupsForType ==
  ASSUME IInv, NEW g \in NewGroups, NEW sizes \in GroupSizeOpts(g)
  PROVE  /\ GroupsFor(g, sizes) \in Seq(Group)
         /\ Len(groups) <= Len(GroupsFor(g, sizes))
         /\ DOMAIN GroupsFor(g, sizes) = 1 .. Len(GroupsFor(g, sizes))
         /\ Len(GroupsFor(g, sizes)) \in Nat
<1>1. CASE HasGroup(groups, g) \/ sizes = {}
  BY <1>1, InvFacts DEF GroupsFor
<1>2. CASE ~(HasGroup(groups, g) \/ sizes = {})
  <2>1. PICK s \in GroupSizes : sizes = {s}
    BY <1>2 DEF GroupSizeOpts
  <2>2. (CHOOSE x \in sizes : TRUE) \in Nat
    BY <2>1, SizesAssumption
  <2> DEFINE grp == [name |-> g, max |-> CHOOSE x \in sizes : TRUE]
  <2>3. grp \in Group
    BY <2>2, NamesAssumption DEF Group
  <2>4. GroupsFor(g, sizes) = Append(groups, grp)
    BY <1>2 DEF GroupsFor
  <2> HIDE DEF grp
  <2>5. Append(groups, grp) \in Seq(Group) /\ Len(Append(groups, grp)) = Len(groups) + 1
    BY <2>3, InvFacts, AppendProperties
  <2> QED
    BY <2>4, <2>5, InvFacts, LenProperties
<1> QED
  BY <1>1, <1>2

LEMMA CreateSound ==
  ASSUME IInv, NEW n \in Names, NEW g \in NewGroups, NEW sizes \in GroupSizeOpts(g),
         NEW needed \in Requests, NEW force \in BOOLEAN,
         Create(n, g, sizes, needed, force)
  PROVE  IInv'
<1> DEFINE grps == GroupsFor(g, sizes)
<1>1. needed \in Nat \ {0}
  BY SizesAssumption DEF Requests
<1>2. PICK i \in DOMAIN grps : Place(n, i - 1, grps, needed, DeviceIndices(Devs), force)
  BY DEF Create
<1>3. n \notin DOMAIN parts
  BY DEF Create
<1>4. /\ grps \in Seq(Group) /\ Len(groups) <= Len(grps) /\ Len(grps) \in Nat
      /\ DOMAIN grps = 1 .. Len(grps)
  BY GroupsForType
<1> HIDE DEF grps
<1>5. i - 1 \in 0 .. Len(grps) - 1
  BY <1>4
<1> QED
  BY <1>1, <1>2, <1>3, <1>4, <1>5, PlaceSound

LEMMA CreateEmptySound ==
  ASSUME IInv, NEW n \in Names, NEW g \in NewGroups, NEW sizes \in GroupSizeOpts(g),
         CreateEmpty(n, g, sizes)
  PROVE  IInv'
<1> DEFINE grps == GroupsFor(g, sizes)
           P(i) == [first |-> Len(extents), num |-> 0, group |-> i - 1]
<1>1. PICK i \in DOMAIN grps : WriteMetadata(With(parts, n, P(i)), extents, grps)
  BY DEF CreateEmpty
<1>2. n \notin DOMAIN parts /\ forced' = forced
  BY DEF CreateEmpty
<1>3. /\ grps \in Seq(Group) /\ Len(groups) <= Len(grps) /\ Len(grps) \in Nat
      /\ DOMAIN grps = 1 .. Len(grps)
  BY GroupsForType
<1> HIDE DEF grps
<1> DEFINE p == P(i)
           q == With(parts, n, p)
<1>4. p \in Partition /\ p.first = Len(extents) /\ p.num = 0 /\ p.group = i - 1
  BY <1>3, InvFacts DEF Partition
<1>5. SoundWindows(q, extents)
  <2> HIDE DEF p
  <2>1. Len(extents) = Len(extents) + p.num
    BY <1>4, InvFacts
  <2> QED
    BY <1>2, <1>4, <2>1, InvFacts, WindowAtEnd
<1>6. DOMAIN q \subseteq Names
  BY InvFacts DEF With
<1>7. \A m \in DOMAIN q : q[m].group < Len(grps)
  <2>1. \A m \in DOMAIN parts : parts[m].group < Len(grps)
    BY <1>3, InvFacts
  <2> HIDE DEF p
  <2> QED
    BY <1>3, <1>4, <2>1 DEF With
<1>8. SoundTable(parts', extents', groups')
  <2>1. WriteMetadata(q, extents, grps)
    BY <1>1
  <2> HIDE DEF q
  <2> QED
    BY <1>3, <1>5, <1>6, <1>7, <2>1, InvFacts, WriteSound
<1> QED
  BY <1>2, <1>8 DEF IInv

\* resize.
LEMMA GrowFreshSound ==
  ASSUME IInv, NEW n \in DOMAIN parts, NEW extra \in Requests, NEW force \in BOOLEAN,
         GrowFresh(n, extra, force)
  PROVE  IInv'
<1> DEFINE p == [parts[n] EXCEPT !.first = Len(extents), !.num = 1]
           q == With(parts, n, p)
<1>1. extra \in Nat \ {0}
  BY SizesAssumption DEF Requests
<1>2. PICK d \in DeviceIndices(Devs) : \E s \in FreeStarts(extents, Devs, d, extra) :
        WriteMetadata(q, Append(extents, LinearExtent(d, s, extra)), groups)
  BY DEF GrowFresh
<1>3. PICK s \in FreeStarts(extents, Devs, d, extra) :
        WriteMetadata(q, Append(extents, LinearExtent(d, s, extra)), groups)
  BY <1>2
<1> DEFINE new == Append(extents, LinearExtent(d, s, extra))
<1>4. SoundExtents(new) /\ Len(new) = Len(extents) + 1
  BY <1>1, <1>3, InvFacts, AppendSound
<1>5. p \in Partition /\ p.first = Len(extents) /\ p.num = 1 /\ p.group = parts[n].group
  BY InvFacts DEF Partition
<1>6. parts[n].num = 0
  BY DEF GrowFresh
<1>7. SoundWindows(q, new)
  <2> HIDE DEF p, new
  <2> QED
    BY <1>4, <1>5, <1>6, InvFacts, WindowAtEnd
<1>8. DOMAIN q \subseteq Names /\ \A m \in DOMAIN q : q[m].group < Len(groups)
  <2>1. \A m \in DOMAIN parts : parts[m].group < Len(groups)
    BY InvFacts
  <2> HIDE DEF p
  <2> QED
    BY <1>5, <2>1, InvFacts DEF With
<1> HIDE DEF q, new
<1>9. SoundTable(parts', extents', groups')
  BY <1>3, <1>4, <1>7, <1>8, InvFacts, WriteSound DEF new
<1>10. forced' \in BOOLEAN
  BY Zenon, ChargeType DEF GrowFresh, ChargeResize, IInv
<1> QED
  BY <1>9, <1>10 DEF IInv

\* The last extent of a window that is not empty.
LEMMA LastExtentFacts ==
  ASSUME IInv, NEW n \in DOMAIN parts, parts[n].num > 0
  PROVE  /\ parts[n].first + parts[n].num \in 1 .. Len(extents)
         /\ LastExtent(parts[n]) = extents[parts[n].first + parts[n].num]
         /\ LastExtent(parts[n]).source \in DeviceIndices(Devs)
<1>1. parts[n].first + parts[n].num \in 1 .. Len(extents)
  BY InvFacts
<1> QED
  BY <1>1, InvFacts, ExtentFields DEF LastExtent

LEMMA GrowInPlaceSound ==
  ASSUME IInv, NEW n \in DOMAIN parts, NEW extra \in Requests, NEW force \in BOOLEAN,
         GrowInPlace(n, extra, force)
  PROVE  IInv'
<1> DEFINE at == parts[n].first + parts[n].num
           new == [extents EXCEPT ![at] = [extents[at] EXCEPT !.num = @ + extra]]
<1>1. extra \in Nat
  BY SizesAssumption DEF Requests
<1>2. /\ parts[n].num > 0
      /\ LastExtent(parts[n]).type = Linear
      /\ RoomBehind(parts[n], extra)
      /\ WriteMetadata(parts, new, groups)
  BY DEF GrowInPlace, LastExtent
<1>3. /\ at \in 1 .. Len(extents)
      /\ extents[at].type = Linear
      /\ IsRangeFree(extents, Devs, extents[at].source, End(extents[at]), extra)
  BY <1>2, LastExtentFacts DEF RoomBehind
<1>4. SoundExtents(new) /\ Len(new) = Len(extents)
  <2> HIDE DEF at
  <2> QED
    BY <1>1, <1>3, InvFacts, GrowSound
<1>5. SoundWindows(parts, new)
  <2> HIDE DEF new
  <2> QED
    BY <1>4, InvFacts DEF SoundWindows, TableWindowsApart, TableOwned
<1> HIDE DEF new
<1>6. SoundTable(parts', extents', groups')
  BY <1>2, <1>4, <1>5, InvFacts, WriteSound
<1>7. forced' \in BOOLEAN
  BY Zenon, ChargeType DEF GrowInPlace, ChargeResize, IInv
<1> QED
  BY <1>6, <1>7 DEF IInv

LEMMA GrowSpliceSound ==
  ASSUME IInv, NEW n \in DOMAIN parts, NEW extra \in Requests, NEW force \in BOOLEAN,
         GrowSplice(n, extra, force)
  PROVE  IInv'
<1> DEFINE at == parts[n].first + parts[n].num
           d == LastExtent(parts[n]).source
           p == [parts[n] EXCEPT !.num = @ + 1]
           q == With(ShiftUp(parts, at), n, p)
<1>1. extra \in Nat \ {0}
  BY SizesAssumption DEF Requests
<1>2. parts[n].num > 0
  BY DEF GrowSplice
<1>3. PICK s \in FreeStarts(extents, Devs, d, extra) :
        WriteMetadata(q, Insert(extents, at, LinearExtent(d, s, extra)), groups)
  BY DEF GrowSplice
<1>4. d \in DeviceIndices(Devs) /\ at \in 0 .. Len(extents)
  BY <1>2, InvFacts, LastExtentFacts
<1> DEFINE new == Insert(extents, at, LinearExtent(d, s, extra))
<1>5. SoundExtents(new) /\ Len(new) = Len(extents) + 1
  <2> HIDE DEF at, d
  <2> QED
    BY <1>1, <1>3, <1>4, InvFacts, InsertSound
<1>6. /\ p \in Partition /\ p.first = parts[n].first /\ p.num = parts[n].num + 1
      /\ p.group = parts[n].group
  BY InvFacts DEF Partition
<1>7. SoundWindows(q, new)
  <2> HIDE DEF p, new
  <2> QED
    BY <1>2, <1>5, <1>6, InvFacts, WindowGrows
<1>8. DOMAIN q \subseteq Names /\ \A m \in DOMAIN q : q[m].group < Len(groups)
  <2>1. \A m \in DOMAIN parts : parts[m].group < Len(groups) /\ parts[m] \in Partition
    BY InvFacts
  <2>2. \A m \in DOMAIN parts : [parts[m] EXCEPT !.first = @ + 1].group = parts[m].group
    BY <2>1 DEF Partition
  <2> HIDE DEF p
  <2> QED
    BY <1>6, <2>1, <2>2, InvFacts DEF With, ShiftUp
<1> HIDE DEF q, new
<1>9. SoundTable(parts', extents', groups')
  BY <1>3, <1>5, <1>7, <1>8, InvFacts, WriteSound DEF new
<1>10. forced' \in BOOLEAN
  BY Zenon, ChargeType DEF GrowSplice, ChargeResize, IInv
<1> QED
  BY <1>9, <1>10 DEF IInv

\* saturating_sub is a subtraction where a window starts behind another.
LEMMA MinusIs ==
  ASSUME NEW a \in Nat, NEW b \in Nat, b <= a
  PROVE  Minus(a, b) = a - b
BY DEF Minus

\* What ShiftDown does to one partition.
Lowered(p, from, less) ==
  IF p.first >= from THEN [p EXCEPT !.first = Minus(@, less)] ELSE p

\* The moves of ShiftDown are those of a window that shrinks.
LEMMA ShiftDownShrinks ==
  ASSUME IInv, NEW n \in DOMAIN parts, NEW j \in 0 .. parts[n].num, NEW from \in Nat,
         from = parts[n].first + parts[n].num
           \/ (j = 0 /\ from = parts[n].first + 1),
         NEW m \in DOMAIN parts, m # n, NEW r, r = Lowered(parts[m], from, parts[n].num - j)
  PROVE  /\ r \in Partition
         /\ r.num = parts[m].num /\ r.group = parts[m].group
         /\ r.first = IF parts[m].first >= parts[n].first + parts[n].num
                      THEN parts[m].first - (parts[n].num - j) ELSE parts[m].first
<1> DEFINE less == parts[n].num - j
           at == parts[n].first + parts[n].num
<1>1. /\ parts[m] \in Partition /\ parts[m].first \in Nat /\ parts[m].num \in Nat
      /\ parts[n].first \in Nat /\ parts[n].num \in Nat
      /\ \/ parts[m].first + parts[m].num <= parts[n].first
         \/ at <= parts[m].first
  BY InvFacts, WindowFacts
<1>2. less \in Nat /\ less <= parts[n].num
  BY <1>1
<1>3. CASE parts[m].first >= at
  <2>1. less <= parts[m].first
    BY <1>1, <1>2, <1>3
  <2>2. Minus(parts[m].first, less) = parts[m].first - less /\ parts[m].first - less \in Nat
    <3> HIDE DEF less
    <3>1. Minus(parts[m].first, less) = parts[m].first - less
      BY Zenon, <1>1, <1>2, <2>1, MinusIs
    <3>2. parts[m].first - less \in Nat
      BY <1>1, <1>2, <2>1
    <3> QED
      BY <3>1, <3>2
  <2>3. CASE parts[m].first >= from
    <3>1. r = [parts[m] EXCEPT !.first = parts[m].first - less]
      BY <2>2, <2>3 DEF Lowered
    <3> HIDE DEF less
    <3> QED
      BY <1>1, <1>3, <2>2, <3>1 DEF Partition, less
  <2>4. CASE ~(parts[m].first >= from)
    <3>1. parts[n].num = 0 /\ less = 0
      BY <1>1, <1>3, <2>4
    <3>2. r = parts[m]
      BY <2>4 DEF Lowered
    <3> QED
      BY <1>1, <1>3, <3>1, <3>2
  <2> QED
    BY <2>3, <2>4
<1>4. CASE ~(parts[m].first >= at)
  <2>1. parts[m].first < from
    BY <1>1, <1>4
  <2>2. r = parts[m]
    BY <1>1, <2>1 DEF Lowered
  <2> QED
    BY <1>1, <1>4, <2>2
<1> QED
  BY <1>3, <1>4

\* What the edits of resize and remove do to the windows, n drained to j extents.
LEMMA ShiftedShrunk ==
  ASSUME IInv, NEW n \in DOMAIN parts, NEW j \in 0 .. parts[n].num, NEW from \in Nat,
         from = parts[n].first + parts[n].num
           \/ (j = 0 /\ from = parts[n].first + 1),
         NEW q,
         DOMAIN q = DOMAIN parts \/ (DOMAIN q = DOMAIN parts \ {n} /\ j = 0),
         n \in DOMAIN q => q[n] = [parts[n] EXCEPT !.num = j],
         \A m \in DOMAIN parts : m # n =>
           q[m] = Lowered(parts[m], from, parts[n].num - j)
  PROVE  /\ Shrunk(parts, n, j, q)
         /\ DOMAIN q \subseteq Names
         /\ \A m \in DOMAIN q : q[m].group < Len(groups)
<1>1. /\ parts[n] \in Partition /\ parts[n].num \in Nat
      /\ DOMAIN parts \subseteq Names
      /\ \A m \in DOMAIN parts : parts[m].group < Len(groups)
  BY InvFacts
<1>2. j \in Nat
  BY <1>1
<1>3. n \in DOMAIN q =>
        /\ q[n] \in Partition /\ q[n].first = parts[n].first /\ q[n].num = j
        /\ q[n].group = parts[n].group
  BY <1>1, <1>2 DEF Partition
<1>4. ASSUME NEW m \in DOMAIN parts, m # n
      PROVE  /\ q[m] \in Partition
             /\ q[m].num = parts[m].num /\ q[m].group = parts[m].group
             /\ q[m].first = IF parts[m].first >= parts[n].first + parts[n].num
                             THEN parts[m].first - (parts[n].num - j) ELSE parts[m].first
  <2>1. q[m] = Lowered(parts[m], from, parts[n].num - j)
    BY <1>4
  <2> QED
    BY <1>4, <2>1, ShiftDownShrinks
<1>5. Shrunk(parts, n, j, q)
  BY Zenon, <1>3, <1>4 DEF Shrunk
<1>6. \A m \in DOMAIN q : m \in DOMAIN parts /\ q[m].group = parts[m].group
  BY Zenon, <1>3, <1>4
<1> QED
  BY Zenon, <1>1, <1>5, <1>6

\* The windows after With(ShiftDown(...), n, p), entry by entry.
LEMMA WithShiftedIs ==
  ASSUME NEW prts, NEW n \in DOMAIN prts, NEW from, NEW less, NEW p
  PROVE  /\ DOMAIN With(ShiftDown(prts, from, less), n, p) = DOMAIN prts
         /\ With(ShiftDown(prts, from, less), n, p)[n] = p
         /\ \A m \in DOMAIN prts : m # n =>
              With(ShiftDown(prts, from, less), n, p)[m] = Lowered(prts[m], from, less)
  BY DEF With, ShiftDown, Lowered

LEMMA ShrinkToZeroSound ==
  ASSUME IInv, NEW n \in DOMAIN parts, NEW force \in BOOLEAN, ShrinkToZero(n, force)
  PROVE  IInv'
<1> DEFINE num == parts[n].num
           from == parts[n].first + 1
           p == [parts[n] EXCEPT !.num = 0]
           q == With(ShiftDown(parts, from, num), n, p)
           new == Drain(extents, parts[n].first, num)
<1>1. WriteMetadata(q, new, groups)
  BY DEF ShrinkToZero
<1>2. /\ parts[n].first \in Nat /\ num \in Nat /\ parts[n].first + num <= Len(extents)
      /\ from \in Nat /\ 0 \in 0 .. num /\ num - 0 = num
  BY InvFacts
<1>3. SoundExtents(new) /\ Len(new) = Len(extents) - num
  BY <1>2, InvFacts, DrainSound
<1>4. /\ DOMAIN q = DOMAIN parts
      /\ q[n] = p
      /\ \A m \in DOMAIN parts : m # n =>
           q[m] = Lowered(parts[m], from, num - 0)
  <2>1. /\ DOMAIN q = DOMAIN parts
        /\ q[n] = p
        /\ \A m \in DOMAIN parts : m # n => q[m] = Lowered(parts[m], from, num)
    <3> HIDE DEF p, from, num
    <3> QED
      BY WithShiftedIs
  <2> HIDE DEF q
  <2> QED
    BY Zenon, <1>2, <2>1
<1>5. /\ Shrunk(parts, n, 0, q)
      /\ DOMAIN q \subseteq Names /\ \A m \in DOMAIN q : q[m].group < Len(groups)
  <2> HIDE DEF q
  <2> QED
    BY Zenon, <1>2, <1>4, ShiftedShrunk
<1> HIDE DEF q, new
<1>6. SoundWindows(q, new)
  <2>1. Len(new) = Len(extents) - (parts[n].num - 0)
    BY <1>2, <1>3
  <2> QED
    BY Zenon, <1>2, <1>5, <2>1, InvFacts, WindowShrinks
<1>7. SoundTable(parts', extents', groups')
  BY Zenon, <1>1, <1>3, <1>5, <1>6, InvFacts, WriteSound
<1>8. forced' \in BOOLEAN
  BY Zenon, ChargeType DEF ShrinkToZero, ChargeResize, IInv
<1> QED
  BY <1>7, <1>8 DEF IInv

LEMMA ShrinkSound ==
  ASSUME IInv, NEW n \in DOMAIN parts, NEW j \in 1 .. parts[n].num,
         NEW keep \in 1 .. extents[parts[n].first + j].num, NEW force \in BOOLEAN,
         Shrink(n, j, keep, force)
  PROVE  IInv'
<1> DEFINE last == parts[n].first + j
           less == parts[n].num - j
           from == parts[n].first + parts[n].num
           p == [parts[n] EXCEPT !.num = j]
           q == With(ShiftDown(parts, from, less), n, p)
           cut == [extents EXCEPT ![last] = [@ EXCEPT !.num = keep]]
           new == Drain(cut, last, less)
<1>1. WriteMetadata(q, new, groups)
  BY DEF Shrink
<1>2. /\ parts[n].first \in Nat /\ parts[n].num \in Nat /\ from <= Len(extents)
      /\ last \in 1 .. Len(extents) /\ last \in Nat /\ less \in Nat /\ last + less = from
      /\ from \in Nat /\ j \in 0 .. parts[n].num
  BY SMTT(30), InvFacts
<1>3. SoundExtents(cut) /\ Len(cut) = Len(extents)
  <2> HIDE DEF last
  <2>1. keep \in 1 .. extents[last].num
    BY DEF last
  <2> QED
    BY Zenon, <1>2, <2>1, InvFacts, TruncateSound
<1>4. SoundExtents(new) /\ Len(new) = Len(extents) - less
  <2> HIDE DEF cut, last, less
  <2>1. last + less <= Len(cut)
    BY <1>2, <1>3
  <2>2. SoundExtents(new) /\ Len(new) = Len(cut) - less
    BY Zenon, <1>2, <1>3, <2>1, DrainSound
  <2> QED
    BY <1>3, <2>2
<1>5. /\ DOMAIN q = DOMAIN parts
      /\ q[n] = p
      /\ \A m \in DOMAIN parts : m # n =>
           q[m] = Lowered(parts[m], from, less)
  <2> HIDE DEF p, from, less
  <2> QED
    BY WithShiftedIs
<1>6. /\ Shrunk(parts, n, j, q)
      /\ DOMAIN q \subseteq Names /\ \A m \in DOMAIN q : q[m].group < Len(groups)
  <2> HIDE DEF q
  <2> QED
    BY Zenon, <1>2, <1>5, ShiftedShrunk
<1> HIDE DEF q, new
<1>7. SoundWindows(q, new)
  BY Zenon, <1>2, <1>4, <1>6, InvFacts, WindowShrinks
<1>8. SoundTable(parts', extents', groups')
  BY Zenon, <1>1, <1>4, <1>6, <1>7, InvFacts, WriteSound
<1>9. forced' \in BOOLEAN
  BY Zenon, ChargeType DEF Shrink, ChargeResize, IInv
<1> QED
  BY <1>8, <1>9 DEF IInv

\* remove.
LEMMA RemovePartitionSound ==
  ASSUME IInv, NEW n \in DOMAIN parts, RemovePartition(n)
  PROVE  IInv'
<1> DEFINE num == parts[n].num
           from == parts[n].first + 1
           q == ShiftDown(Without(parts, {n}), from, num)
           new == Drain(extents, parts[n].first, num)
<1>1. WriteMetadata(q, new, groups) /\ forced' = forced
  BY DEF RemovePartition
<1>2. /\ parts[n].first \in Nat /\ num \in Nat /\ parts[n].first + num <= Len(extents)
      /\ from \in Nat /\ 0 \in 0 .. num /\ num - 0 = num
  BY InvFacts
<1>3. SoundExtents(new) /\ Len(new) = Len(extents) - num
  BY <1>2, InvFacts, DrainSound
<1>4. /\ DOMAIN q = DOMAIN parts \ {n} /\ n \notin DOMAIN q
      /\ \A m \in DOMAIN parts : m # n =>
           q[m] = Lowered(parts[m], from, num - 0)
  <2>1. /\ DOMAIN q = DOMAIN parts \ {n}
        /\ \A m \in DOMAIN parts : m # n =>
             q[m] = Lowered(parts[m], from, num)
    BY DEF ShiftDown, Without, Lowered
  <2> HIDE DEF q
  <2> QED
    BY Zenon, <1>2, <2>1
<1>5. /\ Shrunk(parts, n, 0, q)
      /\ DOMAIN q \subseteq Names /\ \A m \in DOMAIN q : q[m].group < Len(groups)
  <2> HIDE DEF q
  <2> QED
    BY Zenon, <1>2, <1>4, ShiftedShrunk
<1> HIDE DEF q, new
<1>6. SoundWindows(q, new)
  <2>1. Len(new) = Len(extents) - (parts[n].num - 0)
    BY <1>2, <1>3
  <2> QED
    BY Zenon, <1>2, <1>5, <2>1, InvFacts, WindowShrinks
<1>7. SoundTable(parts', extents', groups')
  BY Zenon, <1>1, <1>3, <1>5, <1>6, InvFacts, WriteSound
<1> QED
  BY <1>1, <1>7 DEF IInv

\* The same windows under other names, or in other groups: entry m of q has the
\* window of entry f[m] of prts.
Carried(prts, q, f) ==
  /\ f \in [DOMAIN q -> DOMAIN prts]
  /\ \A k, m \in DOMAIN q : f[k] = f[m] => k = m
  /\ \A n \in DOMAIN prts : \E m \in DOMAIN q : f[m] = n
  /\ \A m \in DOMAIN q :
       q[m] \in Partition /\ q[m].first = prts[f[m]].first /\ q[m].num = prts[f[m]].num

LEMMA WindowsCarried ==
  ASSUME NEW prts, NEW exts, Len(exts) \in Nat, SoundWindows(prts, exts),
         NEW q, NEW f, Carried(prts, q, f)
  PROVE  SoundWindows(q, exts)
<1>0. /\ f \in [DOMAIN q -> DOMAIN prts]
      /\ \A k, m \in DOMAIN q : f[k] = f[m] => k = m
      /\ \A n \in DOMAIN prts : \E m \in DOMAIN q : f[m] = n
      /\ \A m \in DOMAIN q :
           q[m] \in Partition /\ q[m].first = prts[f[m]].first /\ q[m].num = prts[f[m]].num
  BY DEF Carried
<1>1. /\ \A m \in DOMAIN prts :
           /\ prts[m].first \in Nat /\ prts[m].num \in Nat
           /\ prts[m].first + prts[m].num <= Len(exts)
      /\ \A k, m \in DOMAIN prts : k # m =>
           \/ prts[k].first + prts[k].num <= prts[m].first
           \/ prts[m].first + prts[m].num <= prts[k].first
      /\ \A k \in 0 .. Len(exts) - 1 : \E m \in DOMAIN prts :
           prts[m].first <= k /\ k < prts[m].first + prts[m].num
  BY WindowFacts
<1>2. \A m \in DOMAIN q : q[m] \in Partition /\ q[m].first + q[m].num <= Len(exts)
  BY <1>0, <1>1
<1>3. ASSUME NEW k \in DOMAIN q, NEW m \in DOMAIN q, k # m
      PROVE  q[k].first + q[k].num <= q[m].first \/ q[m].first + q[m].num <= q[k].first
  <2>1. f[k] \in DOMAIN prts /\ f[m] \in DOMAIN prts /\ f[k] # f[m]
    BY <1>0, <1>3
  <2> QED
    BY <1>0, <1>1, <2>1
<1>4. ASSUME NEW k \in 0 .. Len(exts) - 1
      PROVE  \E m \in DOMAIN q : q[m].first <= k /\ k < q[m].first + q[m].num
  <2>1. PICK n \in DOMAIN prts : prts[n].first <= k /\ k < prts[n].first + prts[n].num
    BY <1>1
  <2>2. PICK m \in DOMAIN q : f[m] = n
    BY <1>0
  <2> QED
    BY <1>0, <2>1, <2>2
<1> QED
  BY <1>2, <1>3, <1>4, WindowsPointwise

\* The group table without the entry at position i.
LEMMA DropGroupEntryType ==
  ASSUME IInv, NEW i \in GroupIndices
  PROVE  DropGroupEntry(i) \in Seq(Group) /\ Len(DropGroupEntry(i)) = Len(groups) - 1
<1> DEFINE front == SubSeq(groups, 1, i)
           back == SubSeq(groups, i + 2, Len(groups))
<1>1. /\ groups \in Seq(Group) /\ Len(groups) \in Nat /\ i \in 0 .. Len(groups) - 1
      /\ DOMAIN groups = 1 .. Len(groups)
  BY InvFacts DEF GroupIndices
<1>2. \A k \in 1 .. Len(groups) : groups[k] \in Group
  BY <1>1, ElementOfSeq
<1>3. front \in Seq(Group) /\ Len(front) = i
  <2>1. \A k \in 1 .. i : groups[k] \in Group
    BY <1>1, <1>2
  <2> QED
    BY <1>1, <2>1, SubSeqProperties
<1>4. back \in Seq(Group) /\ Len(back) = Len(groups) - 1 - i
  <2>1. \A k \in i + 2 .. Len(groups) : groups[k] \in Group
    BY <1>1, <1>2
  <2>2. /\ back \in Seq(Group)
        /\ Len(back) = IF i + 2 <= Len(groups) THEN Len(groups) - (i + 2) + 1 ELSE 0
    BY <1>1, <2>1, SubSeqProperties
  <2> HIDE DEF back
  <2>3. CASE i + 2 <= Len(groups)
    BY <1>1, <2>2, <2>3
  <2>4. CASE ~(i + 2 <= Len(groups))
    <3>1. Len(groups) - 1 - i = 0
      <4> DEFINE len == Len(groups)
      <4>1. len \in Nat /\ i \in 0 .. len - 1 /\ ~(i + 2 <= len)
        BY <1>1, <2>4
      <4> HIDE DEF len
      <4>2. len - 1 - i = 0
        BY <4>1
      <4> QED
        BY <4>2 DEF len
    <3>2. back \in Seq(Group) /\ Len(back) = 0
      BY Zenon, <2>2, <2>4
    <3> QED
      BY Zenon, <3>1, <3>2
  <2> QED
    BY <2>3, <2>4
<1> HIDE DEF front, back
<1> DEFINE all == front \o back
<1>5. all \in Seq(Group) /\ Len(all) = Len(front) + Len(back)
  BY <1>3, <1>4, ConcatProperties
<1>6. DropGroupEntry(i) = all
  BY DEF DropGroupEntry, front, back
<1> HIDE DEF all
<1>7. i + (Len(groups) - 1 - i) = Len(groups) - 1
  BY <1>1
<1> QED
  BY Zenon, <1>3, <1>4, <1>5, <1>6, <1>7

\* remove --group, which takes the members along.
LEMMA RemoveGroupSound ==
  ASSUME IInv, NEW i \in GroupIndices, NEW force \in BOOLEAN, RemoveGroup(i, force)
  PROVE  IInv'
<1> DEFINE S == Members(i)
           less == CompactParts(S)
           q == Renumber(less, i)
           new == CompactExtents(S)
<1>1. WriteMetadata(q, new, DropGroupEntry(i)) /\ forced' = forced
  BY DEF RemoveGroup
<1>2. S \subseteq DOMAIN parts
  BY DEF Members
<1>3. SoundExtents(new) /\ SoundWindows(less, new) /\ Len(new) \in Nat
  <2> HIDE DEF S
  <2>1. SoundExtents(new) /\ SoundWindows(less, new)
    BY <1>2, InvFacts, CompactExtentsSound, CompactWindowsSound
  <2> QED
    BY <2>1, LenProperties DEF SoundExtents
<1>4. DropGroupEntry(i) \in Seq(Group) /\ Len(DropGroupEntry(i)) = Len(groups) - 1
  BY DropGroupEntryType
<1>5. /\ DOMAIN less = DOMAIN parts \ S /\ DOMAIN q = DOMAIN less
      /\ \A m \in DOMAIN less : less[m] \in Partition
  <2> HIDE DEF less, new
  <2>1. \A m \in DOMAIN less : less[m] \in Partition
    BY <1>3, WindowFacts
  <2>2. DOMAIN less = DOMAIN parts \ S /\ DOMAIN q = DOMAIN less
    BY DEF less, CompactParts, Renumber
  <2> QED
    BY <2>1, <2>2
<1>6. ASSUME NEW m \in DOMAIN less
      PROVE  less[m].group \in 0 .. Len(groups) - 1 /\ less[m].group # i
  <2>1. m \in DOMAIN parts /\ m \notin S
    BY <1>5
  <2>2. parts[m] \in Partition /\ parts[m].group \in 0 .. Len(groups) - 1
    BY <2>1, InvFacts
  <2>3. parts[m].group # i
    BY <2>1 DEF Members
  <2>4. less[m].group = parts[m].group
    BY <1>6, <2>1, <2>2 DEF CompactParts, Partition
  <2> QED
    BY <2>2, <2>3, <2>4
<1> HIDE DEF less, new
<1>7. ASSUME NEW m \in DOMAIN q
      PROVE  /\ q[m] \in Partition /\ q[m].first = less[m].first /\ q[m].num = less[m].num
             /\ q[m].group < Len(groups) - 1
  <2>1. /\ m \in DOMAIN less /\ less[m] \in Partition
        /\ less[m].group \in 0 .. Len(groups) - 1 /\ less[m].group # i
        /\ i \in 0 .. Len(groups) - 1 /\ Len(groups) \in Nat
    BY <1>5, <1>6, <1>7, InvFacts DEF GroupIndices
  <2>2. q[m] = IF less[m].group > i THEN [less[m] EXCEPT !.group = @ - 1] ELSE less[m]
    BY <2>1 DEF Renumber
  <2>3. CASE less[m].group > i
    <3>1. q[m] = [less[m] EXCEPT !.group = less[m].group - 1]
      BY <2>2, <2>3
    <3>2. less[m].group - 1 \in Nat /\ less[m].group - 1 < Len(groups) - 1
      BY <2>1, <2>3
    <3> QED
      BY <2>1, <3>1, <3>2 DEF Partition
  <2>4. CASE ~(less[m].group > i)
    <3>1. q[m] = less[m]
      BY <2>2, <2>4
    <3>2. less[m].group < Len(groups) - 1
      BY <2>1, <2>4
    <3> QED
      BY <2>1, <3>1, <3>2
  <2> QED
    BY <2>3, <2>4
<1> HIDE DEF q
<1>8. SoundWindows(q, new)
  <2> DEFINE f == [m \in DOMAIN q |-> m]
  <2>1. f \in [DOMAIN q -> DOMAIN less]
    BY <1>5
  <2>2. \A k, m \in DOMAIN q : f[k] = f[m] => k = m
    OBVIOUS
  <2>3. \A n \in DOMAIN less : \E m \in DOMAIN q : f[m] = n
    BY <1>5
  <2>4. \A m \in DOMAIN q :
          q[m] \in Partition /\ q[m].first = less[f[m]].first /\ q[m].num = less[f[m]].num
    BY <1>7
  <2> HIDE DEF f
  <2>5. Carried(less, q, f)
    BY Zenon, <2>1, <2>2, <2>3, <2>4 DEF Carried
  <2> QED
    BY <1>3, <2>5, WindowsCarried
<1>9. DOMAIN q \subseteq Names
  BY <1>5, InvFacts
<1>10. \A m \in DOMAIN q : q[m].group < Len(DropGroupEntry(i))
  BY <1>4, <1>7
<1>11. SoundTable(parts', extents', groups')
  BY Zenon, <1>1, <1>3, <1>4, <1>8, <1>9, <1>10, WriteSound
<1> QED
  BY <1>1, <1>11 DEF IInv

\* rename.
LEMMA RenameSound ==
  ASSUME IInv, NEW n \in DOMAIN parts, NEW m \in Names, Rename(n, m)
  PROVE  IInv'
<1> DEFINE q == With(Without(parts, {n}), m, parts[n])
           f == [k \in DOMAIN q |-> IF k = m THEN n ELSE k]
<1>1. /\ m \notin DOMAIN parts
      /\ WriteMetadata(q, extents, groups) /\ forced' = forced
  BY DEF Rename
<1>2. /\ DOMAIN q = (DOMAIN parts \ {n}) \cup {m}
      /\ \A k \in DOMAIN q : q[k] = parts[f[k]] /\ f[k] \in DOMAIN parts
  BY <1>1 DEF With, Without
<1>3. /\ \A k, l \in DOMAIN q : f[k] = f[l] => k = l
      /\ \A k \in DOMAIN parts : \E l \in DOMAIN q : f[l] = k
  BY <1>1, <1>2
<1>4. f \in [DOMAIN q -> DOMAIN parts]
  BY <1>2
<1> HIDE DEF q, f
<1>5. \A k \in DOMAIN q :
        /\ q[k] \in Partition /\ q[k].first = parts[f[k]].first /\ q[k].num = parts[f[k]].num
        /\ q[k].group < Len(groups)
  BY <1>2, InvFacts
<1>6. SoundWindows(q, extents)
  <2>1. Carried(parts, q, f)
    BY <1>3, <1>4, <1>5 DEF Carried
  <2> QED
    BY <2>1, InvFacts, WindowsCarried
<1>7. DOMAIN q \subseteq Names
  BY <1>2, InvFacts
<1>8. SoundTable(parts', extents', groups')
  BY Zenon, <1>1, <1>5, <1>6, <1>7, InvFacts, WriteSound
<1> QED
  BY <1>1, <1>8 DEF IInv

\* rename --group.
LEMMA RenameGroupSound ==
  ASSUME IInv, NEW i \in GroupIndices, NEW g \in NewGroups, RenameGroup(i, g)
  PROVE  IInv'
<1> DEFINE grp == [groups[i + 1] EXCEPT !.name = g]
           grps == [groups EXCEPT ![i + 1] = grp]
<1>1. WriteMetadata(parts, extents, grps) /\ forced' = forced
  BY DEF RenameGroup
<1>2. groups \in Seq(Group) /\ Len(groups) \in Nat /\ i + 1 \in 1 .. Len(groups)
  BY InvFacts DEF GroupIndices
<1>3. groups[i + 1] \in Group /\ g \in GroupNames
  BY <1>2, ElementOfSeq, NamesAssumption
<1>4. grp \in Group
  BY <1>3 DEF Group
<1>5. grps \in Seq(Group) /\ Len(grps) = Len(groups)
  <2> HIDE DEF grp
  <2> QED
    BY <1>2, <1>4, ExceptSeq
<1> HIDE DEF grps
<1>6. \A m \in DOMAIN parts : parts[m].group < Len(grps)
  BY <1>5, InvFacts
<1>7. SoundTable(parts', extents', groups')
  BY Zenon, <1>1, <1>5, <1>6, InvFacts, WriteSound
<1> QED
  BY <1>1, <1>7 DEF IInv

\* clear-cow.
LEMMA ClearCowSound ==
  ASSUME IInv, ClearCow
  PROVE  IInv'
<1> DEFINE S == CowPartitions
           q == CompactParts(S)
           new == CompactExtents(S)
<1>1. WriteMetadata(q, new, groups) /\ forced' = forced
  BY DEF ClearCow
<1>2. S \subseteq DOMAIN parts
  BY DEF CowPartitions
<1> HIDE DEF S
<1>3. SoundExtents(new) /\ SoundWindows(q, new)
  BY <1>2, InvFacts, CompactExtentsSound, CompactWindowsSound
<1>4. DOMAIN q = DOMAIN parts \ S
  BY DEF CompactParts
<1>5. \A m \in DOMAIN q : q[m].group < Len(groups)
  <2>1. \A m \in DOMAIN q : parts[m] \in Partition /\ parts[m].group < Len(groups)
    BY <1>4, InvFacts
  <2>2. \A m \in DOMAIN q : q[m].group = parts[m].group
    BY <1>4, <2>1 DEF CompactParts, Partition
  <2> QED
    BY <2>1, <2>2
<1>6. DOMAIN q \subseteq Names
  BY <1>4, InvFacts
<1> HIDE DEF q, new
<1>7. SoundTable(parts', extents', groups')
  BY Zenon, <1>1, <1>3, <1>5, <1>6, InvFacts, WriteSound
<1> QED
  BY <1>1, <1>7 DEF IInv

----------------------------------------------------------------------------
LEMMA InitSound ==
  ASSUME Init
  PROVE  IInv
<1>1. PICK t \in InitTables : parts = t.parts /\ extents = t.extents /\ groups = t.groups
  BY DEF Init
<1>2. SoundTable(parts, extents, groups)
  BY <1>1, InitTablesAssumption
<1> QED
  BY <1>2 DEF Init, IInv

LEMMA NextSound ==
  ASSUME IInv, [Next]_vars
  PROVE  IInv'
<1>1. CASE NewPartition
  <2>1. PICK n \in Names, needed \in Requests, force \in BOOLEAN :
          \/ \E i \in GroupIndices, bound \in SUBSET (DeviceIndices(Devs) \ {0}) :
               Add(n, i, needed, bound, force)
          \/ \E g \in NewGroups : \E sizes \in GroupSizeOpts(g) :
               Create(n, g, sizes, needed, force)
    BY <1>1 DEF NewPartition
  <2> QED
    BY <2>1, AddSound, CreateSound
<1>2. CASE \E n \in Names, g \in NewGroups : \E sizes \in GroupSizeOpts(g) :
             CreateEmpty(n, g, sizes)
  BY <1>2, CreateEmptySound
<1>3. CASE Resize
  <2>1. PICK n \in DOMAIN parts, force \in BOOLEAN :
          \/ \E extra \in Requests :
               \/ GrowFresh(n, extra, force)
               \/ GrowInPlace(n, extra, force)
               \/ GrowSplice(n, extra, force)
          \/ ShrinkToZero(n, force)
          \/ \E j \in 1 .. parts[n].num : \E keep \in 1 .. extents[parts[n].first + j].num :
               Shrink(n, j, keep, force)
    BY <1>3 DEF Resize
  <2> QED
    BY <2>1, GrowFreshSound, GrowInPlaceSound, GrowSpliceSound, ShrinkToZeroSound, ShrinkSound
<1>4. CASE \E n \in DOMAIN parts : RemovePartition(n)
  BY <1>4, RemovePartitionSound
<1>5. CASE \E i \in GroupIndices, force \in BOOLEAN : RemoveGroup(i, force)
  BY <1>5, RemoveGroupSound
<1>6. CASE \E n \in DOMAIN parts, m \in Names : Rename(n, m)
  BY <1>6, RenameSound
<1>7. CASE \E i \in GroupIndices, g \in NewGroups : RenameGroup(i, g)
  BY <1>7, RenameGroupSound
<1>8. CASE ClearCow
  BY <1>8, ClearCowSound
<1>9. CASE UNCHANGED vars
  BY <1>9 DEF vars, IInv, SoundTable, TableTyped, TableWindowsApart, TableOwned,
              TableExtentsApart, TableExtentsFilled
<1> QED
  BY <1>1, <1>2, <1>3, <1>4, <1>5, <1>6, <1>7, <1>8, <1>9 DEF Next

\* The table of a slot stays sound through any history of the editing
\* commands: the invariant the four theorems below follow from.
THEOREM SpecSound == Spec => []IInv
<1>1. Init => IInv
  BY InitSound
<1>2. IInv /\ [Next]_vars => IInv'
  BY NextSound
<1> QED
  BY <1>1, <1>2, PTL DEF Spec

\* Every partition keeps a window and a group that the tables can hold: what
\* LpWriter writes, LpParser accepts.
THEOREM SpecTypeOK == Spec => []TypeOK
<1>1. IInv => TypeOK
  BY DEF IInv, SoundTable, TypeOK
<1> QED
  BY <1>1, SpecSound, PTL

\* No sequence of add, create, resize, remove, rename and clear-cow lets one
\* window reach into another or past the extent table: the index arithmetic
\* of the commands is right for tables of any size.
THEOREM SpecWindowsApart == Spec => []WindowsApart
<1>1. IInv => WindowsApart
  BY DEF IInv, SoundTable, WindowsApart
<1> QED
  BY <1>1, SpecSound, PTL

\* No command leaves an extent that no partition owns: the space a removed or
\* shrunk partition held can be allocated again.
THEOREM SpecNoOrphanExtent == Spec => []NoOrphanExtent
<1>1. IInv => NoOrphanExtent
  BY DEF IInv, SoundTable, NoOrphanExtent
<1> QED
  BY <1>1, SpecSound, PTL

\* No two linear extents ever share a sector and none leaves its device: what
\* the allocator finds and what resize grows, truncates and splices never
\* overwrites a neighbour's blocks.
THEOREM SpecExtentsApart == Spec => []ExtentsApart
<1>1. IInv => ExtentsApart
  BY DEF IInv, SoundTable, ExtentsApart
<1> QED
  BY <1>1, SpecSound, PTL

----------------------------------------------------------------------------
(***************************************************************************)
(* The commands of LpTable implement VolumePool: a command changes the     *)
(* volumes it names and no other, hands out only sectors that nobody owns, *)
(* and what a volume keeps it keeps in place.                              *)
(*                                                                         *)
(* A volume is what the extents of a window spell, so it is kept if its    *)
(* window has the extents it had, wherever the window has moved; there is  *)
(* a lemma to say so for each edit of the extent table.  That volumes      *)
(* share nothing, and what a volume that grows or shrinks is, follows by   *)
(* induction over the extents of a window.                                 *)
(*                                                                         *)
(* The second part is about the limits of the groups.  The sectors charged *)
(* to a group are a sum over its members of sums over their windows.  A    *)
(* window that an edit leaves alone keeps its size, and so a group that    *)
(* the edit charges nothing to keeps its total; the group that is charged  *)
(* has just been checked.                                                  *)
(*                                                                         *)
(* The third part is about the loop of the cascade, which the actions of   *)
(* LpTable replace by the compacted table it computes.                     *)
(***************************************************************************)

\* Induction, with a set for the predicate: the first number that is missing
\* would follow one that is not.
LEMMA CountUp ==
  ASSUME NEW T, 0 \in T, \A n \in Nat : n \in T => n + 1 \in T,
         NEW m \in Nat
  PROVE  m \in T
<1> DEFINE X == (0 .. m) \ T
<1>1. SUFFICES ASSUME m \notin T PROVE FALSE
  OBVIOUS
<1>2. X \subseteq 0 .. (m + 1) - 1 /\ m + 1 \in Nat /\ m \in X /\ 0 \notin X
  BY <1>1
<1>3. \A i \in X : i \in Nat \ {0} /\ i - 1 \notin T
  OBVIOUS
<1>4. \A i \in X : i - 1 \in X
  OBVIOUS
<1> HIDE DEF X
<1>5. IsFiniteSet(X) /\ X \subseteq Int /\ Cardinality(X) \in Nat
  BY <1>2, BelowAll
<1>6. Cardinality(X) > 0
  BY <1>2, <1>5, FS_EmptySet
<1>7. PICK i \in X : Below(X, i) = 0
  <2>1. \A k \in 0 .. Cardinality(X) - 1 : \E i \in X : Below(X, i) = k
    BY <1>2, OriginExists
  <2> QED
    BY <1>5, <1>6, <2>1
<1>8. /\ i \in Int /\ i - 1 \in Int /\ i - 1 <= i /\ i - (i - 1) = 1
      /\ \A k \in i - 1 .. i - 1 : k \in X
  BY <1>3, <1>4
<1>9. Below(X, i) = Below(X, i - 1) + 1 /\ Below(X, i - 1) \in Nat
  <2>1. Below(X, i) = Below(X, i - 1) + (i - (i - 1))
    BY <1>5, <1>8, BelowGap
  <2>2. Below(X, i - 1) \in Nat
    BY <1>5, <1>8, BelowSplits
  <2> QED
    BY <1>8, <2>1, <2>2
<1> QED
  BY <1>7, <1>9

----------------------------------------------------------------------------
\* What a window spells.

Places == {<<>>} \cup (Nat \X Nat)
Spelled(exts, first, num) ==
  SeqX!FlattenSeq([k \in 1 .. num |-> SectorsOf(exts[first + k])])

LEMMA PairIsNotHole == \A a, b : <<a, b>> # <<>>
OBVIOUS

\* The sectors of one extent.
LEMMA SectorsFacts ==
  ASSUME NEW e \in Extent
  PROVE  /\ SectorsOf(e) \in Seq(Places)
         /\ Len(SectorsOf(e)) = e.num
         /\ \A k \in 1 .. e.num :
              SectorsOf(e)[k] = IF e.type = Linear THEN <<e.source, e.data + k - 1>> ELSE <<>>
<1>1. e.num \in Nat /\ e.data \in Nat /\ e.source \in Nat
  BY DEF Extent, DeviceIndices
<1> DEFINE w == SectorsOf(e)
<1>2. \A k \in 1 .. e.num :
        w[k] = IF e.type = Linear THEN <<e.source, e.data + k - 1>> ELSE <<>>
  BY DEF SectorsOf
<1>3. w \in [1 .. e.num -> Places]
  <2>1. w = [k \in 1 .. e.num |-> w[k]]
    BY DEF SectorsOf
  <2>2. ASSUME NEW k \in 1 .. e.num PROVE w[k] \in Places
    <3>1. e.data + k - 1 \in Nat
      BY <1>1
    <3>2. <<e.source, e.data + k - 1>> \in Places /\ <<>> \in Places
      BY <1>1, <3>1 DEF Places
    <3> HIDE DEF w
    <3> QED
      BY <1>2, <3>2
  <2> HIDE DEF w
  <2> QED
    BY <2>1, <2>2
<1> HIDE DEF w
<1>4. w \in Seq(Places) /\ Len(w) = e.num
  <2>1. w \in Seq(Places)
    BY <1>1, <1>3, SeqDef
  <2>2. DOMAIN w = 1 .. Len(w) /\ Len(w) \in Nat /\ DOMAIN w = 1 .. e.num
    BY <1>3, <2>1, LenProperties
  <2> QED
    BY <1>1, <2>1, <2>2, SameLength
<1> QED
  BY <1>2, <1>4 DEF w

\* Sequences of sequences, and the rounds in which they are joined.
Joined(s, n, g) ==
  /\ g = [i \in 1 .. n |-> g[i]]
  /\ \A i \in 1 .. n : g[i] = IF i = 1 THEN s[i] ELSE g[i - 1] \o s[i]

LEMMA JoinedExists ==
  ASSUME NEW s, NEW n \in Nat
  PROVE  \E g : Joined(s, n, g)
<1> DEFINE T == {i \in Nat : \E g : Joined(s, i, g)}
<1>1. 0 \in T
  <2> DEFINE g == [i \in 1 .. 0 |-> s]
  <2>1. Joined(s, 0, g)
    BY DEF Joined
  <2> QED
    BY <2>1
<1>2. ASSUME NEW i \in Nat, i \in T PROVE i + 1 \in T
  <2>1. PICK g : Joined(s, i, g)
    BY <1>2
  <2> DEFINE h == [k \in 1 .. i + 1 |->
                     IF k <= i THEN g[k] ELSE IF k = 1 THEN s[k] ELSE g[k - 1] \o s[k]]
  <2>2. ASSUME NEW k \in 1 .. i + 1
        PROVE  h[k] = IF k = 1 THEN s[k] ELSE h[k - 1] \o s[k]
    <3>1. CASE k <= i
      <4>1. k \in 1 .. i /\ (k # 1 => k - 1 \in 1 .. i)
        BY <3>1
      <4>2. g[k] = IF k = 1 THEN s[k] ELSE g[k - 1] \o s[k]
        BY <2>1, <4>1 DEF Joined
      <4>3. h[k] = g[k] /\ (k # 1 => h[k - 1] = g[k - 1])
        BY <4>1
      <4> HIDE DEF h
      <4> QED
        BY <4>2, <4>3
    <3>2. CASE ~(k <= i)
      <4>1. k # 1 => k - 1 \in 1 .. i
        BY <3>2
      <4>2. /\ h[k] = IF k = 1 THEN s[k] ELSE g[k - 1] \o s[k]
            /\ k # 1 => h[k - 1] = g[k - 1]
        BY <3>2, <4>1
      <4> HIDE DEF h
      <4> QED
        BY <4>2
    <3> QED
      BY <3>1, <3>2
  <2>3. h = [k \in 1 .. i + 1 |-> h[k]]
    OBVIOUS
  <2> HIDE DEF h
  <2>4. Joined(s, i + 1, h)
    BY <2>2, <2>3 DEF Joined
  <2> QED
    BY <2>4
<1> HIDE DEF T
<1>3. n \in T
  BY <1>1, <1>2, CountUp
<1> QED
  BY <1>3 DEF T

LEMMA FlattenIsJoined ==
  ASSUME NEW s, NEW n \in Nat \ {0}, Len(s) = n
  PROVE  \E g : Joined(s, n, g) /\ SeqX!FlattenSeq(s) = g[n]
<1> DEFINE F(g) == [i \in 1 .. n |-> IF i = 1 THEN s[i] ELSE g[i - 1] \o s[i]]
           p == CHOOSE g : g = F(g)
<1>1. \E g : g = F(g)
  <2>1. PICK g : Joined(s, n, g)
    BY JoinedExists
  <2>2. g = F(g)
    BY <2>1 DEF Joined
  <2> HIDE DEF F
  <2> QED
    BY <2>2
<1>2. p = F(p)
  <2> HIDE DEF F
  <2> QED
    BY <1>1
<1>3. SeqX!FlattenSeq(s) = p[n]
  BY DEF SeqX!FlattenSeq
<1> HIDE DEF p
<1>4. Joined(s, n, p)
  BY <1>2 DEF Joined
<1> QED
  BY <1>3, <1>4

\* The rounds for a sequence and those for a longer one agree.
LEMMA JoinedAgree ==
  ASSUME NEW s, NEW t, NEW m \in Nat, NEW n \in Nat, NEW g, NEW h,
         Joined(s, m, g), Joined(t, n, h), m <= n, \A i \in 1 .. m : s[i] = t[i],
         NEW k \in 1 .. m
  PROVE  g[k] = h[k]
<1> DEFINE T == {i \in Nat : i \in 1 .. m => g[i] = h[i]}
<1>1. 0 \in T
  OBVIOUS
<1>2. ASSUME NEW i \in Nat, i \in T PROVE i + 1 \in T
  <2> SUFFICES ASSUME i + 1 \in 1 .. m PROVE g[i + 1] = h[i + 1]
    OBVIOUS
  <2>1. i + 1 \in 1 .. n /\ s[i + 1] = t[i + 1] /\ (i + 1) - 1 = i
    OBVIOUS
  <2>2. /\ g[i + 1] = IF i + 1 = 1 THEN s[i + 1] ELSE g[i] \o s[i + 1]
        /\ h[i + 1] = IF i + 1 = 1 THEN t[i + 1] ELSE h[i] \o t[i + 1]
    BY <2>1 DEF Joined
  <2>3. i + 1 = 1 \/ g[i] = h[i]
    BY <1>2
  <2> QED
    BY <2>1, <2>2, <2>3
<1> HIDE DEF T
<1>3. k \in T
  BY <1>1, <1>2, CountUp
<1> QED
  BY <1>3 DEF T

\* A window of num extents, and what each of them spells.
Inside(exts, first, num) == \A k \in 1 .. num : exts[first + k] \in Extent
Lines(exts, first, num) == [k \in 1 .. num |-> SectorsOf(exts[first + k])]

LEMMA LinesFacts ==
  ASSUME NEW exts, NEW first \in Nat, NEW num \in Nat, Inside(exts, first, num)
  PROVE  /\ Lines(exts, first, num) \in Seq(Seq(Places))
         /\ Len(Lines(exts, first, num)) = num
         /\ \A k \in 1 .. num : Lines(exts, first, num)[k] = SectorsOf(exts[first + k])
<1> DEFINE s == Lines(exts, first, num)
<1>1. s = [k \in 1 .. num |-> s[k]] /\ \A k \in 1 .. num : s[k] = SectorsOf(exts[first + k])
  BY DEF Lines
<1>2. \A k \in 1 .. num : SectorsOf(exts[first + k]) \in Seq(Places)
  BY SectorsFacts DEF Inside
<1> HIDE DEF s
<1>3. s \in [1 .. num -> Seq(Places)]
  BY <1>1, <1>2
<1>4. s \in Seq(Seq(Places))
  BY <1>3, SeqDef
<1>5. DOMAIN s = 1 .. Len(s) /\ Len(s) \in Nat /\ DOMAIN s = 1 .. num
  BY <1>3, <1>4, LenProperties
<1> QED
  BY <1>1, <1>4, <1>5, SameLength DEF s

\* No extents spell nothing; one more extent spells its sectors behind.
LEMMA SpelledNone ==
  ASSUME NEW exts, NEW first \in Nat
  PROVE  Spelled(exts, first, 0) = <<>>
<1>1. Inside(exts, first, 0)
  BY DEF Inside
<1>2. Lines(exts, first, 0) \in Seq(Seq(Places)) /\ Len(Lines(exts, first, 0)) = 0
  BY <1>1, LinesFacts
<1>3. Lines(exts, first, 0) = <<>>
  BY <1>2, EmptySeq
<1>4. Spelled(exts, first, 0) = Lines(exts, first, 0)
  BY <1>2 DEF SeqX!FlattenSeq, Spelled, Lines
<1> QED
  BY <1>3, <1>4

LEMMA SpelledNext ==
  ASSUME NEW exts, NEW first \in Nat, NEW num \in Nat, Inside(exts, first, num + 1)
  PROVE  /\ Spelled(exts, first, num + 1)
              = Spelled(exts, first, num) \o SectorsOf(exts[first + num + 1])
<1> DEFINE s == Lines(exts, first, num)
           t == Lines(exts, first, num + 1)
           e == exts[first + num + 1]
<1>1. Inside(exts, first, num)
  BY DEF Inside
<1>2. /\ Len(s) = num /\ \A k \in 1 .. num : s[k] = SectorsOf(exts[first + k])
  BY <1>1, LinesFacts
<1>3. /\ Len(t) = num + 1 /\ num + 1 \in Nat \ {0}
      /\ \A k \in 1 .. num + 1 : t[k] = SectorsOf(exts[first + k])
  <2>1. num + 1 \in Nat /\ num + 1 \in Nat \ {0}
    OBVIOUS
  <2> QED
    BY <2>1, LinesFacts
<1>4. t[num + 1] = SectorsOf(e) /\ SectorsOf(e) \in Seq(Places)
  <2>1. num + 1 \in 1 .. num + 1 /\ first + (num + 1) = first + num + 1
    OBVIOUS
  <2>2. e \in Extent
    BY <2>1 DEF Inside
  <2> HIDE DEF t, e
  <2> QED
    BY <1>3, <2>1, <2>2, SectorsFacts DEF e
<1>5. /\ Spelled(exts, first, num) = SeqX!FlattenSeq(s)
      /\ Spelled(exts, first, num + 1) = SeqX!FlattenSeq(t)
  BY DEF Spelled, Lines
<1>6. \A k \in 1 .. num : s[k] = t[k]
  BY <1>2, <1>3
<1> HIDE DEF s, t, e
<1>7. PICK h : Joined(t, num + 1, h) /\ SeqX!FlattenSeq(t) = h[num + 1]
  BY <1>3, FlattenIsJoined
<1>8. h[num + 1] = IF num + 1 = 1 THEN t[num + 1] ELSE h[num] \o t[num + 1]
  <2>1. num + 1 \in 1 .. num + 1 /\ (num + 1) - 1 = num
    OBVIOUS
  <2> QED
    BY <1>7, <2>1 DEF Joined
<1>9. CASE num = 0
  <2>1. Spelled(exts, first, num) = <<>>
    BY <1>9, SpelledNone
  <2>2. SeqX!FlattenSeq(t) = SectorsOf(e)
    BY <1>4, <1>7, <1>8, <1>9
  <2> QED
    BY <1>4, <1>5, <2>1, <2>2, ConcatEmptySeq DEF e
<1>10. CASE num # 0
  <2>1. PICK g : Joined(s, num, g) /\ SeqX!FlattenSeq(s) = g[num]
    BY <1>2, <1>10, FlattenIsJoined
  <2>2. g[num] = h[num]
    <3>1. num \in 1 .. num /\ num <= num + 1 /\ num + 1 \in Nat
      BY <1>10
    <3> QED
      BY <1>6, <1>7, <2>1, <3>1, JoinedAgree
  <2>3. h[num + 1] = h[num] \o t[num + 1]
    <3>1. num + 1 # 1
      BY <1>10
    <3> QED
      BY Zenon, <1>8, <3>1
  <2>4. Spelled(exts, first, num + 1) = Spelled(exts, first, num) \o SectorsOf(e)
    BY <1>4, <1>5, <1>7, <2>1, <2>2, <2>3
  <2> QED
    BY <2>4 DEF e
<1> QED
  BY <1>9, <1>10

\* The same extents spell the same, wherever they are.
LEMMA SpelledSame ==
  ASSUME NEW exts, NEW new, NEW first, NEW to, NEW num,
         \A k \in 1 .. num : new[to + k] = exts[first + k]
  PROVE  Spelled(new, to, num) = Spelled(exts, first, num)
<1>1. [k \in 1 .. num |-> SectorsOf(new[to + k])] = [k \in 1 .. num |-> SectorsOf(exts[first + k])]
  OBVIOUS
<1> QED
  BY <1>1 DEF Spelled

\* Where the sectors of a window come from: holes aside, from its extents.
Covers(e, v) ==
  /\ e.type = Linear
  /\ \E s \in Nat : v = <<e.source, s>> /\ e.data <= s /\ s < End(e)

LEMMA SectorsCovered ==
  ASSUME NEW e \in Extent
  PROVE  /\ \A i \in 1 .. e.num : SectorsOf(e)[i] = <<>> \/ Covers(e, SectorsOf(e)[i])
         /\ \A i, j \in 1 .. e.num :
              SectorsOf(e)[i] = SectorsOf(e)[j] /\ SectorsOf(e)[i] # <<>> => i = j
<1>1. e.num \in Nat /\ e.data \in Nat
  BY DEF Extent
<1>2. \A k \in 1 .. e.num :
        SectorsOf(e)[k] = IF e.type = Linear THEN <<e.source, e.data + k - 1>> ELSE <<>>
  BY SectorsFacts
<1>3. ASSUME NEW i \in 1 .. e.num PROVE SectorsOf(e)[i] = <<>> \/ Covers(e, SectorsOf(e)[i])
  <2>1. e.data + i - 1 \in Nat /\ e.data <= e.data + i - 1 /\ e.data + i - 1 < End(e)
    BY <1>1 DEF End
  <2>2. CASE e.type = Linear
    <3>1. SectorsOf(e)[i] = <<e.source, e.data + i - 1>>
      BY <1>2, <2>2
    <3> QED
      BY <2>1, <2>2, <3>1 DEF Covers
  <2>3. CASE e.type # Linear
    BY <1>2, <2>3
  <2> QED
    BY <2>2, <2>3
<1>4. ASSUME NEW i \in 1 .. e.num, NEW j \in 1 .. e.num,
             SectorsOf(e)[i] = SectorsOf(e)[j], SectorsOf(e)[i] # <<>>
      PROVE  i = j
  <2>1. e.type = Linear
    BY <1>2, <1>4
  <2>2. <<e.source, e.data + i - 1>> = <<e.source, e.data + j - 1>>
    BY <1>2, <1>4, <2>1
  <2>3. e.data + i - 1 = e.data + j - 1
    BY <2>2
  <2> QED
    BY <1>1, <2>3
<1> QED
  BY <1>3, <1>4

\* A window spells places, each of them a hole or covered by an extent of it.
SpelledOK(exts, first, num) ==
  /\ Spelled(exts, first, num) \in Seq(Places)
  /\ \A i \in 1 .. Len(Spelled(exts, first, num)) :
       \/ Spelled(exts, first, num)[i] = <<>>
       \/ \E k \in 1 .. num : Covers(exts[first + k], Spelled(exts, first, num)[i])

LEMMA SpelledFacts ==
  ASSUME NEW exts, NEW first \in Nat, NEW num \in Nat, Inside(exts, first, num)
  PROVE  SpelledOK(exts, first, num)
<1> DEFINE T == {n \in Nat : n <= num => SpelledOK(exts, first, n)}
<1>1. 0 \in T
  <2>1. Spelled(exts, first, 0) = <<>>
    BY SpelledNone
  <2>2. <<>> \in Seq(Places) /\ Len(<<>>) = 0
    BY EmptySeq
  <2>3. SpelledOK(exts, first, 0)
    <3>1. \A i : i \notin 1 .. 0
      OBVIOUS
    <3> QED
      BY Zenon, <2>1, <2>2, <3>1 DEF SpelledOK
  <2> QED
    BY <2>3
<1>2. ASSUME NEW n \in Nat, n \in T PROVE n + 1 \in T
  <2> SUFFICES ASSUME n + 1 <= num PROVE SpelledOK(exts, first, n + 1)
    OBVIOUS
  <2> DEFINE u == Spelled(exts, first, n)
             e == exts[first + n + 1]
             w == SectorsOf(e)
             v == Spelled(exts, first, n + 1)
  <2>1. SpelledOK(exts, first, n)
    BY <1>2
  <2>2. e \in Extent /\ Inside(exts, first, n + 1)
    <3>1. n + 1 \in 1 .. num /\ first + (n + 1) = first + n + 1
      OBVIOUS
    <3> QED
      BY <3>1 DEF Inside
  <2>3. v = u \o w
    BY <2>2, SpelledNext
  <2>4. u \in Seq(Places) /\ w \in Seq(Places) /\ Len(w) = e.num /\ Len(u) \in Nat /\ e.num \in Nat
    <3> HIDE DEF e
    <3> QED
      BY <2>1, <2>2, SectorsFacts, LenProperties DEF SpelledOK, Extent
  <2>5. /\ \A i \in 1 .. Len(u) : u[i] = <<>> \/ \E k \in 1 .. n : Covers(exts[first + k], u[i])
        /\ \A i \in 1 .. e.num : w[i] = <<>> \/ Covers(e, w[i])
    <3>1. \A i \in 1 .. Len(u) : u[i] = <<>> \/ \E k \in 1 .. n : Covers(exts[first + k], u[i])
      BY <2>1 DEF SpelledOK
    <3>2. \A i \in 1 .. e.num : w[i] = <<>> \/ Covers(e, w[i])
      <4> HIDE DEF e
      <4> QED
        BY <2>2, SectorsCovered
    <3> QED
      BY <3>1, <3>2
  <2>6. first + (n + 1) = first + n + 1
    OBVIOUS
  <2> HIDE DEF u, v, w
  <2>7. /\ v \in Seq(Places) /\ Len(v) = Len(u) + Len(w)
        /\ \A i \in 1 .. Len(u) + Len(w) : v[i] = IF i <= Len(u) THEN u[i] ELSE w[i - Len(u)]
    BY <2>3, <2>4, ConcatProperties
  <2>8. ASSUME NEW i \in 1 .. Len(v)
        PROVE  v[i] = <<>> \/ \E k \in 1 .. n + 1 : Covers(exts[first + k], v[i])
    <3>1. CASE i <= Len(u)
      <4>1. i \in 1 .. Len(u) /\ v[i] = u[i]
        BY <2>4, <2>7, <3>1
      <4> QED
        <5>1. 1 .. n \subseteq 1 .. n + 1
          OBVIOUS
        <5> QED
          BY Zenon, <2>5, <4>1, <5>1
    <3>2. CASE ~(i <= Len(u))
      <4>1. i - Len(u) \in 1 .. e.num /\ v[i] = w[i - Len(u)]
        BY <2>4, <2>7, <3>2
      <4>2. v[i] = <<>> \/ Covers(e, v[i])
        BY Zenon, <2>5, <4>1
      <4>3. n + 1 \in 1 .. n + 1 /\ exts[first + (n + 1)] = e
        BY <2>6
      <4> QED
        BY <4>2, <4>3
    <3> QED
      BY <3>1, <3>2
  <2> QED
    BY <2>7, <2>8 DEF SpelledOK, v
<1> HIDE DEF T
<1>3. num \in T
  BY <1>1, <1>2, CountUp
<1> QED
  BY <1>3 DEF T

\* If no two extents of a window cover one sector, it spells none twice.
Lone(exts, first, num) ==
  \A k, m \in 1 .. num : \A v :
    Covers(exts[first + k], v) /\ Covers(exts[first + m], v) => k = m

Once(v) == \A i, j \in DOMAIN v : i # j /\ v[i] = v[j] => v[i] = <<>>

LEMMA SpelledOnce ==
  ASSUME NEW exts, NEW first \in Nat, NEW num \in Nat,
         Inside(exts, first, num), Lone(exts, first, num)
  PROVE  Once(Spelled(exts, first, num))
<1> DEFINE T == {n \in Nat : n <= num => Once(Spelled(exts, first, n))}
<1>1. 0 \in T
  BY SpelledNone DEF Once
<1>2. ASSUME NEW n \in Nat, n \in T PROVE n + 1 \in T
  <2> SUFFICES ASSUME n + 1 <= num PROVE Once(Spelled(exts, first, n + 1))
    OBVIOUS
  <2> DEFINE u == Spelled(exts, first, n)
             e == exts[first + n + 1]
             w == SectorsOf(e)
             v == Spelled(exts, first, n + 1)
  <2>1. Once(u)
    BY <1>2
  <2>2. e \in Extent /\ Inside(exts, first, n + 1) /\ Inside(exts, first, n)
    <3>1. n + 1 \in 1 .. num /\ first + (n + 1) = first + n + 1
      OBVIOUS
    <3> QED
      BY <3>1 DEF Inside
  <2>3. v = u \o w
    BY <2>2, SpelledNext
  <2>4. SpelledOK(exts, first, n)
    BY <2>2, SpelledFacts
  <2>5. u \in Seq(Places) /\ w \in Seq(Places) /\ Len(w) = e.num /\ Len(u) \in Nat /\ e.num \in Nat
    <3> HIDE DEF e
    <3> QED
      BY <2>2, <2>4, SectorsFacts, LenProperties DEF SpelledOK, Extent
  <2>6. \A i \in 1 .. Len(u) : u[i] = <<>> \/ \E k \in 1 .. n : Covers(exts[first + k], u[i])
    BY <2>4 DEF SpelledOK
  <2>7. /\ \A i \in 1 .. e.num : w[i] = <<>> \/ Covers(e, w[i])
        /\ \A i, j \in 1 .. e.num : w[i] = w[j] /\ w[i] # <<>> => i = j
    <3> HIDE DEF e
    <3> QED
      BY <2>2, SectorsCovered
  <2>8. \A k \in 1 .. n : \A x : ~(Covers(exts[first + k], x) /\ Covers(e, x))
    <3>1. n + 1 \in 1 .. num /\ exts[first + (n + 1)] = e /\ \A k \in 1 .. n : k \in 1 .. num /\ k # n + 1
      OBVIOUS
    <3> HIDE DEF e
    <3> QED
      BY <3>1 DEF Lone
  <2> HIDE DEF u, v, w
  <2>9. /\ v \in Seq(Places) /\ Len(v) = Len(u) + Len(w)
        /\ \A i \in 1 .. Len(u) + Len(w) : v[i] = IF i <= Len(u) THEN u[i] ELSE w[i - Len(u)]
    BY <2>3, <2>5, ConcatProperties
  <2>10. DOMAIN v = 1 .. Len(v) /\ DOMAIN u = 1 .. Len(u)
    BY <2>5, <2>9, LenProperties
  <2>11. ASSUME NEW i \in 1 .. Len(v), NEW j \in 1 .. Len(v), i < j, v[i] = v[j], v[i] # <<>>
         PROVE  FALSE
    <3>1. CASE j <= Len(u)
      <4>1. i \in DOMAIN u /\ j \in DOMAIN u /\ v[i] = u[i] /\ v[j] = u[j] /\ i # j
        BY <2>5, <2>9, <2>10, <2>11, <3>1
      <4> QED
        BY <2>1, <2>11, <4>1 DEF Once
    <3>2. CASE ~(i <= Len(u))
      <4>1. /\ i - Len(u) \in 1 .. e.num /\ v[i] = w[i - Len(u)]
            /\ j - Len(u) \in 1 .. e.num /\ v[j] = w[j - Len(u)]
            /\ i - Len(u) # j - Len(u)
        <5>1. ~(j <= Len(u)) /\ j \in Int /\ i \in Int
          BY <2>5, <2>11, <3>2
        <5>2. i - Len(u) \in 1 .. e.num /\ j - Len(u) \in 1 .. e.num
          BY SMTT(30), <2>5, <2>9, <3>2, <5>1
        <5>3. v[i] = w[i - Len(u)] /\ v[j] = w[j - Len(u)]
          BY <2>9, <3>2, <5>1
        <5>4. i - Len(u) # j - Len(u)
          BY <2>5, <2>11, <5>1
        <5> QED
          BY <5>2, <5>3, <5>4
      <4> QED
        BY <2>7, <2>11, <4>1
    <3>3. CASE i <= Len(u) /\ ~(j <= Len(u))
      <4>1. /\ i \in 1 .. Len(u) /\ v[i] = u[i]
            /\ j - Len(u) \in 1 .. e.num /\ v[j] = w[j - Len(u)]
        BY SMTT(30), <2>5, <2>9, <2>11, <3>3
      <4>2. PICK k \in 1 .. n : Covers(exts[first + k], v[i])
        BY <2>6, <2>11, <4>1
      <4>3. Covers(e, v[i])
        BY <2>7, <2>11, <4>1
      <4> QED
        BY <2>8, <4>2, <4>3
    <3> QED
      BY <2>5, <2>11, <3>1, <3>2, <3>3
  <2>12. ASSUME NEW i \in DOMAIN v, NEW j \in DOMAIN v, i # j, v[i] = v[j]
         PROVE  v[i] = <<>>
    <3>1. i \in Int /\ j \in Int /\ (i < j \/ j < i)
      BY <2>10, <2>12
    <3> QED
      BY <2>10, <2>11, <2>12, <3>1
  <2> QED
    BY <2>12 DEF Once, v
<1> HIDE DEF T
<1>3. num \in T
  BY <1>1, <1>2, CountUp
<1> QED
  BY <1>3 DEF T

\* Fewer extents spell the beginning of what more of them spell.
LEMMA SpelledBegins ==
  ASSUME NEW exts, NEW first \in Nat, NEW num \in Nat, Inside(exts, first, num),
         NEW j \in 0 .. num
  PROVE  \E x \in Seq(Places) : Spelled(exts, first, num) = Spelled(exts, first, j) \o x
<1> DEFINE Rest(n) == \E x \in Seq(Places) : Spelled(exts, first, n) = Spelled(exts, first, j) \o x
           T == {n \in Nat : n <= num /\ j <= n => Rest(n)}
<1>1. \A n \in 0 .. num : Inside(exts, first, n) /\ Spelled(exts, first, n) \in Seq(Places)
  <2> TAKE n \in 0 .. num
  <2>1. Inside(exts, first, n) /\ n \in Nat
    BY DEF Inside
  <2> QED
    BY <2>1, SpelledFacts DEF SpelledOK
<1>2. Rest(j)
  <2>1. <<>> \in Seq(Places) /\ Spelled(exts, first, j) \in Seq(Places)
    BY <1>1, EmptySeq
  <2>2. Spelled(exts, first, j) = Spelled(exts, first, j) \o <<>>
    BY <2>1, ConcatEmptySeq
  <2> QED
    BY <2>1, <2>2
<1>3. 0 \in T
  <2>1. j <= 0 => j = 0
    OBVIOUS
  <2> HIDE DEF Rest
  <2> QED
    BY <1>2, <2>1
<1>4. ASSUME NEW n \in Nat, n \in T PROVE n + 1 \in T
  <2> SUFFICES ASSUME n + 1 <= num, j <= n + 1 PROVE Rest(n + 1)
    OBVIOUS
  <2>1. CASE j = n + 1
    BY <1>2, <2>1
  <2>2. CASE j # n + 1
    <3> DEFINE w == SectorsOf(exts[first + n + 1])
    <3>1. Rest(n)
      <4> HIDE DEF Rest
      <4>1. n <= num /\ j <= n
        BY <2>2
      <4> QED
        BY <1>4, <4>1
    <3>2. PICK x \in Seq(Places) : Spelled(exts, first, n) = Spelled(exts, first, j) \o x
      BY <3>1
    <3>3. Spelled(exts, first, n + 1) = Spelled(exts, first, n) \o w
      BY <1>1, SpelledNext
    <3>4. w \in Seq(Places)
      <4>1. n + 1 \in 1 .. num /\ first + (n + 1) = first + n + 1
        OBVIOUS
      <4> QED
        BY <4>1, SectorsFacts DEF Inside
    <3>5. Spelled(exts, first, j) \in Seq(Places)
      BY <1>1
    <3> HIDE DEF w
    <3>6. x \o w \in Seq(Places)
      BY <3>2, <3>4, ConcatProperties
    <3>7. Spelled(exts, first, n + 1) = Spelled(exts, first, j) \o (x \o w)
      <4>1. (Spelled(exts, first, j) \o x) \o w = Spelled(exts, first, j) \o (x \o w)
        BY SMTT(30), <3>2, <3>4, <3>5, ConcatAssociative
      <4> QED
        BY Zenon, <3>2, <3>3, <4>1
    <3> QED
      BY <3>6, <3>7
  <2> QED
    BY <2>1, <2>2
<1> HIDE DEF T
<1>5. num \in T
  BY <1>3, <1>4, CountUp
<1> QED
  BY <1>5 DEF T

----------------------------------------------------------------------------
\* The volumes of a sound table.

LEMMA WindowInside ==
  ASSUME IInv, NEW n \in DOMAIN parts
  PROVE  /\ parts[n].first \in Nat /\ parts[n].num \in Nat
         /\ Inside(extents, parts[n].first, parts[n].num)
         /\ \A k \in 1 .. parts[n].num : parts[n].first + k \in 1 .. Len(extents)
<1>1. /\ parts[n].first \in Nat /\ parts[n].num \in Nat
      /\ parts[n].first + parts[n].num <= Len(extents)
      /\ extents \in Seq(Extent) /\ Len(extents) \in Nat
  BY InvFacts
<1>2. \A k \in 1 .. parts[n].num : parts[n].first + k \in 1 .. Len(extents)
  BY <1>1
<1>3. \A i \in 1 .. Len(extents) : extents[i] \in Extent
  BY <1>1, ExtentFields
<1> QED
  BY <1>1, <1>2, <1>3 DEF Inside

LEMMA VolumeIs ==
  /\ DOMAIN Volumes = DOMAIN parts
  /\ \A n \in DOMAIN parts : Volumes[n] = Spelled(extents, parts[n].first, parts[n].num)
BY DEF Volumes, VolumeOf, Spelled

\* No two extents cover one sector.
LEMMA CoversOnce ==
  ASSUME IInv, NEW i \in 1 .. Len(extents), NEW j \in 1 .. Len(extents), NEW v,
         Covers(extents[i], v), Covers(extents[j], v)
  PROVE  i = j
<1>1. /\ TableExtentsApart(extents) /\ DOMAIN extents = 1 .. Len(extents)
      /\ extents \in Seq(Extent)
  BY InvFacts DEF SoundExtents
<1>2. PICK s \in Nat : v = <<extents[i].source, s>> /\ extents[i].data <= s /\ s < End(extents[i])
  BY DEF Covers
<1>3. PICK t \in Nat : v = <<extents[j].source, t>> /\ extents[j].data <= t /\ t < End(extents[j])
  BY DEF Covers
<1>4. s = t /\ extents[i].source = extents[j].source
  BY <1>2, <1>3
<1>5. OnDevice(extents[i], extents[j].source) /\ extents[j].type = Linear
  BY <1>4 DEF Covers, OnDevice
<1>6. Meets(extents[i], extents[j].data, extents[j].num)
  <2>1. /\ extents[i].data \in Nat /\ extents[i].num \in Nat
        /\ extents[j].data \in Nat /\ extents[j].num \in Nat
    BY <1>1, ExtentFields
  <2> QED
    BY <1>2, <1>3, <1>4, <2>1 DEF Meets, End
<1> QED
  BY <1>1, <1>5, <1>6 DEF TableExtentsApart

\* What a volume holds of the devices is covered by extents of its window.
LEMMA BackingCovered ==
  ASSUME IInv, NEW n \in DOMAIN parts, NEW v \in Pool!Backing(Volumes[n])
  PROVE  \E k \in 1 .. parts[n].num : Covers(extents[parts[n].first + k], v)
<1> DEFINE u == Spelled(extents, parts[n].first, parts[n].num)
<1>1. Volumes[n] = u
  BY VolumeIs
<1>2. SpelledOK(extents, parts[n].first, parts[n].num)
  BY WindowInside, SpelledFacts
<1>3. /\ u \in Seq(Places)
      /\ \A i \in 1 .. Len(u) :
           u[i] = <<>> \/ \E k \in 1 .. parts[n].num : Covers(extents[parts[n].first + k], u[i])
  BY <1>2 DEF SpelledOK
<1> HIDE DEF u
<1>4. DOMAIN u = 1 .. Len(u)
  BY <1>3, LenProperties
<1>5. PICK i \in DOMAIN u : v = u[i] /\ v # <<>>
  BY <1>1 DEF Pool!Backing
<1> QED
  BY Zenon, <1>3, <1>4, <1>5

LEMMA OwnedCovered ==
  ASSUME IInv, NEW v \in Pool!Owned
  PROVE  \E i \in 1 .. Len(extents) : Covers(extents[i], v)
<1>1. PICK n \in DOMAIN parts : v \in Pool!Backing(Volumes[n])
  BY VolumeIs DEF Pool!Owned, Pool!Live
<1>2. PICK k \in 1 .. parts[n].num : Covers(extents[parts[n].first + k], v)
  BY <1>1, BackingCovered
<1> QED
  BY <1>2, WindowInside

\* Volumes share no sector, and spell none twice.
LEMMA VolumesApart ==
  ASSUME IInv
  PROVE  Pool!NoSharing
<1>1. ASSUME NEW n \in DOMAIN parts
      PROVE  Once(Volumes[n])
  <2>1. Lone(extents, parts[n].first, parts[n].num)
    <3>1. ASSUME NEW k \in 1 .. parts[n].num, NEW m \in 1 .. parts[n].num, NEW v,
                 Covers(extents[parts[n].first + k], v), Covers(extents[parts[n].first + m], v)
          PROVE  k = m
      <4>1. /\ parts[n].first + k \in 1 .. Len(extents)
            /\ parts[n].first + m \in 1 .. Len(extents)
            /\ parts[n].first \in Nat
        BY WindowInside
      <4>2. parts[n].first + k = parts[n].first + m
        BY <3>1, <4>1, CoversOnce
      <4> QED
        BY <4>1, <4>2
    <3> QED
      BY <3>1 DEF Lone
  <2>2. Once(Spelled(extents, parts[n].first, parts[n].num))
    BY <2>1, WindowInside, SpelledOnce
  <2> QED
    BY <2>2, VolumeIs
<1>2. ASSUME NEW m \in DOMAIN parts, NEW n \in DOMAIN parts, m # n, NEW v,
             v \in Pool!Backing(Volumes[m]), v \in Pool!Backing(Volumes[n])
      PROVE  FALSE
  <2>1. PICK k \in 1 .. parts[m].num : Covers(extents[parts[m].first + k], v)
    BY <1>2, BackingCovered
  <2>2. PICK l \in 1 .. parts[n].num : Covers(extents[parts[n].first + l], v)
    BY <1>2, BackingCovered
  <2>3. /\ parts[m].first + k \in 1 .. Len(extents) /\ parts[n].first + l \in 1 .. Len(extents)
        /\ parts[m].first \in Nat /\ parts[m].num \in Nat
        /\ parts[n].first \in Nat /\ parts[n].num \in Nat
    BY WindowInside
  <2>4. parts[m].first + k = parts[n].first + l
    BY <2>1, <2>2, <2>3, CoversOnce
  <2>5. \/ parts[m].first + parts[m].num <= parts[n].first
        \/ parts[n].first + parts[n].num <= parts[m].first
    BY <1>2, InvFacts, WindowFacts
  <2> QED
    BY SMTT(30), <2>3, <2>4, <2>5
<1>3. Pool!Live = DOMAIN parts
  BY VolumeIs DEF Pool!Live
<1> QED
  BY <1>1, <1>2, <1>3 DEF Pool!NoSharing, Once

\* What an extent covers is on its device.
LEMMA CoveredOnDevice ==
  ASSUME IInv, NEW i \in 1 .. Len(extents), NEW v, Covers(extents[i], v)
  PROVE  v \in DeviceSectors
<1> DEFINE e == extents[i]
<1>1. /\ TableExtentsApart(extents) /\ DOMAIN extents = 1 .. Len(extents)
      /\ extents \in Seq(Extent)
  BY InvFacts DEF SoundExtents
<1>2. /\ e.source \in DeviceIndices(Devs) /\ e.data \in Nat
      /\ Device(Devs, e.source).first \in Nat /\ Limit(Device(Devs, e.source)) \in Nat
      /\ End(e) \in Nat
  BY <1>1, ExtentFields, DeviceType
<1>3. Device(Devs, e.source).first <= e.data /\ End(e) <= Limit(Device(Devs, e.source))
  BY <1>1 DEF TableExtentsApart, Covers
<1>4. PICK s \in Nat : v = <<e.source, s>> /\ e.data <= s /\ s < End(e)
  BY DEF Covers
<1> HIDE DEF e
<1>5. s \in Device(Devs, e.source).first .. Limit(Device(Devs, e.source)) - 1
  BY <1>2, <1>3, <1>4
<1> QED
  BY <1>2, <1>4, <1>5 DEF DeviceSectors

\* Free sectors of a device are sectors of the pool that nobody owns.
LEMMA FreeIsFresh ==
  ASSUME IInv, NEW d \in DeviceIndices(Devs), NEW s \in Nat, NEW num \in Nat,
         Device(Devs, d).first <= s, IsRangeFree(extents, Devs, d, s, num),
         NEW t \in s .. s + num - 1
  PROVE  <<d, t>> \in DeviceSectors \ Pool!Owned
<1>1. Limit(Device(Devs, d)) \in Nat \ {0} /\ Device(Devs, d).first \in Nat
  BY DeviceType
<1>2. s + num <= Limit(Device(Devs, d))
  BY <1>1 DEF IsRangeFree
<1>3. <<d, t>> \in DeviceSectors
  <2>1. t \in Device(Devs, d).first .. Limit(Device(Devs, d)) - 1
    BY <1>1, <1>2
  <2> QED
    BY <2>1 DEF DeviceSectors
<1>4. ASSUME <<d, t>> \in Pool!Owned PROVE FALSE
  <2>1. PICK i \in 1 .. Len(extents) : Covers(extents[i], <<d, t>>)
    BY <1>4, OwnedCovered
  <2>2. PICK r \in Nat : /\ <<d, t>> = <<extents[i].source, r>>
                         /\ extents[i].data <= r /\ r < End(extents[i])
    BY <2>1 DEF Covers
  <2>3. r = t /\ extents[i].source = d
    BY <2>2
  <2>4. extents[i].data \in Nat /\ End(extents[i]) \in Nat /\ i \in DOMAIN extents
    BY InvFacts, ExtentFields
  <2>5. OnDevice(extents[i], d)
    BY <2>1, <2>3 DEF OnDevice, Covers
  <2>6. ~Meets(extents[i], s, num)
    BY <2>4, <2>5 DEF IsRangeFree
  <2> QED
    BY <2>2, <2>3, <2>4, <2>6 DEF Meets
<1> QED
  BY <1>3, <1>4

----------------------------------------------------------------------------
\* What an extent that grows or is cut spells.

LEMMA LinearExtentFacts ==
  ASSUME NEW d \in DeviceIndices(Devs), NEW s \in Nat, NEW num \in Nat
  PROVE  /\ LinearExtent(d, s, num) \in Extent
         /\ SectorsOf(LinearExtent(d, s, num)) \in Seq(Places)
         /\ Len(SectorsOf(LinearExtent(d, s, num))) = num
         /\ \A k \in 1 .. num : SectorsOf(LinearExtent(d, s, num))[k] = <<d, s + k - 1>>
<1> DEFINE e == LinearExtent(d, s, num)
<1>1. /\ e \in Extent /\ e.num = num /\ e.type = Linear /\ e.data = s /\ e.source = d
  BY DEF LinearExtent, Extent
<1> HIDE DEF e
<1>2. /\ SectorsOf(e) \in Seq(Places) /\ Len(SectorsOf(e)) = e.num
      /\ \A k \in 1 .. e.num :
           SectorsOf(e)[k] = IF e.type = Linear THEN <<e.source, e.data + k - 1>> ELSE <<>>
  BY <1>1, SectorsFacts
<1> QED
  BY <1>1, <1>2 DEF e

LEMMA SectorsGrow ==
  ASSUME NEW e \in Extent, e.type = Linear, NEW extra \in Nat
  PROVE  SectorsOf([e EXCEPT !.num = @ + extra])
           = SectorsOf(e) \o SectorsOf(LinearExtent(e.source, End(e), extra))
<1> DEFINE f == [e EXCEPT !.num = @ + extra]
           u == SectorsOf(e)
           w == SectorsOf(LinearExtent(e.source, End(e), extra))
           v == SectorsOf(f)
<1>1. /\ e.num \in Nat /\ e.data \in Nat /\ e.source \in DeviceIndices(Devs)
      /\ End(e) = e.data + e.num
  BY DEF Extent, End
<1>2. f \in Extent /\ f.num = e.num + extra /\ f.type = Linear /\ f.data = e.data /\ f.source = e.source
  BY <1>1 DEF Extent
<1> HIDE DEF f
<1>3. /\ u \in Seq(Places) /\ Len(u) = e.num
      /\ \A k \in 1 .. e.num : u[k] = <<e.source, e.data + k - 1>>
  BY SectorsFacts
<1>4. /\ v \in Seq(Places) /\ Len(v) = e.num + extra
      /\ \A k \in 1 .. e.num + extra : v[k] = <<e.source, e.data + k - 1>>
  BY <1>2, SectorsFacts
<1>5. /\ w \in Seq(Places) /\ Len(w) = extra
      /\ \A k \in 1 .. extra : w[k] = <<e.source, End(e) + k - 1>>
  <2>1. End(e) \in Nat
    BY <1>1
  <2> QED
    BY <1>1, <2>1, LinearExtentFacts
<1> HIDE DEF u, v, w
<1>6. /\ u \o w \in Seq(Places) /\ Len(u \o w) = e.num + extra
      /\ \A i \in 1 .. e.num + extra : (u \o w)[i] = IF i <= e.num THEN u[i] ELSE w[i - e.num]
  <2>1. /\ u \o w \in Seq(Places) /\ Len(u \o w) = Len(u) + Len(w)
        /\ \A i \in 1 .. Len(u) + Len(w) : (u \o w)[i] = IF i <= Len(u) THEN u[i] ELSE w[i - Len(u)]
    BY <1>3, <1>5, ConcatProperties
  <2> QED
    BY Zenon, <1>3, <1>5, <2>1
<1>7. ASSUME NEW i \in 1 .. e.num + extra
      PROVE  (u \o w)[i] = v[i]
  <2>1. CASE i <= e.num
    <3>1. i \in 1 .. e.num
      BY <1>1, <2>1
    <3> QED
      <4>1. (u \o w)[i] = u[i]
        BY Zenon, <1>6, <2>1
      <4>2. u[i] = <<e.source, e.data + i - 1>> /\ v[i] = <<e.source, e.data + i - 1>>
        BY Zenon, <1>3, <1>4, <3>1
      <4> QED
        BY Zenon, <4>1, <4>2
  <2>2. CASE ~(i <= e.num)
    <3>1. i - e.num \in 1 .. extra /\ End(e) + (i - e.num) - 1 = e.data + i - 1
      BY <1>1, <2>2
    <3>2. (u \o w)[i] = w[i - e.num] /\ w[i - e.num] = <<e.source, End(e) + (i - e.num) - 1>>
      BY <1>5, <1>6, <2>2, <3>1
    <3> QED
      BY Zenon, <1>4, <3>1, <3>2
  <2> QED
    BY <2>1, <2>2
<1>8. u \o w = v
  BY <1>4, <1>6, <1>7, SeqEqual
<1> QED
  BY <1>8 DEF f, u, v, w

LEMMA SectorsCut ==
  ASSUME NEW e \in Extent, NEW keep \in 1 .. e.num
  PROVE  \E x \in Seq(Places) : SectorsOf(e) = SectorsOf([e EXCEPT !.num = keep]) \o x
<1> DEFINE f == [e EXCEPT !.num = keep]
           u == SectorsOf(f)
           v == SectorsOf(e)
           x == SubSeq(v, keep + 1, e.num)
<1>1. e.num \in Nat /\ keep \in Nat /\ keep <= e.num
  BY DEF Extent
<1>2. f \in Extent /\ f.num = keep /\ f.type = e.type /\ f.data = e.data /\ f.source = e.source
  BY <1>1 DEF Extent
<1> HIDE DEF f
<1>3. /\ u \in Seq(Places) /\ Len(u) = keep
      /\ \A k \in 1 .. keep :
           u[k] = IF e.type = Linear THEN <<e.source, e.data + k - 1>> ELSE <<>>
  BY <1>2, SectorsFacts
<1>4. /\ v \in Seq(Places) /\ Len(v) = e.num
      /\ \A k \in 1 .. e.num :
           v[k] = IF e.type = Linear THEN <<e.source, e.data + k - 1>> ELSE <<>>
  BY SectorsFacts
<1> HIDE DEF u, v
<1>5. \A k \in 1 .. e.num : v[k] \in Places
  BY <1>4, ElementOfSeq
<1>6. /\ x \in Seq(Places) /\ Len(x) = e.num - keep
      /\ \A i \in 1 .. e.num - keep : x[i] = v[keep + i]
  <2>1. \A i \in keep + 1 .. e.num : v[i] \in Places
    BY <1>1, <1>5
  <2>2. /\ x \in Seq(Places)
        /\ Len(x) = IF keep + 1 <= e.num THEN e.num - (keep + 1) + 1 ELSE 0
        /\ \A i \in 1 .. e.num - (keep + 1) + 1 : x[i] = v[keep + 1 + i - 1]
    BY <1>1, <2>1, SubSeqProperties
  <2> QED
    BY <1>1, <2>2
<1> HIDE DEF x
<1>7. /\ u \o x \in Seq(Places) /\ Len(u \o x) = e.num
      /\ \A i \in 1 .. e.num : (u \o x)[i] = IF i <= keep THEN u[i] ELSE x[i - keep]
  <2>1. keep + (e.num - keep) = e.num
    BY <1>1
  <2>2. /\ u \o x \in Seq(Places) /\ Len(u \o x) = Len(u) + Len(x)
        /\ \A i \in 1 .. Len(u) + Len(x) : (u \o x)[i] = IF i <= Len(u) THEN u[i] ELSE x[i - Len(u)]
    BY <1>3, <1>6, ConcatProperties
  <2> QED
    BY Zenon, <1>3, <1>6, <2>1, <2>2
<1>8. ASSUME NEW i \in 1 .. e.num
      PROVE  (u \o x)[i] = v[i]
  <2>1. CASE i <= keep
    <3>1. i \in 1 .. keep
      BY <1>1, <2>1
    <3> QED
      BY Zenon, <1>3, <1>4, <1>7, <2>1, <3>1
  <2>2. CASE ~(i <= keep)
    <3>1. i - keep \in 1 .. e.num - keep /\ keep + (i - keep) = i
      BY <1>1, <2>2
    <3>2. (u \o x)[i] = x[i - keep] /\ x[i - keep] = v[keep + (i - keep)]
      BY <1>6, <1>7, <2>2, <3>1
    <3> QED
      BY Zenon, <3>1, <3>2
  <2> QED
    BY <2>1, <2>2
<1>9. u \o x = v
  BY <1>4, <1>7, <1>8, SeqEqual
<1> QED
  BY <1>6, <1>9 DEF f, u, v

\* What was spelled first.
LEMMA BeginningIs ==
  ASSUME NEW u \in Seq(Places), NEW x \in Seq(Places)
  PROVE  u = SubSeq(u \o x, 1, Len(u))
<1> DEFINE v == u \o x
<1>1. /\ v \in Seq(Places) /\ Len(v) = Len(u) + Len(x)
      /\ \A i \in 1 .. Len(u) + Len(x) : v[i] = IF i <= Len(u) THEN u[i] ELSE x[i - Len(u)]
      /\ Len(u) \in Nat /\ Len(x) \in Nat
  BY ConcatProperties, LenProperties
<1> HIDE DEF v
<1>2. \A i \in 1 .. Len(u) : v[i] = u[i] /\ u[i] \in Places
  BY <1>1, ElementOfSeq
<1>3. /\ SubSeq(v, 1, Len(u)) \in Seq(Places)
      /\ Len(SubSeq(v, 1, Len(u))) = IF 1 <= Len(u) THEN Len(u) - 1 + 1 ELSE 0
      /\ \A i \in 1 .. Len(u) - 1 + 1 : SubSeq(v, 1, Len(u))[i] = v[1 + i - 1]
  BY <1>1, <1>2, SubSeqProperties
<1>4. Len(SubSeq(v, 1, Len(u))) = Len(u)
  BY <1>1, <1>3
<1>5. \A i \in 1 .. Len(u) : SubSeq(v, 1, Len(u))[i] = u[i]
  BY <1>1, <1>2, <1>3
<1>6. SubSeq(v, 1, Len(u)) = u
  BY <1>3, <1>4, <1>5, SeqEqual
<1> QED
  BY <1>6 DEF v

\* What the pool asks of a volume that grows or shrinks.
LEMMA ExtendsWithFresh ==
  ASSUME IInv, NEW u \in Seq(Places), NEW d \in DeviceIndices(Devs), NEW s \in Nat,
         NEW num \in Nat,
         Device(Devs, d).first <= s, IsRangeFree(extents, Devs, d, s, num)
  PROVE  Pool!ExtendsBy(u, u \o SectorsOf(LinearExtent(d, s, num)))
<1> DEFINE w == SectorsOf(LinearExtent(d, s, num))
           v == u \o w
<1>1. /\ w \in Seq(Places) /\ Len(w) = num
      /\ \A k \in 1 .. num : w[k] = <<d, s + k - 1>>
  BY LinearExtentFacts
<1>2. Len(u) \in Nat
  BY LenProperties
<1> HIDE DEF w
<1>3. /\ v \in Seq(Places) /\ Len(v) = Len(u) + num
      /\ \A i \in 1 .. Len(u) + num : v[i] = IF i <= Len(u) THEN u[i] ELSE w[i - Len(u)]
  BY <1>1, ConcatProperties
<1> HIDE DEF v
<1>4. u = SubSeq(v, 1, Len(u))
  BY <1>1, BeginningIs DEF v
<1>5. ASSUME NEW i \in Len(u) + 1 .. Len(v)
      PROVE  v[i] = <<d, s + (i - Len(u)) - 1>> /\ v[i] \in DeviceSectors \ Pool!Owned
  <2>1. i - Len(u) \in 1 .. num /\ i \in 1 .. Len(u) + num /\ ~(i <= Len(u))
    BY <1>2, <1>3
  <2>2. v[i] = <<d, s + (i - Len(u)) - 1>>
    BY <1>1, <1>3, <2>1
  <2>3. s + (i - Len(u)) - 1 \in s .. s + num - 1
    BY <1>2, <2>1
  <2> QED
    BY <2>2, <2>3, FreeIsFresh
<1>6. ASSUME NEW i \in Len(u) + 1 .. Len(v), NEW j \in Len(u) + 1 .. Len(v), v[i] = v[j]
      PROVE  i = j
  <2>1. <<d, s + (i - Len(u)) - 1>> = <<d, s + (j - Len(u)) - 1>>
    BY <1>5, <1>6
  <2>2. s + (i - Len(u)) - 1 = s + (j - Len(u)) - 1
    BY <2>1
  <2> QED
    BY <1>2, <1>3, <2>2
<1>7. Len(u) <= Len(v)
  BY <1>2, <1>3
<1>8. Pool!ExtendsBy(u, v)
  BY <1>4, <1>5, <1>6, <1>7 DEF Pool!ExtendsBy
<1> QED
  BY <1>8 DEF v, w

----------------------------------------------------------------------------
\* The windows that an edit leaves alone have the extents they had.
SameWindow(q, new, m) ==
  /\ m \in DOMAIN parts /\ m \in DOMAIN q
  /\ q[m].num = parts[m].num
  /\ \A k \in 1 .. parts[m].num : new[q[m].first + k] = extents[parts[m].first + k]

LEMMA AppendSame ==
  ASSUME IInv, NEW e \in Extent, NEW m \in DOMAIN parts, NEW q, m \in DOMAIN q,
         q[m].first = parts[m].first, q[m].num = parts[m].num
  PROVE  SameWindow(q, Append(extents, e), m) /\ SameWindow(q, extents, m)
<1>1. extents \in Seq(Extent)
  BY InvFacts
<1>2. \A k \in 1 .. Len(extents) : Append(extents, e)[k] = extents[k]
  BY <1>1, AppendProperties
<1>3. \A k \in 1 .. parts[m].num : parts[m].first + k \in 1 .. Len(extents)
  BY WindowInside
<1> QED
  BY <1>2, <1>3 DEF SameWindow

\* Another window's extent is replaced.
LEMMA ExceptSame ==
  ASSUME IInv, NEW n \in DOMAIN parts, NEW j \in 1 .. parts[n].num, NEW e,
         NEW m \in DOMAIN parts, m # n
  PROVE  SameWindow(parts, [extents EXCEPT ![parts[n].first + j] = e], m)
<1>1. /\ parts[n].first \in Nat /\ parts[n].num \in Nat
      /\ parts[m].first \in Nat /\ parts[m].num \in Nat
      /\ \/ parts[m].first + parts[m].num <= parts[n].first
         \/ parts[n].first + parts[n].num <= parts[m].first
  BY InvFacts, WindowFacts
<1>2. \A k \in 1 .. parts[m].num : parts[m].first + k # parts[n].first + j
  BY <1>1
<1>3. /\ \A k \in 1 .. parts[m].num : parts[m].first + k \in 1 .. Len(extents)
      /\ DOMAIN extents = 1 .. Len(extents)
  BY WindowInside, InvFacts
<1> QED
  BY <1>2, <1>3 DEF SameWindow

\* An extent is inserted behind the window of n.
LEMMA InsertSame ==
  ASSUME IInv, NEW n \in DOMAIN parts, parts[n].num > 0, NEW e \in Extent, NEW p,
         NEW m \in DOMAIN parts, m # n
  PROVE  LET at == parts[n].first + parts[n].num
         IN SameWindow(With(ShiftUp(parts, at), n, p), Insert(extents, at, e), m)
<1> DEFINE at == parts[n].first + parts[n].num
           q == With(ShiftUp(parts, at), n, p)
           new == Insert(extents, at, e)
<1>1. /\ parts[n].first \in Nat /\ parts[n].num \in Nat /\ at <= Len(extents)
      /\ parts[m] \in Partition /\ parts[m].first \in Nat /\ parts[m].num \in Nat
      /\ parts[m].first + parts[m].num <= Len(extents)
      /\ \/ parts[m].first + parts[m].num <= parts[n].first
         \/ at <= parts[m].first
      /\ extents \in Seq(Extent) /\ Len(extents) \in Nat
  BY InvFacts, WindowFacts
<1>2. /\ m \in DOMAIN q
      /\ q[m] = IF parts[m].first >= at THEN [parts[m] EXCEPT !.first = @ + 1] ELSE parts[m]
  BY DEF With, ShiftUp
<1>3. \A i \in 1 .. Len(extents) + 1 :
        new[i] = IF i <= at THEN extents[i] ELSE IF i = at + 1 THEN e ELSE extents[i - 1]
  <2>1. at \in 0 .. Len(extents)
    BY <1>1
  <2>2. extents \in Seq(Extent)
    BY <1>1
  <2> HIDE DEF at
  <2> QED
    BY Zenon, <2>1, <2>2, InsertProperties
<1> HIDE DEF q, new
<1>4. CASE parts[m].first >= at
  <2>1. q[m].first = parts[m].first + 1 /\ q[m].num = parts[m].num
    BY <1>1, <1>2, <1>4 DEF Partition
  <2>2. ASSUME NEW k \in 1 .. parts[m].num
        PROVE  new[q[m].first + k] = extents[parts[m].first + k]
    <3> DEFINE i == q[m].first + k
    <3>1. /\ i \in 1 .. Len(extents) + 1 /\ ~(i <= at) /\ i # at + 1
          /\ i - 1 = parts[m].first + k
      <4>1. at \in Nat /\ i = parts[m].first + 1 + k /\ k \in Nat /\ k >= 1 /\ k <= parts[m].num
        BY <1>1, <2>1
      <4> HIDE DEF at, i
      <4> QED
        BY SMTT(30), <1>1, <1>4, <4>1
    <3> HIDE DEF i, at
    <3>2. new[i] = extents[i - 1]
      BY Zenon, <1>3, <3>1
    <3> QED
      BY <3>1, <3>2 DEF i
  <2> QED
    BY <1>2, <2>1, <2>2 DEF SameWindow, q, new
<1>5. CASE ~(parts[m].first >= at)
  <2>1. q[m] = parts[m]
    BY <1>2, <1>5
  <2>2. ASSUME NEW k \in 1 .. parts[m].num
        PROVE  new[q[m].first + k] = extents[parts[m].first + k]
    <3> DEFINE i == parts[m].first + k
    <3>1. i \in 1 .. Len(extents) + 1 /\ i <= at
      BY SMTT(30), <1>1, <1>5
    <3> HIDE DEF i, at
    <3>2. new[i] = extents[i]
      BY Zenon, <1>3, <3>1
    <3> QED
      BY <2>1, <3>2 DEF i
  <2> QED
    BY <1>2, <2>1, <2>2 DEF SameWindow, q, new
<1> QED
  BY <1>4, <1>5

\* Place o of a window behind the drained ones, and the place i it moves to.
LEMMA DrainedPlace ==
  ASSUME NEW len \in Nat, NEW a \in Nat, NEW num \in Nat, a + num <= len, NEW j \in 0 .. num,
         NEW b \in Nat, NEW c \in Nat, b + c <= len, b >= a + num, NEW k \in 1 .. c,
         NEW f, f = b - (num - j)
  PROVE  /\ f + k = (b + k) - (num - j) /\ f + k \in 1 .. len - (num - j)
         /\ ~(f + k <= a + j) /\ (f + k) + (num - j) = b + k
         /\ b + k \in 1 .. len /\ b + k > a + num
OBVIOUS

\* The window of n is drained to its first j extents, which may have changed.
LEMMA DrainSame ==
  ASSUME IInv, NEW n \in DOMAIN parts, NEW j \in 0 .. parts[n].num,
         NEW q, Shrunk(parts, n, j, q),
         NEW cut \in Seq(Extent), Len(cut) = Len(extents),
         \A i \in 1 .. Len(extents) :
           i <= parts[n].first \/ i > parts[n].first + parts[n].num => cut[i] = extents[i]
  PROVE  LET new == Drain(cut, parts[n].first + j, parts[n].num - j)
         IN /\ \A m \in DOMAIN q : m # n => SameWindow(q, new, m)
            /\ \A k \in 1 .. j : new[parts[n].first + k] = cut[parts[n].first + k]
<1> DEFINE from == parts[n].first + j
           less == parts[n].num - j
           new == Drain(cut, from, less)
<1>1. /\ parts[n].first \in Nat /\ parts[n].num \in Nat
      /\ parts[n].first + parts[n].num <= Len(extents) /\ Len(extents) \in Nat
  BY InvFacts
<1>2. from \in Nat /\ less \in Nat /\ from + less <= Len(cut)
  BY <1>1
<1>3. \A i \in 1 .. Len(extents) - less : new[i] = cut[IF i <= from THEN i ELSE i + less]
  <2> HIDE DEF from, less
  <2> QED
    BY <1>2, DrainProperties
<1> HIDE DEF new
<1>4. ASSUME NEW m \in DOMAIN q, m # n
      PROVE  SameWindow(q, new, m)
  <2>1. /\ m \in DOMAIN parts
        /\ q[m].num = parts[m].num
        /\ q[m].first = IF parts[m].first >= parts[n].first + parts[n].num
                        THEN parts[m].first - less ELSE parts[m].first
    BY Zenon, <1>4 DEF Shrunk
  <2>2. /\ parts[m].first \in Nat /\ parts[m].num \in Nat
        /\ parts[m].first + parts[m].num <= Len(extents)
        /\ \/ parts[m].first + parts[m].num <= parts[n].first
           \/ parts[n].first + parts[n].num <= parts[m].first
    BY <1>4, <2>1, InvFacts, WindowFacts
  <2>3. ASSUME NEW k \in 1 .. parts[m].num
        PROVE  new[q[m].first + k] = extents[parts[m].first + k]
    <3> DEFINE i == q[m].first + k
               o == parts[m].first + k
    <3>1. CASE parts[m].first >= parts[n].first + parts[n].num
      <4>1. /\ i = o - less /\ i \in 1 .. Len(extents) - less /\ ~(i <= from)
            /\ i + less = o
            /\ o \in 1 .. Len(extents) /\ o > parts[n].first + parts[n].num
        <5>1. q[m].first = parts[m].first - less
          BY <2>1, <3>1
        <5>2. /\ Len(extents) \in Nat /\ parts[n].first \in Nat /\ parts[n].num \in Nat
              /\ parts[n].first + parts[n].num <= Len(extents)
              /\ parts[m].first \in Nat /\ parts[m].num \in Nat
              /\ parts[m].first + parts[m].num <= Len(extents)
          BY <1>1, <2>2
        <5> QED
          <6> DEFINE A == parts[n].first
                     N == parts[n].num
                     L == Len(extents)
                     B == parts[m].first
                     C == parts[m].num
                     F == q[m].first
          <6>1. L \in Nat /\ A \in Nat /\ N \in Nat /\ A + N <= L /\ B \in Nat /\ C \in Nat
                /\ B + C <= L /\ B >= A + N /\ j \in 0 .. N /\ k \in 1 .. C
            BY <3>1, <5>2
          <6>2. F = B - (N - j)
            BY <5>1
          <6> HIDE DEF A, N, L, B, C, F
          <6>3. /\ F + k = (B + k) - (N - j) /\ F + k \in 1 .. L - (N - j)
                /\ ~(F + k <= A + j) /\ (F + k) + (N - j) = B + k
                /\ B + k \in 1 .. L /\ B + k > A + N
            BY <6>1, <6>2, DrainedPlace
          <6> QED
            BY <6>3 DEF A, N, L, B, C, F
      <4> HIDE DEF i, o, from, less
      <4>2. new[i] = cut[o]
        BY Zenon, <1>3, <4>1
      <4>3. cut[o] = extents[o]
        BY <4>1
      <4> QED
        BY Zenon, <4>2, <4>3 DEF i, o
    <3>2. CASE ~(parts[m].first >= parts[n].first + parts[n].num)
      <4>1. /\ i = o /\ i \in 1 .. Len(extents) - less /\ i <= from
            /\ o \in 1 .. Len(extents) /\ o <= parts[n].first
        BY SMTT(30), <1>1, <2>1, <2>2, <3>2
      <4> HIDE DEF i, o, from, less
      <4>2. new[i] = cut[o]
        BY Zenon, <1>3, <4>1
      <4>3. cut[o] = extents[o]
        BY <4>1
      <4> QED
        BY Zenon, <4>2, <4>3 DEF i, o
    <3> QED
      BY <3>1, <3>2
  <2> QED
    BY <1>4, <2>1, <2>3 DEF SameWindow
<1>5. ASSUME NEW k \in 1 .. j
      PROVE  new[parts[n].first + k] = cut[parts[n].first + k]
  <2> DEFINE i == parts[n].first + k
  <2>1. i \in 1 .. Len(extents) - less /\ i <= from
    BY <1>1
  <2> HIDE DEF i, from, less
  <2>2. new[i] = cut[i]
    BY Zenon, <1>3, <2>1
  <2> QED
    BY <2>2 DEF i
<1> QED
  BY Zenon, <1>4, <1>5 DEF new, from, less

\* The cascade.
LEMMA CompactSame ==
  ASSUME IInv, NEW S, S \subseteq DOMAIN parts, NEW m \in DOMAIN parts \ S
  PROVE  SameWindow(CompactParts(S), CompactExtents(S), m)
<1> DEFINE K == Kept(S)
           n == Cardinality(K)
           Origin(k) == CHOOSE i \in K : Below(K, i) = k
           q == CompactParts(S)
           new == CompactExtents(S)
<1>1. /\ SoundWindows(parts, extents) /\ Len(extents) \in Nat
      /\ parts[m] \in Partition /\ parts[m].first \in Nat /\ parts[m].num \in Nat
      /\ parts[m].first + parts[m].num <= Len(extents)
  BY InvFacts
<1>2. /\ K \subseteq 0 .. Len(extents) - 1 /\ IsFiniteSet(K) /\ K \subseteq Int /\ n \in Nat
      /\ parts[m].first - Below(Gone(S), parts[m].first) = Below(K, parts[m].first)
  BY <1>1, KeptFacts
<1>3. \A k \in 1 .. n : new[k] = extents[Origin(k - 1) + 1]
  BY DEF CompactExtents, Kept
<1>4. m \in DOMAIN q /\ q[m].num = parts[m].num /\ q[m].first = Below(K, parts[m].first)
  <2>1. m \in DOMAIN q /\ q[m] = [parts[m] EXCEPT !.first = @ - Below(Gone(S), @)]
    BY DEF CompactParts
  <2> HIDE DEF q, K
  <2> QED
    BY <1>1, <1>2, <2>1 DEF Partition
<1>5. ASSUME NEW i \in Int, parts[m].first <= i, i < parts[m].first + parts[m].num
      PROVE  i \in K
  <2>1. \A k \in Gone(S) : k < parts[m].first \/ parts[m].first + parts[m].num <= k
    BY <1>1, GoneFacts
  <2>2. i \notin Gone(S)
    BY <1>1, <1>5, <2>1
  <2> QED
    BY <1>1, <1>5, <2>2 DEF Kept
<1>6. /\ \A i \in K : Below(K, i) \in 0 .. n - 1
      /\ \A i, j \in K : Below(K, i) = Below(K, j) => i = j
  <2> HIDE DEF K
  <2> QED
    BY <1>1, <1>2, OriginExists
<1> HIDE DEF K, n, q, new
<1>7. ASSUME NEW k \in 1 .. parts[m].num
      PROVE  new[q[m].first + k] = extents[parts[m].first + k]
  <2> DEFINE a == parts[m].first
             o == a + k - 1
  <2>1. a \in Int /\ o \in Int /\ a <= o /\ o < a + parts[m].num /\ o - a = k - 1 /\ o + 1 = a + k
    BY <1>1
  <2>2. o \in K
    BY <1>5, <2>1
  <2>3. \A i \in a .. o - 1 : i \in K
    <3> SUFFICES ASSUME NEW i \in a .. o - 1 PROVE i \in K
      OBVIOUS
    <3>1. i \in Int /\ a <= i /\ i < a + parts[m].num
      BY <1>1, <2>1
    <3> QED
      BY <1>5, <3>1
  <2> HIDE DEF a, o
  <2>4. Below(K, o) = Below(K, a) + (o - a) /\ Below(K, a) \in Nat
    BY <1>2, <2>1, <2>3, BelowGap, BelowSplits
  <2>5. q[m].first = Below(K, a)
    BY <1>4 DEF a
  <2>6. /\ Below(K, o) \in 0 .. n - 1
        /\ q[m].first + k \in 1 .. n /\ (q[m].first + k) - 1 = Below(K, o)
    BY SMTT(30), <1>2, <1>6, <2>1, <2>2, <2>4, <2>5
  <2>7. Origin(Below(K, o)) = o
    BY <1>6, <2>2
  <2> HIDE DEF Origin
  <2>8. new[q[m].first + k] = extents[o + 1]
    BY Zenon, <1>3, <2>6, <2>7
  <2> QED
    BY <2>1, <2>8 DEF a
<1> QED
  BY <1>4, <1>7 DEF SameWindow, q, new

----------------------------------------------------------------------------
\* The pool after a table is written.
LimitsOf(grps) ==
  [g \in {grps[i].name : i \in DOMAIN grps} |->
     (CHOOSE grp \in {grps[i] : i \in DOMAIN grps} : grp.name = g).max]

NamedApart(grps) == \A i, j \in DOMAIN grps : grps[i].name = grps[j].name => i = j

LEMMA LimitsFacts ==
  ASSUME NEW grps, NamedApart(grps), NEW i \in DOMAIN grps
  PROVE  /\ grps[i].name \in DOMAIN LimitsOf(grps)
         /\ LimitsOf(grps)[grps[i].name] = grps[i].max
<1> DEFINE X == {grps[k] : k \in DOMAIN grps}
           g == grps[i].name
           c == CHOOSE grp \in X : grp.name = g
<1>1. \E grp \in X : grp.name = g
  OBVIOUS
<1>2. c \in X /\ c.name = g
  BY <1>1
<1> HIDE DEF c
<1>3. PICK k \in DOMAIN grps : c = grps[k]
  BY <1>2
<1>4. c = grps[i]
  BY <1>2, <1>3 DEF NamedApart
<1>5. LimitsOf(grps)[g] = c.max /\ g \in DOMAIN LimitsOf(grps)
  BY DEF LimitsOf, c
<1> QED
  BY <1>4, <1>5

LEMMA PoolIs ==
  /\ DOMAIN Volumes = DOMAIN parts /\ DOMAIN GroupNamesOf = DOMAIN parts
  /\ \A n \in DOMAIN parts :
       /\ Volumes[n] = Spelled(extents, parts[n].first, parts[n].num)
       /\ GroupNamesOf[n] = groups[parts[n].group + 1].name
  /\ GroupLimits = LimitsOf(groups)
BY VolumeIs DEF GroupNamesOf, GroupAt, GroupLimits, LimitsOf

LEMMA AfterWrite ==
  ASSUME NEW q, NEW new, NEW grps, WriteMetadata(q, new, grps)
  PROVE  /\ DOMAIN Volumes' = DOMAIN q /\ DOMAIN GroupNamesOf' = DOMAIN q
         /\ \A n \in DOMAIN q :
              /\ Volumes'[n] = Spelled(new, q[n].first, q[n].num)
              /\ GroupNamesOf'[n] = grps[q[n].group + 1].name
         /\ GroupLimits' = LimitsOf(grps)
         /\ groups' = grps
<1>1. parts' = q /\ extents' = new /\ groups' = grps
  BY DEF WriteMetadata
<1>2. /\ DOMAIN Volumes' = DOMAIN parts' /\ DOMAIN GroupNamesOf' = DOMAIN parts'
      /\ \A n \in DOMAIN parts' :
           /\ Volumes'[n] = Spelled(extents', parts'[n].first, parts'[n].num)
           /\ GroupNamesOf'[n] = groups'[parts'[n].group + 1].name
      /\ GroupLimits' = LimitsOf(groups')
  BY DEF Volumes, VolumeOf, Spelled, GroupNamesOf, GroupAt, GroupLimits, LimitsOf
<1> QED
  BY <1>1, <1>2

\* A partition whose extents and whose group's name are kept is kept.
SameMember(q, grps, m) == grps[q[m].group + 1].name = groups[parts[m].group + 1].name

LEMMA KeptAfter ==
  ASSUME NEW q, NEW new, NEW grps, WriteMetadata(q, new, grps), NEW S,
         \A m \in S : SameWindow(q, new, m) /\ SameMember(q, grps, m)
  PROVE  Pool!Keeps(S)
<1> SUFFICES ASSUME NEW m \in S
             PROVE  m \in DOMAIN Volumes' /\ Volumes'[m] = Volumes[m] /\ GroupNamesOf'[m] = GroupNamesOf[m]
  BY DEF Pool!Keeps
<1>1. SameWindow(q, new, m) /\ SameMember(q, grps, m)
  OBVIOUS
<1>2. /\ m \in DOMAIN parts /\ m \in DOMAIN q /\ q[m].num = parts[m].num
      /\ \A k \in 1 .. parts[m].num : new[q[m].first + k] = extents[parts[m].first + k]
  BY <1>1 DEF SameWindow
<1>3. Spelled(new, q[m].first, parts[m].num) = Spelled(extents, parts[m].first, parts[m].num)
  BY <1>2, SpelledSame
<1>4. /\ m \in DOMAIN Volumes'
      /\ Volumes'[m] = Spelled(new, q[m].first, q[m].num)
      /\ GroupNamesOf'[m] = grps[q[m].group + 1].name
  BY <1>2, AfterWrite
<1>5. /\ Volumes[m] = Spelled(extents, parts[m].first, parts[m].num)
      /\ GroupNamesOf[m] = groups[parts[m].group + 1].name
  BY <1>2, PoolIs
<1> QED
  BY <1>1, <1>2, <1>3, <1>4, <1>5 DEF SameMember

\* With the groups as they are, and everyone in the group they were in.
LEMMA MembersAfter ==
  ASSUME NEW q, NEW new, WriteMetadata(q, new, groups), DOMAIN q = DOMAIN parts,
         \A m \in DOMAIN parts : q[m].group = parts[m].group
  PROVE  Pool!SameMembers /\ DOMAIN Volumes' = Pool!Live
<1>1. /\ DOMAIN GroupNamesOf' = DOMAIN parts
      /\ \A m \in DOMAIN parts : GroupNamesOf'[m] = groups[parts[m].group + 1].name
      /\ GroupLimits' = LimitsOf(groups) /\ DOMAIN Volumes' = DOMAIN parts
  BY AfterWrite
<1>2. /\ DOMAIN GroupNamesOf = DOMAIN parts /\ DOMAIN Volumes = DOMAIN parts
      /\ \A m \in DOMAIN parts : GroupNamesOf[m] = groups[parts[m].group + 1].name
      /\ GroupLimits = LimitsOf(groups)
  BY PoolIs
<1>3. GroupNamesOf' = GroupNamesOf
  <2>1. /\ GroupNamesOf' = [m \in DOMAIN GroupNamesOf' |-> GroupNamesOf'[m]]
        /\ GroupNamesOf = [m \in DOMAIN GroupNamesOf |-> GroupNamesOf[m]]
    BY DEF GroupNamesOf
  <2> QED
    BY <1>1, <1>2, <2>1
<1> QED
  BY <1>1, <1>2, <1>3 DEF Pool!SameMembers, Pool!Live

----------------------------------------------------------------------------
\* The groups of a table have names of their own, and the commands keep it so.
\* Of the table a history starts from it has to be assumed: make takes the
\* groups as they are given.
PInv == IInv /\ NamedApart(groups)

\* The group table with g added, or as it was.
GroupsGrow(grps, g) ==
  /\ NamedApart(grps)
  /\ \A k \in DOMAIN groups : k \in DOMAIN grps /\ grps[k] = groups[k]
  /\ \A k \in DOMAIN grps : k \in DOMAIN groups \/ grps[k].name = g

LEMMA GroupsStay ==
  ASSUME PInv, NEW g
  PROVE  GroupsGrow(groups, g)
BY DEF PInv, GroupsGrow

LEMMA GroupsForGrows ==
  ASSUME PInv, NEW g \in NewGroups, NEW sizes \in GroupSizeOpts(g)
  PROVE  GroupsGrow(GroupsFor(g, sizes), g)
<1>1. CASE GroupsFor(g, sizes) = groups
  BY <1>1, GroupsStay
<1>2. CASE GroupsFor(g, sizes) # groups
  <2> DEFINE new == [name |-> g, max |-> CHOOSE s \in sizes : TRUE]
             grps == Append(groups, new)
  <2>1. GroupsFor(g, sizes) = grps /\ ~HasGroup(groups, g) /\ sizes # {}
    BY <1>2 DEF GroupsFor
  <2>2. groups \in Seq(Group) /\ Len(groups) \in Nat /\ DOMAIN groups = 1 .. Len(groups) /\ NamedApart(groups)
    BY InvFacts DEF PInv
  <2>3. new \in Group /\ new.name = g
    <3>1. g \in GroupNames
      BY NamesAssumption
    <3>2. PICK s \in GroupSizes : sizes = {s}
      BY <2>1 DEF GroupSizeOpts
    <3>3. (CHOOSE t \in sizes : TRUE) \in Nat
      BY <3>2, SizesAssumption
    <3> QED
      BY <3>1, <3>3 DEF Group
  <2> HIDE DEF new
  <2>4. /\ grps \in Seq(Group) /\ Len(grps) = Len(groups) + 1
        /\ \A k \in 1 .. Len(groups) : grps[k] = groups[k]
        /\ grps[Len(groups) + 1] = new
    BY <2>2, <2>3, AppendProperties
  <2> HIDE DEF grps
  <2>5. DOMAIN grps = 1 .. Len(groups) + 1
    BY <2>4, LenProperties
  <2>6. \A k \in DOMAIN groups : groups[k].name # g
    BY <2>1 DEF HasGroup
  <2>7. \A k \in DOMAIN grps : k \in DOMAIN groups \/ (k = Len(groups) + 1 /\ grps[k].name = g)
    BY <2>2, <2>3, <2>4, <2>5
  <2>8. \A k \in DOMAIN groups : k \in DOMAIN grps /\ grps[k] = groups[k]
    BY <2>2, <2>4, <2>5
  <2>9. NamedApart(grps)
    BY <2>2, <2>6, <2>7, <2>8 DEF NamedApart
  <2> QED
    BY <2>1, <2>7, <2>8, <2>9 DEF GroupsGrow
<1> QED
  BY <1>1, <1>2

LEMMA LimitsGrow ==
  ASSUME PInv, NEW grps, NEW g, GroupsGrow(grps, g)
  PROVE  /\ DOMAIN LimitsOf(groups) \subseteq DOMAIN LimitsOf(grps)
         /\ DOMAIN LimitsOf(grps) \subseteq DOMAIN LimitsOf(groups) \cup {g}
         /\ \A h \in DOMAIN LimitsOf(groups) : LimitsOf(grps)[h] = LimitsOf(groups)[h]
<1>1. /\ DOMAIN LimitsOf(groups) = {groups[k].name : k \in DOMAIN groups}
      /\ DOMAIN LimitsOf(grps) = {grps[k].name : k \in DOMAIN grps}
  BY DEF LimitsOf
<1>2. /\ \A k \in DOMAIN groups : k \in DOMAIN grps /\ grps[k] = groups[k]
      /\ \A k \in DOMAIN grps : k \in DOMAIN groups \/ grps[k].name = g
      /\ NamedApart(grps) /\ NamedApart(groups)
  BY DEF GroupsGrow, PInv
<1>3. ASSUME NEW h \in DOMAIN LimitsOf(groups)
      PROVE  LimitsOf(grps)[h] = LimitsOf(groups)[h]
  <2>1. PICK k \in DOMAIN groups : h = groups[k].name
    BY <1>1
  <2>2. LimitsOf(groups)[h] = groups[k].max
    BY <1>2, <2>1, LimitsFacts
  <2>3. LimitsOf(grps)[grps[k].name] = grps[k].max
    BY <1>2, LimitsFacts
  <2> QED
    BY <1>2, <2>1, <2>2, <2>3
<1> QED
  BY <1>1, <1>2, <1>3

LEMMA SpelledOne ==
  ASSUME NEW exts, NEW first \in Nat, exts[first + 1] \in Extent
  PROVE  Spelled(exts, first, 1) = SectorsOf(exts[first + 1])
<1>1. Inside(exts, first, 0 + 1) /\ first + 0 + 1 = first + 1 /\ 0 + 1 = 1
  BY DEF Inside
<1>2. Spelled(exts, first, 0 + 1) = Spelled(exts, first, 0) \o SectorsOf(exts[first + 0 + 1])
  BY <1>1, SpelledNext
<1>3. SectorsOf(exts[first + 1]) \in Seq(Places)
  BY SectorsFacts
<1> QED
  BY <1>1, <1>2, <1>3, SpelledNone, ConcatEmptySeq

----------------------------------------------------------------------------
\* Each command is a step of the pool.

\* A partition with no entry before, behind everyone else.
LEMMA NewVolumeStep ==
  ASSUME PInv, NEW n, n \notin DOMAIN parts, NEW p, NEW new, NEW grps,
         WriteMetadata(With(parts, n, p), new, grps),
         \A m \in DOMAIN parts : SameWindow(With(parts, n, p), new, m),
         p.group + 1 \in DOMAIN grps, GroupsGrow(grps, grps[p.group + 1].name),
         Pool!ExtendsBy(<<>>, Spelled(new, p.first, p.num))
  PROVE  Pool!NewVolume(n)
<1> DEFINE q == With(parts, n, p)
           g == grps[p.group + 1].name
<1>1. /\ DOMAIN q = DOMAIN parts \cup {n} /\ q[n] = p
      /\ \A m \in DOMAIN parts : q[m] = parts[m]
  BY DEF With
<1> HIDE DEF q
<1>2. /\ DOMAIN Volumes' = DOMAIN q /\ DOMAIN GroupNamesOf' = DOMAIN q
      /\ \A m \in DOMAIN q :
           /\ Volumes'[m] = Spelled(new, q[m].first, q[m].num)
           /\ GroupNamesOf'[m] = grps[q[m].group + 1].name
      /\ GroupLimits' = LimitsOf(grps)
  BY AfterWrite DEF q
<1>3. Pool!Live = DOMAIN parts /\ Pool!Groups = DOMAIN LimitsOf(groups) /\ GroupLimits = LimitsOf(groups)
  BY PoolIs DEF Pool!Live, Pool!Groups
<1>4. \A m \in DOMAIN parts : SameMember(q, grps, m)
  <2>1. \A m \in DOMAIN parts : parts[m].group + 1 \in DOMAIN groups
    BY InvFacts DEF PInv
  <2>2. \A k \in DOMAIN groups : grps[k] = groups[k]
    BY DEF GroupsGrow
  <2> QED
    BY <1>1, <2>1, <2>2 DEF SameMember
<1>5. Pool!Keeps(DOMAIN parts)
  BY <1>4, KeptAfter DEF q
<1>6. Volumes'[n] = Spelled(new, p.first, p.num) /\ GroupNamesOf'[n] = g
  BY <1>1, <1>2
<1>7. /\ DOMAIN LimitsOf(groups) \subseteq DOMAIN LimitsOf(grps)
      /\ DOMAIN LimitsOf(grps) \subseteq DOMAIN LimitsOf(groups) \cup {g}
      /\ \A h \in DOMAIN LimitsOf(groups) : LimitsOf(grps)[h] = LimitsOf(groups)[h]
  BY LimitsGrow
<1>8. g \in DOMAIN LimitsOf(grps)
  BY DEF LimitsOf
<1> HIDE DEF g
<1> QED
  BY <1>1, <1>2, <1>3, <1>5, <1>6, <1>7, <1>8 DEF Pool!NewVolume

\* add and create, on the group table they end with.
LEMMA PlaceStep ==
  ASSUME PInv, NEW n, n \notin DOMAIN parts, NEW grps, NEW i \in Nat, i + 1 \in DOMAIN grps,
         GroupsGrow(grps, grps[i + 1].name),
         NEW needed \in Nat \ {0}, NEW allowed, allowed \subseteq DeviceIndices(Devs),
         NEW force, Place(n, i, grps, needed, allowed, force)
  PROVE  Pool!NewVolume(n)
<1> DEFINE p == [first |-> Len(extents), num |-> 1, group |-> i]
<1>1. PICK d \in allowed : \E s \in FreeStarts(extents, Devs, d, needed) :
        WriteMetadata(With(parts, n, p), Append(extents, LinearExtent(d, s, needed)), grps)
  BY DEF Place
<1>2. PICK s \in FreeStarts(extents, Devs, d, needed) :
        WriteMetadata(With(parts, n, p), Append(extents, LinearExtent(d, s, needed)), grps)
  BY <1>1
<1> DEFINE e == LinearExtent(d, s, needed)
           q == With(parts, n, p)
           new == Append(extents, e)
<1>3. IInv /\ extents \in Seq(Extent) /\ Len(extents) \in Nat
  BY InvFacts DEF PInv
<1>4. d \in DeviceIndices(Devs)
  BY <1>1
<1>5. s \in Nat /\ Device(Devs, d).first <= s /\ IsRangeFree(extents, Devs, d, s, needed)
  BY <1>3, <1>4, FreeStartsSound
<1>6. e \in Extent
  BY <1>4, <1>5, LinearExtentFacts
<1>7. /\ p.first = Len(extents) /\ p.num = 1 /\ p.group = i
      /\ \A m \in DOMAIN parts : m \in DOMAIN q /\ q[m] = parts[m]
  BY DEF With
<1> HIDE DEF p, q
<1>8. new[Len(extents) + 1] = e
  <2> HIDE DEF e
  <2> QED
    BY <1>3, <1>6, AppendProperties
<1>9. \A m \in DOMAIN parts : SameWindow(q, new, m)
  <2> HIDE DEF e
  <2> QED
    BY <1>3, <1>6, <1>7, AppendSame
<1>10. Spelled(new, p.first, p.num) = SectorsOf(e)
  <2> HIDE DEF e, new
  <2> QED
    BY <1>3, <1>6, <1>7, <1>8, SpelledOne
<1>11. Pool!ExtendsBy(<<>>, SectorsOf(e))
  <2>1. <<>> \in Seq(Places) /\ SectorsOf(e) \in Seq(Places)
    BY <1>4, <1>5, LinearExtentFacts, EmptySeq
  <2>2. Pool!ExtendsBy(<<>>, <<>> \o SectorsOf(e))
    BY <1>3, <1>4, <1>5, <2>1, ExtendsWithFresh
  <2>3. <<>> \o SectorsOf(e) = SectorsOf(e)
    <3> HIDE DEF e
    <3> QED
      BY <2>1, ConcatEmptySeq
  <2> QED
    BY Zenon, <2>2, <2>3
<1>12. WriteMetadata(With(parts, n, p), new, grps)
  BY <1>2 DEF p
<1> HIDE DEF new, e
<1> QED
  BY <1>7, <1>9, <1>10, <1>11, <1>12, NewVolumeStep DEF q

LEMMA AddStep ==
  ASSUME PInv, NEW n \in Names, NEW i \in GroupIndices, NEW needed \in Requests,
         NEW bound \in SUBSET (DeviceIndices(Devs) \ {0}), NEW force \in BOOLEAN,
         Add(n, i, needed, bound, force)
  PROVE  Pool!NewVolume(n)
<1>1. needed \in Nat \ {0}
  BY SizesAssumption DEF Requests
<1>2. {0} \cup bound \subseteq DeviceIndices(Devs)
  BY DevicesAssumption, EmptySeq DEF DeviceIndices
<1>3. /\ n \notin DOMAIN parts /\ i \in 0 .. Len(groups) - 1
      /\ Place(n, i, groups, needed, {0} \cup bound, force)
  BY DEF Add, GroupIndices
<1>4. i \in Nat /\ i + 1 \in DOMAIN groups
  BY <1>3, InvFacts DEF PInv
<1> QED
  BY <1>1, <1>2, <1>3, <1>4, GroupsStay, PlaceStep

LEMMA CreateStep ==
  ASSUME PInv, NEW n \in Names, NEW g \in NewGroups, NEW sizes \in GroupSizeOpts(g),
         NEW needed \in Requests, NEW force \in BOOLEAN,
         Create(n, g, sizes, needed, force)
  PROVE  Pool!NewVolume(n)
<1> DEFINE grps == GroupsFor(g, sizes)
<1>1. needed \in Nat \ {0}
  BY SizesAssumption DEF Requests
<1>2. PICK i \in DOMAIN grps :
        grps[i].name = g /\ Place(n, i - 1, grps, needed, DeviceIndices(Devs), force)
  BY DEF Create
<1>3. n \notin DOMAIN parts
  BY DEF Create
<1>4. GroupsGrow(grps, g) /\ DOMAIN grps = 1 .. Len(grps) /\ Len(grps) \in Nat
  BY GroupsForGrows, GroupsForType DEF PInv
<1> HIDE DEF grps
<1>5. i - 1 \in Nat /\ (i - 1) + 1 = i
  BY <1>4
<1> QED
  BY <1>1, <1>2, <1>3, <1>4, <1>5, PlaceStep

LEMMA CreateEmptyStep ==
  ASSUME PInv, NEW n \in Names, NEW g \in NewGroups, NEW sizes \in GroupSizeOpts(g),
         CreateEmpty(n, g, sizes)
  PROVE  Pool!NewVolume(n)
<1> DEFINE grps == GroupsFor(g, sizes)
           P(i) == [first |-> Len(extents), num |-> 0, group |-> i - 1]
<1>1. PICK i \in DOMAIN grps :
        grps[i].name = g /\ WriteMetadata(With(parts, n, P(i)), extents, grps)
  BY DEF CreateEmpty
<1>2. n \notin DOMAIN parts
  BY DEF CreateEmpty
<1>3. GroupsGrow(grps, g) /\ DOMAIN grps = 1 .. Len(grps) /\ Len(grps) \in Nat
  BY GroupsForGrows, GroupsForType DEF PInv
<1> HIDE DEF grps
<1> DEFINE p == P(i)
           q == With(parts, n, p)
<1>4. /\ p.first = Len(extents) /\ p.num = 0 /\ p.group + 1 = i
      /\ \A m \in DOMAIN parts : m \in DOMAIN q /\ q[m] = parts[m]
  <2>1. p.first = Len(extents) /\ p.num = 0 /\ p.group = i - 1
    OBVIOUS
  <2>2. (i - 1) + 1 = i
    BY <1>3
  <2>3. \A m \in DOMAIN parts : m \in DOMAIN q /\ q[m] = parts[m]
    BY <1>2 DEF With
  <2> QED
    BY <2>1, <2>2, <2>3
<1>5. WriteMetadata(With(parts, n, p), extents, grps)
  BY <1>1
<1> HIDE DEF p, q
<1>6. \A m \in DOMAIN parts : SameWindow(q, extents, m)
  BY <1>4 DEF SameWindow
<1>7. Spelled(extents, p.first, p.num) = <<>>
  <2>1. Len(extents) \in Nat
    BY InvFacts DEF PInv
  <2> QED
    BY <1>4, <2>1, SpelledNone
<1>8. Pool!ExtendsBy(<<>>, <<>>)
  <2>1. Len(<<>>) = 0 /\ <<>> \in Seq(Places)
    BY EmptySeq
  <2>2. <<>> = SubSeq(<<>> \o <<>>, 1, Len(<<>>)) /\ <<>> \o <<>> = <<>>
    BY <2>1, BeginningIs, ConcatEmptySeq
  <2>3. <<>> = SubSeq(<<>>, 1, Len(<<>>))
    BY Zenon, <2>2
  <2>4. Len(<<>>) + 1 .. Len(<<>>) = {} /\ Len(<<>>) <= Len(<<>>)
    BY <2>1
  <2> QED
    BY Zenon, <2>3, <2>4 DEF Pool!ExtendsBy
<1> QED
  BY <1>1, <1>2, <1>3, <1>4, <1>5, <1>6, <1>7, <1>8, NewVolumeStep DEF q

\* One window gets more extents, or a longer one; the others are kept.
LEMMA GrowStep ==
  ASSUME PInv, NEW n \in DOMAIN parts, NEW q, NEW new, WriteMetadata(q, new, groups),
         DOMAIN q = DOMAIN parts, \A m \in DOMAIN parts : q[m].group = parts[m].group,
         \A m \in DOMAIN parts : m # n => SameWindow(q, new, m),
         Pool!ExtendsBy(Volumes[n], Spelled(new, q[n].first, q[n].num))
  PROVE  Pool!Grow(n)
<1>1. Pool!SameMembers /\ DOMAIN Volumes' = Pool!Live
  BY MembersAfter
<1>2. \A m \in DOMAIN parts : SameMember(q, groups, m)
  BY DEF SameMember
<1>3. Pool!Live = DOMAIN parts
  BY PoolIs DEF Pool!Live
<1>4. Pool!Keeps(Pool!Live \ {n})
  BY <1>2, <1>3, KeptAfter
<1>5. Volumes'[n] = Spelled(new, q[n].first, q[n].num)
  BY AfterWrite
<1> QED
  BY <1>1, <1>4, <1>5 DEF Pool!Grow

LEMMA GrowFreshStep ==
  ASSUME PInv, NEW n \in DOMAIN parts, NEW extra \in Requests, NEW force \in BOOLEAN,
         GrowFresh(n, extra, force)
  PROVE  Pool!Grow(n)
<1> DEFINE p == [parts[n] EXCEPT !.first = Len(extents), !.num = 1]
           q == With(parts, n, p)
<1>1. extra \in Nat
  BY SizesAssumption DEF Requests
<1>2. PICK d \in DeviceIndices(Devs) : \E s \in FreeStarts(extents, Devs, d, extra) :
        WriteMetadata(q, Append(extents, LinearExtent(d, s, extra)), groups)
  BY DEF GrowFresh
<1>3. PICK s \in FreeStarts(extents, Devs, d, extra) :
        WriteMetadata(q, Append(extents, LinearExtent(d, s, extra)), groups)
  BY <1>2
<1> DEFINE e == LinearExtent(d, s, extra)
           new == Append(extents, e)
<1>4. /\ IInv /\ extents \in Seq(Extent) /\ Len(extents) \in Nat
      /\ parts[n] \in Partition /\ parts[n].first \in Nat /\ parts[n].num = 0
  BY InvFacts DEF PInv, GrowFresh
<1>5. s \in Nat /\ Device(Devs, d).first <= s /\ IsRangeFree(extents, Devs, d, s, extra)
  BY <1>1, <1>4, FreeStartsSound
<1>6. e \in Extent /\ SectorsOf(e) \in Seq(Places)
  BY <1>1, <1>5, LinearExtentFacts
<1>7. p.first = Len(extents) /\ p.num = 1 /\ p.group = parts[n].group
  BY <1>4 DEF Partition
<1>8. /\ DOMAIN q = DOMAIN parts /\ q[n] = p
      /\ \A m \in DOMAIN parts : m # n => q[m] = parts[m]
  BY DEF With
<1>9. WriteMetadata(q, new, groups)
  BY <1>3
<1>10. new[Len(extents) + 1] = e
  <2> HIDE DEF e
  <2> QED
    BY <1>4, <1>6, AppendProperties
<1> HIDE DEF p, q
<1>11. \A m \in DOMAIN parts : m # n => SameWindow(q, new, m)
  <2> HIDE DEF e
  <2> QED
    BY <1>4, <1>6, <1>8, AppendSame
<1>12. Spelled(new, p.first, p.num) = SectorsOf(e)
  <2> HIDE DEF e, new
  <2> QED
    BY <1>4, <1>6, <1>7, <1>10, SpelledOne
<1>13. Volumes[n] = <<>>
  BY <1>4, PoolIs, SpelledNone
<1>14. Pool!ExtendsBy(<<>>, SectorsOf(e))
  <2>1. <<>> \in Seq(Places)
    BY EmptySeq
  <2>2. Pool!ExtendsBy(<<>>, <<>> \o SectorsOf(e))
    BY <1>1, <1>4, <1>5, <2>1, ExtendsWithFresh
  <2>3. <<>> \o SectorsOf(e) = SectorsOf(e)
    <3> HIDE DEF e
    <3> QED
      BY <1>6, ConcatEmptySeq
  <2> QED
    BY Zenon, <2>2, <2>3
<1>15. \A m \in DOMAIN parts : q[m].group = parts[m].group
  BY <1>7, <1>8
<1> HIDE DEF e, new
<1> QED
  BY <1>8, <1>9, <1>11, <1>12, <1>13, <1>14, <1>15, GrowStep

\* The last extent of a window is the last one that it spells.
LEMMA LastSpelled ==
  ASSUME IInv, NEW n \in DOMAIN parts, parts[n].num > 0
  PROVE  /\ parts[n].num - 1 \in Nat
         /\ Spelled(extents, parts[n].first, parts[n].num - 1) \in Seq(Places)
         /\ SectorsOf(LastExtent(parts[n])) \in Seq(Places)
         /\ Volumes[n] = Spelled(extents, parts[n].first, parts[n].num - 1)
                           \o SectorsOf(LastExtent(parts[n]))
<1> DEFINE a == parts[n].first
           num == parts[n].num - 1
<1>1. /\ a \in Nat /\ num \in Nat /\ num + 1 = parts[n].num
      /\ Inside(extents, a, num + 1) /\ Inside(extents, a, num)
      /\ a + num + 1 = parts[n].first + parts[n].num
  <2>1. /\ a \in Nat /\ num \in Nat /\ num + 1 = parts[n].num
        /\ a + num + 1 = parts[n].first + parts[n].num
    BY WindowInside
  <2>2. Inside(extents, a, parts[n].num)
    BY WindowInside
  <2> QED
    BY <2>1, <2>2 DEF Inside
<1>2. LastExtent(parts[n]) = extents[a + num + 1] /\ extents[a + num + 1] \in Extent
  BY <1>1, LastExtentFacts, InvFacts, ExtentFields
<1>3. Volumes[n] = Spelled(extents, a, num + 1)
  BY <1>1, PoolIs
<1> HIDE DEF a, num
<1>4. /\ Spelled(extents, a, num + 1) = Spelled(extents, a, num) \o SectorsOf(extents[a + num + 1])
      /\ Spelled(extents, a, num) \in Seq(Places)
  BY <1>1, SpelledNext, SpelledFacts DEF SpelledOK
<1>5. SectorsOf(extents[a + num + 1]) \in Seq(Places)
  BY <1>2, SectorsFacts
<1> QED
  BY <1>1, <1>2, <1>3, <1>4, <1>5 DEF a, num

LEMMA GrowInPlaceStep ==
  ASSUME PInv, NEW n \in DOMAIN parts, NEW extra \in Requests, NEW force \in BOOLEAN,
         GrowInPlace(n, extra, force)
  PROVE  Pool!Grow(n)
<1> DEFINE a == parts[n].first
           num == parts[n].num - 1
           e == LastExtent(parts[n])
           f == [e EXCEPT !.num = @ + extra]
           new == [extents EXCEPT ![parts[n].first + parts[n].num] = f]
           w == SectorsOf(LinearExtent(e.source, End(e), extra))
<1>1. extra \in Nat
  BY SizesAssumption DEF Requests
<1>2. /\ parts[n].num > 0 /\ e.type = Linear
      /\ IsRangeFree(extents, Devs, e.source, End(e), extra)
      /\ WriteMetadata(parts, new, groups)
  BY DEF GrowInPlace, RoomBehind
<1>3. /\ IInv /\ TableExtentsApart(extents)
      /\ extents \in Seq(Extent) /\ DOMAIN extents = 1 .. Len(extents)
  BY InvFacts DEF PInv, SoundExtents
<1>4. /\ parts[n].first + parts[n].num \in 1 .. Len(extents)
      /\ e = extents[parts[n].first + parts[n].num]
  BY <1>2, <1>3, LastExtentFacts
<1>5. /\ e \in Extent /\ e.num \in Nat /\ e.data \in Nat /\ e.source \in DeviceIndices(Devs)
      /\ End(e) \in Nat /\ Device(Devs, e.source).first <= e.data
  <2>1. \A i \in DOMAIN extents : extents[i].type = Linear =>
          Device(Devs, extents[i].source).first <= extents[i].data
    BY <1>3 DEF TableExtentsApart
  <2> HIDE DEF e
  <2> QED
    BY <1>2, <1>3, <1>4, <2>1, ExtentFields
<1>6. Device(Devs, e.source).first <= End(e)
  <2>1. Device(Devs, e.source).first \in Nat
    BY <1>5, DeviceType
  <2> HIDE DEF e
  <2> QED
    BY <1>5, <2>1 DEF End
<1>7. /\ num \in Nat /\ Spelled(extents, a, num) \in Seq(Places)
      /\ SectorsOf(e) \in Seq(Places)
      /\ Volumes[n] = Spelled(extents, a, num) \o SectorsOf(e)
  BY <1>2, <1>3, LastSpelled
<1>8. /\ a \in Nat /\ num + 1 = parts[n].num /\ a + num + 1 = parts[n].first + parts[n].num
      /\ \A k \in 1 .. num + 1 : a + k \in 1 .. Len(extents) /\ extents[a + k] \in Extent
  <2>1. a \in Nat /\ parts[n].num \in Nat /\ num + 1 = parts[n].num
        /\ a + num + 1 = parts[n].first + parts[n].num
    BY <1>3, WindowInside
  <2>2. \A k \in 1 .. parts[n].num : a + k \in 1 .. Len(extents) /\ extents[a + k] \in Extent
    BY <1>3, WindowInside DEF Inside
  <2> QED
    BY <2>1, <2>2
<1>9. f \in Extent
  <2> HIDE DEF e
  <2> QED
    BY <1>1, <1>5 DEF Extent
<1>10. SectorsOf(f) = SectorsOf(e) \o w
  <2> HIDE DEF e
  <2> QED
    BY <1>1, <1>2, <1>5, SectorsGrow
<1>11. w \in Seq(Places)
  BY <1>1, <1>5, LinearExtentFacts
<1>12. \A m \in DOMAIN parts : m # n => SameWindow(parts, new, m)
  <2>1. parts[n].num \in 1 .. parts[n].num
    BY <1>2, <1>3, WindowInside
  <2> HIDE DEF f
  <2> QED
    BY <1>3, <2>1, ExceptSame
<1>13. /\ \A k \in 1 .. num : new[a + k] = extents[a + k]
       /\ new[a + num + 1] = f
       /\ \A k \in 1 .. num + 1 : new[a + k] \in Extent
  <2> HIDE DEF f
  <2>1. new[a + num + 1] = f
    BY <1>3, <1>4, <1>8
  <2>2. ASSUME NEW k \in 1 .. num PROVE new[a + k] = extents[a + k]
    <3>1. a + k # parts[n].first + parts[n].num /\ k \in 1 .. num + 1
      BY <1>7, <1>8
    <3> QED
      BY <1>3, <1>8, <3>1
  <2> HIDE DEF new
  <2>3. ASSUME NEW k \in 1 .. num + 1 PROVE new[a + k] \in Extent
    <3>1. k \in 1 .. num \/ a + k = a + num + 1
      BY <1>7, <1>8
    <3> QED
      BY <1>8, <1>9, <2>1, <2>2, <3>1
  <2> QED
    BY <2>1, <2>2, <2>3
<1>14. WriteMetadata(parts, new, groups)
  BY <1>2
<1> HIDE DEF a, num, e, f, new, w
<1>15. Spelled(new, a, num) = Spelled(extents, a, num)
  BY <1>13, SpelledSame
<1>16. Spelled(new, a, num + 1) = Spelled(new, a, num) \o SectorsOf(new[a + num + 1])
  BY <1>7, <1>8, <1>13, SpelledNext DEF Inside
<1>17. Spelled(new, a, num + 1) = Volumes[n] \o w
  <2>1. Spelled(new, a, num + 1) = Spelled(extents, a, num) \o (SectorsOf(e) \o w)
    BY Zenon, <1>10, <1>13, <1>15, <1>16
  <2>2. (Spelled(extents, a, num) \o SectorsOf(e)) \o w = Spelled(extents, a, num) \o (SectorsOf(e) \o w)
    BY <1>7, <1>11, ConcatAssociative
  <2> QED
    BY Zenon, <1>7, <2>1, <2>2
<1>18. Pool!ExtendsBy(Volumes[n], Volumes[n] \o w)
  <2>1. Volumes[n] \in Seq(Places)
    BY <1>7, ConcatProperties
  <2> QED
    BY <1>1, <1>2, <1>3, <1>5, <1>6, <2>1, ExtendsWithFresh DEF w
<1>19. Pool!ExtendsBy(Volumes[n], Spelled(new, parts[n].first, parts[n].num))
  BY Zenon, <1>8, <1>17, <1>18 DEF a
<1> QED
  BY <1>12, <1>14, <1>19, GrowStep

LEMMA GrowSpliceStep ==
  ASSUME PInv, NEW n \in DOMAIN parts, NEW extra \in Requests, NEW force \in BOOLEAN,
         GrowSplice(n, extra, force)
  PROVE  Pool!Grow(n)
<1> DEFINE a == parts[n].first
           num == parts[n].num
           at == a + num
           d == LastExtent(parts[n]).source
           p == [parts[n] EXCEPT !.num = @ + 1]
           q == With(ShiftUp(parts, at), n, p)
<1>1. extra \in Nat
  BY SizesAssumption DEF Requests
<1>2. num > 0 /\ IInv
  BY DEF GrowSplice, PInv
<1>3. PICK s \in FreeStarts(extents, Devs, d, extra) :
        WriteMetadata(q, Insert(extents, at, LinearExtent(d, s, extra)), groups)
  BY DEF GrowSplice
<1>4. /\ d \in DeviceIndices(Devs) /\ at \in 0 .. Len(extents) /\ extents \in Seq(Extent)
      /\ Len(extents) \in Nat /\ a \in Nat /\ num \in Nat
  BY <1>2, InvFacts, LastExtentFacts
<1> DEFINE e == LinearExtent(d, s, extra)
           new == Insert(extents, at, e)
           w == SectorsOf(e)
<1>5. s \in Nat /\ Device(Devs, d).first <= s /\ IsRangeFree(extents, Devs, d, s, extra)
  <2> HIDE DEF d
  <2> QED
    BY <1>1, <1>4, FreeStartsSound
<1>6. e \in Extent /\ w \in Seq(Places)
  <2> HIDE DEF d
  <2> QED
    BY <1>1, <1>4, <1>5, LinearExtentFacts
<1>7. p.first = a /\ p.num = num + 1 /\ p.group = parts[n].group
  BY <1>2, InvFacts DEF Partition
<1>8. /\ DOMAIN q = DOMAIN parts /\ q[n] = p
      /\ \A m \in DOMAIN parts : q[m].group = parts[m].group
  <2>1. \A m \in DOMAIN parts : [parts[m] EXCEPT !.first = @ + 1].group = parts[m].group
    BY <1>2, InvFacts DEF Partition
  <2>2. DOMAIN q = DOMAIN parts /\ q[n] = p
    BY DEF With, ShiftUp
  <2>3. ASSUME NEW m \in DOMAIN parts, m # n PROVE q[m].group = parts[m].group
    <3>1. q[m] = IF parts[m].first >= at THEN [parts[m] EXCEPT !.first = @ + 1] ELSE parts[m]
      BY <2>3 DEF With, ShiftUp
    <3> HIDE DEF q
    <3> QED
      BY <2>1, <3>1
  <2> HIDE DEF q, p
  <2> QED
    BY <1>7, <2>2, <2>3
<1>9. \A m \in DOMAIN parts : m # n => SameWindow(q, new, m)
  <2> HIDE DEF e, p
  <2> QED
    BY <1>2, <1>6, InsertSame
<1>10. /\ new \in Seq(Extent)
       /\ \A i \in 1 .. Len(extents) + 1 :
            new[i] = IF i <= at THEN extents[i] ELSE IF i = at + 1 THEN e ELSE extents[i - 1]
  <2> HIDE DEF at, e
  <2> QED
    BY Zenon, <1>4, <1>6, InsertProperties
<1>11. WriteMetadata(q, new, groups)
  BY <1>3
<1>12. /\ \A k \in 1 .. num : new[a + k] = extents[a + k] /\ extents[a + k] \in Extent
       /\ new[a + num + 1] = e
  <2> HIDE DEF new, e, d
  <2>1. \A k \in 1 .. num : a + k \in 1 .. Len(extents) + 1 /\ a + k <= at
    BY <1>4
  <2>2. a + num + 1 \in 1 .. Len(extents) + 1 /\ ~(a + num + 1 <= at) /\ a + num + 1 = at + 1
    BY <1>4
  <2>3. \A k \in 1 .. num : extents[a + k] \in Extent
    BY <1>2, WindowInside DEF Inside
  <2> HIDE DEF a, num, at
  <2> QED
    BY <1>10, <2>1, <2>2, <2>3
<1> HIDE DEF q, p, e, new, w, at, d
<1>13. Inside(new, a, num + 1)
  <2>1. \A k \in 1 .. num + 1 : k \in 1 .. num \/ a + k = a + num + 1
    BY <1>4
  <2>2. a + num + 1 = a + (num + 1)
    BY <1>4
  <2> HIDE DEF a, num
  <2> QED
    BY <1>6, <1>12, <2>1, <2>2 DEF Inside
<1>14. Volumes[n] = Spelled(extents, a, num) /\ Volumes[n] \in Seq(Places)
  BY <1>2, PoolIs, WindowInside, SpelledFacts DEF SpelledOK
<1> HIDE DEF a, num
<1>15. Spelled(new, a, num + 1) = Volumes[n] \o w
  <2>1. Spelled(new, a, num + 1) = Spelled(new, a, num) \o SectorsOf(new[a + num + 1])
    BY <1>4, <1>13, SpelledNext
  <2>2. Spelled(new, a, num) = Spelled(extents, a, num)
    BY <1>12, SpelledSame
  <2> QED
    BY Zenon, <1>12, <1>14, <2>1, <2>2 DEF w
<1>16. Pool!ExtendsBy(Volumes[n], Volumes[n] \o w)
  BY <1>1, <1>2, <1>4, <1>5, <1>14, ExtendsWithFresh DEF w, e
<1>17. Pool!ExtendsBy(Volumes[n], Spelled(new, q[n].first, q[n].num))
  BY Zenon, <1>7, <1>8, <1>15, <1>16
<1> QED
  BY <1>8, <1>9, <1>11, <1>17, GrowStep

\* A window gives extents back from its end, or a part of its last one.
LEMMA ShrinkStep ==
  ASSUME PInv, NEW n \in DOMAIN parts, NEW q, NEW new, WriteMetadata(q, new, groups),
         DOMAIN q = DOMAIN parts, \A m \in DOMAIN parts : q[m].group = parts[m].group,
         \A m \in DOMAIN parts : m # n => SameWindow(q, new, m),
         NEW u \in Seq(Places), NEW x \in Seq(Places), Volumes[n] = u \o x,
         Spelled(new, q[n].first, q[n].num) = u
  PROVE  Pool!Shrink(n)
<1>1. Pool!SameMembers /\ DOMAIN Volumes' = Pool!Live
  BY MembersAfter
<1>2. \A m \in DOMAIN parts : SameMember(q, groups, m)
  BY DEF SameMember
<1>3. Pool!Live = DOMAIN parts
  BY PoolIs DEF Pool!Live
<1>4. Pool!Keeps(Pool!Live \ {n})
  BY <1>2, <1>3, KeptAfter
<1>5. Volumes'[n] = u
  BY AfterWrite
<1>6. Volumes'[n] = SubSeq(Volumes[n], 1, Len(Volumes'[n]))
  BY Zenon, <1>5, BeginningIs
<1> QED
  BY <1>1, <1>4, <1>6 DEF Pool!Shrink

LEMMA LoweredGroup ==
  ASSUME NEW p \in Partition, NEW from, NEW less
  PROVE  Lowered(p, from, less).group = p.group
BY DEF Lowered, Partition

LEMMA ShrinkToZeroStep ==
  ASSUME PInv, NEW n \in DOMAIN parts, NEW force \in BOOLEAN, ShrinkToZero(n, force)
  PROVE  Pool!Shrink(n)
<1> DEFINE num == parts[n].num
           from == parts[n].first + 1
           p == [parts[n] EXCEPT !.num = 0]
           q == With(ShiftDown(parts, from, num), n, p)
           new == Drain(extents, parts[n].first, num)
<1>1. WriteMetadata(q, new, groups) /\ IInv
  BY DEF ShrinkToZero, PInv
<1>2. /\ parts[n] \in Partition /\ parts[n].first \in Nat /\ num \in Nat
      /\ from \in Nat /\ 0 \in 0 .. num /\ num - 0 = num /\ parts[n].first + 0 = parts[n].first
      /\ extents \in Seq(Extent)
  BY <1>1, InvFacts
<1>3. /\ DOMAIN q = DOMAIN parts
      /\ q[n] = p
      /\ \A m \in DOMAIN parts : m # n => q[m] = Lowered(parts[m], from, num)
  <2> HIDE DEF p, from, num
  <2> QED
    BY WithShiftedIs
<1>4. p.first = parts[n].first /\ p.num = 0 /\ p.group = parts[n].group
  BY <1>2 DEF Partition
<1>5. Shrunk(parts, n, 0, q)
  <2> HIDE DEF q
  <2>1. \A m \in DOMAIN parts : m # n => q[m] = Lowered(parts[m], from, num - 0)
    BY Zenon, <1>2, <1>3
  <2> QED
    BY Zenon, <1>1, <1>2, <1>3, <2>1, ShiftedShrunk
<1> HIDE DEF q, p
<1>6. \A m \in DOMAIN parts : q[m].group = parts[m].group
  <2>1. \A m \in DOMAIN parts : parts[m] \in Partition
    BY <1>1, InvFacts
  <2> HIDE DEF from, num
  <2> QED
    BY <1>3, <1>4, <2>1, LoweredGroup
<1>7. \A m \in DOMAIN parts : m # n => SameWindow(q, new, m)
  <2>1. \A m \in DOMAIN q : m # n =>
          SameWindow(q, Drain(extents, parts[n].first + 0, parts[n].num - 0), m)
    BY Zenon, <1>1, <1>2, <1>5, DrainSame
  <2> QED
    BY Zenon, <1>2, <1>3, <2>1
<1>8. Spelled(new, q[n].first, q[n].num) = <<>>
  BY <1>2, <1>3, <1>4, SpelledNone
<1>9. Volumes[n] = <<>> \o Volumes[n] /\ <<>> \in Seq(Places) /\ Volumes[n] \in Seq(Places)
  <2>1. Volumes[n] \in Seq(Places)
    BY <1>1, PoolIs, WindowInside, SpelledFacts DEF SpelledOK
  <2> QED
    BY <2>1, ConcatEmptySeq, EmptySeq
<1> HIDE DEF new
<1> QED
  BY <1>1, <1>3, <1>6, <1>7, <1>8, <1>9, ShrinkStep

LEMMA ShrinkToStep ==
  ASSUME PInv, NEW n \in DOMAIN parts, NEW j \in 1 .. parts[n].num,
         NEW keep \in 1 .. extents[parts[n].first + j].num, NEW force \in BOOLEAN,
         Shrink(n, j, keep, force)
  PROVE  Pool!Shrink(n)
<1> DEFINE a == parts[n].first
           last == a + j
           less == parts[n].num - j
           from == a + parts[n].num
           p == [parts[n] EXCEPT !.num = j]
           q == With(ShiftDown(parts, from, less), n, p)
           e == extents[last]
           f == [e EXCEPT !.num = keep]
           cut == [extents EXCEPT ![last] = f]
           new == Drain(cut, last, less)
<1>1. WriteMetadata(q, new, groups) /\ IInv
  BY DEF Shrink, PInv
<1>2. /\ parts[n] \in Partition /\ a \in Nat /\ parts[n].num \in Nat /\ from <= Len(extents)
      /\ last \in 1 .. Len(extents) /\ last \in Nat /\ less \in Nat /\ last + less = from
      /\ from \in Nat /\ j \in 0 .. parts[n].num /\ j \in Nat
      /\ extents \in Seq(Extent) /\ DOMAIN extents = 1 .. Len(extents) /\ Len(extents) \in Nat
  BY SMTT(30), <1>1, InvFacts
<1>3. e \in Extent /\ f \in Extent /\ keep \in 1 .. e.num
  <2>1. e \in Extent /\ keep \in 1 .. e.num
    BY <1>2, ExtentFields
  <2> HIDE DEF e
  <2> QED
    BY <2>1 DEF Extent
<1>4. /\ DOMAIN q = DOMAIN parts
      /\ q[n] = p
      /\ \A m \in DOMAIN parts : m # n => q[m] = Lowered(parts[m], from, less)
  <2> HIDE DEF p, from, less
  <2> QED
    BY WithShiftedIs
<1>5. p.first = a /\ p.num = j /\ p.group = parts[n].group
  BY <1>2 DEF Partition
<1>6. Shrunk(parts, n, j, q)
  <2> HIDE DEF q
  <2> QED
    BY Zenon, <1>1, <1>2, <1>4, ShiftedShrunk
<1> HIDE DEF q, p
<1>7. \A m \in DOMAIN parts : q[m].group = parts[m].group
  <2>1. \A m \in DOMAIN parts : parts[m] \in Partition
    BY <1>1, InvFacts
  <2> HIDE DEF from, less
  <2> QED
    BY <1>4, <1>5, <2>1, LoweredGroup
<1> HIDE DEF e, f
<1>8. /\ cut \in Seq(Extent) /\ Len(cut) = Len(extents)
      /\ cut[last] = f
      /\ \A i \in 1 .. Len(extents) : i # last => cut[i] = extents[i]
  <2> HIDE DEF last
  <2> QED
    BY <1>2, <1>3, ExceptSeq
<1> HIDE DEF cut
<1>9. \A i \in 1 .. Len(extents) :
        i <= parts[n].first \/ i > parts[n].first + parts[n].num => cut[i] = extents[i]
  <2>1. \A i \in 1 .. Len(extents) :
          i <= parts[n].first \/ i > parts[n].first + parts[n].num => i # last
    BY SMTT(30), <1>2
  <2> QED
    BY Zenon, <1>8, <2>1
<1>10. /\ \A m \in DOMAIN parts : m # n => SameWindow(q, new, m)
       /\ \A k \in 1 .. j : new[a + k] = cut[a + k]
  <2>1. /\ \A m \in DOMAIN q : m # n => SameWindow(q, new, m)
        /\ \A k \in 1 .. j : new[a + k] = cut[a + k]
    BY Zenon, <1>1, <1>2, <1>6, <1>8, <1>9, DrainSame
  <2> QED
    BY Zenon, <1>4, <2>1
<1>11. /\ j - 1 \in Nat /\ (j - 1) + 1 = j /\ a + (j - 1) + 1 = last
       /\ j - 1 \in 0 .. parts[n].num
       /\ \A k \in 1 .. j - 1 : a + k \in 1 .. Len(extents) /\ a + k # last /\ k \in 1 .. j
       /\ \A k \in 1 .. j : k \in 1 .. j - 1 \/ a + k = last
       /\ 1 .. j \subseteq 1 .. parts[n].num /\ 1 .. j - 1 \subseteq 1 .. parts[n].num
  <2> DEFINE num == parts[n].num
             len == Len(extents)
  <2>1. a \in Nat /\ num \in Nat /\ len \in Nat /\ a + num <= len /\ j \in 1 .. num
    BY <1>2
  <2> HIDE DEF a, num, len
  <2>2. /\ j - 1 \in Nat /\ (j - 1) + 1 = j /\ a + (j - 1) + 1 = last /\ j - 1 \in 0 .. num
    BY <2>1
  <2>3. \A k \in 1 .. j - 1 : a + k \in 1 .. len /\ a + k # last /\ k \in 1 .. j
    BY <2>1
  <2>4. \A k \in 1 .. j : k \in 1 .. j - 1 \/ a + k = last
    BY <2>1
  <2>5. 1 .. j \subseteq 1 .. num /\ 1 .. j - 1 \subseteq 1 .. num
    BY <2>1
  <2> QED
    BY <2>2, <2>3, <2>4, <2>5 DEF num, len
<1>12. Inside(extents, a, parts[n].num)
  BY <1>1, WindowInside
<1> HIDE DEF last, a, less, from, new
<1>13. Inside(extents, a, j) /\ Inside(extents, a, j - 1)
  BY <1>11, <1>12 DEF Inside
<1>14. Inside(cut, a, j) /\ \A k \in 1 .. j - 1 : cut[a + k] = extents[a + k]
  <2>1. \A k \in 1 .. j - 1 : cut[a + k] = extents[a + k]
    BY Zenon, <1>8, <1>11
  <2> QED
    BY <1>3, <1>8, <1>11, <1>13, <2>1 DEF Inside
<1> DEFINE b == Spelled(extents, a, j - 1)
           u == b \o SectorsOf(f)
<1>15. /\ b \in Seq(Places) /\ SectorsOf(e) \in Seq(Places) /\ SectorsOf(f) \in Seq(Places)
       /\ u \in Seq(Places)
  <2>1. b \in Seq(Places) /\ SectorsOf(e) \in Seq(Places) /\ SectorsOf(f) \in Seq(Places)
    BY <1>2, <1>3, <1>11, <1>13, SpelledFacts, SectorsFacts DEF SpelledOK
  <2> HIDE DEF b
  <2> QED
    BY <2>1, ConcatProperties
<1>16. Spelled(new, a, j) = u
  <2>1. Spelled(new, a, j) = Spelled(cut, a, j)
    BY <1>10, SpelledSame
  <2>2. Spelled(cut, a, (j - 1) + 1) = Spelled(cut, a, j - 1) \o SectorsOf(cut[a + (j - 1) + 1])
    <3> DEFINE i == j - 1
    <3>1. i \in Nat /\ a \in Nat /\ Inside(cut, a, i + 1)
      BY Zenon, <1>2, <1>11, <1>14
    <3> HIDE DEF i
    <3>2. Spelled(cut, a, i + 1) = Spelled(cut, a, i) \o SectorsOf(cut[a + i + 1])
      BY <3>1, SpelledNext
    <3> QED
      BY Zenon, <3>2 DEF i
  <2>3. Spelled(cut, a, j - 1) = Spelled(extents, a, j - 1)
    BY <1>14, SpelledSame
  <2> QED
    BY Zenon, <1>8, <1>11, <2>1, <2>2, <2>3
<1>17. Spelled(extents, a, j) = b \o SectorsOf(e)
  <2>1. Spelled(extents, a, (j - 1) + 1) = Spelled(extents, a, j - 1) \o SectorsOf(extents[a + (j - 1) + 1])
    <3> DEFINE i == j - 1
    <3>1. i \in Nat /\ a \in Nat /\ Inside(extents, a, i + 1)
      BY Zenon, <1>2, <1>11, <1>13
    <3> HIDE DEF i
    <3>2. Spelled(extents, a, i + 1) = Spelled(extents, a, i) \o SectorsOf(extents[a + i + 1])
      BY <3>1, SpelledNext
    <3> QED
      BY Zenon, <3>2 DEF i
  <2> QED
    BY Zenon, <1>11, <2>1 DEF e
<1>18. PICK y \in Seq(Places) : Volumes[n] = Spelled(extents, a, j) \o y
  <2>1. \E y \in Seq(Places) : Spelled(extents, a, parts[n].num) = Spelled(extents, a, j) \o y
    BY <1>2, <1>12, SpelledBegins
  <2> QED
    BY <2>1, PoolIs DEF a
<1>19. PICK x \in Seq(Places) : SectorsOf(e) = SectorsOf(f) \o x
  BY <1>3, SectorsCut DEF f
<1>20. x \o y \in Seq(Places) /\ Volumes[n] = u \o (x \o y)
  <2> DEFINE t == SectorsOf(f)
  <2>1. b \in Seq(Places) /\ t \in Seq(Places) /\ x \in Seq(Places) /\ y \in Seq(Places)
    BY <1>15
  <2>2. Volumes[n] = (b \o (t \o x)) \o y
    BY Zenon, <1>17, <1>18, <1>19
  <2> HIDE DEF b, t
  <2>3. x \o y \in Seq(Places) /\ b \o t \in Seq(Places)
    BY <2>1, ConcatProperties
  <2>4. b \o (t \o x) = (b \o t) \o x
    BY SMTT(30), <2>1, ConcatAssociative
  <2>5. ((b \o t) \o x) \o y = (b \o t) \o (x \o y)
    <3> DEFINE bt == b \o t
    <3>1. bt \in Seq(Places)
      BY <2>3
    <3> HIDE DEF bt
    <3>2. (bt \o x) \o y = bt \o (x \o y)
      BY SMTT(30), <2>1, <3>1, ConcatAssociative
    <3> QED
      BY <3>2 DEF bt
  <2> QED
    BY Zenon, <2>2, <2>3, <2>4, <2>5 DEF b, t
<1>21. Spelled(new, q[n].first, q[n].num) = u
  BY Zenon, <1>4, <1>5, <1>16
<1> HIDE DEF u
<1> QED
  BY <1>1, <1>4, <1>7, <1>10, <1>15, <1>20, <1>21, ShrinkStep

\* The partitions of S go, and the groups stay.
LEMMA DeleteStep ==
  ASSUME PInv, NEW S, S \subseteq DOMAIN parts, NEW q, NEW new, WriteMetadata(q, new, groups),
         DOMAIN q = DOMAIN parts \ S,
         \A m \in DOMAIN parts \ S : SameWindow(q, new, m) /\ q[m].group = parts[m].group
  PROVE  Pool!Delete(Pool!Live \ DOMAIN Volumes')
<1>1. Pool!Live = DOMAIN parts /\ GroupLimits = LimitsOf(groups)
  BY PoolIs DEF Pool!Live
<1>2. /\ DOMAIN Volumes' = DOMAIN parts \ S /\ DOMAIN GroupNamesOf' = DOMAIN parts \ S
      /\ GroupLimits' = LimitsOf(groups)
  BY AfterWrite
<1>3. Pool!Live \ DOMAIN Volumes' = S
  BY <1>1, <1>2
<1>4. Pool!Keeps(DOMAIN parts \ S)
  BY KeptAfter DEF SameMember
<1> QED
  BY <1>1, <1>2, <1>3, <1>4 DEF Pool!Delete

LEMMA RemovePartitionStep ==
  ASSUME PInv, NEW n \in DOMAIN parts, RemovePartition(n)
  PROVE  Pool!Delete(Pool!Live \ DOMAIN Volumes')
<1> DEFINE num == parts[n].num
           from == parts[n].first + 1
           q == ShiftDown(Without(parts, {n}), from, num)
           new == Drain(extents, parts[n].first, num)
<1>1. WriteMetadata(q, new, groups) /\ IInv
  BY DEF RemovePartition, PInv
<1>2. /\ parts[n].first \in Nat /\ num \in Nat
      /\ from \in Nat /\ 0 \in 0 .. num /\ num - 0 = num /\ parts[n].first + 0 = parts[n].first
      /\ extents \in Seq(Extent)
  BY <1>1, InvFacts
<1>3. /\ DOMAIN q = DOMAIN parts \ {n} /\ n \notin DOMAIN q
      /\ \A m \in DOMAIN parts : m # n => q[m] = Lowered(parts[m], from, num)
  BY DEF ShiftDown, Without, Lowered
<1>4. Shrunk(parts, n, 0, q)
  <2> HIDE DEF q
  <2>1. \A m \in DOMAIN parts : m # n => q[m] = Lowered(parts[m], from, num - 0)
    BY Zenon, <1>2, <1>3
  <2> QED
    BY Zenon, <1>1, <1>2, <1>3, <2>1, ShiftedShrunk
<1> HIDE DEF q
<1>5. \A m \in DOMAIN parts \ {n} : q[m].group = parts[m].group
  <2>1. \A m \in DOMAIN parts : parts[m] \in Partition
    BY <1>1, InvFacts
  <2> HIDE DEF from, num
  <2> QED
    BY <1>3, <2>1, LoweredGroup
<1>6. \A m \in DOMAIN parts \ {n} : SameWindow(q, new, m)
  <2>1. \A m \in DOMAIN q : m # n =>
          SameWindow(q, Drain(extents, parts[n].first + 0, parts[n].num - 0), m)
    BY Zenon, <1>1, <1>2, <1>4, DrainSame
  <2>2. \A m \in DOMAIN parts \ {n} : m \in DOMAIN q /\ m # n
    BY <1>3
  <2> QED
    BY Zenon, <1>2, <2>1, <2>2
<1> HIDE DEF new
<1> QED
  BY <1>1, <1>3, <1>5, <1>6, DeleteStep

LEMMA CompactGroup ==
  ASSUME IInv, NEW S, NEW m \in DOMAIN parts \ S
  PROVE  CompactParts(S)[m].group = parts[m].group
BY InvFacts DEF CompactParts, Partition

LEMMA ClearCowStep ==
  ASSUME PInv, ClearCow
  PROVE  Pool!Delete(Pool!Live \ DOMAIN Volumes')
<1> DEFINE S == CowPartitions
           q == CompactParts(S)
           new == CompactExtents(S)
<1>1. WriteMetadata(q, new, groups) /\ IInv
  BY DEF ClearCow, PInv
<1>2. S \subseteq DOMAIN parts
  BY DEF CowPartitions
<1> HIDE DEF S
<1>3. DOMAIN q = DOMAIN parts \ S
  BY DEF CompactParts
<1>4. \A m \in DOMAIN parts \ S : SameWindow(q, new, m) /\ q[m].group = parts[m].group
  BY <1>1, <1>2, CompactSame, CompactGroup
<1> HIDE DEF q, new
<1> QED
  BY <1>1, <1>2, <1>3, <1>4, DeleteStep

\* The entries of the group table without entry i.
LEMMA DropGroupEntryIs ==
  ASSUME IInv, NEW i \in GroupIndices
  PROVE  /\ DOMAIN DropGroupEntry(i) = 1 .. Len(groups) - 1
         /\ \A k \in 1 .. Len(groups) - 1 :
              DropGroupEntry(i)[k] = groups[IF k <= i THEN k ELSE k + 1]
<1> DEFINE len == Len(groups)
           front == SubSeq(groups, 1, i)
           back == SubSeq(groups, i + 2, len)
           all == DropGroupEntry(i)
<1>1. groups \in Seq(Group) /\ len \in Nat /\ i \in 0 .. len - 1 /\ i \in Nat
  BY InvFacts DEF GroupIndices
<1>2. \A k \in 1 .. len : groups[k] \in Group
  BY <1>1, ElementOfSeq
<1>3. all \in Seq(Group) /\ Len(all) = len - 1 /\ all = front \o back
  BY DropGroupEntryType DEF DropGroupEntry
<1> HIDE DEF len, all
<1>4. /\ front \in Seq(Group) /\ Len(front) = i /\ \A k \in 1 .. i : front[k] = groups[k]
  <2>1. \A k \in 1 .. i : groups[k] \in Group
    BY <1>1, <1>2
  <2>2. /\ front \in Seq(Group) /\ Len(front) = IF 1 <= i THEN i - 1 + 1 ELSE 0
        /\ \A k \in 1 .. i - 1 + 1 : front[k] = groups[1 + k - 1]
    BY <1>1, <2>1, SubSeqProperties
  <2> QED
    BY <1>1, <2>2
<1>5. /\ back \in Seq(Group)
      /\ \A k \in 1 .. len - 1 - i : back[k] = groups[i + 1 + k]
  <2>1. \A k \in i + 2 .. len : groups[k] \in Group
    BY <1>1, <1>2
  <2>2. /\ back \in Seq(Group)
        /\ \A k \in 1 .. len - (i + 2) + 1 : back[k] = groups[i + 2 + k - 1]
    BY <1>1, <2>1, SubSeqProperties
  <2>3. \A k \in 1 .. len - 1 - i : k \in 1 .. len - (i + 2) + 1 /\ i + 2 + k - 1 = i + 1 + k
    BY <1>1
  <2> QED
    BY Zenon, <2>2, <2>3
<1> HIDE DEF front, back
<1>6. /\ Len(back) \in Nat /\ len - 1 = i + Len(back)
      /\ \A k \in 1 .. i + Len(back) : all[k] = IF k <= i THEN front[k] ELSE back[k - i]
  <2>1. /\ Len(front \o back) = Len(front) + Len(back)
        /\ \A k \in 1 .. Len(front) + Len(back) :
             (front \o back)[k] = IF k <= Len(front) THEN front[k] ELSE back[k - Len(front)]
    BY <1>4, <1>5, ConcatProperties
  <2>2. Len(back) \in Nat
    BY <1>5, LenProperties
  <2> QED
    BY Zenon, <1>3, <1>4, <2>1, <2>2
<1>7. ASSUME NEW k \in 1 .. len - 1
      PROVE  all[k] = groups[IF k <= i THEN k ELSE k + 1]
  <2>1. all[k] = IF k <= i THEN front[k] ELSE back[k - i]
    BY Zenon, <1>6
  <2>2. CASE k <= i
    <3>1. k \in 1 .. i
      BY <1>1, <2>2
    <3> QED
      BY <1>4, <2>1, <2>2, <3>1
  <2>3. CASE ~(k <= i)
    <3>1. k - i \in 1 .. len - 1 - i /\ i + 1 + (k - i) = k + 1
      BY <1>1, <2>3
    <3>2. back[k - i] = groups[i + 1 + (k - i)]
      BY Zenon, <1>5, <3>1
    <3> QED
      BY <2>1, <2>3, <3>1, <3>2
  <2> QED
    BY <2>2, <2>3
<1>8. DOMAIN all = 1 .. len - 1
  BY <1>3, LenProperties
<1> QED
  BY <1>7, <1>8 DEF all, len

\* The names and the limits that are left.
LEMMA LimitsDrop ==
  ASSUME PInv, NEW i \in GroupIndices
  PROVE  /\ NamedApart(DropGroupEntry(i))
         /\ LimitsOf(DropGroupEntry(i))
              = [h \in DOMAIN LimitsOf(groups) \ {groups[i + 1].name} |-> LimitsOf(groups)[h]]
<1> DEFINE grps == DropGroupEntry(i)
           old(k) == IF k <= i THEN k ELSE k + 1
           g == groups[i + 1].name
<1>1. /\ IInv /\ NamedApart(groups) /\ Len(groups) \in Nat /\ i \in 0 .. Len(groups) - 1
      /\ DOMAIN groups = 1 .. Len(groups)
  BY InvFacts DEF PInv, GroupIndices
<1>2. /\ DOMAIN grps = 1 .. Len(groups) - 1
      /\ \A k \in DOMAIN grps : grps[k] = groups[old(k)]
  BY <1>1, DropGroupEntryIs
<1> HIDE DEF grps
<1>3. /\ \A k \in DOMAIN grps : old(k) \in DOMAIN groups /\ old(k) # i + 1
      /\ \A k, l \in DOMAIN grps : old(k) = old(l) => k = l
      /\ i + 1 \in DOMAIN groups
  BY <1>1, <1>2
<1>4. \A l \in DOMAIN groups : l # i + 1 => \E k \in DOMAIN grps : old(k) = l
  <2> TAKE l \in DOMAIN groups
  <2> HAVE l # i + 1
  <2>1. CASE l <= i
    <3>1. l \in DOMAIN grps /\ old(l) = l
      BY <1>1, <1>2, <2>1
    <3> HIDE DEF old
    <3> QED
      BY <3>1
  <2>2. CASE ~(l <= i)
    <3>1. l - 1 \in DOMAIN grps /\ old(l - 1) = l
      BY <1>1, <1>2, <2>2
    <3> HIDE DEF old
    <3> QED
      BY <3>1
  <2> QED
    BY <2>1, <2>2
<1> HIDE DEF old
<1>5. NamedApart(grps)
  BY <1>1, <1>2, <1>3 DEF NamedApart
<1>6. /\ DOMAIN LimitsOf(groups) = {groups[k].name : k \in DOMAIN groups}
      /\ DOMAIN LimitsOf(grps) = {grps[k].name : k \in DOMAIN grps}
      /\ LimitsOf(grps) = [h \in DOMAIN LimitsOf(grps) |-> LimitsOf(grps)[h]]
  BY DEF LimitsOf
<1>7. DOMAIN LimitsOf(grps) = DOMAIN LimitsOf(groups) \ {g}
  <2>1. \A k \in DOMAIN groups : groups[k].name = g => k = i + 1
    BY <1>1, <1>3 DEF NamedApart
  <2>2. ASSUME NEW h \in DOMAIN LimitsOf(grps) PROVE h \in DOMAIN LimitsOf(groups) \ {g}
    <3>1. PICK k \in DOMAIN grps : h = grps[k].name
      BY <1>6
    <3> HIDE DEF g
    <3> QED
      BY <1>2, <1>3, <1>6, <2>1, <3>1
  <2>3. ASSUME NEW h \in DOMAIN LimitsOf(groups) \ {g} PROVE h \in DOMAIN LimitsOf(grps)
    <3>1. PICK l \in DOMAIN groups : h = groups[l].name
      BY <1>6
    <3>2. l # i + 1
      BY <3>1
    <3>3. PICK k \in DOMAIN grps : old(k) = l
      BY <1>4, <3>2
    <3> HIDE DEF g
    <3> QED
      BY <1>2, <1>6, <3>1, <3>3
  <2> QED
    BY <2>2, <2>3
<1>8. \A h \in DOMAIN LimitsOf(grps) : LimitsOf(grps)[h] = LimitsOf(groups)[h]
  <2> TAKE h \in DOMAIN LimitsOf(grps)
  <2>1. PICK k \in DOMAIN grps : h = grps[k].name
    BY <1>6
  <2>2. LimitsOf(grps)[grps[k].name] = grps[k].max
    BY <1>5, LimitsFacts
  <2>3. LimitsOf(groups)[groups[old(k)].name] = groups[old(k)].max
    BY <1>1, <1>3, LimitsFacts
  <2> QED
    BY <1>2, <2>1, <2>2, <2>3
<1> HIDE DEF g
<1>9. LimitsOf(grps) = [h \in DOMAIN LimitsOf(groups) \ {g} |-> LimitsOf(groups)[h]]
  BY <1>6, <1>7, <1>8
<1> QED
  BY <1>5, <1>9 DEF grps, g

LEMMA RemoveGroupStep ==
  ASSUME PInv, NEW i \in GroupIndices, NEW force \in BOOLEAN, RemoveGroup(i, force)
  PROVE  \E g \in Pool!Groups : Pool!DropGroup(g)
<1> DEFINE S == Members(i)
           less == CompactParts(S)
           q == Renumber(less, i)
           new == CompactExtents(S)
           grps == DropGroupEntry(i)
           g == groups[i + 1].name
<1>1. WriteMetadata(q, new, grps) /\ IInv /\ NamedApart(groups)
  BY DEF RemoveGroup, PInv
<1>2. S \subseteq DOMAIN parts /\ \A m \in DOMAIN parts : m \in S <=> parts[m].group = i
  BY DEF Members
<1>3. /\ Len(groups) \in Nat /\ i \in 0 .. Len(groups) - 1 /\ DOMAIN groups = 1 .. Len(groups)
      /\ \A m \in DOMAIN parts : parts[m].group \in 0 .. Len(groups) - 1
      /\ i + 1 \in DOMAIN groups
  BY <1>1, InvFacts DEF GroupIndices
<1>4. /\ DOMAIN less = DOMAIN parts \ S
      /\ \A m \in DOMAIN parts \ S : SameWindow(less, new, m) /\ less[m].group = parts[m].group
  <2> HIDE DEF S
  <2>1. DOMAIN less = DOMAIN parts \ S
    BY DEF CompactParts
  <2> QED
    BY <1>1, <1>2, <2>1, CompactSame, CompactGroup
<1>5. \A m \in DOMAIN less : less[m] \in Partition
  <2> HIDE DEF S
  <2> QED
    BY <1>1, <1>2, InvFacts, CompactWindowsSound DEF SoundWindows
<1> HIDE DEF S, less, new
<1>6. /\ DOMAIN q = DOMAIN less
      /\ \A m \in DOMAIN less :
           /\ q[m].first = less[m].first /\ q[m].num = less[m].num
           /\ q[m].group = IF less[m].group > i THEN less[m].group - 1 ELSE less[m].group
  <2>1. DOMAIN q = DOMAIN less
    BY DEF Renumber
  <2>2. ASSUME NEW m \in DOMAIN less
        PROVE  /\ q[m].first = less[m].first /\ q[m].num = less[m].num
               /\ q[m].group = IF less[m].group > i THEN less[m].group - 1 ELSE less[m].group
    <3>1. q[m] = IF less[m].group > i THEN [less[m] EXCEPT !.group = @ - 1] ELSE less[m]
      BY DEF Renumber
    <3>2. less[m] \in Partition
      BY <1>5
    <3> HIDE DEF q
    <3> QED
      BY <3>1, <3>2 DEF Partition
  <2> QED
    BY <2>1, <2>2
<1> HIDE DEF q
<1>7. \A m \in DOMAIN parts \ S : SameWindow(q, new, m)
  BY <1>4, <1>6 DEF SameWindow
<1>8. ASSUME NEW m \in DOMAIN parts \ S
      PROVE  SameMember(q, grps, m)
  <2> DEFINE k == parts[m].group
  <2>1. k \in 0 .. Len(groups) - 1 /\ k # i /\ q[m].group = IF k > i THEN k - 1 ELSE k
    BY <1>2, <1>3, <1>4, <1>6
  <2> HIDE DEF k
  <2>2. \A l \in 1 .. Len(groups) - 1 : grps[l] = groups[IF l <= i THEN l ELSE l + 1]
    BY <1>1, DropGroupEntryIs
  <2> HIDE DEF grps
  <2>3. CASE k > i
    <3>1. q[m].group + 1 = k /\ k \in 1 .. Len(groups) - 1 /\ ~(k <= i)
      BY <1>3, <2>1, <2>3
    <3>2. grps[k] = groups[k + 1]
      BY <2>2, <3>1
    <3> QED
      BY Zenon, <3>1, <3>2 DEF SameMember, k
  <2>4. CASE ~(k > i)
    <3>1. q[m].group + 1 = k + 1 /\ k + 1 \in 1 .. Len(groups) - 1 /\ k + 1 <= i
      BY <1>3, <2>1, <2>4
    <3>2. grps[k + 1] = groups[k + 1]
      BY <2>2, <3>1
    <3> QED
      BY Zenon, <3>1, <3>2 DEF SameMember, k
  <2> QED
    BY <2>3, <2>4
<1>9. Pool!Keeps(DOMAIN parts \ S)
  BY <1>1, <1>7, <1>8, KeptAfter
<1>10. /\ DOMAIN Volumes' = DOMAIN parts \ S /\ DOMAIN GroupNamesOf' = DOMAIN parts \ S
       /\ GroupLimits' = LimitsOf(grps)
  BY <1>1, <1>4, <1>6, AfterWrite
<1>11. LimitsOf(grps) = [h \in DOMAIN LimitsOf(groups) \ {g} |-> LimitsOf(groups)[h]]
  BY LimitsDrop
<1>12. /\ Pool!Live = DOMAIN parts /\ GroupLimits = LimitsOf(groups)
       /\ Pool!Groups = DOMAIN LimitsOf(groups)
       /\ \A m \in DOMAIN parts : GroupNamesOf[m] = groups[parts[m].group + 1].name
  BY PoolIs DEF Pool!Live, Pool!Groups
<1>13. g \in Pool!Groups
  BY <1>3, <1>12 DEF LimitsOf
<1>14. {m \in Pool!Live : GroupNamesOf[m] = g} = S
  <2>1. \A m \in DOMAIN parts : groups[parts[m].group + 1].name = g <=> parts[m].group = i
    <3> TAKE m \in DOMAIN parts
    <3>1. parts[m].group + 1 \in DOMAIN groups /\ (parts[m].group + 1 = i + 1 <=> parts[m].group = i)
      BY <1>3
    <3> QED
      BY <1>1, <1>3, <3>1 DEF NamedApart
  <2> HIDE DEF g
  <2> QED
    BY <1>2, <1>12, <2>1
<1> HIDE DEF g, grps
<1>15. Pool!DropGroup(g)
  BY <1>9, <1>10, <1>11, <1>12, <1>14 DEF Pool!DropGroup
<1> QED
  BY <1>13, <1>15

LEMMA RenameStep ==
  ASSUME PInv, NEW n \in DOMAIN parts, NEW m \in Names, Rename(n, m)
  PROVE  Pool!Rename(n, m)
<1> DEFINE q == With(Without(parts, {n}), m, parts[n])
<1>1. m \notin DOMAIN parts /\ WriteMetadata(q, extents, groups)
  BY DEF Rename
<1>2. /\ DOMAIN q = (DOMAIN parts \ {n}) \cup {m} /\ q[m] = parts[n]
      /\ \A k \in DOMAIN parts \ {n} : q[k] = parts[k]
  BY <1>1 DEF With, Without
<1> HIDE DEF q
<1>3. \A k \in DOMAIN parts \ {n} : SameWindow(q, extents, k) /\ SameMember(q, groups, k)
  BY <1>2 DEF SameWindow, SameMember
<1>4. Pool!Keeps(DOMAIN parts \ {n})
  BY <1>1, <1>3, KeptAfter
<1>5. /\ DOMAIN Volumes' = DOMAIN q /\ DOMAIN GroupNamesOf' = DOMAIN q
      /\ Volumes'[m] = Spelled(extents, parts[n].first, parts[n].num)
      /\ GroupNamesOf'[m] = groups[parts[n].group + 1].name
      /\ GroupLimits' = LimitsOf(groups)
  BY <1>1, <1>2, AfterWrite
<1>6. /\ Pool!Live = DOMAIN parts /\ GroupLimits = LimitsOf(groups)
      /\ Volumes[n] = Spelled(extents, parts[n].first, parts[n].num)
      /\ GroupNamesOf[n] = groups[parts[n].group + 1].name
  BY PoolIs DEF Pool!Live
<1> QED
  BY <1>1, <1>2, <1>4, <1>5, <1>6 DEF Pool!Rename

\* The group table with entry i renamed.
LEMMA LimitsRename ==
  ASSUME PInv, NEW i \in GroupIndices, NEW g, ~HasGroup(groups, g)
  PROVE  LET grps == [groups EXCEPT ![i + 1] = [@ EXCEPT !.name = g]]
             old == groups[i + 1].name
         IN /\ DOMAIN grps = DOMAIN groups /\ i + 1 \in DOMAIN groups
            /\ \A k \in DOMAIN groups : grps[k].name = IF k = i + 1 THEN g ELSE groups[k].name
            /\ NamedApart(grps)
            /\ old \in DOMAIN LimitsOf(groups) /\ g \notin DOMAIN LimitsOf(groups)
            /\ LimitsOf(grps)
                 = [h \in (DOMAIN LimitsOf(groups) \ {old}) \cup {g} |->
                      IF h = g THEN LimitsOf(groups)[old] ELSE LimitsOf(groups)[h]]
<1> DEFINE grps == [groups EXCEPT ![i + 1] = [@ EXCEPT !.name = g]]
           old == groups[i + 1].name
<1>1. /\ NamedApart(groups) /\ i + 1 \in DOMAIN groups
      /\ \A k \in DOMAIN groups : groups[k] \in Group /\ groups[k].name # g
  <2>1. NamedApart(groups) /\ i + 1 \in DOMAIN groups
    BY InvFacts DEF PInv, GroupIndices
  <2>2. \A k \in DOMAIN groups : groups[k] \in Group
    BY InvFacts, ElementOfSeq DEF PInv
  <2>3. \A k \in DOMAIN groups : groups[k].name # g
    BY DEF HasGroup
  <2> QED
    BY <2>1, <2>2, <2>3
<1>2. /\ DOMAIN grps = DOMAIN groups
      /\ \A k \in DOMAIN groups : grps[k].name = IF k = i + 1 THEN g ELSE groups[k].name
      /\ \A k \in DOMAIN groups : grps[k].max = groups[k].max
  <2>1. DOMAIN grps = DOMAIN groups
    OBVIOUS
  <2>2. ASSUME NEW k \in DOMAIN groups
        PROVE  /\ grps[k].name = IF k = i + 1 THEN g ELSE groups[k].name
               /\ grps[k].max = groups[k].max
    <3>1. CASE k = i + 1
      <4>1. grps[k] = [groups[k] EXCEPT !.name = g]
        BY <3>1
      <4>2. groups[k] \in Group
        BY <1>1
      <4> HIDE DEF grps
      <4> QED
        BY <3>1, <4>1, <4>2 DEF Group
    <3>2. CASE k # i + 1
      <4>1. grps[k] = groups[k]
        BY <3>2
      <4> HIDE DEF grps
      <4> QED
        BY <3>2, <4>1
    <3> QED
      BY <3>1, <3>2
  <2> QED
    BY <2>1, <2>2
<1> HIDE DEF grps
<1>3. NamedApart(grps)
  BY <1>1, <1>2 DEF NamedApart
<1>4. /\ DOMAIN LimitsOf(groups) = {groups[k].name : k \in DOMAIN groups}
      /\ DOMAIN LimitsOf(grps) = {grps[k].name : k \in DOMAIN grps}
      /\ LimitsOf(grps) = [h \in DOMAIN LimitsOf(grps) |-> LimitsOf(grps)[h]]
  BY DEF LimitsOf
<1>5. old \in DOMAIN LimitsOf(groups) /\ g \notin DOMAIN LimitsOf(groups)
  BY <1>1, <1>4
<1>6. \A k \in DOMAIN groups : groups[k].name = old <=> k = i + 1
  BY <1>1 DEF NamedApart
<1> HIDE DEF old
<1>7. DOMAIN LimitsOf(grps) = (DOMAIN LimitsOf(groups) \ {old}) \cup {g}
  <2>1. ASSUME NEW h \in DOMAIN LimitsOf(grps) PROVE h \in (DOMAIN LimitsOf(groups) \ {old}) \cup {g}
    BY <1>2, <1>4, <1>6
  <2>2. ASSUME NEW h \in DOMAIN LimitsOf(groups) \ {old} PROVE h \in DOMAIN LimitsOf(grps)
    <3>1. PICK k \in DOMAIN groups : h = groups[k].name
      BY <1>4
    <3>2. k # i + 1
      BY <1>6, <3>1
    <3> QED
      BY <1>2, <1>4, <3>1, <3>2
  <2>3. g \in DOMAIN LimitsOf(grps)
    BY <1>1, <1>2, <1>4
  <2> QED
    BY <2>1, <2>2, <2>3
<1>8. ASSUME NEW h \in DOMAIN LimitsOf(grps)
      PROVE  LimitsOf(grps)[h] = IF h = g THEN LimitsOf(groups)[old] ELSE LimitsOf(groups)[h]
  <2>1. PICK k \in DOMAIN groups : h = grps[k].name
    BY <1>2, <1>4
  <2>2. LimitsOf(grps)[h] = groups[k].max
    BY <1>2, <1>3, <2>1, LimitsFacts
  <2>3. LimitsOf(groups)[groups[k].name] = groups[k].max
    BY <1>1, LimitsFacts
  <2>4. CASE k = i + 1
    <3>1. h = g /\ groups[k].name = old
      BY <1>2, <1>6, <2>1, <2>4
    <3> QED
      BY <2>2, <2>3, <3>1
  <2>5. CASE k # i + 1
    <3>1. h = groups[k].name /\ h # g
      BY <1>1, <1>2, <2>1, <2>5
    <3> QED
      BY <2>2, <2>3, <3>1
  <2> QED
    BY <2>4, <2>5
<1>9. LimitsOf(grps)
        = [h \in (DOMAIN LimitsOf(groups) \ {old}) \cup {g} |->
             IF h = g THEN LimitsOf(groups)[old] ELSE LimitsOf(groups)[h]]
  BY <1>4, <1>7, <1>8
<1> QED
  BY <1>1, <1>2, <1>3, <1>5, <1>9 DEF grps, old

LEMMA RenameGroupStep ==
  ASSUME PInv, NEW i \in GroupIndices, NEW g \in NewGroups, RenameGroup(i, g)
  PROVE  \E a, b \in GroupNames : Pool!RenameGroup(a, b)
<1> DEFINE grps == [groups EXCEPT ![i + 1] = [@ EXCEPT !.name = g]]
           old == groups[i + 1].name
<1>1. ~HasGroup(groups, g) /\ WriteMetadata(parts, extents, grps)
  BY DEF RenameGroup
<1>2. /\ DOMAIN grps = DOMAIN groups /\ i + 1 \in DOMAIN groups
      /\ \A k \in DOMAIN groups : grps[k].name = IF k = i + 1 THEN g ELSE groups[k].name
      /\ old \in DOMAIN LimitsOf(groups) /\ g \notin DOMAIN LimitsOf(groups)
      /\ LimitsOf(grps)
           = [h \in (DOMAIN LimitsOf(groups) \ {old}) \cup {g} |->
                IF h = g THEN LimitsOf(groups)[old] ELSE LimitsOf(groups)[h]]
  BY <1>1, LimitsRename
<1>3. /\ NamedApart(groups) /\ groups[i + 1] \in Group /\ g \in GroupNames
      /\ \A m \in DOMAIN parts : parts[m].group + 1 \in DOMAIN groups
  BY <1>2, InvFacts, ElementOfSeq, NamesAssumption DEF PInv
<1>4. old \in GroupNames
  BY <1>3 DEF Group
<1> HIDE DEF grps
<1>5. /\ DOMAIN Volumes' = DOMAIN parts /\ DOMAIN GroupNamesOf' = DOMAIN parts
      /\ \A m \in DOMAIN parts :
           /\ Volumes'[m] = Spelled(extents, parts[m].first, parts[m].num)
           /\ GroupNamesOf'[m] = grps[parts[m].group + 1].name
      /\ GroupLimits' = LimitsOf(grps)
  BY <1>1, AfterWrite
<1>6. /\ DOMAIN Volumes = DOMAIN parts /\ DOMAIN GroupNamesOf = DOMAIN parts
      /\ \A m \in DOMAIN parts :
           /\ Volumes[m] = Spelled(extents, parts[m].first, parts[m].num)
           /\ GroupNamesOf[m] = groups[parts[m].group + 1].name
      /\ GroupLimits = LimitsOf(groups)
  BY PoolIs
<1>7. Volumes' = Volumes
  <2>1. /\ Volumes' = [m \in DOMAIN Volumes' |-> Volumes'[m]]
        /\ Volumes = [m \in DOMAIN Volumes |-> Volumes[m]]
    BY DEF Volumes
  <2> QED
    BY <1>5, <1>6, <2>1
<1>8. GroupNamesOf' = [m \in Pool!Live |-> IF GroupNamesOf[m] = old THEN g ELSE GroupNamesOf[m]]
  <2>1. GroupNamesOf' = [m \in DOMAIN GroupNamesOf' |-> GroupNamesOf'[m]]
    BY DEF GroupNamesOf
  <2>2. \A k \in DOMAIN groups : groups[k].name = old <=> k = i + 1
    BY <1>2, <1>3 DEF NamedApart
  <2> HIDE DEF old
  <2>3. \A m \in DOMAIN parts :
          GroupNamesOf'[m] = IF GroupNamesOf[m] = old THEN g ELSE GroupNamesOf[m]
    BY <1>2, <1>3, <1>5, <1>6, <2>2
  <2>4. Pool!Live = DOMAIN parts
    BY <1>6 DEF Pool!Live
  <2> QED
    BY <1>5, <2>1, <2>3, <2>4
<1> HIDE DEF old
<1>9. Pool!RenameGroup(old, g)
  BY <1>2, <1>5, <1>6, <1>7, <1>8 DEF Pool!RenameGroup, Pool!Groups
<1> QED
  BY <1>3, <1>4, <1>9

----------------------------------------------------------------------------
\* The groups keep names of their own.
LEMMA NamesStayApart ==
  ASSUME PInv, Next
  PROVE  NamedApart(groups')
<1>1. CASE groups' = groups
  BY <1>1 DEF PInv
<1>2. ASSUME NEW g \in NewGroups, NEW sizes \in GroupSizeOpts(g), groups' = GroupsFor(g, sizes)
      PROVE  NamedApart(groups')
  <2>1. GroupsGrow(GroupsFor(g, sizes), g)
    BY GroupsForGrows
  <2> QED
    BY <1>2, <2>1 DEF GroupsGrow
<1>3. CASE NewPartition
  <2>1. PICK n \in Names, needed \in Requests, force \in BOOLEAN :
          \/ \E i \in GroupIndices, bound \in SUBSET (DeviceIndices(Devs) \ {0}) :
               Add(n, i, needed, bound, force)
          \/ \E g \in NewGroups : \E sizes \in GroupSizeOpts(g) :
               Create(n, g, sizes, needed, force)
    BY <1>3 DEF NewPartition
  <2>2. ASSUME NEW i \in GroupIndices, NEW bound \in SUBSET (DeviceIndices(Devs) \ {0}),
               Add(n, i, needed, bound, force)
        PROVE  groups' = groups
    BY <2>2 DEF Add, Place, WriteMetadata
  <2>3. ASSUME NEW g \in NewGroups, NEW sizes \in GroupSizeOpts(g),
               Create(n, g, sizes, needed, force)
        PROVE  groups' = GroupsFor(g, sizes)
    BY <2>3 DEF Create, Place, WriteMetadata
  <2> QED
    BY <1>1, <1>2, <2>1, <2>2, <2>3
<1>4. CASE \E n \in Names, g \in NewGroups : \E sizes \in GroupSizeOpts(g) :
             CreateEmpty(n, g, sizes)
  <2>1. PICK n \in Names, g \in NewGroups : \E sizes \in GroupSizeOpts(g) :
          CreateEmpty(n, g, sizes)
    BY <1>4
  <2>2. PICK sizes \in GroupSizeOpts(g) : CreateEmpty(n, g, sizes)
    BY <2>1
  <2>3. groups' = GroupsFor(g, sizes)
    BY <2>2 DEF CreateEmpty, WriteMetadata
  <2> QED
    BY <1>2, <2>3
<1>5. CASE Resize
  <2>1. PICK n \in DOMAIN parts, force \in BOOLEAN :
          \/ \E extra \in Requests :
               \/ GrowFresh(n, extra, force)
               \/ GrowInPlace(n, extra, force)
               \/ GrowSplice(n, extra, force)
          \/ ShrinkToZero(n, force)
          \/ \E j \in 1 .. parts[n].num : \E keep \in 1 .. extents[parts[n].first + j].num :
               Shrink(n, j, keep, force)
    BY <1>5 DEF Resize
  <2>2. \A q, new : WriteMetadata(q, new, groups) => groups' = groups
    BY DEF WriteMetadata
  <2>3. ASSUME NEW extra \in Requests, GrowFresh(n, extra, force) PROVE groups' = groups
    BY <2>2, <2>3 DEF GrowFresh
  <2>4. ASSUME NEW extra \in Requests, GrowInPlace(n, extra, force) PROVE groups' = groups
    BY <2>2, <2>4 DEF GrowInPlace
  <2>5. ASSUME NEW extra \in Requests, GrowSplice(n, extra, force) PROVE groups' = groups
    BY <2>2, <2>5 DEF GrowSplice
  <2>6. ASSUME ShrinkToZero(n, force) PROVE groups' = groups
    BY <2>2, <2>6 DEF ShrinkToZero
  <2>7. ASSUME NEW j \in 1 .. parts[n].num, NEW keep \in 1 .. extents[parts[n].first + j].num,
               Shrink(n, j, keep, force)
        PROVE  groups' = groups
    BY <2>2, <2>7 DEF Shrink
  <2> QED
    BY <1>1, <2>1, <2>3, <2>4, <2>5, <2>6, <2>7
<1>6. CASE \E n \in DOMAIN parts : RemovePartition(n)
  BY <1>1, <1>6 DEF RemovePartition, WriteMetadata
<1>7. ASSUME NEW i \in GroupIndices, NEW force \in BOOLEAN, RemoveGroup(i, force)
      PROVE  NamedApart(groups')
  <2>1. groups' = DropGroupEntry(i)
    BY <1>7 DEF RemoveGroup, WriteMetadata
  <2> QED
    BY <2>1, LimitsDrop
<1>8. CASE \E n \in DOMAIN parts, m \in Names : Rename(n, m)
  BY <1>1, <1>8 DEF Rename, WriteMetadata
<1>9. ASSUME NEW i \in GroupIndices, NEW g \in NewGroups, RenameGroup(i, g)
      PROVE  NamedApart(groups')
  <2>1. ~HasGroup(groups, g) /\ groups' = [groups EXCEPT ![i + 1] = [@ EXCEPT !.name = g]]
    BY <1>9 DEF RenameGroup, WriteMetadata
  <2> QED
    BY <2>1, LimitsRename
<1>10. CASE ClearCow
  BY <1>1, <1>10 DEF ClearCow, WriteMetadata
<1> QED
  BY <1>3, <1>4, <1>5, <1>6, <1>7, <1>8, <1>9, <1>10 DEF Next

LEMMA PoolInv ==
  ASSUME PInv, [Next]_vars
  PROVE  PInv'
<1>1. IInv'
  BY NextSound DEF PInv
<1>2. NamedApart(groups')
  <2>1. CASE Next
    BY <2>1, NamesStayApart
  <2>2. CASE UNCHANGED vars
    BY <2>2 DEF vars, PInv
  <2> QED
    BY <2>1, <2>2
<1> QED
  BY <1>1, <1>2 DEF PInv

LEMMA PoolInit ==
  ASSUME PInv
  PROVE  Pool!Init
<1>1. /\ Pool!Live = DOMAIN parts /\ GroupLimits = LimitsOf(groups)
      /\ Pool!Groups = DOMAIN LimitsOf(groups) /\ DOMAIN GroupNamesOf = DOMAIN parts
      /\ \A n \in DOMAIN parts : GroupNamesOf[n] = groups[parts[n].group + 1].name
  BY PoolIs DEF Pool!Live, Pool!Groups
<1>2. DOMAIN LimitsOf(groups) = {groups[k].name : k \in DOMAIN groups}
  BY DEF LimitsOf
<1>3. /\ IInv /\ DOMAIN parts \subseteq Names
      /\ \A n \in DOMAIN parts : parts[n].group + 1 \in DOMAIN groups
  BY InvFacts DEF PInv
<1>4. \A k \in DOMAIN groups : groups[k].name \in GroupNames
  <2>1. \A k \in DOMAIN groups : groups[k] \in Group
    BY <1>3, InvFacts, ElementOfSeq
  <2> QED
    BY <2>1 DEF Group
<1>5. ASSUME NEW n \in DOMAIN parts, NEW v \in Pool!Backing(Volumes[n])
      PROVE  v \in DeviceSectors
  <2>1. PICK k \in 1 .. parts[n].num : Covers(extents[parts[n].first + k], v)
    BY <1>3, BackingCovered
  <2>2. parts[n].first + k \in 1 .. Len(extents)
    BY <1>3, WindowInside
  <2> QED
    BY <1>3, <2>1, <2>2, CoveredOnDevice
<1>6. Pool!NoSharing
  BY <1>3, VolumesApart
<1> QED
  BY <1>1, <1>2, <1>3, <1>4, <1>5, <1>6 DEF Pool!Init

LEMMA PoolNext ==
  ASSUME PInv, Next
  PROVE  Pool!Next
<1>1. Pool!Live = DOMAIN parts /\ DOMAIN parts \subseteq Names
  BY PoolIs, InvFacts DEF Pool!Live, PInv
<1>2. ASSUME NEW n \in Names, Pool!NewVolume(n)
      PROVE  Pool!Next
  BY <1>2 DEF Pool!Next
<1>3. ASSUME NEW n \in DOMAIN parts, Pool!Grow(n) \/ Pool!Shrink(n)
      PROVE  Pool!Next
  BY <1>1, <1>3 DEF Pool!Next
<1>4. ASSUME Pool!Delete(Pool!Live \ DOMAIN Volumes')
      PROVE  Pool!Next
  BY <1>4 DEF Pool!Next
<1>5. CASE NewPartition
  <2>1. PICK n \in Names, needed \in Requests, force \in BOOLEAN :
          \/ \E i \in GroupIndices, bound \in SUBSET (DeviceIndices(Devs) \ {0}) :
               Add(n, i, needed, bound, force)
          \/ \E g \in NewGroups : \E sizes \in GroupSizeOpts(g) :
               Create(n, g, sizes, needed, force)
    BY <1>5 DEF NewPartition
  <2>2. Pool!NewVolume(n)
    BY <2>1, AddStep, CreateStep
  <2> QED
    BY <1>2, <2>2
<1>6. CASE \E n \in Names, g \in NewGroups : \E sizes \in GroupSizeOpts(g) :
             CreateEmpty(n, g, sizes)
  <2>1. PICK n \in Names, g \in NewGroups : \E sizes \in GroupSizeOpts(g) :
          CreateEmpty(n, g, sizes)
    BY <1>6
  <2> QED
    BY <1>2, <2>1, CreateEmptyStep
<1>7. CASE Resize
  <2>1. PICK n \in DOMAIN parts, force \in BOOLEAN :
          \/ \E extra \in Requests :
               \/ GrowFresh(n, extra, force)
               \/ GrowInPlace(n, extra, force)
               \/ GrowSplice(n, extra, force)
          \/ ShrinkToZero(n, force)
          \/ \E j \in 1 .. parts[n].num : \E keep \in 1 .. extents[parts[n].first + j].num :
               Shrink(n, j, keep, force)
    BY <1>7 DEF Resize
  <2>2. Pool!Grow(n) \/ Pool!Shrink(n)
    BY <2>1, GrowFreshStep, GrowInPlaceStep, GrowSpliceStep, ShrinkToZeroStep, ShrinkToStep
  <2> QED
    BY <1>3, <2>2
<1>8. CASE \E n \in DOMAIN parts : RemovePartition(n)
  BY <1>4, <1>8, RemovePartitionStep
<1>9. CASE \E i \in GroupIndices, force \in BOOLEAN : RemoveGroup(i, force)
  <2>1. \E g \in Pool!Groups : Pool!DropGroup(g)
    BY <1>9, RemoveGroupStep
  <2> QED
    BY <2>1 DEF Pool!Next
<1>10. CASE \E n \in DOMAIN parts, m \in Names : Rename(n, m)
  <2>1. \E n, m \in Names : Pool!Rename(n, m)
    BY <1>1, <1>10, RenameStep
  <2> QED
    BY <2>1 DEF Pool!Next
<1>11. CASE \E i \in GroupIndices, g \in NewGroups : RenameGroup(i, g)
  <2>1. \E a, b \in GroupNames : Pool!RenameGroup(a, b)
    BY <1>11, RenameGroupStep
  <2> QED
    BY <2>1 DEF Pool!Next
<1>12. CASE ClearCow
  BY <1>4, <1>12, ClearCowStep
<1> QED
  BY <1>5, <1>6, <1>7, <1>8, <1>9, <1>10, <1>11, <1>12 DEF Next

LEMMA PoolStutters ==
  ASSUME UNCHANGED vars
  PROVE  UNCHANGED Pool!pool
<1>1. parts' = parts /\ extents' = extents /\ groups' = groups
  BY DEF vars
<1>2. Volumes' = Volumes /\ GroupNamesOf' = GroupNamesOf /\ GroupLimits' = GroupLimits
  BY <1>1 DEF Volumes, VolumeOf, GroupNamesOf, GroupAt, GroupLimits
<1> QED
  BY <1>2 DEF Pool!pool

\* What is assumed of the tables a history starts from, beside that they are
\* sound.
GroupsNamedApart == \A t \in InitTables : NamedApart(t.groups)

\* The editing commands implement the pool of volumes, from any sound table
\* whose groups have names of their own: a command changes the volumes it
\* names and no other, hands out only sectors that nobody owns, appends when
\* it grows and truncates when it shrinks, and takes along with a group
\* exactly its members.
THEOREM SpecImplementsPool == GroupsNamedApart => (Spec => ImplementsPool)
<1> SUFFICES ASSUME GroupsNamedApart PROVE Spec => ImplementsPool
  OBVIOUS
<1>1. Init => PInv
  <2> SUFFICES ASSUME Init PROVE PInv
    OBVIOUS
  <2>1. PICK t \in InitTables : groups = t.groups
    BY DEF Init
  <2>2. NamedApart(groups)
    BY <2>1 DEF GroupsNamedApart
  <2> QED
    BY <2>2, InitSound DEF PInv
<1>2. PInv /\ [Next]_vars => PInv'
  BY PoolInv
<1>3. PInv => Pool!Init
  BY PoolInit
<1>4. PInv /\ [Next]_vars => [Pool!Next]_(Pool!pool)
  BY PoolNext, PoolStutters
<1> QED
  BY <1>1, <1>2, <1>3, <1>4, PTL DEF Spec, ImplementsPool, Pool!Spec

----------------------------------------------------------------------------
\* Sums over finite sets.

\* Induction over the subsets of a finite set, with a set for the predicate.
LEMMA SubsetsUp ==
  ASSUME NEW S, IsFiniteSet(S), NEW F,
         \A s \in SUBSET S : (\A x \in s : s \ {x} \in F) => s \in F
  PROVE  S \in F
<1> DEFINE T == {n \in Nat : \A s \in SUBSET S : Cardinality(s) = n => s \in F}
<1>1. \A s \in SUBSET S : IsFiniteSet(s)
  BY FS_Subset
<1>2. 0 \in T
  BY <1>1, FS_EmptySet
<1>3. ASSUME NEW n \in Nat, n \in T PROVE n + 1 \in T
  <2> SUFFICES ASSUME NEW s \in SUBSET S, Cardinality(s) = n + 1 PROVE s \in F
    OBVIOUS
  <2>1. ASSUME NEW x \in s PROVE s \ {x} \in F
    <3>1. s \ {x} \in SUBSET S /\ IsFiniteSet(s)
      BY <1>1
    <3>2. Cardinality(s \ {x}) = Cardinality(s) - 1
      BY <2>1, <3>1, FS_RemoveElement
    <3>3. Cardinality(s \ {x}) = n
      BY <1>3, <3>2
    <3> QED
      BY <1>3, <3>1, <3>3
  <2> QED
    BY <2>1
<1> HIDE DEF T
<1>4. Cardinality(S) \in Nat /\ Cardinality(S) \in T
  <2>1. Cardinality(S) \in Nat
    BY FS_CardinalityType
  <2> QED
    BY <1>2, <1>3, <2>1, CountUp
<1> QED
  BY <1>4 DEF T

\* The sum of the values of f over S, and the function that adds them up.
Sum(f, S) == SeqX!SumFunctionOnSet(f, S)

Pick(s) == CHOOSE x \in s : TRUE
SumRec(f, S, g) ==
  g = [s \in SUBSET S |-> IF s = {} THEN 0 ELSE f[Pick(s)] + g[s \ {Pick(s)}]]

LEMMA PickIn == \A s : s # {} => Pick(s) \in s
BY DEF Pick

LEMMA SumIs ==
  ASSUME NEW f, NEW S, NEW g, SumRec(f, S, g)
  PROVE  \E h : SumRec(f, S, h) /\ Sum(f, S) = h[S]
<1> DEFINE h == CHOOSE h : SumRec(f, S, h)
<1>1. SumRec(f, S, h)
  OBVIOUS
<1>2. Sum(f, S) = h[S]
  BY DEF Sum, SeqX!SumFunctionOnSet, SeqX!FoldFunctionOnSet, SeqX!MapThenFoldSet, SumRec, Pick
<1> QED
  BY <1>1, <1>2

\* Two such functions agree where their arguments do.
LEMMA SumRecAgree ==
  ASSUME NEW f, NEW S, NEW g, SumRec(f, S, g), NEW e, NEW R, NEW h, SumRec(e, R, h),
         NEW T, IsFiniteSet(T), T \subseteq S, T \subseteq R, \A x \in T : f[x] = e[x]
  PROVE  g[T] = h[T]
<1> DEFINE F == {s \in SUBSET T : g[s] = h[s]}
<1>1. ASSUME NEW s \in SUBSET T, \A x \in s : s \ {x} \in F PROVE s \in F
  <2>1. /\ g[s] = IF s = {} THEN 0 ELSE f[Pick(s)] + g[s \ {Pick(s)}]
        /\ h[s] = IF s = {} THEN 0 ELSE e[Pick(s)] + h[s \ {Pick(s)}]
    <3>1. s \in SUBSET S /\ s \in SUBSET R
      OBVIOUS
    <3> QED
      BY <3>1 DEF SumRec
  <2>2. CASE s = {}
    BY <2>1, <2>2
  <2>3. CASE s # {}
    <3>1. Pick(s) \in s
      BY <2>3, PickIn
    <3>2. g[s \ {Pick(s)}] = h[s \ {Pick(s)}] /\ f[Pick(s)] = e[Pick(s)]
      BY <1>1, <3>1
    <3> QED
      BY <2>1, <2>3, <3>2
  <2> QED
    BY <2>2, <2>3
<1> HIDE DEF F
<1>2. T \in F
  BY <1>1, SubsetsUp
<1> QED
  BY <1>2 DEF F

LEMMA SumRecExists ==
  ASSUME NEW f, NEW S, IsFiniteSet(S)
  PROVE  \E g : SumRec(f, S, g)
<1> DEFINE F == {s \in SUBSET S : \E g : SumRec(f, s, g)}
<1>0. \A s \in SUBSET S : IsFiniteSet(s)
  BY FS_Subset
<1>1. ASSUME NEW s \in SUBSET S, \A x \in s : s \ {x} \in F PROVE s \in F
  <2>1. ASSUME NEW r \in SUBSET s, r # s PROVE \E g : SumRec(f, r, g)
    <3>1. PICK x \in s : r \subseteq s \ {x}
      BY <2>1
    <3>2. PICK g : SumRec(f, s \ {x}, g)
      BY <1>1
    <3> DEFINE h == [t \in SUBSET r |-> g[t]]
    <3>3. ASSUME NEW t \in SUBSET r
          PROVE  h[t] = IF t = {} THEN 0 ELSE f[Pick(t)] + h[t \ {Pick(t)}]
      <4>1. g[t] = IF t = {} THEN 0 ELSE f[Pick(t)] + g[t \ {Pick(t)}]
        <5>1. t \in SUBSET (s \ {x})
          BY <3>1
        <5> QED
          BY <3>2, <5>1 DEF SumRec
      <4>2. h[t] = g[t] /\ h[t \ {Pick(t)}] = g[t \ {Pick(t)}]
        OBVIOUS
      <4> HIDE DEF h
      <4> QED
        BY <4>1, <4>2
    <3>4. h = [t \in SUBSET r |-> h[t]]
      OBVIOUS
    <3> HIDE DEF h
    <3>5. SumRec(f, r, h)
      BY <3>3, <3>4 DEF SumRec
    <3> QED
      BY <3>5
  <2>2. ASSUME NEW r \in SUBSET s, r # s
        PROVE  Sum(f, r) = IF r = {} THEN 0 ELSE f[Pick(r)] + Sum(f, r \ {Pick(r)})
    <3>1. PICK g : SumRec(f, r, g) /\ Sum(f, r) = g[r]
      BY <2>1, <2>2, SumIs
    <3>2. g[r] = IF r = {} THEN 0 ELSE f[Pick(r)] + g[r \ {Pick(r)}]
      BY <3>1 DEF SumRec
    <3>3. CASE r = {}
      BY <3>1, <3>2, <3>3
    <3>4. CASE r # {}
      <4> DEFINE t == r \ {Pick(r)}
      <4>1. t \in SUBSET s /\ t # s /\ t \subseteq r
        BY <2>2
      <4>2. IsFiniteSet(t)
        BY <1>0, <4>1
      <4> HIDE DEF t
      <4>3. PICK h : SumRec(f, t, h) /\ Sum(f, t) = h[t]
        BY <2>1, <4>1, SumIs
      <4>4. g[t] = h[t]
        BY <3>1, <4>1, <4>2, <4>3, SumRecAgree
      <4> QED
        BY <3>1, <3>2, <3>4, <4>3, <4>4 DEF t
    <3> QED
      BY <3>3, <3>4
  <2> DEFINE all == IF s = {} THEN 0 ELSE f[Pick(s)] + Sum(f, s \ {Pick(s)})
             h == [r \in SUBSET s |-> IF r = s THEN all ELSE Sum(f, r)]
  <2>3. ASSUME NEW r \in SUBSET s
        PROVE  h[r] = IF r = {} THEN 0 ELSE f[Pick(r)] + h[r \ {Pick(r)}]
    <3>1. h[r] = IF r = {} THEN 0 ELSE f[Pick(r)] + Sum(f, r \ {Pick(r)})
      <4>1. CASE r = s
        BY <4>1
      <4>2. CASE r # s
        <5>1. h[r] = Sum(f, r)
          BY <4>2
        <5> HIDE DEF h
        <5> QED
          BY <2>2, <4>2, <5>1
      <4> QED
        BY <4>1, <4>2
    <3>2. r # {} => h[r \ {Pick(r)}] = Sum(f, r \ {Pick(r)})
      <4> SUFFICES ASSUME r # {} PROVE h[r \ {Pick(r)}] = Sum(f, r \ {Pick(r)})
        OBVIOUS
      <4>1. Pick(r) \in r
        BY PickIn
      <4>2. r \ {Pick(r)} \in SUBSET s /\ r \ {Pick(r)} # s
        BY <4>1
      <4> QED
        BY <4>2
    <3> HIDE DEF h
    <3> QED
      BY <3>1, <3>2
  <2>4. h = [r \in SUBSET s |-> h[r]]
    OBVIOUS
  <2> HIDE DEF h
  <2>5. SumRec(f, s, h)
    BY <2>3, <2>4 DEF SumRec
  <2> QED
    BY <2>5
<1> HIDE DEF F
<1>2. S \in F
  BY <1>1, SubsetsUp
<1> QED
  BY <1>2 DEF F

\* Sums are what their values are.
LEMMA SumSame ==
  ASSUME NEW S, IsFiniteSet(S), NEW f, NEW e, \A x \in S : f[x] = e[x]
  PROVE  Sum(f, S) = Sum(e, S)
<1>1. PICK g : SumRec(f, S, g) /\ Sum(f, S) = g[S]
  BY SumRecExists, SumIs
<1>2. PICK h : SumRec(e, S, h) /\ Sum(e, S) = h[S]
  BY SumRecExists, SumIs
<1>3. g[S] = h[S]
  BY <1>1, <1>2, SumRecAgree
<1> QED
  BY <1>1, <1>2, <1>3

LEMMA SumStep ==
  ASSUME NEW f, NEW S, IsFiniteSet(S)
  PROVE  Sum(f, S) = IF S = {} THEN 0 ELSE f[Pick(S)] + Sum(f, S \ {Pick(S)})
<1>1. PICK g : SumRec(f, S, g) /\ Sum(f, S) = g[S]
  BY SumRecExists, SumIs
<1>2. g[S] = IF S = {} THEN 0 ELSE f[Pick(S)] + g[S \ {Pick(S)}]
  BY <1>1 DEF SumRec
<1> DEFINE t == S \ {Pick(S)}
<1>3. IsFiniteSet(t) /\ t \subseteq S
  BY FS_RemoveElement
<1> HIDE DEF t
<1>4. PICK h : SumRec(f, t, h) /\ Sum(f, t) = h[t]
  BY <1>3, SumRecExists, SumIs
<1>5. g[t] = h[t]
  BY <1>1, <1>3, <1>4, SumRecAgree
<1> QED
  BY <1>1, <1>2, <1>4, <1>5 DEF t

LEMMA SumNat ==
  ASSUME NEW S, IsFiniteSet(S), NEW f, \A x \in S : f[x] \in Nat
  PROVE  Sum(f, S) \in Nat
<1> DEFINE F == {s \in SUBSET S : Sum(f, s) \in Nat}
<1>1. ASSUME NEW s \in SUBSET S, \A x \in s : s \ {x} \in F PROVE s \in F
  <2>1. IsFiniteSet(s)
    BY FS_Subset
  <2>2. Sum(f, s) = IF s = {} THEN 0 ELSE f[Pick(s)] + Sum(f, s \ {Pick(s)})
    BY <2>1, SumStep
  <2>3. CASE s = {}
    BY <2>2, <2>3
  <2>4. CASE s # {}
    <3>1. Pick(s) \in s
      BY <2>4, PickIn
    <3>2. Sum(f, s \ {Pick(s)}) \in Nat /\ f[Pick(s)] \in Nat
      BY <1>1, <3>1
    <3> QED
      BY <2>2, <2>4, <3>2
  <2> QED
    BY <2>3, <2>4
<1> HIDE DEF F
<1>2. S \in F
  BY <1>1, SubsetsUp
<1> QED
  BY <1>2 DEF F

\* Any member can be added last.
LEMMA SumOut ==
  ASSUME NEW S, IsFiniteSet(S), NEW f, \A x \in S : f[x] \in Nat
  PROVE  /\ Sum(f, S) \in Nat
         /\ \A x \in S : Sum(f, S) = f[x] + Sum(f, S \ {x})
<1> DEFINE Out(s) == Sum(f, s) \in Nat /\ \A x \in s : Sum(f, s) = f[x] + Sum(f, s \ {x})
           F == {s \in SUBSET S : Out(s)}
<1>0. \A s \in SUBSET S : IsFiniteSet(s)
  BY FS_Subset
<1>1. ASSUME NEW s \in SUBSET S, \A x \in s : s \ {x} \in F PROVE s \in F
  <2>1. Sum(f, s) = IF s = {} THEN 0 ELSE f[Pick(s)] + Sum(f, s \ {Pick(s)})
    BY <1>0, SumStep
  <2>2. CASE s = {}
    BY <2>1, <2>2
  <2>3. CASE s # {}
    <3> DEFINE c == Pick(s)
    <3>1. c \in s
      BY <2>3, PickIn
    <3>2. Sum(f, s) = f[c] + Sum(f, s \ {c})
      BY <2>1, <2>3
    <3> HIDE DEF c
    <3>3. Out(s \ {c}) /\ f[c] \in Nat
      BY <1>1, <3>1
    <3>4. Sum(f, s) \in Nat
      BY <3>2, <3>3
    <3>5. ASSUME NEW x \in s, x # c PROVE Sum(f, s) = f[x] + Sum(f, s \ {x})
      <4>1. Out(s \ {x}) /\ f[x] \in Nat
        BY <1>1
      <4>2. x \in s \ {c} /\ c \in s \ {x} /\ (s \ {c}) \ {x} = (s \ {x}) \ {c}
        BY <3>1, <3>5
      <4>3. Sum(f, s \ {c}) = f[x] + Sum(f, (s \ {c}) \ {x})
        BY <3>3, <4>2
      <4>4. Sum(f, s \ {x}) = f[c] + Sum(f, (s \ {x}) \ {c})
        BY <4>1, <4>2
      <4>5. Sum(f, (s \ {x}) \ {c}) \in Int
        <5>1. IsFiniteSet((s \ {x}) \ {c}) /\ \A y \in (s \ {x}) \ {c} : f[y] \in Nat
          BY <1>0
        <5>2. Sum(f, (s \ {x}) \ {c}) \in Nat
          BY <5>1, SumNat
        <5> QED
          BY <5>2
      <4> QED
        BY <3>2, <3>3, <4>1, <4>2, <4>3, <4>4, <4>5
    <3> QED
      BY <3>2, <3>4, <3>5
  <2> QED
    BY <2>2, <2>3
<1>2. S \in F
  <2> HIDE DEF F
  <2> QED
    BY <1>1, SubsetsUp
<1> QED
  BY <1>2

LEMMA SumPart ==
  ASSUME NEW S, IsFiniteSet(S), NEW f, \A x \in S : f[x] \in Nat, NEW R, R \subseteq S
  PROVE  Sum(f, R) \in Nat /\ Sum(f, R) <= Sum(f, S)
<1> DEFINE F == {s \in SUBSET S : R \subseteq s => Sum(f, R) <= Sum(f, s)}
<1>0. \A s \in SUBSET S : IsFiniteSet(s)
  BY FS_Subset
<1>1. Sum(f, R) \in Nat
  BY <1>0, SumOut
<1>2. ASSUME NEW s \in SUBSET S, \A x \in s : s \ {x} \in F PROVE s \in F
  <2> SUFFICES ASSUME R \subseteq s PROVE Sum(f, R) <= Sum(f, s)
    OBVIOUS
  <2>1. CASE R = s
    BY <1>1, <2>1
  <2>2. CASE R # s
    <3>1. PICK x \in s : x \notin R
      BY <2>2
    <3>2. Sum(f, R) <= Sum(f, s \ {x})
      BY <1>2, <3>1
    <3>3. Sum(f, s) = f[x] + Sum(f, s \ {x})
      BY <1>0, SumOut
    <3>4. f[x] \in Nat /\ Sum(f, s \ {x}) \in Nat
      BY <1>0, SumOut
    <3> QED
      BY <1>1, <3>2, <3>3, <3>4
  <2> QED
    BY <2>1, <2>2
<1> HIDE DEF F
<1>3. S \in F
  BY <1>2, SubsetsUp
<1> QED
  BY <1>1, <1>3 DEF F

----------------------------------------------------------------------------
\* The size of a window.
Nums(exts, p) == [k \in 1 .. p.num |-> exts[p.first + k].num]

LEMMA SizeIs ==
  ASSUME NEW exts, NEW p
  PROVE  PartitionSectors(exts, p) = Sum(Nums(exts, p), 1 .. p.num)
<1>1. DOMAIN Nums(exts, p) = 1 .. p.num
  BY DEF Nums
<1>2. PartitionSectors(exts, p) = SeqX!SumFunction(Nums(exts, p))
  BY DEF PartitionSectors, Nums
<1> QED
  BY <1>1, <1>2 DEF SeqX!SumFunction, Sum

\* Windows of the same extents have the same size, wherever they are.
LEMMA SizeSame ==
  ASSUME NEW exts, NEW p, NEW new, NEW q, q.num = p.num,
         \A k \in 1 .. p.num : new[q.first + k] = exts[p.first + k]
  PROVE  PartitionSectors(new, q) = PartitionSectors(exts, p)
<1>1. Nums(new, q) = Nums(exts, p)
  BY DEF Nums
<1> QED
  BY <1>1, SizeIs

LEMMA SizeNat ==
  ASSUME NEW exts, NEW p, p.first \in Nat, p.num \in Nat, Inside(exts, p.first, p.num)
  PROVE  PartitionSectors(exts, p) \in Nat
<1> DEFINE f == Nums(exts, p)
<1>1. \A k \in 1 .. p.num : f[k] \in Nat
  BY DEF Inside, Extent, Nums
<1>2. IsFiniteSet(1 .. p.num)
  BY SMTT(30), FS_Interval
<1> HIDE DEF f
<1>3. Sum(f, 1 .. p.num) \in Nat
  BY <1>1, <1>2, SumNat
<1> QED
  BY <1>3, SizeIs DEF f

LEMMA SizeNone ==
  ASSUME NEW exts, NEW p, p.num = 0
  PROVE  PartitionSectors(exts, p) = 0
<1>1. 1 .. p.num = {} /\ IsFiniteSet({})
  BY FS_EmptySet
<1>2. Sum(Nums(exts, p), {}) = 0
  BY <1>1, SumStep
<1> QED
  BY <1>1, <1>2, SizeIs

\* One more extent adds its sectors.
LEMMA SizeNext ==
  ASSUME NEW exts, NEW p, NEW q, NEW num \in Nat, p.num = num, q.num = num + 1,
         p.first \in Nat, q.first = p.first, Inside(exts, p.first, num + 1)
  PROVE  PartitionSectors(exts, q) = PartitionSectors(exts, p) + exts[p.first + num + 1].num
<1> DEFINE f == Nums(exts, p)
           g == Nums(exts, q)
           S == 1 .. num + 1
<1>1. /\ \A k \in S : g[k] = exts[p.first + k].num /\ g[k] \in Nat
      /\ \A k \in 1 .. num : f[k] = g[k]
  <2>1. \A k \in S : g[k] = exts[p.first + k].num
    BY DEF Nums
  <2>2. \A k \in S : exts[p.first + k].num \in Nat
    BY DEF Inside, Extent
  <2>3. \A k \in 1 .. num : f[k] = exts[p.first + k].num /\ k \in S
    BY DEF Nums
  <2> HIDE DEF f, g, S
  <2> QED
    BY <2>1, <2>2, <2>3
<1>2. num + 1 \in S /\ S \ {num + 1} = 1 .. num /\ p.first + (num + 1) = p.first + num + 1
  OBVIOUS
<1>3. IsFiniteSet(S) /\ IsFiniteSet(1 .. num)
  BY FS_Interval
<1>4. PartitionSectors(exts, q) = Sum(g, S) /\ PartitionSectors(exts, p) = Sum(f, 1 .. num)
  BY SizeIs
<1> HIDE DEF f, g, S
<1>5. Sum(g, S) = g[num + 1] + Sum(g, S \ {num + 1}) /\ Sum(g, 1 .. num) \in Nat
  <2>1. \A k \in S : g[k] \in Nat
    BY <1>1
  <2>2. \A k \in 1 .. num : k \in S
    BY <1>2
  <2>3. Sum(g, S) = g[num + 1] + Sum(g, S \ {num + 1})
    BY SMTT(30), <1>2, <1>3, <2>1, SumOut
  <2>4. Sum(g, 1 .. num) \in Nat
    BY <1>3, <2>1, <2>2, SumNat
  <2> QED
    BY <2>3, <2>4
<1>6. Sum(g, 1 .. num) = Sum(f, 1 .. num)
  BY <1>1, <1>3, SumSame
<1>7. g[num + 1] = exts[p.first + num + 1].num /\ g[num + 1] \in Nat
  <2>1. g[num + 1] = exts[p.first + (num + 1)].num /\ g[num + 1] \in Nat
    BY <1>1, <1>2
  <2> QED
    BY Zenon, <1>2, <2>1
<1> DEFINE x == exts[p.first + num + 1].num
           y == Sum(g, 1 .. num)
<1>8. Sum(g, S) = x + y /\ x \in Nat /\ y \in Nat
  BY Zenon, <1>2, <1>5, <1>7
<1>9. PartitionSectors(exts, q) = x + y /\ PartitionSectors(exts, p) = y
  BY Zenon, <1>4, <1>6, <1>8
<1> HIDE DEF x, y
<1>10. x + y = y + x
  BY <1>8
<1> QED
  BY Zenon, <1>9, <1>10 DEF x

----------------------------------------------------------------------------
\* What a group's members hold together.
Sizes(prts, exts) == [n \in DOMAIN prts |-> PartitionSectors(exts, prts[n])]
InGroup(prts, S, i) == {n \in S : prts[n].group = i}
Held(prts, exts, i) == Sum(Sizes(prts, exts), InGroup(prts, DOMAIN prts, i))

LEMMA ChargedIs ==
  ASSUME NEW S, NEW i
  PROVE  Charged(S, i) = Sum(Sizes(parts, extents), InGroup(parts, S, i))
BY DEF Charged, Sum, Sizes, InGroup

LEMMA SizesFacts ==
  ASSUME IInv
  PROVE  /\ IsFiniteSet(DOMAIN parts)
         /\ \A S \in SUBSET DOMAIN parts : \A i :
              IsFiniteSet(InGroup(parts, S, i)) /\ InGroup(parts, S, i) \subseteq DOMAIN parts
         /\ \A n \in DOMAIN parts : Sizes(parts, extents)[n] \in Nat
<1>1. IsFiniteSet(DOMAIN parts)
  BY InvFacts, NamesAssumption, FS_Subset
<1>2. \A S \in SUBSET DOMAIN parts : \A i :
        IsFiniteSet(InGroup(parts, S, i)) /\ InGroup(parts, S, i) \subseteq DOMAIN parts
  <2>1. \A S \in SUBSET DOMAIN parts : \A i : InGroup(parts, S, i) \subseteq DOMAIN parts
    BY DEF InGroup
  <2> QED
    BY <1>1, <2>1, FS_Subset
<1>3. \A n \in DOMAIN parts : Sizes(parts, extents)[n] \in Nat
  BY WindowInside, SizeNat DEF Sizes
<1> QED
  BY <1>1, <1>2, <1>3

\* A group whose members are, windows and all, members of group i of before.
MembersOf(q, new, j, i) ==
  \A m \in DOMAIN q : q[m].group = j =>
    m \in DOMAIN parts /\ parts[m].group = i /\ SameWindow(q, new, m)

LEMMA SizeKept ==
  ASSUME NEW q, NEW new, NEW m, SameWindow(q, new, m)
  PROVE  Sizes(q, new)[m] = Sizes(parts, extents)[m]
<1>1. PartitionSectors(new, q[m]) = PartitionSectors(extents, parts[m])
  BY SizeSame DEF SameWindow
<1> QED
  BY <1>1 DEF SameWindow, Sizes

LEMMA HeldKept ==
  ASSUME IInv, NEW q, NEW new, NEW i, NEW j, MembersOf(q, new, j, i)
  PROVE  /\ Held(q, new, j) <= Held(parts, extents, i)
         /\ Held(q, new, j) \in Nat /\ Held(parts, extents, i) \in Nat
<1> DEFINE f == Sizes(parts, extents)
           g == Sizes(q, new)
           S == InGroup(parts, DOMAIN parts, i)
           T == InGroup(q, DOMAIN q, j)
<1>1. IsFiniteSet(S) /\ \A n \in S : f[n] \in Nat
  BY SizesFacts DEF InGroup
<1>2. T \subseteq S /\ \A n \in T : SameWindow(q, new, n)
  BY DEF MembersOf, InGroup
<1>3. \A n \in T : g[n] = f[n]
  BY <1>2, SizeKept
<1>4. IsFiniteSet(T)
  BY <1>1, <1>2, FS_Subset
<1> HIDE DEF f, g, S, T
<1>5. Sum(f, T) \in Nat /\ Sum(f, T) <= Sum(f, S)
  BY <1>1, <1>2, SumPart
<1>6. Sum(f, S) \in Nat
  BY <1>1, SumNat
<1>7. Sum(g, T) = Sum(f, T)
  BY <1>3, <1>4, SumSame
<1> QED
  BY <1>5, <1>6, <1>7 DEF f, g, S, T, Held

\* The group of n, when n has `sectors` and the other members are of before.
LEMMA HeldCharged ==
  ASSUME IInv, NEW q, NEW new, NEW n \in DOMAIN q, NEW i, q[n].group = i,
         NEW sectors \in Nat, PartitionSectors(new, q[n]) = sectors,
         \A m \in DOMAIN q : m # n /\ q[m].group = i =>
           m \in DOMAIN parts /\ parts[m].group = i /\ SameWindow(q, new, m)
  PROVE  /\ Held(q, new, i) <= Charged(DOMAIN parts \ {n}, i) + sectors
         /\ Held(q, new, i) \in Nat /\ Charged(DOMAIN parts \ {n}, i) \in Nat
<1> DEFINE f == Sizes(parts, extents)
           g == Sizes(q, new)
           S == InGroup(parts, DOMAIN parts \ {n}, i)
           T == InGroup(q, DOMAIN q, i)
           U == T \ {n}
<1>1. IsFiniteSet(S) /\ \A m \in S : f[m] \in Nat
  BY ZenonT(60), SizesFacts DEF InGroup
<1>2. U \subseteq S /\ n \in T /\ \A m \in U : SameWindow(q, new, m)
  BY DEF InGroup
<1>3. \A m \in U : g[m] = f[m]
  BY <1>2, SizeKept
<1>4. IsFiniteSet(U) /\ IsFiniteSet(T)
  <2>1. IsFiniteSet(U)
    <3> HIDE DEF S, U
    <3> QED
      BY <1>1, <1>2, FS_Subset
  <2>2. T = U \cup {n}
    BY <1>2
  <2> HIDE DEF U, T
  <2> QED
    BY <2>1, <2>2, FS_AddElement
<1>5. g[n] = sectors
  BY DEF Sizes
<1>6. Charged(DOMAIN parts \ {n}, i) = Sum(f, S)
  BY ChargedIs
<1>7. \A m \in T : m = n \/ m \in U
  OBVIOUS
<1> HIDE DEF f, g, S, T
<1>8. Sum(f, U) \in Nat /\ Sum(f, U) <= Sum(f, S) /\ Sum(f, S) \in Nat
  <2> HIDE DEF U
  <2>1. Sum(f, U) \in Nat /\ Sum(f, U) <= Sum(f, S)
    BY <1>1, <1>2, SumPart
  <2>2. Sum(f, S) \in Nat
    BY <1>1, SumNat
  <2> QED
    BY <2>1, <2>2
<1>9. Sum(g, U) = Sum(f, U)
  <2> HIDE DEF U
  <2> QED
    BY <1>3, <1>4, SumSame
<1>10. Sum(g, T) = g[n] + Sum(g, U)
  <2>1. \A m \in T : g[m] \in Nat
    <3> HIDE DEF U
    <3> QED
      BY <1>1, <1>2, <1>3, <1>5, <1>7
  <2> QED
    BY <1>2, <1>4, <2>1, SumOut
<1> HIDE DEF U
<1>11. Held(q, new, i) = Sum(g, T)
  BY DEF Held, g, T
<1> QED
  BY <1>5, <1>6, <1>8, <1>9, <1>10, <1>11

----------------------------------------------------------------------------
\* The invariant: a sound table, and the groups within their limits until
\* --force has been used.
WithinLimits(prts, exts, grps) ==
  \A i \in 0 .. Len(grps) - 1 : grps[i + 1].max > 0 => Held(prts, exts, i) <= grps[i + 1].max
LInv == IInv /\ (~forced => WithinLimits(parts, extents, groups))

LEMMA LimitsAre ==
  ASSUME ~forced => WithinLimits(parts, extents, groups)
  PROVE  LimitsRespected
<1> SUFFICES ASSUME ~forced, NEW i \in GroupIndices, GroupAt(i).max > 0
             PROVE  Charged(DOMAIN parts, i) <= GroupAt(i).max
  BY DEF LimitsRespected
<1>1. Charged(DOMAIN parts, i) = Held(parts, extents, i)
  BY ChargedIs DEF Held
<1> QED
  BY <1>1 DEF WithinLimits, GroupAt, GroupIndices

\* Every group is one of before, or what is left of one.
LEMMA KeepsLimits ==
  ASSUME LInv, NEW q, NEW new, NEW grps, WriteMetadata(q, new, grps), forced' = forced,
         groups \in Seq(Group),
         \A j \in 0 .. Len(grps) - 1 : \E i \in GroupIndices :
           grps[j + 1].max = groups[i + 1].max /\ MembersOf(q, new, j, i)
  PROVE  ~forced' => WithinLimits(parts', extents', groups')
<1> SUFFICES ASSUME ~forced, NEW j \in 0 .. Len(grps) - 1, grps[j + 1].max > 0
             PROVE  Held(q, new, j) <= grps[j + 1].max
  BY DEF WithinLimits, WriteMetadata
<1>1. PICK i \in GroupIndices : grps[j + 1].max = groups[i + 1].max /\ MembersOf(q, new, j, i)
  OBVIOUS
<1>2. /\ Held(q, new, j) <= Held(parts, extents, i)
      /\ Held(q, new, j) \in Nat /\ Held(parts, extents, i) \in Nat
  BY <1>1, HeldKept DEF LInv
<1>3. Held(parts, extents, i) <= groups[i + 1].max
  BY <1>1 DEF LInv, WithinLimits, GroupIndices
<1>4. groups[i + 1].max \in Nat
  <2>1. i + 1 \in DOMAIN groups
    BY InvFacts DEF LInv, GroupIndices
  <2>2. groups[i + 1] \in Group
    BY <2>1, ElementOfSeq
  <2> QED
    BY <2>2 DEF Group
<1> QED
  BY <1>1, <1>2, <1>3, <1>4

\* The group table as it was, or with one more entry.
TableGrows(grps) ==
  /\ grps \in Seq(Group)
  /\ \A j \in 0 .. Len(grps) - 1 :
       (j \in GroupIndices /\ grps[j + 1] = groups[j + 1]) \/ j = Len(groups)

\* A partition that is new, or has a new size, in a group with room for it.
LEMMA ChargeKeepsLimits ==
  ASSUME LInv, NEW q, NEW new, NEW grps, WriteMetadata(q, new, grps), TableGrows(grps),
         NEW n, DOMAIN q = DOMAIN parts \cup {n}, NEW i \in 0 .. Len(grps) - 1, q[n].group = i,
         NEW sectors \in Nat, PartitionSectors(new, q[n]) = sectors,
         \A m \in DOMAIN parts : m # n => SameWindow(q, new, m) /\ q[m].group = parts[m].group,
         ~forced' => ~forced /\ WithinLimit(grps[i + 1], DOMAIN parts \ {n}, i, sectors)
  PROVE  ~forced' => WithinLimits(parts', extents', groups')
<1> SUFFICES ASSUME ~forced', NEW j \in 0 .. Len(grps) - 1, grps[j + 1].max > 0
             PROVE  Held(q, new, j) <= grps[j + 1].max
  BY DEF WithinLimits, WriteMetadata
<1>1. grps[j + 1].max \in Nat
  <2>1. grps \in Seq(Group) /\ j + 1 \in DOMAIN grps
    <3>1. grps \in Seq(Group)
      BY DEF TableGrows
    <3> QED
      BY <3>1, LenProperties
  <2>2. grps[j + 1] \in Group
    BY <2>1, ElementOfSeq
  <2> QED
    BY <2>2 DEF Group
<1>2. ~forced /\ IInv
  BY DEF LInv
<1>3. CASE j = i
  <2>1. /\ Held(q, new, i) <= Charged(DOMAIN parts \ {n}, i) + sectors
        /\ Held(q, new, i) \in Nat /\ Charged(DOMAIN parts \ {n}, i) \in Nat
    <3>1. n \in DOMAIN q
      OBVIOUS
    <3>2. \A m \in DOMAIN q : m # n /\ q[m].group = i =>
            m \in DOMAIN parts /\ parts[m].group = i /\ SameWindow(q, new, m)
      OBVIOUS
    <3> QED
      BY <1>2, <3>1, <3>2, HeldCharged
  <2>2. Charged(DOMAIN parts \ {n}, i) + sectors <= grps[i + 1].max
    BY <1>3 DEF WithinLimit
  <2> QED
    BY <1>1, <1>3, <2>1, <2>2
<1>4. CASE j # i /\ j \in GroupIndices /\ grps[j + 1] = groups[j + 1]
  <2>1. MembersOf(q, new, j, j)
    BY <1>4 DEF MembersOf
  <2>2. /\ Held(q, new, j) <= Held(parts, extents, j)
        /\ Held(q, new, j) \in Nat /\ Held(parts, extents, j) \in Nat
    BY <1>2, <2>1, HeldKept
  <2>3. Held(parts, extents, j) <= groups[j + 1].max
    BY <1>2, <1>4 DEF LInv, WithinLimits, GroupIndices
  <2> QED
    BY <1>1, <1>4, <2>2, <2>3
<1>5. CASE j # i /\ j = Len(groups)
  <2>1. \A m \in DOMAIN parts : parts[m].group # j
    BY <1>2, <1>5, InvFacts
  <2>2. InGroup(q, DOMAIN q, j) = {}
    BY <1>5, <2>1 DEF InGroup
  <2>3. Sum(Sizes(q, new), {}) = 0
    BY SumStep, FS_EmptySet
  <2>4. Held(q, new, j) = 0
    BY Zenon, <2>2, <2>3 DEF Held
  <2> QED
    BY <1>1, <2>4
<1> QED
  BY <1>3, <1>4, <1>5 DEF TableGrows

\* Without --force, what is charged passes the check.
LEMMA ChargeChecks ==
  ASSUME NEW grp, NEW others, NEW i, NEW sectors, NEW force \in BOOLEAN,
         Charge(WithinLimit(grp, others, i, sectors), force), ~forced'
  PROVE  ~forced /\ WithinLimit(grp, others, i, sectors)
<1> DEFINE ok == WithinLimit(grp, others, i, sectors)
<1>1. ok \in BOOLEAN
  BY DEF WithinLimit
<1>2. ok # force /\ forced' = (forced \/ force)
  BY DEF Charge
<1> HIDE DEF ok
<1>3. ~forced /\ ~force
  BY Zenon, <1>2
<1>4. ok
  BY Zenon, <1>1, <1>2, <1>3
<1> QED
  BY <1>3, <1>4 DEF ok

----------------------------------------------------------------------------
\* Each command keeps the groups within their limits: first those that place
\* a new partition.

LEMMA GroupsForIs ==
  ASSUME IInv, NEW g \in NewGroups, NEW sizes \in GroupSizeOpts(g)
  PROVE  TableGrows(GroupsFor(g, sizes))
<1> DEFINE grps == GroupsFor(g, sizes)
<1>1. grps \in Seq(Group) /\ Len(grps) \in Nat /\ groups \in Seq(Group) /\ Len(groups) \in Nat
  BY GroupsForType, InvFacts
<1>2. CASE grps = groups
  <2>1. TableGrows(groups)
    BY <1>1 DEF TableGrows, GroupIndices
  <2> QED
    BY Zenon, <1>2, <2>1
<1>3. CASE grps # groups
  <2> DEFINE new == [name |-> g, max |-> CHOOSE s \in sizes : TRUE]
  <2>1. grps = Append(groups, new)
    BY <1>3 DEF GroupsFor
  <2> HIDE DEF new
  <2>2. Len(grps) = Len(groups) + 1 /\ \A k \in 1 .. Len(groups) : grps[k] = groups[k]
    BY <1>1, <2>1
  <2> HIDE DEF grps
  <2>3. ASSUME NEW j \in 0 .. Len(grps) - 1
        PROVE  (j \in GroupIndices /\ grps[j + 1] = groups[j + 1]) \/ j = Len(groups)
    <3>1. j \in 0 .. Len(groups) - 1 \/ j = Len(groups)
      BY <1>1, <2>2
    <3>2. j \in 0 .. Len(groups) - 1 => j + 1 \in 1 .. Len(groups)
      BY <1>1
    <3> QED
      BY <2>2, <3>1, <3>2 DEF GroupIndices
  <2>4. TableGrows(grps)
    BY <1>1, <2>3 DEF TableGrows
  <2> QED
    BY <2>4 DEF grps
<1> QED
  BY <1>2, <1>3

LEMMA SizeOne ==
  ASSUME NEW exts, NEW p, p.num = 1, p.first \in Nat, exts[p.first + 1] \in Extent
  PROVE  PartitionSectors(exts, p) = exts[p.first + 1].num
<1> DEFINE o == [first |-> p.first, num |-> 0]
<1>1. /\ o.first = p.first /\ o.num = 0 /\ 0 + 1 = 1 /\ p.first + 0 + 1 = p.first + 1
      /\ Inside(exts, p.first, 0 + 1)
  BY DEF Inside
<1> HIDE DEF o
<1>2. PartitionSectors(exts, p) = PartitionSectors(exts, o) + exts[o.first + 0 + 1].num
  BY <1>1, SizeNext
<1>3. PartitionSectors(exts, o) = 0
  BY <1>1, SizeNone
<1>4. exts[p.first + 1].num \in Nat
  BY DEF Extent
<1> QED
  BY <1>1, <1>2, <1>3, <1>4

LEMMA PlaceLimits ==
  ASSUME LInv, NEW n, n \notin DOMAIN parts, NEW grps, TableGrows(grps),
         NEW i \in 0 .. Len(grps) - 1,
         NEW needed \in Nat \ {0}, NEW allowed, allowed \subseteq DeviceIndices(Devs),
         NEW force \in BOOLEAN, Place(n, i, grps, needed, allowed, force)
  PROVE  ~forced' => WithinLimits(parts', extents', groups')
<1> DEFINE p == [first |-> Len(extents), num |-> 1, group |-> i]
<1>1. PICK d \in allowed : \E s \in FreeStarts(extents, Devs, d, needed) :
        WriteMetadata(With(parts, n, p), Append(extents, LinearExtent(d, s, needed)), grps)
  BY DEF Place
<1>2. PICK s \in FreeStarts(extents, Devs, d, needed) :
        WriteMetadata(With(parts, n, p), Append(extents, LinearExtent(d, s, needed)), grps)
  BY <1>1
<1> DEFINE e == LinearExtent(d, s, needed)
           q == With(parts, n, p)
           new == Append(extents, e)
<1>3. IInv /\ extents \in Seq(Extent) /\ Len(extents) \in Nat
  BY InvFacts DEF LInv
<1>4. d \in DeviceIndices(Devs)
  BY <1>1
<1>5. s \in Nat
  BY <1>3, <1>4, FreeStartsSound
<1>6. e \in Extent /\ e.num = needed
  BY <1>4, <1>5, LinearExtentFacts DEF LinearExtent
<1>7. /\ p.first = Len(extents) /\ p.num = 1 /\ p.group = i
      /\ DOMAIN q = DOMAIN parts \cup {n} /\ q[n] = p
      /\ \A m \in DOMAIN parts : m \in DOMAIN q /\ q[m] = parts[m]
  BY DEF With
<1>8. WriteMetadata(q, new, grps)
  BY <1>2
<1> HIDE DEF p, q, e
<1>9. new[Len(extents) + 1] = e
  BY <1>3, <1>6, AppendProperties
<1>10. \A m \in DOMAIN parts : SameWindow(q, new, m)
  BY <1>3, <1>6, <1>7, AppendSame
<1> HIDE DEF new
<1>11. PartitionSectors(new, q[n]) = needed
  BY <1>3, <1>6, <1>7, <1>9, SizeOne
<1>12. Charge(WithinLimit(grps[i + 1], DOMAIN parts \ {n}, i, needed), force)
  <2>1. DOMAIN parts \ {n} = DOMAIN parts
    OBVIOUS
  <2> QED
    BY <2>1 DEF Place
<1>13. ~forced' => ~forced /\ WithinLimit(grps[i + 1], DOMAIN parts \ {n}, i, needed)
  BY <1>12, ChargeChecks
<1>14. \A m \in DOMAIN parts : m # n => SameWindow(q, new, m) /\ q[m].group = parts[m].group
  BY <1>7, <1>10
<1> QED
  BY <1>7, <1>8, <1>11, <1>13, <1>14, ChargeKeepsLimits

LEMMA AddLimits ==
  ASSUME LInv, NEW n \in Names, NEW i \in GroupIndices, NEW needed \in Requests,
         NEW bound \in SUBSET (DeviceIndices(Devs) \ {0}), NEW force \in BOOLEAN,
         Add(n, i, needed, bound, force)
  PROVE  ~forced' => WithinLimits(parts', extents', groups')
<1>1. needed \in Nat \ {0}
  BY SizesAssumption DEF Requests
<1>2. {0} \cup bound \subseteq DeviceIndices(Devs)
  BY DevicesAssumption, EmptySeq DEF DeviceIndices
<1>3. /\ n \notin DOMAIN parts /\ i \in 0 .. Len(groups) - 1
      /\ Place(n, i, groups, needed, {0} \cup bound, force)
  BY DEF Add, GroupIndices
<1>4. TableGrows(groups)
  BY InvFacts DEF LInv, TableGrows, GroupIndices
<1> QED
  BY SMTT(30), <1>1, <1>2, <1>3, <1>4, PlaceLimits

LEMMA CreateLimits ==
  ASSUME LInv, NEW n \in Names, NEW g \in NewGroups, NEW sizes \in GroupSizeOpts(g),
         NEW needed \in Requests, NEW force \in BOOLEAN,
         Create(n, g, sizes, needed, force)
  PROVE  ~forced' => WithinLimits(parts', extents', groups')
<1> DEFINE grps == GroupsFor(g, sizes)
<1>1. needed \in Nat \ {0}
  BY SizesAssumption DEF Requests
<1>2. PICK i \in DOMAIN grps :
        grps[i].name = g /\ Place(n, i - 1, grps, needed, DeviceIndices(Devs), force)
  BY DEF Create
<1>3. n \notin DOMAIN parts
  BY DEF Create
<1>4. TableGrows(grps) /\ DOMAIN grps = 1 .. Len(grps) /\ Len(grps) \in Nat
  BY GroupsForIs, GroupsForType DEF LInv
<1> HIDE DEF grps
<1>5. i - 1 \in 0 .. Len(grps) - 1
  BY <1>4
<1> QED
  BY <1>1, <1>2, <1>3, <1>4, <1>5, PlaceLimits

LEMMA CreateEmptyLimits ==
  ASSUME LInv, NEW n \in Names, NEW g \in NewGroups, NEW sizes \in GroupSizeOpts(g),
         CreateEmpty(n, g, sizes)
  PROVE  ~forced' => WithinLimits(parts', extents', groups')
<1> DEFINE grps == GroupsFor(g, sizes)
           P(k) == [first |-> Len(extents), num |-> 0, group |-> k - 1]
<1>1. PICK k \in DOMAIN grps :
        grps[k].name = g /\ WriteMetadata(With(parts, n, P(k)), extents, grps)
  BY DEF CreateEmpty
<1>2. n \notin DOMAIN parts /\ forced' = forced
  BY DEF CreateEmpty
<1>3. IInv /\ TableGrows(grps) /\ DOMAIN grps = 1 .. Len(grps) /\ Len(grps) \in Nat
  BY GroupsForIs, GroupsForType DEF LInv
<1> HIDE DEF grps
<1> DEFINE p == P(k)
           q == With(parts, n, p)
           i == k - 1
<1>4. /\ i \in 0 .. Len(grps) - 1 /\ p.num = 0 /\ p.group = i
      /\ DOMAIN q = DOMAIN parts \cup {n} /\ q[n] = p
      /\ \A m \in DOMAIN parts : m \in DOMAIN q /\ q[m] = parts[m]
  <2>1. i \in 0 .. Len(grps) - 1 /\ p.num = 0 /\ p.group = i
    BY <1>3
  <2>2. /\ DOMAIN q = DOMAIN parts \cup {n} /\ q[n] = p
        /\ \A m \in DOMAIN parts : m \in DOMAIN q /\ q[m] = parts[m]
    <3> HIDE DEF p
    <3> QED
      BY <1>2 DEF With
  <2> QED
    BY <2>1, <2>2
<1>5. WriteMetadata(q, extents, grps)
  BY <1>1
<1> HIDE DEF p, q, i
<1>6. \A m \in DOMAIN parts : m # n => SameWindow(q, extents, m) /\ q[m].group = parts[m].group
  BY <1>4 DEF SameWindow
<1>7. PartitionSectors(extents, q[n]) = 0
  BY <1>4, SizeNone
<1>8. ASSUME ~forced'
      PROVE  ~forced /\ WithinLimit(grps[i + 1], DOMAIN parts \ {n}, i, 0)
  <2>1. ~forced /\ DOMAIN parts \ {n} = DOMAIN parts
    BY <1>2, <1>8
  <2>2. Charged(DOMAIN parts, i) = Held(parts, extents, i)
    BY ChargedIs DEF Held
  <2> SUFFICES ASSUME grps[i + 1].max > 0
               PROVE  Charged(DOMAIN parts, i) + 0 <= grps[i + 1].max
    BY <2>1 DEF WithinLimit
  <2>3. MembersOf(parts, extents, i, i)
    BY DEF MembersOf, SameWindow
  <2>4. Held(parts, extents, i) \in Nat
    BY <1>3, <2>3, HeldKept
  <2>5. grps[i + 1].max \in Nat
    <3>1. grps \in Seq(Group) /\ i + 1 \in DOMAIN grps
      BY <1>3, <1>4 DEF TableGrows
    <3>2. grps[i + 1] \in Group
      BY <3>1, ElementOfSeq
    <3> QED
      BY <3>2 DEF Group
  <2>6. CASE i \in GroupIndices /\ grps[i + 1] = groups[i + 1]
    <3>1. Held(parts, extents, i) <= groups[i + 1].max
      BY <2>1, <2>6 DEF LInv, WithinLimits, GroupIndices
    <3> QED
      BY <2>2, <2>4, <2>5, <2>6, <3>1
  <2>7. CASE i = Len(groups)
    <3>1. \A m \in DOMAIN parts : parts[m].group # i
      BY <1>3, <2>7, InvFacts
    <3>2. InGroup(parts, DOMAIN parts, i) = {}
      BY <3>1 DEF InGroup
    <3>3. Sum(Sizes(parts, extents), {}) = 0
      BY SumStep, FS_EmptySet
    <3>4. Held(parts, extents, i) = 0
      BY Zenon, <3>2, <3>3 DEF Held
    <3> QED
      BY <2>2, <2>5, <3>4
  <2> QED
    BY <1>3, <1>4, <2>6, <2>7 DEF TableGrows
<1>9. q[n].group = i /\ 0 \in Nat
  BY <1>4
<1> QED
  BY <1>3, <1>4, <1>5, <1>6, <1>7, <1>8, <1>9, ChargeKeepsLimits

----------------------------------------------------------------------------
\* resize.

LEMMA ResizeChecks ==
  ASSUME LInv, NEW n \in DOMAIN parts, NEW sectors, NEW force \in BOOLEAN,
         ChargeResize(n, sectors, force)
  PROVE  /\ parts[n].group \in 0 .. Len(groups) - 1
         /\ ~forced' =>
              ~forced /\ WithinLimit(groups[parts[n].group + 1], DOMAIN parts \ {n}, parts[n].group, sectors)
BY ChargeChecks DEF ChargeResize, GroupIndices, GroupAt

\* The size of one window changes; the others are kept.
LEMMA ResizeLimits ==
  ASSUME LInv, NEW n \in DOMAIN parts, NEW q, NEW new, WriteMetadata(q, new, groups),
         DOMAIN q = DOMAIN parts, \A m \in DOMAIN parts : q[m].group = parts[m].group,
         \A m \in DOMAIN parts : m # n => SameWindow(q, new, m),
         NEW force \in BOOLEAN, NEW sectors \in Nat, ChargeResize(n, sectors, force),
         PartitionSectors(new, q[n]) = sectors
  PROVE  ~forced' => WithinLimits(parts', extents', groups')
<1>1. /\ parts[n].group \in 0 .. Len(groups) - 1
      /\ ~forced' =>
           ~forced /\ WithinLimit(groups[parts[n].group + 1], DOMAIN parts \ {n}, parts[n].group, sectors)
  BY ResizeChecks
<1>2. TableGrows(groups)
  BY InvFacts DEF LInv, TableGrows, GroupIndices
<1>3. DOMAIN q = DOMAIN parts \cup {n}
  OBVIOUS
<1> QED
  BY <1>1, <1>2, <1>3, ChargeKeepsLimits

LEMMA GrowFreshLimits ==
  ASSUME LInv, NEW n \in DOMAIN parts, NEW extra \in Requests, NEW force \in BOOLEAN,
         GrowFresh(n, extra, force)
  PROVE  ~forced' => WithinLimits(parts', extents', groups')
<1> DEFINE p == [parts[n] EXCEPT !.first = Len(extents), !.num = 1]
           q == With(parts, n, p)
<1>1. extra \in Nat
  BY SizesAssumption DEF Requests
<1>2. PICK d \in DeviceIndices(Devs) : \E s \in FreeStarts(extents, Devs, d, extra) :
        WriteMetadata(q, Append(extents, LinearExtent(d, s, extra)), groups)
  BY DEF GrowFresh
<1>3. PICK s \in FreeStarts(extents, Devs, d, extra) :
        WriteMetadata(q, Append(extents, LinearExtent(d, s, extra)), groups)
  BY <1>2
<1> DEFINE e == LinearExtent(d, s, extra)
           new == Append(extents, e)
<1>4. IInv /\ extents \in Seq(Extent) /\ Len(extents) \in Nat /\ parts[n] \in Partition
  BY InvFacts DEF LInv
<1>5. s \in Nat
  BY <1>1, <1>4, FreeStartsSound
<1>6. e \in Extent /\ e.num = extra
  BY <1>1, <1>5, LinearExtentFacts DEF LinearExtent
<1>7. p.first = Len(extents) /\ p.num = 1 /\ p.group = parts[n].group
  BY <1>4 DEF Partition
<1>8. /\ DOMAIN q = DOMAIN parts /\ q[n] = p
      /\ \A m \in DOMAIN parts : m # n => q[m] = parts[m]
  BY DEF With
<1>9. WriteMetadata(q, new, groups)
  BY <1>3
<1> HIDE DEF p, q, e
<1>10. new[Len(extents) + 1] = e
  BY <1>4, <1>6, AppendProperties
<1>11. \A m \in DOMAIN parts : m # n => SameWindow(q, new, m)
  BY <1>4, <1>6, <1>8, AppendSame
<1> HIDE DEF new
<1>12. PartitionSectors(new, q[n]) = extra
  BY <1>4, <1>6, <1>7, <1>8, <1>10, SizeOne
<1>13. \A m \in DOMAIN parts : q[m].group = parts[m].group
  BY <1>7, <1>8
<1>14. ChargeResize(n, extra, force)
  BY DEF GrowFresh
<1> QED
  BY <1>1, <1>8, <1>9, <1>11, <1>12, <1>13, <1>14, ResizeLimits

LEMMA GrowInPlaceLimits ==
  ASSUME LInv, NEW n \in DOMAIN parts, NEW extra \in Requests, NEW force \in BOOLEAN,
         GrowInPlace(n, extra, force)
  PROVE  ~forced' => WithinLimits(parts', extents', groups')
<1> DEFINE a == parts[n].first
           num == parts[n].num - 1
           o == [first |-> a, num |-> num]
           e == LastExtent(parts[n])
           f == [e EXCEPT !.num = @ + extra]
           new == [extents EXCEPT ![parts[n].first + parts[n].num] = f]
           sectors == PartitionSectors(extents, parts[n]) + extra
<1>1. extra \in Nat
  BY SizesAssumption DEF Requests
<1>2. /\ parts[n].num > 0 /\ ChargeResize(n, sectors, force) /\ WriteMetadata(parts, new, groups)
  BY DEF GrowInPlace
<1>3. IInv /\ extents \in Seq(Extent) /\ DOMAIN extents = 1 .. Len(extents)
  BY InvFacts DEF LInv
<1>4. /\ parts[n].first + parts[n].num \in 1 .. Len(extents)
      /\ e = extents[parts[n].first + parts[n].num] /\ e \in Extent
  <2>1. /\ parts[n].first + parts[n].num \in 1 .. Len(extents)
        /\ e = extents[parts[n].first + parts[n].num]
    BY <1>2, <1>3, LastExtentFacts
  <2> HIDE DEF e
  <2> QED
    BY <1>3, <2>1, ExtentFields
<1>5. f \in Extent /\ f.num = e.num + extra /\ e.num \in Nat
  <2> HIDE DEF e
  <2> QED
    BY <1>1, <1>4 DEF Extent
<1>6. /\ a \in Nat /\ num \in Nat /\ num + 1 = parts[n].num
      /\ a + num + 1 = parts[n].first + parts[n].num
      /\ Inside(extents, a, num + 1)
  <2>1. a \in Nat /\ num \in Nat /\ num + 1 = parts[n].num
        /\ a + num + 1 = parts[n].first + parts[n].num
    BY <1>2, <1>3, WindowInside
  <2>2. Inside(extents, a, parts[n].num)
    BY <1>3, WindowInside
  <2> QED
    BY <2>1, <2>2
<1>7. \A m \in DOMAIN parts : m # n => SameWindow(parts, new, m)
  <2>1. parts[n].num \in 1 .. parts[n].num
    BY <1>2, <1>3, WindowInside
  <2> HIDE DEF f
  <2> QED
    BY <1>3, <2>1, ExceptSame
<1>8. /\ \A k \in 1 .. num : new[a + k] = extents[a + k]
      /\ new[a + num + 1] = f
  <2> HIDE DEF f
  <2>1. new[a + num + 1] = f
    BY <1>3, <1>4, <1>6
  <2>2. ASSUME NEW k \in 1 .. num PROVE new[a + k] = extents[a + k]
    <3>1. a + k # parts[n].first + parts[n].num
      BY <1>6
    <3> QED
      BY <3>1
  <2> QED
    BY <2>1, <2>2
<1>9. Inside(new, a, num + 1)
  <2>1. \A k \in 1 .. num + 1 : k \in 1 .. num \/ a + k = a + num + 1
    BY <1>6
  <2>2. \A k \in 1 .. num : k \in 1 .. num + 1
    BY <1>6
  <2> HIDE DEF a, num, f, new
  <2> QED
    BY <1>5, <1>6, <1>8, <2>1, <2>2 DEF Inside
<1>10. o.first = a /\ o.num = num
  OBVIOUS
<1> HIDE DEF o, a, num, new, e, f
<1>11. /\ PartitionSectors(extents, parts[n]) = PartitionSectors(extents, o) + extents[a + num + 1].num
       /\ PartitionSectors(new, parts[n]) = PartitionSectors(new, o) + new[a + num + 1].num
       /\ PartitionSectors(new, o) = PartitionSectors(extents, o)
       /\ PartitionSectors(extents, o) \in Nat
  <2>1. parts[n].first = a /\ parts[n].num = num + 1 /\ o.first = a
    BY <1>6, <1>10 DEF a
  <2>2. PartitionSectors(extents, parts[n]) = PartitionSectors(extents, o) + extents[a + num + 1].num
    <3> DEFINE r == parts[n]
    <3>1. /\ num \in Nat /\ o.num = num /\ r.num = num + 1
          /\ o.first \in Nat /\ r.first = o.first /\ Inside(extents, o.first, num + 1)
      BY Zenon, <1>6, <1>10, <2>1
    <3> HIDE DEF r
    <3>2. PartitionSectors(extents, r) = PartitionSectors(extents, o) + extents[o.first + num + 1].num
      BY <3>1, SizeNext
    <3> QED
      BY Zenon, <1>10, <3>2 DEF r
  <2>3. PartitionSectors(new, parts[n]) = PartitionSectors(new, o) + new[a + num + 1].num
    <3> DEFINE r == parts[n]
    <3>1. /\ num \in Nat /\ o.num = num /\ r.num = num + 1
          /\ o.first \in Nat /\ r.first = o.first /\ Inside(new, o.first, num + 1)
      BY Zenon, <1>6, <1>9, <1>10, <2>1
    <3> HIDE DEF r
    <3>2. PartitionSectors(new, r) = PartitionSectors(new, o) + new[o.first + num + 1].num
      BY <3>1, SizeNext
    <3> QED
      BY Zenon, <1>10, <3>2 DEF r
  <2>4. PartitionSectors(new, o) = PartitionSectors(extents, o)
    BY <1>8, <1>10, SizeSame
  <2>5. PartitionSectors(extents, o) \in Nat
    <3>1. Inside(extents, o.first, o.num)
      BY <1>6, <1>10 DEF Inside
    <3> QED
      BY <1>6, <1>10, <3>1, SizeNat
  <2> QED
    BY <2>2, <2>3, <2>4, <2>5
<1>12. extents[a + num + 1] = e /\ new[a + num + 1] = f
  BY Zenon, <1>4, <1>6, <1>8
<1>13. PartitionSectors(new, parts[n]) = sectors /\ sectors \in Nat
  BY <1>1, <1>5, <1>11, <1>12
<1> HIDE DEF sectors
<1> QED
  BY <1>2, <1>7, <1>13, ResizeLimits

LEMMA GrowSpliceLimits ==
  ASSUME LInv, NEW n \in DOMAIN parts, NEW extra \in Requests, NEW force \in BOOLEAN,
         GrowSplice(n, extra, force)
  PROVE  ~forced' => WithinLimits(parts', extents', groups')
<1> DEFINE a == parts[n].first
           num == parts[n].num
           at == a + num
           d == LastExtent(parts[n]).source
           p == [parts[n] EXCEPT !.num = @ + 1]
           q == With(ShiftUp(parts, at), n, p)
           sectors == PartitionSectors(extents, parts[n]) + extra
<1>1. extra \in Nat
  BY SizesAssumption DEF Requests
<1>2. num > 0 /\ IInv /\ ChargeResize(n, sectors, force)
  BY DEF GrowSplice, LInv
<1>3. PICK s \in FreeStarts(extents, Devs, d, extra) :
        WriteMetadata(q, Insert(extents, at, LinearExtent(d, s, extra)), groups)
  BY DEF GrowSplice
<1>4. /\ d \in DeviceIndices(Devs) /\ at \in 0 .. Len(extents) /\ extents \in Seq(Extent)
      /\ Len(extents) \in Nat /\ a \in Nat /\ num \in Nat
  BY <1>2, InvFacts, LastExtentFacts
<1> DEFINE e == LinearExtent(d, s, extra)
           new == Insert(extents, at, e)
<1>5. s \in Nat
  <2> HIDE DEF d
  <2> QED
    BY <1>1, <1>4, FreeStartsSound
<1>6. e \in Extent /\ e.num = extra
  <2> HIDE DEF d
  <2> QED
    BY <1>1, <1>4, <1>5, LinearExtentFacts DEF LinearExtent
<1>7. p.first = a /\ p.num = num + 1 /\ p.group = parts[n].group
  BY <1>2, InvFacts DEF Partition
<1>8. /\ DOMAIN q = DOMAIN parts /\ q[n] = p
      /\ \A m \in DOMAIN parts : q[m].group = parts[m].group
  <2>1. \A m \in DOMAIN parts : [parts[m] EXCEPT !.first = @ + 1].group = parts[m].group
    BY <1>2, InvFacts DEF Partition
  <2>2. DOMAIN q = DOMAIN parts /\ q[n] = p
    BY DEF With, ShiftUp
  <2>3. ASSUME NEW m \in DOMAIN parts, m # n PROVE q[m].group = parts[m].group
    <3>1. q[m] = IF parts[m].first >= at THEN [parts[m] EXCEPT !.first = @ + 1] ELSE parts[m]
      BY <2>3 DEF With, ShiftUp
    <3> HIDE DEF q
    <3> QED
      BY <2>1, <3>1
  <2> HIDE DEF q, p
  <2> QED
    BY <1>7, <2>2, <2>3
<1>9. \A m \in DOMAIN parts : m # n => SameWindow(q, new, m)
  <2> HIDE DEF e, p
  <2> QED
    BY <1>2, <1>6, InsertSame
<1>10. \A i \in 1 .. Len(extents) + 1 :
         new[i] = IF i <= at THEN extents[i] ELSE IF i = at + 1 THEN e ELSE extents[i - 1]
  <2> HIDE DEF at, e
  <2> QED
    BY Zenon, <1>4, <1>6, InsertProperties
<1>11. WriteMetadata(q, new, groups)
  BY <1>3
<1>12. /\ \A k \in 1 .. num : new[a + k] = extents[a + k] /\ extents[a + k] \in Extent
       /\ new[a + num + 1] = e
  <2> HIDE DEF new, e, d
  <2>1. \A k \in 1 .. num : a + k \in 1 .. Len(extents) + 1 /\ a + k <= at
    BY <1>4
  <2>2. a + num + 1 \in 1 .. Len(extents) + 1 /\ ~(a + num + 1 <= at) /\ a + num + 1 = at + 1
    BY <1>4
  <2>3. \A k \in 1 .. num : extents[a + k] \in Extent
    BY <1>2, WindowInside DEF Inside
  <2> HIDE DEF a, num, at
  <2> QED
    BY <1>10, <2>1, <2>2, <2>3
<1>13. parts[n].first = a /\ parts[n].num = num
  OBVIOUS
<1> HIDE DEF q, p, e, new, at, d, a, num
<1>14. Inside(new, a, num + 1)
  <2>1. \A k \in 1 .. num + 1 : k \in 1 .. num \/ a + k = a + num + 1
    BY <1>4
  <2> QED
    BY <1>6, <1>12, <2>1 DEF Inside
<1>15. PartitionSectors(new, parts[n]) = PartitionSectors(extents, parts[n])
  BY <1>12, <1>13, SizeSame
<1>16. PartitionSectors(new, q[n]) = PartitionSectors(new, parts[n]) + new[a + num + 1].num
  <2>1. q[n].first = a /\ q[n].num = num + 1
    BY Zenon, <1>7, <1>8
  <2>2. PartitionSectors(new, q[n]) = PartitionSectors(new, parts[n]) + new[parts[n].first + num + 1].num
    <3> DEFINE r == parts[n]
    <3>1. /\ num \in Nat /\ r.num = num /\ q[n].num = num + 1 /\ r.first \in Nat
          /\ q[n].first = r.first /\ Inside(new, r.first, num + 1)
      BY Zenon, <1>4, <1>13, <1>14, <2>1
    <3> HIDE DEF r
    <3>2. PartitionSectors(new, q[n]) = PartitionSectors(new, r) + new[r.first + num + 1].num
      BY <3>1, SizeNext
    <3> QED
      BY <3>2 DEF r
  <2> QED
    BY Zenon, <1>13, <2>2
<1>17. PartitionSectors(extents, parts[n]) \in Nat
  BY <1>2, WindowInside, SizeNat
<1>18. PartitionSectors(new, q[n]) = sectors /\ sectors \in Nat
  BY <1>1, <1>6, <1>12, <1>15, <1>16, <1>17
<1> HIDE DEF sectors
<1> QED
  BY <1>2, <1>8, <1>9, <1>11, <1>18, ResizeLimits

LEMMA ShrinkToZeroLimits ==
  ASSUME LInv, NEW n \in DOMAIN parts, NEW force \in BOOLEAN, ShrinkToZero(n, force)
  PROVE  ~forced' => WithinLimits(parts', extents', groups')
<1> DEFINE num == parts[n].num
           from == parts[n].first + 1
           p == [parts[n] EXCEPT !.num = 0]
           q == With(ShiftDown(parts, from, num), n, p)
           new == Drain(extents, parts[n].first, num)
<1>1. WriteMetadata(q, new, groups) /\ IInv /\ ChargeResize(n, 0, force)
  BY DEF ShrinkToZero, LInv
<1>2. /\ parts[n] \in Partition /\ parts[n].first \in Nat /\ num \in Nat
      /\ from \in Nat /\ 0 \in 0 .. num /\ num - 0 = num /\ parts[n].first + 0 = parts[n].first
      /\ extents \in Seq(Extent)
  BY <1>1, InvFacts
<1>3. /\ DOMAIN q = DOMAIN parts
      /\ q[n] = p
      /\ \A m \in DOMAIN parts : m # n => q[m] = Lowered(parts[m], from, num)
  <2> HIDE DEF p, from, num
  <2> QED
    BY WithShiftedIs
<1>4. p.first = parts[n].first /\ p.num = 0 /\ p.group = parts[n].group
  BY <1>2 DEF Partition
<1>5. Shrunk(parts, n, 0, q)
  <2> HIDE DEF q
  <2>1. \A m \in DOMAIN parts : m # n => q[m] = Lowered(parts[m], from, num - 0)
    BY Zenon, <1>2, <1>3
  <2> QED
    BY Zenon, <1>1, <1>2, <1>3, <2>1, ShiftedShrunk
<1> HIDE DEF q, p
<1>6. \A m \in DOMAIN parts : q[m].group = parts[m].group
  <2>1. \A m \in DOMAIN parts : parts[m] \in Partition
    BY <1>1, InvFacts
  <2> HIDE DEF from, num
  <2> QED
    BY <1>3, <1>4, <2>1, LoweredGroup
<1>7. \A m \in DOMAIN parts : m # n => SameWindow(q, new, m)
  <2>1. \A m \in DOMAIN q : m # n =>
          SameWindow(q, Drain(extents, parts[n].first + 0, parts[n].num - 0), m)
    BY Zenon, <1>1, <1>2, <1>5, DrainSame
  <2> QED
    BY Zenon, <1>2, <1>3, <2>1
<1> HIDE DEF new
<1>8. PartitionSectors(new, q[n]) = 0 /\ 0 \in Nat
  BY <1>3, <1>4, SizeNone
<1> QED
  BY <1>1, <1>3, <1>6, <1>7, <1>8, ResizeLimits

LEMMA ShrinkToLimits ==
  ASSUME LInv, NEW n \in DOMAIN parts, NEW j \in 1 .. parts[n].num,
         NEW keep \in 1 .. extents[parts[n].first + j].num, NEW force \in BOOLEAN,
         Shrink(n, j, keep, force)
  PROVE  ~forced' => WithinLimits(parts', extents', groups')
<1> DEFINE a == parts[n].first
           last == a + j
           less == parts[n].num - j
           from == a + parts[n].num
           p == [parts[n] EXCEPT !.num = j]
           o == [parts[n] EXCEPT !.num = j - 1]
           q == With(ShiftDown(parts, from, less), n, p)
           e == extents[last]
           f == [e EXCEPT !.num = keep]
           cut == [extents EXCEPT ![last] = f]
           new == Drain(cut, last, less)
           sectors == PartitionSectors(extents, o) + keep
<1>1. WriteMetadata(q, new, groups) /\ IInv /\ ChargeResize(n, sectors, force)
  BY DEF Shrink, LInv
<1>2. /\ parts[n] \in Partition /\ a \in Nat /\ parts[n].num \in Nat /\ from <= Len(extents)
      /\ last \in 1 .. Len(extents) /\ last \in Nat /\ less \in Nat /\ last + less = from
      /\ from \in Nat /\ j \in 0 .. parts[n].num /\ j \in Nat
      /\ extents \in Seq(Extent) /\ DOMAIN extents = 1 .. Len(extents) /\ Len(extents) \in Nat
  BY SMTT(30), <1>1, InvFacts
<1>3. e \in Extent /\ f \in Extent /\ keep \in 1 .. e.num /\ f.num = keep /\ keep \in Nat
  <2>1. e \in Extent /\ keep \in 1 .. e.num
    BY <1>2, ExtentFields
  <2> HIDE DEF e
  <2> QED
    BY <2>1 DEF Extent
<1>4. /\ DOMAIN q = DOMAIN parts
      /\ q[n] = p
      /\ \A m \in DOMAIN parts : m # n => q[m] = Lowered(parts[m], from, less)
  <2> HIDE DEF p, from, less
  <2> QED
    BY WithShiftedIs
<1>5. /\ p.first = a /\ p.num = j /\ p.group = parts[n].group
      /\ o.first = a /\ o.num = j - 1
  BY <1>2 DEF Partition
<1>6. Shrunk(parts, n, j, q)
  <2> HIDE DEF q
  <2> QED
    BY Zenon, <1>1, <1>2, <1>4, ShiftedShrunk
<1> HIDE DEF q, p, o
<1>7. \A m \in DOMAIN parts : q[m].group = parts[m].group
  <2>1. \A m \in DOMAIN parts : parts[m] \in Partition
    BY <1>1, InvFacts
  <2> HIDE DEF from, less
  <2> QED
    BY <1>4, <1>5, <2>1, LoweredGroup
<1> HIDE DEF e, f
<1>8. /\ cut \in Seq(Extent) /\ Len(cut) = Len(extents)
      /\ cut[last] = f
      /\ \A i \in 1 .. Len(extents) : i # last => cut[i] = extents[i]
  <2> HIDE DEF last
  <2> QED
    BY <1>2, <1>3, ExceptSeq
<1> HIDE DEF cut
<1>9. \A i \in 1 .. Len(extents) :
        i <= parts[n].first \/ i > parts[n].first + parts[n].num => cut[i] = extents[i]
  <2>1. \A i \in 1 .. Len(extents) :
          i <= parts[n].first \/ i > parts[n].first + parts[n].num => i # last
    BY SMTT(30), <1>2
  <2> QED
    BY Zenon, <1>8, <2>1
<1>10. /\ \A m \in DOMAIN parts : m # n => SameWindow(q, new, m)
       /\ \A k \in 1 .. j : new[a + k] = cut[a + k]
  <2>1. /\ \A m \in DOMAIN q : m # n => SameWindow(q, new, m)
        /\ \A k \in 1 .. j : new[a + k] = cut[a + k]
    BY Zenon, <1>1, <1>2, <1>6, <1>8, <1>9, DrainSame
  <2> QED
    BY Zenon, <1>4, <2>1
<1>11. /\ j - 1 \in Nat /\ (j - 1) + 1 = j /\ a + (j - 1) + 1 = last
       /\ \A k \in 1 .. j - 1 : a + k \in 1 .. Len(extents) /\ a + k # last /\ k \in 1 .. j
       /\ \A k \in 1 .. j : k \in 1 .. j - 1 \/ a + k = last
       /\ 1 .. j \subseteq 1 .. parts[n].num /\ j \in 1 .. j
  <2> DEFINE num == parts[n].num
             len == Len(extents)
  <2>1. a \in Nat /\ num \in Nat /\ len \in Nat /\ a + num <= len /\ j \in 1 .. num
    BY <1>2
  <2> HIDE DEF a, num, len
  <2>2. j - 1 \in Nat /\ (j - 1) + 1 = j /\ a + (j - 1) + 1 = last
    BY <2>1
  <2>3. \A k \in 1 .. j - 1 : a + k \in 1 .. len /\ a + k # last /\ k \in 1 .. j
    BY <2>1
  <2>4. \A k \in 1 .. j : k \in 1 .. j - 1 \/ a + k = last
    BY <2>1
  <2>5. 1 .. j \subseteq 1 .. num /\ j \in 1 .. j
    BY <2>1
  <2> QED
    BY <2>2, <2>3, <2>4, <2>5 DEF num, len
<1>12. Inside(extents, a, parts[n].num) /\ parts[n].first = a
  BY <1>1, WindowInside
<1> DEFINE i == j - 1
<1>13. a + j = last
  OBVIOUS
<1> HIDE DEF last, a, less, from, new
<1>14. Inside(extents, a, i)
  BY <1>11, <1>12 DEF Inside
<1>15. /\ \A k \in 1 .. i : new[a + k] = extents[a + k]
       /\ new[last] = f
  <2>1. \A k \in 1 .. i : new[a + k] = extents[a + k]
    BY <1>8, <1>10, <1>11
  <2>2. new[last] = f
    BY Zenon, <1>8, <1>10, <1>11, <1>13
  <2> QED
    BY <2>1, <2>2
<1>16. Inside(new, a, j)
  <2>1. ASSUME NEW k \in 1 .. j PROVE new[a + k] \in Extent
    <3>1. CASE k \in 1 .. i
      BY <1>14, <1>15, <3>1 DEF Inside
    <3>2. CASE a + k = last
      BY Zenon, <1>3, <1>15, <3>2
    <3> QED
      BY <1>11, <3>1, <3>2
  <2> QED
    BY <2>1 DEF Inside
<1>17. i \in Nat /\ i + 1 = j /\ a + i + 1 = last /\ o.num = i
  BY <1>5, <1>11
<1> HIDE DEF i
<1>18. PartitionSectors(new, q[n]) = PartitionSectors(new, o) + new[last].num
  <2>1. /\ q[n].first = o.first /\ q[n].num = i + 1 /\ o.first \in Nat
        /\ Inside(new, o.first, i + 1) /\ o.first + i + 1 = last
    BY Zenon, <1>2, <1>4, <1>5, <1>16, <1>17
  <2>2. PartitionSectors(new, q[n]) = PartitionSectors(new, o) + new[o.first + i + 1].num
    BY <1>17, <2>1, SizeNext
  <2> QED
    BY Zenon, <2>1, <2>2
<1>19. PartitionSectors(new, o) = PartitionSectors(extents, o)
  <2>1. \A k \in 1 .. o.num : new[o.first + k] = extents[o.first + k]
    BY Zenon, <1>5, <1>15, <1>17
  <2> QED
    BY <2>1, SizeSame
<1>20. PartitionSectors(extents, o) \in Nat
  <2>1. o.first \in Nat /\ o.num \in Nat /\ Inside(extents, o.first, o.num)
    BY Zenon, <1>2, <1>5, <1>14, <1>17
  <2> QED
    BY <2>1, SizeNat
<1>21. PartitionSectors(new, q[n]) = sectors /\ sectors \in Nat
  BY <1>3, <1>15, <1>18, <1>19, <1>20
<1> HIDE DEF sectors
<1> QED
  BY <1>1, <1>4, <1>7, <1>10, <1>21, ResizeLimits

----------------------------------------------------------------------------
\* The commands that charge nothing.

LEMMA SameGroups ==
  ASSUME LInv, NEW q, NEW new, WriteMetadata(q, new, groups), forced' = forced,
         \A m \in DOMAIN q : SameWindow(q, new, m) /\ q[m].group = parts[m].group
  PROVE  ~forced' => WithinLimits(parts', extents', groups')
<1>1. \A j \in GroupIndices : MembersOf(q, new, j, j)
  BY DEF MembersOf, SameWindow
<1>2. groups \in Seq(Group)
  BY InvFacts DEF LInv
<1>3. \A j \in 0 .. Len(groups) - 1 : \E i \in GroupIndices :
        groups[j + 1].max = groups[i + 1].max /\ MembersOf(q, new, j, i)
  BY <1>1 DEF GroupIndices
<1> QED
  BY <1>2, <1>3, KeepsLimits

LEMMA RemovePartitionLimits ==
  ASSUME LInv, NEW n \in DOMAIN parts, RemovePartition(n)
  PROVE  ~forced' => WithinLimits(parts', extents', groups')
<1> DEFINE num == parts[n].num
           from == parts[n].first + 1
           q == ShiftDown(Without(parts, {n}), from, num)
           new == Drain(extents, parts[n].first, num)
<1>1. WriteMetadata(q, new, groups) /\ IInv /\ forced' = forced
  BY DEF RemovePartition, LInv
<1>2. /\ parts[n].first \in Nat /\ num \in Nat
      /\ from \in Nat /\ 0 \in 0 .. num /\ num - 0 = num /\ parts[n].first + 0 = parts[n].first
      /\ extents \in Seq(Extent)
  BY <1>1, InvFacts
<1>3. /\ DOMAIN q = DOMAIN parts \ {n} /\ n \notin DOMAIN q
      /\ \A m \in DOMAIN parts : m # n => q[m] = Lowered(parts[m], from, num)
  BY DEF ShiftDown, Without, Lowered
<1>4. Shrunk(parts, n, 0, q)
  <2> HIDE DEF q
  <2>1. \A m \in DOMAIN parts : m # n => q[m] = Lowered(parts[m], from, num - 0)
    BY Zenon, <1>2, <1>3
  <2> QED
    BY Zenon, <1>1, <1>2, <1>3, <2>1, ShiftedShrunk
<1> HIDE DEF q
<1>5. \A m \in DOMAIN q : q[m].group = parts[m].group
  <2>1. \A m \in DOMAIN parts : parts[m] \in Partition
    BY <1>1, InvFacts
  <2> HIDE DEF from, num
  <2> QED
    BY <1>3, <2>1, LoweredGroup
<1>6. \A m \in DOMAIN q : SameWindow(q, new, m)
  <2>1. \A m \in DOMAIN q : m # n =>
          SameWindow(q, Drain(extents, parts[n].first + 0, parts[n].num - 0), m)
    BY Zenon, <1>1, <1>2, <1>4, DrainSame
  <2> QED
    BY Zenon, <1>2, <1>3, <2>1
<1> HIDE DEF new
<1> QED
  BY <1>1, <1>5, <1>6, SameGroups

LEMMA ClearCowLimits ==
  ASSUME LInv, ClearCow
  PROVE  ~forced' => WithinLimits(parts', extents', groups')
<1> DEFINE S == CowPartitions
           q == CompactParts(S)
           new == CompactExtents(S)
<1>1. WriteMetadata(q, new, groups) /\ IInv /\ forced' = forced
  BY DEF ClearCow, LInv
<1>2. S \subseteq DOMAIN parts
  BY DEF CowPartitions
<1> HIDE DEF S
<1>3. DOMAIN q = DOMAIN parts \ S
  BY DEF CompactParts
<1>4. \A m \in DOMAIN parts \ S : SameWindow(q, new, m) /\ q[m].group = parts[m].group
  BY <1>1, <1>2, CompactSame, CompactGroup
<1> HIDE DEF q, new
<1> QED
  BY <1>1, <1>3, <1>4, SameGroups

LEMMA RemoveGroupLimits ==
  ASSUME LInv, NEW i \in GroupIndices, NEW force \in BOOLEAN, RemoveGroup(i, force)
  PROVE  ~forced' => WithinLimits(parts', extents', groups')
<1> DEFINE S == Members(i)
           less == CompactParts(S)
           q == Renumber(less, i)
           new == CompactExtents(S)
           grps == DropGroupEntry(i)
           Old(j) == IF j < i THEN j ELSE j + 1
<1>1. WriteMetadata(q, new, grps) /\ IInv /\ forced' = forced /\ groups \in Seq(Group)
  BY InvFacts DEF RemoveGroup, LInv
<1>2. S \subseteq DOMAIN parts /\ \A m \in DOMAIN parts : m \in S <=> parts[m].group = i
  BY DEF Members
<1>3. /\ Len(groups) \in Nat /\ i \in 0 .. Len(groups) - 1
      /\ \A m \in DOMAIN parts : parts[m].group \in 0 .. Len(groups) - 1
  BY <1>1, InvFacts DEF GroupIndices
<1>4. /\ DOMAIN less = DOMAIN parts \ S
      /\ \A m \in DOMAIN parts \ S : SameWindow(less, new, m) /\ less[m].group = parts[m].group
  <2> HIDE DEF S
  <2>1. DOMAIN less = DOMAIN parts \ S
    BY DEF CompactParts
  <2> QED
    BY <1>1, <1>2, <2>1, CompactSame, CompactGroup
<1>5. \A m \in DOMAIN less : less[m] \in Partition
  <2> HIDE DEF S
  <2> QED
    BY <1>1, <1>2, InvFacts, CompactWindowsSound DEF SoundWindows
<1> HIDE DEF S, less, new
<1>6. /\ DOMAIN q = DOMAIN less
      /\ \A m \in DOMAIN less :
           /\ q[m].first = less[m].first /\ q[m].num = less[m].num
           /\ q[m].group = IF less[m].group > i THEN less[m].group - 1 ELSE less[m].group
  <2>1. DOMAIN q = DOMAIN less
    BY DEF Renumber
  <2>2. ASSUME NEW m \in DOMAIN less
        PROVE  /\ q[m].first = less[m].first /\ q[m].num = less[m].num
               /\ q[m].group = IF less[m].group > i THEN less[m].group - 1 ELSE less[m].group
    <3>1. q[m] = IF less[m].group > i THEN [less[m] EXCEPT !.group = @ - 1] ELSE less[m]
      BY DEF Renumber
    <3>2. less[m] \in Partition
      BY <1>5
    <3> HIDE DEF q
    <3> QED
      BY <3>1, <3>2 DEF Partition
  <2> QED
    BY <2>1, <2>2
<1> HIDE DEF q
<1>7. \A m \in DOMAIN parts \ S : SameWindow(q, new, m)
  BY <1>4, <1>6 DEF SameWindow
<1>8. /\ Len(grps) = Len(groups) - 1
      /\ \A k \in 1 .. Len(groups) - 1 : grps[k] = groups[IF k <= i THEN k ELSE k + 1]
  <2>1. grps \in Seq(Group) /\ DOMAIN grps = 1 .. Len(groups) - 1
        /\ \A k \in 1 .. Len(groups) - 1 : grps[k] = groups[IF k <= i THEN k ELSE k + 1]
    BY <1>1, DropGroupEntryIs, DropGroupEntryType
  <2> HIDE DEF grps
  <2>2. Len(grps) \in Nat /\ DOMAIN grps = 1 .. Len(grps) /\ Len(groups) - 1 \in Nat
    BY <1>3, <2>1, LenProperties
  <2> QED
    BY Zenon, <2>1, <2>2, SameLength
<1> HIDE DEF grps
<1>9. ASSUME NEW j \in 0 .. Len(grps) - 1
      PROVE  \E k \in GroupIndices : grps[j + 1].max = groups[k + 1].max /\ MembersOf(q, new, j, k)
  <2>1. /\ Old(j) \in GroupIndices /\ j + 1 \in 1 .. Len(groups) - 1
        /\ Old(j) + 1 = IF j + 1 <= i THEN j + 1 ELSE (j + 1) + 1
    BY <1>3, <1>8 DEF GroupIndices
  <2>2. grps[j + 1] = groups[Old(j) + 1]
    <3> HIDE DEF Old
    <3> QED
      BY <1>8, <2>1
  <2>3. ASSUME NEW m \in DOMAIN q, q[m].group = j
        PROVE  m \in DOMAIN parts /\ parts[m].group = Old(j) /\ SameWindow(q, new, m)
    <3> DEFINE k == parts[m].group
    <3>1. m \in DOMAIN parts \ S
      BY <1>4, <1>6
    <3>2. k \in 0 .. Len(groups) - 1 /\ k # i /\ q[m].group = IF k > i THEN k - 1 ELSE k
      BY <1>2, <1>3, <1>4, <1>6, <3>1
    <3> HIDE DEF k
    <3>3. k = Old(j)
      BY <1>3, <2>3, <3>2
    <3> QED
      BY <1>7, <3>1, <3>3 DEF k
  <2> QED
    BY <2>1, <2>2, <2>3 DEF MembersOf
<1> QED
  BY <1>1, <1>9, KeepsLimits

LEMMA RenameGroupLimits ==
  ASSUME LInv, NEW i \in GroupIndices, NEW g \in NewGroups, RenameGroup(i, g)
  PROVE  ~forced' => WithinLimits(parts', extents', groups')
<1> DEFINE grps == [groups EXCEPT ![i + 1] = [@ EXCEPT !.name = g]]
<1>1. WriteMetadata(parts, extents, grps) /\ forced' = forced
  BY DEF RenameGroup
<1>2. groups \in Seq(Group) /\ DOMAIN groups = 1 .. Len(groups) /\ Len(groups) \in Nat /\ IInv
  BY InvFacts DEF LInv
<1>3. \A k \in DOMAIN groups : groups[k] \in Group
  BY <1>2, ElementOfSeq
<1>4. /\ Len(grps) = Len(groups)
      /\ \A k \in DOMAIN groups : grps[k].max = groups[k].max
  <2>1. Len(grps) = Len(groups)
    BY <1>2
  <2>2. ASSUME NEW k \in DOMAIN groups PROVE grps[k].max = groups[k].max
    <3>1. grps[k] = IF k = i + 1 THEN [groups[k] EXCEPT !.name = g] ELSE groups[k]
      BY <1>2
    <3> HIDE DEF grps
    <3> QED
      BY <1>3, <3>1 DEF Group
  <2> QED
    BY <2>1, <2>2
<1> HIDE DEF grps
<1>5. ASSUME NEW j \in 0 .. Len(grps) - 1
      PROVE  \E k \in GroupIndices :
               grps[j + 1].max = groups[k + 1].max /\ MembersOf(parts, extents, j, k)
  <2>1. j \in GroupIndices /\ j + 1 \in DOMAIN groups
    BY <1>2, <1>4 DEF GroupIndices
  <2>2. MembersOf(parts, extents, j, j)
    BY DEF MembersOf, SameWindow
  <2> QED
    BY <1>4, <2>1, <2>2
<1> QED
  BY <1>1, <1>2, <1>5, KeepsLimits

\* A renamed partition is charged as it was.
LEMMA RenameLimits ==
  ASSUME LInv, NEW n \in DOMAIN parts, NEW m \in Names, Rename(n, m)
  PROVE  ~forced' => WithinLimits(parts', extents', groups')
<1> DEFINE q == With(Without(parts, {n}), m, parts[n])
           f == Sizes(parts, extents)
           g == Sizes(q, extents)
<1>1. m \notin DOMAIN parts /\ WriteMetadata(q, extents, groups) /\ forced' = forced
  BY DEF Rename
<1>2. /\ DOMAIN q = (DOMAIN parts \ {n}) \cup {m} /\ q[m] = parts[n]
      /\ \A k \in DOMAIN parts \ {n} : q[k] = parts[k]
  BY <1>1 DEF With, Without
<1> HIDE DEF q
<1>3. IInv /\ IsFiniteSet(DOMAIN parts) /\ \A k \in DOMAIN parts : f[k] \in Nat
  BY SizesFacts DEF LInv
<1>4. g[m] = f[n] /\ \A k \in DOMAIN parts \ {n} : g[k] = f[k]
  BY <1>2 DEF Sizes
<1>5. ASSUME NEW i
      PROVE  Held(q, extents, i) = Held(parts, extents, i)
  <2> DEFINE S == InGroup(parts, DOMAIN parts, i)
             T == InGroup(q, DOMAIN q, i)
             U == S \ {n}
  <2>1. IsFiniteSet(S) /\ IsFiniteSet(U) /\ U \subseteq DOMAIN parts \ {n} /\ S \subseteq DOMAIN parts
    <3>1. S \subseteq DOMAIN parts /\ U \subseteq DOMAIN parts \ {n} /\ U \subseteq DOMAIN parts
      BY DEF InGroup
    <3> HIDE DEF S, U
    <3> QED
      BY <1>3, <3>1, FS_Subset
  <2>2. CASE parts[n].group # i
    <3>1. S = U /\ T = U
      BY <1>1, <1>2, <2>2 DEF InGroup
    <3> HIDE DEF S, T, U, f, g
    <3>2. Sum(g, U) = Sum(f, U)
      BY <1>4, <2>1, SumSame
    <3> QED
      BY <3>1, <3>2 DEF Held, S, T, f, g
  <2>3. CASE parts[n].group = i
    <3>1. n \in S /\ m \in T /\ T \ {m} = U /\ T = U \cup {m}
      BY <1>1, <1>2, <2>3 DEF InGroup
    <3>2. S \ {n} = U
      OBVIOUS
    <3> HIDE DEF S, T, U, f, g
    <3>3. IsFiniteSet(T)
      BY <2>1, <3>1, FS_AddElement
    <3>4. Sum(f, S) = f[n] + Sum(f, U)
      <4>1. \A k \in S : f[k] \in Nat
        BY <1>3, <2>1
      <4> QED
        BY <2>1, <3>1, <3>2, <4>1, SumOut
    <3>5. Sum(g, T) = g[m] + Sum(g, U)
      <4>1. \A k \in T : g[k] \in Nat
        BY <1>3, <1>4, <2>1, <3>1
      <4> QED
        BY <3>1, <3>3, <4>1, SumOut
    <3>6. Sum(g, U) = Sum(f, U)
      BY <1>4, <2>1, SumSame
    <3> QED
      BY <1>4, <3>4, <3>5, <3>6 DEF Held, S, T, f, g
  <2> QED
    BY <2>2, <2>3
<1> QED
  BY <1>1, <1>5 DEF LInv, WithinLimits, WriteMetadata

----------------------------------------------------------------------------
\* What is assumed of the tables a history starts from, beside that they are
\* sound.
StartsWithinLimits ==
  \A t \in InitTables : WithinLimits(t.parts, t.extents, t.groups)

LEMMA NextLimits ==
  ASSUME LInv, Next
  PROVE  ~forced' => WithinLimits(parts', extents', groups')
<1>1. CASE NewPartition
  <2>1. PICK n \in Names, needed \in Requests, force \in BOOLEAN :
          \/ \E i \in GroupIndices, bound \in SUBSET (DeviceIndices(Devs) \ {0}) :
               Add(n, i, needed, bound, force)
          \/ \E g \in NewGroups : \E sizes \in GroupSizeOpts(g) :
               Create(n, g, sizes, needed, force)
    BY <1>1 DEF NewPartition
  <2> QED
    BY <2>1, AddLimits, CreateLimits
<1>2. CASE \E n \in Names, g \in NewGroups : \E sizes \in GroupSizeOpts(g) :
             CreateEmpty(n, g, sizes)
  BY <1>2, CreateEmptyLimits
<1>3. CASE Resize
  <2>1. PICK n \in DOMAIN parts, force \in BOOLEAN :
          \/ \E extra \in Requests :
               \/ GrowFresh(n, extra, force)
               \/ GrowInPlace(n, extra, force)
               \/ GrowSplice(n, extra, force)
          \/ ShrinkToZero(n, force)
          \/ \E j \in 1 .. parts[n].num : \E keep \in 1 .. extents[parts[n].first + j].num :
               Shrink(n, j, keep, force)
    BY <1>3 DEF Resize
  <2> QED
    BY <2>1, GrowFreshLimits, GrowInPlaceLimits, GrowSpliceLimits, ShrinkToZeroLimits, ShrinkToLimits
<1>4. CASE \E n \in DOMAIN parts : RemovePartition(n)
  BY <1>4, RemovePartitionLimits
<1>5. CASE \E i \in GroupIndices, force \in BOOLEAN : RemoveGroup(i, force)
  BY <1>5, RemoveGroupLimits
<1>6. CASE \E n \in DOMAIN parts, m \in Names : Rename(n, m)
  BY <1>6, RenameLimits
<1>7. CASE \E i \in GroupIndices, g \in NewGroups : RenameGroup(i, g)
  BY <1>7, RenameGroupLimits
<1>8. CASE ClearCow
  BY <1>8, ClearCowLimits
<1> QED
  BY <1>1, <1>2, <1>3, <1>4, <1>5, <1>6, <1>7, <1>8 DEF Next

\* Until someone has used --force, no group holds more than its maximum: from
\* tables within their limits no sequence of additions, resizes, cascades,
\* renames and renumberings of the groups leads over one.
THEOREM SpecLimitsRespected == StartsWithinLimits => (Spec => []LimitsRespected)
<1> SUFFICES ASSUME StartsWithinLimits PROVE Spec => []LimitsRespected
  OBVIOUS
<1>1. Init => LInv
  <2> SUFFICES ASSUME Init PROVE LInv
    OBVIOUS
  <2>1. PICK t \in InitTables : parts = t.parts /\ extents = t.extents /\ groups = t.groups
    BY DEF Init
  <2>2. WithinLimits(parts, extents, groups)
    BY <2>1 DEF StartsWithinLimits
  <2> QED
    BY <2>2, InitSound DEF LInv
<1>2. LInv /\ [Next]_vars => LInv'
  <2> SUFFICES ASSUME LInv, [Next]_vars PROVE LInv'
    OBVIOUS
  <2>1. IInv'
    BY NextSound DEF LInv
  <2>2. ~forced' => WithinLimits(parts', extents', groups')
    <3>1. CASE Next
      BY <3>1, NextLimits
    <3>2. CASE UNCHANGED vars
      BY <3>2 DEF vars, LInv
    <3> QED
      BY <3>1, <3>2
  <2>3. WithinLimits(parts, extents, groups)' <=> WithinLimits(parts', extents', groups')
    BY DEF WithinLimits, Held, Sizes, InGroup
  <2> QED
    BY <2>1, <2>2, <2>3 DEF LInv
<1>3. LInv => LimitsRespected
  BY LimitsAre DEF LInv
<1> QED
  BY <1>1, <1>2, <1>3, PTL DEF Spec

----------------------------------------------------------------------------
(***************************************************************************)
(* The loop of the cascade.  After some turns it has the table that would  *)
(* be left if the windows drained so far, T, were all that went: the next  *)
(* one, m, starts no later than any of them, so it is still where it was,  *)
(* and what starts behind it has moved by as much as it must.              *)
(***************************************************************************)
\* m is not one of T, and starts no later than any of them.
NextOf(T, m) ==
  /\ T \subseteq DOMAIN parts /\ m \in DOMAIN parts \ T
  /\ \A t \in T : parts[m].first <= parts[t].first

\* Nothing is gone up to the end of the next window.
LEMMA KeptSoFar ==
  ASSUME IInv, NEW T, NEW m, NextOf(T, m),
         NEW k \in Int, 0 <= k, k < parts[m].first + parts[m].num
  PROVE  k \in Kept(T)
<1>1. /\ Len(extents) \in Nat /\ SoundWindows(parts, extents)
      /\ \A x \in DOMAIN parts :
           /\ parts[x].first \in Nat /\ parts[x].num \in Nat
           /\ parts[x].first + parts[x].num <= Len(extents)
  BY InvFacts
<1>2. \A x, y \in DOMAIN parts : x # y =>
        \/ parts[x].first + parts[x].num <= parts[y].first
        \/ parts[y].first + parts[y].num <= parts[x].first
  BY <1>1, WindowFacts
<1>3. m \in DOMAIN parts /\ k <= Len(extents) - 1
  BY <1>1 DEF NextOf
<1>4. ASSUME NEW t \in T, k \in Window(parts[t]) PROVE FALSE
  <2>1. t \in DOMAIN parts /\ t # m /\ parts[m].first <= parts[t].first
    BY DEF NextOf
  <2>2. \/ parts[t].first + parts[t].num <= parts[m].first
        \/ parts[m].first + parts[m].num <= parts[t].first
    BY <1>2, <1>3, <2>1
  <2>3. /\ parts[t].first \in Nat /\ parts[t].num \in Nat
        /\ parts[m].first \in Nat /\ parts[m].num \in Nat
    BY <1>1, <1>3, <2>1
  <2>4. parts[t].first <= k /\ k < parts[t].first + parts[t].num
    BY <1>4, <2>3 DEF Window
  <2> QED
    BY <2>1, <2>2, <2>3, <2>4
<1>5. k \notin Gone(T)
  BY <1>4 DEF Gone
<1> QED
  BY <1>1, <1>3, <1>5 DEF Kept

\* What draining the next window does to the positions that are kept.
LEMMA DrainedBelow ==
  ASSUME IInv, NEW T, NEW m, NextOf(T, m)
  PROVE  LET K == Kept(T)
             L == Kept(T \cup {m})
             f == parts[m].first
             n == parts[m].num
         IN  /\ L = {k \in K : k < f \/ f + n <= k}
             /\ \A i \in 0 .. f : Below(K, i) = i /\ Below(L, i) = i
             /\ \A i \in Int : f + n <= i =>
                  Below(K, i) = Below(L, i) + n /\ Below(L, i) \in Nat /\ f <= Below(L, i)
<1> DEFINE K == Kept(T)
           L == Kept(T \cup {m})
           f == parts[m].first
           n == parts[m].num
<1>1. /\ Len(extents) \in Nat /\ SoundWindows(parts, extents)
      /\ m \in DOMAIN parts /\ f \in Nat /\ n \in Nat
      /\ T \subseteq DOMAIN parts /\ T \cup {m} \subseteq DOMAIN parts
  BY InvFacts DEF NextOf
<1>2. /\ IsFiniteSet(K) /\ K \subseteq Int /\ K \subseteq 0 .. Len(extents) - 1
      /\ IsFiniteSet(L) /\ L \subseteq Int /\ L \subseteq 0 .. Len(extents) - 1
  BY <1>1, KeptFacts
<1>3. Gone(T \cup {m}) = Gone(T) \cup Window(parts[m])
  BY DEF Gone
<1>4. \A k \in Int : k \in Window(parts[m]) <=> f <= k /\ k < f + n
  BY <1>1 DEF Window
<1>5. L = K \ Window(parts[m])
  BY <1>3 DEF Kept
<1>6. \A k \in Int : 0 <= k /\ k < f + n => k \in K
  BY KeptSoFar
<1> HIDE DEF K, L, f, n
<1>7. L = {k \in K : k < f \/ f + n <= k}
  <2>1. \A k \in K : k \in Int
    BY <1>2
  <2>2. \A k \in K : ~(k \in Window(parts[m])) <=> (k < f \/ f + n <= k)
    BY <1>1, <1>4, <2>1
  <2> QED
    BY <1>5, <2>2
<1>8. Below(K, 0) = 0 /\ Below(L, 0) = 0
  BY <1>1, <1>2, BelowAll
<1>9. ASSUME NEW i \in 0 .. f PROVE Below(K, i) = i /\ Below(L, i) = i
  <2>1. 0 \in Int /\ i \in Int /\ 0 <= i
    BY <1>1
  <2>2. \A k \in 0 .. i - 1 : k \in K
    BY <1>1, <1>6
  <2>3. \A k \in 0 .. i - 1 : k \in L
    BY <1>1, <1>7, <2>2
  <2>4. Below(K, i) = Below(K, 0) + (i - 0)
    BY <1>2, <2>1, <2>2, BelowGap
  <2>5. Below(L, i) = Below(L, 0) + (i - 0)
    BY <1>2, <2>1, <2>3, BelowGap
  <2> QED
    BY <1>8, <2>1, <2>4, <2>5
<1>10. ASSUME NEW i \in Int, f + n <= i
       PROVE  Below(K, i) = Below(L, i) + n /\ Below(L, i) \in Nat /\ f <= Below(L, i)
  <2> DEFINE e == f + n
             more(X) == Cardinality({k \in X : e <= k /\ k < i})
  <2>1. 0 \in Int /\ e \in Int /\ 0 <= e /\ e <= i /\ f \in Int /\ f <= e /\ f \in 0 .. f
    BY <1>1, <1>10
  <2>2. \A k \in 0 .. e - 1 : k \in K
    BY <1>1, <1>6
  <2>3. \A k \in L : k < f \/ e <= k
    BY <1>7
  <2>4. {k \in K : e <= k /\ k < i} = {k \in L : e <= k /\ k < i}
    BY <1>7
  <2> HIDE DEF e
  <2>5. Below(K, e) = Below(K, 0) + (e - 0)
    BY <1>2, <2>1, <2>2, BelowGap
  <2>6. Below(L, e) = Below(L, f)
    BY <1>2, <2>1, <2>3, BelowGap
  <2>7. /\ Below(K, i) = Below(K, e) + more(K)
        /\ Below(L, i) = Below(L, e) + more(L) /\ more(L) \in 0 .. i - e
    <3>1. ASSUME NEW X, IsFiniteSet(X), X \subseteq Int
          PROVE  Below(X, i) = Below(X, e) + more(X) /\ more(X) \in 0 .. i - e
      <4>1. /\ Below(X, e) \in Nat
            /\ Below(X, i) = Below(X, e) + Cardinality({k \in X : e <= k /\ k < i})
            /\ Cardinality({k \in X : e <= k /\ k < i}) \in 0 .. i - e
        BY <2>1, <3>1, BelowSplits
      <4> QED
        BY <4>1
    <3> HIDE DEF more
    <3> QED
      BY <1>2, <3>1
  <2>8. more(K) = more(L)
    BY <2>4
  <2>9. Below(L, f) = f
    BY <1>9, <2>1
  <2> HIDE DEF more
  <2> QED
    BY <1>1, <1>8, <2>1, <2>5, <2>6, <2>7, <2>8, <2>9 DEF e
<1> QED
  BY <1>7, <1>9, <1>10 DEF K, L, f, n

\* A kept extent is in the compacted table, at its place among them.
LEMMA CompactAt ==
  ASSUME IInv, NEW S, S \subseteq DOMAIN parts
  PROVE  /\ CompactExtents(S) \in Seq(Extent)
         /\ Len(CompactExtents(S)) = Cardinality(Kept(S))
         /\ \A o \in Kept(S) : CompactExtents(S)[Below(Kept(S), o) + 1] = extents[o + 1]
<1> DEFINE K == Kept(S)
           n == Cardinality(K)
           Origin(k) == CHOOSE i \in K : Below(K, i) = k
           new == CompactExtents(S)
<1>1. /\ SoundWindows(parts, extents) /\ SoundExtents(extents) /\ Len(extents) \in Nat
  BY InvFacts
<1>2. K \subseteq 0 .. Len(extents) - 1 /\ n \in Nat
  BY <1>1, KeptFacts
<1>3. \A k \in 1 .. n : new[k] = extents[Origin(k - 1) + 1]
  BY DEF CompactExtents, Kept
<1>4. SoundExtents(new) /\ Len(new) = n
  BY <1>1, CompactExtentsSound
<1> HIDE DEF K
<1>5. /\ \A i \in K : Below(K, i) \in 0 .. n - 1
      /\ \A i, j \in K : Below(K, i) = Below(K, j) => i = j
  BY <1>1, <1>2, OriginExists
<1> HIDE DEF n, new
<1>6. ASSUME NEW o \in K PROVE new[Below(K, o) + 1] = extents[o + 1]
  <2> DEFINE b == Below(K, o) + 1
  <2>1. b \in 1 .. n /\ b - 1 = Below(K, o)
    BY <1>2, <1>5
  <2>2. Origin(Below(K, o)) = o
    BY <1>5
  <2> HIDE DEF Origin, b
  <2>3. Origin(b - 1) = o
    BY <2>1, <2>2
  <2>4. new[b] = extents[Origin(b - 1) + 1]
    BY <1>3, <2>1
  <2>5. new[b] = extents[o + 1]
    BY Zenon, <2>3, <2>4
  <2> QED
    BY <2>5 DEF b
<1> QED
  BY <1>4, <1>6 DEF SoundExtents, K, n, new

LEMMA DrainCompacts ==
  ASSUME IInv, NEW T, NEW m, NextOf(T, m)
  PROVE  Drain(CompactExtents(T), parts[m].first, parts[m].num) = CompactExtents(T \cup {m})
<1> DEFINE K == Kept(T)
           L == Kept(T \cup {m})
           f == parts[m].first
           n == parts[m].num
           old == CompactExtents(T)
           new == CompactExtents(T \cup {m})
           cut == Drain(old, f, n)
           len == Len(extents)
<1>1. /\ len \in Nat /\ SoundWindows(parts, extents)
      /\ m \in DOMAIN parts /\ f \in Nat /\ n \in Nat /\ f + n <= len
      /\ T \subseteq DOMAIN parts /\ T \cup {m} \subseteq DOMAIN parts
  BY InvFacts DEF NextOf
<1>2. /\ old \in Seq(Extent) /\ Len(old) = Cardinality(K)
      /\ \A o \in K : old[Below(K, o) + 1] = extents[o + 1]
  BY <1>1, CompactAt
<1>3. /\ new \in Seq(Extent) /\ Len(new) = Cardinality(L)
      /\ \A o \in L : new[Below(L, o) + 1] = extents[o + 1]
  BY <1>1, CompactAt
<1>4. /\ Cardinality(K) \in Nat /\ Below(K, len) = Cardinality(K)
      /\ Cardinality(L) \in Nat /\ Below(L, len) = Cardinality(L) /\ L \subseteq 0 .. len - 1
  BY <1>1, KeptFacts
<1>5. /\ L = {k \in K : k < f \/ f + n <= k}
      /\ \A i \in 0 .. f : Below(K, i) = i /\ Below(L, i) = i
      /\ \A i \in Int : f + n <= i =>
           Below(K, i) = Below(L, i) + n /\ Below(L, i) \in Nat /\ f <= Below(L, i)
  BY DrainedBelow
<1> HIDE DEF K, L, f, n, old, new, len
<1>6. Cardinality(K) = Cardinality(L) + n /\ f <= Cardinality(L)
  BY <1>1, <1>4, <1>5
<1>7. f + n <= Len(old)
  BY <1>1, <1>2, <1>4, <1>6
<1>8. /\ cut \in Seq(Extent) /\ Len(cut) = Len(old) - n
      /\ \A i \in 1 .. Len(old) - n : cut[i] = old[IF i <= f THEN i ELSE i + n]
  BY ZenonT(60), <1>1, <1>2, <1>7, DrainProperties
<1> HIDE DEF cut
<1>9. Len(cut) = Len(new)
  BY <1>1, <1>2, <1>3, <1>4, <1>6, <1>8
<1>10. ASSUME NEW i \in 1 .. Len(new) PROVE cut[i] = new[i]
  <2>1. i - 1 \in 0 .. Cardinality(L) - 1 /\ i \in Int
    BY <1>3, <1>4
  <2>2. \A k \in 0 .. Cardinality(L) - 1 : \E o \in L : Below(L, o) = k
    BY <1>1, <1>4, OriginExists
  <2>3. PICK o \in L : Below(L, o) = i - 1
    BY <2>1, <2>2
  <2>4. o \in Int /\ 0 <= o /\ o \in K /\ (o < f \/ f + n <= o)
    <3>1. o \in 0 .. len - 1
      BY <1>4, <2>3
    <3>2. o \in K /\ (o < f \/ f + n <= o)
      BY <1>5, <2>3
    <3> QED
      BY <1>1, <3>1, <3>2
  <2> DEFINE j == IF i <= f THEN i ELSE i + n
  <2>5. Below(K, o) + 1 = j
    <3>1. CASE o < f
      <4>1. Below(K, o) = o /\ Below(L, o) = o
        BY <1>1, <1>5, <2>4, <3>1
      <4> QED
        BY <1>1, <2>1, <2>3, <2>4, <3>1, <4>1
    <3>2. CASE f + n <= o
      <4>1. Below(K, o) = Below(L, o) + n /\ f <= Below(L, o)
        BY <1>5, <2>4, <3>2
      <4> QED
        BY <1>1, <2>1, <2>3, <4>1
    <3> QED
      BY <2>4, <3>1, <3>2
  <2>6. new[(i - 1) + 1] = extents[o + 1]
    BY <1>3, <2>3
  <2>7. new[i] = extents[o + 1]
    BY <2>1, <2>6
  <2>8. old[j] = extents[o + 1]
    BY Zenon, <1>2, <2>4, <2>5
  <2>9. cut[i] = old[j]
    BY <1>8, <1>9
  <2> QED
    BY <2>7, <2>8, <2>9
<1>11. cut = new
  BY <1>3, <1>8, <1>9, <1>10, SeqEqual
<1> QED
  BY <1>11 DEF cut, new, old, f, n

\* The windows after those of T have gone: what is left of q, at least, is
\* where the kept extents say.
Settled(T, q) ==
  /\ DOMAIN q = DOMAIN parts
  /\ \A x \in DOMAIN parts \ T : q[x] = [parts[x] EXCEPT !.first = Below(Kept(T), @)]

LEMMA ShiftMoves ==
  ASSUME IInv, NEW T, NEW m, NextOf(T, m), NEW q, Settled(T, q)
  PROVE  Settled(T \cup {m}, ShiftDown(q, parts[m].first + 1, parts[m].num))
<1> DEFINE K == Kept(T)
           L == Kept(T \cup {m})
           f == parts[m].first
           n == parts[m].num
           r == ShiftDown(q, f + 1, n)
<1>1. /\ m \in DOMAIN parts /\ f \in Nat /\ n \in Nat
      /\ Len(extents) \in Nat /\ SoundWindows(parts, extents)
  BY InvFacts DEF NextOf
<1>2. /\ \A i \in 0 .. f : Below(K, i) = i /\ Below(L, i) = i
      /\ \A i \in Int : f + n <= i =>
           Below(K, i) = Below(L, i) + n /\ Below(L, i) \in Nat /\ f <= Below(L, i)
  BY DrainedBelow
<1>3. DOMAIN r = DOMAIN parts
  BY DEF ShiftDown, Settled
<1>4. ASSUME NEW x \in DOMAIN parts \ (T \cup {m})
      PROVE  r[x] = [parts[x] EXCEPT !.first = Below(L, @)]
  <2> DEFINE a == parts[x].first
             b == Below(K, a)
             c == Below(L, a)
  <2>1. parts[x] \in Partition /\ a \in Nat /\ a \in Int
    BY InvFacts
  <2>2. q[x] = [parts[x] EXCEPT !.first = b]
    BY DEF Settled
  <2>3. /\ r[x] = IF q[x].first >= f + 1 THEN [q[x] EXCEPT !.first = Minus(@, n)] ELSE q[x]
    BY DEF ShiftDown, Settled
  <2>4. \/ a + parts[x].num <= f
        \/ f + n <= a
    BY <1>1, WindowFacts
  <2>5. \/ a \in 0 .. f /\ b = a /\ c = a
        \/ f + n <= a /\ b = c + n /\ c \in Nat /\ f <= c
    <3>1. parts[x].num \in Nat
      BY InvFacts
    <3>2. a \in 0 .. f \/ f + n <= a
      BY <1>1, <2>1, <2>4, <3>1
    <3> HIDE DEF K, L, a
    <3> QED
      BY <1>2, <2>1, <3>2
  <2> HIDE DEF K, L, f, n, r, a, b, c
  <2>6. q[x].first = b /\ b \in Nat /\ c \in Nat
    <3>1. b \in Nat /\ c \in Nat
      BY <1>1, <2>1, <2>5
    <3> QED
      BY <2>1, <2>2, <3>1 DEF Partition
  <2>7. r[x] = [parts[x] EXCEPT !.first = c]
    <3>1. CASE b >= f + 1
      <4>1. Minus(b, n) = c
        BY <1>1, <2>1, <2>5, <2>6, <3>1 DEF Minus
      <4>2. r[x] = [q[x] EXCEPT !.first = Minus(b, n)]
        BY <2>3, <2>6, <3>1
      <4> QED
        BY <2>1, <2>2, <4>1, <4>2 DEF Partition
    <3>2. CASE ~(b >= f + 1)
      <4>1. b = c
        BY <1>1, <2>1, <2>5, <2>6, <3>2
      <4>2. r[x] = q[x]
        BY <2>3, <2>6, <3>2
      <4> QED
        BY <2>2, <4>1, <4>2
    <3> QED
      BY <3>1, <3>2
  <2> QED
    BY <2>7 DEF c, a
<1> QED
  BY <1>3, <1>4 DEF Settled, r, f, n, L

\* Before the first turn.
LEMMA NothingGone ==
  ASSUME IInv
  PROVE  Settled({}, parts) /\ CompactExtents({}) = extents
<1> DEFINE K == Kept({})
           len == Len(extents)
           old == CompactExtents({})
<1>1. /\ len \in Nat /\ SoundWindows(parts, extents) /\ extents \in Seq(Extent)
      /\ \A x \in DOMAIN parts :
           /\ parts[x] \in Partition /\ parts[x].first \in Nat /\ parts[x].num \in Nat
           /\ parts[x].first + parts[x].num <= len
  BY InvFacts
<1>2. K = 0 .. len - 1
  BY DEF Kept, Gone
<1>3. /\ IsFiniteSet(K) /\ K \subseteq Int /\ Below(K, 0) = 0
      /\ Below(K, len) = Cardinality(K) /\ Cardinality(K) \in Nat
  BY <1>1, <1>2, BelowAll
<1>4. /\ old \in Seq(Extent) /\ Len(old) = Cardinality(K)
      /\ \A o \in K : old[Below(K, o) + 1] = extents[o + 1]
  BY CompactAt
<1> HIDE DEF K, old, len
<1>5. ASSUME NEW i \in 0 .. len PROVE Below(K, i) = i
  <2>1. 0 \in Int /\ i \in Int /\ 0 <= i /\ \A k \in 0 .. i - 1 : k \in K
    BY <1>1, <1>2
  <2>2. Below(K, i) = Below(K, 0) + (i - 0)
    BY <1>3, <2>1, BelowGap
  <2> QED
    BY <1>3, <2>1, <2>2
<1>6. Len(old) = len
  BY <1>1, <1>3, <1>4, <1>5
<1>7. ASSUME NEW i \in 1 .. len PROVE old[i] = extents[i]
  <2>1. i - 1 \in K /\ i - 1 \in 0 .. len /\ (i - 1) + 1 = i
    BY <1>1, <1>2
  <2>2. Below(K, i - 1) = i - 1
    BY <1>5, <2>1
  <2>3. old[Below(K, i - 1) + 1] = extents[(i - 1) + 1]
    BY <1>4, <2>1
  <2> QED
    BY Zenon, <2>1, <2>2, <2>3
<1>8. old = extents
  BY <1>1, <1>4, <1>6, <1>7, SeqEqual DEF len
<1>9. ASSUME NEW x \in DOMAIN parts
      PROVE  parts[x] = [parts[x] EXCEPT !.first = Below(K, @)]
  <2>1. parts[x].first \in 0 .. len /\ parts[x] \in Partition
    BY <1>1
  <2>2. Below(K, parts[x].first) = parts[x].first
    BY <1>5, <2>1
  <2> QED
    BY <2>1, <2>2 DEF Partition
<1> QED
  BY <1>8, <1>9 DEF Settled, K, old

\* After the last.
LEMMA CompactPartsAre ==
  ASSUME IInv, NEW S, S \subseteq DOMAIN parts, NEW q, Settled(S, q)
  PROVE  Without(q, S) = CompactParts(S)
<1>1. Len(extents) \in Nat /\ SoundWindows(parts, extents)
  BY InvFacts
<1>2. ASSUME NEW x \in DOMAIN parts \ S
      PROVE  q[x] = [parts[x] EXCEPT !.first = @ - Below(Gone(S), @)]
  <2>1. parts[x].first - Below(Gone(S), parts[x].first) = Below(Kept(S), parts[x].first)
    BY <1>1, KeptFacts
  <2>2. q[x] = [parts[x] EXCEPT !.first = Below(Kept(S), parts[x].first)]
    BY DEF Settled
  <2> QED
    BY <2>1, <2>2
<1> QED
  BY <1>2 DEF Without, CompactParts, Settled

\* The order of the loop.
Descending(s) == \A i, j \in DOMAIN s : i < j => parts[s[i]].first >= parts[s[j]].first

\* The window that starts first of some.
LEMMA LeastExists ==
  ASSUME IInv, NEW S, S \subseteq DOMAIN parts, S # {}
  PROVE  \E m \in S : \A x \in S : parts[m].first <= parts[x].first
<1> DEFINE len == Len(extents)
           F == {parts[x].first : x \in S}
<1>1. /\ len \in Nat
      /\ \A x \in S :
           parts[x].first \in Nat /\ parts[x].num \in Nat /\ parts[x].first + parts[x].num <= len
  BY InvFacts
<1>2. len + 1 \in Nat /\ F \subseteq 0 .. (len + 1) - 1 /\ F # {}
  BY <1>1
<1> HIDE DEF F, len
<1>3. IsFiniteSet(F) /\ F \subseteq Int /\ Cardinality(F) \in Nat
  BY <1>2, BelowAll
<1>4. Cardinality(F) > 0
  BY <1>2, <1>3, FS_EmptySet
<1>5. PICK f \in F : Below(F, f) = 0
  <2>1. \A k \in 0 .. Cardinality(F) - 1 : \E i \in F : Below(F, i) = k
    BY <1>2, OriginExists
  <2> QED
    BY <1>3, <1>4, <2>1
<1>6. {k \in F : k < f} = {}
  <2>1. IsFiniteSet({k \in F : k < f})
    BY <1>3, FS_Subset
  <2> QED
    BY <1>5, <2>1, FS_EmptySet DEF Below
<1>7. \A x \in S : f <= parts[x].first
  <2>1. \A k \in F : f <= k
    BY <1>3, <1>6
  <2> QED
    BY <2>1 DEF F
<1>8. PICK m \in S : parts[m].first = f
  BY <1>5 DEF F
<1> QED
  BY <1>7, <1>8

\* SetToSeqs, in the terms of this module.
LEMMA SameCardinality ==
  ASSUME NEW S
  PROVE  SeqX!Cardinality(S) = Cardinality(S)
BY DEF SeqX!Cardinality, Cardinality, SeqX!IsFiniteSet, IsFiniteSet

LEMMA SeqsAre ==
  ASSUME NEW S, NEW s
  PROVE  s \in SeqX!SetToSeqs(S) <=>
           /\ s \in [1 .. Cardinality(S) -> S]
           /\ \A i, j \in 1 .. Cardinality(S) : i # j => s[i] # s[j]
<1> DEFINE c == Cardinality(S)
           d == SeqX!Cardinality(S)
<1>1. d = c
  BY SameCardinality
<1>2. s \in SeqX!SetToSeqs(S) <=>
        s \in [1 .. d -> S] /\ \A i, j \in 1 .. d : i # j => s[i] # s[j]
  BY DEF SeqX!SetToSeqs
<1> HIDE DEF c, d
<1>3. s \in SeqX!SetToSeqs(S) <=>
        s \in [1 .. c -> S] /\ \A i, j \in 1 .. c : i # j => s[i] # s[j]
  BY Zenon, <1>1, <1>2
<1> QED
  BY <1>3 DEF c

\* A set of partitions can be put in the order of the loop.
Orderable(S) == \E s \in SeqX!SetToSeqs(S) : Descending(s)

LEMMA OrderExists ==
  ASSUME IInv, NEW S, S \subseteq DOMAIN parts
  PROVE  Orderable(S)
<1> DEFINE A == {c \in Nat : \A X \in SUBSET DOMAIN parts :
                               IsFiniteSet(X) /\ Cardinality(X) = c => Orderable(X)}
<1>1. 0 \in A
  <2> SUFFICES ASSUME NEW X \in SUBSET DOMAIN parts, IsFiniteSet(X), Cardinality(X) = 0
               PROVE  Orderable(X)
    OBVIOUS
  <2> DEFINE s == [i \in 1 .. 0 |-> CHOOSE x : TRUE]
  <2>1. DOMAIN s = {} /\ 1 .. Cardinality(X) = {}
    OBVIOUS
  <2>2. s \in [1 .. Cardinality(X) -> X]
    OBVIOUS
  <2> HIDE DEF s
  <2>3. s \in SeqX!SetToSeqs(X)
    BY <2>1, <2>2, SeqsAre
  <2> QED
    BY <2>1, <2>3 DEF Descending, Orderable
<1>2. ASSUME NEW c \in Nat, c \in A PROVE c + 1 \in A
  <2> SUFFICES ASSUME NEW X \in SUBSET DOMAIN parts, IsFiniteSet(X), Cardinality(X) = c + 1
               PROVE  Orderable(X)
    OBVIOUS
  <2>1. X # {}
    BY FS_EmptySet
  <2>2. PICK m \in X : \A x \in X : parts[m].first <= parts[x].first
    BY <2>1, LeastExists
  <2> DEFINE Y == X \ {m}
  <2>3. IsFiniteSet(Y) /\ Cardinality(Y) = c /\ Y \in SUBSET DOMAIN parts
    BY <2>2, FS_RemoveElement
  <2>4. Orderable(Y)
    BY <1>2, <2>3
  <2>5. PICK s \in SeqX!SetToSeqs(Y) : Descending(s)
    BY <2>4 DEF Orderable
  <2>6. s \in [1 .. c -> Y] /\ \A i, j \in 1 .. c : i # j => s[i] # s[j]
    BY <2>3, <2>5, SeqsAre
  <2> DEFINE r == [i \in 1 .. c + 1 |-> IF i = c + 1 THEN m ELSE s[i]]
  <2>7. /\ DOMAIN r = 1 .. c + 1 /\ r[c + 1] = m
        /\ \A i \in 1 .. c : r[i] = s[i] /\ r[i] \in Y
        /\ \A i \in 1 .. c + 1 : i = c + 1 \/ i \in 1 .. c
    BY <2>6
  <2>8. r \in [1 .. c + 1 -> X]
    BY <2>2, <2>6
  <2> HIDE DEF r
  <2>9. \A i, j \in 1 .. c + 1 : i # j => r[i] # r[j]
    BY <2>6, <2>7
  <2>10. r \in SeqX!SetToSeqs(X)
    BY <2>8, <2>9, SeqsAre
  <2>11. ASSUME NEW i \in 1 .. c + 1, NEW j \in 1 .. c + 1, i < j
         PROVE  parts[r[i]].first >= parts[r[j]].first
    <3>0. parts[r[i]].first \in Nat /\ parts[r[j]].first \in Nat
      BY <2>8, InvFacts
    <3>1. CASE j = c + 1
      <4>1. r[i] \in X /\ r[j] = m
        BY <2>7, <2>8, <3>1
      <4>2. parts[m].first <= parts[r[i]].first
        BY <2>2, <4>1
      <4> QED
        BY <3>0, <4>1, <4>2
    <3>2. CASE j # c + 1
      <4>1. i \in 1 .. c /\ j \in 1 .. c
        BY <2>7, <2>11, <3>2
      <4>2. DOMAIN s = 1 .. c /\ r[i] = s[i] /\ r[j] = s[j]
        BY <2>6, <2>7, <4>1
      <4>3. parts[s[i]].first >= parts[s[j]].first
        BY <2>5, <2>11, <4>1, <4>2 DEF Descending
      <4> QED
        BY <4>2, <4>3
    <3> QED
      BY <3>1, <3>2
  <2>12. Descending(r)
    BY <2>7, <2>11 DEF Descending
  <2> QED
    BY <2>10, <2>12 DEF Orderable
<1>3. IsFiniteSet(S)
  BY NamesAssumption, InvFacts, FS_Subset
<1>4. Cardinality(S) \in Nat
  BY <1>3, FS_CardinalityType
<1> HIDE DEF A
<1>5. Cardinality(S) \in A
  BY <1>1, <1>2, <1>4, CountUp
<1> QED
  BY <1>3, <1>5 DEF A

\* What the loop goes through: everything, once, the last window first.
LEMMA CascadeOrderIs ==
  ASSUME IInv, NEW S, S \subseteq DOMAIN parts
  PROVE  LET s == CascadeOrder(S)
             n == Cardinality(S)
         IN  /\ n \in Nat /\ s \in [1 .. n -> S] /\ Len(s) = n
             /\ \A i, j \in 1 .. n : i # j => s[i] # s[j]
             /\ \A i, j \in 1 .. n : i < j => parts[s[i]].first >= parts[s[j]].first
             /\ \A x \in S : \E i \in 1 .. n : s[i] = x
<1> DEFINE s == CascadeOrder(S)
           n == Cardinality(S)
<1>1. IsFiniteSet(S) /\ n \in Nat
  <2>1. IsFiniteSet(S)
    BY NamesAssumption, InvFacts, FS_Subset
  <2> QED
    BY <2>1, FS_CardinalityType
<1>2. s \in SeqX!SetToSeqs(S) /\ Descending(s)
  <2>1. \E t \in SeqX!SetToSeqs(S) :
          \A i, j \in DOMAIN t : i < j => parts[t[i]].first >= parts[t[j]].first
    BY OrderExists DEF Orderable, Descending
  <2> QED
    BY <2>1 DEF CascadeOrder, Descending
<1> HIDE DEF s
<1>3. s \in [1 .. n -> S] /\ \A i, j \in 1 .. n : i # j => s[i] # s[j]
  BY <1>2, SeqsAre
<1>4. Len(s) = n
  <2>1. s \in Seq(S)
    BY <1>1, <1>3, SeqDef
  <2>2. DOMAIN s = 1 .. Len(s) /\ Len(s) \in Nat /\ DOMAIN s = 1 .. n
    BY <1>3, <2>1, LenProperties
  <2> HIDE DEF n
  <2>3. 1 .. Len(s) = 1 .. n
    BY Zenon, <2>2
  <2>4. Len(s) \in Nat /\ n \in Nat
    BY <1>1, <2>2
  <2> QED
    BY Zenon, <2>3, <2>4, SameLength
<1>5. \A x \in S : \E i \in 1 .. n : s[i] = x
  <2>1. s \in Injection(1 .. n, S)
    <3>1. IsInjective(s)
      BY <1>3 DEF IsInjective
    <3> QED
      BY <1>3, <3>1 DEF Injection
  <2>2. Cardinality(1 .. n) = Cardinality(S)
    <3> HIDE DEF n
    <3>1. Cardinality(1 .. n) = n
      BY <1>1, FS_Interval
    <3> QED
      BY <3>1 DEF n
  <2>3. s \in Surjection(1 .. n, S)
    BY <1>1, <2>1, <2>2, FS_Injection
  <2> QED
    BY <2>3 DEF Surjection
<1>6. \A i, j \in 1 .. n : i < j => parts[s[i]].first >= parts[s[j]].first
  BY <1>2, <1>3 DEF Descending
<1> QED
  BY <1>1, <1>3, <1>4, <1>5, <1>6 DEF s, n

\* The table after each turn.
Turns(s, n, g) ==
  /\ g = [k \in 0 .. n |-> g[k]]
  /\ g[0] = [parts |-> parts, extents |-> extents]
  /\ \A k \in 1 .. n : g[k] = CascadeStep(g[k - 1], s[k])

LEMMA TurnsExist ==
  ASSUME NEW s, NEW n \in Nat
  PROVE  \E g : Turns(s, n, g)
<1> DEFINE A == {k \in Nat : \E g : Turns(s, k, g)}
<1>1. 0 \in A
  <2> DEFINE g == [k \in 0 .. 0 |-> [parts |-> parts, extents |-> extents]]
  <2>1. Turns(s, 0, g)
    BY DEF Turns
  <2> QED
    BY <2>1
<1>2. ASSUME NEW m \in Nat, m \in A PROVE m + 1 \in A
  <2>1. PICK g : Turns(s, m, g)
    BY <1>2
  <2> DEFINE h == [k \in 0 .. m + 1 |-> IF k = m + 1 THEN CascadeStep(g[m], s[m + 1]) ELSE g[k]]
  <2>2. /\ h = [k \in 0 .. m + 1 |-> h[k]] /\ h[0] = g[0]
        /\ \A k \in 0 .. m : h[k] = g[k]
        /\ h[m + 1] = CascadeStep(g[m], s[m + 1])
    OBVIOUS
  <2> HIDE DEF h
  <2>3. ASSUME NEW k \in 1 .. m + 1 PROVE h[k] = CascadeStep(h[k - 1], s[k])
    <3>1. CASE k = m + 1
      <4>0. k - 1 = m /\ m \in 0 .. m
        BY <3>1
      <4>1. k - 1 = m /\ h[m] = g[m]
        BY Zenon, <2>2, <4>0
      <4>2. h[k] = CascadeStep(g[m], s[k])
        BY Zenon, <2>2, <3>1
      <4> QED
        BY Zenon, <4>1, <4>2
    <3>2. CASE k # m + 1
      <4>1. k \in 1 .. m /\ k \in 0 .. m /\ k - 1 \in 0 .. m
        BY <3>2
      <4>2. g[k] = CascadeStep(g[k - 1], s[k])
        BY <2>1, <4>1 DEF Turns
      <4>3. h[k] = g[k] /\ h[k - 1] = g[k - 1]
        BY <2>2, <4>1
      <4> QED
        BY <4>2, <4>3
    <3> QED
      BY <3>1, <3>2
  <2>4. Turns(s, m + 1, h)
    BY <2>1, <2>2, <2>3 DEF Turns
  <2> QED
    BY <2>4
<1> HIDE DEF A
<1>3. n \in A
  BY <1>1, <1>2, CountUp
<1> QED
  BY <1>3 DEF A

LEMMA CascadeLoopIs ==
  ASSUME NEW S, NEW n \in Nat, Len(CascadeOrder(S)) = n
  PROVE  \E g : /\ Turns(CascadeOrder(S), n, g)
                /\ CascadeLoop(S) = [parts |-> Without(g[n].parts, S), extents |-> g[n].extents]
<1> DEFINE s == CascadeOrder(S)
           T(g) == g = [k \in 0 .. Len(s) |->
                          IF k = 0 THEN [parts |-> parts, extents |-> extents]
                                   ELSE CascadeStep(g[k - 1], s[k])]
           d == CHOOSE g : T(g)
<1>1. PICK h : Turns(s, n, h)
  BY TurnsExist
<1> HIDE DEF s
<1>2. T(h)
  <2>1. h = [k \in 0 .. n |-> h[k]] /\ h[0] = [parts |-> parts, extents |-> extents]
    BY <1>1 DEF Turns
  <2>2. \A k \in 0 .. n : k # 0 => k \in 1 .. n
    OBVIOUS
  <2>3. \A k \in 0 .. n : h[k] = IF k = 0 THEN [parts |-> parts, extents |-> extents]
                                          ELSE CascadeStep(h[k - 1], s[k])
    BY <1>1, <2>1, <2>2 DEF Turns
  <2>4. Len(s) = n
    BY DEF s
  <2> QED
    BY <2>1, <2>3, <2>4
<1>3. T(d)
  <2> HIDE DEF T
  <2> QED
    BY <1>2
<1>4. Turns(s, n, d)
  <2>1. Len(s) = n
    BY DEF s
  <2>2. d = [k \in 0 .. n |-> IF k = 0 THEN [parts |-> parts, extents |-> extents]
                                       ELSE CascadeStep(d[k - 1], s[k])]
    BY <1>3, <2>1
  <2> HIDE DEF d
  <2>3. \A k \in 1 .. n : k \in 0 .. n /\ k # 0
    OBVIOUS
  <2> QED
    BY <2>2, <2>3 DEF Turns
<1>5. CascadeLoop(S) = [parts |-> Without(d[n].parts, S), extents |-> d[n].extents]
  BY DEF CascadeLoop, s
<1> QED
  BY <1>4, <1>5 DEF s

\* The loop computes the compacted table.
LEMMA LoopCompacts ==
  ASSUME IInv, NEW S, S \subseteq DOMAIN parts
  PROVE  CascadeLoop(S) = [parts |-> CompactParts(S), extents |-> CompactExtents(S)]
<1> DEFINE s == CascadeOrder(S)
           n == Cardinality(S)
           Past(k) == {s[i] : i \in 1 .. k}
<1>1. /\ n \in Nat /\ s \in [1 .. n -> S] /\ Len(s) = n
      /\ \A i, j \in 1 .. n : i # j => s[i] # s[j]
      /\ \A i, j \in 1 .. n : i < j => parts[s[i]].first >= parts[s[j]].first
      /\ \A x \in S : \E i \in 1 .. n : s[i] = x
  BY CascadeOrderIs
<1>2. PICK g : /\ Turns(s, n, g)
               /\ CascadeLoop(S) = [parts |-> Without(g[n].parts, S), extents |-> g[n].extents]
  BY <1>1, CascadeLoopIs
<1> HIDE DEF s, n
<1> DEFINE A == {k \in Nat : k <= n =>
                   Settled(Past(k), g[k].parts) /\ g[k].extents = CompactExtents(Past(k))}
<1>3. 0 \in A
  <2>1. Past(0) = {}
    OBVIOUS
  <2>2. g[0] = [parts |-> parts, extents |-> extents]
    BY <1>2 DEF Turns
  <2>3. g[0].parts = parts /\ g[0].extents = extents
    BY <2>2
  <2> HIDE DEF Past
  <2> QED
    BY <2>1, <2>3, NothingGone
<1>4. ASSUME NEW k \in Nat, k \in A PROVE k + 1 \in A
  <2> SUFFICES ASSUME k + 1 <= n
               PROVE  /\ Settled(Past(k + 1), g[k + 1].parts)
                      /\ g[k + 1].extents = CompactExtents(Past(k + 1))
    OBVIOUS
  <2> DEFINE T == Past(k)
             m == s[k + 1]
  <2>1. k + 1 \in 1 .. n /\ (k + 1) - 1 = k /\ k <= n /\ \A i \in 1 .. k : i \in 1 .. n /\ i < k + 1
    BY <1>1
  <2>2. Past(k + 1) = T \cup {m}
    <3>1. 1 .. k + 1 = (1 .. k) \cup {k + 1}
      OBVIOUS
    <3> QED
      BY <3>1
  <2>3. g[k + 1] = CascadeStep(g[k], m)
    BY <1>2, <2>1 DEF Turns
  <2>4. Settled(T, g[k].parts) /\ g[k].extents = CompactExtents(T)
    BY <1>4, <2>1
  <2>5. NextOf(T, m)
    <3>1. m \in DOMAIN parts /\ T \subseteq DOMAIN parts
      BY <1>1, <2>1
    <3>2. m \notin T
      <4>1. \A i \in 1 .. k : s[i] # s[k + 1]
        BY <1>1, <2>1
      <4> QED
        BY <4>1
    <3>3. \A i \in 1 .. k : parts[s[k + 1]].first <= parts[s[i]].first
      <4> SUFFICES ASSUME NEW i \in 1 .. k PROVE parts[s[k + 1]].first <= parts[s[i]].first
        OBVIOUS
      <4>1. s[i] \in DOMAIN parts /\ s[k + 1] \in DOMAIN parts
        BY <1>1, <2>1
      <4>2. parts[s[i]].first \in Nat /\ parts[s[k + 1]].first \in Nat
        BY <4>1, InvFacts
      <4>3. parts[s[i]].first >= parts[s[k + 1]].first
        BY <1>1, <2>1
      <4> QED
        BY <4>2, <4>3
    <3> QED
      BY <3>1, <3>2, <3>3 DEF NextOf
  <2> HIDE DEF Past, T, m, A
  <2>6. /\ g[k + 1].parts = ShiftDown(g[k].parts, parts[m].first + 1, parts[m].num)
        /\ g[k + 1].extents = Drain(g[k].extents, parts[m].first, parts[m].num)
    BY <2>3 DEF CascadeStep
  <2>7. Settled(T \cup {m}, g[k + 1].parts)
    BY <2>4, <2>5, <2>6, ShiftMoves
  <2>8. g[k + 1].extents = CompactExtents(T \cup {m})
    BY <2>4, <2>5, <2>6, DrainCompacts
  <2> QED
    BY <2>2, <2>7, <2>8
<1> HIDE DEF A
<1>5. n \in A
  BY <1>1, <1>3, <1>4, CountUp
<1>6. Past(n) = S
  BY <1>1
<1>7. Settled(S, g[n].parts) /\ g[n].extents = CompactExtents(S)
  <2> HIDE DEF Past
  <2> QED
    BY <1>1, <1>5, <1>6 DEF A
<1>8. Without(g[n].parts, S) = CompactParts(S)
  BY <1>7, CompactPartsAre
<1> QED
  BY <1>2, <1>7, <1>8

\* The loop of remove --group --force and of clear-cow (commands/remove.rs and
\* cow.rs), which drains one window at a time and shifts the rest after each,
\* ends with the compacted table that the model's commands write, in every
\* table that a history of commands can reach.
THEOREM SpecCascadeLoopCompacts == Spec => []CascadeLoopCompacts
<1>1. IInv => CascadeLoopCompacts
  BY LoopCompacts DEF CascadeLoopCompacts
<1> QED
  BY <1>1, SpecSound, PTL
=============================================================================
