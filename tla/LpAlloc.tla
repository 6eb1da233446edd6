------------------------------ MODULE LpAlloc ------------------------------
(***************************************************************************)
(* The free-space allocator of LpWriter (core/src/writer.rs): pure          *)
(* functions of a list of extents and a table of block devices.            *)
(*                                                                         *)
(* An extent is [num, type, data, source]: `num` sectors that start at     *)
(* sector `data` of block device `source`.  A block device is              *)
(* [first, size, alignment, offset]; `first` is a sector number, the other *)
(* three are bytes, as in the on-disk table.  Devices are numbered from 0  *)
(* as in the code, and Device(devs, i) is the one with index i.            *)
(*                                                                         *)
(* Two forms of the search are given.  FindFree is the scan the code       *)
(* makes; FirstFit says what it finds.  The table's state machine uses the *)
(* second, because it can be reasoned about without induction over the     *)
(* scan; MCLpAlloc checks and LpAllocProofs proves that the two agree.     *)
(***************************************************************************)
EXTENDS Integers, Sequences, FiniteSets

\* LP_SECTOR_SIZE
SECTOR == 512

Linear == "linear"
Zero == "zero"

\* What a search answers when it returns Err: no sector, no runs.
NoFit == -1
NoPlan == <<>>

Device(devs, i) == devs[i + 1]
DeviceIndices(devs) == 0 .. Len(devs) - 1

\* The first sector past an extent.
End(e) == e.data + e.num

\* The hard limit of a device, in sectors.
Limit(dev) == dev.size \div SECTOR

\* Mutant of AlignUp: rounds to the alignment and forgets the device's phase.
AlignUpWithoutPhase(v, alignment, offset) ==
  LET sectors == (alignment + SECTOR - 1) \div SECTOR
  IN IF alignment = 0 \/ v % sectors = 0 THEN v ELSE v + sectors - (v % sectors)

(***************************************************************************)
(* LpWriter::align_up.  The least sector >= v whose byte address is        *)
(* congruent to offset modulo alignment when both are whole sectors; a     *)
(* plain rounding to ceil(alignment / SECTOR) sectors when they are not.   *)
(***************************************************************************)
AlignUp(v, alignment, offset) ==
  IF alignment = 0 THEN v
  ELSE LET off == offset % alignment
       IN IF alignment % SECTOR = 0 /\ off % SECTOR = 0
          THEN LET rem == (v * SECTOR) % alignment
                   shift == IF rem <= off THEN off - rem ELSE alignment + off - rem
               IN v + shift \div SECTOR
          ELSE LET sectors == (alignment + SECTOR - 1) \div SECTOR
                   rem == v % sectors
               IN IF rem = 0 THEN v ELSE v + sectors - rem

Aligned(dev, v) == AlignUp(v, dev.alignment, dev.offset)

\* The linear extents of one device: what collect_used keeps.
OnDevice(e, d) == e.type = Linear /\ e.source = d

\* The condition of is_range_free on one extent: [s, s + len) meets it.
Meets(e, s, len) == s < End(e) /\ e.data < s + len

(***************************************************************************)
(* LpWriter::is_range_free.                                                *)
(***************************************************************************)
IsRangeFree(exts, devs, d, s, len) ==
  /\ Limit(Device(devs, d)) > 0 => s + len <= Limit(Device(devs, d))
  /\ \A i \in DOMAIN exts : OnDevice(exts[i], d) => ~Meets(exts[i], s, len)

\* The extents of a device, by their position in the table.
Used(exts, d) == {i \in DOMAIN exts : OnDevice(exts[i], d)}

\* Mutant of CollectUsed: the extents in table order.
CollectUsedUnsorted(exts, d) == SelectSeq(exts, LAMBDA e : OnDevice(e, d))

(***************************************************************************)
(* LpWriter::collect_used: the extents of a device, sorted by where they   *)
(* start; extents that start at one sector stay in table order.            *)
(***************************************************************************)
Precedes(exts, i, j) ==
  exts[i].data < exts[j].data \/ (exts[i].data = exts[j].data /\ i < j)
Rank(exts, d, i) == Cardinality({j \in Used(exts, d) : Precedes(exts, j, i)})

CollectUsed(exts, d) ==
  [k \in 1 .. Cardinality(Used(exts, d)) |->
     exts[CHOOSE i \in Used(exts, d) : Rank(exts, d, i) = k - 1]]

(***************************************************************************)
(* LpWriter::find_free_sectors as it is written: walk the sorted extents   *)
(* with a candidate, return it as soon as the request ends before the next *)
(* extent, else move it past that extent.                                  *)
(***************************************************************************)
PassUsed(dev, needed, acc, e) ==
  IF acc.found \/ acc.at + needed <= e.data THEN [acc EXCEPT !.found = TRUE]
  ELSE IF End(e) > acc.at THEN [acc EXCEPT !.at = Aligned(dev, End(e))]
  ELSE acc

Candidate(used, dev, needed) ==
  LET scan[k \in 0 .. Len(used)] ==
        IF k = 0 THEN [at |-> Aligned(dev, dev.first), found |-> FALSE]
        ELSE PassUsed(dev, needed, scan[k - 1], used[k])
  IN scan[Len(used)].at

FindFree(exts, devs, d, needed) ==
  LET dev == Device(devs, d)
      Answer(c) == IF Limit(dev) > 0 /\ c + needed > Limit(dev) THEN NoFit ELSE c
  IN IF needed = 0 THEN NoFit ELSE Answer(Candidate(CollectUsed(exts, d), dev, needed))

(***************************************************************************)
(* What that scan finds: the least start, among the aligned first sector   *)
(* of the device and the aligned ends of its extents, where the request is *)
(* free and inside the device.                                             *)
(***************************************************************************)
Starts(exts, devs, d) ==
  LET dev == Device(devs, d)
  IN {Aligned(dev, dev.first)} \cup {Aligned(dev, End(exts[i])) : i \in Used(exts, d)}

FreeStarts(exts, devs, d, needed) ==
  LET dev == Device(devs, d)
  IN {s \in Starts(exts, devs, d) :
        /\ Aligned(dev, dev.first) <= s
        /\ IsRangeFree(exts, devs, d, s, needed)}

FirstFit(exts, devs, d, needed, s) ==
  /\ needed > 0
  /\ s \in FreeStarts(exts, devs, d, needed)
  /\ \A t \in FreeStarts(exts, devs, d, needed) : s <= t

(***************************************************************************)
(* LpWriter::find_free_sectors_any_in: the first device of the table, among *)
(* the allowed ones, that has room; find_free_sectors_any allows them all. *)
(***************************************************************************)
FirstFitIn(exts, devs, allowed, needed, d, s) ==
  /\ d \in allowed
  /\ FirstFit(exts, devs, d, needed, s)
  /\ \A c \in allowed : c < d => FreeStarts(exts, devs, c, needed) = {}

\* Mutant of ClipToLimit: a gap may run past the end of the device.
ClipToNothing(limit, s) == s

\* A position on a device, but not past its end.
ClipToLimit(limit, s) == IF limit > 0 /\ s > limit THEN limit ELSE s

(***************************************************************************)
(* LpWriter::largest_free_run as it is written: walk the sorted extents    *)
(* and keep the longest gap seen.  The walk stops once the candidate has   *)
(* reached the limit.                                                      *)
(***************************************************************************)
Longer(best, from, to) == IF to - from > best THEN to - from ELSE best

PassGap(dev, acc, e) ==
  LET best == Longer(acc.best, acc.at, ClipToLimit(Limit(dev), e.data))
      at == Aligned(dev, End(e))
  IN IF acc.done THEN acc
     ELSE IF End(e) > acc.at
     THEN [at |-> at, best |-> best, done |-> Limit(dev) > 0 /\ at >= Limit(dev)]
     ELSE [acc EXCEPT !.best = best]

Gaps(used, dev) ==
  LET scan[k \in 0 .. Len(used)] ==
        IF k = 0 THEN [at |-> Aligned(dev, dev.first), best |-> 0, done |-> FALSE]
        ELSE PassGap(dev, scan[k - 1], used[k])
  IN scan[Len(used)]

LargestFreeRun(exts, devs, d) ==
  LET dev == Device(devs, d)
      WithTail(last) ==
        IF Limit(dev) = 0 THEN last.best ELSE Longer(last.best, last.at, Limit(dev))
  IN WithTail(Gaps(CollectUsed(exts, d), dev))

\* find_free_sectors_any over all devices, with the scan of the code; its
\* answer as a plan of one run.
FindFreeAny(exts, devs, needed) ==
  LET fits == {d \in DeviceIndices(devs) : FindFree(exts, devs, d, needed) # NoFit}
  IN IF fits = {} THEN NoPlan
     ELSE LET d == CHOOSE c \in fits : \A b \in fits : c <= b
          IN <<[source |-> d, at |-> FindFree(exts, devs, d, needed), num |-> needed]>>

(***************************************************************************)
(* LpWriter::plan_spanning_allocation: one run when a device can hold the  *)
(* whole request, else a chunk per device in table order, each as large as *)
(* the largest free run of that device, round after round until a round    *)
(* makes no progress.  SpanRound is one turn of the `while` over all       *)
(* devices; a round without progress is a fixed point, and there is one    *)
(* after at most `needed` rounds.                                          *)
(***************************************************************************)

\* Mutant of RunExtent: the planned run is recorded one sector short.
RunExtentShort(r) == [num |-> r.num - 1, type |-> Linear, data |-> r.at, source |-> r.source]

\* A planned run as the extent that the next searches have to avoid.
RunExtent(r) == [num |-> r.num, type |-> Linear, data |-> r.at, source |-> r.source]

Smaller(m, n) == IF m < n THEN m ELSE n

AddRun(acc, r) ==
  [plan |-> Append(acc.plan, r),
   working |-> Append(acc.working, RunExtent(r)),
   remaining |-> acc.remaining - r.num]

Take(devs, acc, d, num) ==
  IF num = 0 THEN acc
  ELSE AddRun(acc, [source |-> d, num |-> num, at |-> FindFree(acc.working, devs, d, num)])

TakeLargest(devs, acc, d) ==
  Take(devs, acc, d, Smaller(acc.remaining, LargestFreeRun(acc.working, devs, d)))

SpanRound(devs, start) ==
  LET turn[k \in 0 .. Len(devs)] ==
        IF k = 0 THEN start ELSE TakeLargest(devs, turn[k - 1], k - 1)
  IN turn[Len(devs)]

Spanned(exts, devs, needed) ==
  LET rounds[k \in 0 .. needed] ==
        IF k = 0 THEN [plan |-> <<>>, working |-> exts, remaining |-> needed]
        ELSE SpanRound(devs, rounds[k - 1])
  IN rounds[needed]

PlanSpanning(exts, devs, needed) ==
  LET PlanOf(last) == IF last.remaining = 0 THEN last.plan ELSE NoPlan
      WholeOr(whole) == IF whole # NoPlan THEN whole ELSE PlanOf(Spanned(exts, devs, needed))
  IN IF needed = 0 \/ devs = <<>> THEN NoPlan
     ELSE WholeOr(FindFreeAny(exts, devs, needed))

----------------------------------------------------------------------------
\* What is said of the searches.

\* A sector on the phase of a device (on the alignment, rounded up to sectors,
\* when a phase in whole sectors cannot be told from it).
WholeSectors(dev) == dev.alignment % SECTOR = 0 /\ (dev.offset % dev.alignment) % SECTOR = 0
InPhase(dev, s) ==
  \/ dev.alignment = 0
  \/ WholeSectors(dev) /\ (s * SECTOR) % dev.alignment = dev.offset % dev.alignment
  \/ ~WholeSectors(dev) /\ s % ((dev.alignment + SECTOR - 1) \div SECTOR) = 0

\* The sectors of a planned run, with their device.
Blocks(r) == {<<r.source, t>> : t \in r.at .. r.at + r.num - 1}
=============================================================================
