------------------------------ MODULE LpTable ------------------------------
(***************************************************************************)
(* One metadata slot's table and the commands that edit it: add, create,   *)
(* resize, remove, rename and clear-cow (cli/src/commands).  Every command *)
(* loads the table, edits it in memory and writes it back whole, so a      *)
(* command is one action here; what a crash does to the write is SlotStore. *)
(*                                                                         *)
(* The table keeps all extents in one sequence and a partition owns a      *)
(* window of it: `num` extents from the (0-based) index `first`.  Every    *)
(* command that inserts or drops extents must move the windows behind it,  *)
(* and that arithmetic is what this module is about.                       *)
(*                                                                         *)
(* Partitions are kept by name (the commands refuse to make two of a name, *)
(* and resolve a name to one partition first); groups keep their order,    *)
(* because a partition names its group by (0-based) position.  Sizes are   *)
(* in sectors: the commands round a size in bytes up before they use it.   *)
(***************************************************************************)
EXTENDS LpAlloc
SeqX == INSTANCE SequencesExt

CONSTANTS
  Names,       \* partition names
  CowNames,    \* those of them that end in "-cow"
  GroupNames,  \* group names
  NewGroups,   \* those of them that commands ask for
  CowGroup,    \* the group name "cow"
  Devs,        \* the block-device table, which no command edits
  MaxRequest,  \* bound: sectors that one command asks for
  GroupSizes,  \* the --group-size values tried, in sectors
  HeaderSize,  \* bytes of the metadata header
  MetadataMax, \* geometry: bytes of one metadata copy
  InitTables   \* the tables a history starts from

VARIABLES
  parts,   \* name -> [first, num, group]
  extents, \* the extent table
  groups,  \* the group table, of [name, max]; max = 0 is no limit
  forced   \* history: --force has overridden a group limit

vars == <<parts, extents, groups, forced>>

\* A name is a field of 36 bytes, so there are finitely many.
ASSUME NamesAssumption ==
  /\ IsFiniteSet(Names) /\ CowNames \subseteq Names
  /\ NewGroups \subseteq GroupNames /\ CowGroup \in GroupNames
ASSUME DevicesAssumption ==
  /\ Devs \in Seq([first : Nat, size : Nat, alignment : Nat, offset : Nat])
  /\ Devs # <<>>
  /\ \A i \in DOMAIN Devs : Limit(Devs[i]) > 0
ASSUME SizesAssumption ==
  MaxRequest \in Nat /\ GroupSizes \subseteq Nat /\ HeaderSize \in Nat /\ MetadataMax \in Nat

Extent == [num : Nat, type : {Linear, Zero}, data : Nat, source : DeviceIndices(Devs)]
Partition == [first : Nat, num : Nat, group : Nat]
Group == [name : GroupNames, max : Nat]

----------------------------------------------------------------------------
\* Reading the table.

\* The positions, from 0, of the extents a partition owns.
Window(p) == p.first .. p.first + p.num - 1

GroupAt(i) == groups[i + 1]
GroupIndices == 0 .. Len(groups) - 1
HasGroup(grps, g) == \E i \in DOMAIN grps : grps[i].name = g

\* SuperData::partition_sectors
PartitionSectors(exts, p) ==
  SeqX!SumFunction([k \in 1 .. p.num |-> exts[p.first + k].num])

\* Sectors charged to group i by the partitions of S.
Charged(S, i) ==
  SeqX!SumFunctionOnSet([n \in DOMAIN parts |-> PartitionSectors(extents, parts[n])],
                        {n \in S : parts[n].group = i})

\* Mutant of WithinLimit: the members there already are not counted.
WithinLimitAlone(grp, others, i, sectors) == grp.max > 0 => sectors <= grp.max

\* The limit check of add, create and resize: `others` are the partitions
\* counted beside the request.
WithinLimit(grp, others, i, sectors) ==
  grp.max > 0 => Charged(others, i) + sectors <= grp.max

----------------------------------------------------------------------------
\* Editing the table.

\* u32::saturating_sub
Minus(a, b) == IF a > b THEN a - b ELSE 0

\* Mutant of Insert: push instead of insert.
InsertAtEnd(exts, at, e) == Append(exts, e)

\* extents.insert(at, e), at counted from 0
Insert(exts, at, e) == SubSeq(exts, 1, at) \o <<e>> \o SubSeq(exts, at + 1, Len(exts))

\* Mutant of Drain: drain(from .. from + n - 1).
DrainShort(exts, from, n) ==
  IF n = 0 THEN exts ELSE SubSeq(exts, 1, from) \o SubSeq(exts, from + n, Len(exts))

\* extents.drain(from .. from + n)
Drain(exts, from, n) == SubSeq(exts, 1, from) \o SubSeq(exts, from + n + 1, Len(exts))

\* Mutant of ShiftUp: the window that starts right at `from` stays.
ShiftUpBehind(prts, from) ==
  [m \in DOMAIN prts |->
     IF prts[m].first > from THEN [prts[m] EXCEPT !.first = @ + 1] ELSE prts[m]]

\* first_extent_index moves up by one, or down by n, for the partitions whose
\* window starts at `from` or later.
ShiftUp(prts, from) ==
  [m \in DOMAIN prts |->
     IF prts[m].first >= from THEN [prts[m] EXCEPT !.first = @ + 1] ELSE prts[m]]

ShiftDown(prts, from, n) ==
  [m \in DOMAIN prts |->
     IF prts[m].first >= from THEN [prts[m] EXCEPT !.first = Minus(@, n)] ELSE prts[m]]

\* The partition table with one more, or one changed, entry.
With(prts, n, p) == [m \in DOMAIN prts \cup {n} |-> IF m = n THEN p ELSE prts[m]]
Without(prts, S) == [m \in DOMAIN prts \ S |-> prts[m]]

(***************************************************************************)
(* The cascade of `remove --group --force` and of clear-cow: every window  *)
(* of the partitions in S is drained.  The code drains them one at a time, *)
(* last window first (CascadeLoop); CompactParts and CompactExtents say     *)
(* what it ends with: the surviving extents close up, and a window moves   *)
(* down by the number of extents that went in front of it.                 *)
(***************************************************************************)
Gone(S) == UNION {Window(parts[m]) : m \in S}
Below(S, i) == Cardinality({k \in S : k < i})

CompactExtents(S) ==
  LET kept == (0 .. Len(extents) - 1) \ Gone(S)
      Origin(k) == CHOOSE i \in kept : Below(kept, i) = k
  IN [k \in 1 .. Cardinality(kept) |-> extents[Origin(k - 1) + 1]]

CompactParts(S) ==
  [m \in DOMAIN parts \ S |->
     [parts[m] EXCEPT !.first = @ - Below(Gone(S), @)]]

\* Mutant of CascadeOrder: the first window first.
CascadeAscending(S) ==
  CHOOSE s \in SeqX!SetToSeqs(S) :
    \A i, j \in DOMAIN s : i < j => parts[s[i]].first <= parts[s[j]].first

\* sort_by_key(Reverse(first)).  Of windows that start together at most one
\* has extents, so it does not matter how the sort orders those.
CascadeOrder(S) ==
  CHOOSE s \in SeqX!SetToSeqs(S) :
    \A i, j \in DOMAIN s : i < j => parts[s[i]].first >= parts[s[j]].first

\* One turn of the loop, at the window m had before the first turn.  (A window
\* past the last extent is refused; no sound table has one.)
CascadeStep(acc, m) ==
  [parts   |-> ShiftDown(acc.parts, parts[m].first + 1, parts[m].num),
   extents |-> Drain(acc.extents, parts[m].first, parts[m].num)]

CascadeLoop(S) ==
  LET order == CascadeOrder(S)
      done[k \in 0 .. Len(order)] ==
        IF k = 0 THEN [parts |-> parts, extents |-> extents] ELSE CascadeStep(done[k - 1], order[k])
  IN [parts   |-> Without(done[Len(order)].parts, S),
      extents |-> done[Len(order)].extents]

----------------------------------------------------------------------------
(***************************************************************************)
(* LpWriter::write_metadata as far as the table is concerned: the tables   *)
(* must fit the entry limits and the slot, or nothing is written at all.   *)
(***************************************************************************)
TablesFit(nparts, nexts, ngroups) ==
  /\ nparts <= 65536 /\ nexts <= 65536 /\ ngroups <= 65536 /\ Len(Devs) <= 16
  /\ HeaderSize + 52 * nparts + 24 * nexts + 48 * ngroups + 64 * Len(Devs) <= MetadataMax

WriteMetadata(prts, exts, grps) ==
  /\ TablesFit(Cardinality(DOMAIN prts), Len(exts), Len(grps))
  /\ parts' = prts
  /\ extents' = exts
  /\ groups' = grps

\* A request over the group's limit passes only with --force.  Where --force is
\* not needed it changes nothing, and is left out.
Charge(ok, force) == ok # force /\ forced' = (forced \/ force)

LinearExtent(d, s, n) == [num |-> n, type |-> Linear, data |-> s, source |-> d]

----------------------------------------------------------------------------
(***************************************************************************)
(* What a table has to be, and what a history may start from: the tables   *)
(* that make and these commands write.  The parser accepts others (windows *)
(* that overlap, extents of no sectors or of no partition); nothing is     *)
(* claimed of a history that starts from one of those.                     *)
(***************************************************************************)
TableTyped(prts, exts, grps) ==
  /\ DOMAIN prts \subseteq Names
  /\ \A n \in DOMAIN prts : prts[n] \in Partition /\ prts[n].group < Len(grps)
  /\ exts \in Seq(Extent)
  /\ grps \in Seq(Group)

TableWindowsApart(prts, exts) ==
  /\ \A n \in DOMAIN prts : prts[n].first + prts[n].num <= Len(exts)
  /\ \A m, n \in DOMAIN prts : m # n =>
       \/ prts[m].first + prts[m].num <= prts[n].first
       \/ prts[n].first + prts[n].num <= prts[m].first

TableOwned(prts, exts) ==
  UNION {Window(prts[n]) : n \in DOMAIN prts} = 0 .. Len(exts) - 1

TableExtentsApart(exts) ==
  /\ \A i \in DOMAIN exts : exts[i].type = Linear =>
       LET dev == Device(Devs, exts[i].source)
       IN dev.first <= exts[i].data /\ End(exts[i]) <= Limit(dev)
  /\ \A i, j \in DOMAIN exts :
       i # j /\ OnDevice(exts[i], exts[j].source) /\ exts[j].type = Linear =>
         ~Meets(exts[i], exts[j].data, exts[j].num)

\* Every extent has at least one sector.
TableExtentsFilled(exts) == \A i \in DOMAIN exts : exts[i].num > 0

SoundTable(prts, exts, grps) ==
  /\ TableTyped(prts, exts, grps)
  /\ TableWindowsApart(prts, exts)
  /\ TableOwned(prts, exts)
  /\ TableExtentsApart(exts)
  /\ TableExtentsFilled(exts)

ASSUME InitTablesAssumption ==
  \A t \in InitTables : SoundTable(t.parts, t.extents, t.groups)

----------------------------------------------------------------------------
Init == /\ \E t \in InitTables :
             parts = t.parts /\ extents = t.extents /\ groups = t.groups
        /\ forced = FALSE

\* A new partition of `needed` sectors in group i, on one of the devices of
\* `allowed`: what add and create have in common.
Place(n, i, grps, needed, allowed, force) ==
  /\ Charge(WithinLimit(grps[i + 1], DOMAIN parts, i, needed), force)
  /\ \E d \in allowed : \E s \in FreeStarts(extents, Devs, d, needed) :
       /\ FirstFitIn(extents, Devs, allowed, needed, d, s)
       /\ WriteMetadata(
            With(parts, n, [first |-> Len(extents), num |-> 1, group |-> i]),
            Append(extents, LinearExtent(d, s, needed)),
            grps)

\* add: a payload of at least one byte, in a group given or chosen by name,
\* on the main device or one bound with --device.
Add(n, i, needed, bound, force) ==
  /\ n \notin DOMAIN parts
  /\ needed > 0
  /\ i \in GroupIndices
  /\ Place(n, i, groups, needed, {0} \cup bound, force)

\* create --group-size: the group table the new partition is checked against.
\* A size for a group that exists is ignored.
GroupsFor(g, sizes) ==
  IF HasGroup(groups, g) \/ sizes = {} THEN groups
  ELSE Append(groups, [name |-> g, max |-> CHOOSE s \in sizes : TRUE])

\* create with a size: any device will do.
Create(n, g, sizes, needed, force) ==
  LET grps == GroupsFor(g, sizes)
  IN /\ n \notin DOMAIN parts
     /\ needed > 0
     /\ \E i \in DOMAIN grps :
          /\ grps[i].name = g
          /\ Place(n, i - 1, grps, needed, DeviceIndices(Devs), force)

\* create with size 0: a partition with no extents, at the end of the table.
CreateEmpty(n, g, sizes) ==
  LET grps == GroupsFor(g, sizes)
  IN /\ n \notin DOMAIN parts
     /\ \E i \in DOMAIN grps :
          /\ grps[i].name = g
          /\ WriteMetadata(
               With(parts, n, [first |-> Len(extents), num |-> 0, group |-> i - 1]),
               extents, grps)
     /\ UNCHANGED forced

----------------------------------------------------------------------------
\* resize to `sectors`: the limit counts the other members of the group.
ChargeResize(n, sectors, force) ==
  LET i == parts[n].group
  IN /\ i \in GroupIndices
     /\ Charge(WithinLimit(GroupAt(i), DOMAIN parts \ {n}, i, sectors), force)

LastExtent(p) == extents[p.first + p.num]

\* Mutant of RoomBehind: only the device's end is looked at.
RoomOnDevice(p, extra) ==
  End(LastExtent(p)) + extra <= Limit(Device(Devs, LastExtent(p).source))

\* Whether the sectors after the last extent are free for it to grow into.
RoomBehind(p, extra) ==
  IsRangeFree(extents, Devs, LastExtent(p).source, End(LastExtent(p)), extra)

\* A partition with no extents gets a fresh one, at the end of the table.
GrowFresh(n, extra, force) ==
  /\ parts[n].num = 0
  /\ ChargeResize(n, extra, force)
  /\ \E d \in DeviceIndices(Devs) : \E s \in FreeStarts(extents, Devs, d, extra) :
       /\ FirstFitIn(extents, Devs, DeviceIndices(Devs), extra, d, s)
       /\ WriteMetadata(
            With(parts, n, [parts[n] EXCEPT !.first = Len(extents), !.num = 1]),
            Append(extents, LinearExtent(d, s, extra)),
            groups)

\* The last extent grows where it is.
GrowInPlace(n, extra, force) ==
  LET p == parts[n]
  IN /\ p.num > 0
     /\ ChargeResize(n, PartitionSectors(extents, p) + extra, force)
     /\ LastExtent(p).type = Linear
     /\ RoomBehind(p, extra)
     /\ WriteMetadata(parts,
          [extents EXCEPT ![p.first + p.num] = [LastExtent(p) EXCEPT !.num = @ + extra]],
          groups)

\* Otherwise a new extent, on the device of the last one, is spliced in
\* behind the window and every window after it moves up.
GrowSplice(n, extra, force) ==
  LET p == parts[n]
      d == LastExtent(p).source
      at == p.first + p.num
  IN /\ p.num > 0
     /\ ChargeResize(n, PartitionSectors(extents, p) + extra, force)
     /\ LastExtent(p).type = Linear
     /\ ~RoomBehind(p, extra)
     /\ \E s \in FreeStarts(extents, Devs, d, extra) :
          /\ FirstFit(extents, Devs, d, extra, s)
          /\ WriteMetadata(
               With(ShiftUp(parts, at), n, [p EXCEPT !.num = @ + 1]),
               Insert(extents, at, LinearExtent(d, s, extra)),
               groups)

\* resize 0 drops all the partition's extents.
ShrinkToZero(n, force) ==
  LET p == parts[n]
  IN /\ PartitionSectors(extents, p) > 0
     /\ ChargeResize(n, 0, force)
     /\ WriteMetadata(
          With(ShiftDown(parts, p.first + 1, p.num), n, [p EXCEPT !.num = 0]),
          Drain(extents, p.first, p.num),
          groups)

\* A smaller size keeps the extents up to the one, number j of the window,
\* in which the size is reached; `keep` sectors of that one are kept.
Shrink(n, j, keep, force) ==
  LET p == parts[n]
      last == p.first + j
      sectors == PartitionSectors(extents, [p EXCEPT !.num = j - 1]) + keep
  IN /\ j \in 1 .. p.num
     /\ keep \in 1 .. extents[last].num
     /\ sectors < PartitionSectors(extents, p)
     /\ ChargeResize(n, sectors, force)
     /\ WriteMetadata(
          With(ShiftDown(parts, p.first + p.num, p.num - j), n, [p EXCEPT !.num = j]),
          Drain([extents EXCEPT ![last] = [@ EXCEPT !.num = keep]], last, p.num - j),
          groups)

----------------------------------------------------------------------------
\* remove: the window is drained and the windows behind it move down.
RemovePartition(n) ==
  LET p == parts[n]
  IN /\ WriteMetadata(ShiftDown(Without(parts, {n}), p.first + 1, p.num),
                      Drain(extents, p.first, p.num),
                      groups)
     /\ UNCHANGED forced

Members(i) == {n \in DOMAIN parts : parts[n].group = i}

\* Mutant of Renumber: no renumbering at all.
RenumberForgotten(prts, i) == prts

\* Group i leaves the group table: the positions after it move down.
DropGroupEntry(i) == SubSeq(groups, 1, i) \o SubSeq(groups, i + 2, Len(groups))
Renumber(prts, i) ==
  [m \in DOMAIN prts |->
     IF prts[m].group > i THEN [prts[m] EXCEPT !.group = @ - 1] ELSE prts[m]]

\* remove --group: refused while it has members, unless --force takes them
\* along.  Here too --force is passed only where it is needed.
RemoveGroup(i, force) ==
  /\ (Members(i) = {}) # force
  /\ WriteMetadata(Renumber(CompactParts(Members(i)), i),
                   CompactExtents(Members(i)),
                   DropGroupEntry(i))
  /\ UNCHANGED forced

\* rename and rename --group: the new name must be unused.
Rename(n, m) ==
  /\ m \notin DOMAIN parts
  /\ WriteMetadata(With(Without(parts, {n}), m, parts[n]), extents, groups)
  /\ UNCHANGED forced

RenameGroup(i, g) ==
  /\ ~HasGroup(groups, g)
  /\ WriteMetadata(parts, extents, [groups EXCEPT ![i + 1] = [@ EXCEPT !.name = g]])
  /\ UNCHANGED forced

\* clear-cow on this slot: the "-cow" members of the group called "cow".
CowPartitions ==
  {n \in DOMAIN parts : n \in CowNames /\ GroupAt(parts[n].group).name = CowGroup}

ClearCow ==
  /\ CowPartitions # {}
  /\ WriteMetadata(CompactParts(CowPartitions), CompactExtents(CowPartitions), groups)
  /\ UNCHANGED forced

----------------------------------------------------------------------------
Requests == 1 .. MaxRequest

\* --group-size, or none.  It says nothing when the group exists.
GroupSizeOpts(g) == IF HasGroup(groups, g) THEN {{}} ELSE {{s} : s \in GroupSizes}

NewPartition ==
  \E n \in Names, needed \in Requests, force \in BOOLEAN :
    \/ \E i \in GroupIndices, bound \in SUBSET (DeviceIndices(Devs) \ {0}) :
         Add(n, i, needed, bound, force)
    \/ \E g \in NewGroups : \E sizes \in GroupSizeOpts(g) : Create(n, g, sizes, needed, force)

Resize ==
  \E n \in DOMAIN parts, force \in BOOLEAN :
    \/ \E extra \in Requests :
         GrowFresh(n, extra, force) \/ GrowInPlace(n, extra, force) \/ GrowSplice(n, extra, force)
    \/ ShrinkToZero(n, force)
    \/ \E j \in 1 .. parts[n].num : \E keep \in 1 .. extents[parts[n].first + j].num :
         Shrink(n, j, keep, force)

Next ==
  \/ NewPartition
  \/ \E n \in Names, g \in NewGroups : \E sizes \in GroupSizeOpts(g) : CreateEmpty(n, g, sizes)
  \/ Resize
  \/ \E n \in DOMAIN parts : RemovePartition(n)
  \/ \E i \in GroupIndices, force \in BOOLEAN : RemoveGroup(i, force)
  \/ \E n \in DOMAIN parts, m \in Names : Rename(n, m)
  \/ \E i \in GroupIndices, g \in NewGroups : RenameGroup(i, g)
  \/ ClearCow

Spec == Init /\ [][Next]_vars
----------------------------------------------------------------------------
TypeOK ==
  /\ TableTyped(parts, extents, groups)
  /\ forced \in BOOLEAN

\* Every window lies inside the extent table, and of any two windows one ends
\* before the other starts; an empty window counts as a point, so it never
\* lies strictly inside another.  This is what the index arithmetic of
\* resize, remove, the group cascade and clear-cow has to keep: a window that
\* is shifted wrongly hands one partition's blocks to another.
WindowsApart == TableWindowsApart(parts, extents)

\* Every extent belongs to some partition: no command leaves an extent
\* behind, whose space no later command could give back.
NoOrphanExtent == TableOwned(parts, extents)

\* No two linear extents share a sector of a device, and none leaves the
\* device or reaches into its reserved area, whichever commands grew,
\* truncated or placed them ("never overwriting the neighbour's blocks").
ExtentsApart == TableExtentsApart(extents)

\* As long as nobody has used --force, no group is over its maximum, through
\* any sequence of creations, resizes, cascades, and renames and renumberings
\* of the groups themselves.
LimitsRespected ==
  ~forced => \A i \in GroupIndices :
    GroupAt(i).max > 0 => Charged(DOMAIN parts, i) <= GroupAt(i).max

\* The drain-one-window-at-a-time loop of the group cascade and of clear-cow
\* ("descending order keeps indices valid") computes the compacted
\* table, whichever partitions are doomed.
CascadeLoopCompacts ==
  \A S \in SUBSET DOMAIN parts :
    CascadeLoop(S) = [parts |-> CompactParts(S), extents |-> CompactExtents(S)]

----------------------------------------------------------------------------
\* The table as a pool of volumes: a partition is the sequence of sectors its
\* window spells out.
SectorsOf(e) == [k \in 1 .. e.num |-> IF e.type = Linear THEN <<e.source, e.data + k - 1>> ELSE <<>>]
VolumeOf(p) ==
  SeqX!FlattenSeq([k \in 1 .. p.num |-> SectorsOf(extents[p.first + k])])
DeviceSectors ==
  UNION {{<<d, s>> : s \in Device(Devs, d).first .. Limit(Device(Devs, d)) - 1} : d \in DeviceIndices(Devs)}

Volumes == [n \in DOMAIN parts |-> VolumeOf(parts[n])]
GroupNamesOf == [n \in DOMAIN parts |-> GroupAt(parts[n].group).name]
GroupLimits ==
  [g \in {groups[i].name : i \in DOMAIN groups} |->
     (CHOOSE grp \in {groups[i] : i \in DOMAIN groups} : grp.name = g).max]

Pool == INSTANCE VolumePool WITH
  Sectors <- DeviceSectors,
  Hole <- <<>>,
  volume <- Volumes,
  member <- GroupNamesOf,
  limit <- GroupLimits

\* The commands implement the pool: each one changes only the volume it
\* names, grows it by sectors nobody owns, keeps what it keeps in place, and
\* leaves every other partition on its sectors and in its group.
ImplementsPool == Pool!Spec
=============================================================================
