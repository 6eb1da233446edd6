----------------------------- MODULE MCLpAlloc -----------------------------
(***************************************************************************)
(* The allocator against reference definitions.  A behaviour lays linear   *)
(* and zero extents on the devices one by one, in any order and with gaps  *)
(* of every kind; in each state the functions of LpAlloc are compared with *)
(* definitions that look at single sectors and never scan.                 *)
(***************************************************************************)
EXTENDS LpAlloc

CONSTANTS
  DeviceTables, \* block-device tables to try
  MaxExtents,   \* bound: extents laid
  MaxSector,    \* bound: an extent starts at 0..MaxSector
  MaxLen        \* bound: sectors of an extent

\* `make` refuses a device that does not hold the metadata and a sector.
ASSUME TablesAssumption ==
  /\ DeviceTables \subseteq Seq([first : Nat, size : Nat, alignment : Nat, offset : Nat])
  /\ \A table \in DeviceTables : \A i \in DOMAIN table : Limit(table[i]) > 0
ASSUME BoundsAssumption == MaxExtents \in Nat /\ MaxSector \in Nat /\ MaxLen \in Nat

VARIABLES devs, extents

vars == <<devs, extents>>

\* Two devices of different geometry, the second with a phase; the same with
\* a first device whose alignment is no whole number of sectors; a tight
\* single device with no alignment; a device that an extent may run past,
\* which the parser lets through; a phase that is no whole number of sectors.
Tables ==
  LET Dev(f, s, a, o) == [first |-> f, size |-> s * SECTOR, alignment |-> a, offset |-> o]
  IN { <<Dev(1, 6, 2 * SECTOR, 0), Dev(0, 5, 2 * SECTOR, SECTOR)>>,
       <<Dev(0, 7, 768, 0), Dev(1, 4, 3 * SECTOR, 2 * SECTOR)>>,
       <<Dev(2, 7, 0, 0)>>,
       <<Dev(0, 3, 0, 0)>>,
       <<Dev(0, 5, 2 * SECTOR, 100)>> }

Init == devs \in DeviceTables /\ extents = <<>>

Lay ==
  /\ Len(extents) < MaxExtents
  /\ \E e \in [num : 1 .. MaxLen, type : {Linear}, data : 0 .. MaxSector,
               source : DeviceIndices(devs)]
              \cup [num : {1}, type : {Zero}, data : {0}, source : {0}] :
       extents' = Append(extents, e)
  /\ UNCHANGED devs

Next == Lay

Spec == Init /\ [][Next]_vars

----------------------------------------------------------------------------
\* Reference definitions, sector by sector.

Lengths == 1 .. (MaxSector + MaxLen)
InUse(d, s) ==
  \E i \in DOMAIN extents : OnDevice(extents[i], d) /\ s \in extents[i].data .. End(extents[i]) - 1
Sectors(d) == 0 .. Limit(Device(devs, d)) - 1
Usable(d, s, len) == \A t \in s .. s + len - 1 : t \in Sectors(d) /\ ~InUse(d, t)

\* A sector an allocation may start at: past the reserved area and in phase.
OnPhase(d, s) == s >= Device(devs, d).first /\ InPhase(Device(devs, d), s)

Places(d, len) == {s \in Sectors(d) : OnPhase(d, s) /\ Usable(d, s, len)}

\* Sectors that an allocation can reach at all: free, and in one free
\* stretch with a legal start at or before them.
Reachable(d) == {t \in Sectors(d) : \E s \in 0 .. t : s \in Places(d, t - s + 1)}

----------------------------------------------------------------------------
\* find_free_sectors answers the first legal place on the device, and fails
\* only when there is none: a scan that skips a gap, ignores the phase or
\* runs past the device would differ somewhere.
FindFreeIsFirstPlace ==
  \A d \in DeviceIndices(devs), n \in Lengths :
    LET s == FindFree(extents, devs, d, n)
    IN IF Places(d, n) = {} THEN s = NoFit
       ELSE s \in Places(d, n) /\ \A t \in Places(d, n) : s <= t

\* The scan of the code and the closed form FirstFit that the state machines
\* use find the same sector, or both find none.
ScanFindsFirstFit ==
  \A d \in DeviceIndices(devs), n \in Lengths :
    LET s == FindFree(extents, devs, d, n)
    IN IF s = NoFit THEN FreeStarts(extents, devs, d, n) = {}
       ELSE FirstFit(extents, devs, d, n, s)

\* largest_free_run is exactly the largest request find_free_sectors grants:
\* plan_spanning_allocation asks for what largest_free_run promised and
\* gives up if it does not get it.
LargestRunIsGranted ==
  \A d \in DeviceIndices(devs), n \in Lengths :
    (n <= LargestFreeRun(extents, devs, d)) <=> (FindFree(extents, devs, d, n) # NoFit)

Fulfils(plan, n) ==
  /\ plan # NoPlan
  /\ \A i \in DOMAIN plan : plan[i].at \in Places(plan[i].source, plan[i].num)
  /\ Cardinality(UNION {Blocks(plan[i]) : i \in DOMAIN plan}) = n
  /\ \A i, j \in DOMAIN plan : i # j => Blocks(plan[i]) \cap Blocks(plan[j]) = {}

\* A spanning plan adds up to the request, its runs are legal places that do
\* not overlap each other or an extent, and it exists whenever the devices
\* together have that many reachable sectors.
PlanPacksAllSpace ==
  LET total == Cardinality(UNION {{<<d, t>> : t \in Reachable(d)} : d \in DeviceIndices(devs)})
  IN \A n \in Lengths :
       \/ n > total /\ PlanSpanning(extents, devs, n) = NoPlan
       \/ n <= total /\ Fulfils(PlanSpanning(extents, devs, n), n)
=============================================================================
