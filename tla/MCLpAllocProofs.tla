-------------------------- MODULE MCLpAllocProofs --------------------------
(***************************************************************************)
(* The properties of MCLpAlloc, for all its device tables and bounds.  The *)
(* theorems of LpAllocProofs speak of stretches that no extent meets; here *)
(* these are counted sector by sector.                                     *)
(***************************************************************************)
EXTENDS MCLpAlloc, LpAllocProofs

\* The state machine of MCLpAlloc lays any extents.
Laid ==
  /\ devs \in DeviceTables
  /\ extents \in Seq(ExtRec)
  /\ \A i \in DOMAIN extents : extents[i].num > 0

LEMMA InitLaid == Init => Laid
BY DEF Init, Laid

LEMMA NextLaid == Laid /\ [Next]_vars => Laid'
<1> SUFFICES ASSUME Laid, [Next]_vars PROVE Laid'
  OBVIOUS
<1>1. CASE UNCHANGED vars
  BY <1>1 DEF vars, Laid
<1>2. CASE Next
  <2>1. devs \in Seq(DevRec)
    BY TablesAssumption DEF Laid, DevRec
  <2>2. PICK e \in [num : 1 .. MaxLen, type : {Linear}, data : 0 .. MaxSector,
                    source : DeviceIndices(devs)]
                   \cup [num : {1}, type : {Zero}, data : {0}, source : {0}] :
          extents' = Append(extents, e) /\ UNCHANGED devs
    BY <1>2 DEF Next, Lay
  <2>3. e \in ExtRec /\ e.num > 0
    <3>1. DeviceIndices(devs) \subseteq Nat
      BY <2>1 DEF DeviceIndices
    <3>2. 1 .. MaxLen \subseteq Nat /\ 0 .. MaxSector \subseteq Nat /\ \A k \in 1 .. MaxLen : k > 0
      BY BoundsAssumption
    <3> QED
      BY <2>2, <3>1, <3>2 DEF ExtRec
  <2>4. extents \in Seq(ExtRec) /\ \A i \in DOMAIN extents : extents[i].num > 0
    BY DEF Laid
  <2>5. /\ extents' \in Seq(ExtRec)
        /\ \A i \in DOMAIN extents' : (i \in DOMAIN extents /\ extents'[i] = extents[i])
                                      \/ extents'[i] = e
    BY <2>2, <2>3, <2>4
  <2> QED
    BY <2>2, <2>3, <2>4, <2>5 DEF Laid
<1> QED
  BY <1>1, <1>2

LEMMA SpecLaid == Spec => []Laid
BY InitLaid, NextLaid, PTL DEF Spec

LEMMA LaidFacts ==
  ASSUME Laid, NEW d \in DeviceIndices(devs)
  PROVE  /\ devs \in Seq(DevRec) /\ extents \in Seq(ExtRec)
         /\ Device(devs, d) \in DevRec
         /\ Limit(Device(devs, d)) \in Nat \ {0}
<1>1. devs \in Seq(DevRec) /\ \A i \in DOMAIN devs : Limit(devs[i]) > 0
  BY TablesAssumption DEF Laid, DevRec
<1>2. d + 1 \in 1 .. Len(devs)
  BY <1>1 DEF DeviceIndices
<1>3. devs[d + 1] \in DevRec /\ Limit(devs[d + 1]) > 0
  BY <1>1, <1>2
<1>4. Limit(devs[d + 1]) \in Nat
  BY <1>3 DEF DevRec, Limit, SECTOR
<1> QED
  BY <1>1, <1>3, <1>4 DEF Device, Laid

\* For all device tables and bounds, in each state: the scan of the code and the
\* closed form agree.
THEOREM SpecScanFindsFirstFit == Spec => []ScanFindsFirstFit
<1>1. ASSUME Laid PROVE ScanFindsFirstFit
  <2> SUFFICES ASSUME NEW d \in DeviceIndices(devs), NEW n \in Lengths
               PROVE  LET s == FindFree(extents, devs, d, n)
                      IN IF s = NoFit THEN FreeStarts(extents, devs, d, n) = {}
                         ELSE FirstFit(extents, devs, d, n, s)
    BY DEF ScanFindsFirstFit
  <2>1. devs \in Seq(DevRec) /\ extents \in Seq(ExtRec) /\ n \in Nat \ {0}
    BY <1>1, LaidFacts, BoundsAssumption DEF Lengths
  <2> QED
    BY <2>1, ScanIsFirstFit
<1> QED
  BY <1>1, SpecLaid, PTL

\* Where extents have sectors, a stretch is free if none of its sectors is used.
LEMMA PlaceIs ==
  ASSUME Laid, NEW d \in DeviceIndices(devs), NEW n \in Nat \ {0}, NEW s
  PROVE  s \in Places(d, n) <=>
           Legal(Device(devs, d), s) /\ IsRangeFree(extents, devs, d, s, n)
<1> DEFINE lim == Limit(Device(devs, d))
<1>1. lim \in Nat \ {0} /\ extents \in Seq(ExtRec) /\ Device(devs, d).first \in Nat
  BY LaidFacts DEF DevRec
<1>2. \A i \in DOMAIN extents :
        /\ extents[i].data \in Nat /\ extents[i].num \in Nat \ {0}
        /\ End(extents[i]) = extents[i].data + extents[i].num
  <2> SUFFICES ASSUME NEW i \in DOMAIN extents
               PROVE  /\ extents[i].data \in Nat /\ extents[i].num \in Nat \ {0}
                      /\ End(extents[i]) = extents[i].data + extents[i].num
    OBVIOUS
  <2>1. extents[i] \in ExtRec /\ extents[i].num > 0
    BY <1>1 DEF Laid
  <2> QED
    BY <2>1 DEF ExtRec, End
<1>3. s \in Places(d, n) <=> s \in 0 .. lim - 1 /\ OnPhase(d, s) /\ Usable(d, s, n)
  BY DEF Places, Sectors
<1>4. s \in Nat => (OnPhase(d, s) <=> Legal(Device(devs, d), s))
  BY DEF OnPhase, Legal
<1>5. ASSUME s \in Nat, Usable(d, s, n) PROVE IsRangeFree(extents, devs, d, s, n)
  <2>1. \A t \in s .. s + n - 1 : t \in 0 .. lim - 1 /\ ~InUse(d, t)
    BY <1>5 DEF Usable, Sectors
  <2>2. s + n <= lim
    <3>1. s + n - 1 \in s .. s + n - 1
      BY <1>5
    <3>2. s + n - 1 \in 0 .. lim - 1
      BY <2>1, <3>1
    <3> HIDE DEF lim
    <3> QED
      BY <1>1, <1>5, <3>2
  <2>3. ASSUME NEW i \in DOMAIN extents, OnDevice(extents[i], d), Meets(extents[i], s, n)
        PROVE  FALSE
    <3> DEFINE a == extents[i].data
               b == End(extents[i])
               t == IF s >= a THEN s ELSE a
    <3>1. a \in Nat /\ b \in Nat /\ a < b /\ s < b /\ a < s + n
      BY <1>2, <2>3 DEF Meets
    <3> HIDE DEF a, b
    <3>2. t \in s .. s + n - 1 /\ t \in a .. b - 1
      BY <1>5, <3>1
    <3>3. InUse(d, t)
      BY <2>3, <3>2 DEF InUse, a, b
    <3> QED
      BY <2>1, <3>2, <3>3
  <2> QED
    BY <2>2, <2>3 DEF IsRangeFree
<1>6. ASSUME s \in Nat, IsRangeFree(extents, devs, d, s, n)
      PROVE  s \in 0 .. lim - 1 /\ Usable(d, s, n)
  <2>1. s + n <= lim /\ \A i \in DOMAIN extents : OnDevice(extents[i], d) => ~Meets(extents[i], s, n)
    BY <1>1, <1>6 DEF IsRangeFree
  <2> HIDE DEF lim
  <2>2. ASSUME NEW t \in s .. s + n - 1 PROVE t \in 0 .. lim - 1 /\ ~InUse(d, t)
    <3>1. t \in Nat /\ t \in 0 .. lim - 1
      BY <1>1, <1>6, <2>1
    <3>2. ASSUME NEW i \in DOMAIN extents, OnDevice(extents[i], d),
                 t \in extents[i].data .. End(extents[i]) - 1
          PROVE  FALSE
      <4>1. ~Meets(extents[i], s, n)
        BY <2>1, <3>2
      <4>2. extents[i].data \in Nat /\ End(extents[i]) \in Nat
        BY <1>2, <3>2
      <4> QED
        BY <1>6, <3>1, <3>2, <4>1, <4>2 DEF Meets
    <3> QED
      BY <3>1, <3>2 DEF InUse
  <2> QED
    BY <1>1, <1>6, <2>1, <2>2 DEF Usable, Sectors, lim
<1> QED
  BY <1>3, <1>4, <1>5, <1>6 DEF Legal

\* For all device tables and bounds, in each state: find_free_sectors answers the
\* first legal place, sector by sector, and fails only when there is none.
THEOREM SpecFindFreeIsFirstPlace == Spec => []FindFreeIsFirstPlace
<1>1. ASSUME Laid PROVE FindFreeIsFirstPlace
  <2> SUFFICES ASSUME NEW d \in DeviceIndices(devs), NEW n \in Lengths
               PROVE  LET s == FindFree(extents, devs, d, n)
                      IN IF Places(d, n) = {} THEN s = NoFit
                         ELSE s \in Places(d, n) /\ \A t \in Places(d, n) : s <= t
    BY DEF FindFreeIsFirstPlace
  <2> DEFINE dev == Device(devs, d)
             s == FindFree(extents, devs, d, n)
  <2>1. devs \in Seq(DevRec) /\ extents \in Seq(ExtRec) /\ n \in Nat \ {0}
    BY <1>1, LaidFacts, BoundsAssumption DEF Lengths
  <2>2. /\ s = NoFit => \A t : ~(Legal(dev, t) /\ IsRangeFree(extents, devs, d, t, n))
        /\ s # NoFit => /\ Legal(dev, s) /\ IsRangeFree(extents, devs, d, s, n)
                        /\ \A t : Legal(dev, t) /\ IsRangeFree(extents, devs, d, t, n) => s <= t
    BY <2>1, FindFreeFacts
  <2>3. \A t : t \in Places(d, n) <=> Legal(dev, t) /\ IsRangeFree(extents, devs, d, t, n)
    BY <1>1, <2>1, PlaceIs
  <2> HIDE DEF s, dev
  <2>4. IF Places(d, n) = {} THEN s = NoFit
        ELSE s \in Places(d, n) /\ \A t \in Places(d, n) : s <= t
    BY <2>2, <2>3
  <2> QED
    BY <2>4 DEF s
<1> QED
  BY <1>1, SpecLaid, PTL

\* For all device tables and bounds, in each state: largest_free_run is exactly
\* the largest request that find_free_sectors grants.
THEOREM SpecLargestRunIsGranted == Spec => []LargestRunIsGranted
<1>1. ASSUME Laid PROVE LargestRunIsGranted
  <2> SUFFICES ASSUME NEW d \in DeviceIndices(devs), NEW n \in Lengths
               PROVE  (n <= LargestFreeRun(extents, devs, d)) <=> (FindFree(extents, devs, d, n) # NoFit)
    BY DEF LargestRunIsGranted
  <2>1. devs \in Seq(DevRec) /\ extents \in Seq(ExtRec) /\ n \in Nat \ {0}
    BY <1>1, LaidFacts, BoundsAssumption DEF Lengths
  <2>2. Limit(Device(devs, d)) > 0
    BY <1>1, LaidFacts
  <2> QED
    BY <2>1, <2>2, LargestIsGranted
<1> QED
  BY <1>1, SpecLaid, PTL

\* For all device tables and bounds, in each state: a spanning plan makes the
\* request from legal places that do not overlap, and it exists exactly when the
\* devices together have that many reachable sectors.
THEOREM SpecPlanPacksAllSpace == Spec => []PlanPacksAllSpace
<1>1. ASSUME Laid PROVE PlanPacksAllSpace
  <2>1. WholeTable(devs) /\ extents \in Seq(ExtRec)
    BY <1>1, TablesAssumption DEF Laid, WholeTable, DevRec
  <2> DEFINE cells == UNION {{<<d, t>> : t \in Reachable(d)} : d \in DeviceIndices(devs)}
  <2>2. ASSUME NEW d \in DeviceIndices(devs) PROVE Reachable(d) = ReachIn(extents, devs, d)
    <3>1. Limit(Device(devs, d)) \in Nat \ {0}
      BY <2>1, <2>2, DeviceFacts
    <3>2. ASSUME NEW t \in Nat, NEW s \in 0 .. t
          PROVE  s \in Places(d, t - s + 1) <=>
                   Legal(Device(devs, d), s) /\ IsRangeFree(extents, devs, d, s, t - s + 1)
      <4>1. t - s + 1 \in Nat \ {0}
        OBVIOUS
      <4> QED
        BY <1>1, <4>1, PlaceIs
    <3>3. ASSUME NEW t \in ReachIn(extents, devs, d) PROVE t \in Sectors(d)
      <4>1. t \in Nat
        BY DEF ReachIn
      <4>2. PICK s \in 0 .. t : IsRangeFree(extents, devs, d, s, t - s + 1)
        BY DEF ReachIn
      <4>3. s + (t - s + 1) <= Limit(Device(devs, d))
        BY <3>1, <4>2 DEF IsRangeFree
      <4> QED
        BY <3>1, <4>1, <4>3 DEF Sectors
    <3>4. Sectors(d) \subseteq Nat
      BY <3>1 DEF Sectors
    <3> QED
      BY <3>2, <3>3, <3>4 DEF Reachable, ReachIn
  <2>3. cells = Cells(extents, devs)
    BY <2>2 DEF Cells
  <2>4. ASSUME NEW n \in Lengths
        PROVE  \/ n > Cardinality(cells) /\ PlanSpanning(extents, devs, n) = NoPlan
               \/ n <= Cardinality(cells) /\ Fulfils(PlanSpanning(extents, devs, n), n)
    <3> DEFINE plan == PlanSpanning(extents, devs, n)
               total == Cardinality(Cells(extents, devs))
    <3>1. n \in Nat \ {0}
      BY BoundsAssumption DEF Lengths
    <3>2. IF n <= total THEN Complete(extents, devs, plan, n) ELSE plan = NoPlan
      BY <2>1, <3>1, PlanIsComplete
    <3> HIDE DEF plan
    <3>3. ASSUME Complete(extents, devs, plan, n) PROVE Fulfils(plan, n)
      <4>1. ASSUME NEW i \in DOMAIN plan
            PROVE  plan[i].at \in Places(plan[i].source, plan[i].num)
        <5> DEFINE r == plan[i]
        <5>1. r \in RunRec /\ Placed(extents, devs, r)
          BY <3>3 DEF Complete
        <5> HIDE DEF r
        <5>2. r.num \in Nat \ {0} /\ r.source \in DeviceIndices(devs)
          BY <5>1 DEF RunRec, Placed
        <5>3. r.at \in Places(r.source, r.num)
          BY <1>1, <5>1, <5>2, PlaceIs DEF Placed
        <5> QED
          BY <5>3 DEF r
      <4> QED
        BY <3>3, <4>1 DEF Complete, Fulfils, PlanCells
    <3>4. total \in Nat
      BY <2>1, CellsFinite
    <3> HIDE DEF total, cells
    <3>5. \/ n > total /\ plan = NoPlan
          \/ n <= total /\ Fulfils(plan, n)
      BY <3>1, <3>2, <3>3, <3>4
    <3> QED
      BY <2>3, <3>5 DEF plan, total
  <2> QED
    BY <2>4 DEF PlanPacksAllSpace
<1> QED
  BY <1>1, SpecLaid, PTL
=============================================================================
