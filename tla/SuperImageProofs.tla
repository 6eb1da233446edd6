-------------------------- MODULE SuperImageProofs --------------------------
(***************************************************************************)
(* The metadata area, SlotStore, keeps its promises for every number of    *)
(* slots, size of copies and number of commands and edits.  The whole      *)
(* image does to its copies what SlotStore says, so all that is proved of  *)
(* SlotStore holds of it; its reading and editing commands agree on what a *)
(* request means; and its sectors hold what their partitions were given.   *)
(*                                                                         *)
(* For the last, a table is whole if each of its cells is held.  Primary   *)
(* copies are whole for ever; a backup copy is while a load may need it;   *)
(* and a command at work has a payload that meets neither, and a table     *)
(* that will be whole when the payload is written (ImageInvariant).  The   *)
(* editing commands are one lemma (BeginKept) about what an edit is, and   *)
(* one each to show that it is one; the writes of a copy are one lemma     *)
(* (CopyWriteKept) about the other slots, and one each about their own.    *)
(***************************************************************************)
EXTENDS SuperImage, FiniteSetTheorems, SequenceTheorems, TLAPS

USE DEF Idle, Ready, Primary, Between, Backup, Refused, Writing, Torn

----------------------------------------------------------------------------
\* The layout.

\* Two positions in units of m that differ, differ by at least m.
LEMMA UnitsApart ==
  ASSUME NEW a \in Nat, NEW b \in Nat, NEW m \in Nat \ {0}, a < b
  PROVE  a * m + m <= b * m
<1>1. PICK c \in Nat : b = a + 1 + c
  <2>1. b - a - 1 \in Nat /\ b = a + 1 + (b - a - 1)
    OBVIOUS
  <2> QED
    BY <2>1
<1>2. c * m \in Nat
  OBVIOUS
<1>3. b * m = a * m + m + c * m
  BY <1>1
<1> QED
  BY <1>2, <1>3

LEMMA UnitsDistinct ==
  ASSUME NEW a \in Nat, NEW b \in Nat, NEW m \in Nat \ {0}, a * m = b * m
  PROVE  a = b
<1>1. CASE a < b
  BY <1>1, UnitsApart
<1>2. CASE b < a
  BY <1>2, UnitsApart
<1> QED
  BY <1>1, <1>2

\* No two copies, of any two slots, start at the same place.
LEMMA CopiesApart ==
  ASSUME NEW s \in Slots, NEW t \in Slots
  PROVE  /\ PrimaryOffset(s) \in CopyOffsets /\ BackupOffset(s) \in CopyOffsets
         /\ PrimaryOffset(s) # BackupOffset(t)
         /\ PrimaryOffset(s) = PrimaryOffset(t) => s = t
         /\ BackupOffset(s) = BackupOffset(t) => s = t
<1> USE GeometryAssumption DEF Slots
<1>1. s \in Nat /\ t \in Nat /\ SlotCount + s \in Nat /\ SlotCount + t \in Nat /\ s # SlotCount + t
  OBVIOUS
<1>2. s * MaxSize \in Nat /\ t * MaxSize \in Nat /\ (SlotCount + s) * MaxSize \in Nat
      /\ (SlotCount + t) * MaxSize \in Nat
  BY <1>1
<1>3. PrimaryOffset(s) # BackupOffset(t)
  BY <1>1, <1>2, UnitsDistinct DEF PrimaryOffset, BackupOffset
<1>4. PrimaryOffset(s) = PrimaryOffset(t) => s = t
  BY <1>1, <1>2, UnitsDistinct DEF PrimaryOffset
<1>5. BackupOffset(s) = BackupOffset(t) => s = t
  <2>1. BackupOffset(s) = BackupOffset(t) => SlotCount + s = SlotCount + t
    BY <1>1, <1>2, UnitsDistinct DEF BackupOffset
  <2> QED
    BY <1>1, <2>1
<1> QED
  BY <1>3, <1>4, <1>5 DEF CopyOffsets

\* What the code computes from the offset of a copy, for either copy.
LEMMA OffsetResolves ==
  ASSUME NEW k \in Nat, NEW o, o = MetadataBase + k * MaxSize
  PROVE  ResolveSlot(o) = {k}
<1> USE GeometryAssumption
<1>1. k * MaxSize \in Nat /\ k <= k * MaxSize
  <2>1. CASE k = 0
    BY <2>1
  <2>2. CASE k > 0
    <3>1. (MaxSize - 1) * k \in Nat /\ k * MaxSize = (MaxSize - 1) * k + k
      OBVIOUS
    <3> QED
      BY <3>1
  <2> QED
    BY <2>1, <2>2
<1>2. o \in Nat /\ o - MetadataBase = k * MaxSize /\ k \in 0 .. o
  BY <1>1
<1>3. ASSUME NEW q \in 0 .. o, o - MetadataBase = q * MaxSize
      PROVE  q = k
  BY <1>2, <1>3, UnitsDistinct
<1>4. SlotFromPrimaryOffset(o) = {k}
  BY <1>2, <1>3 DEF SlotFromPrimaryOffset
<1> QED
  BY <1>4 DEF ResolveSlot

\* A primary copy resolves to its slot; a backup copy to no slot at all.
LEMMA SlotResolves ==
  ASSUME NEW s \in Slots
  PROVE  /\ ResolveSlot(PrimaryOffset(s)) = {s}
         /\ ResolveSlot(BackupOffset(s)) \cap Slots = {}
<1> USE GeometryAssumption DEF Slots
<1>1. ResolveSlot(PrimaryOffset(s)) = {s}
  BY OffsetResolves DEF PrimaryOffset
<1>2. ResolveSlot(BackupOffset(s)) = {SlotCount + s}
  BY OffsetResolves DEF BackupOffset
<1> QED
  BY <1>1, <1>2

----------------------------------------------------------------------------
\* What a load finds.
LEMMA FoundCopies ==
  ASSUME TypeOK, NEW s \in Slots, NEW o \in FindMetadataForSlot(s)
  PROVE  /\ o \in {PrimaryOffset(s), BackupOffset(s)}
         /\ o \in CopyOffsets
         /\ area[o] \in Versions
<1>1. o \in {PrimaryOffset(s), BackupOffset(s)} /\ area[o] # Torn
  BY DEF FindMetadataForSlot
<1>2. o \in CopyOffsets
  BY <1>1, CopiesApart
<1> QED
  BY <1>1, <1>2 DEF TypeOK

LEMMA LoadableEntries ==
  ASSUME TypeOK, NEW e \in Loadable
  PROVE  /\ e \in Entry
         /\ e.offset \in FindMetadataForSlot(e.slot)
         /\ e.version = area[e.offset]
<1>1. PICK s \in Slots : \E o \in FindMetadataForSlot(s) :
        e = [slot |-> s, offset |-> o, version |-> area[o]]
  BY DEF Loadable
<1>2. PICK o \in FindMetadataForSlot(s) : e = [slot |-> s, offset |-> o, version |-> area[o]]
  BY <1>1
<1> QED
  BY <1>2, FoundCopies DEF Entry

\* The entry a command is at, once its write has been accepted.
LEMMA CurrentEntry ==
  ASSUME CopiesInvariant, NEW p \in Procs,
         pc[p] \in Writing \/ (pc[p] = Ready /\ Accepted(p))
  PROVE  /\ 1 \in DOMAIN todo[p]
         /\ Current(p) = todo[p][1]
         /\ Current(p) \in Entry
         /\ Current(p).version + 1 \in Versions
         /\ Current(p).offset = PrimaryOffset(Current(p).slot)
         /\ Target(p) = Current(p).slot
<1>1. todo[p] # <<>> /\ todo[p] \in Seq(Entry)
  BY DEF CopiesInvariant, TypeOK
<1>2. 1 \in DOMAIN todo[p] /\ Current(p) = todo[p][1] /\ Current(p) \in Entry
  BY <1>1 DEF Current
<1>3. Current(p).version + 1 \in Versions
  BY <1>2, VersionAssumption DEF CopiesInvariant, LoadedStillThere, Versions, Entry
<1>4. Current(p).slot \in Slots
  BY <1>2 DEF Entry
<1>5. Current(p).offset = PrimaryOffset(Current(p).slot)
  <2>1. CASE pc[p] \in Writing
    BY <2>1 DEF CopiesInvariant, WritesOrdered, WriteShape
  <2>2. CASE pc[p] = Ready /\ Accepted(p)
    <3>1. Current(p).offset \in FindMetadataForSlot(Current(p).slot)
      BY <1>2, <2>2 DEF CopiesInvariant, LoadedStillThere, AsFound
    <3>2. Current(p).offset # BackupOffset(Current(p).slot)
      BY <1>4, <2>2, SlotResolves DEF Accepted
    <3> QED
      BY <1>4, <3>1, <3>2, FoundCopies DEF CopiesInvariant
  <2> QED
    BY <2>1, <2>2
<1>6. Target(p) = Current(p).slot
  BY <1>4, <1>5, SlotResolves DEF Target
<1> QED
  BY <1>2, <1>3, <1>5, <1>6

\* No other command is working on the slot of a command's entry.
LEMMA SlotIsMine ==
  ASSUME CopiesInvariant, NEW p \in Procs, NEW q \in Procs,
         1 \in DOMAIN todo[p], Current(p) = todo[p][1], NEW j \in DOMAIN todo[q],
         todo[q][j].slot = Current(p).slot
  PROVE  p = q /\ j = 1
  BY DEF CopiesInvariant, WorkDistinct

----------------------------------------------------------------------------
\* A step of command p that changes no copy but those of the slot s it is at
\* leaves every other slot and every other command's work as they were.
LEMMA StepOnSlot ==
  ASSUME CopiesInvariant,
         NEW p \in Procs, NEW s \in Slots,
         1 \in DOMAIN todo[p], Current(p) = todo[p][1], Current(p).slot = s,
         \A o \in CopyOffsets \ {PrimaryOffset(s), BackupOffset(s)} : area'[o] = area[o],
         \A q \in Procs \ {p} : pc'[q] = pc[q] /\ todo'[q] = todo[q],
         \A t \in Slots \ {s} : done'[t] = done[t] /\ hits'[t] = hits[t]
  PROVE  /\ \A e \in Entry : e.slot # s /\ AsFound(e) => AsFound(e)'
         /\ \A j \in DOMAIN todo[p] : j > 1 =>
              todo[p][j].slot # s /\ AsFound(todo[p][j])
         /\ \A q \in Procs \ {p} : \A j \in DOMAIN todo'[q] :
              /\ todo'[q][j].version < MaxVersion
              /\ j > 1 \/ pc'[q] = Ready => AsFound(todo[q][j])'
         /\ \A q \in Procs \ {p} : pc'[q] \in Writing => WriteShape(q)'
         /\ \A t \in Slots \ {s} : Quiet(t)' => QuietShape(t)'
         /\ \A t \in Slots \ {s} :
              area'[PrimaryOffset(t)] # Torn => area'[BackupOffset(t)] <= area'[PrimaryOffset(t)]
<1>1. ASSUME NEW t \in Slots \ {s}
      PROVE  /\ area'[PrimaryOffset(t)] = area[PrimaryOffset(t)]
             /\ area'[BackupOffset(t)] = area[BackupOffset(t)]
  BY CopiesApart
<1>2. ASSUME NEW e \in Entry, e.slot # s, AsFound(e)
      PROVE  AsFound(e)'
  <2>1. e.slot \in Slots \ {s}
    BY <1>2 DEF Entry
  <2>2. e.offset \in {PrimaryOffset(e.slot), BackupOffset(e.slot)}
    BY <1>2, <2>1, FoundCopies DEF AsFound, CopiesInvariant
  <2> QED
    BY <1>1, <1>2, <2>1, <2>2 DEF AsFound, FindMetadataForSlot
<1>3. ASSUME NEW q \in Procs, NEW j \in DOMAIN todo[q]
      PROVE  /\ todo[q][j] \in Entry
             /\ todo[q][j].version < MaxVersion
             /\ q # p \/ j > 1 => todo[q][j].slot # s
             /\ j > 1 \/ pc[q] = Ready => AsFound(todo[q][j])
  <2>1. todo[q] \in Seq(Entry) /\ todo[p] \in Seq(Entry)
    BY DEF CopiesInvariant, TypeOK
  <2>2. todo[q][j].version < MaxVersion /\ (j > 1 \/ pc[q] = Ready => AsFound(todo[q][j]))
    BY DEF CopiesInvariant, LoadedStillThere
  <2>3. todo[q][j].slot = s => p = q /\ j = 1
    BY SlotIsMine
  <2> QED
    BY <2>1, <2>2, <2>3
<1>4. ASSUME NEW q \in Procs \ {p}, pc'[q] \in Writing
      PROVE  WriteShape(q)'
  <2>1. pc[q] \in Writing /\ WriteShape(q) /\ todo[q] # <<>> /\ todo[q] \in Seq(Entry)
    BY <1>4 DEF CopiesInvariant, WritesOrdered, TypeOK
  <2>2. 1 \in DOMAIN todo[q] /\ Current(q) = todo[q][1] /\ Current(q)' = Current(q)
    BY <2>1 DEF Current
  <2>3. Current(q).slot \in Slots \ {s}
    BY <1>3, <2>2 DEF Entry
  <2> QED
    BY <1>1, <2>1, <2>2, <2>3 DEF WriteShape
<1>5. ASSUME NEW t \in Slots \ {s}, Quiet(t)'
      PROVE  QuietShape(t)'
  <2>1. ASSUME NEW q \in Procs, pc[q] \in Writing
        PROVE  Current(q).slot # t
    <3>1. CASE q = p
      BY <3>1
    <3>2. CASE q # p
      BY <1>5, <2>1, <3>2 DEF Quiet, Current
    <3> QED
      BY <3>1, <3>2
  <2>2. QuietShape(t)
    BY <2>1 DEF Quiet, CopiesInvariant, QuietSlotsWhole
  <2> QED
    BY <1>1, <2>2 DEF QuietShape
<1>6. ASSUME NEW t \in Slots \ {s}
      PROVE  area'[PrimaryOffset(t)] # Torn => area'[BackupOffset(t)] <= area'[PrimaryOffset(t)]
  BY <1>1 DEF CopiesInvariant, PrimaryNotOlder
<1>7. ASSUME NEW q \in Procs \ {p}, NEW j \in DOMAIN todo'[q]
      PROVE  /\ todo'[q][j].version < MaxVersion
             /\ j > 1 \/ pc'[q] = Ready => AsFound(todo[q][j])'
  <2>1. PICK e \in Entry : e = todo[q][j]
    BY <1>3
  <2>2. e = todo'[q][j] /\ j \in DOMAIN todo[q]
    BY <2>1
  <2>3. e.version < MaxVersion
    BY <1>3, <2>1, <2>2
  <2>4. ASSUME j > 1 \/ pc'[q] = Ready PROVE AsFound(e)'
    BY <1>2, <1>3, <2>1, <2>2, <2>4
  <2> QED
    BY <2>2, <2>3, <2>4 DEF AsFound
<1> QED
  BY <1>2, <1>3, <1>4, <1>5, <1>6, <1>7

----------------------------------------------------------------------------
\* A step within a write: it changes one copy of the slot, and the slot is in
\* the shape the write should have it in.
LEMMA StepOfWrite ==
  ASSUME CopiesInvariant, NEW p \in Procs,
         pc[p] \in Writing \/ (pc[p] = Ready /\ Accepted(p)),
         NEW o \in {PrimaryOffset(Target(p)), BackupOffset(Target(p))},
         NEW v \in Versions \cup {Torn}, NEW c \in Writing,
         area' = [area EXCEPT ![o] = v],
         pc' = [pc EXCEPT ![p] = c],
         UNCHANGED <<todo, done, hits>>,
         WriteShape(p)'
  PROVE  CopiesInvariant'
<1>1. PICK e \in Entry, s \in Slots :
        /\ 1 \in DOMAIN todo[p] /\ Current(p) = todo[p][1]
        /\ e = Current(p) /\ s = e.slot /\ Target(p) = s
  BY CurrentEntry DEF Entry
<1>2. o \in CopyOffsets /\ o \in {PrimaryOffset(s), BackupOffset(s)}
  BY <1>1, CopiesApart
<1>3. TypeOK /\ TypeOK'
  <2>1. TypeOK
    BY DEF CopiesInvariant
  <2>2. todo[p] # <<>>
    BY <2>1 DEF TypeOK
  <2> QED
    BY <1>2, <2>1, <2>2 DEF TypeOK
<1>4. Current(p)' = e
  BY <1>1 DEF Current
<1>5. /\ \A k \in CopyOffsets \ {PrimaryOffset(s), BackupOffset(s)} : area'[k] = area[k]
      /\ \A q \in Procs \ {p} : pc'[q] = pc[q] /\ todo'[q] = todo[q]
      /\ \A t \in Slots \ {s} : done'[t] = done[t] /\ hits'[t] = hits[t]
      /\ pc'[p] = c
  BY <1>2, <1>3 DEF TypeOK
<1>6. /\ \A f \in Entry : f.slot # s /\ AsFound(f) => AsFound(f)'
      /\ \A j \in DOMAIN todo[p] : j > 1 => todo[p][j].slot # s /\ AsFound(todo[p][j])
      /\ \A q \in Procs \ {p} : \A j \in DOMAIN todo'[q] :
              /\ todo'[q][j].version < MaxVersion
              /\ j > 1 \/ pc'[q] = Ready => AsFound(todo[q][j])'
      /\ \A q \in Procs \ {p} : pc'[q] \in Writing => WriteShape(q)'
      /\ \A t \in Slots \ {s} : Quiet(t)' => QuietShape(t)'
      /\ \A t \in Slots \ {s} :
              area'[PrimaryOffset(t)] # Torn => area'[BackupOffset(t)] <= area'[PrimaryOffset(t)]
  BY <1>1, <1>5, StepOnSlot
<1>7. LoadedStillThere'
  <2>1. ASSUME NEW j \in DOMAIN todo'[p]
        PROVE  /\ todo'[p][j].version < MaxVersion
               /\ j > 1 \/ pc'[p] = Ready => AsFound(todo[p][j])'
    <3>1. PICK f \in Entry : f = todo[p][j]
      BY <1>3 DEF TypeOK
    <3>2. f = todo'[p][j] /\ j \in DOMAIN todo[p]
      BY <3>1
    <3>3. f.version < MaxVersion
      BY <3>1, <3>2 DEF CopiesInvariant, LoadedStillThere
    <3>4. ASSUME j > 1 PROVE AsFound(f)'
      BY <1>6, <3>1, <3>2, <3>4
    <3> QED
      BY <1>5, <3>2, <3>3, <3>4 DEF AsFound
  <2> QED
    BY <1>6, <2>1 DEF LoadedStillThere
<1>8. WorkDistinct'
  BY DEF CopiesInvariant, WorkDistinct
<1>9. WritesOrdered'
  BY <1>6 DEF WritesOrdered
<1>10. QuietSlotsWhole'
  <2>1. ~Quiet(s)'
    BY <1>1, <1>4, <1>5 DEF Quiet
  <2> QED
    BY <1>6, <2>1 DEF QuietSlotsWhole
<1>11. PrimaryNotOlder'
  <2>1. area'[PrimaryOffset(s)] # Torn => area'[BackupOffset(s)] <= area'[PrimaryOffset(s)]
    <3>1. e.version \in Int /\ area'[BackupOffset(s)] \in Int
      BY <1>1, <1>3, CopiesApart, VersionAssumption DEF TypeOK, Entry, Versions
    <3>2. /\ c = Primary => area'[PrimaryOffset(s)] = Torn
          /\ c # Primary => area'[PrimaryOffset(s)] = e.version + 1
          /\ c # Backup => area'[BackupOffset(s)] <= e.version
          /\ c = Backup => area'[BackupOffset(s)] = Torn
      BY <1>1, <1>4, <1>5 DEF WriteShape
    <3>3. e.version >= 0
      BY VersionAssumption DEF Entry, Versions
    <3> QED
      BY <3>1, <3>2, <3>3
  <2> QED
    BY <1>6, <2>1 DEF PrimaryNotOlder
<1> QED
  BY <1>3, <1>7, <1>8, <1>9, <1>10, <1>11 DEF CopiesInvariant

LEMMA BeginPrimaryStep ==
  ASSUME CopiesInvariant, NEW p \in Procs, BeginPrimary(p)
  PROVE  CopiesInvariant'
<1>1. PICK e \in Entry, s \in Slots :
        /\ 1 \in DOMAIN todo[p] /\ Current(p) = todo[p][1]
        /\ e = Current(p) /\ s = e.slot /\ Target(p) = s /\ e.offset = PrimaryOffset(s)
  BY CurrentEntry DEF BeginPrimary, Entry
<1>2. TypeOK /\ PrimaryOffset(s) \in CopyOffsets /\ PrimaryOffset(s) # BackupOffset(s)
  BY <1>1, CopiesApart DEF CopiesInvariant
<1>3. /\ area' = [area EXCEPT ![PrimaryOffset(s)] = Torn] /\ pc' = [pc EXCEPT ![p] = Primary]
      /\ UNCHANGED <<todo, done, hits>>
  BY <1>1 DEF BeginPrimary
<1>4. Current(p)' = e /\ pc'[p] = Primary
      /\ area'[PrimaryOffset(s)] = Torn /\ area'[BackupOffset(s)] = area[BackupOffset(s)]
  BY <1>1, <1>2, <1>3 DEF Current, TypeOK
<1>5. AsFound(e) /\ area[PrimaryOffset(s)] = e.version
  BY <1>1 DEF CopiesInvariant, LoadedStillThere, AsFound, BeginPrimary
<1>6. e.version # Torn /\ area[BackupOffset(s)] <= e.version
  BY <1>1, <1>5 DEF CopiesInvariant, PrimaryNotOlder, Entry, Versions
<1>7. Quiet(s)
  <2>1. ASSUME NEW q \in Procs, pc[q] \in Writing, Current(q).slot = s
        PROVE  FALSE
    <3>1. 1 \in DOMAIN todo[q] /\ Current(q) = todo[q][1]
      BY <2>1, CurrentEntry
    <3>2. q = p
      BY <1>1, <2>1, <3>1, SlotIsMine
    <3> QED
      BY <2>1, <3>2 DEF BeginPrimary
  <2> QED
    BY <2>1 DEF Quiet
<1>8. hits[s] = 0 => e.version = done[s] /\ area[BackupOffset(s)] = done[s]
  BY <1>1, <1>5, <1>7 DEF CopiesInvariant, QuietSlotsWhole, QuietShape
<1>9. WriteShape(p)'
  BY <1>1, <1>3, <1>4, <1>6, <1>8 DEF WriteShape
<1> QED
  BY <1>1, <1>3, <1>9, StepOfWrite DEF BeginPrimary

LEMMA EndPrimaryStep ==
  ASSUME CopiesInvariant, NEW p \in Procs, EndPrimary(p)
  PROVE  CopiesInvariant'
<1>1. PICK e \in Entry, s \in Slots :
        /\ e = Current(p) /\ s = e.slot /\ Target(p) = s /\ e.version + 1 \in Versions
  BY CurrentEntry DEF EndPrimary, Entry
<1>2. TypeOK /\ PrimaryOffset(s) \in CopyOffsets /\ PrimaryOffset(s) # BackupOffset(s)
  BY <1>1, CopiesApart DEF CopiesInvariant
<1>3. /\ area' = [area EXCEPT ![PrimaryOffset(s)] = e.version + 1]
      /\ pc' = [pc EXCEPT ![p] = Between] /\ UNCHANGED <<todo, done, hits>>
  BY <1>1 DEF EndPrimary
<1>4. Current(p)' = e /\ pc'[p] = Between
      /\ area'[PrimaryOffset(s)] = e.version + 1
      /\ area'[BackupOffset(s)] = area[BackupOffset(s)]
  BY <1>1, <1>2, <1>3 DEF Current, TypeOK
<1>5. pc[p] = Primary /\ WriteShape(p)
  BY DEF EndPrimary, CopiesInvariant, WritesOrdered
<1>6. WriteShape(p)'
  BY <1>1, <1>3, <1>4, <1>5 DEF WriteShape
<1> QED
  BY <1>1, <1>3, <1>5, <1>6, StepOfWrite

LEMMA BeginBackupStep ==
  ASSUME CopiesInvariant, NEW p \in Procs, BeginBackup(p)
  PROVE  CopiesInvariant'
<1>1. PICK e \in Entry, s \in Slots :
        e = Current(p) /\ s = e.slot /\ Target(p) = s
  BY CurrentEntry DEF BeginBackup, Entry
<1>2. TypeOK /\ BackupOffset(s) \in CopyOffsets /\ PrimaryOffset(s) # BackupOffset(s)
  BY <1>1, CopiesApart DEF CopiesInvariant
<1>3. /\ area' = [area EXCEPT ![BackupOffset(s)] = Torn]
      /\ pc' = [pc EXCEPT ![p] = Backup] /\ UNCHANGED <<todo, done, hits>>
  BY <1>1 DEF BeginBackup
<1>4. Current(p)' = e /\ pc'[p] = Backup
      /\ area'[PrimaryOffset(s)] = area[PrimaryOffset(s)] /\ area'[BackupOffset(s)] = Torn
  BY <1>1, <1>2, <1>3 DEF Current, TypeOK
<1>5. pc[p] = Between /\ WriteShape(p)
  BY DEF BeginBackup, CopiesInvariant, WritesOrdered
<1>6. WriteShape(p)'
  BY <1>1, <1>3, <1>4, <1>5 DEF WriteShape
<1> QED
  BY <1>1, <1>3, <1>5, <1>6, StepOfWrite

LEMMA EndBackupStep ==
  ASSUME CopiesInvariant, NEW p \in Procs, EndBackup(p)
  PROVE  CopiesInvariant'
<1>1. PICK e \in Entry, s \in Slots :
        /\ 1 \in DOMAIN todo[p] /\ Current(p) = todo[p][1]
        /\ e = Current(p) /\ s = e.slot /\ Target(p) = s /\ e.version + 1 \in Versions
  BY CurrentEntry DEF EndBackup, Entry
<1>2. TypeOK /\ BackupOffset(s) \in CopyOffsets /\ PrimaryOffset(s) # BackupOffset(s)
      /\ PrimaryOffset(s) \in CopyOffsets
  BY <1>1, CopiesApart DEF CopiesInvariant
<1>3. /\ area' = [area EXCEPT ![BackupOffset(s)] = e.version + 1]
      /\ done' = [done EXCEPT ![s] = e.version + 1]
      /\ hits' = [hits EXCEPT ![s] = 0]
      /\ todo' = [todo EXCEPT ![p] = Tail(todo[p])]
      /\ pc' = [pc EXCEPT ![p] = IF Tail(todo[p]) = <<>> THEN Idle ELSE Ready]
  BY <1>1 DEF EndBackup
<1>4. todo[p] \in Seq(Entry) /\ todo[p] # <<>> /\ Tail(todo[p]) \in Seq(Entry)
  BY <1>1, <1>2 DEF TypeOK
<1>5. ASSUME NEW j \in DOMAIN Tail(todo[p])
      PROVE  j + 1 \in DOMAIN todo[p] /\ j + 1 > 1 /\ Tail(todo[p])[j] = todo[p][j + 1]
  BY <1>4
<1>6. TypeOK'
  <2>1. area' \in [CopyOffsets -> Versions \cup {Torn}] /\ done' \in [Slots -> Versions]
        /\ hits' \in [Slots -> Nat]
    BY <1>1, <1>2, <1>3 DEF TypeOK
  <2>2. pc' \in [Procs -> {Idle, Ready, Refused} \cup Writing] /\ todo' \in [Procs -> Seq(Entry)]
    BY <1>2, <1>3, <1>4 DEF TypeOK
  <2>3. \A q \in Procs : (todo'[q] # <<>>) = (pc'[q] \in {Ready} \cup Writing)
    BY <1>2, <1>3, <1>4 DEF TypeOK
  <2> QED
    BY <2>1, <2>2, <2>3 DEF TypeOK
<1>7. /\ \A k \in CopyOffsets \ {PrimaryOffset(s), BackupOffset(s)} : area'[k] = area[k]
      /\ \A q \in Procs \ {p} : pc'[q] = pc[q] /\ todo'[q] = todo[q]
      /\ \A t \in Slots \ {s} : done'[t] = done[t] /\ hits'[t] = hits[t]
      /\ pc'[p] \in {Idle, Ready} /\ todo'[p] = Tail(todo[p])
  BY <1>1, <1>2, <1>3 DEF TypeOK
<1>8. /\ \A f \in Entry : f.slot # s /\ AsFound(f) => AsFound(f)'
      /\ \A j \in DOMAIN todo[p] : j > 1 => todo[p][j].slot # s /\ AsFound(todo[p][j])
      /\ \A q \in Procs \ {p} : \A j \in DOMAIN todo'[q] :
              /\ todo'[q][j].version < MaxVersion
              /\ j > 1 \/ pc'[q] = Ready => AsFound(todo[q][j])'
      /\ \A q \in Procs \ {p} : pc'[q] \in Writing => WriteShape(q)'
      /\ \A t \in Slots \ {s} : Quiet(t)' => QuietShape(t)'
      /\ \A t \in Slots \ {s} :
              area'[PrimaryOffset(t)] # Torn => area'[BackupOffset(t)] <= area'[PrimaryOffset(t)]
  BY <1>1, <1>7, StepOnSlot
<1>9. LoadedStillThere'
  <2>1. ASSUME NEW j \in DOMAIN todo'[p]
        PROVE  todo'[p][j].version < MaxVersion /\ AsFound(todo[p][j])'
    <3>1. /\ j + 1 \in DOMAIN todo[p] /\ j + 1 > 1
          /\ todo'[p][j] = todo[p][j + 1] /\ todo[p][j + 1] \in Entry
      BY <1>4, <1>5, <1>7
    <3>2. PICK f \in Entry : f = todo'[p][j] /\ f = todo[p][j + 1]
      BY <3>1
    <3>3. f.version < MaxVersion
      BY <3>1, <3>2 DEF CopiesInvariant, LoadedStillThere
    <3>4. f.slot # s /\ AsFound(f)
      BY <1>8, <3>1, <3>2 DEF AsFound
    <3> QED
      BY <1>8, <3>2, <3>3, <3>4 DEF AsFound
  <2> QED
    BY <1>8, <2>1 DEF LoadedStillThere
<1>10. WorkDistinct'
  <2>1. ASSUME NEW q \in Procs, NEW r \in Procs,
               NEW i \in DOMAIN todo'[q], NEW j \in DOMAIN todo'[r],
               todo'[q][i].slot = todo'[r][j].slot
        PROVE  q = r /\ i = j
    <3>1. i \in Nat /\ j \in Nat
      BY <1>6 DEF TypeOK
    <3>2. PICK k \in DOMAIN todo[q] :
            todo'[q][i] = todo[q][k] /\ k = (IF q = p THEN i + 1 ELSE i)
      BY <1>5, <1>7
    <3>3. PICK l \in DOMAIN todo[r] :
            todo'[r][j] = todo[r][l] /\ l = (IF r = p THEN j + 1 ELSE j)
      BY <1>5, <1>7
    <3>4. q = r /\ k = l
      BY <2>1, <3>2, <3>3 DEF CopiesInvariant, WorkDistinct
    <3> QED
      BY <3>1, <3>2, <3>3, <3>4
  <2> QED
    BY <2>1 DEF WorkDistinct
<1>11. WritesOrdered'
  BY <1>7, <1>8 DEF WritesOrdered
<1>12. area'[PrimaryOffset(s)] = e.version + 1 /\ area'[BackupOffset(s)] = e.version + 1
       /\ done'[s] = e.version + 1 /\ hits'[s] = 0
  <2>1. area[PrimaryOffset(s)] = e.version + 1
    BY <1>1 DEF CopiesInvariant, WritesOrdered, WriteShape, EndBackup
  <2> QED
    BY <1>1, <1>2, <1>3, <2>1 DEF TypeOK
<1>13. QuietSlotsWhole'
  <2>1. QuietShape(s)'
    BY <1>12 DEF QuietShape
  <2> QED
    BY <1>8, <2>1 DEF QuietSlotsWhole
<1>14. PrimaryNotOlder'
  BY <1>1, <1>8, <1>12 DEF PrimaryNotOlder, Versions
<1> QED
  BY <1>6, <1>9, <1>10, <1>11, <1>13, <1>14 DEF CopiesInvariant

----------------------------------------------------------------------------
\* The steps that change no copy.

\* A command that drops its work, outside of a write.
LEMMA StepAside ==
  ASSUME CopiesInvariant, NEW p \in Procs, NEW c \in {Idle, Refused},
         pc[p] \notin Writing,
         pc' = [pc EXCEPT ![p] = c],
         todo' = [todo EXCEPT ![p] = <<>>],
         UNCHANGED <<area, done, hits>>
  PROVE  CopiesInvariant'
<1>1. TypeOK /\ TypeOK'
  BY DEF CopiesInvariant, TypeOK
<1>2. /\ pc'[p] = c /\ todo'[p] = <<>>
      /\ \A q \in Procs \ {p} : pc'[q] = pc[q] /\ todo'[q] = todo[q]
  BY <1>1 DEF TypeOK
<1>3. ASSUME NEW q \in Procs, NEW j \in DOMAIN todo'[q]
      PROVE  q # p /\ pc'[q] = pc[q] /\ todo'[q] = todo[q]
  BY <1>2
<1>4. LoadedStillThere'
  <2>1. ASSUME NEW q \in Procs, NEW j \in DOMAIN todo'[q]
        PROVE  /\ todo'[q][j].version < MaxVersion
               /\ j > 1 \/ pc'[q] = Ready => AsFound(todo[q][j])'
    <3>1. j \in DOMAIN todo[q] /\ pc'[q] = pc[q] /\ todo'[q] = todo[q]
      BY <1>3
    <3>2. /\ todo[q][j].version < MaxVersion
          /\ j > 1 \/ pc[q] = Ready => AsFound(todo[q][j])
      BY <3>1 DEF CopiesInvariant, LoadedStillThere
    <3> QED
      BY <3>1, <3>2 DEF AsFound, FindMetadataForSlot
  <2> QED
    BY <2>1 DEF LoadedStillThere
<1>5. WorkDistinct'
  BY <1>3 DEF CopiesInvariant, WorkDistinct
<1>6. ASSUME NEW q \in Procs, pc'[q] \in Writing
      PROVE  q # p /\ pc[q] \in Writing /\ Current(q)' = Current(q)
  BY <1>2, <1>6 DEF Current
<1>7. WritesOrdered'
  <2>1. ASSUME NEW q \in Procs, pc'[q] \in Writing
        PROVE  WriteShape(q)'
    BY <1>2, <1>6, <2>1 DEF WriteShape, CopiesInvariant, WritesOrdered
  <2> QED
    BY <2>1 DEF WritesOrdered
<1>8. QuietSlotsWhole'
  <2>1. ASSUME NEW t \in Slots, Quiet(t)'
        PROVE  Quiet(t)
    <3>1. ASSUME NEW q \in Procs, pc[q] \in Writing
          PROVE  Current(q).slot # t
      BY <1>2, <2>1, <3>1 DEF Quiet, Current
    <3> QED
      BY <3>1 DEF Quiet
  <2> QED
    BY <2>1 DEF CopiesInvariant, QuietSlotsWhole, QuietShape
<1>9. PrimaryNotOlder'
  BY DEF CopiesInvariant, PrimaryNotOlder
<1> QED
  BY <1>1, <1>4, <1>5, <1>7, <1>8, <1>9 DEF CopiesInvariant

\* An interruption in the middle of a write: the slot is now quiet.
LEMMA InterruptedWrite ==
  ASSUME CopiesInvariant, NEW p \in Procs, Interrupt(p), pc[p] \in Writing
  PROVE  CopiesInvariant'
<1>1. PICK e \in Entry, s \in Slots :
        /\ 1 \in DOMAIN todo[p] /\ Current(p) = todo[p][1]
        /\ e = Current(p) /\ s = e.slot
  BY CurrentEntry DEF Entry
<1>2. TypeOK /\ TypeOK'
  BY <1>1 DEF CopiesInvariant, TypeOK, Interrupt
<1>3. /\ pc'[p] = Idle /\ todo'[p] = <<>> /\ hits'[s] = hits[s] + 1
      /\ \A q \in Procs \ {p} : pc'[q] = pc[q] /\ todo'[q] = todo[q]
      /\ \A t \in Slots \ {s} : done'[t] = done[t] /\ hits'[t] = hits[t]
      /\ area' = area /\ done' = done
  BY <1>1, <1>2 DEF TypeOK, Interrupt
<1>4. /\ \A q \in Procs \ {p} : \A j \in DOMAIN todo'[q] :
              /\ todo'[q][j].version < MaxVersion
              /\ j > 1 \/ pc'[q] = Ready => AsFound(todo[q][j])'
      /\ \A q \in Procs \ {p} : pc'[q] \in Writing => WriteShape(q)'
      /\ \A t \in Slots \ {s} : Quiet(t)' => QuietShape(t)'
  BY <1>1, <1>3, StepOnSlot
<1>5. LoadedStillThere'
  BY <1>3, <1>4 DEF LoadedStillThere
<1>6. WorkDistinct'
  BY <1>3 DEF CopiesInvariant, WorkDistinct
<1>7. WritesOrdered'
  BY <1>3, <1>4 DEF WritesOrdered
<1>8. QuietSlotsWhole'
  <2>1. WriteShape(p) /\ hits[s] \in Nat /\ done[s] \in Nat
    BY <1>2, VersionAssumption DEF CopiesInvariant, WritesOrdered, TypeOK, Versions
  <2>2. hits'[s] # 0 /\ (hits'[s] = 1 => hits[s] = 0)
    BY <1>3, <2>1
  <2>3. QuietShape(s)'
    BY <1>1, <1>3, <2>1, <2>2 DEF WriteShape, QuietShape
  <2> QED
    BY <1>4, <2>3 DEF QuietSlotsWhole
<1>9. PrimaryNotOlder'
  BY <1>3 DEF CopiesInvariant, PrimaryNotOlder
<1> QED
  BY <1>2, <1>5, <1>6, <1>7, <1>8, <1>9 DEF CopiesInvariant

LEMMA InterruptStep ==
  ASSUME CopiesInvariant, NEW p \in Procs, Interrupt(p)
  PROVE  CopiesInvariant'
<1>1. CASE pc[p] \in Writing
  BY <1>1, InterruptedWrite
<1>2. CASE pc[p] = Ready
  BY <1>2, StepAside DEF Interrupt
<1> QED
  BY <1>1, <1>2 DEF Interrupt

\* A command takes on slots nobody works on, as they are now.
LEMMA StartStep ==
  ASSUME CopiesInvariant, NEW p \in Procs,
         NEW n \in 1 .. SlotCount, NEW list \in [1 .. n -> Loadable], Start(p, list)
  PROVE  CopiesInvariant'
<1>1. TypeOK /\ n \in Nat /\ n > 0
  BY GeometryAssumption DEF CopiesInvariant
<1>2. DOMAIN list = 1 .. n /\ \A i \in 1 .. n : list[i] \in Entry /\ AsFound(list[i])
  BY <1>1, LoadableEntries DEF AsFound
<1>3. list \in Seq(Entry) /\ list # <<>>
  <2>1. list \in [1 .. n -> Entry]
    BY <1>2
  <2> QED
    BY <1>1, <2>1
<1>4. /\ pc[p] = Idle
      /\ \A i \in DOMAIN list :
           list[i].version < MaxVersion /\ \A q \in Procs : ~Works(q, list[i].slot)
      /\ \A i, j \in DOMAIN list : i < j => list[i].slot < list[j].slot
      /\ pc' = [pc EXCEPT ![p] = Ready] /\ todo' = [todo EXCEPT ![p] = list]
      /\ UNCHANGED <<area, done, hits>>
  BY DEF Start
<1>5. TypeOK'
  BY <1>1, <1>3, <1>4 DEF TypeOK
<1>6. /\ pc'[p] = Ready /\ todo'[p] = list
      /\ \A q \in Procs \ {p} : pc'[q] = pc[q] /\ todo'[q] = todo[q]
  BY <1>1, <1>4 DEF TypeOK
<1>7. LoadedStillThere'
  <2>1. ASSUME NEW e, AsFound(e)
        PROVE  AsFound(e)'
    BY <1>4, <2>1 DEF AsFound, FindMetadataForSlot
  <2>2. ASSUME NEW j \in DOMAIN list
        PROVE  list[j].version < MaxVersion /\ AsFound(list[j])'
    BY <1>2, <1>4, <2>1
  <2>3. ASSUME NEW q \in Procs \ {p}, NEW j \in DOMAIN todo'[q]
        PROVE  /\ todo'[q][j].version < MaxVersion
               /\ j > 1 \/ pc'[q] = Ready => AsFound(todo[q][j])'
    <3>1. j \in DOMAIN todo[q] /\ pc'[q] = pc[q] /\ todo'[q] = todo[q]
      BY <1>6
    <3>2. /\ todo[q][j].version < MaxVersion
          /\ j > 1 \/ pc[q] = Ready => AsFound(todo[q][j])
      BY <3>1 DEF CopiesInvariant, LoadedStillThere
    <3> QED
      BY <1>4, <3>1, <3>2 DEF AsFound, FindMetadataForSlot
  <2>4. ASSUME NEW j \in DOMAIN todo'[p]
        PROVE  todo'[p][j].version < MaxVersion /\ AsFound(todo[p][j])'
    BY <1>6, <2>2 DEF AsFound
  <2> QED
    BY <2>3, <2>4 DEF LoadedStillThere
<1>8. WorkDistinct'
  <2>1. ASSUME NEW q \in Procs \ {p}, NEW i \in DOMAIN list, NEW j \in DOMAIN todo'[q]
        PROVE  list[i].slot # todo'[q][j].slot
    BY <1>4, <1>6 DEF Works
  <2>2. ASSUME NEW i \in DOMAIN list, NEW j \in DOMAIN list, list[i].slot = list[j].slot
        PROVE  i = j
    <3>1. list[i].slot \in Int /\ list[j].slot \in Int /\ i \in Int /\ j \in Int
      BY <1>2 DEF Entry, Slots
    <3> QED
      BY <1>4, <2>2, <3>1
  <2> QED
    BY <1>6, <2>1, <2>2 DEF CopiesInvariant, WorkDistinct
<1>9. WritesOrdered'
  <2>1. ASSUME NEW q \in Procs, pc'[q] \in Writing
        PROVE  WriteShape(q)'
    BY <1>4, <1>6, <2>1 DEF WriteShape, CopiesInvariant, WritesOrdered, Current
  <2> QED
    BY <2>1 DEF WritesOrdered
<1>10. QuietSlotsWhole'
  <2>1. ASSUME NEW t \in Slots, Quiet(t)'
        PROVE  Quiet(t)
    BY <1>4, <1>6, <2>1 DEF Quiet, Current
  <2> QED
    BY <1>4, <2>1 DEF CopiesInvariant, QuietSlotsWhole, QuietShape
<1>11. PrimaryNotOlder'
  BY <1>4 DEF CopiesInvariant, PrimaryNotOlder
<1> QED
  BY <1>5, <1>7, <1>8, <1>9, <1>10, <1>11 DEF CopiesInvariant

LEMMA RefusedStep ==
  ASSUME CopiesInvariant, NEW p \in Procs, RefuseWrite(p) \/ Exit(p)
  PROVE  CopiesInvariant'
<1>1. CASE RefuseWrite(p)
  BY <1>1, StepAside DEF RefuseWrite
<1>2. CASE Exit(p)
  <2>1. todo[p] = <<>> /\ todo \in [Procs -> Seq(Entry)]
    BY <1>2 DEF CopiesInvariant, TypeOK, Exit
  <2>2. todo' = [todo EXCEPT ![p] = <<>>]
    BY <1>2, <2>1 DEF Exit
  <2> QED
    BY <1>2, <2>2, StepAside DEF Exit
<1> QED
  BY <1>1, <1>2

----------------------------------------------------------------------------
LEMMA InitialCopies ==
  ASSUME Init
  PROVE  CopiesInvariant
<1>1. \A p \in Procs : DOMAIN todo[p] = {} /\ todo[p] = <<>> /\ pc[p] = Idle
  BY DEF Init
<1>2. TypeOK
  BY <1>1, VersionAssumption DEF Init, TypeOK, Versions
<1>3. LoadedStillThere /\ WorkDistinct
  BY <1>1 DEF LoadedStillThere, WorkDistinct
<1>4. WritesOrdered
  BY <1>1 DEF WritesOrdered
<1>5. QuietSlotsWhole /\ PrimaryNotOlder
  BY CopiesApart DEF Init, QuietSlotsWhole, QuietShape, PrimaryNotOlder
<1> QED
  BY <1>2, <1>3, <1>4, <1>5 DEF CopiesInvariant

LEMMA StepKeepsCopies ==
  ASSUME CopiesInvariant, [Next]_vars
  PROVE  CopiesInvariant'
<1>1. ASSUME NEW p \in Procs, Step(p)
      PROVE  CopiesInvariant'
  <2>1. ASSUME NEW n \in 1 .. SlotCount, NEW list \in [1 .. n -> Loadable], Start(p, list)
        PROVE  CopiesInvariant'
    BY <2>1, StartStep
  <2>2. CASE RefuseWrite(p) \/ Exit(p)
    BY <2>2, RefusedStep
  <2>3. CASE BeginPrimary(p)
    BY <2>3, BeginPrimaryStep
  <2>4. CASE EndPrimary(p)
    BY <2>4, EndPrimaryStep
  <2>5. CASE BeginBackup(p)
    BY <2>5, BeginBackupStep
  <2>6. CASE EndBackup(p)
    BY <2>6, EndBackupStep
  <2>7. CASE Interrupt(p)
    BY <2>7, InterruptStep
  <2> QED
    BY <1>1, <2>1, <2>2, <2>3, <2>4, <2>5, <2>6, <2>7 DEF Step
<1>2. CASE UNCHANGED vars
  <2>1. area' = area /\ pc' = pc /\ todo' = todo /\ done' = done /\ hits' = hits
    BY <1>2 DEF vars
  <2>2. TypeOK' /\ WorkDistinct' /\ PrimaryNotOlder'
    BY <2>1 DEF CopiesInvariant, TypeOK, WorkDistinct, PrimaryNotOlder
  <2>3. LoadedStillThere'
    BY <2>1 DEF CopiesInvariant, LoadedStillThere, AsFound, FindMetadataForSlot
  <2>4. WritesOrdered'
    BY <2>1 DEF CopiesInvariant, WritesOrdered, WriteShape, Current
  <2>5. QuietSlotsWhole'
    BY <2>1 DEF CopiesInvariant, QuietSlotsWhole, Quiet, QuietShape, Current
  <2> QED
    BY <2>2, <2>3, <2>4, <2>5 DEF CopiesInvariant
<1> QED
  BY <1>1, <1>2 DEF Next

\* Every reachable state of the metadata area satisfies the inductive
\* invariant, its types included.
THEOREM CopiesInvariantHolds == Spec => []CopiesInvariant
<1>1. Init => CopiesInvariant
  BY InitialCopies
<1>2. CopiesInvariant /\ [Next]_vars => CopiesInvariant'
  BY StepKeepsCopies
<1> QED
  BY <1>1, <1>2, PTL DEF Spec

\* The variables keep their types in write_metadata's every step.
THEOREM TypesHold == Spec => []TypeOK
<1>1. CopiesInvariant => TypeOK
  BY DEF CopiesInvariant
<1> QED
  BY <1>1, CopiesInvariantHolds, PTL

\* After a complete write and before the next one begins, the backup copy is
\* as good as the primary.
THEOREM EditsDoubled == Spec => []CompleteEditsDoubled
<1>1. ASSUME CopiesInvariant, NEW s \in Slots, hits[s] = 0, InFlight(s) = {}
      PROVE  area[PrimaryOffset(s)] = done[s] /\ area[BackupOffset(s)] = done[s]
  <2>1. Quiet(s)
    BY <1>1 DEF Quiet, InFlight
  <2> QED
    BY <1>1, <2>1 DEF CopiesInvariant, QuietSlotsWhole, QuietShape
<1>2. CopiesInvariant => CompleteEditsDoubled
  BY <1>1 DEF CompleteEditsDoubled
<1> QED
  BY <1>2, CopiesInvariantHolds, PTL

\* A load, which prefers the primary copy, never finds the older of the two
\* valid copies, however many writes were cut short.
THEOREM PrimaryStaysNewer == Spec => []PrimaryNotOlder
<1>1. CopiesInvariant => PrimaryNotOlder
  BY DEF CopiesInvariant
<1> QED
  BY <1>1, CopiesInvariantHolds, PTL

----------------------------------------------------------------------------
\* A slot with one write under way has, at every moment of it, a valid copy.
LEMMA FoundDuringWrite ==
  ASSUME CopiesInvariant, NEW p \in Procs, pc[p] \in Writing,
         NEW s \in Slots, s = Current(p).slot, hits[s] = 0
  PROVE  \E v \in Found(s) : v \in {done[s], done[s] + 1}
<1>1. WriteShape(p) /\ done[s] \in Versions /\ done[s] # Torn /\ done[s] + 1 # Torn
  BY VersionAssumption DEF CopiesInvariant, WritesOrdered, TypeOK, Versions
<1>2. CASE pc[p] = Primary
  <2>1. area[PrimaryOffset(s)] = Torn /\ area[BackupOffset(s)] = done[s]
    BY <1>1, <1>2 DEF WriteShape
  <2> QED
    BY <1>1, <2>1 DEF Found, FindMetadataForSlot
<1>3. CASE pc[p] # Primary
  <2>1. area[PrimaryOffset(s)] = done[s] + 1
    BY <1>1, <1>3 DEF WriteShape
  <2> QED
    BY <1>1, <2>1 DEF Found, FindMetadataForSlot
<1> QED
  BY <1>2, <1>3

LEMMA FoundWhenQuiet ==
  ASSUME CopiesInvariant, NEW s \in Slots, Quiet(s), hits[s] \in {0, 1}
  PROVE  \E v \in Found(s) : v \in {done[s], done[s] + 1}
<1>1. QuietShape(s) /\ done[s] \in Versions /\ done[s] # Torn /\ done[s] + 1 # Torn
  BY VersionAssumption DEF CopiesInvariant, QuietSlotsWhole, TypeOK, Versions
<1>2. \/ area[PrimaryOffset(s)] \in {done[s], done[s] + 1}
      \/ area[PrimaryOffset(s)] = Torn /\ area[BackupOffset(s)] = done[s]
  BY <1>1 DEF QuietShape
<1> QED
  BY <1>1, <1>2 DEF Found, FindMetadataForSlot

\* Whatever moment a command dies at, a slot whose other writes since the
\* last complete one all came to their end loads, as that edit or the next.
THEOREM OneInterruptionLosesNothing == Spec => []Recoverable
<1>1. ASSUME CopiesInvariant, NEW s \in Slots, hits[s] + Cardinality(InFlight(s)) <= 1
      PROVE  \E v \in Found(s) : v \in {done[s], done[s] + 1}
  <2>1. hits[s] \in Nat
    BY <1>1 DEF CopiesInvariant, TypeOK
  <2>2. CASE Quiet(s)
    <3>1. InFlight(s) = {}
      BY <2>2 DEF Quiet, InFlight
    <3>2. hits[s] \in {0, 1}
      BY <1>1, <2>1, <3>1, FS_EmptySet
    <3> QED
      BY <1>1, <2>2, <3>2, FoundWhenQuiet
  <2>3. CASE ~Quiet(s)
    <3>1. PICK p \in Procs : pc[p] \in Writing /\ Current(p).slot = s
      BY <2>3 DEF Quiet
    <3>2. ASSUME NEW q \in InFlight(s)
          PROVE  q = p
      <4>1. q \in Procs /\ pc[q] \in Writing /\ Current(q).slot = s
        BY DEF InFlight
      <4>2. 1 \in DOMAIN todo[q] /\ Current(q) = todo[q][1]
        BY <1>1, <4>1, CurrentEntry
      <4>3. 1 \in DOMAIN todo[p] /\ Current(p) = todo[p][1]
        BY <1>1, <3>1, CurrentEntry
      <4> QED
        BY <1>1, <3>1, <4>1, <4>2, <4>3, SlotIsMine
    <3>3. InFlight(s) = {p}
      BY <3>1, <3>2 DEF InFlight
    <3>4. hits[s] = 0
      BY <1>1, <2>1, <3>3, FS_Singleton
    <3> QED
      BY <1>1, <3>1, <3>4, FoundDuringWrite
  <2> QED
    BY <2>2, <2>3
<1>2. CopiesInvariant => Recoverable
  BY <1>1 DEF Recoverable
<1> QED
  BY <1>2, CopiesInvariantHolds, PTL

----------------------------------------------------------------------------
\* The four steps that change a copy belong to a write of its slot.
LEMMA StepWritesOwnSlot ==
  ASSUME CopiesInvariant, NEW p \in Procs, NEW s \in Slots, Step(p),
         \/ area'[PrimaryOffset(s)] # area[PrimaryOffset(s)]
         \/ area'[BackupOffset(s)] # area[BackupOffset(s)]
  PROVE  pc'[p] # pc[p] /\ Current(p).slot = s
<1>1. BeginPrimary(p) \/ EndPrimary(p) \/ BeginBackup(p) \/ EndBackup(p)
  BY DEF Step, Start, RefuseWrite, Interrupt, Exit
<1>2. /\ Target(p) = Current(p).slot
      /\ Current(p).slot \in Slots
  BY <1>1, CurrentEntry DEF BeginPrimary, EndPrimary, BeginBackup, EndBackup, Entry
<1>3. pc'[p] # pc[p]
  BY <1>1 DEF CopiesInvariant, TypeOK, BeginPrimary, EndPrimary, BeginBackup, EndBackup
<1>4. ASSUME Current(p).slot # s
      PROVE  FALSE
  <2>1. /\ PrimaryOffset(s) \notin {PrimaryOffset(Target(p)), BackupOffset(Target(p))}
        /\ BackupOffset(s) \notin {PrimaryOffset(Target(p)), BackupOffset(Target(p))}
        /\ PrimaryOffset(s) \in CopyOffsets /\ BackupOffset(s) \in CopyOffsets
    BY <1>2, <1>4, CopiesApart
  <2>2. area'[PrimaryOffset(s)] = area[PrimaryOffset(s)]
        /\ area'[BackupOffset(s)] = area[BackupOffset(s)]
    BY <1>1, <2>1
       DEF CopiesInvariant, TypeOK, BeginPrimary, EndPrimary, BeginBackup, EndBackup
  <2> QED
    BY <2>2
<1> QED
  BY <1>3, <1>4

\* No step of any command changes a copy of a slot that the command is not at.
THEOREM NeighboursStay == Spec => NeighboursUntouched
<1>1. ASSUME CopiesInvariant, Next
      PROVE  WrittenByOwner
  BY <1>1, StepWritesOwnSlot DEF Next, WrittenByOwner
<1>2. CopiesInvariant /\ [Next]_vars => [WrittenByOwner]_vars
  BY <1>1
<1> QED
  BY <1>2, CopiesInvariantHolds, PTL DEF Spec, NeighboursUntouched

----------------------------------------------------------------------------
\* What a request means, whatever the tables, names and slots are.

\* At most one value is the only one.
LEMMA OnlyIsAlone ==
  ASSUME NEW S, NEW x \in Only(S)
  PROVE  S = {x} /\ Only(S) = {x}
BY DEF Only

LEMMA AloneIsOnly ==
  ASSUME NEW x
  PROVE  Only({x}) = {x}
BY DEF Only

LEMMA FirstOfOne ==
  ASSUME NEW x \in Nat
  PROVE  First({x}) = {x}
BY DEF First

\* A partition that the name finds in a table is the only one it can mean.
LEMMA ResolvedAlone ==
  ASSUME NEW names, NEW name, NEW suffix, NEW n \in ResolvePartition(names, name, suffix)
  PROVE  /\ ResolvePartition(names, name, suffix) = {n}
         /\ name \in names => n = name
         /\ name \notin names => Only(OfBase(names, name, suffix)) = {n}
<1>1. CASE name \in names
  BY <1>1 DEF ResolvePartition
<1>2. CASE name \notin names
  <2>1. n \in Only(OfBase(names, name, suffix))
    BY <1>2 DEF ResolvePartition
  <2> QED  BY <1>2, <2>1, OnlyIsAlone DEF ResolvePartition
<1> QED  BY <1>1, <1>2

\* Where a partition is the only one that a request finds in all tables, in
\* its slot and by the filter, a reading command finds it.
LEMMA OnlyHitIsRead ==
  ASSUME NEW layout, NEW name, NEW suffix,
         DOMAIN layout \subseteq Nat,
         NEW s \in DOMAIN layout, WriteHits(layout, name, suffix) = {s},
         NEW n \in ResolvePartition(layout[s], name, suffix)
  PROVE  FindPartitionAcross(layout, name, suffix) = {At(s, n)}
<1> DEFINE exact == {r \in DOMAIN layout : name \in layout[r]}
           based == UNION {{At(r, m) : m \in Only(OfBase(layout[r], name, suffix))} :
                           r \in DOMAIN layout \ exact}
<1>1. CASE name \in layout[s]
  <2>1. PassesSuffix(name, suffix)
    BY <1>1 DEF WriteHits
  <2>2. \A r \in exact : r \in WriteHits(layout, name, suffix)
    BY <2>1 DEF WriteHits, ResolvePartition
  <2>3. exact = {s}
    BY <1>1, <2>2
  <2>4. n = name
    BY <1>1, ResolvedAlone
  <2>5. First(exact) = {s}
    BY <2>3, FirstOfOne
  <2>6. FindPartitionAcross(layout, name, suffix) = {At(r, name) : r \in First(exact)}
    BY <2>1, <2>3 DEF FindPartitionAcross
  <2> QED  BY <2>4, <2>5, <2>6
<1>2. CASE name \notin layout[s]
  <2>1. \A r \in exact : PassesSuffix(name, suffix) => r \in WriteHits(layout, name, suffix)
    BY DEF WriteHits, ResolvePartition
  <2>2. ~(exact # {} /\ PassesSuffix(name, suffix))
    BY <1>2, <2>1
  <2>3. \A r \in DOMAIN layout \ exact :
          Only(OfBase(layout[r], name, suffix)) # {} => r \in WriteHits(layout, name, suffix)
    BY DEF WriteHits, ResolvePartition
  <2>4. Only(OfBase(layout[s], name, suffix)) = {n}
    BY <1>2, ResolvedAlone
  <2>5. based = {At(s, n)}
    BY <1>2, <2>3, <2>4
  <2>6. FindPartitionAcross(layout, name, suffix) = Only(based)
    BY <2>2 DEF FindPartitionAcross
  <2> QED  BY <2>5, <2>6, AloneIsOnly
<1> QED  BY <1>1, <1>2

\* What an editing command changes for a request without --slot is what a
\* reading command shows for it, with that slot and without, in any image.
THEOREM RequestsAgree ==
  ASSUME NEW layout, NEW name, NEW suffix, DOMAIN layout \subseteq Nat
  PROVE  ReadAndWriteAgree(layout, name, suffix)
<1> SUFFICES ASSUME NEW found \in WriteTarget(layout, name, suffix, {})
             PROVE  LET one == [r \in {found.slot} |-> layout[r]]
                    IN /\ FindPartitionAcross(layout, name, suffix) = {found}
                       /\ WriteTarget(one, name, suffix, {found.slot}) = {found}
                       /\ FindPartitionAcross(one, name, suffix) = {found}
  BY DEF ReadAndWriteAgree
<1>1. PICK s \in ResolveWriteSlot(layout, name, suffix, {}) :
        \E m \in ResolvePartition(layout[s], name, suffix) : found = At(s, m)
  BY DEF WriteTarget
<1>2. PICK n \in ResolvePartition(layout[s], name, suffix) : found = At(s, n)
  BY <1>1
<1>3. s \in Only(WriteHits(layout, name, suffix))
  BY DEF ResolveWriteSlot
<1>4. WriteHits(layout, name, suffix) = {s}
  BY <1>3, OnlyIsAlone
<1>5. s \in DOMAIN layout /\ s \in Nat /\ (name \in layout[s] => PassesSuffix(name, suffix))
  BY <1>4 DEF WriteHits
<1> DEFINE one == [r \in {s} |-> layout[r]]
<1>6. found.slot = s
  BY <1>2 DEF At
<1>7. FindPartitionAcross(layout, name, suffix) = {found}
  BY <1>2, <1>4, <1>5, OnlyHitIsRead
<1>8. DOMAIN one = {s} /\ one[s] = layout[s]
  OBVIOUS
<1>9. WriteHits(one, name, suffix) = {s}
  BY <1>2, <1>5, <1>8 DEF WriteHits
<1>10. FindPartitionAcross(one, name, suffix) = {found}
  <2> HIDE DEF one
  <2> QED  BY <1>2, <1>5, <1>8, <1>9, OnlyHitIsRead
<1>11. WriteTarget(one, name, suffix, {s}) = {found}
  <2> HIDE DEF one
  <2>1. ResolveWriteSlot(one, name, suffix, {s}) = {s}
    BY <1>2, <1>8 DEF ResolveWriteSlot
  <2>2. ResolvePartition(one[s], name, suffix) = {n}
    BY <1>2, <1>8, ResolvedAlone
  <2> QED  BY <1>2, <2>1, <2>2 DEF WriteTarget
<1> QED  BY <1>6, <1>7, <1>10, <1>11

----------------------------------------------------------------------------
\* The commands on the image, and its metadata copies.

\* A slot that a command may edit has been loaded.
LEMMA NewSlotLoads ==
  ASSUME NEW slot \in SlotOptions, NEW s \in ResolveNewSlot(Loaded(slot), slot)
  PROVE  s \in Slots /\ FindMetadataForSlot(s) # {}
BY DEF ResolveNewSlot, Loaded, NamesIn, SlotOptions, Only

LEMMA WriteSlotLoads ==
  ASSUME NEW slot \in SlotOptions, NEW name, NEW suffix,
         NEW s \in ResolveWriteSlot(Loaded(slot), name, suffix, slot)
  PROVE  s \in Slots /\ FindMetadataForSlot(s) # {}
BY DEF ResolveWriteSlot, WriteHits, Loaded, NamesIn, SlotOptions, Only

LEMMA EditableLoads ==
  ASSUME NEW slot \in SlotOptions, NEW f \in Editable(slot) \cup Renamable(slot)
  PROVE  f.slot \in Slots /\ FindMetadataForSlot(f.slot) # {}
<1>1. PICK s, n :
        /\ \E name, suffix : s \in ResolveWriteSlot(Loaded(slot), name, suffix, slot)
        /\ f = At(s, n)
  BY DEF Editable, Renamable, WriteTarget, RenameTarget
<1>2. f.slot = s
  BY <1>1 DEF At
<1> QED  BY <1>1, <1>2, WriteSlotLoads

\* What a command has loaded is an entry that SlotStore lets it start with.
LEMMA BeginIsStart ==
  ASSUME NEW p \in Procs, NEW s \in Slots, FindMetadataForSlot(s) # {},
         NEW edited, NEW payload, Begin(p, s, edited, payload)
  PROVE  Step(p)
<1> DEFINE e == [slot |-> s, offset |-> LoadedOffset(s), version |-> area[LoadedOffset(s)]]
<1>1. LoadedOffset(s) \in FindMetadataForSlot(s)
  BY DEF LoadedOffset, FindMetadataForSlot, CopyOffsets
<1>2. e \in Loadable
  BY <1>1 DEF Loadable
<1>3. <<e>> \in [1 .. 1 -> Loadable]
  BY <1>2
<1>4. 1 \in 1 .. SlotCount
  BY GeometryAssumption
<1>5. Start(p, <<e>>)
  BY DEF Begin
<1> QED  BY <1>3, <1>4, <1>5 DEF Step

LEMMA CommandStarts ==
  ASSUME NEW p \in Procs, Command(p)
  PROVE  Step(p)
<1>1. PICK slot \in SlotOptions :
       \/ \E s \in ResolveNewSlot(Loaded(slot), slot), name \in NewNames, len \in Sizes :
            Add(p, s, name, len, slot # {}) \/ Create(p, s, name, len)
       \/ \E f \in Editable(slot) :
            Remove(p, f) \/ \E len \in Sizes : Shrink(p, f, len) \/ Grow(p, f, len)
       \/ \E f \in Renamable(slot), new \in NewNames : Rename(p, f, new)
  BY DEF Command
<1>2. CASE \E s \in ResolveNewSlot(Loaded(slot), slot), name \in NewNames, len \in Sizes :
             Add(p, s, name, len, slot # {}) \/ Create(p, s, name, len)
  <2>1. PICK s \in ResolveNewSlot(Loaded(slot), slot) :
          \E edited, payload : Begin(p, s, edited, payload)
    BY <1>2 DEF Add, Create
  <2> QED  BY <2>1, NewSlotLoads, BeginIsStart
<1>3. CASE \E f \in Editable(slot) :
             Remove(p, f) \/ \E len \in Sizes : Shrink(p, f, len) \/ Grow(p, f, len)
  <2>1. PICK f \in Editable(slot) : \E edited, payload : Begin(p, f.slot, edited, payload)
    BY <1>3 DEF Remove, Shrink, Grow
  <2> QED  BY <2>1, EditableLoads, BeginIsStart
<1>4. CASE \E f \in Renamable(slot), new \in NewNames : Rename(p, f, new)
  <2>1. PICK f \in Renamable(slot) : \E edited, payload : Begin(p, f.slot, edited, payload)
    BY <1>4 DEF Rename
  <2> QED  BY <2>1, EditableLoads, BeginIsStart
<1> QED  BY <1>1, <1>2, <1>3, <1>4

\* Every step of the image is a step of its metadata area, or leaves it alone.
LEMMA ImageStepIsStep ==
  ASSUME [ImageNext]_imageVars
  PROVE  [Next]_vars
<1>1. CASE UNCHANGED imageVars
  BY <1>1 DEF imageVars
<1>2. CASE ImageNext
  <2>1. PICK p \in Procs : ImageStep(p)
    BY <1>2 DEF ImageNext
  <2>2. Command(p) => Step(p)
    BY CommandStarts
  <2>3. WritePayload(p) => UNCHANGED vars
    BY DEF WritePayload
  <2>4. \/ WriteBeginPrimary(p) \/ WriteEndPrimary(p) \/ WriteBeginBackup(p)
        \/ WriteEndBackup(p) \/ WriteRefused(p) \/ Killed(p) \/ Exits(p)
        => Step(p)
    BY DEF WriteBeginPrimary, WriteEndPrimary, WriteBeginBackup, WriteEndBackup, WriteRefused,
           Killed, Exits, Step
  <2> QED  BY <2>1, <2>2, <2>3, <2>4 DEF ImageStep, Next
<1> QED  BY <1>1, <1>2

\* The image implements SlotStore: its metadata copies are written, lost and
\* found again as that says, whatever the edits, payloads and names are.
THEOREM ImageKeepsSlots == ImageSpec => Spec
<1>1. ImageInit => Init
  BY DEF ImageInit
<1>2. [ImageNext]_imageVars => [Next]_vars
  BY ImageStepIsStep
<1> QED  BY <1>1, <1>2, PTL DEF ImageSpec, Spec

\* So one interruption loses nothing in it either.
THEOREM ImageRecovers == ImageSpec => []Recoverable
BY ImageKeepsSlots, OneInterruptionLosesNothing, PTL

\* In every image that commands make, whatever is loaded in it: a request that
\* an editing command accepts without --slot means the same partition to the
\* commands that read.
THEOREM ReadsAgree == ImageSpec => []ReadsWhatItEdits
<1>1. ReadsWhatItEdits
  <2>1. DOMAIN Loaded({}) \subseteq Nat
    BY GeometryAssumption DEF Loaded, NamesIn, Slots
  <2> QED  BY <2>1, RequestsAgree DEF ReadsWhatItEdits
<1> QED  BY <1>1, PTL
----------------------------------------------------------------------------
\* What the sectors hold: the inductive invariant.

CellType == [at : Sectors, holds : Contents]
CellsOf(table) == UNION {SeqX!ToSet(table[n]) : n \in DOMAIN table}

\* A table of which every partition has at least one sector.
IsFull(table) == IsTable(table) /\ \A n \in DOMAIN table : table[n] # <<>>

\* What slot s is promised at a cell is there, or the slot is excused.
Held(s, c) == c.holds \in {Anything, disk[c.at]} \/ Excused(s, disk[c.at])
Whole(s, table) == \A c \in CellsOf(table) : Held(s, c)

JobTyped(p) ==
  /\ job[p] = [table |-> job[p].table, payload |-> job[p].payload]
  /\ IsFull(job[p].table)
  /\ job[p].payload \in Seq(CellType)
  /\ pc[p] # Ready => PayloadWritten(p)
  /\ pc[p] \in {Idle, Refused} => job[p] = NoJob

ImageTypes ==
  /\ DOMAIN tables = CopyOffsets /\ \A o \in CopyOffsets : IsFull(tables[o])
  /\ \A o \in CopyOffsets : area[o] = Torn => tables[o] = NoTable
  /\ disk \in [Sectors -> Contents]
  /\ blind \subseteq Slots
  /\ job = [p \in Procs |-> job[p]]
  /\ \A p \in Procs : JobTyped(p)

BlindSeen == Slots \ LoadsNow \subseteq blind

\* A primary copy, however many writes were interrupted.
PrimariesWhole ==
  \A s \in Slots : area[PrimaryOffset(s)] # Torn => Whole(s, tables[PrimaryOffset(s)])

\* A backup copy is needed while the primary is torn; after one interrupted
\* write it can be relied on until the next one begins.
Once(s) == hits[s] = 0 \/ (hits[s] = 1 /\ Quiet(s))
BackupsWhole ==
  \A s \in Slots :
    area[PrimaryOffset(s)] = Torn /\ area[BackupOffset(s)] # Torn /\ Once(s) =>
      Whole(s, tables[BackupOffset(s)])
CopiesAlike ==
  \A s \in Slots :
    hits[s] = 0 /\ Quiet(s) => tables[PrimaryOffset(s)] = tables[BackupOffset(s)]

\* A command writes its payload where the copy it loaded has nothing, and no
\* other slot can blame it; what its new table promises is there, or is what
\* it has still to write.
JobSound(p) ==
  LET e == Current(p)
      payload == SeqX!ToSet(job[p].payload)
  IN /\ Len(todo[p]) = 1
     /\ \A d \in payload : /\ d.holds.slot = e.slot
                           /\ d.holds.told \/ Slots \ {e.slot} \subseteq blind
                           /\ d.at \notin Used(tables[e.offset])
     /\ \A c \in CellsOf(job[p].table), d \in payload : c.at = d.at => c = d
     /\ e.offset = PrimaryOffset(e.slot) =>
          \A c \in CellsOf(job[p].table) : Held(e.slot, c) \/ c \in payload
     /\ pc[p] \in {Between, Backup} => tables[PrimaryOffset(e.slot)] = job[p].table
AtWork(p) == pc[p] \in {Ready} \cup Writing
JobsSound == \A p \in Procs : AtWork(p) => JobSound(p)

ImageInvariant ==
  /\ CopiesInvariant /\ ImageTypes /\ BlindSeen
  /\ PrimariesWhole /\ BackupsWhole /\ CopiesAlike /\ JobsSound

----------------------------------------------------------------------------
\* Tables and their cells.

LEMMA CellsPointwise ==
  ASSUME NEW table, NEW c
  PROVE  c \in CellsOf(table) <=> \E n \in DOMAIN table : \E i \in DOMAIN table[n] : c = table[n][i]
BY DEF CellsOf, SeqX!ToSet

LEMMA UsedPointwise ==
  ASSUME NEW table, NEW x
  PROVE  x \in Used(table) <=> \E c \in CellsOf(table) : x = c.at
BY DEF Used, CellsOf

LEMMA CellsTyped ==
  ASSUME NEW table, IsFull(table), NEW c \in CellsOf(table)
  PROVE  c \in CellType
<1>1. PICK n \in DOMAIN table : \E i \in DOMAIN table[n] : c = table[n][i]
  BY CellsPointwise
<1>2. table[n] \in Seq(CellType)
  BY DEF IsFull, IsTable, CellType
<1> QED
  BY <1>1, <1>2, ElementOfSeq

LEMMA NoTableEmpty == IsFull(NoTable) /\ CellsOf(NoTable) = {} /\ Used(NoTable) = {}
<1>1. DOMAIN NoTable = {}
  BY DEF NoTable
<1> QED
  BY <1>1 DEF IsFull, IsTable, CellsOf, Used

\* A table with one partition more, or one changed.
LEMMA WithSound ==
  ASSUME NEW table, IsFull(table), NEW name \in Names, NEW cells \in Seq(CellType), cells # <<>>
  PROVE  /\ IsFull(With(table, name, cells))
         /\ \A c \in CellsOf(With(table, name, cells)) : c \in CellsOf(table) \cup SeqX!ToSet(cells)
<1> DEFINE new == With(table, name, cells)
<1>1. DOMAIN new = DOMAIN table \cup {name} /\ new[name] = cells
      /\ \A n \in DOMAIN table : n # name => new[n] = table[n]
  BY DEF With
<1> HIDE DEF new
<1>2. IsFull(new)
  BY <1>1 DEF IsFull, IsTable, CellType
<1>3. ASSUME NEW c \in CellsOf(new)
      PROVE  c \in CellsOf(table) \cup SeqX!ToSet(cells)
  <2>1. PICK n \in DOMAIN new : c \in SeqX!ToSet(new[n])
    BY DEF CellsOf
  <2>2. CASE n = name
    BY <1>1, <2>1, <2>2
  <2>3. CASE n # name
    <3>1. n \in DOMAIN table /\ c \in SeqX!ToSet(table[n])
      BY <1>1, <2>1, <2>3
    <3> QED
      BY <3>1 DEF CellsOf
  <2> QED
    BY <2>2, <2>3
<1> QED
  BY <1>2, <1>3 DEF new

LEMMA WithoutSound ==
  ASSUME NEW table, IsFull(table), NEW name
  PROVE  /\ IsFull(Without(table, name))
         /\ \A c \in CellsOf(Without(table, name)) : c \in CellsOf(table)
BY DEF Without, IsFull, IsTable, CellsOf

LEMMA CellsSubSeq ==
  ASSUME NEW cells \in Seq(CellType), NEW len \in Nat \ {0}, len <= Len(cells)
  PROVE  /\ SubSeq(cells, 1, len) \in Seq(CellType) /\ SubSeq(cells, 1, len) # <<>>
         /\ \A c \in SeqX!ToSet(SubSeq(cells, 1, len)) : c \in SeqX!ToSet(cells)
<1> DEFINE s == SubSeq(cells, 1, len)
<1>1. Len(cells) \in Nat /\ DOMAIN cells = 1 .. Len(cells)
      /\ \A i \in 1 .. len : cells[i] \in CellType
  BY LenProperties, ElementOfSeq
<1>2. s \in Seq(CellType) /\ Len(s) = len /\ \A i \in 1 .. len : s[i] = cells[i]
  BY <1>1, SubSeqProperties
<1>3. DOMAIN s = 1 .. len
  BY <1>2, LenProperties
<1> HIDE DEF s
<1>4. s # <<>>
  BY <1>2
<1>5. ASSUME NEW c \in SeqX!ToSet(s) PROVE c \in SeqX!ToSet(cells)
  <2>1. PICK i \in 1 .. len : c = s[i]
    BY <1>3 DEF SeqX!ToSet
  <2>2. i \in DOMAIN cells /\ c = cells[i]
    BY <1>1, <1>2, <2>1
  <2> QED
    BY <2>2 DEF SeqX!ToSet
<1> QED
  BY <1>2, <1>4, <1>5 DEF s

LEMMA CellsConcat ==
  ASSUME NEW cells \in Seq(CellType), cells # <<>>, NEW more \in Seq(CellType)
  PROVE  /\ cells \o more \in Seq(CellType) /\ cells \o more # <<>>
         /\ \A c \in SeqX!ToSet(cells \o more) : c \in SeqX!ToSet(cells) \cup SeqX!ToSet(more)
<1> DEFINE s == cells \o more
<1>1. Len(cells) \in Nat /\ DOMAIN cells = 1 .. Len(cells) /\ Len(cells) > 0
      /\ Len(more) \in Nat /\ DOMAIN more = 1 .. Len(more)
  BY LenProperties, EmptySeq
<1>2. s \in Seq(CellType) /\ Len(s) = Len(cells) + Len(more)
      /\ \A i \in 1 .. Len(cells) + Len(more) :
           s[i] = IF i <= Len(cells) THEN cells[i] ELSE more[i - Len(cells)]
  BY ConcatProperties
<1>3. DOMAIN s = 1 .. Len(s)
  BY <1>2, LenProperties
<1> HIDE DEF s
<1>4. s # <<>>
  BY <1>1, <1>2
<1>5. ASSUME NEW c \in SeqX!ToSet(s) PROVE c \in SeqX!ToSet(cells) \cup SeqX!ToSet(more)
  <2>1. PICK i \in 1 .. Len(s) : c = s[i]
    BY <1>3 DEF SeqX!ToSet
  <2>2. CASE i <= Len(cells)
    <3>1. i \in DOMAIN cells /\ c = cells[i]
      BY <1>1, <1>2, <2>1, <2>2
    <3> QED
      BY <3>1 DEF SeqX!ToSet
  <2>3. CASE ~(i <= Len(cells))
    <3>1. i - Len(cells) \in DOMAIN more /\ c = more[i - Len(cells)]
      BY <1>1, <1>2, <2>1, <2>3
    <3> QED
      BY <3>1 DEF SeqX!ToSet
  <2> QED
    BY <2>2, <2>3
<1> QED
  BY <1>2, <1>4, <1>5 DEF s

\* A run of sectors, with what is promised there.
LEMMA RunSound ==
  ASSUME NEW start \in Int, NEW len \in Nat \ {0}, NEW content \in Contents,
         \A x \in start .. start + len - 1 : x \in Sectors
  PROVE  LET run == Cells(Run(start, len), content)
         IN /\ run \in Seq(CellType) /\ run # <<>>
            /\ \A c \in SeqX!ToSet(run) : c.holds = content /\ c.at \in start .. start + len - 1
            /\ \A c, d \in SeqX!ToSet(run) : c.at = d.at => c = d
<1> DEFINE run == Cells(Run(start, len), content)
<1>1. run = [k \in 1 .. len |-> [at |-> start + k - 1, holds |-> content]]
  BY DEF Cells, Run
<1> HIDE DEF run
<1>2. \A k \in 1 .. len : start + k - 1 \in start .. start + len - 1
  OBVIOUS
<1>3. \A k \in 1 .. len : run[k] = [at |-> start + k - 1, holds |-> content] /\ run[k] \in CellType
  BY <1>1, <1>2 DEF CellType
<1>4. run \in [1 .. len -> CellType]
  BY <1>1, <1>3
<1>5. run \in Seq(CellType) /\ run # <<>>
  <2>1. 1 \in DOMAIN run /\ DOMAIN <<>> = {}
    BY <1>4
  <2>2. run \in Seq(CellType)
    BY <1>4
  <2> QED
    BY <2>1, <2>2
<1>6. \A c \in SeqX!ToSet(run) : \E k \in 1 .. len : c = [at |-> start + k - 1, holds |-> content]
  BY <1>1 DEF SeqX!ToSet
<1>7. \A c \in SeqX!ToSet(run) : c.holds = content /\ c.at \in start .. start + len - 1
  BY <1>2, <1>6
<1>8. \A c, d \in SeqX!ToSet(run) : c.at = d.at => c = d
  BY <1>6
<1> QED
  BY <1>5, <1>7, <1>8 DEF run

\* The allocator's answer is a run of sectors that the table does not give out.
LEMMA PlaceSound ==
  ASSUME NEW table, IsFull(table), NEW len \in Nat \ {0}, NEW start \in Place(table, len)
  PROVE  start \in Nat /\ \A x \in start .. start + len - 1 : x \in Sectors \ Used(table)
<1> DEFINE exts == [x \in Used(table) |->
                      [num |-> 1, type |-> Alloc!Linear, data |-> x, source |-> 0]]
<1>1. /\ Dev.first \in Nat /\ Dev.size \in Nat
      /\ Alloc!Limit(Dev) \in Nat
  <2>1. Dev.first \in Nat /\ Dev.size \in Nat
    BY MadeAssumption
  <2> QED
    BY <2>1 DEF Alloc!Limit, Alloc!SECTOR
<1>2. start \in Sectors /\ Alloc!IsRangeFree(exts, <<Dev>>, 0, start, len)
  BY DEF Place, Alloc!FirstFit, Alloc!FreeStarts
<1>3. Alloc!Device(<<Dev>>, 0) = Dev
  BY DEF Alloc!Device
<1>4. start \in Nat /\ Dev.first <= start /\ start < Alloc!Limit(Dev)
  BY <1>1, <1>2 DEF Sectors
<1>5. start + len <= Alloc!Limit(Dev)
  BY <1>1, <1>2, <1>3, <1>4 DEF Alloc!IsRangeFree
<1>6. \A x \in start .. start + len - 1 : x \in Sectors
  BY <1>1, <1>4, <1>5 DEF Sectors
<1>7. ASSUME NEW x \in Used(table), x \in start .. start + len - 1 PROVE FALSE
  <2>1. /\ Alloc!OnDevice(exts[x], 0) /\ exts[x].num = 1 /\ exts[x].data = x
    BY DEF Alloc!OnDevice
  <2>2. ~Alloc!Meets(exts[x], start, len)
    BY <1>2, <2>1 DEF Alloc!IsRangeFree
  <2> HIDE DEF exts
  <2> QED
    BY <1>4, <1>7, <2>1, <2>2 DEF Alloc!Meets, Alloc!End
<1> QED
  BY <1>4, <1>6, <1>7

----------------------------------------------------------------------------
\* Commands at work.

LEMMA PcTypes ==
  ASSUME CopiesInvariant
  PROVE  /\ pc \in [Procs -> {Idle, Ready, Refused} \cup Writing]
         /\ todo \in [Procs -> Seq(Entry)]
         /\ hits \in [Slots -> Nat] /\ DOMAIN area = CopyOffsets
         /\ \A p \in Procs : (todo[p] # <<>>) = AtWork(p)
BY DEF CopiesInvariant, TypeOK, AtWork

LEMMA WorkFacts ==
  ASSUME CopiesInvariant, NEW p \in Procs, AtWork(p)
  PROVE  /\ 1 \in DOMAIN todo[p] /\ Current(p) = todo[p][1]
         /\ Current(p) \in Entry /\ Current(p).slot \in Slots
         /\ Current(p).offset \in {PrimaryOffset(Current(p).slot), BackupOffset(Current(p).slot)}
         /\ Current(p).offset \in CopyOffsets
         /\ pc[p] = Ready => Current(p).offset \in FindMetadataForSlot(Current(p).slot)
         /\ pc[p] \in Writing => /\ Current(p).offset = PrimaryOffset(Current(p).slot)
                                 /\ Target(p) = Current(p).slot
<1>1. todo[p] \in Seq(Entry) /\ todo[p] # <<>>
  BY PcTypes
<1>2. 1 \in DOMAIN todo[p] /\ Current(p) = todo[p][1] /\ Current(p) \in Entry
  BY <1>1, HeadTailProperties, LenProperties, ElementOfSeq, EmptySeq DEF Current
<1>3. Current(p).slot \in Slots /\ Current(p).offset \in CopyOffsets
  BY <1>2 DEF Entry
<1>4. CASE pc[p] = Ready
  <2>1. Current(p).offset \in FindMetadataForSlot(Current(p).slot)
    BY <1>2, <1>4 DEF CopiesInvariant, LoadedStillThere, AsFound
  <2>2. Ready \notin Writing
    BY DEF Ready, Writing, Primary, Between, Backup
  <2> QED
    BY <1>2, <1>3, <1>4, <2>1, <2>2 DEF FindMetadataForSlot
<1>5. CASE pc[p] \in Writing
  <2>1. Ready \notin Writing
    BY DEF Ready, Writing, Primary, Between, Backup
  <2> QED
    BY <1>2, <1>3, <1>5, <2>1, CurrentEntry
<1> QED
  BY <1>4, <1>5 DEF AtWork

LEMMA WorkApart ==
  ASSUME CopiesInvariant, NEW p \in Procs, NEW q \in Procs, AtWork(p), AtWork(q), p # q
  PROVE  Current(p).slot # Current(q).slot
BY WorkFacts DEF CopiesInvariant, WorkDistinct

LEMMA ReadyIsQuiet ==
  ASSUME CopiesInvariant, NEW p \in Procs, pc[p] = Ready
  PROVE  AtWork(p) /\ Quiet(Current(p).slot) /\ pc[p] \notin Writing
<1>1. AtWork(p) /\ Ready \notin Writing
  BY DEF AtWork, Ready, Writing, Primary, Between, Backup
<1> QED
  BY <1>1, WorkApart DEF Quiet, AtWork

\* What is held stays held: the sector keeps its content, or its new content
\* is no concern of the slot's.
LEMMA HeldStays ==
  ASSUME NEW s, NEW c, Held(s, c), blind \subseteq blind',
         \/ disk'[c.at] = disk[c.at]
         \/ disk'[c.at].slot # s /\ (disk'[c.at].told \/ s \in blind')
  PROVE  Held(s, c)'
BY DEF Held, Excused

\* A step of p leaves the other commands as they are: their slots' copies are
\* not touched, and what they hold they keep.
LEMMA OthersKept ==
  ASSUME ImageInvariant, NEW p \in Procs, blind \subseteq blind',
         \A q \in Procs \ {p} : pc'[q] = pc[q] /\ todo'[q] = todo[q] /\ job'[q] = job[q],
         \A q \in Procs \ {p} : AtWork(q) =>
           /\ tables'[PrimaryOffset(Current(q).slot)] = tables[PrimaryOffset(Current(q).slot)]
           /\ tables'[BackupOffset(Current(q).slot)] = tables[BackupOffset(Current(q).slot)]
           /\ \A c \in CellType : Held(Current(q).slot, c) => Held(Current(q).slot, c)'
  PROVE  \A q \in Procs \ {p} : AtWork(q)' => JobSound(q)'
<1> SUFFICES ASSUME NEW q \in Procs \ {p}, AtWork(q)'
             PROVE  JobSound(q)'
  OBVIOUS
<1> DEFINE e == Current(q)
<1>1. AtWork(q) /\ JobSound(q) /\ IsFull(job[q].table)
  BY DEF AtWork, ImageInvariant, JobsSound, ImageTypes, JobTyped
<1>2. Current(q)' = e /\ e.slot \in Slots /\ e.offset \in {PrimaryOffset(e.slot), BackupOffset(e.slot)}
  BY <1>1, WorkFacts DEF Current, ImageInvariant
<1>3. /\ tables'[e.offset] = tables[e.offset]
      /\ tables'[PrimaryOffset(e.slot)] = tables[PrimaryOffset(e.slot)]
      /\ \A c \in CellType : Held(e.slot, c) => Held(e.slot, c)'
  BY <1>1, <1>2
<1>4. job'[q] = job[q] /\ todo'[q] = todo[q] /\ pc'[q] = pc[q]
  OBVIOUS
<1>5. \A c \in CellsOf(job[q].table) : c \in CellType
  BY <1>1, CellsTyped
<1>6. \A o : PrimaryOffset(o)' = PrimaryOffset(o)
  BY DEF PrimaryOffset
<1> HIDE DEF e
<1> QED
  BY <1>1, <1>2, <1>3, <1>4, <1>5, <1>6 DEF JobSound, Used, CellsOf, e

----------------------------------------------------------------------------
\* The steps.

ContentsSound ==
  ImageTypes /\ PrimariesWhole /\ BackupsWhole /\ CopiesAlike /\ JobsSound

\* The copies and the sectors stay, and no slot comes to rest.
LEMMA CopiesStayWhole ==
  ASSUME ImageInvariant, UNCHANGED <<area, tables, disk>>, blind \subseteq blind',
         \A s \in Slots : /\ Once(s)' => Once(s)
                          /\ hits'[s] = 0 /\ Quiet(s)' => hits[s] = 0 /\ Quiet(s)
  PROVE  PrimariesWhole' /\ BackupsWhole' /\ CopiesAlike'
<1>1. \A s, c : Held(s, c) => Held(s, c)'
  BY HeldStays
<1>2. \A s, o : Whole(s, tables[o]) => Whole(s, tables[o])'
  BY <1>1 DEF Whole, CellsOf
<1>3. PrimariesWhole'
  BY <1>2 DEF ImageInvariant, PrimariesWhole, PrimaryOffset
<1>4. BackupsWhole'
  BY <1>2 DEF ImageInvariant, BackupsWhole, PrimaryOffset, BackupOffset
<1>5. CopiesAlike'
  BY DEF ImageInvariant, CopiesAlike, PrimaryOffset, BackupOffset
<1> QED
  BY <1>3, <1>4, <1>5

\* Which slots are being written when p goes from one pause to another.
LEMMA QuietAside ==
  ASSUME NEW p \in Procs, pc[p] \notin Writing, pc'[p] \notin Writing,
         \A q \in Procs \ {p} : pc'[q] = pc[q] /\ todo'[q] = todo[q],
         NEW s
  PROVE  Quiet(s)' <=> Quiet(s)
BY DEF Quiet, Current

\* What an edit of slot s makes of its table: new cells promise what the
\* payload writes, which is at sectors of no partition, or nothing.
Edit(s, edited, payload) ==
  LET written == SeqX!ToSet(payload)
  IN /\ IsFull(edited)
     /\ payload \in Seq(CellType)
     /\ \A d \in written : /\ d.holds.slot = s
                           /\ d.holds.told \/ Slots \ {s} \subseteq blind
                           /\ d.at \notin Used(TableOf(s))
     /\ \A c \in CellsOf(edited) :
          c \in CellsOf(TableOf(s)) \/ c.holds = Anything \/ c \in written
     /\ \A c \in CellsOf(edited), d \in written : c.at = d.at => c = d

LEMMA LoadedFacts ==
  ASSUME ImageInvariant, NEW s \in Slots, FindMetadataForSlot(s) # {}
  PROVE  /\ LoadedOffset(s) \in FindMetadataForSlot(s) /\ LoadedOffset(s) \in CopyOffsets
         /\ IsFull(TableOf(s))
         /\ LoadedOffset(s) = PrimaryOffset(s) => Whole(s, TableOf(s))
<1>1. LoadedOffset(s) \in FindMetadataForSlot(s)
  BY DEF LoadedOffset, FindMetadataForSlot, CopyOffsets
<1>2. LoadedOffset(s) \in CopyOffsets /\ area[LoadedOffset(s)] # Torn
  BY <1>1, FoundCopies DEF ImageInvariant, CopiesInvariant, FindMetadataForSlot
<1>3. IsFull(TableOf(s))
  BY <1>2 DEF TableOf, ImageInvariant, ImageTypes, JobTyped
<1>4. LoadedOffset(s) = PrimaryOffset(s) => Whole(s, TableOf(s))
  BY <1>2 DEF TableOf, ImageInvariant, PrimariesWhole
<1> QED
  BY <1>1, <1>2, <1>3, <1>4

LEMMA BeginKept ==
  ASSUME ImageInvariant, NEW p \in Procs, NEW s \in Slots, FindMetadataForSlot(s) # {},
         NEW edited, NEW payload, Edit(s, edited, payload), Begin(p, s, edited, payload),
         blind \subseteq blind', blind' \subseteq Slots
  PROVE  ContentsSound'
<1> DEFINE e == [slot |-> s, offset |-> LoadedOffset(s), version |-> area[LoadedOffset(s)]]
<1>1. /\ pc[p] = Idle /\ pc' = [pc EXCEPT ![p] = Ready] /\ todo' = [todo EXCEPT ![p] = <<e>>]
      /\ job' = [job EXCEPT ![p] = [table |-> edited, payload |-> payload]]
      /\ UNCHANGED <<area, tables, disk, hits>>
  BY DEF Begin, Start
<1>2. /\ pc'[p] = Ready /\ todo'[p] = <<e>>
      /\ job'[p] = [table |-> edited, payload |-> payload]
      /\ \A q \in Procs \ {p} : pc'[q] = pc[q] /\ todo'[q] = todo[q] /\ job'[q] = job[q]
      /\ job' = [q \in Procs |-> job'[q]]
  <2>1. DOMAIN pc = Procs /\ DOMAIN todo = Procs /\ DOMAIN job = Procs
    BY PcTypes DEF ImageInvariant, ImageTypes, JobTyped
  <2> QED
    BY <1>1, <2>1
<1>3. Idle \notin Writing /\ Ready \notin Writing
  BY DEF Idle, Ready, Writing, Primary, Between, Backup
<1>4. \A t : Quiet(t)' <=> Quiet(t)
  BY <1>1, <1>2, <1>3, QuietAside
<1>5. PrimariesWhole' /\ BackupsWhole' /\ CopiesAlike'
  BY <1>1, <1>4, CopiesStayWhole DEF Once
<1>6. \A q \in Procs \ {p} : AtWork(q)' => JobSound(q)'
  <2>1. \A t, c : Held(t, c) => Held(t, c)'
    BY <1>1, HeldStays
  <2>2. \A q \in Procs \ {p} : pc'[q] = pc[q] /\ todo'[q] = todo[q] /\ job'[q] = job[q]
    BY <1>2
  <2>3. \A q \in Procs \ {p} : AtWork(q) =>
           /\ tables'[PrimaryOffset(Current(q).slot)] = tables[PrimaryOffset(Current(q).slot)]
           /\ tables'[BackupOffset(Current(q).slot)] = tables[BackupOffset(Current(q).slot)]
           /\ \A c \in CellType : Held(Current(q).slot, c) => Held(Current(q).slot, c)'
    <3>1. \A q \in Procs \ {p} : Current(q)' = Current(q)
      BY <1>2 DEF Current
    <3> QED
      BY <1>1, <2>1, <3>1
  <2> HIDE DEF e
  <2> QED
    BY <2>2, <2>3, OthersKept
<1>7. JobSound(p)'
  <2>1. Current(p)' = e /\ Len(todo'[p]) = 1
    BY <1>2 DEF Current
  <2>2. e.slot = s /\ e.offset = LoadedOffset(s)
    OBVIOUS
  <2>3. TableOf(s) = tables[LoadedOffset(s)]
    BY DEF TableOf
  <2>4. /\ \A d \in SeqX!ToSet(payload) :
             /\ d.holds.slot = s
             /\ d.holds.told \/ Slots \ {s} \subseteq blind'
             /\ d.at \notin Used(tables'[e.offset])
        /\ \A c \in CellsOf(edited), d \in SeqX!ToSet(payload) : c.at = d.at => c = d
    BY <1>1, <2>2, <2>3 DEF Edit
  <2>5. ASSUME e.offset = PrimaryOffset(s), NEW c \in CellsOf(edited)
        PROVE  Held(s, c)' \/ c \in SeqX!ToSet(payload)
    <3>1. CASE c \in CellsOf(TableOf(s))
      <4>1. Held(s, c)
        BY <2>5, <3>1, LoadedFacts DEF Whole
      <4> QED
        BY <1>1, <4>1, HeldStays
    <3>2. CASE c.holds = Anything
      BY <3>2 DEF Held
    <3> QED
      BY <3>1, <3>2 DEF Edit
  <2>6. pc'[p] \notin {Between, Backup}
    BY <1>2, <1>3 DEF Writing
  <2>7. job'[p].table = edited /\ job'[p].payload = payload
    BY <1>2
  <2>8. PrimaryOffset(s)' = PrimaryOffset(s)
    BY DEF PrimaryOffset
  <2> HIDE DEF e
  <2> QED
    BY <2>1, <2>2, <2>4, <2>5, <2>6, <2>7, <2>8 DEF JobSound, CellsOf, Used
<1>8. JobsSound'
  BY <1>6, <1>7 DEF JobsSound
<1>9. ImageTypes'
  <2>1. Ready # Idle /\ Ready # Refused
    BY DEF Ready, Idle, Refused
  <2>2. ASSUME NEW q \in Procs
        PROVE  JobTyped(q)'
    <3>1. CASE q = p
      BY <1>2, <2>1, <3>1 DEF Edit, JobTyped
    <3>2. CASE q # p
      BY <1>2, <3>2 DEF ImageInvariant, ImageTypes, JobTyped, PayloadWritten
    <3> QED
      BY <3>1, <3>2
  <2> QED
    BY <1>1, <1>2, <2>2 DEF ImageInvariant, ImageTypes, JobTyped
<1> QED
  BY <1>5, <1>8, <1>9 DEF ContentsSound

----------------------------------------------------------------------------
\* Each command edits its table so.
EditBegins(p, s) ==
  \E edited, payload : Edit(s, edited, payload) /\ Begin(p, s, edited, payload)

LEMMA PayloadTyped ==
  ASSUME ImageInvariant, NEW p \in Procs, NEW s \in Slots, FindMetadataForSlot(s) # {},
         NEW edited, NEW payload, Begin(p, s, edited, payload), NEW told \in BOOLEAN
  PROVE  /\ Payload(area[LoadedOffset(s)] + 1, s, told) \in Contents
         /\ Payload(area[LoadedOffset(s)] + 1, s, told).slot = s
         /\ Payload(area[LoadedOffset(s)] + 1, s, told).told = told
<1> DEFINE v == area[LoadedOffset(s)]
           e == [slot |-> s, offset |-> LoadedOffset(s), version |-> v]
<1>1. Start(p, <<e>>)
  BY DEF Begin
<1>2. 1 \in DOMAIN <<e>> /\ <<e>>[1] = e
  OBVIOUS
<1>3. e.version < MaxVersion
  BY <1>1, <1>2 DEF Start
<1>4. v \in Versions
  BY LoadedFacts, FoundCopies DEF ImageInvariant, CopiesInvariant
<1> HIDE DEF v
<1>5. v + 1 \in Versions
  BY <1>3, <1>4, VersionAssumption DEF Versions
<1> QED
  BY <1>5 DEF Payload, Contents, v

LEMMA AnythingTyped == Anything \in Contents
BY GeometryAssumption DEF Anything, Payload, Contents, Slots

\* A run added to a table, of which nothing or all is to be written.
LEMMA NewRunEdits ==
  ASSUME NEW s \in Slots, IsFull(TableOf(s)), NEW name \in Names,
         NEW len \in Nat \ {0}, NEW start \in Place(TableOf(s), len), NEW content \in Contents,
         NEW payload,
         \/ payload = <<>> /\ content = Anything
         \/ /\ payload = Cells(Run(start, len), content)
            /\ content.slot = s
            /\ content.told \/ Slots \ {s} \subseteq blind
  PROVE  Edit(s, With(TableOf(s), name, Cells(Run(start, len), content)), payload)
<1> DEFINE table == TableOf(s)
           run == Cells(Run(start, len), content)
           edited == With(table, name, run)
<1>1. start \in Nat /\ \A x \in start .. start + len - 1 : x \in Sectors \ Used(table)
  BY PlaceSound
<1>2. /\ run \in Seq(CellType) /\ run # <<>>
      /\ \A c \in SeqX!ToSet(run) : c.holds = content /\ c.at \in start .. start + len - 1
      /\ \A c, d \in SeqX!ToSet(run) : c.at = d.at => c = d
  BY <1>1, RunSound
<1> HIDE DEF run, table
<1>3. /\ IsFull(edited)
      /\ \A c \in CellsOf(edited) : c \in CellsOf(table) \cup SeqX!ToSet(run)
  BY <1>2, WithSound DEF table
<1>4. \A d \in SeqX!ToSet(run) : d.at \notin Used(table)
  BY <1>1, <1>2
<1>5. \A c \in CellsOf(table), d \in SeqX!ToSet(run) : c.at # d.at
  BY <1>4, UsedPointwise
<1>6. SeqX!ToSet(<<>>) = {}
  BY DEF SeqX!ToSet
<1> HIDE DEF edited
<1>7. CASE payload = <<>> /\ content = Anything
  <2>1. \A c \in CellsOf(edited) : c \in CellsOf(table) \/ c.holds = Anything
    BY <1>2, <1>3, <1>7
  <2>2. payload \in Seq(CellType)
    BY <1>7
  <2> QED
    BY <1>3, <1>6, <1>7, <2>1, <2>2 DEF Edit, edited, run, table
<1>8. CASE /\ payload = run
           /\ content.slot = s
           /\ content.told \/ Slots \ {s} \subseteq blind
  <2>1. \A d \in SeqX!ToSet(payload) : /\ d.holds.slot = s
                                       /\ d.holds.told \/ Slots \ {s} \subseteq blind
                                       /\ d.at \notin Used(TableOf(s))
    BY <1>2, <1>4, <1>8 DEF table
  <2>2. \A c \in CellsOf(edited), d \in SeqX!ToSet(payload) : c.at = d.at => c = d
    BY <1>2, <1>3, <1>5, <1>8
  <2>3. \A c \in CellsOf(edited) :
          c \in CellsOf(TableOf(s)) \/ c.holds = Anything \/ c \in SeqX!ToSet(payload)
    BY <1>3, <1>8 DEF table
  <2>4. Edit(s, edited, payload)
    BY <1>2, <1>3, <1>8, <2>1, <2>2, <2>3 DEF Edit
  <2> QED
    BY <2>4 DEF edited, run, table
<1> QED
  BY <1>7, <1>8 DEF run

\* A command that was not told its slot adds to the only one that loads.
LEMMA UntoldIsAlone ==
  ASSUME BlindSeen, NEW s \in ResolveNewSlot(Loaded({}), {})
  PROVE  Slots \ {s} \subseteq blind
<1>1. DOMAIN Loaded({}) = {r \in Slots : FindMetadataForSlot(r) # {}}
  BY DEF Loaded, NamesIn
<1>2. \A r \in Slots : FindMetadataForSlot(r) # {} => r = s
  BY <1>1 DEF ResolveNewSlot, Only
<1>3. \A r \in LoadsNow : FindMetadataForSlot(r) # {}
  BY DEF LoadsNow, Loadable
<1> QED
  BY <1>2, <1>3 DEF BlindSeen

LEMMA AddEdits ==
  ASSUME ImageInvariant, NEW p \in Procs, NEW slot \in SlotOptions,
         NEW s \in ResolveNewSlot(Loaded(slot), slot), NEW name \in NewNames, NEW len \in Sizes,
         Add(p, s, name, len, slot # {})
  PROVE  EditBegins(p, s)
<1> DEFINE content == Payload(area[LoadedOffset(s)] + 1, s, slot # {})
<1>1. PICK start \in Place(TableOf(s), len) :
        LET run == Cells(Run(start, len), content)
        IN Begin(p, s, With(TableOf(s), name, run), run)
  BY DEF Add
<1>2. s \in Slots /\ FindMetadataForSlot(s) # {}
  BY NewSlotLoads
<1>3. content \in Contents /\ content.slot = s /\ content.told = (slot # {})
  BY <1>1, <1>2, PayloadTyped
<1>4. content.told \/ Slots \ {s} \subseteq blind
  BY <1>3, UntoldIsAlone DEF ImageInvariant
<1>5. name \in Names /\ len \in Nat \ {0}
  BY MadeAssumption
<1> HIDE DEF content
<1>6. Edit(s, With(TableOf(s), name, Cells(Run(start, len), content)),
           Cells(Run(start, len), content))
  BY <1>2, <1>3, <1>4, <1>5, LoadedFacts, NewRunEdits
<1> QED
  BY <1>1, <1>6 DEF EditBegins

LEMMA CreateEdits ==
  ASSUME ImageInvariant, NEW p \in Procs, NEW slot \in SlotOptions,
         NEW s \in ResolveNewSlot(Loaded(slot), slot), NEW name \in NewNames, NEW len \in Sizes,
         Create(p, s, name, len)
  PROVE  EditBegins(p, s)
<1>1. PICK start \in Place(TableOf(s), len) :
        Begin(p, s, With(TableOf(s), name, Cells(Run(start, len), Anything)), <<>>)
  BY DEF Create
<1>2. s \in Slots /\ FindMetadataForSlot(s) # {}
  BY NewSlotLoads
<1>3. name \in Names /\ len \in Nat \ {0}
  BY MadeAssumption
<1>4. Edit(s, With(TableOf(s), name, Cells(Run(start, len), Anything)), <<>>)
  BY <1>2, <1>3, AnythingTyped, LoadedFacts, NewRunEdits
<1> QED
  BY <1>1, <1>4 DEF EditBegins

\* What the other commands edit is a partition of the table they loaded.
LEMMA EditableFacts ==
  ASSUME ImageInvariant, NEW slot \in SlotOptions, NEW f \in Editable(slot) \cup Renamable(slot)
  PROVE  /\ f.slot \in Slots /\ FindMetadataForSlot(f.slot) # {}
         /\ IsFull(TableOf(f.slot))
         /\ f.part \in DOMAIN TableOf(f.slot)
<1>1. f.slot \in Slots /\ FindMetadataForSlot(f.slot) # {}
  BY EditableLoads
<1>2. PICK s, n, name, suffix :
        /\ s \in ResolveWriteSlot(Loaded(slot), name, suffix, slot)
        /\ n \in ResolvePartition(Loaded(slot)[s], name, suffix) \/ n \in Loaded(slot)[s]
        /\ f = At(s, n)
  <2>1. CASE f \in Editable(slot)
    <3>1. PICK name, suffix : f \in WriteTarget(Loaded(slot), name, suffix, slot)
      BY <2>1 DEF Editable
    <3> QED
      BY <3>1 DEF WriteTarget
  <2>2. CASE f \in Renamable(slot)
    <3>1. PICK name, suffix : f \in RenameTarget(Loaded(slot), name, suffix, slot)
      BY <2>2 DEF Renamable
    <3> QED
      BY <3>1 DEF RenameTarget
  <2> QED
    BY <2>1, <2>2
<1>3. f.slot = s /\ f.part = n
  BY <1>2 DEF At
<1>4. s \in DOMAIN Loaded(slot)
  BY <1>2 DEF ResolveWriteSlot, WriteHits, Only
<1>5. Loaded(slot)[s] = DOMAIN TableOf(s)
  BY <1>4 DEF Loaded, NamesIn
<1>6. n \in Loaded(slot)[s]
  BY <1>2 DEF ResolvePartition, OfBase, Only
<1> QED
  BY <1>1, <1>3, <1>5, <1>6, LoadedFacts

\* An edit without a payload, whose new cells promise nothing.
LEMMA QuietEdit ==
  ASSUME NEW s, NEW edited, IsFull(edited),
         \A c \in CellsOf(edited) : c \in CellsOf(TableOf(s)) \/ c.holds = Anything
  PROVE  Edit(s, edited, <<>>)
<1>1. SeqX!ToSet(<<>>) = {} /\ <<>> \in Seq(CellType)
  BY DEF SeqX!ToSet
<1> QED
  BY <1>1 DEF Edit

\* A table in which one partition has other sectors.
LEMMA ReplacedCells ==
  ASSUME NEW table, IsFull(table), NEW n \in DOMAIN table, NEW cells \in Seq(CellType), cells # <<>>
  PROVE  /\ IsFull([table EXCEPT ![n] = cells])
         /\ \A c \in CellsOf([table EXCEPT ![n] = cells]) :
              c \in CellsOf(table) \cup SeqX!ToSet(cells)
<1> DEFINE new == [table EXCEPT ![n] = cells]
<1>1. DOMAIN new = DOMAIN table /\ new[n] = cells
      /\ \A m \in DOMAIN table : m # n => new[m] = table[m]
  BY DEF IsFull
<1> HIDE DEF new
<1>2. IsFull(new)
  BY <1>1 DEF IsFull, IsTable, CellType
<1>3. \A c \in CellsOf(new) : c \in CellsOf(table) \cup SeqX!ToSet(cells)
  BY <1>1 DEF CellsOf
<1> QED
  BY <1>2, <1>3 DEF new

LEMMA ToSetIsCells ==
  ASSUME NEW table, NEW n \in DOMAIN table
  PROVE  SeqX!ToSet(table[n]) \subseteq CellsOf(table)
BY DEF CellsOf

LEMMA RemoveEdits ==
  ASSUME ImageInvariant, NEW p \in Procs, NEW slot \in SlotOptions,
         NEW f \in Editable(slot), Remove(p, f)
  PROVE  EditBegins(p, f.slot)
<1>1. IsFull(TableOf(f.slot))
  BY EditableFacts
<1>2. Edit(f.slot, Without(TableOf(f.slot), f.part), <<>>)
  BY <1>1, WithoutSound, QuietEdit
<1> QED
  BY <1>2 DEF EditBegins, Remove

LEMMA ShrinkEdits ==
  ASSUME ImageInvariant, NEW p \in Procs, NEW slot \in SlotOptions,
         NEW f \in Editable(slot), NEW len \in Sizes, Shrink(p, f, len)
  PROVE  EditBegins(p, f.slot)
<1> DEFINE table == TableOf(f.slot)
           cells == table[f.part]
           kept == SubSeq(cells, 1, len)
<1>1. IsFull(table) /\ f.part \in DOMAIN table
  BY EditableFacts
<1>2. len \in Nat \ {0} /\ len < Len(cells)
  BY MadeAssumption DEF Shrink
<1>3. cells \in Seq(CellType) /\ Len(cells) \in Nat
  BY <1>1, LenProperties DEF IsFull, IsTable, CellType
<1>4. len <= Len(cells)
  BY <1>2, <1>3
<1>5. /\ kept \in Seq(CellType) /\ kept # <<>>
      /\ \A c \in SeqX!ToSet(kept) : c \in SeqX!ToSet(cells)
  BY <1>2, <1>3, <1>4, CellsSubSeq
<1>6. Begin(p, f.slot, [table EXCEPT ![f.part] = kept], <<>>)
  BY DEF Shrink
<1>7. SeqX!ToSet(cells) \subseteq CellsOf(table)
  BY <1>1, ToSetIsCells
<1> HIDE DEF kept, cells
<1>8. Edit(f.slot, [table EXCEPT ![f.part] = kept], <<>>)
  BY <1>1, <1>5, <1>7, ReplacedCells, QuietEdit
<1> QED
  BY <1>6, <1>8 DEF EditBegins

LEMMA RenameEdits ==
  ASSUME ImageInvariant, NEW p \in Procs, NEW slot \in SlotOptions,
         NEW f \in Renamable(slot), NEW new \in NewNames, Rename(p, f, new)
  PROVE  EditBegins(p, f.slot)
<1> DEFINE table == TableOf(f.slot)
           cells == table[f.part]
           rest == Without(table, f.part)
<1>1. IsFull(table) /\ f.part \in DOMAIN table
  BY EditableFacts
<1>2. cells \in Seq(CellType) /\ cells # <<>> /\ new \in Names
  BY <1>1, MadeAssumption DEF IsFull, IsTable, CellType
<1>3. IsFull(rest) /\ \A c \in CellsOf(rest) : c \in CellsOf(table)
  BY <1>1, WithoutSound
<1>4. SeqX!ToSet(cells) \subseteq CellsOf(table)
  BY <1>1, ToSetIsCells
<1>5. Begin(p, f.slot, With(rest, new, cells), <<>>)
  BY DEF Rename
<1> HIDE DEF cells, rest
<1>6. /\ IsFull(With(rest, new, cells))
      /\ \A c \in CellsOf(With(rest, new, cells)) : c \in CellsOf(rest) \cup SeqX!ToSet(cells)
  BY <1>2, <1>3, WithSound
<1>7. Edit(f.slot, With(rest, new, cells), <<>>)
  BY <1>3, <1>4, <1>6, QuietEdit
<1> QED
  BY <1>5, <1>7 DEF EditBegins

LEMMA GrowEdits ==
  ASSUME ImageInvariant, NEW p \in Procs, NEW slot \in SlotOptions,
         NEW f \in Editable(slot), NEW len \in Sizes, Grow(p, f, len)
  PROVE  EditBegins(p, f.slot)
<1> DEFINE table == TableOf(f.slot)
           cells == table[f.part]
           extra == len - Len(cells)
           last == cells[Len(cells)].at
           starts == IF FreeBehind(table, last, extra) THEN {last + 1} ELSE Place(table, extra)
           added(start) == Cells(Run(start, extra), Anything)
<1>1. IsFull(table) /\ f.part \in DOMAIN table
  BY EditableFacts
<1>2. PICK start \in starts :
        Begin(p, f.slot, [table EXCEPT ![f.part] = cells \o added(start)], <<>>)
  BY DEF Grow
<1>3. cells \in Seq(CellType) /\ cells # <<>>
  BY <1>1 DEF IsFull, IsTable, CellType
<1>4. Len(cells) \in Nat /\ Len(cells) \in DOMAIN cells
  <2> HIDE DEF cells
  <2> QED
    BY <1>3, LenProperties, EmptySeq
<1>5. extra \in Nat \ {0}
  <2>1. extra > 0 /\ len \in Nat
    BY MadeAssumption DEF Grow
  <2> HIDE DEF cells
  <2> QED
    BY <1>4, <2>1
<1>6. last \in Nat
  <2>1. cells[Len(cells)] \in CellType
    <3> HIDE DEF cells
    <3> QED
      BY <1>3, <1>4, ElementOfSeq
  <2>2. last \in Sectors
    BY <2>1 DEF CellType
  <2>3. Dev.first \in Nat /\ Alloc!Limit(Dev) \in Int
    BY MadeAssumption DEF Alloc!Limit, Alloc!SECTOR
  <2> QED
    BY <2>2, <2>3 DEF Sectors
<1> HIDE DEF cells, extra, last
<1>7. start \in Nat /\ \A x \in start .. start + extra - 1 : x \in Sectors
  <2>1. CASE FreeBehind(table, last, extra)
    <3>1. start = last + 1
      BY <1>2, <2>1
    <3>2. \A x \in last + 1 .. last + extra : x \in Sectors
      BY <2>1 DEF FreeBehind
    <3>3. start + extra - 1 = last + extra
      BY <1>5, <1>6, <3>1
    <3> QED
      BY <1>6, <3>1, <3>2, <3>3
  <2>2. CASE ~FreeBehind(table, last, extra)
    BY <1>1, <1>2, <1>5, <2>2, PlaceSound
  <2> QED
    BY <2>1, <2>2
<1>8. /\ added(start) \in Seq(CellType)
      /\ \A c \in SeqX!ToSet(added(start)) : c.holds = Anything
  BY <1>5, <1>7, AnythingTyped, RunSound
<1>9. SeqX!ToSet(cells) \subseteq CellsOf(table)
  BY <1>1, ToSetIsCells DEF cells
<1> DEFINE new == cells \o added(start)
<1>10. /\ new \in Seq(CellType) /\ new # <<>>
       /\ \A c \in SeqX!ToSet(new) : c \in SeqX!ToSet(cells) \cup SeqX!ToSet(added(start))
  BY <1>3, <1>8, CellsConcat
<1> HIDE DEF new, table
<1>11. /\ IsFull([table EXCEPT ![f.part] = new])
       /\ \A c \in CellsOf([table EXCEPT ![f.part] = new]) :
            c \in CellsOf(table) \cup SeqX!ToSet(new)
  BY <1>1, <1>10, ReplacedCells
<1>12. \A c \in CellsOf([table EXCEPT ![f.part] = new]) :
         c \in CellsOf(table) \/ c.holds = Anything
  BY <1>8, <1>9, <1>10, <1>11
<1>13. Edit(f.slot, [table EXCEPT ![f.part] = new], <<>>)
  BY <1>11, <1>12, QuietEdit DEF table
<1> QED
  BY <1>2, <1>13 DEF EditBegins, new

LEMMA CommandKept ==
  ASSUME ImageInvariant, NEW p \in Procs, Command(p), blind \subseteq blind', blind' \subseteq Slots
  PROVE  ContentsSound'
<1>1. PICK slot \in SlotOptions :
       \/ \E s \in ResolveNewSlot(Loaded(slot), slot), name \in NewNames, len \in Sizes :
            Add(p, s, name, len, slot # {}) \/ Create(p, s, name, len)
       \/ \E f \in Editable(slot) :
            Remove(p, f) \/ \E len \in Sizes : Shrink(p, f, len) \/ Grow(p, f, len)
       \/ \E f \in Renamable(slot), new \in NewNames : Rename(p, f, new)
  BY DEF Command
<1>2. \E s \in Slots : FindMetadataForSlot(s) # {} /\ EditBegins(p, s)
  <2>1. CASE \E s \in ResolveNewSlot(Loaded(slot), slot), name \in NewNames, len \in Sizes :
               Add(p, s, name, len, slot # {}) \/ Create(p, s, name, len)
    <3>1. PICK s \in ResolveNewSlot(Loaded(slot), slot), name \in NewNames, len \in Sizes :
            Add(p, s, name, len, slot # {}) \/ Create(p, s, name, len)
      BY <2>1
    <3>2. EditBegins(p, s)
      BY <3>1, AddEdits, CreateEdits
    <3> QED
      BY <3>2, NewSlotLoads
  <2>2. CASE \E f \in Editable(slot) :
               Remove(p, f) \/ \E len \in Sizes : Shrink(p, f, len) \/ Grow(p, f, len)
    <3>1. PICK f \in Editable(slot) :
            Remove(p, f) \/ \E len \in Sizes : Shrink(p, f, len) \/ Grow(p, f, len)
      BY <2>2
    <3>2. EditBegins(p, f.slot)
      BY <3>1, RemoveEdits, ShrinkEdits, GrowEdits
    <3> QED
      BY <3>2, EditableLoads
  <2>3. CASE \E f \in Renamable(slot), new \in NewNames : Rename(p, f, new)
    <3>1. PICK f \in Renamable(slot), new \in NewNames : Rename(p, f, new)
      BY <2>3
    <3>2. EditBegins(p, f.slot)
      BY <3>1, RenameEdits
    <3> QED
      BY <3>2, EditableLoads
  <2> QED
    BY <1>1, <2>1, <2>2, <2>3
<1> QED
  BY <1>2, BeginKept DEF EditBegins

----------------------------------------------------------------------------
\* A sector of the payload is written.
LEMMA HeadOfPayload ==
  ASSUME NEW payload \in Seq(CellType), payload # <<>>
  PROVE  /\ Head(payload) \in SeqX!ToSet(payload) /\ Head(payload) \in CellType
         /\ Tail(payload) \in Seq(CellType)
         /\ \A d \in SeqX!ToSet(payload) : d = Head(payload) \/ d \in SeqX!ToSet(Tail(payload))
         /\ SeqX!ToSet(Tail(payload)) \subseteq SeqX!ToSet(payload)
<1> DEFINE t == Tail(payload)
<1>1. Len(payload) \in Nat /\ Len(payload) > 0 /\ DOMAIN payload = 1 .. Len(payload)
  BY LenProperties, EmptySeq
<1>2. Head(payload) = payload[1] /\ payload[1] \in CellType /\ 1 \in DOMAIN payload
  BY <1>1, ElementOfSeq, HeadTailProperties
<1>3. /\ t \in Seq(CellType) /\ Len(t) = Len(payload) - 1
      /\ \A i \in 1 .. Len(t) : t[i] = payload[i + 1]
  BY HeadTailProperties
<1>4. DOMAIN t = 1 .. Len(payload) - 1
  BY <1>3, LenProperties
<1> HIDE DEF t
<1>5. \A d \in SeqX!ToSet(payload) : d = Head(payload) \/ d \in SeqX!ToSet(t)
  <2> SUFFICES ASSUME NEW i \in 1 .. Len(payload), i # 1
               PROVE  i - 1 \in DOMAIN t /\ payload[i] = t[i - 1]
    BY <1>1, <1>2 DEF SeqX!ToSet
  <2>1. i - 1 \in 1 .. Len(t) /\ (i - 1) + 1 = i
    BY <1>1, <1>3
  <2> QED
    BY <1>3, <1>4, <2>1
<1>6. SeqX!ToSet(t) \subseteq SeqX!ToSet(payload)
  <2> SUFFICES ASSUME NEW i \in DOMAIN t
               PROVE  i + 1 \in DOMAIN payload /\ t[i] = payload[i + 1]
    BY DEF SeqX!ToSet
  <2> QED
    BY <1>1, <1>3, <1>4
<1> QED
  BY <1>2, <1>3, <1>5, <1>6 DEF SeqX!ToSet, t

LEMMA WritePayloadKept ==
  ASSUME ImageInvariant, NEW p \in Procs, WritePayload(p),
         blind \subseteq blind', blind' \subseteq Slots
  PROVE  ContentsSound'
<1>0. PICK e, s, payload, first :
        /\ e = Current(p) /\ s = e.slot
        /\ payload = job[p].payload /\ first = Head(payload)
  OBVIOUS
<1>1. /\ pc[p] = Ready /\ payload # <<>>
      /\ disk' = [disk EXCEPT ![first.at] = first.holds]
      /\ job' = [job EXCEPT ![p].payload = Tail(payload)]
      /\ UNCHANGED <<area, pc, todo, done, hits, tables>>
  BY <1>0 DEF WritePayload, vars
<1>2. AtWork(p) /\ JobSound(p)
  BY <1>1 DEF AtWork, ImageInvariant, JobsSound
<1>3. s \in Slots /\ e.offset \in FindMetadataForSlot(s)
  BY <1>0, <1>1, <1>2, WorkFacts DEF ImageInvariant
<1>4. payload \in Seq(CellType)
  BY <1>0 DEF ImageInvariant, ImageTypes, JobTyped
<1>5. /\ first \in SeqX!ToSet(payload) /\ first \in CellType
      /\ Tail(payload) \in Seq(CellType)
      /\ \A d \in SeqX!ToSet(payload) : d = first \/ d \in SeqX!ToSet(Tail(payload))
      /\ SeqX!ToSet(Tail(payload)) \subseteq SeqX!ToSet(payload)
  BY <1>0, <1>1, <1>4, HeadOfPayload
<1>6. /\ job'[p] = [table |-> job[p].table, payload |-> Tail(payload)]
      /\ \A q \in Procs \ {p} : job'[q] = job[q]
      /\ job' = [q \in Procs |-> job'[q]]
  <2>1. job = [q \in Procs |-> job[q]] /\ job[p] = [table |-> job[p].table, payload |-> job[p].payload]
    BY DEF ImageInvariant, ImageTypes, JobTyped
  <2>2. job' = [q \in Procs |-> IF q = p THEN [job[p] EXCEPT !.payload = Tail(payload)] ELSE job[q]]
    BY <1>1, <2>1
  <2> QED
    BY <2>1, <2>2
<1>7. /\ first.holds.slot = s
      /\ first.holds.told \/ Slots \ {s} \subseteq blind
      /\ first.at \notin Used(tables[e.offset])
  BY <1>0, <1>2, <1>5 DEF JobSound
<1>8. /\ disk'[first.at] = first.holds
      /\ \A x \in Sectors \ {first.at} : disk'[x] = disk[x]
      /\ disk' \in [Sectors -> Contents]
  BY <1>1, <1>5 DEF ImageInvariant, ImageTypes, JobTyped, CellType
<1>9. ASSUME NEW t \in Slots, NEW c \in CellType, Held(t, c), t # s \/ c.at # first.at
      PROVE  Held(t, c)'
  <2>1. c.at \in Sectors
    BY DEF CellType
  <2>2. CASE c.at # first.at
    BY <1>8, <1>9, <2>1, <2>2, HeldStays
  <2>3. CASE c.at = first.at
    <3>1. /\ disk'[c.at].slot # t
          /\ disk'[c.at].told \/ t \in blind'
      BY <1>7, <1>8, <1>9, <2>3
    <3> QED
      BY <1>9, <3>1, HeldStays
  <2> QED
    BY <2>2, <2>3
<1>10. ASSUME NEW t \in Slots, NEW o \in CopyOffsets, Whole(t, tables[o]), t # s \/ o = e.offset
       PROVE  Whole(t, tables[o])'
  <2>1. IsFull(tables[o])
    BY DEF ImageInvariant, ImageTypes, JobTyped
  <2>2. ASSUME NEW c \in CellsOf(tables[o]) PROVE Held(t, c)'
    <3>1. c \in CellType /\ Held(t, c)
      BY <1>10, <2>1, CellsTyped DEF Whole
    <3>2. o = e.offset => c.at # first.at
      BY <1>7, UsedPointwise
    <3> QED
      BY <1>9, <1>10, <3>1, <3>2
  <2> QED
    BY <1>1, <2>2 DEF Whole, CellsOf
<1>11. PrimariesWhole'
  <2> SUFFICES ASSUME NEW t \in Slots, area[PrimaryOffset(t)] # Torn
               PROVE  Whole(t, tables[PrimaryOffset(t)])'
    BY <1>1 DEF PrimariesWhole, PrimaryOffset
  <2>1. PrimaryOffset(t) \in CopyOffsets /\ Whole(t, tables[PrimaryOffset(t)])
    BY CopiesApart DEF ImageInvariant, PrimariesWhole
  <2>2. t = s => PrimaryOffset(t) = e.offset
    BY <1>3 DEF FindMetadataForSlot
  <2>3. PrimaryOffset(t)' = PrimaryOffset(t)
    BY DEF PrimaryOffset
  <2> QED
    BY <1>10, <2>1, <2>2, <2>3
<1>12. BackupsWhole'
  <2> SUFFICES ASSUME NEW t \in Slots, area[PrimaryOffset(t)] = Torn,
                      area[BackupOffset(t)] # Torn, Once(t)
               PROVE  Whole(t, tables[BackupOffset(t)])'
    BY <1>1 DEF BackupsWhole, PrimaryOffset, BackupOffset, Once, Quiet, Current
  <2>1. BackupOffset(t) \in CopyOffsets /\ Whole(t, tables[BackupOffset(t)])
    BY CopiesApart DEF ImageInvariant, BackupsWhole
  <2>2. t = s => BackupOffset(t) = e.offset
    BY <1>3 DEF FindMetadataForSlot
  <2>3. BackupOffset(t)' = BackupOffset(t)
    BY DEF BackupOffset
  <2> QED
    BY <1>10, <2>1, <2>2, <2>3
<1>13. CopiesAlike'
  BY <1>1 DEF ImageInvariant, CopiesAlike, PrimaryOffset, BackupOffset, Quiet, Current
<1>14. \A q \in Procs \ {p} : AtWork(q)' => JobSound(q)'
  <2>1. \A q \in Procs \ {p} : pc'[q] = pc[q] /\ todo'[q] = todo[q] /\ job'[q] = job[q]
    BY <1>1, <1>6
  <2>2. ASSUME NEW q \in Procs \ {p}, AtWork(q)
        PROVE  /\ tables'[PrimaryOffset(Current(q).slot)] = tables[PrimaryOffset(Current(q).slot)]
               /\ tables'[BackupOffset(Current(q).slot)] = tables[BackupOffset(Current(q).slot)]
               /\ \A c \in CellType : Held(Current(q).slot, c) => Held(Current(q).slot, c)'
    <3>1. Current(q).slot # s /\ Current(q).slot \in Slots
      BY <1>0, <1>2, <2>2, WorkApart, WorkFacts DEF ImageInvariant
    <3>2. Current(q)' = Current(q)
      BY <1>1 DEF Current
    <3> QED
      BY <1>1, <1>9, <3>1, <3>2
  <2> QED
    BY <2>1, <2>2, OthersKept
<1>15. JobSound(p)'
  <2> DEFINE rest == SeqX!ToSet(Tail(payload))
  <2>1. Current(p)' = e /\ Len(todo'[p]) = 1
    BY <1>0, <1>1, <1>2 DEF Current, JobSound
  <2>2. \A d \in rest : /\ d.holds.slot = s
                        /\ d.holds.told \/ Slots \ {s} \subseteq blind'
                        /\ d.at \notin Used(tables[e.offset])
    BY <1>0, <1>2, <1>5 DEF JobSound
  <2>3. \A c \in CellsOf(job[p].table), d \in SeqX!ToSet(payload) : c.at = d.at => c = d
    BY <1>0, <1>2 DEF JobSound
  <2>4. ASSUME e.offset = PrimaryOffset(s), NEW c \in CellsOf(job[p].table), c \notin rest
        PROVE  Held(s, c)'
    <3>1. Held(s, c) \/ c \in SeqX!ToSet(payload)
      BY <1>0, <1>2, <2>4 DEF JobSound
    <3>2. CASE c.at = first.at
      <4>1. c = first
        BY <1>5, <2>3, <3>2
      <4> QED
        BY <1>8, <4>1 DEF Held
    <3>3. CASE c.at # first.at
      <4>1. Held(s, c)
        BY <1>5, <2>4, <3>1, <3>3
      <4>2. c \in CellType
        BY CellsTyped DEF ImageInvariant, ImageTypes, JobTyped
      <4> QED
        BY <1>3, <1>9, <3>3, <4>1, <4>2
    <3> QED
      BY <3>2, <3>3
  <2>5. pc'[p] \notin {Between, Backup}
    BY <1>1 DEF Ready, Between, Backup
  <2>6. job'[p].table = job[p].table /\ job'[p].payload = Tail(payload)
    BY <1>6
  <2>7. PrimaryOffset(s)' = PrimaryOffset(s) /\ tables' = tables
    BY <1>1 DEF PrimaryOffset
  <2>8. \A c \in CellsOf(job[p].table), d \in rest : c.at = d.at => c = d
    BY <1>5, <2>3
  <2> HIDE DEF rest
  <2> QED
    BY <1>0, <2>1, <2>2, <2>4, <2>5, <2>6, <2>7, <2>8 DEF JobSound, CellsOf, Used, rest
<1>16. JobsSound'
  BY <1>14, <1>15 DEF JobsSound
<1>17. ImageTypes'
  <2>1. Ready # Idle /\ Ready # Refused
    BY DEF Ready, Idle, Refused
  <2>2. ASSUME NEW q \in Procs
        PROVE  JobTyped(q)'
    <3>1. CASE q = p
      <4>1. /\ job'[p].table = job[p].table /\ job'[p].payload = Tail(payload)
            /\ job'[p] = [table |-> job'[p].table, payload |-> job'[p].payload]
        BY <1>6
      <4>2. IsFull(job[p].table) /\ pc'[p] = Ready
        BY <1>1 DEF ImageInvariant, ImageTypes, JobTyped
      <4> QED
        BY <1>5, <2>1, <3>1, <4>1, <4>2 DEF JobTyped
    <3>2. CASE q # p
      BY <1>1, <1>6, <3>2 DEF ImageInvariant, ImageTypes, JobTyped, PayloadWritten
    <3> QED
      BY <3>1, <3>2
  <2> QED
    BY <1>1, <1>6, <1>8, <2>2 DEF ImageInvariant, ImageTypes, JobTyped
<1> QED
  BY <1>11, <1>12, <1>13, <1>16, <1>17 DEF ContentsSound

----------------------------------------------------------------------------
\* One copy is written, or begins to be.

\* The copies of one slot.
SlotWhole(s) ==
  LET primary == PrimaryOffset(s)
      backup == BackupOffset(s)
  IN /\ area[primary] # Torn => Whole(s, tables[primary])
     /\ area[primary] = Torn /\ area[backup] # Torn /\ Once(s) => Whole(s, tables[backup])
     /\ hits[s] = 0 /\ Quiet(s) => tables[primary] = tables[backup]

LEMMA EverySlotWhole ==
  (\A s \in Slots : SlotWhole(s)) <=> PrimariesWhole /\ BackupsWhole /\ CopiesAlike
BY DEF SlotWhole, PrimariesWhole, BackupsWhole, CopiesAlike

\* The write of one copy disturbs no other slot and no other command.
LEMMA CopyWriteKept ==
  ASSUME ImageInvariant, NEW p \in Procs, AtWork(p),
         NEW s, s = Current(p).slot, NEW o \in {PrimaryOffset(s), BackupOffset(s)},
         NEW v, NEW table, IsFull(table), v = Torn => table = NoTable,
         area' = [area EXCEPT ![o] = v], tables' = [tables EXCEPT ![o] = table],
         disk' = disk, blind \subseteq blind', blind' \subseteq Slots,
         \A q \in Procs \ {p} : pc'[q] = pc[q] /\ todo'[q] = todo[q] /\ job'[q] = job[q],
         \A t \in Slots \ {s} : hits'[t] = hits[t],
         pc'[p] \in Writing => Current(p)' = Current(p),
         job' = [q \in Procs |-> job'[q]], JobTyped(p)',
         SlotWhole(s)', AtWork(p)' => JobSound(p)'
  PROVE  ContentsSound'
<1>1. s \in Slots
  BY WorkFacts DEF ImageInvariant
<1>2. /\ DOMAIN area = CopyOffsets /\ DOMAIN tables = CopyOffsets
      /\ \A x \in CopyOffsets : IsFull(tables[x])
      /\ \A x \in CopyOffsets : area[x] = Torn => tables[x] = NoTable
  BY PcTypes DEF ImageInvariant, ImageTypes
<1>3. o \in CopyOffsets
  BY <1>1, CopiesApart
<1>4. ASSUME NEW t \in Slots \ {s}, NEW x \in {PrimaryOffset(t), BackupOffset(t)}
      PROVE  area'[x] = area[x] /\ tables'[x] = tables[x]
  <2>1. x # o
    BY <1>1, CopiesApart
  <2> QED
    BY <2>1
<1>5. \A t, c : Held(t, c) => Held(t, c)'
  BY HeldStays
<1>6. ASSUME NEW t \in Slots \ {s}
      PROVE  SlotWhole(t)'
  <2>1. SlotWhole(t)
    BY EverySlotWhole DEF ImageInvariant
  <2>2. Quiet(t)' <=> Quiet(t)
    <3>1. \A q \in Procs \ {p} : pc'[q] = pc[q] /\ Current(q)' = Current(q)
      BY DEF Current
    <3>2. pc[p] \in Writing => Current(p).slot # t
      OBVIOUS
    <3>3. pc'[p] \in Writing => Current(p).slot' # t
      OBVIOUS
    <3> QED
      BY <3>1, <3>2, <3>3 DEF Quiet
  <2>3. \A x : Whole(t, tables[x]) /\ tables'[x] = tables[x] => Whole(t, tables[x])'
    BY <1>5 DEF Whole, CellsOf
  <2>4. PrimaryOffset(t)' = PrimaryOffset(t) /\ BackupOffset(t)' = BackupOffset(t)
    BY DEF PrimaryOffset, BackupOffset
  <2>5. Once(t)' <=> Once(t)
    BY <2>2 DEF Once
  <2> QED
    BY <1>4, <2>1, <2>2, <2>3, <2>4, <2>5 DEF SlotWhole
<1>7. PrimariesWhole' /\ BackupsWhole' /\ CopiesAlike'
  <2>1. \A t \in Slots : SlotWhole(t)'
    BY <1>6
  <2> QED
    BY <2>1 DEF SlotWhole, PrimariesWhole, BackupsWhole, CopiesAlike
<1>8. JobsSound'
  <2>1. ASSUME NEW q \in Procs \ {p}, AtWork(q)
        PROVE  /\ tables'[PrimaryOffset(Current(q).slot)] = tables[PrimaryOffset(Current(q).slot)]
               /\ tables'[BackupOffset(Current(q).slot)] = tables[BackupOffset(Current(q).slot)]
               /\ \A c \in CellType : Held(Current(q).slot, c) => Held(Current(q).slot, c)'
    <3>1. Current(q).slot \in Slots \ {s}
      BY <2>1, WorkApart, WorkFacts DEF ImageInvariant
    <3>2. Current(q)' = Current(q)
      BY DEF Current
    <3> QED
      BY <1>4, <1>5, <3>1, <3>2
  <2>2. \A q \in Procs \ {p} : AtWork(q)' => JobSound(q)'
    BY <2>1, OthersKept
  <2> QED
    BY <2>2 DEF JobsSound
<1>9. ImageTypes'
  <2>1. \A q \in Procs : JobTyped(q)'
    BY DEF ImageInvariant, ImageTypes, JobTyped, PayloadWritten
  <2>2. /\ DOMAIN tables' = CopyOffsets
        /\ \A x \in CopyOffsets : IsFull(tables'[x])
        /\ \A x \in CopyOffsets : area'[x] = Torn => tables'[x] = NoTable
    BY <1>2, <1>3
  <2>3. disk' \in [Sectors -> Contents]
    BY DEF ImageInvariant, ImageTypes
  <2> QED
    BY <2>1, <2>2, <2>3 DEF ImageTypes
<1> QED
  BY <1>7, <1>8, <1>9 DEF ContentsSound

\* The command that writes slot s is the only one to write it.
LEMMA OneWrites ==
  ASSUME NEW p \in Procs, NEW s, pc[p] \in Writing, Current(p).slot = s
  PROVE  ~Quiet(s)
BY DEF Quiet

LEMMA NoJobTyped ==
  ASSUME NEW p, job'[p] = NoJob
  PROVE  JobTyped(p)'
<1>1. NoJob.table = NoTable /\ NoJob.payload = <<>> /\ NoJob = [table |-> NoTable, payload |-> <<>>]
  BY DEF NoJob
<1> QED
  BY <1>1, NoTableEmpty DEF JobTyped, PayloadWritten

\* The steps of a write leave the other commands' work alone.
LEMMA WriteAside ==
  ASSUME ImageInvariant, NEW p \in Procs, NEW c, pc' = [pc EXCEPT ![p] = c],
         todo' = todo \/ \E list : todo' = [todo EXCEPT ![p] = list],
         job' = job \/ job' = [job EXCEPT ![p] = NoJob]
  PROVE  /\ pc'[p] = c
         /\ \A q \in Procs \ {p} : pc'[q] = pc[q] /\ todo'[q] = todo[q] /\ job'[q] = job[q]
         /\ job' = [q \in Procs |-> job'[q]]
<1>1. DOMAIN pc = Procs /\ DOMAIN todo = Procs /\ job = [q \in Procs |-> job[q]]
  BY PcTypes DEF ImageInvariant, ImageTypes
<1>2. DOMAIN job = Procs
  BY <1>1
<1>3. job' = [q \in Procs |-> job'[q]]
  <2>1. CASE job' = job
    BY <1>1, <2>1
  <2>2. CASE job' = [job EXCEPT ![p] = NoJob]
    BY <1>2, <2>2
  <2> QED
    BY <2>1, <2>2
<1>4. \A q \in Procs \ {p} : todo'[q] = todo[q] /\ job'[q] = job[q]
  BY <1>1, <1>2
<1> QED
  BY <1>1, <1>3, <1>4

\* A copy whose table is promised to a slot stays whole while no sector changes.
LEMMA WholeStays ==
  ASSUME disk' = disk, blind \subseteq blind'
  PROVE  \A t, table : Whole(t, table) => Whole(t, table)'
<1>1. \A t, c : Held(t, c) => Held(t, c)'
  BY HeldStays
<1> QED
  BY <1>1 DEF Whole, CellsOf

LEMMA WriteBeginPrimaryKept ==
  ASSUME ImageInvariant, NEW p \in Procs, WriteBeginPrimary(p),
         blind \subseteq blind', blind' \subseteq Slots
  PROVE  ContentsSound'
<1>1. PICK e, s, o : e = Current(p) /\ s = e.slot /\ o = PrimaryOffset(s)
  OBVIOUS
<1>2. pc[p] = Ready /\ Accepted(p)
  BY DEF WriteBeginPrimary, BeginPrimary
<1>3. /\ AtWork(p) /\ Quiet(s) /\ JobSound(p)
      /\ s \in Slots /\ e.offset = o /\ Target(p) = s
      /\ e.offset \in FindMetadataForSlot(s)
  BY <1>1, <1>2, ReadyIsQuiet, CurrentEntry, WorkFacts DEF ImageInvariant, JobsSound
<1>4. /\ o \in CopyOffsets /\ BackupOffset(s) # o
      /\ area[o] # Torn
  BY <1>1, <1>3, CopiesApart DEF FindMetadataForSlot
<1>5. /\ area' = [area EXCEPT ![o] = Torn] /\ tables' = [tables EXCEPT ![o] = NoTable]
      /\ pc' = [pc EXCEPT ![p] = Primary] /\ UNCHANGED <<todo, done, hits, disk, job>>
      /\ job[p].payload = <<>>
  BY <1>1, <1>3 DEF WriteBeginPrimary, BeginPrimary, PayloadWritten
<1>6. /\ pc'[p] = Primary
      /\ \A q \in Procs \ {p} : pc'[q] = pc[q] /\ todo'[q] = todo[q] /\ job'[q] = job[q]
      /\ job' = [q \in Procs |-> job'[q]]
  BY <1>5, WriteAside
<1>7. /\ area'[o] = Torn /\ tables'[o] = NoTable
      /\ tables'[BackupOffset(s)] = tables[BackupOffset(s)]
  BY <1>4, <1>5, PcTypes DEF ImageInvariant, ImageTypes
<1>8. Current(p)' = e /\ Primary \in Writing /\ Primary \notin {Between, Backup}
      /\ Primary \notin {Idle, Refused}
  BY <1>1, <1>5 DEF Current, Primary, Writing, Between, Backup, Idle, Refused
<1>9. ~Quiet(s)'
  BY <1>1, <1>6, <1>8 DEF Quiet
<1>10. SlotWhole(s)'
  <2>1. PrimaryOffset(s)' = o /\ BackupOffset(s)' = BackupOffset(s)
    BY <1>1 DEF PrimaryOffset, BackupOffset
  <2>2. ASSUME Once(s)'
        PROVE  Whole(s, tables[BackupOffset(s)])'
    <3>1. hits[s] = 0
      BY <1>5, <1>9, <2>2 DEF Once
    <3>2. Whole(s, tables[BackupOffset(s)])
      BY <1>1, <1>3, <1>4, <3>1 DEF ImageInvariant, PrimariesWhole, CopiesAlike
    <3> QED
      BY <1>5, <1>7, <2>1, <3>2, WholeStays DEF Whole, CellsOf
  <2> QED
    BY <1>7, <1>9, <2>1, <2>2 DEF SlotWhole
<1>11. JobTyped(p)'
  BY <1>5, <1>6, <1>8 DEF ImageInvariant, ImageTypes, JobTyped, PayloadWritten
<1>12. JobSound(p)'
  <2>1. SeqX!ToSet(job'[p].payload) = {}
    BY <1>5 DEF SeqX!ToSet
  <2>2. \A c \in CellsOf(job[p].table) : Held(s, c)
    BY <1>1, <1>3, <1>5 DEF JobSound, SeqX!ToSet
  <2>3. \A c \in CellsOf(job'[p].table) : Held(s, c)'
    BY <1>5, <2>2, HeldStays
  <2>4. Len(todo'[p]) = 1
    BY <1>3, <1>5 DEF JobSound
  <2> QED
    BY <1>1, <1>6, <1>8, <2>1, <2>3, <2>4 DEF JobSound, CellsOf
<1> QED
  BY <1>1, <1>3, <1>5, <1>6, <1>8, <1>10, <1>11, <1>12, NoTableEmpty, CopyWriteKept

\* Once the metadata is begun no payload is left, and what the new table
\* promises is there.
LEMMA WritingFacts ==
  ASSUME ImageInvariant, NEW p \in Procs, pc[p] \in Writing
  PROVE  /\ AtWork(p) /\ JobSound(p) /\ WriteShape(p)
         /\ Current(p).slot \in Slots /\ Target(p) = Current(p).slot
         /\ Current(p).offset = PrimaryOffset(Current(p).slot)
         /\ Current(p).version + 1 \in Versions /\ Current(p).version + 1 # Torn
         /\ PrimaryOffset(Current(p).slot) \in CopyOffsets
         /\ BackupOffset(Current(p).slot) \in CopyOffsets
         /\ PrimaryOffset(Current(p).slot) # BackupOffset(Current(p).slot)
         /\ job[p].payload = <<>> /\ IsFull(job[p].table)
         /\ Whole(Current(p).slot, job[p].table)
<1>1. AtWork(p) /\ JobSound(p) /\ WriteShape(p)
  BY DEF AtWork, ImageInvariant, JobsSound, CopiesInvariant, WritesOrdered
<1>2. /\ Current(p).slot \in Slots /\ Target(p) = Current(p).slot
      /\ Current(p).offset = PrimaryOffset(Current(p).slot)
      /\ Current(p).version + 1 \in Versions
  BY <1>1, CurrentEntry, WorkFacts DEF ImageInvariant
<1>3. Current(p).version + 1 # Torn
  BY <1>2, VersionAssumption DEF Versions, Torn
<1>4. job[p].payload = <<>> /\ IsFull(job[p].table)
  BY DEF ImageInvariant, ImageTypes, JobTyped, PayloadWritten, Ready, Writing, Primary, Between, Backup
<1>5. Whole(Current(p).slot, job[p].table)
  BY <1>1, <1>2, <1>4 DEF JobSound, Whole, SeqX!ToSet
<1> QED
  BY <1>1, <1>2, <1>3, <1>4, <1>5, CopiesApart

LEMMA WriteEndPrimaryKept ==
  ASSUME ImageInvariant, NEW p \in Procs, WriteEndPrimary(p),
         blind \subseteq blind', blind' \subseteq Slots
  PROVE  ContentsSound'
<1>1. PICK e, s, o, v, table :
        /\ e = Current(p) /\ s = e.slot /\ o = PrimaryOffset(s) /\ v = e.version + 1
        /\ table = job[p].table
  OBVIOUS
<1>2. pc[p] = Primary /\ Primary \in Writing /\ Between \in Writing /\ Between \notin {Ready, Idle, Refused}
  BY DEF WriteEndPrimary, EndPrimary, Writing, Primary, Between, Ready, Idle, Refused
<1>3. /\ AtWork(p) /\ JobSound(p) /\ s \in Slots /\ Target(p) = s
      /\ v # Torn /\ o \in CopyOffsets /\ o # BackupOffset(s)
      /\ job[p].payload = <<>> /\ IsFull(table) /\ Whole(s, table) /\ e.offset = o
  BY <1>1, <1>2, WritingFacts
<1>4. /\ area' = [area EXCEPT ![o] = v] /\ tables' = [tables EXCEPT ![o] = table]
      /\ pc' = [pc EXCEPT ![p] = Between] /\ UNCHANGED <<todo, done, hits, disk, job>>
  BY <1>1, <1>3 DEF WriteEndPrimary, EndPrimary
<1>5. /\ pc'[p] = Between
      /\ \A q \in Procs \ {p} : pc'[q] = pc[q] /\ todo'[q] = todo[q] /\ job'[q] = job[q]
      /\ job' = [q \in Procs |-> job'[q]]
  BY <1>4, WriteAside
<1>6. area'[o] = v /\ tables'[o] = table
  BY <1>3, <1>4, PcTypes DEF ImageInvariant, ImageTypes
<1>7. Current(p)' = e
  BY <1>1, <1>4 DEF Current
<1>8. ~Quiet(s)'
  BY <1>1, <1>2, <1>5, <1>7 DEF Quiet
<1>9. Whole(s, table)'
  BY <1>3, <1>4, WholeStays
<1>10. SlotWhole(s)'
  <2>1. PrimaryOffset(s)' = o
    BY <1>1 DEF PrimaryOffset
  <2>2. Whole(s, tables[PrimaryOffset(s)])'
    BY <1>6, <1>9, <2>1 DEF Whole, CellsOf
  <2> QED
    BY <1>3, <1>6, <1>8, <2>1, <2>2 DEF SlotWhole
<1>11. JobTyped(p)'
  BY <1>2, <1>3, <1>4, <1>5 DEF ImageInvariant, ImageTypes, JobTyped, PayloadWritten
<1>12. JobSound(p)'
  <2>1. SeqX!ToSet(job'[p].payload) = {}
    BY <1>3, <1>4 DEF SeqX!ToSet
  <2>2. \A c \in CellsOf(job'[p].table) : Held(s, c)'
    BY <1>1, <1>4, <1>9 DEF Whole, CellsOf
  <2>3. Len(todo'[p]) = 1
    BY <1>3, <1>4 DEF JobSound
  <2>4. tables'[PrimaryOffset(s)'] = job'[p].table
    BY <1>1, <1>4, <1>6 DEF PrimaryOffset
  <2> QED
    BY <1>1, <1>7, <2>1, <2>2, <2>3, <2>4 DEF JobSound, CellsOf
<1> QED
  BY <1>1, <1>3, <1>4, <1>5, <1>7, <1>10, <1>11, <1>12, CopyWriteKept

LEMMA WriteBeginBackupKept ==
  ASSUME ImageInvariant, NEW p \in Procs, WriteBeginBackup(p),
         blind \subseteq blind', blind' \subseteq Slots
  PROVE  ContentsSound'
<1>1. PICK e, s, o : e = Current(p) /\ s = e.slot /\ o = BackupOffset(s)
  OBVIOUS
<1>2. /\ pc[p] = Between /\ Between \in Writing /\ Backup \in Writing
      /\ Backup \notin {Ready, Idle, Refused} /\ Between # Primary
  BY DEF WriteBeginBackup, BeginBackup, Writing, Primary, Between, Backup, Ready, Idle, Refused
<1>3. /\ AtWork(p) /\ JobSound(p) /\ WriteShape(p) /\ s \in Slots /\ Target(p) = s
      /\ e.version + 1 # Torn /\ o \in CopyOffsets /\ PrimaryOffset(s) # o
      /\ PrimaryOffset(s) \in CopyOffsets
      /\ job[p].payload = <<>> /\ Whole(s, job[p].table) /\ e.offset = PrimaryOffset(s)
  BY <1>1, <1>2, WritingFacts
<1>4. /\ area' = [area EXCEPT ![o] = Torn] /\ tables' = [tables EXCEPT ![o] = NoTable]
      /\ pc' = [pc EXCEPT ![p] = Backup] /\ UNCHANGED <<todo, done, hits, disk, job>>
  BY <1>1, <1>3 DEF WriteBeginBackup, BeginBackup
<1>5. /\ pc'[p] = Backup
      /\ \A q \in Procs \ {p} : pc'[q] = pc[q] /\ todo'[q] = todo[q] /\ job'[q] = job[q]
      /\ job' = [q \in Procs |-> job'[q]]
  BY <1>4, WriteAside
<1>6. /\ area[PrimaryOffset(s)] # Torn /\ tables[PrimaryOffset(s)] = job[p].table
  BY <1>1, <1>2, <1>3 DEF WriteShape, JobSound
<1>7. /\ area'[PrimaryOffset(s)] = area[PrimaryOffset(s)]
      /\ tables'[PrimaryOffset(s)] = job[p].table
  BY <1>3, <1>4, <1>6
<1>8. Current(p)' = e
  BY <1>1, <1>4 DEF Current
<1>9. ~Quiet(s)'
  BY <1>1, <1>2, <1>5, <1>8 DEF Quiet
<1>10. Whole(s, job[p].table)'
  BY <1>3, <1>4, WholeStays DEF Whole, CellsOf
<1>11. PrimaryOffset(s)' = PrimaryOffset(s)
  BY DEF PrimaryOffset
<1>12. SlotWhole(s)'
  <2>1. Whole(s, tables[PrimaryOffset(s)])'
    BY <1>4, <1>7, <1>10, <1>11 DEF Whole, CellsOf
  <2> QED
    BY <1>6, <1>7, <1>9, <1>11, <2>1 DEF SlotWhole
<1>13. JobTyped(p)'
  BY <1>2, <1>3, <1>4, <1>5 DEF ImageInvariant, ImageTypes, JobTyped, PayloadWritten
<1>14. JobSound(p)'
  <2>1. SeqX!ToSet(job'[p].payload) = {}
    BY <1>3, <1>4 DEF SeqX!ToSet
  <2>2. \A c \in CellsOf(job'[p].table) : Held(s, c)'
    BY <1>4, <1>10 DEF Whole, CellsOf
  <2>3. Len(todo'[p]) = 1
    BY <1>3, <1>4 DEF JobSound
  <2>4. tables'[PrimaryOffset(s)'] = job'[p].table
    BY <1>4, <1>7, <1>11
  <2> QED
    BY <1>1, <1>8, <2>1, <2>2, <2>3, <2>4 DEF JobSound, CellsOf
<1> QED
  BY <1>1, <1>3, <1>4, <1>5, <1>8, <1>12, <1>13, <1>14, NoTableEmpty, CopyWriteKept

LEMMA WriteEndBackupKept ==
  ASSUME ImageInvariant, NEW p \in Procs, WriteEndBackup(p),
         blind \subseteq blind', blind' \subseteq Slots
  PROVE  ContentsSound'
<1>1. PICK e, s, o, v, table :
        /\ e = Current(p) /\ s = e.slot /\ o = BackupOffset(s) /\ v = e.version + 1
        /\ table = job[p].table
  OBVIOUS
<1>2. /\ pc[p] = Backup /\ Backup \in Writing /\ Backup # Primary
      /\ Idle \notin Writing /\ Idle # Ready
  BY DEF WriteEndBackup, EndBackup, Writing, Primary, Between, Backup, Ready, Idle
<1>3. /\ AtWork(p) /\ JobSound(p) /\ WriteShape(p) /\ s \in Slots /\ Target(p) = s
      /\ v # Torn /\ o \in CopyOffsets /\ PrimaryOffset(s) # o
      /\ PrimaryOffset(s) \in CopyOffsets
      /\ IsFull(table) /\ Whole(s, table)
  BY <1>1, <1>2, WritingFacts
<1>4. Tail(todo[p]) = <<>>
  <2>1. Len(todo[p]) = 1 /\ todo[p] \in Seq(Entry) /\ todo[p] # <<>>
    BY <1>3, PcTypes DEF JobSound, ImageInvariant
  <2>2. Tail(todo[p]) \in Seq(Entry) /\ Len(Tail(todo[p])) = 0
    BY <2>1, HeadTailProperties
  <2> QED
    BY <2>2, EmptySeq
<1>5. /\ area' = [area EXCEPT ![o] = v] /\ tables' = [tables EXCEPT ![o] = table]
      /\ pc' = [pc EXCEPT ![p] = Idle] /\ todo' = [todo EXCEPT ![p] = Tail(todo[p])]
      /\ hits' = [hits EXCEPT ![s] = 0]
      /\ disk' = disk /\ job' = [job EXCEPT ![p] = NoJob]
  BY <1>1, <1>3, <1>4 DEF WriteEndBackup, EndBackup
<1>6. /\ pc'[p] = Idle
      /\ \A q \in Procs \ {p} : pc'[q] = pc[q] /\ todo'[q] = todo[q] /\ job'[q] = job[q]
      /\ job' = [q \in Procs |-> job'[q]]
  BY <1>5, WriteAside
<1>7. /\ area[PrimaryOffset(s)] # Torn /\ tables[PrimaryOffset(s)] = table
  BY <1>1, <1>2, <1>3 DEF WriteShape, JobSound
<1>8. /\ area'[PrimaryOffset(s)] = area[PrimaryOffset(s)]
      /\ tables'[PrimaryOffset(s)] = table /\ tables'[o] = table
  BY <1>3, <1>5, <1>7, PcTypes DEF ImageInvariant, ImageTypes
<1>9. PrimaryOffset(s)' = PrimaryOffset(s) /\ BackupOffset(s)' = o
  BY <1>1 DEF PrimaryOffset, BackupOffset
<1>10. SlotWhole(s)'
  <2>1. Whole(s, table)'
    BY <1>3, <1>5, WholeStays
  <2>2. Whole(s, tables[PrimaryOffset(s)])'
    BY <1>8, <1>9, <2>1 DEF Whole, CellsOf
  <2> QED
    BY <1>7, <1>8, <1>9, <2>2 DEF SlotWhole
<1>11. job'[p] = NoJob
  BY <1>5 DEF ImageInvariant, ImageTypes
<1>12. ~AtWork(p)' /\ pc'[p] \notin Writing
  BY <1>2, <1>6 DEF AtWork
<1>13. \A t \in Slots \ {s} : hits'[t] = hits[t]
  BY <1>5
<1> QED
  BY <1>1, <1>3, <1>5, <1>6, <1>10, <1>11, <1>12, <1>13, NoJobTyped, CopyWriteKept

----------------------------------------------------------------------------
\* A command stops.
LEMMA LeaveKept ==
  ASSUME ImageInvariant, NEW p \in Procs, UNCHANGED <<area, tables, disk>>,
         blind \subseteq blind', blind' \subseteq Slots,
         pc'[p] \notin {Ready} \cup Writing, job'[p] = NoJob,
         \A q \in Procs \ {p} : pc'[q] = pc[q] /\ todo'[q] = todo[q] /\ job'[q] = job[q],
         job' = [q \in Procs |-> job'[q]],
         \A s \in Slots : /\ Once(s)' => Once(s)
                          /\ hits'[s] = 0 /\ Quiet(s)' => hits[s] = 0 /\ Quiet(s)
  PROVE  ContentsSound'
<1>1. PrimariesWhole' /\ BackupsWhole' /\ CopiesAlike'
  BY CopiesStayWhole
<1>2. JobsSound'
  <2>1. ~AtWork(p)'
    BY DEF AtWork
  <2>2. ASSUME NEW q \in Procs \ {p}, AtWork(q)
        PROVE  /\ tables'[PrimaryOffset(Current(q).slot)] = tables[PrimaryOffset(Current(q).slot)]
               /\ tables'[BackupOffset(Current(q).slot)] = tables[BackupOffset(Current(q).slot)]
               /\ \A c \in CellType : Held(Current(q).slot, c) => Held(Current(q).slot, c)'
    <3>1. \A t, c : Held(t, c) => Held(t, c)'
      BY HeldStays
    <3>2. Current(q)' = Current(q)
      BY DEF Current
    <3> QED
      BY <3>1, <3>2
  <2>3. \A q \in Procs \ {p} : AtWork(q)' => JobSound(q)'
    BY <2>2, OthersKept
  <2> QED
    BY <2>1, <2>3 DEF JobsSound
<1>3. ImageTypes'
  <2>1. JobTyped(p)'
    BY NoJobTyped
  <2>2. \A q \in Procs : JobTyped(q)'
    BY <2>1 DEF ImageInvariant, ImageTypes, JobTyped, PayloadWritten
  <2> QED
    BY <2>2 DEF ImageInvariant, ImageTypes
<1> QED
  BY <1>1, <1>2, <1>3 DEF ContentsSound

LEMMA PauseKept ==
  ASSUME ImageInvariant, NEW p \in Procs, NEW c \in {Idle, Refused}, pc[p] \notin Writing,
         pc' = [pc EXCEPT ![p] = c],
         todo' = todo \/ todo' = [todo EXCEPT ![p] = <<>>],
         (job' = job /\ pc[p] = Refused) \/ job' = [job EXCEPT ![p] = NoJob],
         UNCHANGED <<area, tables, disk, hits>>,
         blind \subseteq blind', blind' \subseteq Slots
  PROVE  ContentsSound'
<1>1. /\ pc'[p] = c
      /\ \A q \in Procs \ {p} : pc'[q] = pc[q] /\ todo'[q] = todo[q] /\ job'[q] = job[q]
      /\ job' = [q \in Procs |-> job'[q]]
  BY WriteAside
<1>2. c \notin {Ready} \cup Writing
  BY DEF Ready, Idle, Refused, Writing, Primary, Between, Backup
<1>3. job'[p] = NoJob
  BY DEF ImageInvariant, ImageTypes, JobTyped
<1>4. \A s : Quiet(s)' <=> Quiet(s)
  BY <1>1, <1>2, QuietAside
<1>5. \A s \in Slots : /\ Once(s)' => Once(s)
                       /\ hits'[s] = 0 /\ Quiet(s)' => hits[s] = 0 /\ Quiet(s)
  BY <1>4 DEF Once
<1> QED
  BY <1>1, <1>2, <1>3, <1>5, LeaveKept

LEMMA WriteRefusedKept ==
  ASSUME ImageInvariant, NEW p \in Procs, WriteRefused(p),
         blind \subseteq blind', blind' \subseteq Slots
  PROVE  ContentsSound'
<1>1. /\ pc[p] = Ready /\ pc' = [pc EXCEPT ![p] = Refused] /\ todo' = [todo EXCEPT ![p] = <<>>]
      /\ job' = [job EXCEPT ![p] = NoJob] /\ UNCHANGED <<area, tables, disk, hits>>
  BY DEF WriteRefused, RefuseWrite
<1> QED
  BY <1>1, ReadyIsQuiet, PauseKept DEF ImageInvariant

LEMMA ExitsKept ==
  ASSUME ImageInvariant, NEW p \in Procs, Exits(p),
         blind \subseteq blind', blind' \subseteq Slots
  PROVE  ContentsSound'
<1>1. /\ pc[p] = Refused /\ pc' = [pc EXCEPT ![p] = Idle] /\ todo' = todo
      /\ job' = job /\ UNCHANGED <<area, tables, disk, hits>>
  BY DEF Exits, Exit
<1>2. Refused \notin Writing
  BY DEF Refused, Writing, Primary, Between, Backup
<1> QED
  BY <1>1, <1>2, PauseKept

LEMMA KilledKept ==
  ASSUME ImageInvariant, NEW p \in Procs, Killed(p),
         blind \subseteq blind', blind' \subseteq Slots
  PROVE  ContentsSound'
<1>1. /\ AtWork(p)
      /\ hits' = IF pc[p] \in Writing THEN [hits EXCEPT ![Current(p).slot] = hits[Current(p).slot] + 1]
                 ELSE hits
      /\ pc' = [pc EXCEPT ![p] = Idle] /\ todo' = [todo EXCEPT ![p] = <<>>]
      /\ job' = [job EXCEPT ![p] = NoJob] /\ UNCHANGED <<area, tables, disk>>
  BY DEF Killed, Interrupt, AtWork
<1>2. CASE pc[p] \notin Writing
  BY <1>1, <1>2, PauseKept
<1>3. CASE pc[p] \in Writing
  <2>1. PICK s : s = Current(p).slot
    OBVIOUS
  <2>2. /\ pc'[p] = Idle
        /\ \A q \in Procs \ {p} : pc'[q] = pc[q] /\ todo'[q] = todo[q] /\ job'[q] = job[q]
        /\ job' = [q \in Procs |-> job'[q]]
    BY <1>1, WriteAside
  <2>3. Idle \notin {Ready} \cup Writing
    BY DEF Ready, Idle, Writing, Primary, Between, Backup
  <2>4. job'[p] = NoJob
    BY <1>1 DEF ImageInvariant, ImageTypes
  <2>5. s \in Slots /\ hits \in [Slots -> Nat]
    BY <1>1, <2>1, WorkFacts, PcTypes DEF ImageInvariant
  <2>6. /\ hits'[s] = hits[s] + 1 /\ hits[s] \in Nat
        /\ \A t \in Slots \ {s} : hits'[t] = hits[t]
    BY <1>1, <1>3, <2>1, <2>5
  <2>7. ASSUME NEW t \in Slots
        PROVE  /\ Once(t)' => Once(t)
               /\ hits'[t] = 0 /\ Quiet(t)' => hits[t] = 0 /\ Quiet(t)
    <3>1. CASE t = s
      <4>1. hits'[t] # 0 /\ (hits'[t] = 1 => hits[t] = 0)
        BY <2>6, <3>1
      <4> QED
        BY <4>1 DEF Once
    <3>2. CASE t # s
      <4>1. \A q \in Procs \ {p} : Current(q)' = Current(q)
        BY <2>2 DEF Current
      <4>2. Quiet(t)' => Quiet(t)
        BY <2>1, <2>2, <3>2, <4>1 DEF Quiet
      <4> QED
        BY <2>6, <3>2, <4>2 DEF Once
    <3> QED
      BY <3>1, <3>2
  <2> QED
    BY <1>1, <2>2, <2>3, <2>4, <2>7, LeaveKept
<1> QED
  BY <1>2, <1>3

----------------------------------------------------------------------------
\* The invariant holds when the image has been made.
LEMMA MadeSound ==
  ASSUME NEW sectors \in Seq(Sectors), sectors # <<>>
  PROVE  /\ Cells(sectors, Made) \in Seq(CellType) /\ Cells(sectors, Made) # <<>>
         /\ \A c \in SeqX!ToSet(Cells(sectors, Made)) : c.at \in Sectors /\ c.holds = Made
<1> DEFINE cells == Cells(sectors, Made)
<1>1. Len(sectors) \in Nat /\ Len(sectors) > 0 /\ DOMAIN sectors = 1 .. Len(sectors)
  BY LenProperties, EmptySeq
<1>2. \A k \in 1 .. Len(sectors) : sectors[k] \in Sectors
  BY <1>1, ElementOfSeq
<1>3. cells = [k \in 1 .. Len(sectors) |-> [at |-> sectors[k], holds |-> Made]]
  BY <1>1 DEF Cells
<1>4. Made \in Contents
  BY GeometryAssumption, VersionAssumption DEF Made, Payload, Contents, Versions, Slots
<1> HIDE DEF cells
<1>5. cells \in [1 .. Len(sectors) -> CellType]
  BY <1>2, <1>3, <1>4 DEF CellType
<1>6. cells \in Seq(CellType)
  BY <1>1, <1>5
<1>7. cells # <<>>
  <2>1. 1 \in DOMAIN cells /\ DOMAIN <<>> = {}
    BY <1>1, <1>5
  <2> QED
    BY <2>1
<1>8. \A c \in SeqX!ToSet(cells) : c.at \in Sectors /\ c.holds = Made
  BY <1>2, <1>3 DEF SeqX!ToSet
<1> QED
  BY <1>6, <1>7, <1>8 DEF cells

LEMMA InitialImage ==
  ASSUME ImageInit
  PROVE  ImageInvariant
<1> DEFINE made == [n \in DOMAIN MadeTable |-> Cells(MadeTable[n], Made)]
<1>1. /\ area = [o \in CopyOffsets |-> 0] /\ pc = [p \in Procs |-> Idle]
      /\ hits = [s \in Slots |-> 0] /\ tables = [o \in CopyOffsets |-> made]
      /\ disk = [x \in Sectors |-> Made] /\ job = [p \in Procs |-> NoJob] /\ blind = {}
  BY DEF ImageInit, Init
<1>2. CopiesInvariant
  BY InitialCopies DEF ImageInit
<1>3. \A n \in DOMAIN MadeTable : /\ MadeTable[n] \in Seq(Sectors) /\ MadeTable[n] # <<>>
                                  /\ n \in Names
  BY MadeAssumption
<1>4. IsFull(made)
  BY <1>3, MadeSound DEF IsFull, IsTable, CellType
<1>5. \A c \in CellsOf(made) : c.at \in Sectors /\ c.holds = Made
  BY <1>3, MadeSound DEF CellsOf
<1> HIDE DEF made
<1>6. \A s : Whole(s, made)
  BY <1>1, <1>5 DEF Whole, Held
<1>7. \A s \in Slots : /\ PrimaryOffset(s) \in CopyOffsets /\ BackupOffset(s) \in CopyOffsets
                       /\ area[PrimaryOffset(s)] = 0
                       /\ tables[PrimaryOffset(s)] = made /\ tables[BackupOffset(s)] = made
  BY <1>1, CopiesApart
<1>8. PrimariesWhole /\ BackupsWhole /\ CopiesAlike
  BY <1>6, <1>7 DEF PrimariesWhole, BackupsWhole, CopiesAlike
<1>9. JobsSound
  BY <1>1 DEF JobsSound, AtWork, Idle, Ready, Writing, Primary, Between, Backup
<1>10. BlindSeen
  <2>1. ASSUME NEW s \in Slots PROVE s \in LoadsNow
    <3>1. PrimaryOffset(s) \in FindMetadataForSlot(s)
      BY <1>7 DEF FindMetadataForSlot, Torn
    <3>2. \E e \in Loadable : e.slot = s
      <4>1. [slot |-> s, offset |-> PrimaryOffset(s), version |-> area[PrimaryOffset(s)]] \in Loadable
        BY <3>1 DEF Loadable
      <4> QED
        BY <4>1
    <3> QED
      BY <3>2 DEF LoadsNow
  <2> QED
    BY <2>1 DEF BlindSeen
<1>11. ImageTypes
  <2>1. \A p \in Procs : JobTyped(p)
    <3>1. /\ NoJob = [table |-> NoTable, payload |-> <<>>]
          /\ NoJob.table = NoTable /\ NoJob.payload = <<>>
      BY DEF NoJob
    <3>2. \A p \in Procs : job[p] = NoJob
      BY <1>1
    <3> QED
      <4> SUFFICES ASSUME NEW p \in Procs PROVE JobTyped(p)
        OBVIOUS
      <4>1. job[p] = NoJob
        BY <3>2
      <4>2. <<>> \in Seq(CellType)
        OBVIOUS
      <4>3. job[p].table = NoTable /\ job[p].payload = <<>>
        BY <3>1, <4>1
      <4>4. job[p] = [table |-> job[p].table, payload |-> job[p].payload]
        BY <3>1, <4>1, <4>3
      <4> QED
        BY <4>1, <4>2, <4>3, <4>4, NoTableEmpty DEF JobTyped, PayloadWritten
  <2>2. disk \in [Sectors -> Contents]
    <3>1. Made \in Contents
      BY GeometryAssumption, VersionAssumption DEF Made, Payload, Contents, Versions, Slots
    <3> QED
      BY <1>1, <3>1
  <2>3. \A o \in CopyOffsets : area[o] # Torn
    BY <1>1 DEF Torn
  <2> QED
    BY <1>1, <1>4, <2>1, <2>2, <2>3 DEF ImageTypes
<1> QED
  BY <1>2, <1>8, <1>9, <1>10, <1>11 DEF ImageInvariant

LEMMA StepKeepsImage ==
  ASSUME ImageInvariant, [ImageNext]_imageVars
  PROVE  ImageInvariant'
<1>1. CopiesInvariant'
  BY ImageStepIsStep, StepKeepsCopies DEF ImageInvariant
<1>2. CASE ImageNext
  <2>1. PICK p \in Procs : ImageStep(p)
    BY <1>2 DEF ImageNext
  <2>2. blind' = blind \cup (Slots \ LoadsNow')
    BY <1>2 DEF ImageNext
  <2>3. blind \subseteq blind' /\ blind' \subseteq Slots
    BY <2>2 DEF ImageInvariant, ImageTypes
  <2>4. BlindSeen'
    BY <2>2 DEF BlindSeen, Slots
  <2>5. ContentsSound'
    BY <2>1, <2>3, CommandKept, WritePayloadKept, WriteBeginPrimaryKept, WriteEndPrimaryKept,
       WriteBeginBackupKept, WriteEndBackupKept, WriteRefusedKept, KilledKept, ExitsKept
       DEF ImageStep
  <2> QED
    BY <1>1, <2>4, <2>5 DEF ImageInvariant, ContentsSound
<1>3. CASE UNCHANGED imageVars
  <2>1. UNCHANGED <<area, pc, todo, done, hits, tables, disk, job, blind>>
    BY <1>3 DEF imageVars, vars
  <2>2. BlindSeen'
    BY <2>1 DEF ImageInvariant, BlindSeen, LoadsNow, Loadable, FindMetadataForSlot, PrimaryOffset,
                BackupOffset
  <2>3. ImageTypes'
    BY <2>1 DEF ImageInvariant, ImageTypes, JobTyped, PayloadWritten
  <2>4. PrimariesWhole' /\ BackupsWhole' /\ CopiesAlike'
    BY <2>1, CopiesStayWhole DEF Once, Quiet, Current
  <2>5. JobsSound'
    <3>1. \A q \in Procs : AtWork(q)' => AtWork(q)
      BY <2>1 DEF AtWork
    <3>2. ASSUME NEW q \in Procs, JobSound(q) PROVE JobSound(q)'
      BY <2>1, <3>2 DEF JobSound, Current, Held, Excused, CellsOf, Used, PrimaryOffset
    <3> QED
      BY <3>1, <3>2 DEF ImageInvariant, JobsSound
  <2> QED
    BY <1>1, <2>2, <2>3, <2>4, <2>5 DEF ImageInvariant
<1> QED
  BY <1>2, <1>3

----------------------------------------------------------------------------
\* The two copies of every slot, the sectors and the work of every command fit
\* together, in every state of the image.
THEOREM ImageInvariantHolds == ImageSpec => []ImageInvariant
<1>1. ImageInit => ImageInvariant
  BY InitialImage
<1>2. ImageInvariant /\ [ImageNext]_imageVars => ImageInvariant'
  BY StepKeepsImage
<1> QED
  BY <1>1, <1>2, PTL DEF ImageSpec

\* The image's variables keep their types: no table is read from a torn copy,
\* and add's payload is complete before its metadata is begun.
THEOREM ImageTypesHold == ImageSpec => []ImageTypeOK
<1>1. ImageInvariant => ImageTypeOK
  <2> SUFFICES ASSUME ImageInvariant PROVE ImageTypeOK
    OBVIOUS
  <2>1. TypeOK
    BY DEF ImageInvariant, CopiesInvariant
  <2> QED
    BY <2>1 DEF ImageInvariant, ImageTypes, ImageTypeOK, JobTyped, IsFull, CellType
<1> QED
  BY <1>1, ImageInvariantHolds, PTL

\* Whatever commands run, in whatever order and wherever they are killed: a
\* slot that at most one write has left or is leaving incomplete loads a table
\* whose partitions hold what their add or make put there.
THEOREM PayloadStays == ImageSpec => []PayloadIntact
<1>1. ASSUME ImageInvariant, NEW s \in LoadsNow, hits[s] + Cardinality(InFlight(s)) <= 1
      PROVE  Whole(s, TableOf(s))
  <2>1. s \in Slots /\ FindMetadataForSlot(s) # {}
    BY DEF LoadsNow, Loadable
  <2>2. hits[s] \in Nat
    BY <1>1, <2>1, PcTypes DEF ImageInvariant
  <2>3. Once(s)
    <3>1. CASE Quiet(s)
      <4>1. InFlight(s) = {}
        BY <3>1 DEF InFlight, Quiet
      <4>2. hits[s] <= 1
        BY <1>1, <2>2, <4>1, FS_EmptySet
      <4> QED
        BY <2>2, <3>1, <4>2 DEF Once
    <3>2. CASE ~Quiet(s)
      <4>1. PICK p \in Procs : pc[p] \in Writing /\ Current(p).slot = s
        BY <3>2 DEF Quiet
      <4>2. \A q \in InFlight(s) : q = p
        BY <1>1, <4>1, WorkApart DEF InFlight, AtWork, ImageInvariant
      <4>3. InFlight(s) = {p}
        BY <4>1, <4>2 DEF InFlight
      <4>4. Cardinality(InFlight(s)) = 1
        BY <4>3, FS_Singleton
      <4> QED
        BY <1>1, <2>2, <4>4 DEF Once
    <3> QED
      BY <3>1, <3>2
  <2>4. LoadedOffset(s) \in FindMetadataForSlot(s)
    BY <1>1, <2>1, LoadedFacts
  <2>5. CASE area[PrimaryOffset(s)] # Torn
    BY <1>1, <2>1, <2>4, <2>5 DEF FindMetadataForSlot, TableOf, ImageInvariant, PrimariesWhole
  <2>6. CASE area[PrimaryOffset(s)] = Torn
    BY <1>1, <2>1, <2>3, <2>4, <2>6 DEF FindMetadataForSlot, TableOf, ImageInvariant, BackupsWhole
  <2> QED
    BY <2>5, <2>6
<1>2. ImageInvariant => PayloadIntact
  BY <1>1 DEF PayloadIntact, Whole, Held, CellsOf
<1> QED
  BY <1>2, ImageInvariantHolds, PTL
=============================================================================
