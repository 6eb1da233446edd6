----------------------------- MODULE SlotStore -----------------------------
(***************************************************************************)
(* The metadata area of a super image: two copies of each slot's table, a  *)
(* primary and a backup, how a command loads one (LpParser) and rewrites   *)
(* both (LpWriter::write_metadata), and what is left when it is killed or  *)
(* an I/O error ends it half-way.                                          *)
(*                                                                         *)
(* A copy is abstracted to the number of the edit it holds, or Torn when   *)
(* its checksums do not match: while it is being overwritten, and for good *)
(* if the writer does not get to the end.  A command on a slot reads edit  *)
(* v and writes edit v + 1.  clear-cow works through several slots, all    *)
(* loaded before the first is written; the other commands edit one.        *)
(*                                                                         *)
(* The code takes no lock.  Commands on different slots interleave freely  *)
(* here; that no two run on the same slot is an assumption (the guard of   *)
(* Start), as is that data written is on the disk, in order: the code      *)
(* never syncs, so this is the fate of a killed process, not of a machine  *)
(* that loses power.                                                       *)
(***************************************************************************)
EXTENDS Integers, Sequences, FiniteSets

CONSTANTS
  SlotCount,    \* geometry: metadata_slot_count
  MaxSize,      \* geometry: metadata_max_size, the bytes of one copy
  MetadataBase, \* METADATA_BASE_OFFSET
  Procs,        \* running commands
  MaxVersion    \* bound: edits of a slot

ASSUME GeometryAssumption ==
  SlotCount \in Nat \ {0} /\ MaxSize \in Nat \ {0} /\ MetadataBase \in Nat
ASSUME VersionAssumption == MaxVersion \in Nat

VARIABLES
  area, \* byte offset -> the copy that starts there
  pc,   \* what each command is doing
  todo, \* the slots it still has to write: [slot, offset, version] as loaded
  done, \* history: the last edit of each slot written completely
  hits  \* history: writes of each slot interrupted since then

vars == <<area, pc, todo, done, hits>>

Slots == 0 .. SlotCount - 1
Versions == 0 .. MaxVersion
Torn == -1

----------------------------------------------------------------------------
\* The layout (format/mod.rs): all primaries, then all backups.
PrimaryOffset(slot) == MetadataBase + slot * MaxSize

\* Mutant of BackupOffset: the backups start one copy too early.
BackupOffsetEarly(slot) == MetadataBase + (SlotCount + slot - 1) * MaxSize

BackupOffset(slot) == MetadataBase + (SlotCount + slot) * MaxSize
CopyOffsets == {PrimaryOffset(s) : s \in Slots} \cup {BackupOffset(s) : s \in Slots}

\* An option is a set of at most one value.
SlotFromPrimaryOffset(offset) ==
  {q \in 0 .. offset : offset - MetadataBase = q * MaxSize}

\* LpParser::find_metadata_for_slot: the offset of the primary copy if that
\* is valid, else of the backup copy, else nothing.
FindMetadataForSlot(slot) ==
  IF area[PrimaryOffset(slot)] # Torn THEN {PrimaryOffset(slot)}
  ELSE IF area[BackupOffset(slot)] # Torn THEN {BackupOffset(slot)}
  ELSE {}

\* The slot write_metadata means by the offset it was loaded from.
SlotOfBackup(offset) ==
  {q - SlotCount : q \in {k \in SlotFromPrimaryOffset(offset) : k >= SlotCount}}
ResolveSlot(offset) ==
  IF SlotFromPrimaryOffset(offset) # {} THEN SlotFromPrimaryOffset(offset)
  ELSE SlotOfBackup(offset)

----------------------------------------------------------------------------
Idle == "idle"       \* no command
Ready == "ready"     \* loaded and edited, about to write the next slot
Primary == "primary" \* overwriting the primary copy
Between == "between" \* primary written, backup not yet
Backup == "backup"   \* overwriting the backup copy
Refused == "refused" \* write_metadata returned an error before it wrote
Writing == {Primary, Between, Backup}

Entry == [slot : Slots, offset : CopyOffsets, version : Versions]

Current(p) == Head(todo[p])
Works(p, s) == \E i \in DOMAIN todo[p] : todo[p][i].slot = s
InFlight(s) == {p \in Procs : pc[p] \in Writing /\ Current(p).slot = s}

Init ==
  /\ area = [o \in CopyOffsets |-> 0]
  /\ pc = [p \in Procs |-> Idle]
  /\ todo = [p \in Procs |-> <<>>]
  /\ done = [s \in Slots |-> 0]
  /\ hits = [s \in Slots |-> 0]

\* load_for_slot_filter: every slot that has a valid copy, as it is found now.
Loadable ==
  UNION {{[slot |-> s, offset |-> o, version |-> area[o]] : o \in FindMetadataForSlot(s)} :
         s \in Slots}

\* A command has loaded the slots of list and edited them in memory: one
\* slot, or, for clear-cow, those with something to clear, in order.
Start(p, list) ==
  /\ pc[p] = Idle
  /\ \A i \in DOMAIN list :
       /\ list[i].version < MaxVersion
       /\ \A q \in Procs : ~Works(q, list[i].slot)
  /\ \A i, j \in DOMAIN list : i < j => list[i].slot < list[j].slot
  /\ pc' = [pc EXCEPT ![p] = Ready]
  /\ todo' = [todo EXCEPT ![p] = list]
  /\ UNCHANGED <<area, done, hits>>

\* write_metadata: the slot must be one of the geometry's.
Accepted(p) == ResolveSlot(Current(p).offset) \cap Slots # {}
Target(p) == CHOOSE s \in ResolveSlot(Current(p).offset) : TRUE

RefuseWrite(p) ==
  /\ pc[p] = Ready
  /\ ~Accepted(p)
  /\ pc' = [pc EXCEPT ![p] = Refused]
  /\ todo' = [todo EXCEPT ![p] = <<>>]
  /\ UNCHANGED <<area, done, hits>>

\* Mutants of BeginPrimary: both copies are overwritten at the same time; the
\* backup is written first and the primary forgotten.
BeginBoth(p) ==
  /\ pc[p] = Ready
  /\ Accepted(p)
  /\ area' = [area EXCEPT ![PrimaryOffset(Target(p))] = Torn, ![BackupOffset(Target(p))] = Torn]
  /\ pc' = [pc EXCEPT ![p] = Primary]
  /\ UNCHANGED <<todo, done, hits>>

BeginWithBackup(p) ==
  /\ pc[p] = Ready
  /\ Accepted(p)
  /\ area' = [area EXCEPT ![BackupOffset(Target(p))] = Torn]
  /\ pc' = [pc EXCEPT ![p] = Backup]
  /\ UNCHANGED <<todo, done, hits>>

\* The primary copy is no longer valid, from the first byte written.
BeginPrimary(p) ==
  /\ pc[p] = Ready
  /\ Accepted(p)
  /\ area' = [area EXCEPT ![PrimaryOffset(Target(p))] = Torn]
  /\ pc' = [pc EXCEPT ![p] = Primary]
  /\ UNCHANGED <<todo, done, hits>>

EndPrimary(p) ==
  /\ pc[p] = Primary
  /\ area' = [area EXCEPT ![PrimaryOffset(Target(p))] = Current(p).version + 1]
  /\ pc' = [pc EXCEPT ![p] = Between]
  /\ UNCHANGED <<todo, done, hits>>

BeginBackup(p) ==
  /\ pc[p] = Between
  /\ area' = [area EXCEPT ![BackupOffset(Target(p))] = Torn]
  /\ pc' = [pc EXCEPT ![p] = Backup]
  /\ UNCHANGED <<todo, done, hits>>

\* Mutants of EndBackup: the table as loaded goes into the backup; clear-cow
\* stops after its first slot.
EndBackupStale(p) ==
  /\ pc[p] = Backup
  /\ area' = [area EXCEPT ![BackupOffset(Target(p))] = Current(p).version]
  /\ todo' = [todo EXCEPT ![p] = Tail(@)]
  /\ pc' = [pc EXCEPT ![p] = IF Tail(todo[p]) = <<>> THEN Idle ELSE Ready]
  /\ done' = [done EXCEPT ![Target(p)] = Current(p).version + 1]
  /\ hits' = [hits EXCEPT ![Target(p)] = 0]

EndBackupAndStop(p) ==
  /\ pc[p] = Backup
  /\ area' = [area EXCEPT ![BackupOffset(Target(p))] = Current(p).version + 1]
  /\ todo' = [todo EXCEPT ![p] = Tail(@)]
  /\ pc' = [pc EXCEPT ![p] = Idle]
  /\ done' = [done EXCEPT ![Target(p)] = Current(p).version + 1]
  /\ hits' = [hits EXCEPT ![Target(p)] = 0]

\* The backup is written; clear-cow goes on to its next slot.
EndBackup(p) ==
  LET s == Target(p)
      v == Current(p).version + 1
  IN /\ pc[p] = Backup
     /\ area' = [area EXCEPT ![BackupOffset(s)] = v]
     /\ todo' = [todo EXCEPT ![p] = Tail(@)]
     /\ pc' = [pc EXCEPT ![p] = IF Tail(todo[p]) = <<>> THEN Idle ELSE Ready]
     /\ done' = [done EXCEPT ![s] = v]
     /\ hits' = [hits EXCEPT ![s] = 0]

\* The process is killed, or a write fails and it exits.
Interrupt(p) ==
  /\ pc[p] \in {Ready} \cup Writing
  /\ hits' = IF pc[p] \in Writing THEN [hits EXCEPT ![Current(p).slot] = @ + 1] ELSE hits
  /\ pc' = [pc EXCEPT ![p] = Idle]
  /\ todo' = [todo EXCEPT ![p] = <<>>]
  /\ UNCHANGED <<area, done>>

\* The refused command has reported its error.
Exit(p) ==
  /\ pc[p] = Refused
  /\ pc' = [pc EXCEPT ![p] = Idle]
  /\ UNCHANGED <<area, todo, done, hits>>

Step(p) ==
  \/ \E n \in 1 .. SlotCount : \E list \in [1 .. n -> Loadable] : Start(p, list)
  \/ RefuseWrite(p) \/ BeginPrimary(p) \/ EndPrimary(p)
  \/ BeginBackup(p) \/ EndBackup(p) \/ Interrupt(p) \/ Exit(p)

Next == \E p \in Procs : Step(p)

Spec == Init /\ [][Next]_vars
----------------------------------------------------------------------------
TypeOK ==
  /\ area \in [CopyOffsets -> Versions \cup {Torn}]
  /\ pc \in [Procs -> {Idle, Ready, Refused} \cup Writing]
  /\ todo \in [Procs -> Seq(Entry)]
  /\ \A p \in Procs : (todo[p] # <<>>) = (pc[p] \in {Ready} \cup Writing)
  /\ done \in [Slots -> Versions]
  /\ hits \in [Slots -> Nat]

\* What a load of slot s would find at this moment.
Found(s) == {area[o] : o \in FindMetadataForSlot(s)}

\* At every moment, in the middle of a rewrite too, a slot that at most one
\* write has left (or is now leaving) incomplete since the last complete one
\* loads, and loads as that complete edit or as the one after it: an edit is
\* there or not there, and one interruption loses nothing.
Recoverable ==
  \A s \in Slots :
    hits[s] + Cardinality(InFlight(s)) <= 1 =>
      \E v \in Found(s) : v \in {done[s], done[s] + 1}

\* A completed edit is on both copies: until the next write of its slot, the
\* backup is as good as the primary.
CompleteEditsDoubled ==
  \A s \in Slots :
    hits[s] = 0 /\ InFlight(s) = {} =>
      area[PrimaryOffset(s)] = done[s] /\ area[BackupOffset(s)] = done[s]

\* The copy that loads by preference is never the older one, however many
\* writes were interrupted and wherever.
PrimaryNotOlder ==
  \A s \in Slots :
    area[PrimaryOffset(s)] # Torn => area[BackupOffset(s)] <= area[PrimaryOffset(s)]

\* A write of one slot changes copies of that slot alone ("without touching
\* neighbouring slots"), and a copy changes in no other step.
WrittenByOwner ==
  \A s \in Slots :
    \/ area'[PrimaryOffset(s)] = area[PrimaryOffset(s)]
       /\ area'[BackupOffset(s)] = area[BackupOffset(s)]
    \/ \E p \in Procs : pc'[p] # pc[p] /\ Current(p).slot = s
NeighboursUntouched == [][WrittenByOwner]_vars

\* No command that loaded a valid copy of a slot, be it the backup, is then
\* told that the slot does not exist.  write_metadata means it so ("fall back
\* to backup-derived index if a backup copy was loaded").
BackupLoadWritable == \A p \in Procs : pc[p] # Refused

----------------------------------------------------------------------------
\* Why they hold: an inductive invariant, of which Recoverable,
\* CompleteEditsDoubled and PrimaryNotOlder are consequences.

\* What a command has not begun to write is still on the disk as it loaded it.
AsFound(e) == e.offset \in FindMetadataForSlot(e.slot) /\ area[e.offset] = e.version
LoadedStillThere ==
  \A p \in Procs : \A i \in DOMAIN todo[p] :
    /\ todo[p][i].version < MaxVersion
    /\ i > 1 \/ pc[p] = Ready => AsFound(todo[p][i])

\* No slot is worked on twice, by two commands or by one.
WorkDistinct ==
  \A p, q \in Procs : \A i \in DOMAIN todo[p], j \in DOMAIN todo[q] :
    todo[p][i].slot = todo[q][j].slot => p = q /\ i = j

\* A write under way goes to the slot that was loaded, from its primary copy,
\* and the backup has the edit before until the primary has the new one.
WriteShape(p) ==
  LET e == Current(p)
      primary == area[PrimaryOffset(e.slot)]
      backup == area[BackupOffset(e.slot)]
  IN /\ e.offset = PrimaryOffset(e.slot)
     /\ hits[e.slot] = 0 => e.version = done[e.slot] /\ backup \in {done[e.slot], Torn}
     /\ pc[p] = Primary => primary = Torn
     /\ pc[p] # Primary => primary = e.version + 1
     /\ pc[p] # Backup => backup <= e.version /\ (hits[e.slot] = 0 => backup # Torn)
     /\ pc[p] = Backup => backup = Torn
WritesOrdered == \A p \in Procs : pc[p] \in Writing => WriteShape(p)

\* A slot nobody is writing, after no or one interrupted write.
Quiet(s) == \A p \in Procs : pc[p] \in Writing => Current(p).slot # s
QuietShape(s) ==
  LET primary == area[PrimaryOffset(s)]
      backup == area[BackupOffset(s)]
  IN /\ hits[s] = 0 => primary = done[s] /\ backup = done[s]
     /\ hits[s] = 1 => \/ primary = Torn /\ backup = done[s]
                       \/ primary = done[s] + 1 /\ backup \in {done[s], Torn}
QuietSlotsWhole == \A s \in Slots : Quiet(s) => QuietShape(s)

\* All of it: the invariant that every step preserves.
CopiesInvariant ==
  /\ TypeOK
  /\ LoadedStillThere
  /\ WorkDistinct
  /\ WritesOrdered
  /\ QuietSlotsWhole
  /\ PrimaryNotOlder

=============================================================================
