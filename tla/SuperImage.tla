----------------------------- MODULE SuperImage -----------------------------
(***************************************************************************)
(* The whole image: SlotStore's metadata copies with the tables they hold, *)
(* and the sectors those tables give out.  A command resolves its slot and *)
(* partition (Lookup), edits the table it loaded, allocating first fit     *)
(* against that table alone (LpAlloc), writes the payload of a new         *)
(* partition sector by sector, and then the metadata, as in SlotStore.     *)
(*                                                                         *)
(* Every action below is one of SlotStore with what it does to the rest of *)
(* the image, or leaves SlotStore's variables alone.                       *)
(*                                                                         *)
(* A table maps the names of its partitions to their sectors in order.     *)
(* Each is a cell: where it is, and what the command that gave it to the   *)
(* partition has promised to be there.  Groups, attributes, alignment and  *)
(* the other devices are LpTable's subject.                                *)
(***************************************************************************)
EXTENDS SlotStore, Lookup
SeqX == INSTANCE SequencesExt
Alloc == INSTANCE LpAlloc

CONSTANTS
  NewNames,  \* names given to new partitions
  Sizes,     \* sizes asked for, in sectors
  Dev,       \* the block device
  MadeTable  \* the table `make` wrote in every slot: name -> its sectors

\* The sectors that partitions may have.
Sectors == Dev.first .. Alloc!Limit(Dev) - 1

ASSUME MadeAssumption ==
  /\ Dev \in [first : Nat, size : Nat, alignment : Nat, offset : Nat]
  /\ NewNames \subseteq Names /\ Sizes \subseteq Nat \ {0}
  /\ DOMAIN MadeTable \subseteq Names
  /\ \A n \in DOMAIN MadeTable : MadeTable[n] \in Seq(Sectors) \ {<<>>}

VARIABLES
  tables, \* byte offset -> the table of the copy that starts there
  disk,   \* sector -> what was written there last
  job,    \* per command: the edited table, and the payload it still has to write
  blind   \* history: slots that failed to load at some moment

imageVars == <<vars, tables, disk, job, blind>>

\* What a sector holds: the payload that an edit of a slot wrote, by a
\* command that was told its slot or not; before any, what make wrote.
Payload(edit, slot, told) == [edit |-> edit, slot |-> slot, told |-> told]
Made == Payload(0, 0, FALSE)

\* The promise of a command that writes no payload.
Anything == Payload(-1, 0, FALSE)

Cells(sectors, content) == [k \in DOMAIN sectors |-> [at |-> sectors[k], holds |-> content]]
NoTable == <<>>
NoJob == [table |-> NoTable, payload |-> <<>>]

ImageInit ==
  /\ Init
  /\ tables = [o \in CopyOffsets |-> [n \in DOMAIN MadeTable |-> Cells(MadeTable[n], Made)]]
  /\ disk = [x \in Sectors |-> Made]
  /\ job = [p \in Procs |-> NoJob]
  /\ blind = {}

----------------------------------------------------------------------------
\* The tables that a command with this --slot loads, as Lookup sees them.
LoadedOffset(s) == CHOOSE o \in CopyOffsets : o \in FindMetadataForSlot(s)
TableOf(s) == tables[LoadedOffset(s)]
NamesIn(slots) == [s \in {r \in slots : FindMetadataForSlot(r) # {}} |-> DOMAIN TableOf(s)]
Loaded(slot) == NamesIn(IF slot = {} THEN Slots ELSE slot)

\* What the requests with this --slot let resize and remove, and rename, edit.
Editable(slot) ==
  LET loaded == Loaded(slot)
  IN UNION {WriteTarget(loaded, name, suffix, slot) : name \in Names, suffix \in Suffixes}
Renamable(slot) ==
  LET loaded == Loaded(slot)
  IN UNION {RenameTarget(loaded, name, suffix, slot) : name \in Names, suffix \in Suffixes}

\* The sectors a table gives out, and those where a new run may start: at most
\* one, the first fit.  (The allocator does not look at the order of extents.)
Used(table) == {c.at : c \in UNION {SeqX!ToSet(table[n]) : n \in DOMAIN table}}
Place(table, len) ==
  LET extents == [x \in Used(table) |->
                    [num |-> 1, type |-> Alloc!Linear, data |-> x, source |-> 0]]
  IN {s \in Sectors : Alloc!FirstFit(extents, <<Dev>>, 0, len, s)}
Run(start, len) == [k \in 1 .. len |-> start + k - 1]

With(table, name, cells) ==
  [n \in DOMAIN table \cup {name} |-> IF n = name THEN cells ELSE table[n]]
Without(table, name) == [n \in DOMAIN table \ {name} |-> table[n]]

\* A command has loaded slot s and edited its table.
Begin(p, s, edited, payload) ==
  /\ Start(p, <<[slot |-> s, offset |-> LoadedOffset(s), version |-> area[LoadedOffset(s)]]>>)
  /\ job' = [job EXCEPT ![p] = [table |-> edited, payload |-> payload]]
  /\ UNCHANGED <<tables, disk>>

\* add: a new partition and its payload.
Add(p, s, name, len, told) ==
  /\ name \notin DOMAIN TableOf(s)
  /\ \E start \in Place(TableOf(s), len) :
       LET edit == area[LoadedOffset(s)] + 1
           run == Cells(Run(start, len), Payload(edit, s, told))
       IN Begin(p, s, With(TableOf(s), name, run), run)

\* create: a new partition, over whatever is on the disk.
Create(p, s, name, len) ==
  /\ name \notin DOMAIN TableOf(s)
  /\ \E start \in Place(TableOf(s), len) :
       Begin(p, s, With(TableOf(s), name, Cells(Run(start, len), Anything)), <<>>)

Remove(p, f) == Begin(p, f.slot, Without(TableOf(f.slot), f.part), <<>>)

\* resize to fewer sectors: the first ones stay.
Shrink(p, f, len) ==
  /\ len < Len(TableOf(f.slot)[f.part])
  /\ Begin(p, f.slot, [TableOf(f.slot) EXCEPT ![f.part] = SubSeq(@, 1, len)], <<>>)

\* resize to more: in place behind the last sector when that is free, else in
\* a new run.  What is there is not overwritten.
FreeBehind(table, last, len) ==
  \A x \in last + 1 .. last + len : x \in Sectors \ Used(table)
Grow(p, f, len) ==
  LET table == TableOf(f.slot)
      cells == table[f.part]
      extra == len - Len(cells)
      last == cells[Len(cells)].at
      starts == IF FreeBehind(table, last, extra) THEN {last + 1} ELSE Place(table, extra)
  IN /\ extra > 0
     /\ \E start \in starts :
          Begin(p, f.slot, [table EXCEPT ![f.part] = @ \o Cells(Run(start, extra), Anything)], <<>>)

Rename(p, f, new) ==
  /\ new \notin DOMAIN TableOf(f.slot)
  /\ Begin(p, f.slot, With(Without(TableOf(f.slot), f.part), new, TableOf(f.slot)[f.part]), <<>>)

\* copy_payload_stream, a sector at a time, before any metadata is written.
WritePayload(p) ==
  /\ pc[p] = Ready
  /\ job[p].payload # <<>>
  /\ LET c == Head(job[p].payload) IN disk' = [disk EXCEPT ![c.at] = c.holds]
  /\ job' = [job EXCEPT ![p].payload = Tail(@)]
  /\ UNCHANGED <<vars, tables>>

PayloadWritten(p) == job[p].payload = <<>>

\* write_metadata, step by step as in SlotStore.
\* Mutant of WriteBeginPrimary: the metadata does not wait for the payload.
WriteBeginPrimaryEarly(p) ==
  /\ BeginPrimary(p)
  /\ tables' = [tables EXCEPT ![PrimaryOffset(Target(p))] = NoTable]
  /\ UNCHANGED <<disk, job>>

WriteBeginPrimary(p) ==
  /\ BeginPrimary(p)
  /\ PayloadWritten(p)
  /\ tables' = [tables EXCEPT ![PrimaryOffset(Target(p))] = NoTable]
  /\ UNCHANGED <<disk, job>>

WriteEndPrimary(p) ==
  /\ EndPrimary(p)
  /\ tables' = [tables EXCEPT ![PrimaryOffset(Target(p))] = job[p].table]
  /\ UNCHANGED <<disk, job>>

WriteBeginBackup(p) ==
  /\ BeginBackup(p)
  /\ tables' = [tables EXCEPT ![BackupOffset(Target(p))] = NoTable]
  /\ UNCHANGED <<disk, job>>

WriteEndBackup(p) ==
  /\ EndBackup(p)
  /\ tables' = [tables EXCEPT ![BackupOffset(Target(p))] = job[p].table]
  /\ job' = [job EXCEPT ![p] = NoJob]
  /\ UNCHANGED disk

WriteRefused(p) ==
  /\ RefuseWrite(p)
  /\ PayloadWritten(p)
  /\ job' = [job EXCEPT ![p] = NoJob]
  /\ UNCHANGED <<tables, disk>>

\* The process ends, in the middle of the payload or of the metadata.
Killed(p) ==
  /\ Interrupt(p)
  /\ job' = [job EXCEPT ![p] = NoJob]
  /\ UNCHANGED <<tables, disk>>

Exits(p) == Exit(p) /\ UNCHANGED <<tables, disk, job>>

SlotOptions == {{}} \cup {{s} : s \in Slots}

Command(p) ==
  /\ pc[p] = Idle
  /\ \E slot \in SlotOptions :
       \/ \E s \in ResolveNewSlot(Loaded(slot), slot), name \in NewNames, len \in Sizes :
            Add(p, s, name, len, slot # {}) \/ Create(p, s, name, len)
       \/ \E f \in Editable(slot) :
            Remove(p, f) \/ \E len \in Sizes : Shrink(p, f, len) \/ Grow(p, f, len)
       \/ \E f \in Renamable(slot), new \in NewNames : Rename(p, f, new)

ImageStep(p) ==
  \/ Command(p) \/ WritePayload(p)
  \/ WriteBeginPrimary(p) \/ WriteEndPrimary(p) \/ WriteBeginBackup(p) \/ WriteEndBackup(p)
  \/ WriteRefused(p) \/ Killed(p) \/ Exits(p)

\* The slots that load now.
LoadsNow == {e.slot : e \in Loadable}

ImageNext ==
  /\ \E p \in Procs : ImageStep(p)
  /\ blind' = blind \cup (Slots \ LoadsNow')

ImageSpec == ImageInit /\ [][ImageNext]_imageVars
----------------------------------------------------------------------------

Contents == [edit : Versions \cup {-1}, slot : Slots, told : BOOLEAN]
IsTable(table) ==
  /\ DOMAIN table \subseteq Names
  /\ \A n \in DOMAIN table : table[n] \in Seq([at : Sectors, holds : Contents])

\* The types, and that no table is read from a torn copy, and none of add's
\* payload is left to write once its metadata is begun (add.rs writes the
\* payload first, so that a table never names sectors still to be filled).
ImageTypeOK ==
  /\ TypeOK
  /\ DOMAIN tables = CopyOffsets /\ \A o \in CopyOffsets : IsTable(tables[o])
  /\ \A o \in CopyOffsets : area[o] = Torn => tables[o] = NoTable
  /\ disk \in [Sectors -> Contents]
  /\ blind \subseteq Slots
  /\ \A p \in Procs :
       /\ IsTable(job[p].table)
       /\ job[p].payload \in Seq([at : Sectors, holds : Contents])
       /\ pc[p] # Ready => PayloadWritten(p)

\* Sectors of slot s may come to hold what a command on another slot wrote: one
\* that was told its slot, or that could not know better, s not being loadable
\* when it chose.  The allocator sees one table.
Excused(s, content) == content.slot # s /\ (content.told \/ s \in blind)

\* At every moment, whatever was killed and wherever, a slot that at most one
\* write has left or is leaving incomplete loads a table of which every
\* partition is whole: each sector holds what its add (or make) put there, with
\* the exception above.  So add writes only over sectors that neither copy of
\* its slot, nor any other slot it was not told to ignore, gives out; its
\* payload is there before either copy names it; and a rename, resize or
\* removal, even one cut short, leaves the other partitions' data alone.
PayloadIntact ==
  \A s \in LoadsNow :
    hits[s] + Cardinality(InFlight(s)) <= 1 =>
      \A n \in DOMAIN TableOf(s) : \A c \in SeqX!ToSet(TableOf(s)[n]) :
        c.holds \in {Anything, disk[c.at]} \/ Excused(s, disk[c.at])

\* In every image that commands make: a request that an editing command accepts
\* without --slot means the same partition, of the same slot, to the commands
\* that read, with that --slot and without.  The two resolve it in different
\* functions (resolve_write_slot, find_partition_across) with different orders
\* of the exact-name, suffix and ambiguity checks.
ReadsWhatItEdits ==
  LET loaded == Loaded({})
  IN \A name \in Names, suffix \in Suffixes : ReadAndWriteAgree(loaded, name, suffix)
=============================================================================
