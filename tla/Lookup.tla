------------------------------- MODULE Lookup -------------------------------
(***************************************************************************)
(* Which slot and which partition a command means by a name, --suffix and  *)
(* --slot (commands/split_util.rs, and SuperData in core's reader).        *)
(* Commands that read and commands that edit resolve a request in          *)
(* different functions over the same loaded tables.                        *)
(*                                                                         *)
(* A loaded table counts here as the set of its partition names, and       *)
(* `tables` maps each loaded slot to one.  An option given is a set of one *)
(* value, "all" the empty set; an answer is a set of one value, an error   *)
(* the empty set.                                                          *)
(***************************************************************************)
EXTENDS Naturals

CONSTANTS
  Names,    \* partition names
  BaseOf,   \* SuperData::strip_suffix: the name without a final _a or _b
  SuffixOf  \* SuperData::find_suffix: {"a"}, {"b"} or {}

Suffixes == {{}, {"a"}, {"b"}}

ASSUME SuffixAssumption ==
  /\ BaseOf \in [Names -> Names]
  /\ SuffixOf \in [Names -> Suffixes]
  /\ \A n \in Names : (BaseOf[n] = n) = (SuffixOf[n] = {})

\* The only member of a set, if it has one only.
Only(S) == {x \in S : \A y \in S : y = x}

\* The least member of a set of slots.
First(S) == {s \in S : \A t \in S : s <= t}

At(slot, name) == [slot |-> slot, part |-> name]

\* SuperData::filter_by_suffix: a name without a suffix always passes.
PassesSuffix(name, suffix) == suffix = {} \/ SuffixOf[name] \in {{}, suffix}

\* SuperData::resolve_partition, in one table: the exact name whatever its
\* suffix, else the one name with this base that passes the filter.
OfBase(names, name, suffix) == {n \in names : BaseOf[n] = name /\ PassesSuffix(n, suffix)}
ResolvePartition(names, name, suffix) ==
  IF name \in names THEN {name} ELSE Only(OfBase(names, name, suffix))

\* resolve_write_slot without --slot: the slots in which the request says
\* something.  Here an exact name has to pass the filter.
WriteHits(tables, name, suffix) ==
  {s \in DOMAIN tables :
     /\ ResolvePartition(tables[s], name, suffix) # {}
     /\ name \in tables[s] => PassesSuffix(name, suffix)}

\* Mutant of ResolveWriteSlot: the first hit will do.
ResolveWriteSlotFirst(tables, name, suffix, slot) ==
  IF slot = {} THEN First(WriteHits(tables, name, suffix))
  ELSE {s \in slot \cap DOMAIN tables : ResolvePartition(tables[s], name, suffix) # {}}

\* resolve_write_slot: the slot of a command that edits a partition.
ResolveWriteSlot(tables, name, suffix, slot) ==
  IF slot = {} THEN Only(WriteHits(tables, name, suffix))
  ELSE {s \in slot \cap DOMAIN tables : ResolvePartition(tables[s], name, suffix) # {}}

\* resize and remove resolve the name once more, in the table of that slot;
\* rename takes exactly the name it was given.
WriteTarget(tables, name, suffix, slot) ==
  UNION {{At(s, n) : n \in ResolvePartition(tables[s], name, suffix)} :
         s \in ResolveWriteSlot(tables, name, suffix, slot)}
RenameTarget(tables, name, suffix, slot) ==
  {At(s, name) : s \in {r \in ResolveWriteSlot(tables, name, suffix, slot) : name \in tables[r]}}

\* resolve_new_slot: the slot in which add and create make a partition.
ResolveNewSlot(tables, slot) ==
  IF slot = {} THEN Only(DOMAIN tables) ELSE slot \cap DOMAIN tables

\* find_partition_across, for the commands that read: the first slot that has
\* the exact name, else the one partition that the base name finds anywhere.
\* A slot that has the exact name, but filtered out, is not looked at again.
FindPartitionAcross(tables, name, suffix) ==
  LET exact == {s \in DOMAIN tables : name \in tables[s]}
      based == UNION {{At(s, n) : n \in Only(OfBase(tables[s], name, suffix))} :
                      s \in DOMAIN tables \ exact}
  IN IF exact # {} /\ PassesSuffix(name, suffix)
     THEN {At(s, name) : s \in First(exact)}
     ELSE Only(based)

\* Whatever an editing command changes for a request without --slot is what a
\* reading command shows for it; and both mean the same partition when they
\* are given its slot.
ReadAndWriteAgree(tables, name, suffix) ==
  \A found \in WriteTarget(tables, name, suffix, {}) :
    LET one == [s \in {found.slot} |-> tables[s]]
    IN /\ FindPartitionAcross(tables, name, suffix) = {found}
       /\ WriteTarget(one, name, suffix, {found.slot}) = {found}
       /\ FindPartitionAcross(one, name, suffix) = {found}
=============================================================================
