# Verification of super-image-worker

TLA+ models of `super-image-worker`, a command-line tool that reads, edits and
builds Android `super` partition images, with the TLC configurations that check
them and the TLAPS proofs about their core. Every definition is translated from
the Rust source; `PROJECT.json` ("map") names the lines each one stands for.
Paths below are under `src/crates/`: *core* is `super-image-worker-core/src`,
*cli* is `super-image-worker-cli/src`.

## 1. Inventory of the system

An image holds, on its first block device, two copies of a *geometry*, then for
each metadata *slot* a primary copy of its table and, behind all primaries, a
backup copy. A table lists partitions, extents, groups and block devices. A
partition owns a *window* of the extent list; an extent is a run of sectors of
a block device, or a hole. There is no daemon and no lock: a command loads a
table, edits it in memory, writes it back whole and ends. What is concurrent is
several commands on one image or one machine, the threads of `extract`, and the
kernel's loop and device-mapper devices.

| Component | State | Operations | Talks to | What is hard | What makes it correct |
|---|---|---|---|---|---|
| Allocator (core/writer.rs) | none: functions of extents and devices | `find_free_sectors*`, `largest_free_run`, `is_range_free`, `plan_spanning_allocation` | `add`, `create`, `resize`, `make` | alignment phase, first and last gaps, clipping at the device's end | first legal place; what one function promises the next grants; a plan exists whenever there is space |
| Editing commands (cli/commands/add, create, resize, remove, rename, cow) | the loaded table | one edit each | allocator, `write_metadata` | index arithmetic on windows and group positions after every insertion and removal | windows and extents stay apart, nothing orphaned, group limits, only the named volume changes |
| Metadata slots (core/writer.rs `write_metadata`, core/reader) | two copies of each slot | load with fallback, rewrite primary then backup | every command | being killed anywhere, failing half-way, loading from the backup, neighbouring slots | an interrupted write loses nothing; the backup doubles every finished edit; neighbours untouched |
| `make` (cli/commands/make.rs) | output and staging files | plan, blank, geometry, payload, slots, convert, self-check | allocator, sparse encoder, loader | old content, partial failure over several devices | an output that loads is whole; success means the plan, and nothing else, is on disk |
| Sparse images (core/sparse.rs, core/reader/source.rs) | encoder's runs; chunk list | encode, open, `read_at` | `make`, all readers | run boundaries, killed encoder, binary search, empty chunks | a container opens iff it is complete and reads as its content |
| Extent readers, `read` (core/reader/extent_stream.rs, multiblock.rs, cli/commands/read.rs) | position in the extent list, buffer | `read`, `--skip`, `--size` | images | boundaries of extents, empty extents, holes, unbound devices | output is exactly the range asked for; it ends |
| `extract` (cli/commands/extract.rs) | output files, jobs | parallel jobs | images, file system | threads sharing an output path, kills and re-runs, failing copies | success means whole files; failed jobs leave no data; existing files are kept |
| `connect`, `disconnect` (cli/commands/connect.rs) | loop devices | get-free, bind, size, scan, clear | kernel | device numbers reused between system calls, dead commands | devices show the partition; nobody else's device is touched; nothing is left behind |
| `map`, `unmap` (cli/commands/map.rs) | device-mapper devices and their base | create, load, resume, undo | kernel, loop devices | undoing a failed sequence | as above |
| Name and slot selection (cli/commands/split_util.rs, core/reader/mod.rs) | none | `resolve_write_slot`, `resolve_new_slot`, `find_partition_across`, `resolve_partition` | all commands | two families of functions, for reading and for editing, with different orders of the exact-name, suffix and ambiguity checks | both families mean the same partition |
| Geometry and metadata search (core/reader/parser.rs) | none | geometry copies, then other pages; each slot's primary, then its backup | all commands | which copy wins after a partial write | part of what makes slots and `make` correct |
| Payload copying (core/writer.rs, `add`, `make`) | payload sectors | `add`: payload, then metadata | slots, allocator | killed between the two; sectors that other slots own | what a loadable table gives out is whole |
| `--device` binding (core/reader/multiblock.rs) | device to file | match options to table entries | split images | four matching rules, ambiguity, the primary given again | a device is read from the file meant for it, or not at all |
| `snapshot-status` (cli/commands/snapshot_status.rs) | none | decode the state file of another program | | | *not modelled, see section 6* |
| `info`, output, argument parsing | none | formatting | | | *not modelled: changes no state* |

`PROJECT.json` ("hazards") lists what is hard to test here, at the line where it
bites, with the properties that watch it.

## 2. Modules

| Module | Models | State | Actions |
|---|---|---|---|
| `LpAlloc` | the allocator | none | operators; the scan as written (`FindFree`) beside what it finds (`FirstFit`) |
| `MCLpAlloc` | | a growing list of extents | `Lay`: any next extent, so the functions are compared on every small list |
| `LpAllocProofs`, `MCLpAllocProofs` | theorems: the scans find what they should; a plan exists whenever there is space | | |
| `VolumePool` | what the editing commands promise | volumes as sequences of sectors, their groups, the limits | `NewVolume`, `Grow`, `Shrink`, `Delete`, `DropGroup`, `Rename`, `RenameGroup` |
| `LpTable` | one slot's table and the commands that edit it | `parts`, `extents`, `groups` | one action per command and case of it (`Add`, `Create`, `CreateEmpty`, `GrowFresh`, `GrowInPlace`, `GrowSplice`, `Shrink`, `ShrinkToZero`, `RemovePartition`, `RemoveGroup`, `Rename`, `RenameGroup`, `ClearCow`) |
| `LpTableProofs` | theorems: the table stays sound; `LpTable` implements `VolumePool`; groups stay within their limits; the loop of the cascade compacts | | |
| `SlotStore` | the copies of all slots under loading, rewriting, failing | `area`: offset to copy; per command `pc`, `todo` | begin and end of each copy's write, `RefuseWrite`, `Interrupt` |
| `Lookup` | slot and name selection | none | `ResolveWriteSlot`, `ResolveNewSlot`, `FindPartitionAcross`, and `ReadAndWriteAgree` between them |
| `SuperImage` | the whole image: `SlotStore`'s copies with their tables, the payload sectors, commands that choose by `Lookup` | `tables`, `disk`, `job` beside `SlotStore`'s; `blind` is history | `Command` (`Add`, `Create`, `Remove`, `Shrink`, `Grow`, `Rename`), `WritePayload`, `SlotStore`'s steps with the tables they write, `Killed` |
| `SuperImageProofs` | theorems: the copies of `SlotStore` survive; `SuperImage` implements `SlotStore`; reads agree with edits; sectors hold what their partition was given | | |
| `Make` | `make` from plan to self-check | files as sectors of cells, the list of remaining writes | `Start`, `Step` (one write), `Stop` (failure or death before or inside a write), `Verify` |
| `MakeProofs` | theorems: what `make` plans is sound; what loads is whole; success is what was planned | | |
| `SparseImage` | encoder and reader of sparse containers | content, container, encoder | `EncodeBlock`, `EncodeEnd`, `PatchHeader`, `StopEncoder`; `ParseSparse`, `FindChunk`, `ReadAt` |
| `DeviceBinding` | which file `--device` gives for which device | none | `AutoMatchDevice`, `DeviceOf`, `ResolveDeviceBindings` |
| `PartitionRead` | extent readers and `read`, over `SparseImage` and `DeviceBinding` | command, reader, buffer, output | one action per round of each loop |
| `PartitionReadProofs` | theorems about `SparseImage` and `PartitionRead`: what opens is whole; what is read is what was asked for | | |
| `Extract` | `extract` and its thread pool | files, jobs, exit | `Start` (the planning loop), per job create, open, copy, fail, close; `Exit`, `Kill` |
| `ExtractProofs` | theorems about `Extract` | | |
| `LoopDevices` | `connect`, `disconnect`, `map`, `unmap` | kernel devices, commands | one action per system call, `Kill`, other users |
| `LoopDevicesProofs` | theorems about `LoopDevices` | | |

`LpTable` and `Make` extend `LpAlloc`; `LpTable` implements `VolumePool`
(`ImplementsPool`, a refinement mapping that spells out each window's sectors);
`SuperImage` extends `SlotStore` and `Lookup`, takes `LpAlloc`'s first fit, and
implements `SlotStore` (`ImageKeepsSlots`); `PartitionRead` extends
`SparseImage` and `DeviceBinding`. MC modules give the constants.

`LpTable` and `SuperImage` share out the editing commands: `LpTable` has one
table with everything in it (windows, groups, several devices, holes, limits)
and writes it in one step; `SuperImage` has several slots, copies, payload and
kills, and tables that only map names to sectors.

How data is abstracted: sectors are single positions; a metadata copy is the
number of the edit it holds, or torn (its checksums fail); a payload sector
names the run, the partition and the position it came from; a content is a
sequence of units. What the code computes on these, offsets, windows,
alignments, chunk runs, is kept as it is.

Operators that a comment calls a *mutant* are plausible bugs of the definition
below them; no specification uses them. `PROJECT.json` ("mutants") pairs them
with properties: put in place of the definition, each makes its property fail.

## 3. Runs

Twelve runs, eight of them passing. With two workers `lp_table`, `loop_devices`
and `partition_read` take one to two minutes, the others seconds.

| Run | Question | Instance, and why it is enough |
|---|---|---|
| `lp_alloc` | Do the searches find the first legal place, agree with each other, and use all space? | Every list of up to 3 extents, in any order, over five device tables: two devices with and without phase, an alignment or a phase that is no whole number of sectors, a device an extent may run past. Three extents give a gap before, between and behind, and unsorted lists. |
| `lp_table` | Do the commands keep windows and extents in order, members in their groups and groups in their limits, and implement the pool? | Two first tables. One has a fragmented partition, an extent-less one between two windows and a partition with a hole on two devices: every command's index arithmetic meets windows before, at and behind the one it edits. One has three limited groups with a member in the last: groups are dropped, renumbered and renamed from every position, and created anew with and without `--group-size`. |
| `slot_store` | What survives interrupted writes? | Two slots, two commands at once, four edits of each slot; any number of interruptions. The theorems cover all sizes. |
| `slot_store_backup` | Violation, finding 1. | |
| `super_image` | Is what loads whole, with payload and metadata written step by step, killed anywhere, and other slots' sectors beside? Do commands that read and commands that edit mean the same? | Two commands at once on two slots; `make`'s table has one partition of one sector in both, a second sector is free, so that additions and growth go there, behind a removal, or nowhere; the payload of two sectors is cut short at one. Names `x`, `x_a`, `x_b` under every `--suffix` and `--slot`: exact, base, ambiguous, foreign suffix. Two finished or broken edits before those under way give each slot copies of different ages. |
| `extract` | Does success mean whole files, over failures, kills and re-runs? | Two runs, two threads, four entries of two slots: long ones, one with a buffered tail, an extent-less one, a name in two slots; any old files. |
| `extract_slots`, `extract_same_name` | Violations, findings 2 and 3. | |
| `loop_devices` | Do devices show their partition, and does everything else stay as it was? | Two commands of any kind, again and again, three loop devices of which one has no node, another user with the same window of another file; a raw image with a partition of one extent, one with a hole, and one with an extent of a type that `map` refuses. Two commands suffice to take each other's device number between two calls. |
| `loop_devices_retrofit` | Violation, findings 4 and 5. | A sparse image of two block devices: each step of the trace is one of `connect` alone. |
| `make` | Is what loads whole, and what succeeds complete? | Two devices out of phase, two slots, six requests (spanning, pinned, over the group's limit, forced, sparse, too large), two runs over each other, either output a block device with junk on it, a stop before or in any write. Two runs suffice: only the last one's leftovers matter to the next. |
| `partition_read` | Do images open only if whole and read as written? | All contents of three blocks that are zero, half zero or data, and one with more chunks than the reader takes; a foreign container with FILL and empty chunks; six extent lists over three devices; ten lists of `--device` that match by name, stem, suffix or case, or are refused; buffers and skips that end inside sectors and extents. |

`CHECK_DEADLOCK FALSE` stands where the models stop by a bound or by design:
edits, extents or runs are used up (`MaxVersion`, `MaxExtents`, `MaxRuns`), a
table is full and cannot change, or the one command has ended.

Bounds are constants of the modules: `MaxRequest`, `MaxVersion`, `MaxRuns`,
`MaxExtents`, `MaxSector`, `MaxLen`, and `MaxEdits` of `MCSuperImage`, a state
constraint on finished and broken edits. `NewNames` and `NewGroups` limit which
names additions and renamings may give. The entry limits and `MetadataMax`
(`TablesFit`) are the code's own and bound `LpTable`.

### Fairness

Liveness is checked only where the code's scheduling gives it. `RunEnds`: the
thread pool runs every queued job and a job's loop goes on (`WF` of each job and
of the collection of results). `CommandsEnd`: every system call returns (`WF` of
each command's steps). `ReadEnds`: the loops of `read` go on. Failures, kills
and other users have no fairness. All other properties are safety.

### Assumptions of the models

- A killed process loses nothing it had written; the code never syncs, so the
  models do not speak of power loss.
- No two commands work on the same slot at the same time (`SlotStore`, guard of
  `Start`): the code has no lock and would lose an update. Commands on
  different slots interleave freely.
- Names in a table are unique, as the commands keep them.
- `add` writes a payload sector at once; which bytes of a sector a killed process
  has written is not told apart from none, since no table names it yet.
- The windows of a loaded table lie inside its extent list. `WindowsApart` says
  this of every table the commands write; on other tables they report an error.
- Sizes are whole sectors and no sum exceeds 64 bits.
- The table does not change while its partitions are connected.
- Loop and device-mapper devices behave as the comments of `LoopDevices` state.
- `LoopDevices` assumes nothing of where extents are, on which device, of what
  type, whether they are empty, or what the image's file holds (`Holds`: file
  sector to image sector). What its properties need of these, the instance of
  `loop_devices` has and the theorems name as hypotheses.
- `extract` ignores the result of `remove_file` (extract.rs:251, :264); the
  removal of the model (`CopyFails`) succeeds. If it fails in reality, a failed
  job leaves what it had written.
- `make`: a geometry or a table is one sector; outputs have different paths.
- The image itself is not given for a secondary device as well.
- A path of `--device` names one file throughout; whether two paths are the same
  file is decided for the primary only, as in the code.

## 4. What is proved

The theorems hold for every value of the constants that the named assumptions
allow. TLC evaluates the assumptions on each instance.

`SuperImageProofs` proves of `SlotStore`, for every number of slots, commands and
edits and every copy size (assumptions `GeometryAssumption`: at least one slot and one
byte; `VersionAssumption`), all six properties that `slot_store` checks:

- `TypesHold`: `Spec => []TypeOK`
- `OneInterruptionLosesNothing`: `Spec => []Recoverable`
- `EditsDoubled`: `Spec => []CompleteEditsDoubled`
- `PrimaryStaysNewer`: `Spec => []PrimaryNotOlder`
- `NeighboursStay`: `Spec => NeighboursUntouched`
- `CopiesInvariantHolds`: `Spec => []CopiesInvariant`, which the others rest on

`Recoverable` is not inductive: whether the backup may be overwritten depends on
what the primary holds, and that on which copy the command had loaded.
`CopiesInvariant` adds this. `LoadedStillThere`: what a command has yet to write
is on disk as it loaded it. `WorkDistinct`: no slot is worked on twice.
`WritesOrdered`: a write under way started from the primary copy (a load from
the backup is refused, finding 1), and the backup keeps the old edit until the
primary has the new one. `QuietSlotsWhole`: what no write, or one interrupted
write, leaves. `PrimaryNotOlder` closes it.

The argument: the lemmas `CopiesApart` and `SlotResolves` show that no two
copies share an offset and that an offset resolves to its own slot, which is
where the arithmetic is. `StepOnSlot` shows that a step confined to one slot
keeps the invariant for all the others; one lemma per action then shows it for
the slot at hand. `NeighboursUntouched` follows from the invariant at each step.

It proves of `Lookup`, `RequestsAgree`: for any tables, name and suffix, whatever
an editing command resolves without `--slot`, a reading command resolves to the
same partition, with that slot given and without. The lemmas turn both
functions into "the only hit": an edit has exactly one slot in which the request
says something; if that is by exact name, no other slot has the name, so the
first exact hit of the reading command is it (`FirstOfOne`); if it is by base
name, every other slot's own resolution is empty, so the reading command's
candidates are one (`ResolvedAlone`, `OnlyHitIsRead`).

And of the whole image, with any names, sizes, payloads and numbers of slots
and commands:

- `ImageKeepsSlots`: `ImageSpec => Spec`, the image implements `SlotStore`. Each
  action is a step of `SlotStore` or leaves its variables alone; for a new
  command this needs that the slot it resolved does load (`NewSlotLoads`,
  `WriteSlotLoads`, `EditableLoads`), so that what it starts from is a copy that
  is there.
- `ImageRecovers`: `ImageSpec => []Recoverable`. Every theorem about
  `SlotStore` carries over in this way.
- `ReadsAgree`: `ImageSpec => []ReadsWhatItEdits`, from `RequestsAgree`.
- `PayloadStays`: `ImageSpec => []PayloadIntact`, and `ImageTypesHold`.
- `ImageInvariantHolds`: `ImageSpec => []ImageInvariant`, which they rest on.

`PayloadIntact` speaks of the tables that load, and which copy loads changes with
every write and every interruption, so it is not inductive. `ImageInvariant`
says of each copy, and of what each command has yet to write, which sectors it
gives out. A table is whole if each of its cells is held: the sector has what was
written for it, or `PayloadIntact` excuses the slot. `PrimariesWhole`: the table of
every primary copy that is not torn is whole, however many writes were
interrupted. `BackupsWhole`: so is a backup's that a load must fall back on, as
long as one write was interrupted and no other begun. `CopiesAlike`: without an
interruption the two copies of a slot have one table. `JobsSound`: a command's
payload meets nothing of the copy it loaded, and what its new table promises is
there or is yet to be written. `BlindSeen` ties the history variable to the slots
that were not seen. All editing commands are one lemma, `BeginKept`, about what an edit
is (`Edit`), and one lemma each to show that it is one; all writes of a copy are
one lemma, `CopyWriteKept`, about the other slots, and one each about their own.

`LpAllocProofs` proves, for every list of extents and every device table whose
devices have a size (`TablesAssumption`; `make` refuses others), all four
properties that `lp_alloc` checks:

- `SpecFindFreeIsFirstPlace`: the scan of `find_free_sectors` answers the first
  legal place, and none only if there is none.
- `SpecScanFindsFirstFit`, from `ScanIsFirstFit`: it agrees with the closed form
  that the state machines use.
- `SpecLargestRunIsGranted`, from `LargestIsGranted`: what `largest_free_run`
  promises is granted, and no more.
- `SpecPlanPacksAllSpace`, from `PlanIsComplete`: a spanning plan exists exactly when
  the devices together have the sectors.

`AlignedFacts` is the arithmetic: `AlignUp` is the least sector in phase at or
above, so what is skipped between two candidates is no legal start. `CollectIsSorted`
shows that the sort by rank is a sorted view of the device's extents. The scan's
invariant (`CandidateInv`) is that no legal place lies before the candidate and no
extent that was passed lies behind it, where extents may overlap and end before
earlier ones; that of the longest run (`GapInv`), that every legal run that is longer
than the best one starts at the candidate or behind it. A plan is the hard one,
since taking a run changes what the next search sees. `SpanInv`: what is planned
is legal and apart, and while anything is left no reachable sector has been wasted,
that is, each is planned or still reachable. A device is asked for less than its
longest run only at the end; a sector that could be reached only through a longest run
and is not in it would have made that run longer (`LongestTakesAll`). So a round with something left makes progress
(`SomethingLeft`, which counts), and `needed` rounds suffice (`SpannedFacts`).
`MCLpAllocProofs` carries this over to the states of `lp_alloc`, where places are
counted sector by sector.

`MakeProofs` proves, for any devices, layout, groups and requests that the parsed
options can be (`SpecsAssumption`, `LayoutAssumption`, `RequestsAssumption`):

- `SpecPlanIsSound`: `Spec => []PlanIsSound`.
- `SpecTypeOK`, `SpecLoadableIsWhole`, `SpecSuccessIsBuilt`: the other invariants
  that `make` checks, for any number of runs over any outputs.

What a run commits to depends on its request alone, so the theorem is about
`PlanOf`, a recursion over the partitions. `PlanInv` is what holds of the plan after
k of them: the extents are the runs of the segments (`Mirrors`), these are legal
and apart (`RunsAllowed`), each partition's slices are its payload and its sectors
as many (`HoldsPayload`), and the groups are within their maxima (`GroupsAllowed`).
`PlanPartKeeps` is one more partition. That its runs are apart from the earlier ones
is what the allocator was asked for (`ApartFromPlan`); that they have room for the
payload is `PlanIsComplete`; that slices of the runs' lengths, one behind the other,
are the payload is `SlicesTile`. `ReserveHolds` and `DevsFacts` show that rounding
the metadata up to the alignment, and the first sector to each device's phase,
leaves the metadata area alone.

What a run leaves in the files depends on all that was there before. `MakeInv` is the
inductive invariant (`SpecMakeInv`), and none of its parts is inductive without the others:

- `Typed`: a file is a whole image of its device, of cells that only runs that were
  made can have written, or broken. A new run therefore has no table on any output yet
  (`MarkedIsRun`), although run numbers are given before anything is written.
- `UnfitUntouched`: if the devices do not fit, no run gets as far as a write. The
  layout of the tables and geometry says nothing then (`TableSectorsIn` needs devices
  that fit).
- `Running`: what is left to do is the end of the program of the last plan, and the
  files are as far as that says (`Progress`): blanked up to a step (`Blanking`); the
  image after so many writes (`Writing`, `ImageAfter`); or converted (`Converting`).
  `Phases` finds the phase from `todo`.
- `MarkedIsWhole`: if a table of some run is in any table sector of the primary
  output, the payload of that run is in place. This is more than
  `LoadableIsWhole`: a table that no search finds now, since the geometry or the
  copies before it are missing, may be found after the next write.
- `SuccessIsBuilt` itself.

A program is five flattened sequences. `FlattenFacts` says what is where in one
(induction by `CountUp`), `WriteFacts` that geometry, payload and tables are written
entry by entry, no place twice, payload before any table: `Covers` is what each part of
the program has in common with its set of entries, and covers of different places can be
joined. That the places differ is `SoundPlan`. So an image with a table in it has all
payload of its run (`ImagesWhole`). Old tables are the other half: blanking goes
through a block device from its beginning, and every table is before the payload, so
while a table of an older run is still there nothing behind the metadata area has been
touched on the primary device, and nothing at all on the others (`BlankMarks`,
`StaleMarks`). A step that stops half-way spoils one sector or one file
(`HalfWriteKeepsMarks`); a half-written table is no table. `EndIsBuilt` is the end of a
run: all steps of the program were done on what blanking left.

`LpTableProofs` proves, for all names, groups, block-device tables and sizes,
and any first table that `make` or the commands can have written
(`InitTablesAssumption`; the parser accepts others, and nothing is claimed of
them):

- `SpecTypeOK`, `SpecWindowsApart`, `SpecNoOrphanExtent`, `SpecExtentsApart`: the
  invariants that `lp_table` checks.
- `SpecSound`: `Spec => []IInv`, which they rest on: all of them together, and that
  no extent is empty.

They hold together or not at all: a drain keeps the windows inside the table only
if they are apart, leaves no extent over only if each had an owner, and an empty
extent, which meets no other, could be overgrown. A command is an edit of windows and an edit
of extents, and there is one lemma per edit: a table that grows (`AppendSound`,
`InsertSound`, `GrowSound`), shrinks (`DrainSound`, `TruncateSound`), windows that
move (`WindowGrows`, `WindowShrinks`, `WindowAtEnd`, `MovesKeepApart`). The cascade
is the hard one: `CompactExtents` keeps the extents outside the doomed windows,
and `OriginExists` shows that each new position has exactly one origin, which is
counting (`BelowSplits`, `BelowGap`, `BelowComplement`).

It proves the refinement, for the same tables, if their groups have
names of their own (`GroupsNamedApart`; `make` takes the `--group` options as they
are given, make.rs:392, and a pool cannot tell two groups of one name apart):

- `SpecImplementsPool`: `Spec => ImplementsPool`.

A volume is what the extents of a window spell, one after the other. It is kept
if the window has the extents it had, wherever it has moved to (`KeptAfter`), and
each edit of the extent list has a lemma that says whose windows do (`AppendSame`,
`ExceptSame`, `InsertSame`, `DrainSame`, `CompactSame`). Whose volume grows gets
sectors of one extent at its end, which nobody owns because the range was free
(`ExtendsWithFresh`); whose volume shrinks keeps a beginning (`SpelledBegins`).
`FlattenSeq` is a recursive function, so these go by induction over the extents of
a window, with `CountUp` as below. That the pool starts with no sector shared comes
from `ExtentsApart` (`CoversOnce`). The invariant is the table's, and that the
commands keep the names of groups apart (`PInv`).

It also proves, for the same tables, if they are within their limits
(`StartsWithinLimits`):

- `SpecLimitsRespected`: `Spec => []LimitsRespected`.

The sectors charged to a group are a sum over its members of sums over their
windows. First comes what sums over finite sets do (`SumSame`:
they depend on the values alone; `SumOut`: any member can be added last;
`SumPart`: a part is no more than the whole), by induction over subsets. A window
that has the extents it had has its size, so a group that a command charges
nothing to holds no more than it did (`HeldKept`), under its old number or a new
one; the group that is charged holds what the others hold and the size that was
checked (`HeldCharged`), and each command's new window has that size.

And, for every sound table, that the loop of the cascade (drain a doomed window,
shift what starts behind it, the last window first) ends with the compacted table
that the actions write in one go:

- `SpecCascadeLoopCompacts`: `Spec => []CascadeLoopCompacts`.

The induction is over the turns: after some, the extents are those of
`CompactExtents(T)`, T the windows drained so far, and a window outside T is where
`CompactParts(T)` has it. The next window m starts no later than any of T, so nothing
in front of its end is gone (`KeptSoFar`) and it is drained where it stood at the
start; every kept position behind it then has `num` fewer before it
(`DrainedBelow`). The order exists (`OrderExists`) and reaches every doomed window;
of windows that start together at most one has extents, so ties do not matter.

`LoopDevicesProofs` proves, for any numbers of commands, loop devices, device
nodes and partitions, with every system call free to fail and other users
doing as they like:

- `SpecTypeOK`, `SpecNoStray`, and `SpecOthersUntouched` (an action property),
  from `SpecSound`: `Spec => []IInv`, if no partition of one extent looks like the
  whole file (`NoneLikeWhole`: empty, and at sector 0). To `disconnect` the base
  that a `map` sets up would be such a partition's device; it would detach it
  in the middle of the set-up, and the error exit of `map` might detach the device
  of somebody else who got the number.
- `SpecShowsPartition`: `ShowsPartition`, sector by sector, under three hypotheses.
  `SingleFile`: all extents lie on the first block device (without it, finding 4).
  `RawImage`: the file holds at each sector that sector of the image, and all
  extents are in it (without it, finding 5). `NoneEmpty`: a partition of one
  extent has sectors; a loop device with a size limit of 0 shows the whole rest
  of the file.

`make` and the editing commands write no empty extent (`LpTableProofs`, in its
`SpecSound`), but the parser accepts one and `connect`, `disconnect` and `map` do
not look, so these are hypotheses and not assumptions of the module. `NoStray`
names the three exits that leave a loop device over: a kill, `map` refusing the
type of an extent (map.rs:541, after the base is bound), and `map` not opening
`/dev/device-mapper` (:550). The `use` of a device says which, and for the second
the theorem shows that the partition has such an extent.

The invariant is local: each loop device by itself (`LoopOK`), each command by
itself (`ProcLocal`), and what a command relies on at the device it is at
(`Relies`), although it does not always hold it open. `CoreAt` shows that a step at one device and
one command leaves the rest of the invariant alone, so each action needs an
argument about its own device and command only.

`ExtractProofs` proves, for every listing, pool size and number of runs:

- `SpecTypeOK`, `SpecSuccessIsWhole`, `SpecFailedLeavesNoData`, and
  `SpecExistingSkipped` (an action property).
- `SpecSound`: `Spec => []IInv`. The invariant says of each job how far its own file is
  (`SoleOK`), and that a name listed once has one job (`SoleApart`), every
  wanted partition has become one (`Planned`), and no job has the path of a
  file that is left alone. Names listed twice are excused, as in finding 3.

The planning loop is a recursive function over the listing, so `PlanSound` needs
an induction. The library's induction theorems take an operator and cannot
be used; `CountUp` states induction for a set of numbers instead and draws it from
the pigeonhole principle of `FiniteSetTheorems`.

`PartitionReadProofs` proves, for all images in whole blocks (`ContentsAssumption`;
`raw_to_sparse` refuses others), containers of other tools that stand for their
content (`ForeignAssumption`), extents, files, options, skips, sizes and buffers
(`ReadAssumption`), the three invariants that `partition_read` checks:

- `SpecTypeOK`, `SpecOpensIffWhole`, `SpecReadIsFaithful`.
- `SpecReadInv`: `Spec => []ReadInv`, which they rest on.

The encoder's part is `EncInv`. While it encodes (`Collects`), the chunks written so
far stand for a beginning of the image, and the run that is being collected, data
or zeros but never both, for the blocks from there to the encoder's place. A run that
is flushed becomes one chunk (`FlushRawWrites`, `FlushCareWrites`), and each block
either flushes the run of the other kind or joins its own (`ZeroCollected`,
`DataCollected`). Until the header is patched it counts no chunks and promises
blocks, so nothing opens; patched, the container is whole (`WholeOf`).

The reader's part starts from `Shows(img, s)`: the opened chunks cover the content s
in order and each stands for its part (`ParseShows`). The binary search answers
the chunk of its window that reaches the position (`FindChunkIs`), also among chunks
of no blocks, which none reaches; and a read goes from chunk to chunk and gives the
slice of s (`ReadAtShows`). Both are recursive functions, shown to be the only ones that fit
their equations, by induction over what is left.

`ReadInv` joins them. `RdOK`: the position is the sum of the extents passed
(`UnitsTo`) and the offset in the current one. `BufOK`, `OutOK`: the buffer is the
units in front of the position, the output those from `skip` on, each unit as
`UnitAt` reads it straight from the device (`Holds`; `HoldsJoin` for one behind the
other). `PhaseOK` has the sums that tie position, output and buffer to `skip` and
`max` in each phase, and the reason of each failure. A round takes units of one
extent (`FetchedShows`), from the file that the options bind to its device:
`BindingIs` shows that a binding that is accepted is the one `Given` reads off the
options, and `NotOpened` that a refusal has one of the named reasons. A buffer that
returns empty while skipping is impossible, since `skip` is before the end.

The proof corrected the property. `ReadIsFaithful` named a path that is neither a
file nor the image as a wrong option; a secondary device that is given the image's
own path fails too, and now every secondary option without a file is named. It also
replaced an implicit by a stated assumption: a foreign container stands for its
content only if its chunks do (`Spells`).

Only model-checked: liveness (`ReadEnds`, `RunEnds`, `CommandsEnd`), which with
fairness and `ENABLED` is out of the prover's reach; every other property of the
passing runs is a theorem. What a recursion computes for every input needs induction
over data, each step of it written out by hand over a set with `CountUp`, as for
`Candidate`, `Plan`, `FlattenSeq`, the sums, `CascadeLoop`, `FindChunk` and `ReadAt`.

## 5. Findings

1. **A slot that loads from its backup cannot be written** (`slot_store_backup`).
   `write_metadata` takes the offset of a backup copy for that of a primary copy
   of slot `slot_count + slot` and refuses it as out of range; the fallback that
   its comment announces never runs (core/writer.rs:691-707). After one torn
   primary the slot can be read but not repaired.
2. **`extract --slot all` skips data for a placeholder it has just made**
   (`extract_slots`). The loop that tests for existing files itself creates the
   empty files (cli/commands/extract.rs:203, :215).
3. **A failed job removes another job's file** (`extract_same_name`). Jobs of one
   name in two slots have one output path (cli/commands/extract.rs:248, :264).
4. **`connect` and `map` show the wrong device of a split image**
   (`loop_devices_retrofit`). They take an extent's offset as one into the first
   device, whichever `target_source` names (cli/commands/connect.rs:357,
   map.rs:530). In the trace the loop device shows device 0 instead of 1.
5. **`connect` and `map` show the wrong sectors of a sparse image** (the same
   run). They take an offset in the image as one in its file without looking at
   the file's format (cli/commands/connect.rs:357 and :401, map.rs:508-531), while
   `connect`'s help and the repository's README accept sparse images (connect.rs:104,
   README.md:127). In the trace the sectors shown hold parts of others, or headers.

Met while modelling, and not listed as findings because no line of the
repository says otherwise, or because the models leave the case out:

- A job of `extract` whose image does not open or bind leaves an empty output
  (extract.rs:241, :245); an empty file that cannot be written does not change
  the exit code (:217); errors of the last buffer are lost when the writer is
  dropped. The model has all three (`OpenImage`, `PlanEntry`, `Close`).
- `unmap` never releases the base loop device; `map` does not either when
  `/dev/device-mapper` fails to open (map.rs:550) or an extent type is not
  supported (:541). The model has all three (`Unmap`, `OpenDm`, `RefuseType`);
  beside a kill, the last two are the only exits that `NoStray` allows.
- A partition whose only extent is empty connects to the whole rest of the file;
  at sector 0, `disconnect` may take the base of a running `map` for it (section 4).
- `make` converts the primary first: if a later conversion fails, the primary
  loads although other outputs are missing. `LoadableIsWhole` says so.
- The encoder may write more chunks than the reader accepts; `OpensIffWhole`
  says so.
- `rename` with a base name and `--suffix` passes `resolve_write_slot`, which
  accepts the base name, and then looks for exactly the name given: not found.
  Its help says that `--suffix` affects base-name resolution (rename.rs:41).
- An exact name with the other suffix is refused without `--slot`, by editing and
  reading commands alike, and accepted with it by editing commands only; the
  comment at split_util.rs:118 says that exact names resolve regardless.
- A name that is ambiguous inside one slot is passed over in silence when
  another slot resolves it (split_util.rs:187-236).
- An `add` that is going to be refused, its slot having been loaded from the
  backup (finding 1), has written its payload before it is.
- The allocator sees the table of one slot. With `--slot`, and without it when the
  other slot does not load at that moment, `add` may overwrite sectors that only
  the other slot's table gives out; `PayloadIntact` excuses these two (`Excused`),
  and shows that nothing else does it.
- A bare `--device rt_vendor.img` is refused as ambiguous when the table has both
  `rt_vendor` and `vendor`, although it is exactly the name of one
  (multiblock.rs:177).
- `check_extents_bound` (core/reader/multiblock.rs:70) is never called: an
  unbound device is reported in the middle of a read, by index.

## 6. Not modelled, and why

- Serialization and validation of bytes (headers, checksums, strings): a copy is
  valid or torn, and no property tells more apart.
- A rewrite of a slot while another command loads or rewrites the same slot: the
  code has no lock, nothing says that it may be done, and the outcome is lost
  edits. Commands on different slots do run together.
- `snapshot-status`: decodes one small file written by another program, with
  nothing beside it and no state changed.
- The group of a new partition when none is given (`select_group_for_name`):
  `LpTable` lets it be any group, which includes the one chosen. The slot of a
  group to be removed or renamed (`select_group_slot`): the only slot that has
  it, as in `ResolveNewSlot`.
- The table changing while its partitions are connected: `disconnect` then looks
  for the new window and does not find the old device, which stays until it is
  detached by other means. The same for the gate of `clear-cow` (cow.rs:111).
- Formatting, `info`, argument parsing and `--dry-run` change no state.

## 7. Plan

Done, in this order: allocator; table and pool; slots and their proofs; extract;
loop devices; make; sparse images and reading; name and slot selection and their
proofs; the whole image and its refinement of the slots; device binding;
geometry search.

Proofs done, in this order: `SlotStore`; `Lookup`; `SuperImage` implements
`SlotStore`; the table; loop devices; extract; the payload of the whole image; the
table implements the pool; the group limits; the allocator; the plans of `make`;
its runs; the loop of the cascade; sparse images and `read`.

Next: `LoopDevices` over a table that changes.
