-------------------------------- MODULE Make --------------------------------
(***************************************************************************)
(* `make`: a new image from payload files (cli/src/commands/make.rs).      *)
(* Space is planned first, with the allocator of LpAlloc; then the outputs *)
(* are blanked, and geometry, payload and metadata are written, in this    *)
(* order; a sparse image is converted from staging files.  The command may *)
(* fail or be killed between any two writes, or in one, and be run again   *)
(* over what is there, a block device with an older image among it.        *)
(*                                                                         *)
(* A file is the function from its sectors to cells.  A cell is blank, a   *)
(* sector of a payload, or the whole of a geometry or a table, which are   *)
(* at the sector they start with; cells name the run that wrote them.      *)
(***************************************************************************)
EXTENDS LpAlloc
SeqX == INSTANCE SequencesExt

CONSTANTS
  Specs,       \* --device: [size, alignment, offset] in bytes, in order
  Page,        \* sectors of the reserved area and of a geometry copy
  SlotCount,   \* --metadata-slots
  CopySectors, \* --metadata-size
  Alignment,   \* --alignment, in bytes
  GroupMax,    \* --group: name -> maximum in sectors, 0 for none
  Requests,    \* [parts : Seq([group, pin, len, short]), slots, force, sparse]
  MaxRuns      \* bound: times the command is run

\* What the options are, once they are parsed.
ASSUME SpecsAssumption ==
  Specs \in Seq([size : Nat, alignment : Nat, offset : Nat]) /\ Specs # <<>>
ASSUME LayoutAssumption ==
  /\ Page \in Nat \ {0} /\ SlotCount \in Nat \ {0} /\ CopySectors \in Nat \ {0}
  /\ Alignment \in Nat
  /\ GroupMax \in [DOMAIN GroupMax -> Nat]
ASSUME RequestsAssumption ==
  \A req \in Requests :
    /\ req.parts \in Seq([group : DOMAIN GroupMax, pin : SUBSET (0 .. Len(Specs) - 1), len : Nat,
                         short : BOOLEAN])
    /\ \A i \in DOMAIN req.parts : Cardinality(req.parts[i].pin) <= 1
    /\ req.slots \subseteq 0 .. SlotCount - 1
    /\ req.force \in BOOLEAN /\ req.sparse \in BOOLEAN

VARIABLES
  disk,   \* path -> at most one file
  blocks, \* devices whose output is a block device; never changes
  todo,   \* what the running command has still to do
  made,   \* the plan of each run
  exit    \* "none", or how the last run ended

vars == <<disk, blocks, todo, made, exit>>

Indices == 0 .. Len(Specs) - 1
Slots == 0 .. SlotCount - 1
Out(d) == <<"out", d>>
Staging(d) == <<"staging", d>>
Paths == {Out(d) : d \in Indices} \cup {Staging(d) : d \in Indices}

Success == "success"
Failure == "failure"
Stopped == "stopped"

----------------------------------------------------------------------------
\* The layout of a device.

GeometryPrimary == Page
GeometryBackup == 2 * Page
MetadataBase == 3 * Page
PrimaryAt(s) == MetadataBase + s * CopySectors
BackupAt(s) == MetadataBase + (SlotCount + s) * CopySectors

\* The end of the metadata, rounded up to the default alignment.
ReserveBytes ==
  LET align == IF Alignment > SECTOR THEN Alignment ELSE SECTOR
      end == (MetadataBase + 2 * SlotCount * CopySectors) * SECTOR
  IN ((end + align - 1) \div align) * align
ReserveSectors == ReserveBytes \div SECTOR

SpecsFit ==
  \A i \in DOMAIN Specs : Specs[i].size >= ReserveBytes + SECTOR /\ Specs[i].size % SECTOR = 0

\* The block-device table.
Devs ==
  [i \in DOMAIN Specs |->
     [first |-> AlignUp(ReserveSectors, Specs[i].alignment, Specs[i].offset), size |-> Specs[i].size,
      alignment |-> Specs[i].alignment, offset |-> Specs[i].offset]]
Sectors(d) == 0 .. Limit(Device(Devs, d)) - 1

\* Sectors a file holds before it is written to.
Blank == <<>>
Junk == <<"junk">>
Sized(d, cell) == [s \in Sectors(d) |-> cell]

\* A file that is there but no image: cut short, or a sparse container whose
\* chunk count is not written yet.
NoImage == <<>>

----------------------------------------------------------------------------
\* The plan: extents, the windows of the partitions in them, the sectors
\* used in each group, and the segments that will be copied.

\* Mutant of Runs: a pinned partition looks for space on an empty device.
RunsPinnedBlind(exts, part) ==
  IF part.pin = {} THEN PlanSpanning(exts, Devs, part.len)
  ELSE LET d == CHOOSE c \in part.pin : TRUE
           at == FindFree(<<>>, Devs, d, part.len)
       IN IF at = NoFit THEN NoPlan ELSE <<[source |-> d, at |-> at, num |-> part.len]>>

\* A pinned partition is one run on its device, any other spans devices.
Runs(exts, part) ==
  IF part.pin = {} THEN PlanSpanning(exts, Devs, part.len)
  ELSE LET d == CHOOSE c \in part.pin : TRUE
           at == FindFree(exts, Devs, d, part.len)
       IN IF at = NoFit THEN NoPlan ELSE <<[source |-> d, at |-> at, num |-> part.len]>>

OverLimit(acc, part, force) ==
  /\ GroupMax[part.group] > 0
  /\ acc.used[part.group] + part.len > GroupMax[part.group]
  /\ ~force

\* Consecutive slices of the payload, one for each run.
Segments(i, runs) ==
  LET before[k \in 0 .. Len(runs)] == IF k = 0 THEN 0 ELSE before[k - 1] + runs[k].num
  IN [k \in DOMAIN runs |-> [part |-> i, from |-> before[k - 1], run |-> runs[k]]]

Allot(acc, i, part, runs) ==
  IF runs = NoPlan THEN [acc EXCEPT !.ok = FALSE]
  ELSE [acc EXCEPT !.extents = @ \o [k \in DOMAIN runs |-> RunExtent(runs[k])],
                   !.used[part.group] = @ + part.len,
                   !.segments = @ \o Segments(i, runs)]

PlanPart(acc, i, req) ==
  LET part == req.parts[i]
  IN IF ~acc.ok \/ part.len = 0 THEN acc
     ELSE IF OverLimit(acc, part, req.force) THEN [acc EXCEPT !.ok = FALSE]
     ELSE Allot(acc, i, part, Runs(acc.extents, part))

\* Devices that do not fit are refused before anything is planned.
NewPlan(req) ==
  [ok |-> SpecsFit, extents |-> <<>>, used |-> [g \in DOMAIN GroupMax |-> 0],
   segments |-> <<>>, req |-> req]

PlanOf(req) ==
  LET planned[i \in 0 .. Len(req.parts)] ==
        IF i = 0 THEN NewPlan(req) ELSE PlanPart(planned[i - 1], i, req)
  IN planned[Len(req.parts)]

----------------------------------------------------------------------------
\* What the command then does, step by step.

Create(path) == [do |-> "create", path |-> path]
Write(path, at, cell) == [do |-> "write", path |-> path, at |-> at, cell |-> cell, short |-> FALSE]
Convert(d) == [do |-> "convert", path |-> Out(d)]
Unlink(path) == [do |-> "remove", path |-> path]

Geometry(run) == <<run, "geometry">>
TableOf(run) == <<run, "table">>
Payload(run, part, k) == <<run, "payload", part, k>>

\* Where the raw image is built.
Raw(d, req) == IF req.sparse THEN Staging(d) ELSE Out(d)

\* Mutant of BlankOutput: a block device is taken as it is.
BlankOutputOnly(d, req) ==
  IF d \in blocks THEN <<>> ELSE <<Create(Raw(d, req))>>

\* create_sized_file, or zero_fill.
BlankOutput(d, req) ==
  IF d \in blocks THEN [k \in 1 .. Limit(Device(Devs, d)) |-> Write(Out(d), k - 1, Blank)]
  ELSE <<Create(Raw(d, req))>>

WriteGeometry(run, req) ==
  <<Write(Raw(0, req), GeometryPrimary, Geometry(run)),
    Write(Raw(0, req), GeometryBackup, Geometry(run))>>

\* Mutant of CopySegment: one sector more than the segment has.
CopySegmentPast(run, seg, req) ==
  [k \in 1 .. seg.run.num + 1 |->
     Write(Raw(seg.run.source, req), seg.run.at + k - 1, Payload(run, seg.part, seg.from + k))]

\* copy_payload_segment.  The last sector of a payload may be short: the
\* rest of it stays as it is.
CopySegment(run, seg, req) ==
  LET part == req.parts[seg.part]
  IN [k \in 1 .. seg.run.num |->
        [Write(Raw(seg.run.source, req), seg.run.at + k - 1, Payload(run, seg.part, seg.from + k))
           EXCEPT !.short = part.short /\ seg.from + k = part.len]]

WriteSlot(run, s, req) ==
  <<Write(Raw(0, req), PrimaryAt(s), TableOf(run)), Write(Raw(0, req), BackupAt(s), TableOf(run))>>

ToSparse(d, req) == IF req.sparse THEN <<Convert(d), Unlink(Staging(d))>> ELSE <<>>

\* Each of the steps on all devices, segments and slots there are.
BlankOutputs(req) == SeqX!FlattenSeq([i \in DOMAIN Specs |-> BlankOutput(i - 1, req)])
CopyPayload(run, plan) ==
  SeqX!FlattenSeq([i \in DOMAIN plan.segments |-> CopySegment(run, plan.segments[i], plan.req)])
WriteSlots(run, req) ==
  SeqX!FlattenSeq([i \in 1 .. SlotCount |->
                     IF i - 1 \in req.slots THEN WriteSlot(run, i - 1, req) ELSE <<>>])
ConvertOutputs(req) == SeqX!FlattenSeq([i \in DOMAIN Specs |-> ToSparse(i - 1, req)])

\* Mutant of Program: the slots are written before the payload.
ProgramSlotsFirst(run, plan) ==
  BlankOutputs(plan.req) \o WriteGeometry(run, plan.req) \o WriteSlots(run, plan.req)
    \o CopyPayload(run, plan) \o ConvertOutputs(plan.req)

Program(run, plan) ==
  BlankOutputs(plan.req) \o WriteGeometry(run, plan.req) \o CopyPayload(run, plan)
    \o WriteSlots(run, plan.req) \o ConvertOutputs(plan.req)

----------------------------------------------------------------------------
\* load_super: geometry from one of its two copies, then the first valid
\* table, all primary copies before all backups.  An option is a set.

Is(cell, kind) == Len(cell) = 2 /\ cell[2] = kind

FindMetadata(file) ==
  LET copies == [k \in 1 .. 2 * SlotCount |->
                   IF k <= SlotCount THEN PrimaryAt(k - 1) ELSE BackupAt(k - 1 - SlotCount)]
      valid == {k \in DOMAIN copies : Is(file[copies[k]], "table")}
  IN {file[copies[k]][1] : k \in {j \in valid : \A i \in valid : j <= i}}

\* find_geometry: the two copies, else any other page among the first sixteen.
\* Runs differ in no geometry, so which of them is found makes no difference.
GeometryPages == {k * Page : k \in 1 .. 15}
FindGeometry(file) == {g \in GeometryPages \cap DOMAIN file : Is(file[g], "geometry")}

\* The run whose table a path loads with.
Loads(path) ==
  UNION {IF file = NoImage \/ FindGeometry(file) = {} THEN {} ELSE FindMetadata(file) :
         file \in disk[path]}

----------------------------------------------------------------------------
Init ==
  /\ blocks \in SUBSET Indices
  /\ disk = [p \in Paths |-> IF \E d \in blocks : p = Out(d) THEN {Sized(p[2], Junk)} ELSE {}]
  /\ todo = <<>>
  /\ made = <<>>
  /\ exit = "none"

\* A request is refused before anything is written.
Refused(req, plan) == ~plan.ok \/ (req.sparse /\ blocks # {})

Start(req) ==
  LET plan == PlanOf(req)
  IN /\ exit # "running" /\ Len(made) < MaxRuns
     /\ made' = Append(made, plan)
     /\ IF Refused(req, plan) THEN exit' = Failure /\ todo' = <<>>
        ELSE exit' = "running" /\ todo' = Program(Len(made) + 1, plan)
     /\ UNCHANGED <<disk, blocks>>

\* A write into a file; a short sector keeps the rest of what was there.
Put(file, op) ==
  [file EXCEPT ![op.at] = IF op.short /\ @ # Blank THEN Junk ELSE op.cell]

Effect(op) ==
  CASE op.do = "create" -> [disk EXCEPT ![op.path] = {Sized(op.path[2], Blank)}]
    [] op.do = "write" -> [disk EXCEPT ![op.path] = {Put(f, op) : f \in @}]
    [] op.do = "convert" -> [disk EXCEPT ![op.path] = disk[Staging(op.path[2])]]
    [] op.do = "remove" -> [disk EXCEPT ![op.path] = {}]

\* What it leaves when it fails, or is killed, half-way.
HalfEffect(op) ==
  CASE op.do \in {"create", "convert"} -> [disk EXCEPT ![op.path] = {NoImage}]
    [] op.do = "write" -> [disk EXCEPT ![op.path] = {[f EXCEPT ![op.at] = Junk] : f \in @}]
    [] op.do = "remove" -> disk

Step ==
  /\ exit = "running"
  /\ todo # <<>>
  /\ disk' = Effect(Head(todo))
  /\ todo' = Tail(todo)
  /\ UNCHANGED <<blocks, made, exit>>

\* An error, or the death of the process, before the next write or in it.
Stop ==
  /\ exit = "running"
  /\ disk' \in {disk} \cup {HalfEffect(Head(t)) : t \in {todo} \ {<<>>}}
  /\ todo' = <<>>
  /\ exit' = Stopped
  /\ UNCHANGED <<blocks, made>>

\* The self-check, last of all.
Verify ==
  /\ exit = "running"
  /\ todo = <<>>
  /\ exit' = IF Loads(Out(0)) # {} THEN Success ELSE Failure
  /\ UNCHANGED <<disk, blocks, todo, made>>

Next == (\E req \in Requests : Start(req)) \/ Step \/ Stop \/ Verify

Spec == Init /\ [][Next]_vars
----------------------------------------------------------------------------
\* Where sector k of a part is, by its plan, and what is there.
PlannedAt(plan, i) ==
  UNION {{<<seg.run.source, seg.run.at + k - 1, seg.from + k>> : k \in 1 .. seg.run.num} :
         seg \in {plan.segments[j] : j \in {m \in DOMAIN plan.segments : plan.segments[m].part = i}}}

Holds(d, s, cell) == \E file \in disk[Out(d)] : file # NoImage /\ file[s] = cell

\* All payload of a run that is meant for the given devices is in their files.
WholeOn(run, devs) ==
  \A i \in DOMAIN made[run].req.parts : \A w \in PlannedAt(made[run], i) :
    w[1] \in devs => Holds(w[1], w[2], Payload(run, i, w[3]))

Kinds == {"geometry", "table"}
TypeOK ==
  /\ blocks \subseteq Indices
  /\ \A p \in Paths : Cardinality(disk[p]) <= 1
  /\ \A p \in Paths : \A file \in disk[p] : file # NoImage =>
       /\ DOMAIN file = Sectors(p[2])
       /\ \A s \in Sectors(p[2]) :
            \/ file[s] \in {Blank, Junk}
            \/ \E run \in DOMAIN made :
                 \/ \E kind \in Kinds : file[s] = <<run, kind>>
                 \/ \E i \in DOMAIN made[run].req.parts :
                      \E k \in 1 .. made[run].req.parts[i].len : file[s] = Payload(run, i, k)
  /\ exit \in {"none", "running", Success, Failure, Stopped}

\* The sectors of the payloads of each group.
ChargeOf(parts) ==
  LET charge[k \in 0 .. Len(parts)] ==
        IF k = 0 THEN [g \in DOMAIN GroupMax |-> 0]
        ELSE [charge[k - 1] EXCEPT ![parts[k].group] = @ + parts[k].len]
  IN charge[Len(parts)]

SoundPlan(plan) ==
  LET parts == plan.req.parts
      places(i) == {<<w[1], w[2]>> : w \in PlannedAt(plan, i)}
  IN /\ \A i \in DOMAIN parts :
          /\ {w[3] : w \in PlannedAt(plan, i)} = 1 .. parts[i].len
          /\ Cardinality(places(i)) = parts[i].len
          /\ \A w \in places(i) :
               /\ w[2] \in Sectors(w[1])
               /\ w[2] >= BackupAt(SlotCount - 1) + CopySectors
               /\ parts[i].pin # {} => w[1] \in parts[i].pin
          /\ \A j \in DOMAIN parts : i # j => places(i) \cap places(j) = {}
     /\ \A g \in DOMAIN GroupMax :
          GroupMax[g] > 0 /\ ~plan.req.force => ChargeOf(parts)[g] <= GroupMax[g]

\* A plan is one the device table allows: the extents of its partitions lie
\* between the metadata area and the end of their device and apart from each
\* other, they have room for exactly the payload, on the pinned device if
\* there is one, and no group is over its maximum unless forced.
PlanIsSound == \A run \in DOMAIN made : made[run].ok => SoundPlan(made[run])

\* At every moment, whatever failed or was killed before and whatever the
\* outputs held: if the primary output loads with the table of some run, all
\* the payload of that run is in the files.  (Sparse files are converted one
\* after the other, the primary first; then this is so for the primary only.)
LoadableIsWhole ==
  \A run \in Loads(Out(0)) :
    WholeOn(run, IF made[run].req.sparse THEN {0} ELSE Indices)

\* Success means what the plan says, on every device: the image loads with
\* this run's table, in both copies of the target slots and in no other
\* slot, all payload is in place, and every other sector is blank, as in "a
\* fresh output file (no stale payload/metadata in gaps or free space)".
SuccessIsBuilt ==
  exit = Success =>
    LET run == Len(made)
        plan == made[run]
        at == UNION {{<<w[1], w[2]>> : w \in PlannedAt(plan, i)} : i \in DOMAIN plan.req.parts}
        tables == {PrimaryAt(s) : s \in plan.req.slots} \cup {BackupAt(s) : s \in plan.req.slots}
        meta == {<<0, s>> : s \in tables \cup {GeometryPrimary, GeometryBackup}}
    IN /\ Loads(Out(0)) = {run}
       /\ WholeOn(run, Indices)
       /\ \A s \in tables : Holds(0, s, TableOf(run))
       /\ \A s \in {GeometryPrimary, GeometryBackup} : Holds(0, s, Geometry(run))
       /\ \A d \in Indices : \A s \in Sectors(d) :
            <<d, s>> \notin at \cup meta => Holds(d, s, Blank)
=============================================================================
