--------------------------- MODULE PartitionRead ---------------------------
(***************************************************************************)
(* A partition as a stream: ExtentReader and SplitExtentReader             *)
(* (core/src/reader/extent_stream.rs, multiblock.rs) and the two loops of  *)
(* `read` that call them (cli/src/commands/read.rs), over an image that is *)
(* raw or the sparse container of SparseImage, and the secondary files that *)
(* --device gives (DeviceBinding).                                         *)
(* Each round of the loops is a step.  Lengths and positions are in units; *)
(* a unit is a part of a sector, so that --skip and --size need not be     *)
(* whole sectors.                                                          *)
(***************************************************************************)
EXTENDS SparseImage, DeviceBinding

CONSTANTS
  SectorUnits, \* units of a sector
  Files,       \* path -> content, of the secondary files that are there
  SpecLists,   \* values of --device: sequences of [name, path]
  ExtentLists, \* partitions: sequences of [type, source, data, num]
  Skips,       \* values of --skip
  Sizes,       \* values of --size
  SkipBuf,     \* the buffer that skips, 64 KiB
  ReadBuf      \* the buffer that reads, 1 MiB

VARIABLES
  cmd, \* the command: [st, sparse, specs, bound, extents, skip, left, max]
  rd,  \* the reader: [extent, offset, position]
  buf, \* its buffer: [want, got]
  out  \* what the command has written

vars == <<raw, file, enc, cmd, rd, buf, out>>
cmdVars == <<cmd, rd, buf, out>>

\* Options give a name or none.
ASSUME ReadAssumption ==
  /\ Len(Devices) \in Nat
  /\ SectorUnits \in Nat \ {0} /\ SkipBuf \in Nat \ {0} /\ ReadBuf \in Nat \ {0}
  /\ Skips \subseteq Nat /\ Sizes \subseteq Nat
  /\ \A path \in DOMAIN Files : Files[path] \in Seq(Nat)
  /\ \A extents \in ExtentLists :
       extents \in Seq([type : {"linear", "zero"}, source : Nat, data : Nat, num : Nat])
  /\ \A specs \in SpecLists :
       /\ DOMAIN specs = 1 .. Len(specs) /\ Len(specs) \in Nat
       /\ \A k \in DOMAIN specs : \A m, n \in specs[k].name : m = n

ExtentUnits(e) == e.num * SectorUnits

\* Units of the first i extents, and of all.
UnitsTo(extents) ==
  LET sum[i \in 0 .. Len(extents)] == IF i = 0 THEN 0 ELSE sum[i - 1] + ExtentUnits(extents[i])
  IN sum
Total(extents) == UnitsTo(extents)[Len(extents)]

Init ==
  /\ SparseInit
  /\ cmd = [st |-> "off", sparse |-> FALSE, specs |-> <<>>, bound |-> <<>>,
            extents |-> <<>>, skip |-> 0, left |-> 0, max |-> 0]
  /\ rd = [extent |-> 1, offset |-> 0, position |-> 0]
  /\ buf = [want |-> 0, got |-> <<>>]
  /\ out = <<>>

\* The image behind a target_source, if it is bound and opens.
Source(d) ==
  IF d = 0 THEN (IF cmd.sparse THEN ParseSparse(file) ELSE {RawImage(raw)})
  ELSE {RawImage(Files[cmd.bound[c]]) : c \in {d} \cap DOMAIN cmd.bound}

\* open_split: the image opens, and the file bound to each secondary device.
OpenSplit(sparse, specs) ==
  {b \in ResolveDeviceBindings(specs) :
     /\ sparse => ParseSparse(file) # {}
     /\ \A d \in DOMAIN b : b[d] \in DOMAIN Files}

\* `read`, up to the point where the readers are set up.
Start(sparse, specs, extents, skip, size) ==
  LET past == skip >= Total(extents)
      opened == OpenSplit(sparse, specs)
  IN /\ cmd.st = "off"
     /\ enc.st \notin {"encoding", "patching"}
     /\ cmd' = [st |-> IF past THEN "success"
                       ELSE IF opened = {} THEN "failed"
                       ELSE IF skip > 0 THEN "skipping" ELSE "reading",
                sparse |-> sparse, specs |-> specs,
                bound |-> IF opened = {} THEN <<>> ELSE CHOOSE b \in opened : TRUE,
                extents |-> extents, skip |-> skip, left |-> skip,
                max |-> IF past THEN 0 ELSE Least(size, Total(extents) - skip)]
     /\ UNCHANGED <<rd, buf, out>>

Busy == cmd.st \in {"skipping", "reading"}
InRead == Busy /\ buf.want > 0

\* A loop of the command calls read, or is done.
NextBuffer ==
  LET left == IF cmd.st = "skipping" THEN cmd.left ELSE cmd.max - Len(out)
      size == IF cmd.st = "skipping" THEN Least(cmd.skip, SkipBuf) ELSE ReadBuf
      over == IF cmd.st = "skipping" THEN "reading" ELSE "success"
  IN /\ Busy /\ buf.want = 0
     /\ IF left = 0 \/ rd.position >= Total(cmd.extents)
        THEN cmd' = [cmd EXCEPT !.st = over] /\ UNCHANGED buf
        ELSE buf' = [want |-> Least(left, size), got |-> <<>>] /\ UNCHANGED cmd
     /\ UNCHANGED <<rd, out>>

Filling == InRead /\ Len(buf.got) < buf.want /\ rd.extent <= Len(cmd.extents)
Extent == cmd.extents[rd.extent]

\* Mutant of PassExtent: an extent of no sectors is never left.
PassExtentUsed ==
  /\ Filling
  /\ rd.offset >= ExtentUnits(Extent)
  /\ rd' = IF ExtentUnits(Extent) = 0 THEN rd ELSE [rd EXCEPT !.extent = @ + 1, !.offset = 0]
  /\ UNCHANGED <<cmd, buf, out>>

\* An extent that is used up, or was empty.
PassExtent ==
  /\ Filling
  /\ rd.offset >= ExtentUnits(Extent)
  /\ rd' = [rd EXCEPT !.extent = @ + 1, !.offset = 0]
  /\ UNCHANGED <<cmd, buf, out>>

\* The next n units of the current extent.
Fetched(n) ==
  IF Extent.type = "zero" THEN {Zeros(n)}
  ELSE UNION {ReadAt(img, Extent.data * SectorUnits + rd.offset, n) : img \in Source(Extent.source)}

Advanced(n) ==
  IF rd.offset + n >= ExtentUnits(Extent)
  THEN [extent |-> rd.extent + 1, offset |-> 0, position |-> rd.position + n]
  ELSE [rd EXCEPT !.offset = @ + n, !.position = @ + n]

\* Mutant of Room: as much as the buffer is long, however full it is.
RoomInBuffer == Least(ExtentUnits(Extent) - rd.offset, buf.want)

\* What this round can take: the rest of the extent, or of the buffer.
Room == Least(ExtentUnits(Extent) - rd.offset, buf.want - Len(buf.got))

TakeExtent ==
  /\ Filling
  /\ rd.offset < ExtentUnits(Extent)
  /\ IF Fetched(Room) = {} THEN cmd' = [cmd EXCEPT !.st = "failed"] /\ UNCHANGED <<rd, buf>>
     ELSE /\ \E s \in Fetched(Room) : buf' = [buf EXCEPT !.got = @ \o s]
          /\ rd' = Advanced(Room)
          /\ UNCHANGED cmd
  /\ UNCHANGED out

\* read returns; what is skipped is dropped, what is read is written, until
\* whoever reads the pipe goes away (no error), or writing fails.
ReturnBuffer ==
  LET n == Len(buf.got)
  IN /\ InRead /\ ~Filling
     /\ buf' = [want |-> 0, got |-> <<>>]
     /\ IF n = 0
        THEN cmd' = [cmd EXCEPT !.st = IF @ = "skipping" THEN "reading" ELSE "success"] /\ UNCHANGED out
        ELSE IF cmd.st = "skipping"
        THEN cmd' = [cmd EXCEPT !.left = IF n > @ THEN 0 ELSE @ - n] /\ UNCHANGED out
        ELSE \/ out' = out \o buf.got /\ UNCHANGED cmd
             \/ \E st \in {"pipe_closed", "write_failed"} :
                  cmd' = [cmd EXCEPT !.st = st] /\ UNCHANGED out
     /\ UNCHANGED rd

Read == NextBuffer \/ PassExtent \/ TakeExtent \/ ReturnBuffer

Next ==
  \/ (Encode \/ StopEncoder) /\ UNCHANGED cmdVars
  \/ /\ \/ \E sparse \in BOOLEAN, specs \in SpecLists, extents \in ExtentLists,
              skip \in Skips, size \in Sizes : Start(sparse, specs, extents, skip, size)
        \/ Read
     /\ UNCHANGED <<raw, file, enc>>

\* The command's loops go on.
Spec == Init /\ [][Next]_vars /\ WF_vars(Read /\ UNCHANGED <<raw, file, enc>>)
----------------------------------------------------------------------------
\* Unit u of the partition (from 0), read straight from the contents of the
\* devices; nothing if it is past the end of one, or no option gives that.
Given(d) == {cmd.specs[k].path : k \in {j \in DOMAIN cmd.specs : DeviceOf(cmd.specs[j]) = {d}}}
Content(d) == IF d = 0 THEN {raw} ELSE {Files[path] : path \in Given(d)}

UnitsBefore(i) == UnitsTo(cmd.extents)[i - 1]
UnitAt(u) ==
  LET i == CHOOSE k \in DOMAIN cmd.extents :
             UnitsBefore(k) <= u /\ u < UnitsBefore(k) + ExtentUnits(cmd.extents[k])
      e == cmd.extents[i]
      at == e.data * SectorUnits + u - UnitsBefore(i)
  IN IF e.type = "zero" THEN {0} ELSE {c[at + 1] : c \in {b \in Content(e.source) : at < Len(b)}}

TypeOK ==
  /\ cmd.st \in {"off", "skipping", "reading", "success", "failed", "pipe_closed", "write_failed"}
  /\ rd.extent \in 1 .. Len(cmd.extents) + 1
  /\ rd.position \in 0 .. Total(cmd.extents)
  /\ Len(buf.got) <= buf.want
  /\ enc.st \in {"encoding", "patching", "encoded", "foreign", "stopped"}

\* What `read` writes is, at every moment, the beginning of the part of the
\* partition that was asked for, unit for unit; when it reports success it is
\* all of it, with --skip and --size beyond the end clamped.  It reports that
\* reading failed only if a part of the partition cannot be read (the image
\* does not open, or ends early, or no --device gives a device), or the
\* options are wrong: one means no device, or gives a secondary one a file that
\* is not there, or the primary one another file, or two mean one device.
ReadIsFaithful ==
  /\ \A u \in DOMAIN out : UnitAt(cmd.skip + u - 1) = {out[u]}
  /\ Len(out) <= cmd.max
  /\ cmd.st = "success" => Len(out) = cmd.max
  /\ cmd.st = "failed" =>
       \/ cmd.sparse /\ ParseSparse(file) = {}
       \/ \E k \in DOMAIN cmd.specs :
            \/ DeviceOf(cmd.specs[k]) = {}
            \/ cmd.specs[k].path \notin DOMAIN Files /\ DeviceOf(cmd.specs[k]) # {0}
            \/ DeviceOf(cmd.specs[k]) = {0} /\ cmd.specs[k].path \notin PrimaryPaths
            \/ \E j \in DOMAIN cmd.specs \ {k} : DeviceOf(cmd.specs[j]) = DeviceOf(cmd.specs[k])
       \/ \E u \in 0 .. Total(cmd.extents) - 1 : UnitAt(u) = {}

\* `read` comes to an end, whatever the extents, empty ones among them.
ReadEnds == Busy ~> ~Busy
=============================================================================
