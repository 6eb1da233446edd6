---------------------------- MODULE LoopDevices ----------------------------
(***************************************************************************)
(* connect, disconnect, map and unmap: partitions of an image as loop and  *)
(* device-mapper devices (cli/src/commands/connect.rs, map.rs).  Commands  *)
(* run at the same time, beside other users of the machine's loop devices, *)
(* and may be killed between any two system calls.                         *)
(*                                                                         *)
(* The kernel is modelled from how the code uses it: LOOP_SET_FD fails on  *)
(* a device that is bound; LOOP_CLR_FD detaches a device at its last       *)
(* close, and a device-mapper table holds its base open; a device-mapper   *)
(* device has a live table and an inactive one that a resume makes live,   *)
(* and is not removed while it is open.                                    *)
(*                                                                         *)
(* Metadata does not change here; the commands have read the same table.   *)
(*                                                                         *)
(* Sectors of the image's file and sectors of the image are told apart: in *)
(* a raw image they are the same, in an Android-sparse one they are not,   *)
(* and the commands accept both.                                           *)
(***************************************************************************)
EXTENDS Integers, Sequences, FiniteSets

CONSTANTS
  Procs,      \* running commands
  LastLoop,   \* loop devices 0 .. LastLoop exist in the kernel
  Nodes,      \* those that have a device node
  Table,      \* partition name -> its extents: [type, source, data, num]
  BlockImage, \* whether the image is itself a block device
  LastSector, \* sectors 0 .. LastSector are in the image's file
  Holds,      \* sector of the file -> the sector of the image that it holds
  OtherWindow \* what other users map of their files: set of [at, len]

VARIABLES
  loop, \* loop device -> [file, at, len, opens, auto, use]
  dm,   \* partition name -> at most one device-mapper device [live, next, busy]
  proc  \* command -> [st, cmd, part, nr]

vars == <<loop, dm, proc>>

Parts == DOMAIN Table
Nrs == 0 .. LastLoop
Linear == "linear"
Zero == "zero"
Unsupported == "unsupported"  \* any other type

\* What a sector of a sparse file holds: parts of two sectors, and headers.
NoWhole == -1

\* Nothing is assumed of where extents are, nor that they have any sectors.
ASSUME TableAssumption ==
  /\ \A n \in Parts :
       Table[n] \in Seq([type : {Linear, Zero, Unsupported}, source : Nat, data : Nat, num : Nat])
  /\ LastSector \in Nat /\ Holds \in [0 .. LastSector -> Nat \cup {NoWhole}]
  /\ LastLoop \in Nat /\ Nodes \subseteq Nrs /\ BlockImage \in BOOLEAN
  /\ OtherWindow \subseteq [at : Nat, len : Nat]

----------------------------------------------------------------------------
\* What a device is bound to.

NoFile == "no file"
Image == "image"
Other == "other"
User == "user"  \* someone who has the device mounted or open

ASSUME ProcsAssumption == User \notin Procs

\* Why a loop device is bound to the image (its use, with the partition where
\* that matters): a command is at it, connect has reported it, map has put a
\* device on it; or no command will come back to it, because it was killed
\* there, or was a map that met an extent of another type or could not open
\* /dev/device-mapper.
Setup == "setup"
Connected == "connected"
Base == "base"
Killed == "killed"
BadType == "bad_type"
NoMapper == "no_mapper"

Unbound == [file |-> NoFile, at |-> 0, len |-> 0, opens |-> {}, auto |-> FALSE, use |-> <<>>]
Bound(n) == loop[n].file # NoFile

Held(devs, n) ==
  \E m \in Parts : \E d \in devs[m] : \E t \in d.live \cup d.next : t.base = n

\* Detached devices that nothing has open any more become unbound.
Settle(loops, devs) ==
  [n \in Nrs |->
     IF loops[n].auto /\ loops[n].opens = {} /\ ~Held(devs, n) THEN Unbound ELSE loops[n]]

OpenedBy(loops, n, p) == [loops EXCEPT ![n].opens = @ \cup {p}]
ClosedBy(loops, n, p) == [loops EXCEPT ![n].opens = @ \ {p}]

\* LOOP_CLR_FD, then close.
ClrFd(loops, n, p) ==
  [loops EXCEPT ![n].auto = loops[n].file # NoFile, ![n].opens = @ \ {p}]

----------------------------------------------------------------------------
Idle == [st |-> "idle", cmd |-> "none", part |-> <<>>, nr |-> -1]
Goto(p, st) == proc' = [proc EXCEPT ![p].st = st]
Done(p) == proc' = [proc EXCEPT ![p] = Idle]
At(p, st) == proc[p].st = st

\* From LOOP_SET_FD until it reports, a command answers for the loop device it
\* has bound.
Owning == {"sizing", "opening", "creating", "loading", "resuming", "removing", "releasing"}
Owns(p) == proc[p].st \in Owning

Init ==
  /\ loop = [n \in Nrs |-> Unbound]
  /\ dm = [n \in Parts |-> {}]
  /\ proc = [p \in Procs |-> Idle]

\* Mutant of Connectable: the first extent is enough.
ConnectableAny(n) == Table[n] # <<>> /\ Table[n][1].type = Linear

\* One linear extent, no more.
Connectable(n) == Len(Table[n]) = 1 /\ Table[n][1].type = Linear

\* disconnect asks for one extent of any kind.
Disconnectable(n) == Len(Table[n]) = 1

\* Where its only extent starts: in the image, but taken as an offset into the
\* file, whatever its format and whatever device the extent is on.
Offset(n) == Table[n][1].data

\* SuperData::partition_size
Size(n) ==
  LET sum[i \in 0 .. Len(Table[n])] == IF i = 0 THEN 0 ELSE sum[i - 1] + Table[n][i].num
  IN sum[Len(Table[n])]

StartConnect(p, n) ==
  /\ At(p, "idle")
  /\ Connectable(n)
  /\ proc' = [proc EXCEPT ![p] = [st |-> "picking", cmd |-> "connect", part |-> n, nr |-> -1]]
  /\ UNCHANGED <<loop, dm>>

StartDisconnect(p, n) ==
  /\ At(p, "idle")
  /\ Disconnectable(n)
  /\ proc' = [proc EXCEPT ![p] = [st |-> "scanning", cmd |-> "disconnect", part |-> n, nr |-> 0]]
  /\ UNCHANGED <<loop, dm>>

StartMap(p, n) ==
  /\ At(p, "idle")
  /\ Table[n] # <<>>
  /\ proc' = [proc EXCEPT ![p] = [st |-> IF BlockImage THEN "opening" ELSE "picking",
                                  cmd |-> "map", part |-> n, nr |-> -1]]
  /\ UNCHANGED <<loop, dm>>

----------------------------------------------------------------------------
\* A loop device for the image: connect's get_free_loop and setup_loop, map's
\* ensure_block_base.

\* LOOP_CTL_GET_FREE hints at the first unbound device; if that has no node,
\* the first node without a backing file is taken, and the hint if there is
\* none.
Hint == {n \in Nrs : ~Bound(n) /\ \A m \in 0 .. n - 1 : Bound(m)}
FreeNodes == {n \in Nodes : ~Bound(n)}
Picked ==
  IF Hint \cap Nodes # {} \/ FreeNodes = {} THEN Hint
  ELSE {n \in FreeNodes : \A m \in FreeNodes : n <= m}

PickLoop(p) ==
  /\ At(p, "picking")
  /\ IF Picked = {} THEN Done(p)
     ELSE \E n \in Picked : proc' = [proc EXCEPT ![p].st = "binding", ![p].nr = n]
  /\ UNCHANGED <<loop, dm>>

\* LOOP_SET_FD: somebody may have been faster.
BindLoop(p) ==
  LET n == proc[p].nr
  IN /\ At(p, "binding")
     /\ IF n \in Nodes /\ ~Bound(n)
        THEN /\ loop' = [loop EXCEPT ![n] = [Unbound EXCEPT !.file = Image, !.opens = {p},
                                                            !.use = <<Setup>>]]
             /\ Goto(p, "sizing")
        ELSE Done(p) /\ UNCHANGED loop
     /\ UNCHANGED dm

\* Mutant of SizeFails: the device stays bound.
SizeFailsBound(p) ==
  /\ At(p, "sizing")
  /\ loop' = Settle(ClosedBy(loop, proc[p].nr, p), dm)
  /\ Done(p)
  /\ UNCHANGED dm

\* LOOP_SET_STATUS64 fails: the device is given back.
SizeFails(p) ==
  /\ At(p, "sizing")
  /\ loop' = Settle(ClrFd(loop, proc[p].nr, p), dm)
  /\ Done(p)
  /\ UNCHANGED dm

\* LOOP_SET_STATUS64: connect maps the partition's sectors of the file (all from
\* there on, if it asks for none) and reports the device, map goes on with the
\* whole file.
SizeLoop(p) ==
  LET n == proc[p].nr
      part == proc[p].part
      shown == [loop[n] EXCEPT !.at = Offset(part), !.len = Size(part),
                               !.use = <<Connected, part>>]
      closed(l) == Settle(ClosedBy([loop EXCEPT ![n] = l], n, p), dm)
  IN /\ At(p, "sizing")
     /\ \/ proc[p].cmd = "connect" /\ loop' = closed(shown) /\ Done(p)
        \/ proc[p].cmd = "map" /\ loop' = closed(loop[n]) /\ Goto(p, "opening")
     /\ UNCHANGED dm

----------------------------------------------------------------------------
\* disconnect.

\* A device that shows this partition's window of this image.
Shows(n, part) ==
  loop[n].at = Offset(part) /\ loop[n].len = Size(part) /\ loop[n].file = Image

\* Mutants of ScanLoop: one number too many; a device without a node stops
\* the scan where it is; the device is not kept open.
ScanLoopPast(p) ==
  LET n == proc[p].nr
  IN /\ At(p, "scanning")
     /\ IF n \in Nodes /\ Shows(n, proc[p].part)
        THEN Goto(p, "clearing") /\ loop' = OpenedBy(loop, n, p)
        ELSE /\ IF n > LastLoop THEN Done(p) ELSE proc' = [proc EXCEPT ![p].nr = n + 1]
             /\ UNCHANGED loop
     /\ UNCHANGED dm

ScanLoopStuck(p) ==
  LET n == proc[p].nr
  IN /\ At(p, "scanning")
     /\ IF n \in Nodes /\ Shows(n, proc[p].part)
        THEN Goto(p, "clearing") /\ loop' = OpenedBy(loop, n, p)
        ELSE /\ IF n = LastLoop THEN Done(p)
                ELSE proc' = [proc EXCEPT ![p].nr = IF n \in Nodes THEN n + 1 ELSE n]
             /\ UNCHANGED loop
     /\ UNCHANGED dm

ScanLoopClosed(p) ==
  LET n == proc[p].nr
  IN /\ At(p, "scanning")
     /\ IF n \in Nodes /\ Shows(n, proc[p].part) THEN Goto(p, "clearing")
        ELSE IF n = LastLoop THEN Done(p)
        ELSE proc' = [proc EXCEPT ![p].nr = n + 1]
     /\ UNCHANGED <<loop, dm>>

\* One round of find_loop_for_partition: the device is opened, then looked
\* at, and kept open if it is the one, so that nobody else gets its number.
ScanLoop(p) ==
  LET n == proc[p].nr
  IN /\ At(p, "scanning")
     /\ IF n \in Nodes /\ Shows(n, proc[p].part)
        THEN Goto(p, "clearing") /\ loop' = OpenedBy(loop, n, p)
        ELSE /\ IF n = LastLoop THEN Done(p) ELSE proc' = [proc EXCEPT ![p].nr = n + 1]
             /\ UNCHANGED loop
     /\ UNCHANGED dm

ClearLoop(p) ==
  /\ At(p, "clearing")
  /\ loop' = Settle(ClrFd(loop, proc[p].nr, p), dm)
  /\ Done(p)
  /\ UNCHANGED dm

----------------------------------------------------------------------------
\* map, with its base: a loop device, or (-1) the image itself.

\* build_linear_target, build_zero_target: the base is always the image's file,
\* whatever its format and whatever device the extent is on.
Target(e) == [type |-> e.type, at |-> e.data, num |-> e.num]
DmTable(p) ==
  [base |-> proc[p].nr,
   targets |-> [i \in DOMAIN Table[proc[p].part] |-> Target(Table[proc[p].part][i])]]

Mappable(n) == \A i \in DOMAIN Table[n] : Table[n][i].type \in {Linear, Zero}

\* map ends and its base stays bound.
Abandons(p, use) ==
  /\ Done(p)
  /\ loop' = [n \in Nrs |->
                IF n = proc[p].nr THEN [loop[n] EXCEPT !.use = use] ELSE loop[n]]

\* The types of the extents are looked at when the base is bound already.
RefuseType(p) ==
  /\ At(p, "opening")
  /\ ~Mappable(proc[p].part)
  /\ Abandons(p, <<BadType, proc[p].part>>)
  /\ UNCHANGED dm

\* /dev/device-mapper may not open.
OpenDm(p) ==
  /\ At(p, "opening")
  /\ Mappable(proc[p].part)
  /\ \/ Goto(p, "creating") /\ UNCHANGED loop
     \/ Abandons(p, <<NoMapper>>)
  /\ UNCHANGED dm

\* DM_DEV_CREATE: the name must be new.
CreateDm(p) ==
  LET part == proc[p].part
  IN /\ At(p, "creating")
     /\ \/ /\ dm[part] = {}
           /\ dm' = [dm EXCEPT ![part] = {[live |-> {}, next |-> {}, busy |-> FALSE]}]
           /\ Goto(p, "loading")
        \/ Goto(p, "releasing") /\ UNCHANGED dm
     /\ UNCHANGED loop

\* DM_TABLE_LOAD, by name.  A table with an empty target is refused.
LoadDm(p) ==
  LET part == proc[p].part
  IN /\ At(p, "loading")
     /\ \/ /\ dm[part] # {} /\ \A i \in DOMAIN Table[part] : Table[part][i].num # 0
           /\ dm' = [dm EXCEPT ![part] = {[d EXCEPT !.next = {DmTable(p)}] : d \in dm[part]}]
           /\ loop' = Settle(loop, dm')
           /\ Goto(p, "resuming")
        \/ Goto(p, "removing") /\ UNCHANGED <<loop, dm>>

\* DM_DEV_SUSPEND without the suspend flag: resume.
ResumeDm(p) ==
  LET part == proc[p].part
      resumed(d) == IF d.next = {} THEN d ELSE [d EXCEPT !.live = d.next, !.next = {}]
      reported == [n \in Nrs |->
                     IF n = proc[p].nr THEN [loop[n] EXCEPT !.use = <<Base>>] ELSE loop[n]]
  IN /\ At(p, "resuming")
     /\ \/ /\ dm[part] # {}
           /\ dm' = [dm EXCEPT ![part] = {resumed(d) : d \in dm[part]}]
           /\ loop' = Settle(reported, dm')
           /\ Done(p)
        \/ Goto(p, "removing") /\ UNCHANGED <<loop, dm>>

\* DM_DEV_REMOVE: not while somebody has the device open.
WithoutDm(part) == [dm EXCEPT ![part] = {d \in @ : d.busy}]

\* map undoes its device, as far as it can, then its base.
UndoDm(p) ==
  /\ At(p, "removing")
  /\ dm' = WithoutDm(proc[p].part)
  /\ loop' = Settle(loop, dm')
  /\ Goto(p, "releasing")

ReleaseBase(p) ==
  /\ At(p, "releasing")
  /\ loop' = IF proc[p].nr \in Nodes THEN Settle(ClrFd(loop, proc[p].nr, p), dm) ELSE loop
  /\ Done(p)
  /\ UNCHANGED dm

\* unmap: the device goes, its base stays bound.
Unmap(p, n) ==
  /\ At(p, "idle")
  /\ dm[n] # {}
  /\ dm' = WithoutDm(n)
  /\ loop' = Settle(loop, dm')
  /\ UNCHANGED proc

----------------------------------------------------------------------------
\* A command is killed: the kernel closes what it had open.
Kill(p) ==
  /\ ~At(p, "idle")
  /\ LET forsaken(l) == IF Owns(p) THEN [l EXCEPT !.use = <<Killed>>] ELSE l
         closed == [n \in Nrs |->
                      IF n = proc[p].nr THEN [forsaken(loop[n]) EXCEPT !.opens = @ \ {p}]
                      ELSE loop[n]]
     IN loop' = Settle(closed, dm)
  /\ Done(p)
  /\ UNCHANGED dm

\* Other users: they bind and detach devices of their own, and hold open what
\* is there.
OtherBinds(n, w) ==
  /\ ~Bound(n)
  /\ loop' = [loop EXCEPT ![n] = [Unbound EXCEPT !.file = Other, !.at = w.at, !.len = w.len]]
OtherDetaches(n) ==
  /\ loop[n].file = Other
  /\ loop' = Settle(ClrFd(loop, n, User), dm)
UserOpens(n) == Bound(n) /\ ~loop[n].auto /\ loop' = OpenedBy(loop, n, User)
UserCloses(n) == User \in loop[n].opens /\ loop' = Settle(ClosedBy(loop, n, User), dm)

DmToggle(n) ==
  /\ \E d \in dm[n] : d.live # {}
  /\ dm' = [dm EXCEPT ![n] = {[d EXCEPT !.busy = ~d.busy] : d \in dm[n]}]

Environment ==
  \/ /\ \E n \in Nodes :
          \/ \E w \in OtherWindow : OtherBinds(n, w)
          \/ OtherDetaches(n) \/ UserOpens(n) \/ UserCloses(n)
     /\ UNCHANGED <<dm, proc>>
  \/ (\E n \in Parts : DmToggle(n)) /\ UNCHANGED <<loop, proc>>

Begin(p) ==
  \E n \in Parts : StartConnect(p, n) \/ StartDisconnect(p, n) \/ StartMap(p, n) \/ Unmap(p, n)

Step(p) ==
  \/ PickLoop(p) \/ BindLoop(p) \/ SizeLoop(p) \/ SizeFails(p)
  \/ ScanLoop(p) \/ ClearLoop(p)
  \/ RefuseType(p) \/ OpenDm(p) \/ CreateDm(p) \/ LoadDm(p) \/ ResumeDm(p) \/ UndoDm(p) \/ ReleaseBase(p)

Next ==
  \/ \E p \in Procs : Begin(p) \/ Step(p) \/ Kill(p)
  \/ Environment

Spec == Init /\ [][Next]_vars

\* A command that runs goes on: every system call returns.
FairSpec == Spec /\ \A p \in Procs : WF_vars(Step(p))
----------------------------------------------------------------------------
TypeOK ==
  /\ \A n \in Nrs :
       /\ loop[n].file \in {NoFile, Image, Other}
       /\ loop[n].opens \subseteq Procs \cup {User}
       /\ loop[n].auto \in BOOLEAN
       /\ loop[n].file = Image <=> loop[n].use # <<>>
       /\ loop[n].file = NoFile => loop[n] = Unbound
  /\ \A m \in Parts : Cardinality(dm[m]) <= 1
  /\ \A p \in Procs : proc[p].nr \in Nrs \cup {-1}

\* Sectors as <<block device, sector of the image>>: those of a partition,
\* extent by extent ...
Zeros == <<>>
PartSectors(n) ==
  [i \in DOMAIN Table[n] |->
     LET e == Table[n][i]
     IN [s \in 0 .. e.num - 1 |-> IF e.type = Zero THEN Zeros ELSE <<e.source, e.data + s>>]]

\* ... those that a loop device shows, none of the image if it is not bound to
\* it or ends before ...
Foreign == <<NoWhole, NoWhole>>
FileSector(s) == IF s \in 0 .. LastSector THEN <<0, Holds[s]>> ELSE Foreign
LoopLen(n) == IF loop[n].len = 0 THEN LastSector + 1 - loop[n].at ELSE loop[n].len
LoopSector(n, s) ==
  IF loop[n].file = Image /\ s < LoopLen(n) THEN FileSector(loop[n].at + s) ELSE Foreign
LoopSectors(n) == <<[s \in 0 .. LoopLen(n) - 1 |-> LoopSector(n, s)]>>

\* ... and those that a device-mapper table shows, through its base.
BaseSector(b, s) ==
  IF b # -1 THEN LoopSector(b, s) ELSE IF BlockImage THEN FileSector(s) ELSE Foreign
DmSectors(t) ==
  [i \in DOMAIN t.targets |->
     LET e == t.targets[i]
     IN [s \in 0 .. e.num - 1 |-> IF e.type = Zero THEN Zeros ELSE BaseSector(t.base, e.at + s)]]

\* What connect reports shows, as long as it is bound, exactly the sectors of
\* the partition ("would capture foreign blocks", says connect of others); what
\* map reports shows them too, through a base that stays bound to the image.
\* It holds of raw images on one block device, without empty extents; of sparse
\* images, and of extents on a second device, it does not.
ShowsPartition ==
  /\ \A n \in Nrs :
       loop[n].use # <<>> /\ loop[n].use[1] = Connected =>
         LoopSectors(n) = PartSectors(loop[n].use[2])
  /\ \A m \in Parts : \A d \in dm[m] : \A t \in d.live : DmSectors(t) = PartSectors(m)

\* Every loop device bound to the image was reported by connect or by map, or
\* has its command still at it, or was given back and goes with its last user,
\* or is left over.  Only three things leave one over: a command is killed at
\* it, a map finds an extent type it does not know (in a partition that has
\* one), a map cannot open /dev/device-mapper.  Every other error exit of
\* connect and map gives back what it bound.
Left(n) ==
  \/ loop[n].use[1] \in {Killed, NoMapper}
  \/ loop[n].use[1] = BadType /\ ~Mappable(loop[n].use[2])
NoStray ==
  \A n \in Nrs : loop[n].file = Image =>
    \/ loop[n].use[1] \in {Connected, Base} /\ ~loop[n].auto
    \/ \E p \in Procs : proc[p].nr = n /\ Owns(p)
    \/ loop[n].auto /\ (loop[n].opens # {} \/ Held(dm, n))
    \/ Left(n)

\* No command ever changes or detaches a loop device that somebody else has
\* bound to another file, however the numbers are reused in between.
OthersUntouched ==
  [][\A n \in Nrs, p \in Procs :
       loop[n].file = Other /\ proc'[p] # proc[p] =>
         loop'[n].file = Other /\ loop'[n].auto = loop[n].auto]_vars

\* Every command comes to an end.
CommandsEnd == \A p \in Procs : ~At(p, "idle") ~> At(p, "idle")
=============================================================================
