------------------------- MODULE LoopDevicesProofs -------------------------
(***************************************************************************)
(* Proofs about LoopDevices, for any number of commands, loop devices and  *)
(* partitions: commands never touch the loop device of somebody else, they *)
(* leave one behind by three exits only, and every device they report      *)
(* shows its partition.  What each of the three needs of the image (the    *)
(* code asks it of none) is a hypothesis of its theorem.                   *)
(***************************************************************************)
EXTENDS LoopDevices, SequenceTheorems, FiniteSetTheorems, TLAPS

Holding == {"sizing", "clearing"}
Working == Owning \cup {"clearing"}

Alone == {Setup, Base, Killed, NoMapper}
WithPart == {Connected, BadType}
Uses == {<<>>} \cup {<<w>> : w \in Alone} \cup (WithPart \X Parts)

LoopRec ==
  [file : {NoFile, Image, Other}, at : Nat, len : Nat, opens : SUBSET (Procs \cup {User}),
   auto : BOOLEAN, use : Uses]

ProcRec ==
  [st : Owning \cup {"idle", "picking", "binding", "scanning", "clearing"},
   cmd : {"none", "connect", "disconnect", "map"},
   part : Parts \cup {<<>>},
   nr : Nrs \cup {-1}]

TargetsOf(m) == [i \in DOMAIN Table[m] |-> Target(Table[m][i])]
MapTables == [base : Nrs \cup {-1}, targets : {TargetsOf(m) : m \in Parts}]
MapRec == [live : SUBSET MapTables, next : SUBSET MapTables, busy : BOOLEAN]

\* A loop device by itself: connect reports a device only when it shows the
\* partition, and any other device bound to the image shows all of it; map
\* leaves it for the type of an extent only where there is such an extent.
LoopOK(l) ==
  /\ l \in LoopRec
  /\ l.file = Image <=> l.use # <<>>
  /\ l.file = NoFile => l = Unbound
  /\ l.file = Image /\ l.use[1] # Connected => l.at = 0 /\ l.len = 0
  /\ l.file = Image /\ l.use[1] = Connected =>
       Connectable(l.use[2]) /\ l.at = Offset(l.use[2]) /\ l.len = Size(l.use[2])
  /\ l.file = Image /\ l.use[1] = BadType => ~Mappable(l.use[2])

\* A command by itself.
ProcLocal(r) ==
  /\ r \in ProcRec
  /\ r.st # "idle" => r.part \in Parts
  /\ r.st \in {"picking", "binding", "sizing"} =>
       r.cmd = "map" \/ (r.cmd = "connect" /\ Connectable(r.part))
  /\ r.st \in {"scanning", "clearing"} => Disconnectable(r.part)
  /\ r.st \in Owning /\ r.nr = -1 => BlockImage
  /\ r.st \in Owning /\ r.nr # -1 => r.nr \in Nodes
  /\ r.st \in {"sizing", "clearing"} => r.nr \in Nodes
  /\ r.st \in {"binding", "scanning"} => r.nr \in Nrs

\* What a command at its device relies on, though it may not hold it open.
Relies(r, l, p) ==
  /\ r.st \in Owning => l.file = Image /\ ~l.auto /\ l.use = <<Setup>>
  /\ r.st \in Holding => p \in l.opens
  /\ r.st = "clearing" => l.file = Image /\ l.use[1] = Connected

LoopsOK(L) == L \in [Nrs -> LoopRec] /\ \A n \in Nrs : LoopOK(L[n])

\* The base of a device-mapper device stays bound to the whole image.
BaseOK(L, b) == IF b = -1 THEN BlockImage ELSE L[b].file = Image /\ L[b].use[1] # Connected

MapsOK(L, D) ==
  /\ D \in [Parts -> SUBSET MapRec]
  /\ \A m \in Parts : \A c, d \in D[m] : c = d
  /\ \A m \in Parts : \A d \in D[m] : \A t \in d.live \cup d.next :
       t.targets = TargetsOf(m) /\ BaseOK(L, t.base)

ProcsOK(P) == P \in [Procs -> ProcRec] /\ \A p \in Procs : ProcLocal(P[p])

Relied(L, P) ==
  \A p \in Procs : P[p].st \in Working /\ P[p].nr # -1 => Relies(P[p], L[P[p].nr], p)

\* No two commands answer for one device, and nothing is mapped over a device
\* that is still being set up.
OwnersApart(P) ==
  \A p, q \in Procs :
    P[p].st \in Owning /\ P[q].st \in Owning /\ P[p].nr = P[q].nr /\ P[p].nr # -1 => p = q
Fresh(D, P) == \A p \in Procs : P[p].st = "sizing" => ~Held(D, P[p].nr)

Opened(L, P) ==
  \A n \in Nrs, p \in Procs : p \in L[n].opens => P[p].nr = n /\ P[p].st \in Holding

Answered(L, P) ==
  \A n \in Nrs : L[n].use # <<>> /\ L[n].use[1] = Setup /\ ~L[n].auto =>
    \E p \in Procs : P[p].nr = n /\ P[p].st \in Owning

Core(L, D, P) ==
  /\ LoopsOK(L) /\ MapsOK(L, D) /\ ProcsOK(P)
  /\ Relied(L, P) /\ OwnersApart(P) /\ Fresh(D, P) /\ Opened(L, P) /\ Answered(L, P)

\* Nothing waits for a last user who has already gone.
Settled(L, D) == \A n \in Nrs : L[n].auto /\ L[n].opens = {} => Held(D, n)

IInv == Core(loop, dm, proc) /\ Settled(loop, dm)

\* No partition of one extent looks like the whole file: from sector 0 on, and
\* empty.  To disconnect, a map that sets up its base would look like connect.
NoneLikeWhole ==
  \A n \in Parts : Len(Table[n]) = 1 => Table[n][1].data # 0 \/ Table[n][1].num # 0

----------------------------------------------------------------------------
\* A partition of one extent: its size is the extent's.
LEMMA SizeOfOne ==
  ASSUME NEW n \in Parts, Len(Table[n]) = 1
  PROVE  /\ Size(n) = Table[n][1].num /\ Size(n) \in Nat
         /\ Offset(n) = Table[n][1].data /\ Offset(n) \in Nat
         /\ DOMAIN Table[n] = {1}
<1> DEFINE e == Table[n][1]
           F(f) == [i \in 0 .. Len(Table[n]) |-> IF i = 0 THEN 0 ELSE f[i - 1] + Table[n][i].num]
           sum == CHOOSE f : f = F(f)
           one == [i \in 0 .. 1 |-> IF i = 0 THEN 0 ELSE e.num]
<1>1. e.num \in Nat /\ e.data \in Nat /\ DOMAIN Table[n] = {1}
  <2>1. Table[n] \in Seq([type : {Linear, Zero, Unsupported}, source : Nat, data : Nat, num : Nat])
    BY TableAssumption
  <2>2. DOMAIN Table[n] = 1 .. Len(Table[n])
    BY <2>1, LenProperties
  <2>3. e \in [type : {Linear, Zero, Unsupported}, source : Nat, data : Nat, num : Nat]
    <3> DEFINE S == [type : {Linear, Zero, Unsupported}, source : Nat, data : Nat, num : Nat]
    <3>1. Table[n] \in Seq(S) /\ 1 \in 1 .. Len(Table[n])
      BY <2>1
    <3> HIDE DEF S
    <3>2. e \in S
      BY <3>1, ElementOfSeq
    <3> QED
      BY <3>2 DEF S
  <2> QED
    BY <2>2, <2>3
<1>2. one = F(one)
  <2>1. ASSUME NEW i \in 0 .. 1
        PROVE  one[i] = IF i = 0 THEN 0 ELSE one[i - 1] + Table[n][i].num
    <3>1. i = 0 \/ i = 1
      OBVIOUS
    <3>2. CASE i = 0
      BY <3>2
    <3>3. CASE i = 1
      BY <1>1, <3>3
    <3> QED
      BY <3>1, <3>2, <3>3
  <2> HIDE DEF e
  <2> QED
    BY <2>1
<1>3. sum = F(sum)
  <2> HIDE DEF F, one
  <2> QED
    BY <1>2
<1>4. Size(n) = sum[Len(Table[n])]
  BY DEF Size
<1>5. sum[0] = 0 /\ sum[1] = sum[0] + e.num
  <2> HIDE DEF sum, e
  <2> QED
    BY <1>3 DEF e
<1> QED
  BY <1>1, <1>4, <1>5 DEF Offset

\* The ways to use a device, by their label.
LEMMA AloneFacts ==
  ASSUME NEW w \in Alone
  PROVE  <<w>> \in Uses /\ <<w>> # <<>> /\ <<w>>[1] = w /\ w \notin WithPart
BY DEF Uses, Alone, WithPart, Setup, Base, Killed, NoMapper, Connected, BadType

LEMMA WithPartFacts ==
  ASSUME NEW w \in WithPart, NEW n \in Parts
  PROVE  <<w, n>> \in Uses /\ <<w, n>> # <<>> /\ <<w, n>>[1] = w /\ <<w, n>>[2] = n
BY DEF Uses

LEMMA LabelFacts ==
  ASSUME NEW u \in Uses, u # <<>>
  PROVE  /\ u[1] \in Alone \cup WithPart
         /\ u[1] \in WithPart => u[2] \in Parts
<1>1. CASE \E w \in Alone : u = <<w>>
  <2>1. PICK w \in Alone : u = <<w>>
    BY <1>1
  <2>2. u[1] = w /\ w \notin WithPart
    BY <2>1, AloneFacts
  <2> QED
    BY <2>1, <2>2
<1>2. CASE u \in WithPart \X Parts
  BY <1>2
<1> QED
  BY <1>1, <1>2 DEF Uses

LEMMA UnboundOK == LoopOK(Unbound)
<1>1. <<>> \in Uses
  BY DEF Uses
<1> QED
  BY <1>1 DEF LoopOK, LoopRec, Unbound, NoFile, Image, Other

LEMMA LoopFacts ==
  ASSUME NEW l, LoopOK(l)
  PROVE  /\ l \in LoopRec
         /\ l.file \in {NoFile, Image, Other} /\ l.auto \in BOOLEAN
         /\ l.opens \subseteq Procs \cup {User}
         /\ l.at \in Nat /\ l.len \in Nat
         /\ l.file # Image => l.use = <<>>
         /\ l.file = Image => l.use # <<>>
         /\ l.file = NoFile => l = Unbound
<1>1. l \in LoopRec /\ (l.file = Image <=> l.use # <<>>) /\ (l.file = NoFile => l = Unbound)
  BY DEF LoopOK
<1> QED
  BY <1>1 DEF LoopRec

LEMMA UseFacts ==
  ASSUME NEW l, LoopOK(l), l.use # <<>>
  PROVE  /\ l.file = Image
         /\ l.use[1] \in Alone \cup WithPart
         /\ l.use[1] # Connected => l.at = 0 /\ l.len = 0
         /\ l.use[1] = Connected =>
              /\ l.use[2] \in Parts
              /\ Connectable(l.use[2]) /\ l.at = Offset(l.use[2]) /\ l.len = Size(l.use[2])
         /\ l.use[1] = BadType => ~Mappable(l.use[2])
<1>1. l.use \in Uses
  BY DEF LoopOK, LoopRec
<1>2. l.use[1] \in Alone \cup WithPart /\ (l.use[1] \in WithPart => l.use[2] \in Parts)
  BY <1>1, LabelFacts
<1> QED
  BY <1>2 DEF LoopOK, WithPart

----------------------------------------------------------------------------
\* The three ways in which a step changes the state: one loop device and one
\* command, a device-mapper table, and the kernel detaching what is due.

\* Device k becomes l, and the commands of C are at device k, or at none,
\* before and after.
Fits(L, D, P, k, l, P1, C) ==
  /\ LoopOK(l) /\ ProcsOK(P1) /\ C \subseteq Procs
  /\ \A q \in Procs \ C : P1[q] = P[q]
  /\ \A q \in C : /\ P[q].st \in Working => P[q].nr \in {k, -1}
                  /\ P1[q].st \in Working => P1[q].nr \in {k, -1}
  /\ \A q \in Procs : P1[q].st \in Working /\ P1[q].nr = k => Relies(P1[q], l, q)
  /\ \A q, r \in Procs :
       P1[q].st \in Owning /\ P1[q].nr = k /\ P1[r].st \in Owning /\ P1[r].nr = k => q = r
  /\ \A q \in C : P1[q].st = "sizing" => ~Held(D, P1[q].nr)
  /\ Held(D, k) => l.file = Image /\ l.use[1] # Connected
  /\ \A q \in Procs : q \in l.opens => P1[q].nr = k /\ P1[q].st \in Holding
  /\ l.use # <<>> /\ l.use[1] = Setup /\ ~l.auto =>
       \E q \in Procs : P1[q].nr = k /\ P1[q].st \in Owning

LEMMA CoreAt ==
  ASSUME NEW L, NEW D, NEW P, Core(L, D, P),
         NEW k \in Nrs, NEW l, NEW P1, NEW C, Fits(L, D, P, k, l, P1, C)
  PROVE  Core([L EXCEPT ![k] = l], D, P1)
<1> DEFINE L1 == [L EXCEPT ![k] = l]
<1>1. LoopsOK(L) /\ MapsOK(L, D) /\ ProcsOK(P) /\ Relied(L, P) /\ OwnersApart(P)
      /\ Fresh(D, P) /\ Opened(L, P) /\ Answered(L, P)
  BY DEF Core
<1>2. /\ LoopOK(l) /\ ProcsOK(P1) /\ C \subseteq Procs
      /\ \A q \in Procs \ C : P1[q] = P[q]
      /\ \A q \in C : /\ P[q].st \in Working => P[q].nr \in {k, -1}
                      /\ P1[q].st \in Working => P1[q].nr \in {k, -1}
  BY DEF Fits
<1>3. /\ DOMAIN L = Nrs /\ DOMAIN L1 = Nrs /\ L1[k] = l
      /\ \A n \in Nrs : n # k => L1[n] = L[n]
  BY <1>1 DEF LoopsOK
<1>4. -1 \notin Nrs
  BY TableAssumption DEF Nrs
<1>5. \A q \in C : P[q].st \in Working \/ P1[q].st \in Working =>
        \A n \in Nrs : n # k => (P[q].st \in Working => P[q].nr # n)
                                /\ (P1[q].st \in Working => P1[q].nr # n)
  BY <1>2, <1>4
<1>6. LoopsOK(L1)
  <2>1. l \in LoopRec
    BY <1>2, LoopFacts
  <2> QED
    BY <1>1, <1>2, <1>3, <2>1 DEF LoopsOK
<1> HIDE DEF L1
<1>7. MapsOK(L1, D)
  <2>1. ASSUME NEW m \in Parts, NEW d \in D[m], NEW t \in d.live \cup d.next
        PROVE  t.targets = TargetsOf(m) /\ BaseOK(L1, t.base)
    <3>1. t.targets = TargetsOf(m) /\ BaseOK(L, t.base)
      BY <1>1, <2>1 DEF MapsOK
    <3>2. t.base = k => l.file = Image /\ l.use[1] # Connected
      <4>1. t.base = k => Held(D, k)
        BY <2>1 DEF Held
      <4> QED
        BY <4>1 DEF Fits
    <3>3. t.base \in Nrs \cup {-1}
      <4>1. d \in MapRec
        BY <1>1, <2>1 DEF MapsOK
      <4> QED
        BY <2>1, <4>1 DEF MapRec, MapTables
    <3> QED
      BY <1>3, <3>1, <3>2, <3>3 DEF BaseOK
  <2> QED
    BY <1>1, <2>1 DEF MapsOK
<1>8. Relied(L1, P1)
  <2>1. ASSUME NEW q \in Procs, P1[q].st \in Working, P1[q].nr # -1
        PROVE  Relies(P1[q], L1[P1[q].nr], q)
    <3>1. CASE P1[q].nr = k
      <4>1. Relies(P1[q], l, q)
        BY <2>1, <3>1 DEF Fits
      <4> QED
        BY <1>3, <3>1, <4>1
    <3>2. CASE P1[q].nr # k
      <4>1. q \notin C
        BY <1>2, <2>1, <3>2
      <4>2. P1[q] = P[q]
        BY <1>2, <4>1
      <4>3. P1[q].nr \in Nrs
        BY <1>2, <2>1 DEF ProcsOK, ProcRec
      <4> QED
        BY <1>1, <1>3, <2>1, <3>2, <4>2, <4>3 DEF Relied
    <3> QED
      BY <3>1, <3>2
  <2> QED
    BY <2>1 DEF Relied
<1>9. OwnersApart(P1)
  <2>1. ASSUME NEW q \in Procs, NEW r \in Procs, P1[q].st \in Owning, P1[r].st \in Owning,
               P1[q].nr = P1[r].nr, P1[q].nr # -1
        PROVE  q = r
    <3>1. CASE P1[q].nr = k
      BY <2>1, <3>1 DEF Fits
    <3>2. CASE P1[q].nr # k
      <4>1. q \notin C /\ r \notin C
        BY <1>2, <2>1, <3>2 DEF Working
      <4> QED
        BY <1>1, <1>2, <2>1, <4>1 DEF OwnersApart
    <3> QED
      BY <3>1, <3>2
  <2> QED
    BY <2>1 DEF OwnersApart
<1>10. Fresh(D, P1)
  BY <1>1, <1>2 DEF Fresh, Fits
<1>11. Opened(L1, P1)
  <2>1. ASSUME NEW n \in Nrs, NEW q \in Procs, q \in L1[n].opens
        PROVE  P1[q].nr = n /\ P1[q].st \in Holding
    <3>1. CASE n = k
      BY <1>3, <2>1, <3>1 DEF Fits
    <3>2. CASE n # k
      <4>1. P[q].nr = n /\ P[q].st \in Holding
        BY <1>1, <1>3, <2>1, <3>2 DEF Opened
      <4>2. P[q].st \in Working
        BY <4>1 DEF Holding, Working, Owning
      <4>3. q \notin C
        BY <1>2, <1>4, <3>2, <4>1, <4>2
      <4> QED
        BY <1>2, <4>1, <4>3
    <3> QED
      BY <3>1, <3>2
  <2> QED
    BY <2>1 DEF Opened
<1>12. Answered(L1, P1)
  <2>1. ASSUME NEW n \in Nrs, L1[n].use # <<>>, L1[n].use[1] = Setup, ~L1[n].auto
        PROVE  \E q \in Procs : P1[q].nr = n /\ P1[q].st \in Owning
    <3>1. CASE n = k
      BY <1>3, <2>1, <3>1 DEF Fits
    <3>2. CASE n # k
      <4>1. PICK q \in Procs : P[q].nr = n /\ P[q].st \in Owning
        BY <1>1, <1>3, <2>1, <3>2 DEF Answered
      <4>2. q \notin C
        BY <1>2, <1>4, <3>2, <4>1 DEF Working
      <4> QED
        BY <1>2, <4>1, <4>2
    <3> QED
      BY <3>1, <3>2
  <2> QED
    BY <2>1 DEF Answered
<1>13. ProcsOK(P1)
  BY <1>2
<1> QED
  BY <1>6, <1>7, <1>8, <1>9, <1>10, <1>11, <1>12, <1>13 DEF Core, L1

\* A command that leaves the devices alone: it was at none and is at none, or
\* goes on answering for the same one, or starts or stops mapping the image
\* itself.
Quiet(r, s) ==
  \/ r.st \notin Working /\ s.st \notin Working
  \/ /\ r.st \in Owning \ {"sizing"} /\ s.st \in Owning \ {"sizing"}
     /\ s.nr = r.nr /\ s.part = r.part
  \/ r.st \notin Working /\ s.st \in Owning \ {"sizing"} /\ s.nr = -1
  \/ r.st \in Owning /\ r.nr = -1 /\ s.st \notin Working

LEMMA QuietStep ==
  ASSUME NEW L, NEW D, NEW P, Core(L, D, P), NEW p \in Procs,
         NEW s, ProcLocal(s), Quiet(P[p], s)
  PROVE  Core(L, D, [P EXCEPT ![p] = s])
<1> DEFINE P1 == [P EXCEPT ![p] = s]
<1>1. LoopsOK(L) /\ MapsOK(L, D) /\ ProcsOK(P) /\ Relied(L, P) /\ OwnersApart(P)
      /\ Fresh(D, P) /\ Opened(L, P) /\ Answered(L, P)
  BY DEF Core
<1>2. s \in ProcRec
  BY DEF ProcLocal
<1>3. ProcsOK(P1) /\ P1[p] = s /\ \A q \in Procs : q # p => P1[q] = P[q]
  BY <1>1, <1>2 DEF ProcsOK
<1>4. -1 \notin Nrs
  BY TableAssumption DEF Nrs
<1> HIDE DEF P1
<1>5. Relied(L, P1)
  <2>1. ASSUME s.st \in Working, s.nr # -1
        PROVE  Relies(s, L[s.nr], p)
    <3>1. /\ P[p].st \in Owning \ {"sizing"} /\ s.st \in Owning \ {"sizing"}
          /\ s.nr = P[p].nr /\ s.part = P[p].part
      BY <2>1 DEF Quiet
    <3>2. Relies(P[p], L[s.nr], p)
      BY <1>1, <2>1, <3>1 DEF Relied, Working
    <3> QED
      BY <3>1, <3>2 DEF Relies, Owning, Holding
  <2> QED
    BY <1>1, <1>3, <2>1 DEF Relied
<1>6. OwnersApart(P1)
  <2>1. s.st \in Owning /\ s.nr # -1 => P[p].st \in Owning /\ s.nr = P[p].nr
    BY DEF Quiet, Working
  <2> QED
    BY <1>1, <1>3, <2>1 DEF OwnersApart
<1>7. Fresh(D, P1)
  <2>1. s.st # "sizing"
    BY DEF Quiet, Working, Owning
  <2> QED
    BY <1>1, <1>3, <2>1 DEF Fresh
<1>8. Opened(L, P1)
  <2>1. ASSUME NEW n \in Nrs PROVE p \notin L[n].opens
    <3>1. P[p].st \in Holding => P[p].nr = -1
      BY DEF Quiet, Holding, Working, Owning
    <3> QED
      BY <1>1, <1>4, <3>1 DEF Opened
  <2> QED
    BY <1>1, <1>3, <2>1 DEF Opened
<1>9. Answered(L, P1)
  <2>1. \A n \in Nrs : P[p].nr = n /\ P[p].st \in Owning => s.nr = n /\ s.st \in Owning
    BY <1>4 DEF Quiet, Working
  <2> QED
    BY <1>1, <1>3, <2>1 DEF Answered
<1> QED
  BY <1>1, <1>3, <1>5, <1>6, <1>7, <1>8, <1>9 DEF Core, P1

\* The device-mapper tables change.
LEMMA MapStep ==
  ASSUME NEW L, NEW D, NEW P, Core(L, D, P), NEW D1, MapsOK(L, D1), Fresh(D1, P)
  PROVE  Core(L, D1, P)
BY DEF Core

\* A detached device goes when nothing holds it any more: nobody relied on it.
LEMMA SettleStep ==
  ASSUME NEW L, NEW D, NEW P, Core(L, D, P)
  PROVE  Core(Settle(L, D), D, P) /\ Settled(Settle(L, D), D)
<1> DEFINE L1 == Settle(L, D)
           Due(n) == L[n].auto /\ L[n].opens = {} /\ ~Held(D, n)
<1>1. LoopsOK(L) /\ MapsOK(L, D) /\ ProcsOK(P) /\ Relied(L, P) /\ OwnersApart(P)
      /\ Fresh(D, P) /\ Opened(L, P) /\ Answered(L, P)
  BY DEF Core
<1>2. /\ \A n \in Nrs : Due(n) => L1[n] = Unbound
      /\ \A n \in Nrs : ~Due(n) => L1[n] = L[n]
      /\ DOMAIN L1 = Nrs
  BY DEF Settle
<1>3. LoopOK(Unbound) /\ Unbound \in LoopRec
  BY UnboundOK, LoopFacts
<1>4. /\ Unbound.file = NoFile /\ Unbound.opens = {} /\ Unbound.use = <<>>
      /\ Unbound.auto = FALSE
  BY DEF Unbound
<1>5. LoopsOK(L1)
  <2>1. L1 = [n \in Nrs |-> L1[n]]
    BY DEF Settle
  <2>2. \A n \in Nrs : L1[n] \in LoopRec /\ LoopOK(L1[n])
    <3>1. \A n \in Nrs : L[n] \in LoopRec /\ LoopOK(L[n])
      BY <1>1 DEF LoopsOK
    <3> HIDE DEF L1, Due
    <3> QED
      BY <1>2, <1>3, <3>1
  <2> HIDE DEF L1
  <2> QED
    BY <2>1, <2>2 DEF LoopsOK
<1> HIDE DEF L1
<1>6. MapsOK(L1, D)
  <2>1. ASSUME NEW m \in Parts, NEW d \in D[m], NEW t \in d.live \cup d.next
        PROVE  t.targets = TargetsOf(m) /\ BaseOK(L1, t.base)
    <3>1. t.targets = TargetsOf(m) /\ BaseOK(L, t.base)
      BY <1>1, <2>1 DEF MapsOK
    <3>2. Held(D, t.base)
      BY <2>1 DEF Held
    <3>3. t.base \in Nrs \cup {-1}
      <4>1. d \in MapRec
        BY <1>1, <2>1 DEF MapsOK
      <4> QED
        BY <2>1, <4>1 DEF MapRec, MapTables
    <3> QED
      BY <1>2, <3>1, <3>2, <3>3 DEF BaseOK
  <2> QED
    BY <1>1, <2>1 DEF MapsOK
<1>7. Relied(L1, P)
  <2>1. ASSUME NEW q \in Procs, P[q].st \in Working, P[q].nr # -1
        PROVE  Relies(P[q], L1[P[q].nr], q)
    <3>1. Relies(P[q], L[P[q].nr], q)
      BY <1>1, <2>1 DEF Relied
    <3>2. P[q].nr \in Nrs
      BY <1>1, <2>1 DEF ProcsOK, ProcRec
    <3>3. ~Due(P[q].nr)
      BY <2>1, <3>1 DEF Relies, Working, Holding
    <3> QED
      BY <1>2, <3>1, <3>2, <3>3
  <2> QED
    BY <2>1 DEF Relied
<1>8. Opened(L1, P)
  BY <1>1, <1>2, <1>4 DEF Opened
<1>9. Answered(L1, P)
  BY <1>1, <1>2, <1>4 DEF Answered
<1>10. Settled(L1, D)
  BY <1>2, <1>4 DEF Settled
<1> QED
  BY <1>1, <1>5, <1>6, <1>7, <1>8, <1>9, <1>10 DEF Core, L1

----------------------------------------------------------------------------
\* What the system calls do to one device.

\* Opened, closed or detached, a device still shows what it showed.
LEMMA KeptInUse ==
  ASSUME NEW l, LoopOK(l), l.file # NoFile, NEW m \in LoopRec,
         m.file = l.file, m.at = l.at, m.len = l.len, m.use = l.use
  PROVE  LoopOK(m)
BY DEF LoopOK

\* A device that shows the whole image is given to another use.
LEMMA OtherUse ==
  ASSUME NEW l, LoopOK(l), l.file = Image, l.use[1] # Connected,
         NEW u \in Uses, u # <<>>, u[1] # Connected, u[1] = BadType => ~Mappable(u[2]),
         NEW m, m = [l EXCEPT !.use = u]
  PROVE  LoopOK(m) /\ m.file = Image /\ m.auto = l.auto /\ m.opens = l.opens /\ m.use = u
<1>1. l \in LoopRec
  BY LoopFacts
<1>2. /\ m.file = l.file /\ m.at = l.at /\ m.len = l.len
      /\ m.auto = l.auto /\ m.opens = l.opens /\ m.use = u /\ m \in LoopRec
  BY <1>1 DEF LoopRec
<1>3. m.at = 0 /\ m.len = 0 /\ m.file = Image /\ Image # NoFile
  BY <1>2 DEF LoopOK, Image, NoFile
<1> QED
  BY <1>2, <1>3 DEF LoopOK

\* open, close and LOOP_CLR_FD, with the close behind it, of one device.
LEMMA OpenCall ==
  ASSUME NEW L \in [Nrs -> LoopRec], NEW k \in Nrs, LoopOK(L[k]), L[k].file # NoFile,
         NEW p \in Procs \cup {User}
  PROVE  \E l : /\ OpenedBy(L, k, p) = [L EXCEPT ![k] = l]
                /\ LoopOK(l) /\ l.file = L[k].file /\ l.use = L[k].use
                /\ l.auto = L[k].auto /\ l.opens = L[k].opens \cup {p}
<1> DEFINE old == L[k]
           o == old.opens \cup {p}
           a == old.auto
           l == [old EXCEPT !.auto = a, !.opens = o]
<1>1. /\ old \in LoopRec /\ LoopOK(old) /\ old.file # NoFile /\ a \in BOOLEAN
      /\ o \in SUBSET (Procs \cup {User})
  BY LoopFacts
<1>2. OpenedBy(L, k, p) = [L EXCEPT ![k] = l]
  <2>1. OpenedBy(L, k, p) = [L EXCEPT ![k] = [old EXCEPT !.opens = o]]
    BY DEF OpenedBy
  <2> HIDE DEF old, o
  <2>2. [old EXCEPT !.opens = o] = l
    BY <1>1 DEF LoopRec
  <2> HIDE DEF l
  <2> QED
    BY <2>1, <2>2
<1>3. LoopOK(l) /\ l.file = old.file /\ l.auto = a /\ l.opens = o /\ l.use = old.use
  <2> HIDE DEF old, o, a
  <2>1. /\ l \in LoopRec /\ l.file = old.file /\ l.at = old.at /\ l.len = old.len
        /\ l.auto = a /\ l.opens = o /\ l.use = old.use
    BY <1>1 DEF LoopRec
  <2> HIDE DEF l
  <2> QED
    BY Zenon, <1>1, <2>1, KeptInUse
<1> HIDE DEF l
<1> QED
  BY Zenon, <1>2, <1>3 DEF a, old, o

LEMMA CloseCall ==
  ASSUME NEW L \in [Nrs -> LoopRec], NEW k \in Nrs, LoopOK(L[k]), L[k].file # NoFile,
         NEW p \in Procs \cup {User}
  PROVE  \E l : /\ ClosedBy(L, k, p) = [L EXCEPT ![k] = l]
                /\ LoopOK(l) /\ l.file = L[k].file /\ l.use = L[k].use
                /\ l.auto = L[k].auto /\ l.opens = L[k].opens \ {p}
<1> DEFINE old == L[k]
           o == old.opens \ {p}
           a == old.auto
           l == [old EXCEPT !.auto = a, !.opens = o]
<1>1. /\ old \in LoopRec /\ LoopOK(old) /\ old.file # NoFile /\ a \in BOOLEAN
      /\ o \in SUBSET (Procs \cup {User})
  BY LoopFacts
<1>2. ClosedBy(L, k, p) = [L EXCEPT ![k] = l]
  <2>1. ClosedBy(L, k, p) = [L EXCEPT ![k] = [old EXCEPT !.opens = o]]
    BY DEF ClosedBy
  <2> HIDE DEF old, o
  <2>2. [old EXCEPT !.opens = o] = l
    BY <1>1 DEF LoopRec
  <2> HIDE DEF l
  <2> QED
    BY <2>1, <2>2
<1>3. LoopOK(l) /\ l.file = old.file /\ l.auto = a /\ l.opens = o /\ l.use = old.use
  <2> HIDE DEF old, o, a
  <2>1. /\ l \in LoopRec /\ l.file = old.file /\ l.at = old.at /\ l.len = old.len
        /\ l.auto = a /\ l.opens = o /\ l.use = old.use
    BY <1>1 DEF LoopRec
  <2> HIDE DEF l
  <2> QED
    BY Zenon, <1>1, <2>1, KeptInUse
<1> HIDE DEF l
<1> QED
  BY Zenon, <1>2, <1>3 DEF a, old, o

LEMMA ClrFdCall ==
  ASSUME NEW L \in [Nrs -> LoopRec], NEW k \in Nrs, LoopOK(L[k]), L[k].file # NoFile,
         NEW p \in Procs \cup {User}
  PROVE  \E l : /\ ClrFd(L, k, p) = [L EXCEPT ![k] = l]
                /\ LoopOK(l) /\ l.file = L[k].file /\ l.use = L[k].use
                /\ l.auto /\ l.opens = L[k].opens \ {p}
<1> DEFINE old == L[k]
           o == old.opens \ {p}
           a == old.file # NoFile
           l == [old EXCEPT !.auto = a, !.opens = o]
<1>1. /\ old \in LoopRec /\ LoopOK(old) /\ old.file # NoFile /\ a \in BOOLEAN
      /\ o \in SUBSET (Procs \cup {User})
  BY LoopFacts
<1>2. ClrFd(L, k, p) = [L EXCEPT ![k] = l]
  BY DEF ClrFd
<1>3. LoopOK(l) /\ l.file = old.file /\ l.auto = a /\ l.opens = o /\ l.use = old.use
  <2> HIDE DEF old, o, a
  <2>1. /\ l \in LoopRec /\ l.file = old.file /\ l.at = old.at /\ l.len = old.len
        /\ l.auto = a /\ l.opens = o /\ l.use = old.use
    BY <1>1 DEF LoopRec
  <2> HIDE DEF l
  <2> QED
    BY Zenon, <1>1, <2>1, KeptInUse
<1>4. a
  OBVIOUS
<1> HIDE DEF l, a
<1> QED
  BY Zenon, <1>2, <1>3, <1>4 DEF old, o

\* What is held by a device-mapper table shows the whole image.
LEMMA HeldIsBase ==
  ASSUME NEW L, NEW D, MapsOK(L, D), NEW n \in Nrs, Held(D, n)
  PROVE  L[n].file = Image /\ L[n].use[1] # Connected
<1>1. PICK m \in Parts : \E d \in D[m] : \E t \in d.live \cup d.next : t.base = n
  BY DEF Held
<1>2. BaseOK(L, n)
  BY <1>1 DEF MapsOK
<1> QED
  BY <1>2, TableAssumption DEF BaseOK, Nrs

\* What a command that answers for device k may count on.
LEMMA OwnerFacts ==
  ASSUME NEW L, NEW D, NEW P, Core(L, D, P), NEW p \in Procs,
         P[p].st \in Owning, P[p].nr # -1
  PROVE  /\ P[p].nr \in Nrs /\ P[p].nr \in Nodes /\ P[p].part \in Parts
         /\ LoopOK(L[P[p].nr]) /\ L[P[p].nr].file = Image /\ ~L[P[p].nr].auto
         /\ L[P[p].nr].use = <<Setup>> /\ L[P[p].nr].use[1] = Setup
         /\ L[P[p].nr].use[1] # Connected
         /\ \A q \in Procs : q # p => ~(P[q].st \in Working /\ P[q].nr = P[p].nr)
<1>1. LoopsOK(L) /\ ProcsOK(P) /\ Relied(L, P) /\ OwnersApart(P)
  BY DEF Core
<1>2. P[p].nr \in Nrs /\ P[p].nr \in Nodes /\ P[p].part \in Parts
  BY <1>1 DEF ProcsOK, ProcLocal, ProcRec, Owning
<1>3. /\ L[P[p].nr].file = Image /\ ~L[P[p].nr].auto
      /\ L[P[p].nr].use = <<Setup>>
  BY <1>1 DEF Relied, Relies, Working
<1>4. L[P[p].nr].use[1] = Setup /\ L[P[p].nr].use[1] # Connected
  BY <1>3 DEF Setup, Connected
<1>5. ASSUME NEW q \in Procs, q # p, P[q].st \in Working, P[q].nr = P[p].nr
      PROVE  FALSE
  <2>1. CASE P[q].st \in Owning
    BY <1>1, <1>5, <2>1 DEF OwnersApart
  <2>2. CASE P[q].st = "clearing"
    <3>1. L[P[p].nr].use[1] = Connected
      BY <1>1, <1>5, <2>2 DEF Relied, Relies
    <3> QED
      BY <1>4, <3>1
  <2> QED
    BY <1>5, <2>1, <2>2 DEF Working
<1> QED
  BY <1>1, <1>2, <1>3, <1>4, <1>5 DEF LoopsOK

\* Fits, for one command.
CommandFits(L, D, P, k, l, p, r) ==
  /\ LoopOK(l) /\ ProcLocal(r)
  /\ P[p].st \in Working => P[p].nr \in {k, -1}
  /\ r.st \in Working => r.nr \in {k, -1}
  /\ \A q \in Procs \ {p} : P[q].st \in Working /\ P[q].nr = k => Relies(P[q], l, q)
  /\ r.st \in Working /\ r.nr = k => Relies(r, l, p)
  /\ r.st \in Owning /\ r.nr = k =>
       \A q \in Procs \ {p} : ~(P[q].st \in Owning /\ P[q].nr = k)
  /\ r.st = "sizing" => ~Held(D, r.nr)
  /\ Held(D, k) => l.file = Image /\ l.use[1] # Connected
  /\ \A q \in Procs \ {p} : q \in l.opens => q \in L[k].opens
  /\ p \in l.opens => r.nr = k /\ r.st \in Holding
  /\ l.use # <<>> /\ l.use[1] = Setup /\ ~l.auto =>
       \/ r.nr = k /\ r.st \in Owning
       \/ \E q \in Procs \ {p} : P[q].nr = k /\ P[q].st \in Owning

LEMMA CommandAt ==
  ASSUME NEW L, NEW D, NEW P, Core(L, D, P), NEW k \in Nrs, NEW l,
         NEW p \in Procs, NEW r, CommandFits(L, D, P, k, l, p, r)
  PROVE  Core([L EXCEPT ![k] = l], D, [P EXCEPT ![p] = r])
<1> DEFINE P1 == [P EXCEPT ![p] = r]
<1>1. ProcsOK(P) /\ OwnersApart(P) /\ Fresh(D, P) /\ Opened(L, P)
  BY DEF Core
<1>2. /\ LoopOK(l) /\ ProcLocal(r) /\ r \in ProcRec
      /\ P[p].st \in Working => P[p].nr \in {k, -1}
      /\ r.st \in Working => r.nr \in {k, -1}
  BY DEF CommandFits, ProcLocal
<1>3. P1[p] = r /\ \A q \in Procs : q # p => P1[q] = P[q]
  BY <1>1 DEF ProcsOK
<1>4. ProcsOK(P1)
  BY <1>1, <1>2 DEF ProcsOK
<1>5. k # -1
  BY TableAssumption DEF Nrs
<1> HIDE DEF P1
<1>6. \A q \in Procs : P1[q].st \in Working /\ P1[q].nr = k => Relies(P1[q], l, q)
  BY <1>3 DEF CommandFits
<1>7. ASSUME NEW q \in Procs, NEW s \in Procs, P1[q].st \in Owning, P1[q].nr = k,
             P1[s].st \in Owning, P1[s].nr = k
      PROVE  q = s
  <2>1. CASE q # p /\ s # p
    BY <1>1, <1>3, <1>5, <1>7, <2>1 DEF OwnersApart
  <2>2. CASE q = p \/ s = p
    BY <1>3, <1>7, <2>2 DEF CommandFits
  <2> QED
    BY <2>1, <2>2
<1>8. \A q \in Procs : q \in l.opens => P1[q].nr = k /\ P1[q].st \in Holding
  BY <1>1, <1>3 DEF CommandFits, Opened
<1>9. l.use # <<>> /\ l.use[1] = Setup /\ ~l.auto =>
        \E q \in Procs : P1[q].nr = k /\ P1[q].st \in Owning
  BY <1>3 DEF CommandFits
<1>10. /\ Held(D, k) => l.file = Image /\ l.use[1] # Connected
       /\ P1[p].st = "sizing" => ~Held(D, P1[p].nr)
  BY <1>3 DEF CommandFits
<1>11. Fits(L, D, P, k, l, P1, {p})
  BY <1>2, <1>3, <1>4, <1>6, <1>7, <1>8, <1>9, <1>10 DEF Fits
<1> QED
  BY <1>11, CoreAt DEF P1

\* A command gives up the device it answers for, or hands it over.
LEMMA OwnerLeaves ==
  ASSUME NEW L, NEW D, NEW P, Core(L, D, P), NEW p \in Procs,
         P[p].st \in Owning, NEW k \in Nrs, P[p].nr = k,
         NEW l, LoopOK(l), l.file = Image, l.opens = L[k].opens \ {p},
         l.use[1] = Setup => l.auto,
         l.use[1] = Connected => ~Held(D, k)
  PROVE  Core([L EXCEPT ![k] = l], D, [P EXCEPT ![p] = Idle])
<1>1. k # -1
  BY TableAssumption DEF Nrs
<1>2. \A q \in Procs : q # p => ~(P[q].st \in Working /\ P[q].nr = k)
  BY <1>1, OwnerFacts
<1>3. ProcLocal(Idle) /\ Idle.st = "idle"
  BY DEF Idle, ProcLocal, ProcRec, Owning
<1>4. Idle.st \notin Working /\ Idle.st # "sizing" /\ Idle.st \notin Owning
  BY <1>3 DEF Working, Owning
<1>5. CommandFits(L, D, P, k, l, p, Idle)
  BY <1>2, <1>3, <1>4 DEF CommandFits, Working
<1> QED
  BY <1>5, CommandAt

----------------------------------------------------------------------------
\* The steps.  Each keeps the invariant, and each step of a command leaves the
\* devices of others as they are.
OthersKept ==
  \A n \in Nrs : loop[n].file = Other => loop'[n].file = Other /\ loop'[n].auto = loop[n].auto

LEMMA InvFacts ==
  ASSUME IInv
  PROVE  /\ Core(loop, dm, proc) /\ Settled(loop, dm)
         /\ loop \in [Nrs -> LoopRec] /\ \A n \in Nrs : LoopOK(loop[n])
         /\ MapsOK(loop, dm) /\ dm \in [Parts -> SUBSET MapRec]
         /\ proc \in [Procs -> ProcRec] /\ \A p \in Procs : ProcLocal(proc[p])
         /\ -1 \notin Nrs
<1>1. -1 \notin Nrs
  BY TableAssumption DEF Nrs
<1> QED
  BY <1>1 DEF IInv, Core, LoopsOK, ProcsOK, MapsOK

\* A device of somebody else is not waiting to be detached by a command.
LEMMA OthersAreKept ==
  ASSUME IInv, NEW L, \A n \in Nrs : loop[n].file = Other => L[n] = loop[n],
         NEW D, loop' = L \/ loop' = Settle(L, D)
  PROVE  OthersKept
<1>1. ASSUME NEW n \in Nrs, loop[n].file = Other
      PROVE  ~(loop[n].auto /\ loop[n].opens = {})
  <2>1. ~Held(dm, n)
    BY <1>1, InvFacts, HeldIsBase DEF Image, Other
  <2> QED
    BY <1>1, <2>1, InvFacts DEF Settled
<1>2. CASE loop' = L
  BY <1>2 DEF OthersKept
<1>3. CASE loop' = Settle(L, D)
  <2>1. ASSUME NEW n \in Nrs, loop[n].file = Other
        PROVE  loop'[n] = loop[n]
    BY <1>1, <1>3, <2>1 DEF Settle
  <2> QED
    BY <2>1 DEF OthersKept
<1> QED
  BY <1>2, <1>3

LEMMA QuietAction ==
  ASSUME IInv, NEW p \in Procs, NEW r, ProcLocal(r), Quiet(proc[p], r),
         proc' = [proc EXCEPT ![p] = r], loop' = loop, dm' = dm
  PROVE  IInv' /\ OthersKept
<1>1. Core(loop, dm, [proc EXCEPT ![p] = r])
  BY InvFacts, QuietStep
<1>2. IInv'
  BY <1>1, InvFacts DEF IInv
<1>3. OthersKept
  BY DEF OthersKept
<1> QED
  BY <1>2, <1>3

\* What the kernel does after a command's step.
LEMMA SettledAction ==
  ASSUME IInv, NEW L, Core(L, dm', proc'), loop' = Settle(L, dm'),
         \A n \in Nrs : loop[n].file = Other => L[n] = loop[n]
  PROVE  IInv' /\ OthersKept
<1>1. Core(Settle(L, dm'), dm', proc') /\ Settled(Settle(L, dm'), dm')
  BY SettleStep
<1>2. IInv'
  BY <1>1 DEF IInv
<1> QED
  BY <1>2, OthersAreKept

\* A device of the image changes, and nothing is due to be detached by that.
LEMMA UnsettledAction ==
  ASSUME IInv, NEW k \in Nrs, NEW l, loop[k].file # Other,
         Core([loop EXCEPT ![k] = l], dm, proc'), loop' = [loop EXCEPT ![k] = l], dm' = dm,
         l.auto /\ l.opens = {} => Held(dm, k)
  PROVE  IInv' /\ OthersKept
<1>1. \A n \in Nrs : loop'[n] = IF n = k THEN l ELSE loop[n]
  BY InvFacts
<1>2. Settled(loop', dm')
  BY <1>1, InvFacts DEF Settled
<1>3. IInv'
  BY <1>2 DEF IInv
<1>4. OthersKept
  BY <1>1 DEF OthersKept
<1> QED
  BY <1>3, <1>4

\* A command without a device, and one that has become idle.
LEMMA IdleLocal ==
  /\ ProcLocal(Idle) /\ Idle.st = "idle"
  /\ Idle.st \notin Working /\ Idle.st \notin Owning
<1>1. ProcLocal(Idle) /\ Idle.st = "idle"
  BY DEF Idle, ProcLocal, ProcRec, Owning
<1> QED
  BY <1>1 DEF Working, Owning

LEMMA QuietEnd ==
  ASSUME IInv, NEW p \in Procs, Done(p), loop' = loop, dm' = dm,
         proc[p].st \in Working => proc[p].st \in Owning /\ proc[p].nr = -1
  PROVE  IInv' /\ OthersKept
<1>1. Quiet(proc[p], Idle)
  BY IdleLocal DEF Quiet
<1> QED
  BY <1>1, IdleLocal, QuietAction DEF Done

LEMMA BeginSound ==
  ASSUME IInv, NEW p \in Procs, NEW n \in Parts,
         StartConnect(p, n) \/ StartDisconnect(p, n) \/ StartMap(p, n)
  PROVE  IInv' /\ OthersKept
<1>1. proc[p].st \notin Working
  BY DEF StartConnect, StartDisconnect, StartMap, At, Working, Owning
<1>2. CASE StartConnect(p, n)
  <2> DEFINE r == [st |-> "picking", cmd |-> "connect", part |-> n, nr |-> -1]
  <2>1. ProcLocal(r) /\ r.st \notin Working
    BY <1>2 DEF StartConnect, ProcLocal, ProcRec, Working, Owning
  <2>2. Quiet(proc[p], r)
    BY <1>1, <2>1 DEF Quiet
  <2>3. proc' = [proc EXCEPT ![p] = r] /\ loop' = loop /\ dm' = dm
    BY <1>2 DEF StartConnect
  <2> QED
    BY <2>1, <2>2, <2>3, QuietAction
<1>3. CASE StartDisconnect(p, n)
  <2> DEFINE r == [st |-> "scanning", cmd |-> "disconnect", part |-> n, nr |-> 0]
  <2>1. 0 \in Nrs
    BY TableAssumption DEF Nrs
  <2>2. ProcLocal(r) /\ r.st \notin Working
    BY <1>3, <2>1 DEF StartDisconnect, ProcLocal, ProcRec, Working, Owning
  <2>3. Quiet(proc[p], r)
    BY <1>1, <2>2 DEF Quiet
  <2>4. proc' = [proc EXCEPT ![p] = r] /\ loop' = loop /\ dm' = dm
    BY <1>3 DEF StartDisconnect
  <2> QED
    BY <2>2, <2>3, <2>4, QuietAction
<1>4. CASE StartMap(p, n)
  <2> DEFINE r == [st |-> IF BlockImage THEN "opening" ELSE "picking",
                   cmd |-> "map", part |-> n, nr |-> -1]
  <2>1. proc' = [proc EXCEPT ![p] = r] /\ loop' = loop /\ dm' = dm
    BY <1>4 DEF StartMap
  <2>2. CASE BlockImage
    <3>1. r.st = "opening"
      BY <2>2
    <3>2. ProcLocal(r) /\ r.st \in Owning \ {"sizing"} /\ r.nr = -1
      BY <2>2, <3>1 DEF ProcLocal, ProcRec, Owning
    <3>3. Quiet(proc[p], r)
      BY <1>1, <3>2 DEF Quiet
    <3> QED
      BY <2>1, <3>2, <3>3, QuietAction
  <2>3. CASE ~BlockImage
    <3>1. r.st = "picking"
      BY <2>3
    <3>2. ProcLocal(r) /\ r.st \notin Working
      BY <3>1 DEF ProcLocal, ProcRec, Working, Owning
    <3>3. Quiet(proc[p], r)
      BY <1>1, <3>2 DEF Quiet
    <3> QED
      BY <2>1, <3>2, <3>3, QuietAction
  <2> QED
    BY <2>2, <2>3
<1> QED
  BY <1>2, <1>3, <1>4

LEMMA PickLoopSound ==
  ASSUME IInv, NEW p \in Procs, PickLoop(p)
  PROVE  IInv' /\ OthersKept
<1>1. /\ proc[p].st = "picking" /\ loop' = loop /\ dm' = dm
      /\ proc[p].st \notin Working /\ proc[p] \in ProcRec /\ ProcLocal(proc[p])
  BY InvFacts DEF PickLoop, At, Working, Owning
<1>2. CASE Done(p)
  BY <1>1, <1>2, QuietEnd
<1>3. CASE \E n \in Picked : proc' = [proc EXCEPT ![p].st = "binding", ![p].nr = n]
  <2>1. PICK n \in Picked : proc' = [proc EXCEPT ![p].st = "binding", ![p].nr = n]
    BY <1>3
  <2> DEFINE r == [proc[p] EXCEPT !.st = "binding", !.nr = n]
  <2>2. n \in Nrs
    BY TableAssumption DEF Picked, Hint, FreeNodes
  <2>3. r.st = "binding" /\ r.nr = n /\ r.part = proc[p].part /\ r.cmd = proc[p].cmd /\ r \in ProcRec
    BY <1>1, <2>2 DEF ProcRec
  <2>4. ProcLocal(r) /\ r.st \notin Working
    <3> HIDE DEF r
    <3> QED
      BY <1>1, <2>2, <2>3 DEF ProcLocal, Working, Owning
  <2>5. proc' = [proc EXCEPT ![p] = r]
    BY <2>1, InvFacts
  <2>6. Quiet(proc[p], r)
    BY <1>1, <2>4 DEF Quiet
  <2> QED
    BY <1>1, <2>4, <2>5, <2>6, QuietAction
<1> QED
  BY <1>2, <1>3 DEF PickLoop

LEMMA BindLoopSound ==
  ASSUME IInv, NEW p \in Procs, BindLoop(p)
  PROVE  IInv' /\ OthersKept
<1> DEFINE n == proc[p].nr
           part == proc[p].part
<1>1. /\ proc[p].st = "binding" /\ dm' = dm
      /\ proc[p].st \notin Working /\ proc[p] \in ProcRec /\ ProcLocal(proc[p])
      /\ n \in Nrs /\ part \in Parts
  BY InvFacts DEF BindLoop, At, Working, Owning, ProcLocal
<1>2. CASE ~(n \in Nodes /\ ~Bound(n))
  <2>1. Done(p) /\ loop' = loop
    BY <1>2 DEF BindLoop
  <2> QED
    BY <1>1, <2>1, QuietEnd
<1>3. CASE n \in Nodes /\ ~Bound(n)
  <2> DEFINE l == [Unbound EXCEPT !.file = Image, !.opens = {p}, !.use = <<Setup>>]
             r == [proc[p] EXCEPT !.st = "sizing"]
  <2>1. loop' = [loop EXCEPT ![n] = l] /\ proc' = [proc EXCEPT ![p] = r]
    BY <1>3, InvFacts DEF BindLoop, Goto
  <2>2. /\ r.st = "sizing" /\ r.nr = n /\ r.part = part /\ r.cmd = proc[p].cmd
        /\ r \in ProcRec
    BY <1>1 DEF ProcRec, Owning
  <2>3. /\ l.file = Image /\ l.opens = {p} /\ l.use = <<Setup>> /\ l.auto = FALSE
        /\ l.at = 0 /\ l.len = 0
    BY DEF Unbound
  <2>4. /\ l.use # <<>> /\ l.use[1] = Setup /\ l.use[1] # Connected
        /\ l.use[1] # BadType /\ l.use \in Uses
    <3>1. Setup \in Alone
      BY DEF Alone
    <3>2. <<Setup>> \in Uses /\ <<Setup>> # <<>> /\ <<Setup>>[1] = Setup /\ Setup \notin WithPart
      BY <3>1, AloneFacts
    <3> QED
      BY <2>3, <3>2 DEF WithPart
  <2>5. l \in LoopRec
    <3> DEFINE u == <<Setup>>
    <3>1. u \in Uses
      BY <2>3, <2>4
    <3>2. Unbound \in LoopRec
      BY UnboundOK, LoopFacts
    <3> HIDE DEF u
    <3> QED
      BY <3>1, <3>2 DEF LoopRec, u
  <2> HIDE DEF l, r
  <2>6. LoopOK(l)
    BY <2>3, <2>4, <2>5 DEF LoopOK, Image, NoFile
  <2>7. ProcLocal(r)
    <3>1. n # -1
      BY <1>1, InvFacts
    <3>2. proc[p].cmd = "map" \/ (proc[p].cmd = "connect" /\ Connectable(part))
      BY <1>1 DEF ProcLocal
    <3> QED
      BY <1>1, <1>3, <2>2, <3>1, <3>2 DEF ProcLocal
  <2>8. loop[n].file = NoFile /\ loop[n].opens = {}
    <3>1. loop[n].file = NoFile
      BY <1>3 DEF Bound
    <3>2. loop[n] = Unbound
      BY <1>1, <3>1, InvFacts, LoopFacts
    <3> QED
      BY <3>1, <3>2 DEF Unbound
  <2>9. \A q \in Procs : ~(proc[q].st \in Working /\ proc[q].nr = n)
    <3>1. ASSUME NEW q \in Procs, proc[q].st \in Working, proc[q].nr = n
          PROVE  FALSE
      <4>1. Relies(proc[q], loop[n], q)
        BY <1>1, <3>1, InvFacts DEF Core, Relied
      <4> QED
        BY <2>8, <3>1, <4>1 DEF Relies, Working, Image, NoFile
    <3> QED
      BY <3>1
  <2>10. ~Held(dm, n)
    BY <1>1, <2>8, InvFacts, HeldIsBase DEF Image, NoFile
  <2>11. Relies(r, l, p)
    BY <2>2, <2>3, <2>4 DEF Relies
  <2>12. r.st \in Owning /\ r.st \in Holding
    BY <2>2 DEF Owning, Holding
  <2>13. CommandFits(loop, dm, proc, n, l, p, r)
    BY <1>1, <2>2, <2>3, <2>4, <2>6, <2>7, <2>9, <2>10, <2>11, <2>12 DEF CommandFits, Working
  <2>14. Core([loop EXCEPT ![n] = l], dm, proc')
    BY <1>1, <2>1, <2>13, InvFacts, CommandAt
  <2> QED
    BY <1>1, <2>1, <2>3, <2>8, <2>14, UnsettledAction DEF NoFile, Other
<1> QED
  BY <1>2, <1>3

\* A command detaches the device it answers for.
LEMMA GiveBackSound ==
  ASSUME IInv, NEW p \in Procs, proc[p].st \in Owning, proc[p].nr \in Nrs,
         dm' = dm, proc' = [proc EXCEPT ![p] = Idle],
         loop' = Settle(ClrFd(loop, proc[p].nr, p), dm)
  PROVE  IInv' /\ OthersKept
<1> DEFINE k == proc[p].nr
<1>1. k # -1
  BY InvFacts
<1>2. LoopOK(loop[k]) /\ loop[k].file = Image /\ loop[k].use[1] # Connected
  BY <1>1, InvFacts, OwnerFacts
<1>3. PICK l : /\ ClrFd(loop, k, p) = [loop EXCEPT ![k] = l]
               /\ LoopOK(l) /\ l.file = loop[k].file /\ l.use = loop[k].use
               /\ l.auto /\ l.opens = loop[k].opens \ {p}
  <2>1. /\ loop[k].file # NoFile /\ k \in Nrs /\ p \in Procs \cup {User}
        /\ loop \in [Nrs -> LoopRec] /\ LoopOK(loop[k])
    BY <1>2, InvFacts DEF Image, NoFile
  <2> HIDE DEF k
  <2> QED
    BY <2>1, ClrFdCall
<1>4. Core([loop EXCEPT ![k] = l], dm, proc')
  BY <1>2, <1>3, InvFacts, OwnerLeaves
<1>5. \A n \in Nrs : loop[n].file = Other => [loop EXCEPT ![k] = l][n] = loop[n]
  BY <1>2, InvFacts DEF Image, Other
<1> QED
  BY <1>3, <1>4, <1>5, SettledAction

LEMMA SizeFailsSound ==
  ASSUME IInv, NEW p \in Procs, SizeFails(p)
  PROVE  IInv' /\ OthersKept
<1> DEFINE k == proc[p].nr
<1>1. /\ proc[p].st = "sizing" /\ dm' = dm /\ proc' = [proc EXCEPT ![p] = Idle]
      /\ loop' = Settle(ClrFd(loop, k, p), dm)
  BY DEF SizeFails, At, Done
<1>2. proc[p].st \in Owning
  BY <1>1 DEF Owning
<1>3. k \in Nrs
  BY <1>1, InvFacts, TableAssumption DEF ProcLocal
<1> QED
  BY <1>1, <1>2, <1>3, GiveBackSound


\* connect is done with its device, which shows the partition from now on; map
\* goes on without holding it open.
LEMMA SizeLoopSound ==
  ASSUME IInv, NEW p \in Procs, SizeLoop(p)
  PROVE  IInv' /\ OthersKept
<1> DEFINE k == proc[p].nr
           part == proc[p].part
           shown == [loop[k] EXCEPT !.at = Offset(part), !.len = Size(part),
                                    !.use = <<Connected, part>>]
<1>1. proc[p].st = "sizing" /\ dm' = dm
  BY DEF SizeLoop, At
<1>2. proc[p].st \in Owning
  BY <1>1 DEF Owning
<1>3. k \in Nrs /\ part \in Parts /\ proc[p] \in ProcRec /\ ProcLocal(proc[p]) /\ k # -1
  BY <1>1, InvFacts, TableAssumption DEF ProcLocal
<1>4. /\ LoopOK(loop[k]) /\ loop[k].file = Image /\ ~loop[k].auto
      /\ loop[k].use = <<Setup>> /\ loop[k].use[1] = Setup /\ loop[k].use[1] # Connected
      /\ \A q \in Procs : q # p => ~(proc[q].st \in Working /\ proc[q].nr = k)
  BY <1>2, <1>3, InvFacts, OwnerFacts
<1>5. ~Held(dm, k)
  BY <1>1, InvFacts DEF Core, Fresh
<1>6. ASSUME NEW l, loop' = Settle([loop EXCEPT ![k] = l], dm),
             Core([loop EXCEPT ![k] = l], dm, proc')
      PROVE  IInv' /\ OthersKept
  <2>1. \A n \in Nrs : loop[n].file = Other => [loop EXCEPT ![k] = l][n] = loop[n]
    BY <1>3, <1>4, InvFacts DEF Image, Other
  <2> HIDE DEF k
  <2> QED
    BY <1>1, <1>6, <2>1, SettledAction
<1>7. CASE /\ proc[p].cmd = "connect" /\ Done(p)
           /\ loop' = Settle(ClosedBy([loop EXCEPT ![k] = shown], k, p), dm)
  <2> DEFINE L == [loop EXCEPT ![k] = shown]
             u == <<Connected, part>>
  <2>1. Connectable(part) /\ Offset(part) \in Nat /\ Size(part) \in Nat
    <3>1. Connectable(part)
      BY <1>1, <1>3, <1>7 DEF ProcLocal
    <3> QED
      BY <1>3, <3>1, SizeOfOne DEF Connectable
  <2>2. /\ shown.file = Image /\ shown.at = Offset(part) /\ shown.len = Size(part)
        /\ shown.use = u /\ shown.opens = loop[k].opens /\ shown \in LoopRec
    <3>1. u \in Uses
      BY <1>3, WithPartFacts DEF WithPart
    <3>2. loop[k] \in LoopRec
      BY <1>3, InvFacts
    <3> HIDE DEF u, k
    <3> QED
      BY <1>4, <2>1, <3>1, <3>2 DEF LoopRec, u
  <2>3. u[1] = Connected /\ u[2] = part /\ u # <<>> /\ u[1] # BadType
    <3>1. Connected \in WithPart /\ Connected # BadType
      BY DEF WithPart, Connected, BadType
    <3> QED
      BY <1>3, <3>1, WithPartFacts
  <2> HIDE DEF shown, u
  <2>4. LoopOK(shown)
    BY <2>1, <2>2, <2>3 DEF LoopOK, Image, NoFile
  <2>5. L \in [Nrs -> LoopRec] /\ L[k] = shown
    BY <1>3, <2>2, InvFacts
  <2>6. PICK l : /\ ClosedBy(L, k, p) = [L EXCEPT ![k] = l]
                 /\ LoopOK(l) /\ l.file = L[k].file /\ l.use = L[k].use
                 /\ l.auto = L[k].auto /\ l.opens = L[k].opens \ {p}
    <3>1. LoopOK(L[k]) /\ L[k].file # NoFile /\ p \in Procs \cup {User}
      BY <2>2, <2>4, <2>5 DEF Image, NoFile
    <3> HIDE DEF L, k
    <3> QED
      BY <1>3, <2>5, <3>1, CloseCall
  <2>7. [L EXCEPT ![k] = l] = [loop EXCEPT ![k] = l]
    BY InvFacts
  <2>8. l.file = Image /\ l.use[1] = Connected /\ l.opens = loop[k].opens \ {p}
    BY <2>2, <2>3, <2>5, <2>6
  <2>9. l.use[1] # Setup
    BY <2>8 DEF Setup, Connected
  <2>10. Core([loop EXCEPT ![k] = l], dm, [proc EXCEPT ![p] = Idle])
    <3> HIDE DEF k
    <3> QED
      BY <1>2, <1>3, <1>5, <2>6, <2>8, <2>9, InvFacts, OwnerLeaves DEF k
  <2> QED
    BY <1>6, <1>7, <2>6, <2>7, <2>10 DEF Done
<1>8. CASE /\ proc[p].cmd = "map" /\ Goto(p, "opening")
           /\ loop' = Settle(ClosedBy([loop EXCEPT ![k] = loop[k]], k, p), dm)
  <2> DEFINE r == [proc[p] EXCEPT !.st = "opening"]
  <2>1. [loop EXCEPT ![k] = loop[k]] = loop
    BY <1>3, InvFacts
  <2>2. PICK l : /\ ClosedBy(loop, k, p) = [loop EXCEPT ![k] = l]
                 /\ LoopOK(l) /\ l.file = loop[k].file /\ l.use = loop[k].use
                 /\ l.auto = loop[k].auto /\ l.opens = loop[k].opens \ {p}
    <3>1. LoopOK(loop[k]) /\ loop[k].file # NoFile /\ p \in Procs \cup {User}
      BY <1>4 DEF Image, NoFile
    <3> HIDE DEF k
    <3> QED
      BY <1>3, <3>1, InvFacts, CloseCall
  <2>3. /\ r.st = "opening" /\ r.nr = k /\ r.part = part /\ r \in ProcRec
    BY <1>3 DEF ProcRec, Owning
  <2>4. proc' = [proc EXCEPT ![p] = r]
    BY <1>8, InvFacts DEF Goto
  <2> HIDE DEF r
  <2>5. ProcLocal(r)
    <3>1. k \in Nodes
      BY <1>1, <1>3 DEF ProcLocal
    <3> QED
      BY <1>3, <2>3, <3>1 DEF ProcLocal
  <2>6. r.st \in Owning /\ r.st \notin Holding /\ r.st # "sizing" /\ r.st # "clearing"
    BY <2>3 DEF Owning, Holding
  <2>7. Relies(r, l, p)
    BY <1>4, <2>2, <2>3, <2>6 DEF Relies
  <2>8. CommandFits(loop, dm, proc, k, l, p, r)
    BY <1>4, <1>5, <2>2, <2>3, <2>5, <2>6, <2>7 DEF CommandFits, Working
  <2>9. Core([loop EXCEPT ![k] = l], dm, proc')
    <3> HIDE DEF k
    <3> QED
      BY <1>3, <2>4, <2>8, InvFacts, CommandAt
  <2> QED
    BY <1>6, <1>8, <2>1, <2>2, <2>9
<1> QED
  BY <1>7, <1>8 DEF SizeLoop

\* disconnect.
LEMMA ScanLoopSound ==
  ASSUME IInv, NoneLikeWhole, NEW p \in Procs, ScanLoop(p)
  PROVE  IInv' /\ OthersKept
<1> DEFINE k == proc[p].nr
           part == proc[p].part
<1>1. /\ proc[p].st = "scanning" /\ dm' = dm /\ proc[p].st \notin Working
      /\ k \in Nrs /\ part \in Parts /\ proc[p] \in ProcRec /\ ProcLocal(proc[p])
      /\ LoopOK(loop[k]) /\ k # -1 /\ Disconnectable(part)
  BY InvFacts DEF ScanLoop, At, Working, Owning, ProcLocal
<1>2. CASE k \in Nodes /\ Shows(k, part)
  <2> DEFINE r == [proc[p] EXCEPT !.st = "clearing"]
  <2>1. /\ loop' = OpenedBy(loop, k, p)
        /\ proc' = [proc EXCEPT ![p] = r]
    BY <1>2, InvFacts DEF ScanLoop, Goto
  <2>2. loop[k].file = Image /\ loop[k].use[1] = Connected
    <3>1. loop[k].file = Image /\ loop[k].at = Offset(part) /\ loop[k].len = Size(part)
      BY <1>2 DEF Shows
    <3>2. Offset(part) # 0 \/ Size(part) # 0
      <4> HIDE DEF part
      <4> QED
        BY <1>1, SizeOfOne DEF Disconnectable, NoneLikeWhole
    <3>3. loop[k].at # 0 \/ loop[k].len # 0
      BY <3>1, <3>2
    <3> HIDE DEF k
    <3> QED
      BY <1>1, <3>1, <3>3 DEF LoopOK
  <2>3. PICK l : /\ OpenedBy(loop, k, p) = [loop EXCEPT ![k] = l]
                 /\ LoopOK(l) /\ l.file = loop[k].file /\ l.use = loop[k].use
                 /\ l.auto = loop[k].auto /\ l.opens = loop[k].opens \cup {p}
    <3>1. LoopOK(loop[k]) /\ loop[k].file # NoFile /\ p \in Procs \cup {User}
      BY <1>1, <2>2 DEF Image, NoFile
    <3> HIDE DEF k
    <3> QED
      BY <1>1, <3>1, InvFacts, OpenCall
  <2>4. /\ r.st = "clearing" /\ r.nr = k /\ r.part = part /\ r \in ProcRec
    BY <1>1 DEF ProcRec
  <2> HIDE DEF r
  <2>5. ProcLocal(r)
    BY <1>1, <1>2, <2>4 DEF ProcLocal, Owning
  <2>6. r.st \notin Owning /\ r.st \in Holding
    BY <2>4 DEF Owning, Holding
  <2>7. Relies(r, l, p)
    BY <2>2, <2>3, <2>4, <2>6 DEF Relies
  <2>8. ~Held(dm, k)
    BY <1>1, <2>2, InvFacts, HeldIsBase
  <2>9. ASSUME NEW q \in Procs \ {p}, proc[q].st \in Working, proc[q].nr = k
        PROVE  Relies(proc[q], l, q)
    <3>1. Relies(proc[q], loop[k], q)
      BY <1>1, <2>9, InvFacts DEF Core, Relied
    <3> QED
      BY <2>3, <3>1 DEF Relies
  <2>10. l.use[1] # Setup
    BY <2>2, <2>3 DEF Setup, Connected
  <2>11. CommandFits(loop, dm, proc, k, l, p, r)
    BY <1>1, <2>3, <2>4, <2>5, <2>6, <2>7, <2>8, <2>9, <2>10 DEF CommandFits
  <2>12. Core([loop EXCEPT ![k] = l], dm, proc')
    <3> HIDE DEF k
    <3> QED
      BY <1>1, <2>1, <2>11, InvFacts, CommandAt
  <2>13. loop[k].file # Other /\ l.opens # {} /\ loop' = [loop EXCEPT ![k] = l]
    BY <2>1, <2>2, <2>3 DEF Image, Other
  <2> HIDE DEF k
  <2> QED
    BY <1>1, <2>12, <2>13, UnsettledAction
<1>3. CASE ~(k \in Nodes /\ Shows(k, part))
  <2>1. loop' = loop
    BY <1>3 DEF ScanLoop
  <2>2. CASE k = LastLoop
    <3>1. Done(p)
      BY <1>3, <2>2 DEF ScanLoop
    <3> QED
      BY <1>1, <2>1, <3>1, QuietEnd
  <2>3. CASE k # LastLoop
    <3> DEFINE r == [proc[p] EXCEPT !.nr = k + 1]
    <3>1. proc' = [proc EXCEPT ![p] = r]
      BY <1>3, <2>3, InvFacts DEF ScanLoop
    <3>2. k + 1 \in Nrs
      BY <1>1, <2>3, TableAssumption DEF Nrs
    <3>3. r.st = "scanning" /\ r.nr = k + 1 /\ r.part = part /\ r \in ProcRec
      BY <1>1, <3>2 DEF ProcRec
    <3> HIDE DEF r
    <3>4. ProcLocal(r) /\ r.st \notin Working
      BY <1>1, <3>2, <3>3 DEF ProcLocal, Owning, Working
    <3>5. Quiet(proc[p], r)
      BY <1>1, <3>4 DEF Quiet
    <3> QED
      BY <1>1, <2>1, <3>1, <3>4, <3>5, QuietAction
  <2> QED
    BY <2>2, <2>3
<1> QED
  BY <1>2, <1>3

\* A command that holds a device of connect open leaves it.
LEMMA ClearerLeaves ==
  ASSUME IInv, NEW p \in Procs, proc[p].st = "clearing", dm' = dm,
         proc' = [proc EXCEPT ![p] = Idle],
         NEW l, LoopOK(l), l.file = Image, l.use = loop[proc[p].nr].use,
         l.opens = loop[proc[p].nr].opens \ {p},
         loop' = Settle([loop EXCEPT ![proc[p].nr] = l], dm)
  PROVE  IInv' /\ OthersKept
<1> DEFINE k == proc[p].nr
<1>1. k \in Nrs /\ k # -1 /\ proc[p].st \in Working
  BY InvFacts, TableAssumption DEF ProcLocal, Working
<1>2. loop[k].file = Image /\ loop[k].use[1] = Connected
  BY <1>1, InvFacts DEF Core, Relied, Relies
<1>3. ~Held(dm, k)
  BY <1>1, <1>2, InvFacts, HeldIsBase
<1>4. l.use[1] # Setup
  BY <1>2 DEF Setup, Connected
<1>5. ASSUME NEW q \in Procs \ {p}, proc[q].st \in Working, proc[q].nr = k
      PROVE  Relies(proc[q], l, q)
  <2>1. Relies(proc[q], loop[k], q)
    BY <1>1, <1>5, InvFacts DEF Core, Relied
  <2>2. proc[q].st \notin Owning
    BY <1>2, <2>1 DEF Relies, Setup, Connected
  <2> QED
    BY <1>2, <2>1, <2>2 DEF Relies
<1>6. CommandFits(loop, dm, proc, k, l, p, Idle)
  BY <1>1, <1>3, <1>4, <1>5, IdleLocal DEF CommandFits
<1>7. Core([loop EXCEPT ![k] = l], dm, proc')
  <2> HIDE DEF k
  <2> QED
    BY <1>1, <1>6, InvFacts, CommandAt
<1>8. \A n \in Nrs : loop[n].file = Other => [loop EXCEPT ![k] = l][n] = loop[n]
  BY <1>2, InvFacts DEF Image, Other
<1> QED
  BY <1>7, <1>8, SettledAction

LEMMA ClearLoopSound ==
  ASSUME IInv, NEW p \in Procs, ClearLoop(p)
  PROVE  IInv' /\ OthersKept
<1> DEFINE k == proc[p].nr
<1>1. /\ proc[p].st = "clearing" /\ dm' = dm /\ proc' = [proc EXCEPT ![p] = Idle]
      /\ loop' = Settle(ClrFd(loop, k, p), dm)
  BY DEF ClearLoop, At, Done
<1>2. k \in Nrs /\ k # -1 /\ LoopOK(loop[k])
  BY <1>1, InvFacts, TableAssumption DEF ProcLocal
<1>3. loop[k].file = Image
  BY <1>1, <1>2, InvFacts DEF Core, Relied, Relies, Working
<1>4. PICK l : /\ ClrFd(loop, k, p) = [loop EXCEPT ![k] = l]
               /\ LoopOK(l) /\ l.file = loop[k].file /\ l.use = loop[k].use
               /\ l.auto /\ l.opens = loop[k].opens \ {p}
  <2>1. loop[k].file # NoFile /\ p \in Procs \cup {User} /\ loop \in [Nrs -> LoopRec]
    BY <1>3, InvFacts DEF Image, NoFile
  <2> HIDE DEF k
  <2> QED
    BY <1>2, <2>1, ClrFdCall
<1> QED
  BY <1>1, <1>3, <1>4, ClearerLeaves

----------------------------------------------------------------------------
\* map and unmap.

\* Device-mapper tables go, or move from the inactive to the live one.
LEMMA MapsShrink ==
  ASSUME NEW L, NEW D, NEW P, Core(L, D, P), NEW D1 \in [Parts -> SUBSET MapRec],
         \A m \in Parts : \A c, d \in D1[m] : c = d,
         \A m \in Parts : \A c \in D1[m] : \E d \in D[m] :
           c.live \cup c.next \subseteq d.live \cup d.next
  PROVE  Core(L, D1, P)
<1>1. MapsOK(L, D) /\ Fresh(D, P)
  BY DEF Core
<1>2. MapsOK(L, D1)
  BY <1>1 DEF MapsOK
<1>3. \A n : Held(D1, n) => Held(D, n)
  <2>1. ASSUME NEW n, Held(D1, n) PROVE Held(D, n)
    <3>1. PICK m \in Parts : \E d \in D1[m] : \E t \in d.live \cup d.next : t.base = n
      BY <2>1 DEF Held
    <3>2. PICK c \in D1[m] : \E t \in c.live \cup c.next : t.base = n
      BY <3>1
    <3>3. PICK d \in D[m] : c.live \cup c.next \subseteq d.live \cup d.next
      BY <3>2
    <3> QED
      BY <3>2, <3>3 DEF Held
  <2> QED
    BY <2>1
<1>4. Fresh(D1, P)
  BY <1>1, <1>3 DEF Fresh
<1> QED
  BY <1>2, <1>4, MapStep

\* map goes on to its next call.
LEMMA GoesOnCore ==
  ASSUME IInv, NEW p \in Procs, proc[p].st \in Owning \ {"sizing"},
         NEW st \in Owning \ {"sizing"}, Goto(p, st), NEW D, Core(loop, D, proc)
  PROVE  Core(loop, D, proc')
<1> DEFINE r == [proc[p] EXCEPT !.st = st]
<1>1. proc[p] \in ProcRec /\ ProcLocal(proc[p])
  BY InvFacts
<1>2. r.st = st /\ r.nr = proc[p].nr /\ r.part = proc[p].part /\ r \in ProcRec
  BY <1>1 DEF ProcRec
<1>3. proc' = [proc EXCEPT ![p] = r]
  BY InvFacts DEF Goto
<1> HIDE DEF r
<1>4. ProcLocal(r)
  BY <1>1, <1>2 DEF ProcLocal, Owning
<1>5. Quiet(proc[p], r)
  BY <1>2 DEF Quiet
<1> QED
  BY <1>3, <1>4, <1>5, QuietStep

LEMMA GoesOn ==
  ASSUME IInv, NEW p \in Procs, proc[p].st \in Owning \ {"sizing"},
         NEW st \in Owning \ {"sizing"}, Goto(p, st), loop' = loop, dm' = dm
  PROVE  IInv' /\ OthersKept
<1>1. Core(loop, dm, proc')
  BY InvFacts, GoesOnCore
<1> QED
  BY <1>1, InvFacts DEF IInv, OthersKept

\* map ends and leaves its base bound.
LEMMA AbandonsSound ==
  ASSUME IInv, NEW p \in Procs, proc[p].st = "opening", dm' = dm,
         NEW u \in Uses, u # <<>>, u[1] \in {BadType, NoMapper},
         u[1] = BadType => ~Mappable(u[2]), Abandons(p, u)
  PROVE  IInv' /\ OthersKept
<1> DEFINE k == proc[p].nr
           left == [n \in Nrs |->
                      IF n = k THEN [loop[n] EXCEPT !.use = u] ELSE loop[n]]
<1>1. k \in Nrs \cup {-1} /\ Done(p) /\ loop' = left
  BY InvFacts DEF ProcRec, Abandons
<1>2. proc[p].st \in Owning /\ proc[p].st # "sizing" /\ proc[p].st \notin Holding
  BY DEF Owning, Holding
<1>3. CASE k = -1
  <2>1. loop' = loop
    BY <1>1, <1>3, InvFacts
  <2> QED
    BY <1>1, <1>2, <1>3, <2>1, QuietEnd
<1>4. CASE k \in Nrs
  <2>1. /\ LoopOK(loop[k]) /\ loop[k].file = Image /\ ~loop[k].auto
        /\ loop[k].use[1] # Connected
    BY <1>2, <1>4, InvFacts, OwnerFacts
  <2> DEFINE l == [loop[k] EXCEPT !.use = u]
  <2>2. u[1] # Setup /\ u[1] # Connected
    BY DEF BadType, NoMapper, Setup, Connected
  <2>3. /\ LoopOK(l) /\ l.file = Image /\ l.auto = loop[k].auto /\ l.opens = loop[k].opens
        /\ l.use = u
    <3> HIDE DEF k
    <3>1. l = [loop[k] EXCEPT !.use = u]
      OBVIOUS
    <3> HIDE DEF l
    <3> QED
      BY <2>1, <2>2, <3>1, OtherUse
  <2>4. loop' = [loop EXCEPT ![k] = l]
    BY <1>1, <1>4, InvFacts
  <2> HIDE DEF l
  <2>5. p \notin loop[k].opens
    BY <1>2, <1>4, InvFacts DEF Core, Opened
  <2>6. l.opens = loop[k].opens \ {p}
    BY <2>3, <2>5
  <2>7. Core([loop EXCEPT ![k] = l], dm, proc')
    BY <1>1, <1>2, <1>4, <2>2, <2>3, <2>6, InvFacts, OwnerLeaves DEF Done
  <2>8. loop[k].file # Other /\ ~l.auto
    BY <2>1, <2>3 DEF Image, Other
  <2> HIDE DEF k
  <2> QED
    BY <1>4, <2>4, <2>7, <2>8, UnsettledAction
<1> QED
  BY <1>1, <1>3, <1>4

LEMMA RefuseTypeSound ==
  ASSUME IInv, NEW p \in Procs, RefuseType(p)
  PROVE  IInv' /\ OthersKept
<1> DEFINE u == <<BadType, proc[p].part>>
<1>1. /\ proc[p].st = "opening" /\ dm' = dm /\ ~Mappable(proc[p].part) /\ Abandons(p, u)
      /\ proc[p].part \in Parts
  BY InvFacts DEF RefuseType, At, ProcLocal
<1>2. u \in Uses /\ u # <<>> /\ u[1] = BadType /\ u[2] = proc[p].part
  BY <1>1, WithPartFacts DEF WithPart
<1> HIDE DEF u
<1> QED
  BY <1>1, <1>2, AbandonsSound

LEMMA OpenDmSound ==
  ASSUME IInv, NEW p \in Procs, OpenDm(p)
  PROVE  IInv' /\ OthersKept
<1> DEFINE u == <<NoMapper>>
<1>1. proc[p].st = "opening" /\ dm' = dm
  BY DEF OpenDm, At
<1>2. CASE Goto(p, "creating") /\ loop' = loop
  BY <1>1, <1>2, GoesOn DEF Owning
<1>3. CASE Abandons(p, u)
  <2>1. u \in Uses /\ u # <<>> /\ u[1] = NoMapper
    BY AloneFacts DEF Alone
  <2>2. NoMapper # BadType
    BY DEF NoMapper, BadType
  <2> HIDE DEF u
  <2> QED
    BY <1>1, <1>3, <2>1, <2>2, AbandonsSound
<1> QED
  BY <1>1, <1>2, <1>3 DEF OpenDm

\* DM_DEV_CREATE.
LEMMA CreateDmSound ==
  ASSUME IInv, NEW p \in Procs, CreateDm(p)
  PROVE  IInv' /\ OthersKept
<1> DEFINE part == proc[p].part
           new == [live |-> {}, next |-> {}, busy |-> FALSE]
           D == [dm EXCEPT ![part] = {new}]
<1>1. /\ proc[p].st = "creating" /\ loop' = loop /\ part \in Parts
  BY InvFacts DEF CreateDm, At, ProcLocal
<1>2. CASE Goto(p, "releasing") /\ dm' = dm
  BY <1>1, <1>2, GoesOn DEF Owning
<1>3. CASE dm[part] = {} /\ dm' = D /\ Goto(p, "loading")
  <2>1. new \in MapRec /\ new.live = {} /\ new.next = {}
    BY DEF MapRec
  <2> HIDE DEF new
  <2>2. /\ D \in [Parts -> SUBSET MapRec] /\ D[part] = {new}
        /\ \A m \in Parts : m # part => D[m] = dm[m]
    BY <1>1, <2>1, InvFacts
  <2> HIDE DEF D
  <2>3. \A n : Held(D, n) <=> Held(dm, n)
    <3>1. \A n : Held(D, n) => Held(dm, n)
      BY <2>1, <2>2 DEF Held
    <3>2. \A n : Held(dm, n) => Held(D, n)
      BY <1>3, <2>2 DEF Held
    <3> QED
      BY <3>1, <3>2
  <2>4. MapsOK(loop, D)
    BY <2>1, <2>2, InvFacts DEF MapsOK
  <2>5. Fresh(D, proc)
    BY <2>3, InvFacts DEF Core, Fresh
  <2>6. Core(loop, D, proc)
    BY <2>4, <2>5, InvFacts, MapStep
  <2>7. Core(loop, D, proc')
    BY <1>1, <1>3, <2>6, GoesOnCore DEF Owning
  <2>8. Settled(loop, D)
    BY <2>3, InvFacts DEF Settled
  <2> QED
    BY <1>1, <1>3, <2>7, <2>8 DEF IInv, OthersKept
<1> QED
  BY <1>1, <1>2, <1>3 DEF CreateDm

\* DM_TABLE_LOAD: the base is the command's own device, or the image.
LEMMA LoadDmSound ==
  ASSUME IInv, NEW p \in Procs, LoadDm(p)
  PROVE  IInv' /\ OthersKept
<1> DEFINE part == proc[p].part
           k == proc[p].nr
           t == DmTable(p)
           D == [dm EXCEPT ![part] = {[d EXCEPT !.next = {t}] : d \in dm[part]}]
<1>1. /\ proc[p].st = "loading" /\ part \in Parts /\ k \in Nrs \cup {-1}
      /\ ProcLocal(proc[p])
  BY InvFacts DEF LoadDm, At, ProcLocal, ProcRec
<1>2. proc[p].st \in Owning /\ proc[p].st # "sizing"
  BY <1>1 DEF Owning
<1>3. CASE Goto(p, "removing") /\ dm' = dm /\ loop' = loop
  BY <1>1, <1>3, GoesOn DEF Owning
<1>4. CASE dm' = D /\ loop' = Settle(loop, dm') /\ Goto(p, "resuming")
  <2>1. t \in MapTables /\ t.base = k /\ t.targets = TargetsOf(part)
    BY <1>1 DEF DmTable, TargetsOf, MapTables
  <2>2. BaseOK(loop, k)
    <3>1. CASE k = -1
      BY <1>1, <1>2, <3>1 DEF BaseOK, ProcLocal
    <3>2. CASE k # -1
      BY <1>2, <3>2, InvFacts, OwnerFacts DEF BaseOK
    <3> QED
      BY <3>1, <3>2
  <2> HIDE DEF t, k
  <2>3. ASSUME NEW d \in dm[part]
        PROVE  /\ [d EXCEPT !.next = {t}] \in MapRec
               /\ [d EXCEPT !.next = {t}].live = d.live
               /\ [d EXCEPT !.next = {t}].next = {t}
    <3>1. d \in MapRec
      BY <1>1, <2>3, InvFacts
    <3> QED
      BY <2>1, <3>1 DEF MapRec
  <2>4. /\ D \in [Parts -> SUBSET MapRec]
        /\ \A m \in Parts : m # part => D[m] = dm[m]
        /\ \A c \in D[part] : \E d \in dm[part] : c = [d EXCEPT !.next = {t}]
    BY <1>1, <2>3, InvFacts
  <2> HIDE DEF D
  <2>5. \A m \in Parts : \A c, d \in D[m] : c = d
    <3>1. \A m \in Parts : \A c, d \in dm[m] : c = d
      BY InvFacts DEF MapsOK
    <3>2. ASSUME NEW c \in D[part], NEW d \in D[part] PROVE c = d
      <4>1. PICK c0 \in dm[part] : c = [c0 EXCEPT !.next = {t}]
        BY <2>4
      <4>2. PICK d0 \in dm[part] : d = [d0 EXCEPT !.next = {t}]
        BY <2>4
      <4>3. c0 = d0
        BY <1>1, <3>1
      <4> QED
        BY <4>1, <4>2, <4>3
    <3> QED
      BY <2>4, <3>1, <3>2
  <2>6. \A m \in Parts : \A d \in D[m] : \A u \in d.live \cup d.next :
          \/ u = t /\ m = part
          \/ \E c \in dm[m] : u \in c.live \cup c.next
    <3>1. ASSUME NEW d \in D[part], NEW u \in d.live \cup d.next
          PROVE  u = t \/ \E c \in dm[part] : u \in c.live \cup c.next
      <4>1. PICK c \in dm[part] : d = [c EXCEPT !.next = {t}]
        BY <2>4
      <4>2. d.live = c.live /\ d.next = {t}
        BY <2>3, <4>1
      <4> QED
        BY <3>1, <4>2
    <3> QED
      BY <2>4, <3>1
  <2>7. MapsOK(loop, D)
    <3>1. ASSUME NEW m \in Parts, NEW d \in D[m], NEW u \in d.live \cup d.next
          PROVE  u.targets = TargetsOf(m) /\ BaseOK(loop, u.base)
      <4>1. CASE u = t /\ m = part
        BY <2>1, <2>2, <4>1
      <4>2. CASE \E c \in dm[m] : u \in c.live \cup c.next
        BY <4>2, InvFacts DEF MapsOK
      <4> QED
        BY <2>6, <4>1, <4>2
    <3> QED
      BY <2>4, <2>5, <3>1 DEF MapsOK
  <2>8. Fresh(D, proc)
    <3>1. ASSUME NEW q \in Procs, proc[q].st = "sizing", Held(D, proc[q].nr)
          PROVE  FALSE
      <4>1. ~Held(dm, proc[q].nr)
        BY <3>1, InvFacts DEF Core, Fresh
      <4>2. proc[q].nr = k
        BY <2>1, <2>6, <3>1, <4>1 DEF Held
      <4>3. proc[q].nr # -1 /\ proc[q].st \in Owning
        BY <3>1, InvFacts, TableAssumption DEF ProcLocal, Owning
      <4>4. OwnersApart(proc)
        BY InvFacts DEF Core
      <4>5. q = p
        BY <1>2, <4>2, <4>3, <4>4 DEF OwnersApart, k
      <4> QED
        BY <1>2, <3>1, <4>5
    <3> QED
      BY <3>1 DEF Fresh
  <2>9. Core(loop, D, proc)
    BY <2>7, <2>8, InvFacts, MapStep
  <2>10. Core(loop, D, proc')
    BY <1>1, <1>4, <2>9, GoesOnCore DEF Owning
  <2> QED
    BY <1>4, <2>10, SettledAction
<1> QED
  BY <1>3, <1>4 DEF LoadDm

\* DM_DEV_SUSPEND as a resume: the device keeps its base open from now on, and
\* its command leaves.
LEMMA ResumeDmSound ==
  ASSUME IInv, NEW p \in Procs, ResumeDm(p)
  PROVE  IInv' /\ OthersKept
<1> DEFINE part == proc[p].part
           k == proc[p].nr
           resumed(d) == IF d.next = {} THEN d ELSE [d EXCEPT !.live = d.next, !.next = {}]
           reported == [n \in Nrs |->
                          IF n = k THEN [loop[n] EXCEPT !.use = <<Base>>] ELSE loop[n]]
           D == [dm EXCEPT ![part] = {resumed(d) : d \in dm[part]}]
<1>1. /\ proc[p].st = "resuming" /\ part \in Parts /\ k \in Nrs \cup {-1}
      /\ ProcLocal(proc[p])
  BY InvFacts DEF ResumeDm, At, ProcLocal, ProcRec
<1>2. proc[p].st \in Owning /\ proc[p].st # "sizing" /\ proc[p].st \notin Holding
  BY <1>1 DEF Owning, Holding
<1>3. CASE Goto(p, "removing") /\ dm' = dm /\ loop' = loop
  BY <1>1, <1>3, GoesOn DEF Owning
<1>4. CASE dm' = D /\ loop' = Settle(reported, dm') /\ Done(p)
  <2>1. ASSUME NEW d \in dm[part]
        PROVE  /\ resumed(d) \in MapRec
               /\ resumed(d).live \cup resumed(d).next \subseteq d.live \cup d.next
    <3>1. d \in MapRec
      BY <1>1, <2>1, InvFacts
    <3>2. CASE d.next = {}
      BY <3>1, <3>2
    <3>3. CASE d.next # {}
      BY <3>1, <3>3 DEF MapRec
    <3> QED
      BY <3>2, <3>3
  <2> HIDE DEF resumed
  <2>2. /\ D \in [Parts -> SUBSET MapRec]
        /\ \A m \in Parts : m # part => D[m] = dm[m]
        /\ \A c \in D[part] : \E d \in dm[part] : c = resumed(d)
    BY <1>1, <2>1, InvFacts
  <2> HIDE DEF D
  <2>3. \A m \in Parts : \A c, d \in D[m] : c = d
    <3>1. \A m \in Parts : \A c, d \in dm[m] : c = d
      BY InvFacts DEF MapsOK
    <3>2. ASSUME NEW c \in D[part], NEW d \in D[part] PROVE c = d
      <4>1. PICK c0 \in dm[part] : c = resumed(c0)
        BY <2>2
      <4>2. PICK d0 \in dm[part] : d = resumed(d0)
        BY <2>2
      <4>3. c0 = d0
        BY <1>1, <3>1
      <4> QED
        BY <4>1, <4>2, <4>3
    <3> QED
      BY <2>2, <3>1, <3>2
  <2>4. \A m \in Parts : \A c \in D[m] : \E d \in dm[m] :
          c.live \cup c.next \subseteq d.live \cup d.next
    <3>1. \A c \in D[part] : \E d \in dm[part] :
            c.live \cup c.next \subseteq d.live \cup d.next
      BY <2>1, <2>2
    <3> QED
      BY <2>2, <3>1
  <2>5. Core(loop, D, proc)
    BY <2>2, <2>3, <2>4, InvFacts, MapsShrink
  <2>6. CASE k = -1
    <3>1. reported = loop
      BY <2>6, InvFacts
    <3>2. Quiet(proc[p], Idle)
      BY <1>2, <2>6, IdleLocal DEF Quiet
    <3>3. Core(loop, dm', proc')
      BY <1>4, <2>5, <3>2, IdleLocal, QuietStep DEF Done
    <3> QED
      BY <1>4, <3>1, <3>3, SettledAction
  <2>7. CASE k \in Nrs
    <3>1. /\ LoopOK(loop[k]) /\ loop[k].file = Image /\ ~loop[k].auto
          /\ loop[k].use[1] # Connected
      BY <1>2, <2>7, InvFacts, OwnerFacts
    <3> DEFINE u == <<Base>>
               l == [loop[k] EXCEPT !.use = u]
    <3>0. /\ u \in Uses /\ u # <<>> /\ u[1] = Base
          /\ Base # Connected /\ Base # BadType /\ Base # Setup
      BY AloneFacts DEF Alone, Base, Connected, BadType, Setup
    <3> HIDE DEF u
    <3>2. /\ LoopOK(l) /\ l.file = Image /\ l.auto = loop[k].auto /\ l.opens = loop[k].opens
          /\ l.use = u
      <4> HIDE DEF k
      <4>1. l = [loop[k] EXCEPT !.use = u]
        OBVIOUS
      <4> HIDE DEF l
      <4> QED
        BY <3>0, <3>1, <4>1, OtherUse
    <3>3. reported = [loop EXCEPT ![k] = l]
      BY <2>7, InvFacts DEF u
    <3> HIDE DEF l, reported
    <3>4. p \notin loop[k].opens
      BY <1>2, <2>7, InvFacts DEF Core, Opened
    <3>5. l.use[1] # Setup /\ l.use[1] # Connected /\ l.opens = loop[k].opens \ {p}
      BY <3>0, <3>2, <3>4
    <3>6. Core([loop EXCEPT ![k] = l], D, [proc EXCEPT ![p] = Idle])
      BY <1>2, <2>5, <2>7, <3>2, <3>5, OwnerLeaves
    <3>7. Core(reported, dm', proc')
      BY <1>4, <3>3, <3>6 DEF Done
    <3>8. \A n \in Nrs : loop[n].file = Other => reported[n] = loop[n]
      <4>1. loop[k].file # Other
        BY <3>1 DEF Image, Other
      <4> QED
        BY <3>3, <4>1, InvFacts
    <3> QED
      BY <1>4, <3>7, <3>8, SettledAction
  <2> QED
    BY <1>1, <2>6, <2>7
<1> QED
  BY <1>3, <1>4 DEF ResumeDm

\* DM_DEV_REMOVE: tables only go.
LEMMA WithoutDmCore ==
  ASSUME IInv, NEW part \in Parts
  PROVE  Core(loop, WithoutDm(part), proc)
<1> DEFINE D == WithoutDm(part)
<1>1. /\ D \in [Parts -> SUBSET MapRec]
      /\ \A m \in Parts : D[m] \subseteq dm[m]
  BY InvFacts DEF WithoutDm
<1> HIDE DEF D
<1>2. \A m \in Parts : \A c, d \in D[m] : c = d
  BY <1>1, InvFacts DEF MapsOK
<1>3. \A m \in Parts : \A c \in D[m] : \E d \in dm[m] :
        c.live \cup c.next \subseteq d.live \cup d.next
  BY <1>1
<1>4. Core(loop, D, proc)
  BY <1>1, <1>2, <1>3, InvFacts, MapsShrink
<1> QED
  BY <1>4 DEF D

LEMMA UndoDmSound ==
  ASSUME IInv, NEW p \in Procs, UndoDm(p)
  PROVE  IInv' /\ OthersKept
<1>1. /\ proc[p].st = "removing" /\ proc[p].part \in Parts
      /\ dm' = WithoutDm(proc[p].part) /\ loop' = Settle(loop, dm') /\ Goto(p, "releasing")
  BY InvFacts DEF UndoDm, At, ProcLocal
<1>2. Core(loop, dm', proc)
  BY <1>1, WithoutDmCore
<1>3. Core(loop, dm', proc')
  BY <1>1, <1>2, GoesOnCore DEF Owning
<1> QED
  BY <1>1, <1>3, SettledAction

LEMMA UnmapSound ==
  ASSUME IInv, NEW p \in Procs, NEW n \in Parts, Unmap(p, n)
  PROVE  IInv' /\ OthersKept
<1>1. dm' = WithoutDm(n) /\ loop' = Settle(loop, dm') /\ proc' = proc
  BY DEF Unmap
<1>2. Core(loop, dm', proc')
  BY <1>1, WithoutDmCore
<1> QED
  BY <1>1, <1>2, SettledAction

LEMMA ReleaseBaseSound ==
  ASSUME IInv, NEW p \in Procs, ReleaseBase(p)
  PROVE  IInv' /\ OthersKept
<1>1. /\ proc[p].st = "releasing" /\ dm' = dm /\ Done(p) /\ ProcLocal(proc[p])
  BY InvFacts DEF ReleaseBase, At
<1>2. proc[p].st \in Owning
  BY <1>1 DEF Owning
<1>3. CASE proc[p].nr \in Nodes
  <2>1. proc[p].nr \in Nrs /\ loop' = Settle(ClrFd(loop, proc[p].nr, p), dm)
    BY <1>3, TableAssumption DEF ReleaseBase
  <2> QED
    BY <1>1, <1>2, <2>1, GiveBackSound DEF Done
<1>4. CASE proc[p].nr \notin Nodes
  <2>1. proc[p].nr = -1 /\ loop' = loop
    BY <1>1, <1>2, <1>4 DEF ReleaseBase, ProcLocal
  <2> QED
    BY <1>1, <1>2, <2>1, QuietEnd
<1> QED
  BY <1>3, <1>4

----------------------------------------------------------------------------
\* The kernel closes what a killed command had open.
LEMMA KillSound ==
  ASSUME IInv, NEW p \in Procs, Kill(p)
  PROVE  IInv' /\ OthersKept
<1> DEFINE k == proc[p].nr
           forsaken(l) == IF Owns(p) THEN [l EXCEPT !.use = <<Killed>>] ELSE l
           closed == [n \in Nrs |->
                        IF n = k THEN [forsaken(loop[n]) EXCEPT !.opens = @ \ {p}]
                        ELSE loop[n]]
<1>1. /\ loop' = Settle(closed, dm) /\ dm' = dm /\ proc' = [proc EXCEPT ![p] = Idle]
      /\ k \in Nrs \cup {-1} /\ ProcLocal(proc[p])
  BY InvFacts DEF Kill, Done, ProcRec
<1>2. Core(loop, dm, proc) /\ -1 \notin Nrs
  BY InvFacts
<1>3. CASE closed = loop /\ Quiet(proc[p], Idle)
  <2>1. Core(loop, dm', proc')
    BY <1>1, <1>2, <1>3, IdleLocal, QuietStep
  <2> QED
    BY <1>1, <1>3, <2>1, SettledAction
<1>4. CASE k = -1 /\ proc[p].st # "clearing"
  <2>1. closed = loop
    BY <1>2, <1>4, InvFacts
  <2>2. Quiet(proc[p], Idle)
    BY <1>4, IdleLocal DEF Quiet, Working
  <2> QED
    BY <1>3, <2>1, <2>2
<1>5. CASE k \in Nrs /\ proc[p].st \notin Working
  <2>1. p \notin loop[k].opens
    BY <1>2, <1>5 DEF Core, Opened, Holding, Working, Owning
  <2>2. loop[k] \in LoopRec
    BY <1>5, InvFacts
  <2>3. [loop[k] EXCEPT !.opens = loop[k].opens \ {p}] = loop[k]
    BY <2>1, <2>2 DEF LoopRec
  <2>4. ~Owns(p)
    BY <1>5 DEF Owns, Working
  <2>5. closed = loop
    BY <1>5, <2>3, <2>4, InvFacts
  <2>6. Quiet(proc[p], Idle)
    BY <1>5, IdleLocal DEF Quiet
  <2> QED
    BY <1>3, <2>5, <2>6
<1>6. CASE proc[p].st = "clearing"
  <2> DEFINE o == loop[k].opens \ {p}
             l == [loop[k] EXCEPT !.opens = o]
  <2>1. k \in Nrs /\ ~Owns(p)
    BY <1>1, <1>6, TableAssumption DEF ProcLocal, Owns, Owning
  <2>2. loop[k].file = Image /\ LoopOK(loop[k]) /\ loop[k] \in LoopRec
    BY <1>6, <2>1, InvFacts DEF Core, Relied, Relies, Working
  <2>3. /\ l \in LoopRec /\ l.file = loop[k].file /\ l.at = loop[k].at
        /\ l.len = loop[k].len /\ l.use = loop[k].use /\ l.opens = o
    <3>1. o \in SUBSET (Procs \cup {User})
      BY <2>2 DEF LoopRec
    <3> HIDE DEF o
    <3> QED
      BY <2>2, <3>1 DEF LoopRec
  <2>4. closed = [loop EXCEPT ![k] = l]
    BY <2>1, InvFacts
  <2> HIDE DEF l, closed
  <2>5. LoopOK(l)
    BY <2>2, <2>3, KeptInUse DEF Image, NoFile
  <2> QED
    BY <1>1, <1>6, <2>2, <2>3, <2>4, <2>5, ClearerLeaves
<1>7. CASE k \in Nrs /\ proc[p].st \in Owning
  <2>1. /\ LoopOK(loop[k]) /\ loop[k].file = Image /\ ~loop[k].auto
        /\ loop[k].use[1] # Connected
    BY <1>2, <1>7, OwnerFacts
  <2> DEFINE u == <<Killed>>
  <2>0. /\ u \in Uses /\ u # <<>> /\ u[1] = Killed
        /\ Killed # Connected /\ Killed # BadType /\ Killed # Setup
    BY AloneFacts DEF Alone, Killed, Connected, BadType, Setup
  <2> HIDE DEF u
  <2> DEFINE m == [loop[k] EXCEPT !.use = u]
             o == m.opens \ {p}
             l == [m EXCEPT !.opens = o]
  <2>2. /\ LoopOK(m) /\ m.file = Image /\ m.auto = loop[k].auto /\ m.opens = loop[k].opens
        /\ m.use = u
    <3> HIDE DEF k
    <3>1. m = [loop[k] EXCEPT !.use = u]
      OBVIOUS
    <3> HIDE DEF m
    <3> QED
      BY <2>0, <2>1, <3>1, OtherUse
  <2>3. closed = [loop EXCEPT ![k] = l]
    <3>1. Owns(p)
      BY <1>7 DEF Owns
    <3> QED
      BY <1>7, <3>1, InvFacts DEF u
  <2> HIDE DEF m, closed
  <2>4. m \in LoopRec
    BY <2>2, LoopFacts
  <2>5. /\ l \in LoopRec /\ l.file = m.file /\ l.at = m.at
        /\ l.len = m.len /\ l.use = m.use /\ l.opens = o
    <3>1. o \in SUBSET (Procs \cup {User})
      BY <2>4 DEF LoopRec
    <3> HIDE DEF o
    <3> QED
      BY <2>4, <3>1 DEF LoopRec
  <2> HIDE DEF l
  <2>6. LoopOK(l)
    BY <2>2, <2>5, KeptInUse DEF Image, NoFile
  <2>7. l.use[1] # Setup /\ l.use[1] # Connected /\ l.opens = loop[k].opens \ {p}
    BY <2>0, <2>2, <2>5
  <2>8. Core([loop EXCEPT ![k] = l], dm, [proc EXCEPT ![p] = Idle])
    BY <1>2, <1>7, <2>2, <2>5, <2>6, <2>7, OwnerLeaves
  <2>9. \A j \in Nrs : loop[j].file = Other => closed[j] = loop[j]
    <3>1. loop[k].file # Other
      BY <2>1 DEF Image, Other
    <3> QED
      BY <2>3, <3>1, InvFacts
  <2> QED
    BY <1>1, <2>3, <2>8, <2>9, SettledAction
<1> QED
  BY <1>1, <1>4, <1>5, <1>6, <1>7 DEF Working

----------------------------------------------------------------------------
\* Other users.

\* They open and close a device, or it was none of the image's and is none.
EnvFits(l, m) ==
  \/ l.file # Image /\ m.file # Image /\ m.opens \ {User} \subseteq l.opens \ {User}
  \/ /\ m.file = l.file /\ m.use = l.use /\ m.auto = l.auto
     /\ m.opens \ {User} = l.opens \ {User}

LEMMA EnvAt ==
  ASSUME IInv, NEW k \in Nrs, NEW l, LoopOK(l), EnvFits(loop[k], l)
  PROVE  Core([loop EXCEPT ![k] = l], dm, proc)
<1>1. /\ Core(loop, dm, proc) /\ LoopOK(loop[k])
      /\ Relied(loop, proc) /\ OwnersApart(proc) /\ ProcsOK(proc)
      /\ Opened(loop, proc) /\ Answered(loop, proc) /\ MapsOK(loop, dm) /\ k # -1
  BY InvFacts DEF Core
<1>2. ASSUME NEW q \in Procs, proc[q].st \in Working, proc[q].nr = k
      PROVE  Relies(proc[q], l, q)
  <2>1. Relies(proc[q], loop[k], q)
    BY <1>1, <1>2 DEF Relied
  <2>2. loop[k].file = Image
    BY <1>2, <2>1 DEF Relies, Working
  <2>3. q # User
    BY ProcsAssumption
  <2> QED
    BY <2>1, <2>2, <2>3 DEF Relies, EnvFits
<1>3. Held(dm, k) => l.file = Image /\ l.use[1] # Connected
  BY <1>1, HeldIsBase DEF EnvFits
<1>4. \A q \in Procs : q \in l.opens => proc[q].nr = k /\ proc[q].st \in Holding
  <2>1. \A q \in Procs : q \in l.opens => q \in loop[k].opens
    BY ProcsAssumption DEF EnvFits
  <2> QED
    BY <1>1, <2>1 DEF Opened
<1>5. l.use # <<>> /\ l.use[1] = Setup /\ ~l.auto =>
        \E q \in Procs : proc[q].nr = k /\ proc[q].st \in Owning
  <2>1. l.file # Image => l.use = <<>>
    BY LoopFacts
  <2> QED
    BY <1>1, <2>1 DEF EnvFits, Answered
<1>6. \A q, r \in Procs :
        proc[q].st \in Owning /\ proc[q].nr = k /\ proc[r].st \in Owning /\ proc[r].nr = k
        => q = r
  BY <1>1 DEF OwnersApart
<1>7. Fits(loop, dm, proc, k, l, proc, {})
  BY <1>1, <1>2, <1>3, <1>4, <1>5, <1>6 DEF Fits
<1> QED
  BY <1>1, <1>7, CoreAt

LEMMA OtherBindsSound ==
  ASSUME IInv, NEW n \in Nodes, NEW w \in OtherWindow, OtherBinds(n, w), UNCHANGED <<dm, proc>>
  PROVE  IInv'
<1> DEFINE l == [Unbound EXCEPT !.file = Other, !.at = w.at, !.len = w.len]
<1>1. n \in Nrs /\ w.at \in Nat /\ w.len \in Nat
  BY TableAssumption
<1>2. loop[n].file = NoFile /\ loop[n].opens = {}
  <2>1. loop[n].file = NoFile
    BY DEF OtherBinds, Bound
  <2>2. loop[n] = Unbound
    BY <1>1, <2>1, InvFacts, LoopFacts
  <2> QED
    BY <2>1, <2>2 DEF Unbound
<1>3. loop' = [loop EXCEPT ![n] = l]
  BY DEF OtherBinds
<1>4. /\ l.file = Other /\ l.opens = {} /\ l.auto = FALSE /\ l.use = <<>> /\ l \in LoopRec
  <2>1. <<>> \in Uses
    BY DEF Uses
  <2> QED
    BY <1>1, <2>1 DEF LoopRec, Unbound
<1> HIDE DEF l
<1>5. LoopOK(l)
  BY <1>4 DEF LoopOK, Image, NoFile, Other
<1>6. EnvFits(loop[n], l)
  BY <1>2, <1>4 DEF EnvFits, Image, NoFile, Other
<1>7. Core(loop', dm, proc)
  BY <1>1, <1>3, <1>5, <1>6, EnvAt
<1>8. Settled(loop', dm)
  BY <1>1, <1>3, <1>4, InvFacts DEF Settled
<1> QED
  BY <1>7, <1>8 DEF IInv

LEMMA OtherDetachesSound ==
  ASSUME IInv, NEW n \in Nodes, OtherDetaches(n), UNCHANGED <<dm, proc>>
  PROVE  IInv'
<1>1. n \in Nrs /\ loop[n].file = Other /\ loop' = Settle(ClrFd(loop, n, User), dm)
  BY TableAssumption DEF OtherDetaches
<1>2. PICK l : /\ ClrFd(loop, n, User) = [loop EXCEPT ![n] = l]
               /\ LoopOK(l) /\ l.file = loop[n].file /\ l.use = loop[n].use
               /\ l.auto /\ l.opens = loop[n].opens \ {User}
  <2>1. loop[n].file # NoFile /\ User \in Procs \cup {User}
    BY <1>1 DEF NoFile, Other
  <2> QED
    BY <1>1, <2>1, InvFacts, ClrFdCall
<1>3. EnvFits(loop[n], l)
  BY <1>1, <1>2 DEF EnvFits, Image, Other
<1>4. Core([loop EXCEPT ![n] = l], dm, proc)
  BY <1>1, <1>2, <1>3, EnvAt
<1>5. IInv'
  BY <1>1, <1>2, <1>4, SettleStep DEF IInv
<1> QED
  BY <1>5

LEMMA UserOpensSound ==
  ASSUME IInv, NEW n \in Nodes, UserOpens(n), UNCHANGED <<dm, proc>>
  PROVE  IInv'
<1>1. n \in Nrs /\ loop[n].file # NoFile /\ loop' = OpenedBy(loop, n, User)
  BY TableAssumption DEF UserOpens, Bound
<1>2. PICK l : /\ OpenedBy(loop, n, User) = [loop EXCEPT ![n] = l]
               /\ LoopOK(l) /\ l.file = loop[n].file /\ l.use = loop[n].use
               /\ l.auto = loop[n].auto /\ l.opens = loop[n].opens \cup {User}
  <2>1. User \in Procs \cup {User} /\ loop \in [Nrs -> LoopRec] /\ LoopOK(loop[n])
    BY <1>1, InvFacts
  <2> QED
    BY <1>1, <2>1, OpenCall
<1>3. EnvFits(loop[n], l)
  BY <1>2 DEF EnvFits
<1>4. Core([loop EXCEPT ![n] = l], dm, proc)
  BY <1>1, <1>2, <1>3, EnvAt
<1>5. Settled([loop EXCEPT ![n] = l], dm)
  BY <1>1, <1>2, InvFacts DEF Settled
<1> QED
  BY <1>1, <1>2, <1>4, <1>5 DEF IInv

LEMMA UserClosesSound ==
  ASSUME IInv, NEW n \in Nodes, UserCloses(n), UNCHANGED <<dm, proc>>
  PROVE  IInv'
<1>1. n \in Nrs /\ User \in loop[n].opens /\ loop' = Settle(ClosedBy(loop, n, User), dm)
  BY TableAssumption DEF UserCloses
<1>2. loop[n].file # NoFile
  <2>1. loop[n].file = NoFile => loop[n] = Unbound
    BY <1>1, InvFacts, LoopFacts
  <2> QED
    BY <1>1, <2>1 DEF Unbound
<1>3. PICK l : /\ ClosedBy(loop, n, User) = [loop EXCEPT ![n] = l]
               /\ LoopOK(l) /\ l.file = loop[n].file /\ l.use = loop[n].use
               /\ l.auto = loop[n].auto /\ l.opens = loop[n].opens \ {User}
  <2>1. User \in Procs \cup {User}
    OBVIOUS
  <2> QED
    BY <1>1, <1>2, <2>1, InvFacts, CloseCall
<1>4. EnvFits(loop[n], l)
  BY <1>3 DEF EnvFits
<1>5. Core([loop EXCEPT ![n] = l], dm, proc)
  BY <1>1, <1>3, <1>4, EnvAt
<1> QED
  BY <1>1, <1>3, <1>5, SettleStep DEF IInv

LEMMA DmToggleSound ==
  ASSUME IInv, NEW n \in Parts, DmToggle(n), UNCHANGED <<loop, proc>>
  PROVE  IInv'
<1> DEFINE toggled(d) == [d EXCEPT !.busy = ~d.busy]
           D == [dm EXCEPT ![n] = {toggled(d) : d \in dm[n]}]
<1>1. dm' = D
  BY DEF DmToggle
<1>2. ASSUME NEW d \in dm[n]
      PROVE  toggled(d) \in MapRec /\ toggled(d).live = d.live /\ toggled(d).next = d.next
  <2>1. d \in MapRec
    BY <1>2, InvFacts
  <2> QED
    BY <2>1 DEF MapRec
<1> HIDE DEF toggled
<1>3. /\ D \in [Parts -> SUBSET MapRec]
      /\ \A m \in Parts : m # n => D[m] = dm[m]
      /\ \A c \in D[n] : \E d \in dm[n] : c = toggled(d)
      /\ \A d \in dm[n] : toggled(d) \in D[n]
  BY <1>2, InvFacts
<1> HIDE DEF D
<1>4. \A m \in Parts : \A c, d \in D[m] : c = d
  <2>1. \A m \in Parts : \A c, d \in dm[m] : c = d
    BY InvFacts DEF MapsOK
  <2>2. ASSUME NEW c \in D[n], NEW d \in D[n] PROVE c = d
    <3>1. PICK c0 \in dm[n] : c = toggled(c0)
      BY <1>3
    <3>2. PICK d0 \in dm[n] : d = toggled(d0)
      BY <1>3
    <3>3. c0 = d0
      BY <2>1
    <3> QED
      BY <3>1, <3>2, <3>3
  <2> QED
    BY <1>3, <2>1, <2>2
<1>5. \A m \in Parts : \A c \in D[m] : \E d \in dm[m] :
        c.live \cup c.next \subseteq d.live \cup d.next
  <2>1. \A c \in D[n] : \E d \in dm[n] : c.live \cup c.next \subseteq d.live \cup d.next
    BY <1>2, <1>3
  <2> QED
    BY <1>3, <2>1
<1>6. Core(loop, D, proc)
  BY <1>3, <1>4, <1>5, InvFacts, MapsShrink
<1>7. ASSUME NEW k, Held(dm, k) PROVE Held(D, k)
  <2>1. PICK m \in Parts : \E d \in dm[m] : \E t \in d.live \cup d.next : t.base = k
    BY <1>7 DEF Held
  <2>2. PICK d \in dm[m] : \E t \in d.live \cup d.next : t.base = k
    BY <2>1
  <2>3. CASE m = n
    BY <1>2, <1>3, <2>2, <2>3 DEF Held
  <2>4. CASE m # n
    BY <1>3, <2>2, <2>4 DEF Held
  <2> QED
    BY <2>3, <2>4
<1>8. Settled(loop, D)
  BY <1>7, InvFacts DEF Settled
<1> QED
  BY <1>1, <1>6, <1>8 DEF IInv

----------------------------------------------------------------------------
LEMMA InitSound ==
  ASSUME Init
  PROVE  IInv
<1>1. /\ loop = [n \in Nrs |-> Unbound] /\ dm = [n \in Parts |-> {}]
      /\ proc = [p \in Procs |-> Idle]
  BY DEF Init
<1>2. LoopsOK(loop)
  BY <1>1, UnboundOK, LoopFacts DEF LoopsOK
<1>3. ProcsOK(proc) /\ \A p \in Procs : proc[p].st \notin Working /\ proc[p].st \notin Owning
  BY <1>1, IdleLocal DEF ProcsOK, ProcLocal
<1>4. MapsOK(loop, dm)
  BY <1>1 DEF MapsOK
<1>5. Unbound.opens = {} /\ Unbound.use = <<>> /\ Unbound.auto = FALSE
  BY DEF Unbound
<1>6. Relied(loop, proc) /\ OwnersApart(proc) /\ Opened(loop, proc) /\ Answered(loop, proc)
  BY <1>1, <1>3, <1>5 DEF Relied, OwnersApart, Opened, Answered
<1>7. Fresh(dm, proc)
  BY <1>3 DEF Fresh, Owning
<1>8. Settled(loop, dm)
  BY <1>1, <1>5 DEF Settled
<1> QED
  BY <1>2, <1>3, <1>4, <1>6, <1>7, <1>8 DEF IInv, Core

LEMMA CommandSound ==
  ASSUME IInv, NoneLikeWhole, NEW p \in Procs, Begin(p) \/ Step(p) \/ Kill(p)
  PROVE  IInv' /\ OthersKept
<1>1. CASE Begin(p)
  BY <1>1, BeginSound, UnmapSound DEF Begin
<1>2. CASE PickLoop(p) \/ BindLoop(p) \/ SizeLoop(p) \/ SizeFails(p)
  BY <1>2, PickLoopSound, BindLoopSound, SizeLoopSound, SizeFailsSound
<1>3. CASE ScanLoop(p) \/ ClearLoop(p)
  BY <1>3, ScanLoopSound, ClearLoopSound
<1>4. CASE RefuseType(p) \/ OpenDm(p) \/ CreateDm(p) \/ LoadDm(p)
  BY <1>4, RefuseTypeSound, OpenDmSound, CreateDmSound, LoadDmSound
<1>5. CASE ResumeDm(p) \/ UndoDm(p) \/ ReleaseBase(p)
  BY <1>5, ResumeDmSound, UndoDmSound, ReleaseBaseSound
<1>6. CASE Kill(p)
  BY <1>6, KillSound
<1> QED
  BY <1>1, <1>2, <1>3, <1>4, <1>5, <1>6 DEF Step

LEMMA EnvironmentSound ==
  ASSUME IInv, Environment
  PROVE  IInv' /\ proc' = proc
<1>1. CASE /\ \E n \in Nodes :
                \/ \E w \in OtherWindow : OtherBinds(n, w)
                \/ OtherDetaches(n) \/ UserOpens(n) \/ UserCloses(n)
           /\ UNCHANGED <<dm, proc>>
  BY <1>1, OtherBindsSound, OtherDetachesSound, UserOpensSound, UserClosesSound
<1>2. CASE (\E n \in Parts : DmToggle(n)) /\ UNCHANGED <<loop, proc>>
  BY <1>2, DmToggleSound
<1> QED
  BY <1>1, <1>2 DEF Environment

LEMMA NextSound ==
  ASSUME IInv, NoneLikeWhole, [Next]_vars
  PROVE  IInv' /\ (OthersKept \/ proc' = proc)
<1>1. CASE UNCHANGED vars
  BY <1>1 DEF vars, IInv, Core, LoopsOK, MapsOK, BaseOK, ProcsOK, Relied, Relies, OwnersApart,
              Fresh, Held, Opened, Answered, Settled
<1>2. CASE Next
  BY <1>2, CommandSound, EnvironmentSound DEF Next
<1> QED
  BY <1>1, <1>2

----------------------------------------------------------------------------
\* The loop devices, the device-mapper tables and the commands fit together in
\* every reachable state, however commands and other users of the machine
\* overlap and wherever a command is killed: what the code of connect.rs and
\* map.rs relies on between two of its system calls.
THEOREM SpecSound == NoneLikeWhole => (Spec => []IInv)
<1> SUFFICES ASSUME NoneLikeWhole PROVE Spec => []IInv
  OBVIOUS
<1>1. Init => IInv
  BY InitSound
<1>2. IInv /\ [Next]_vars => IInv'
  BY NextSound
<1> QED
  BY <1>1, <1>2, PTL DEF Spec

\* The type invariant: each device's record is of its kind, a device-mapper
\* name has at most one device.
THEOREM SpecTypeOK == NoneLikeWhole => (Spec => []TypeOK)
<1> SUFFICES ASSUME NoneLikeWhole PROVE Spec => []TypeOK
  OBVIOUS
<1>1. IInv => TypeOK
  <2> SUFFICES ASSUME IInv PROVE TypeOK
    OBVIOUS
  <2>1. \A n \in Nrs : LoopOK(loop[n])
    BY InvFacts
  <2>2. ASSUME NEW m \in Parts PROVE Cardinality(dm[m]) <= 1
    <3>1. \A c, d \in dm[m] : c = d
      BY InvFacts DEF MapsOK
    <3>2. CASE dm[m] = {}
      BY <3>2, FS_EmptySet
    <3>3. CASE dm[m] # {}
      <4>1. PICK d \in dm[m] : TRUE
        BY <3>3
      <4>2. dm[m] = {d}
        BY <3>1, <4>1
      <4>3. Cardinality({d}) = 1
        BY FS_Singleton
      <4> QED
        BY <4>2, <4>3
    <3> QED
      BY <3>2, <3>3
  <2>3. \A p \in Procs : proc[p].nr \in Nrs \cup {-1}
    BY InvFacts DEF ProcRec
  <2> QED
    BY <2>1, <2>2, <2>3, LoopFacts DEF TypeOK
<1>2. Spec => []IInv
  BY SpecSound
<1> QED
  BY <1>1, <1>2, PTL

\* Only three exits leave a loop device behind: a kill, map's refusal of an
\* extent of another type, in a partition that has one (map.rs:541-544), and
\* its end when /dev/device-mapper does not open (map.rs:550-556).  Any other
\* device bound to the image is reported and not detached, or has its command
\* still at it, or was given back and goes with its last user.
THEOREM SpecNoStray == NoneLikeWhole => (Spec => []NoStray)
<1> SUFFICES ASSUME NoneLikeWhole PROVE Spec => []NoStray
  OBVIOUS
<1>1. IInv => NoStray
  <2> SUFFICES ASSUME IInv, NEW n \in Nrs, loop[n].file = Image
               PROVE  \/ loop[n].use[1] \in {Connected, Base} /\ ~loop[n].auto
                      \/ \E p \in Procs : proc[p].nr = n /\ Owns(p)
                      \/ loop[n].auto /\ (loop[n].opens # {} \/ Held(dm, n))
                      \/ Left(n)
    BY DEF NoStray
  <2>1. LoopOK(loop[n]) /\ loop[n].use # <<>> /\ Settled(loop, dm) /\ Answered(loop, proc)
    BY InvFacts, LoopFacts DEF Core
  <2>2. /\ loop[n].use[1] \in Alone \cup WithPart
        /\ loop[n].use[1] = BadType => ~Mappable(loop[n].use[2])
    BY <2>1, UseFacts
  <2>3. CASE loop[n].auto
    BY <2>1, <2>3 DEF Settled
  <2>4. CASE ~loop[n].auto /\ loop[n].use[1] = Setup
    BY <2>1, <2>4 DEF Answered, Owns
  <2>5. CASE ~loop[n].auto /\ loop[n].use[1] \in {Connected, Base}
    BY <2>5
  <2>6. CASE loop[n].use[1] \in {Killed, NoMapper, BadType}
    BY <2>2, <2>6 DEF Left
  <2> QED
    BY <2>2, <2>3, <2>4, <2>5, <2>6 DEF Alone, WithPart
<1>2. Spec => []IInv
  BY SpecSound
<1> QED
  BY <1>1, <1>2, PTL

\* A command never changes or detaches a loop device that somebody else bound,
\* however the numbers are reused between its system calls.
THEOREM SpecOthersUntouched == NoneLikeWhole => (Spec => OthersUntouched)
<1> SUFFICES ASSUME NoneLikeWhole PROVE Spec => OthersUntouched
  OBVIOUS
<1> DEFINE Untouched ==
             \A n \in Nrs, p \in Procs :
               loop[n].file = Other /\ proc'[p] # proc[p] =>
                 loop'[n].file = Other /\ loop'[n].auto = loop[n].auto
<1>1. IInv /\ [Next]_vars => [Untouched]_vars
  BY NextSound DEF OthersKept
<1>2. Spec => []IInv
  BY SpecSound
<1> QED
  BY <1>1, <1>2, PTL DEF Spec, OthersUntouched

----------------------------------------------------------------------------
\* What the image must be like for its devices to show the partitions: all
\* extents are on the first block device (connect and map ignore the extent's
\* source) ...
SingleFile == \A n \in Parts : \A i \in DOMAIN Table[n] : Table[n][i].source = 0

\* ... the file is raw, with all of the extents in it (connect and map use a
\* sector of the image as a sector of the file) ...
RawImage ==
  /\ \A s \in 0 .. LastSector : Holds[s] = s
  /\ \A n \in Parts : \A i \in DOMAIN Table[n] :
       Table[n][i].type # Zero => Table[n][i].data + Table[n][i].num <= LastSector + 1

\* ... and a partition of one extent has sectors (connect's window of none is
\* the whole rest of the file).
NoneEmpty == \A n \in Parts : Len(Table[n]) = 1 => Table[n][1].num # 0

LEMMA ExtentFacts ==
  ASSUME NEW n \in Parts, NEW i \in DOMAIN Table[n]
  PROVE  Table[n][i].data \in Nat /\ Table[n][i].num \in Nat
<1> DEFINE S == [type : {Linear, Zero, Unsupported}, source : Nat, data : Nat, num : Nat]
<1>1. Table[n] \in Seq(S)
  BY TableAssumption
<1> HIDE DEF S
<1>2. i \in 1 .. Len(Table[n])
  BY <1>1, LenProperties
<1>3. Table[n][i] \in S
  BY <1>1, <1>2, ElementOfSeq
<1> QED
  BY <1>3 DEF S

\* The sectors of a linear extent are in the file where it says.
LEMMA InFile ==
  ASSUME SingleFile, RawImage, NEW n \in Parts, NEW i \in DOMAIN Table[n],
         Table[n][i].type # Zero, NEW s \in 0 .. Table[n][i].num - 1
  PROVE  /\ Table[n][i].data + s \in 0 .. LastSector
         /\ FileSector(Table[n][i].data + s) = <<Table[n][i].source, Table[n][i].data + s>>
<1>1. Table[n][i].data \in Nat /\ Table[n][i].num \in Nat /\ LastSector \in Nat
  BY ExtentFacts, TableAssumption
<1>2. Table[n][i].source = 0 /\ Table[n][i].data + Table[n][i].num <= LastSector + 1
  BY DEF SingleFile, RawImage
<1>3. Table[n][i].data + s \in 0 .. LastSector
  BY <1>1, <1>2
<1> QED
  BY <1>2, <1>3 DEF FileSector, RawImage

\* What connect and map report shows the sectors of the partition and keeps
\* showing them, when the image is a raw one on one block device and no
\* partition of one extent is empty.
THEOREM SpecShowsPartition ==
  SingleFile /\ RawImage /\ NoneEmpty => (Spec => []ShowsPartition)
<1> SUFFICES ASSUME SingleFile, RawImage, NoneEmpty PROVE Spec => []ShowsPartition
  OBVIOUS
<1>1. IInv => ShowsPartition
  <2> SUFFICES ASSUME IInv PROVE ShowsPartition
    OBVIOUS
  <2>1. ASSUME NEW n \in Nrs, loop[n].use # <<>>, loop[n].use[1] = Connected
        PROVE  LoopSectors(n) = PartSectors(loop[n].use[2])
    <3>1. PICK m \in Parts :
            /\ m = loop[n].use[2] /\ Connectable(m) /\ loop[n].file = Image
            /\ loop[n].at = Offset(m) /\ loop[n].len = Size(m)
      BY <2>1, InvFacts, UseFacts
    <3> DEFINE e == Table[m][1]
    <3>2. /\ DOMAIN Table[m] = {1} /\ Size(m) = e.num /\ Offset(m) = e.data
          /\ e.type = Linear /\ e.num \in Nat /\ e.num # 0
      BY SMTT(30), <3>1, SizeOfOne DEF Connectable, NoneEmpty
    <3>3. e.type # Zero /\ LoopLen(n) = e.num
      BY <3>1, <3>2 DEF LoopLen, Linear, Zero
    <3>4. ASSUME NEW s \in 0 .. e.num - 1
          PROVE  LoopSector(n, s) = <<e.source, e.data + s>>
      <4>1. FileSector(e.data + s) = <<e.source, e.data + s>>
        BY <3>2, <3>3, <3>4, InFile
      <4>2. s < e.num
        BY <3>2, <3>4
      <4> HIDE DEF e
      <4> QED
        BY <3>1, <3>2, <3>3, <4>1, <4>2 DEF LoopSector
    <3> DEFINE w == [s \in 0 .. e.num - 1 |-> <<e.source, e.data + s>>]
    <3>5. LoopSectors(n) = <<w>>
      BY <3>3, <3>4 DEF LoopSectors
    <3>6. PartSectors(m) = [i \in {1} |-> w]
      BY <3>2, <3>3 DEF PartSectors
    <3> HIDE DEF w
    <3>7. <<w>> = [i \in {1} |-> w]
      OBVIOUS
    <3> QED
      BY <3>1, <3>5, <3>6, <3>7
  <2>2. ASSUME NEW m \in Parts, NEW d \in dm[m], NEW t \in d.live
        PROVE  DmSectors(t) = PartSectors(m)
    <3>1. t.targets = TargetsOf(m) /\ BaseOK(loop, t.base)
      BY <2>2, InvFacts DEF MapsOK
    <3>2. t.base \in Nrs \cup {-1}
      BY <2>2, InvFacts DEF MapRec, MapTables
    <3>3. ASSUME NEW s \in 0 .. LastSector
          PROVE  BaseSector(t.base, s) = FileSector(s)
      <4>1. CASE t.base = -1
        BY <3>1, <4>1 DEF BaseOK, BaseSector
      <4>2. CASE t.base # -1
        <5>1. /\ loop[t.base].file = Image /\ loop[t.base].use[1] # Connected
              /\ LoopOK(loop[t.base])
          BY <3>1, <3>2, <4>2, InvFacts DEF BaseOK
        <5>2. loop[t.base].at = 0 /\ loop[t.base].len = 0
          BY <5>1 DEF LoopOK
        <5>3. LoopLen(t.base) = LastSector + 1 /\ s < LastSector + 1 /\ 0 + s = s
          BY <5>2, TableAssumption DEF LoopLen
        <5> QED
          BY <4>2, <5>1, <5>2, <5>3 DEF BaseSector, LoopSector
      <4> QED
        BY <4>1, <4>2
    <3>4. ASSUME NEW i \in DOMAIN Table[m], Table[m][i].type # Zero,
                 NEW s \in 0 .. Table[m][i].num - 1
          PROVE  BaseSector(t.base, Table[m][i].data + s)
                   = <<Table[m][i].source, Table[m][i].data + s>>
      BY <3>3, <3>4, InFile
    <3> DEFINE Sectors(i) ==
                 [s \in 0 .. Table[m][i].num - 1 |->
                    IF Table[m][i].type = Zero THEN Zeros
                    ELSE <<Table[m][i].source, Table[m][i].data + s>>]
    <3>5. DOMAIN t.targets = DOMAIN Table[m]
      BY <3>1 DEF TargetsOf
    <3>6. ASSUME NEW i \in DOMAIN Table[m]
          PROVE  [s \in 0 .. t.targets[i].num - 1 |->
                    IF t.targets[i].type = Zero THEN Zeros
                    ELSE BaseSector(t.base, t.targets[i].at + s)] = Sectors(i)
      <4>1. /\ t.targets[i].num = Table[m][i].num /\ t.targets[i].at = Table[m][i].data
            /\ t.targets[i].type = Table[m][i].type
        BY <3>1 DEF TargetsOf, Target
      <4> QED
        BY <3>4, <4>1
    <3>7. PartSectors(m) = [i \in DOMAIN Table[m] |-> Sectors(i)]
      BY DEF PartSectors
    <3>8. DmSectors(t) = [i \in DOMAIN Table[m] |-> Sectors(i)]
      <4> HIDE DEF Sectors
      <4> QED
        BY <3>5, <3>6 DEF DmSectors
    <3> QED
      BY <3>7, <3>8
  <2> QED
    BY <2>1, <2>2 DEF ShowsPartition
<1>2. Spec => []IInv
  <2>1. NoneLikeWhole
    BY DEF NoneEmpty, NoneLikeWhole
  <2> QED
    BY <2>1, SpecSound
<1> QED
  BY <1>1, <1>2, PTL
=============================================================================
