--------------------------- MODULE ExtractProofs ---------------------------
(***************************************************************************)
(* Proofs about Extract, for every listing, pool size and number of runs.  *)
(* The inductive invariant IInv says of each job how far its own file is   *)
(* (SoleOK); it needs that a name which is listed once has one job         *)
(* (SoleApart), that every wanted partition has become one (Planned), and  *)
(* that no job has the path of a file which is to be left alone.  That the *)
(* loop over the listing establishes all this is proved round by round,    *)
(* with an induction (CountUp) drawn from the pigeonhole principle.        *)
(***************************************************************************)
EXTENDS Extract, SequenceTheorems, FiniteSetTheorems, TLAPS

\* Induction, with a set for the predicate: were m missing, i + 1 would map
\* the numbers of T up to m one to one to those but 0.
LEMMA CountUp ==
  ASSUME NEW T, 0 \in T, \A n \in Nat : n \in T => n + 1 \in T,
         NEW m \in Nat
  PROVE  m \in T
<1> DEFINE S == {i \in 0 .. m : i \in T}
           f == [i \in S |-> i + 1]
<1>1. SUFFICES ASSUME m \notin T PROVE FALSE
  OBVIOUS
<1>2. IsFiniteSet(S) /\ 0 \in S
  BY FS_BoundedSetOfNaturals
<1>3. IsFiniteSet(S \ {0}) /\ Cardinality(S \ {0}) = Cardinality(S) - 1 /\ Cardinality(S) \in Nat
  BY <1>2, FS_RemoveElement, FS_CardinalityType
<1>4. f \in [S -> S \ {0}]
  <2>1. ASSUME NEW i \in S PROVE i + 1 \in S \ {0}
    <3>1. i \in Nat /\ i <= m /\ i # m
      BY <1>1
    <3> QED
      BY <3>1
  <2> QED
    BY <2>1
<1>5. \A x, y \in S : x # y => f[x] # f[y]
  OBVIOUS
<1> HIDE DEF S, f
<1>6. Cardinality(S \ {0}) < Cardinality(S)
  BY <1>3
<1>7. \E x, y \in S : x # y /\ f[x] = f[y]
  BY <1>2, <1>3, <1>4, <1>6, FS_PigeonHole
<1> QED
  BY <1>5, <1>7

Entries == {Listing[i] : i \in JobNumbers}
JobRec == [part : Entries, at : Nat, linked : BOOLEAN,
           st : {Queued, Created, Copying, Extracted, Failed}]

\* The first m blocks of a partition.
Content(e, m) == [k \in 1 .. m |-> Block(e, k)]
Flushed(r) == IF r.at <= Direct(r.part) THEN r.at ELSE Direct(r.part)

\* How far a job is with a file F that is its own.
JobOK(r, F, new) ==
  /\ r.st = Queued => r.at = 0 /\ (new => F = {})
  /\ r.st = Created => r.at = 0 /\ r.linked /\ F = {Empty}
  /\ r.st = Copying => r.linked /\ F = {Content(r.part, Flushed(r))}
  /\ r.st = Extracted => \E m \in {Direct(r.part), r.part.chunks} : F = {Content(r.part, m)}
  /\ r.st = Failed => (new => F \subseteq {Empty})

FilesOK == /\ files = [n \in Names |-> files[n]]
           /\ \A n \in Names : \A c, d \in files[n] : c = d

JobsOK == /\ jobs \in Seq(JobRec) /\ Len(jobs) <= Len(Listing)
          /\ \A j \in DOMAIN jobs : jobs[j].at <= jobs[j].part.chunks /\ jobs[j].part.chunks > 0

\* A name listed once has one job, and that job's file is as far as the job.
SoleApart ==
  \A i, j \in DOMAIN jobs : Sole(Path(i)) # {} /\ Path(i) = Path(j) => i = j
SoleOK ==
  \A j \in DOMAIN jobs :
    Sole(Path(j)) # {} => JobOK(jobs[j], files[Path(j)], Path(j) \notin before)

\* What the run was to extract has become a job, and nothing else.
Planned ==
  phase \in {Running, Success, Failure} =>
    \A n \in Wanted : \A e \in Sole(n) :
      e.chunks > 0 => \E j \in DOMAIN jobs : jobs[j].part = e
LeftAlone == ~force => \A j \in DOMAIN jobs : Path(j) \notin before

PhaseOK ==
  /\ phase \in {Off, Running, Success, Failure, Killed}
  /\ force \in BOOLEAN /\ before \subseteq Names /\ runs \in 0 .. MaxRuns
  /\ phase = Success => \A j \in DOMAIN jobs : jobs[j].st = Extracted

IInv ==
  FilesOK /\ JobsOK /\ SoleApart /\ SoleOK /\ Planned /\ LeftAlone /\ PhaseOK

----------------------------------------------------------------------------
LEMMA EmptyContent == \A e : Content(e, 0) = Empty
BY DEF Content, Empty

LEMMA EntryFacts ==
  /\ Len(Listing) \in Nat /\ JobNumbers = DOMAIN Listing
  /\ \A e \in Entries : e.name \in Names /\ e.chunks \in Nat /\ e.tail \in BOOLEAN
  /\ \A i \in JobNumbers : Listing[i] \in Entries
<1>1. Listing \in Seq([slot : Nat, name : Names, chunks : Nat, tail : BOOLEAN])
  BY ListingAssumption
<1>2. \A i \in JobNumbers : Listing[i] \in [slot : Nat, name : Names, chunks : Nat, tail : BOOLEAN]
  BY <1>1, ElementOfSeq DEF JobNumbers
<1> QED
  BY <1>1, <1>2, LenProperties DEF JobNumbers, Entries

\* A name that is listed once has one entry.
LEMMA SoleFacts ==
  ASSUME NEW n, Sole(n) # {}
  PROVE  \E k \in JobNumbers : /\ Listing[k].name = n /\ Sole(n) = {Listing[k]}
                               /\ \A m \in JobNumbers : Listing[m].name = n => m = k
BY DEF Sole

\* The loop that collects the jobs, round by round.
PlanSteps(plan, frc, bad) ==
  [i \in 0 .. Len(Listing) |->
     IF i = 0 THEN [files |-> files, jobs |-> <<>>]
     ELSE PlanEntry(plan[i - 1], Listing[i], frc, bad)]

LEMMA PlanRounds ==
  ASSUME NEW frc, NEW bad
  PROVE  \E plan : plan = PlanSteps(plan, frc, bad) /\ Plan(frc, bad) = plan[Len(Listing)]
<1> DEFINE N == Len(Listing)
           blank == [files |-> files, jobs |-> <<>>]
           Next1(acc, i) == PlanEntry(acc, Listing[i], frc, bad)
           F(n, g) == [i \in 0 .. n |-> IF i = 0 THEN blank ELSE Next1(g[i - 1], i)]
           T == {n \in Nat : \E g : g = F(n, g)}
<1> HIDE DEF blank, Next1
<1>1. 0 \in T
  <2> DEFINE g == [i \in 0 .. 0 |-> blank]
  <2>1. g = F(0, g)
    OBVIOUS
  <2> QED
    BY <2>1
<1>2. ASSUME NEW n \in Nat, n \in T PROVE n + 1 \in T
  <2>1. PICK g : g = F(n, g)
    BY <1>2
  <2> DEFINE h == [i \in 0 .. n + 1 |-> IF i <= n THEN g[i] ELSE Next1(g[n], n + 1)]
  <2>2. ASSUME NEW i \in 0 .. n + 1
        PROVE  h[i] = IF i = 0 THEN blank ELSE Next1(h[i - 1], i)
    <3>1. CASE i = 0
      BY <2>1, <3>1
    <3>2. CASE i # 0 /\ i <= n
      <4>1. i \in 0 .. n /\ i - 1 \in 0 .. n + 1 /\ i - 1 <= n
        BY <3>2
      <4>2. h[i] = g[i] /\ h[i - 1] = g[i - 1]
        BY <4>1
      <4>3. g[i] = Next1(g[i - 1], i)
        BY <2>1, <3>2, <4>1
      <4> QED
        BY <3>2, <4>2, <4>3
    <3>3. CASE i = n + 1
      <4>1. h[i - 1] = g[n] /\ h[i] = Next1(g[n], n + 1)
        BY <3>3
      <4> QED
        BY <3>3, <4>1
    <3> QED
      BY <3>1, <3>2, <3>3
  <2>3. h = F(n + 1, h)
    <3>1. h = [i \in 0 .. n + 1 |-> h[i]]
      OBVIOUS
    <3> HIDE DEF h
    <3> QED
      BY <2>2, <3>1
  <2>4. \E r : r = F(n + 1, r)
    <3> HIDE DEF h, F
    <3> QED
      BY <2>3
  <2> QED
    BY <2>4
<1>3. N \in Nat
  BY ListingAssumption
<1>4. \E g : g = F(N, g)
  <2> HIDE DEF F, N
  <2>1. N \in T
    <3> HIDE DEF T
    <3> QED
      BY <1>1, <1>2, <1>3, CountUp
  <2> QED
    BY <2>1
<1> DEFINE p == CHOOSE g : g = F(N, g)
<1>5. p = F(N, p)
  <2> HIDE DEF F
  <2> QED
    BY <1>4
<1>6. Plan(frc, bad) = p[N]
  BY DEF Plan, blank, Next1
<1>7. F(N, p) = PlanSteps(p, frc, bad)
  BY DEF PlanSteps, blank, Next1
<1> HIDE DEF p, F
<1> QED
  BY <1>5, <1>6, <1>7

\* After i rounds.
PlanRec == [files : [Names -> {files[n] : n \in Names} \cup {{Empty}}], jobs : Seq(JobRec)]
Skipped(n, frc) == ~frc /\ files[n] # {}

PlanJobs(acc, i, frc) ==
  \A j \in DOMAIN acc.jobs : \E m \in 1 .. i :
    /\ acc.jobs[j] = NewJob(Listing[m])
    /\ Listing[m].chunks > 0 /\ ~Skipped(Listing[m].name, frc)
PlanApart(acc) ==
  \A j, k \in DOMAIN acc.jobs :
    Sole(acc.jobs[j].part.name) # {} /\ acc.jobs[j].part.name = acc.jobs[k].part.name => j = k
PlanCovers(acc, i, frc) ==
  \A m \in 1 .. i :
    /\ Listing[m] \in Sole(Listing[m].name) /\ Listing[m].chunks > 0
    /\ ~Skipped(Listing[m].name, frc)
    => \E j \in DOMAIN acc.jobs : acc.jobs[j].part = Listing[m]
PlanFiles(acc, i, frc) ==
  \A n \in Names :
    /\ Skipped(n, frc) => acc.files[n] = files[n]
    /\ acc.files[n] \in {files[n], {Empty}}
    /\ acc.files[n] # files[n] => \E m \in 1 .. i : Listing[m].name = n /\ Listing[m].chunks = 0

PlanOK(acc, i, frc) ==
  /\ acc \in PlanRec /\ Len(acc.jobs) <= i
  /\ PlanJobs(acc, i, frc) /\ PlanApart(acc) /\ PlanCovers(acc, i, frc) /\ PlanFiles(acc, i, frc)

\* A round that leaves the jobs as they are.
LEMMA PlanPasses ==
  ASSUME NEW acc, NEW i \in Nat, NEW frc \in BOOLEAN, PlanOK(acc, i, frc),
         NEW acc1 \in PlanRec, acc1.jobs = acc.jobs, PlanFiles(acc1, i + 1, frc),
         LET e == Listing[i + 1]
         IN e \in Sole(e.name) /\ e.chunks > 0 => Skipped(e.name, frc)
  PROVE  PlanOK(acc1, i + 1, frc)
<1>1. \A m \in 1 .. i + 1 : m \in 1 .. i \/ m = i + 1
  OBVIOUS
<1>2. 1 .. i \subseteq 1 .. i + 1
  OBVIOUS
<1>3. Len(acc1.jobs) <= i + 1
  <2>1. Len(acc1.jobs) <= i /\ Len(acc1.jobs) \in Nat
    BY LenProperties DEF PlanOK, PlanRec
  <2> QED
    BY <2>1
<1>4. PlanJobs(acc1, i + 1, frc)
  BY <1>2 DEF PlanOK, PlanJobs
<1>5. PlanApart(acc1)
  BY DEF PlanOK, PlanApart
<1>6. PlanCovers(acc1, i + 1, frc)
  BY <1>1 DEF PlanOK, PlanCovers
<1> QED
  BY <1>3, <1>4, <1>5, <1>6 DEF PlanOK

LEMMA PlanRound ==
  ASSUME NEW acc, NEW i \in Nat, NEW frc \in BOOLEAN, NEW bad,
         i + 1 \in JobNumbers, PlanOK(acc, i, frc)
  PROVE  PlanOK(PlanEntry(acc, Listing[i + 1], frc, bad), i + 1, frc)
<1> DEFINE e == Listing[i + 1]
           n == e.name
           acc1 == PlanEntry(acc, e, frc, bad)
<1>1. e \in Entries /\ n \in Names /\ e.chunks \in Nat /\ i + 1 \in 1 .. i + 1
      /\ 1 .. i \subseteq JobNumbers /\ 1 .. i \subseteq 1 .. i + 1
  BY EntryFacts DEF JobNumbers
<1>2. Sole(n) # {} => \A m \in 1 .. i : Listing[m].name # n
  <2>1. ASSUME NEW m \in 1 .. i, Listing[m].name = n, Sole(n) # {} PROVE FALSE
    BY <1>1, <2>1, SoleFacts
  <2> QED
    BY <2>1
<1>3. \A m \in 1 .. i + 1 : m \in 1 .. i \/ m = i + 1
  OBVIOUS
<1>4. /\ acc \in PlanRec /\ Len(acc.jobs) <= i /\ Len(acc.jobs) \in Nat
      /\ acc.jobs \in Seq(JobRec)
      /\ PlanJobs(acc, i, frc) /\ PlanApart(acc) /\ PlanCovers(acc, i, frc)
      /\ PlanFiles(acc, i, frc)
  BY LenProperties DEF PlanOK, PlanRec
<1>5. PlanFiles(acc, i + 1, frc)
  BY <1>1, <1>4 DEF PlanFiles
<1> HIDE DEF e
<1>6. CASE acc.files[n] # {} /\ ~frc
  <2>1. acc1 = acc
    BY <1>6 DEF PlanEntry
  <2>2. e \in Sole(n) /\ e.chunks > 0 => Skipped(n, frc)
    BY <1>1, <1>2, <1>4, <1>6 DEF PlanFiles, Skipped
  <2> QED
    BY <1>4, <1>5, <2>1, <2>2, PlanPasses DEF e
<1>7. CASE ~(acc.files[n] # {} /\ ~frc) /\ ~(e.chunks > 0) /\ n \in bad
  <2>1. acc1 = acc
    BY <1>7 DEF PlanEntry
  <2> QED
    BY <1>4, <1>5, <1>7, <2>1, PlanPasses DEF e
<1>8. CASE ~(acc.files[n] # {} /\ ~frc) /\ ~(e.chunks > 0) /\ n \notin bad
  <2> DEFINE F == [acc.files EXCEPT ![n] = {Empty}]
  <2>1. acc1 = [acc EXCEPT !.files = F]
    BY <1>8 DEF PlanEntry
  <2>2. acc1 \in PlanRec /\ acc1.jobs = acc.jobs /\ acc1.files = F
    BY <1>1, <1>4, <2>1 DEF PlanRec
  <2>3. F[n] = {Empty} /\ \A m \in Names : m # n => F[m] = acc.files[m]
    BY <1>1, <1>4 DEF PlanRec
  <2> HIDE DEF F, acc1
  <2>4. PlanFiles(acc1, i + 1, frc)
    <3>1. ASSUME NEW m \in Names
          PROVE /\ Skipped(m, frc) => acc1.files[m] = files[m]
                /\ acc1.files[m] \in {files[m], {Empty}}
                /\ acc1.files[m] # files[m] =>
                     \E k \in 1 .. i + 1 : Listing[k].name = m /\ Listing[k].chunks = 0
      <4>1. CASE m = n
        <5>1. e.chunks = 0
          BY <1>1, <1>8
        <5>2. ~Skipped(n, frc)
          BY <1>1, <1>4, <1>8 DEF Skipped, PlanFiles
        <5> QED
          BY <1>1, <2>2, <2>3, <4>1, <5>1, <5>2 DEF e
      <4>2. CASE m # n
        BY <1>5, <2>2, <2>3, <4>2 DEF PlanFiles
      <4> QED
        BY <4>1, <4>2
    <3> QED
      BY <3>1 DEF PlanFiles
  <2> QED
    BY <1>8, <2>2, <2>4, PlanPasses DEF acc1, e
<1>9. CASE ~(acc.files[n] # {} /\ ~frc) /\ e.chunks > 0
  <2> DEFINE J == Append(acc.jobs, NewJob(e))
             len == Len(acc.jobs)
  <2>1. acc1 = [acc EXCEPT !.jobs = J]
    BY <1>9 DEF PlanEntry
  <2>2. NewJob(e) \in JobRec /\ NewJob(e).part = e
    BY <1>1 DEF NewJob, JobRec
  <2>3. /\ J \in Seq(JobRec) /\ Len(J) = len + 1 /\ J[len + 1] = NewJob(e)
        /\ \A j \in 1 .. len : J[j] = acc.jobs[j]
        /\ DOMAIN J = 1 .. len + 1 /\ DOMAIN acc.jobs = 1 .. len
    BY <1>4, <2>2, AppendProperties, LenProperties
  <2> HIDE DEF J, acc1
  <2>4. acc1 \in PlanRec /\ acc1.jobs = J /\ acc1.files = acc.files
    BY <1>4, <2>1, <2>3 DEF PlanRec
  <2>5. PlanFiles(acc1, i + 1, frc)
    BY <1>5, <2>4 DEF PlanFiles
  <2>6. ~Skipped(n, frc)
    BY <1>1, <1>4, <1>9 DEF PlanFiles, Skipped
  <2>7. \A j \in DOMAIN J : (j \in DOMAIN acc.jobs /\ J[j] = acc.jobs[j]) \/ j = len + 1
    BY <1>4, <2>3
  <2>8. PlanJobs(acc1, i + 1, frc)
    <3>1. ASSUME NEW j \in DOMAIN J
          PROVE  \E m \in 1 .. i + 1 : /\ J[j] = NewJob(Listing[m])
                                       /\ Listing[m].chunks > 0
                                       /\ ~Skipped(Listing[m].name, frc)
      <4>1. CASE j = len + 1
        BY <1>1, <1>9, <2>3, <2>6, <4>1 DEF e
      <4>2. CASE j \in DOMAIN acc.jobs /\ J[j] = acc.jobs[j]
        BY <1>1, <1>4, <4>2 DEF PlanJobs
      <4> QED
        BY <2>7, <4>1, <4>2
    <3> QED
      BY <2>4, <3>1 DEF PlanJobs
  <2>9. PlanApart(acc1)
    <3>1. ASSUME Sole(n) # {}, NEW j \in DOMAIN acc.jobs, acc.jobs[j].part.name = n
          PROVE  FALSE
      <4>1. PICK m \in 1 .. i : acc.jobs[j] = NewJob(Listing[m])
        BY <1>4 DEF PlanJobs
      <4>2. Listing[m].name = n
        BY <3>1, <4>1 DEF NewJob
      <4> QED
        BY <1>2, <3>1, <4>2
    <3>2. ASSUME NEW j \in DOMAIN J, NEW k \in DOMAIN J,
                 Sole(J[j].part.name) # {}, J[j].part.name = J[k].part.name
          PROVE  j = k
      <4>1. CASE j \in DOMAIN acc.jobs /\ J[j] = acc.jobs[j] /\ k \in DOMAIN acc.jobs /\ J[k] = acc.jobs[k]
        BY <1>4, <3>2, <4>1 DEF PlanApart
      <4>2. CASE j = len + 1 \/ k = len + 1
        BY <2>2, <2>3, <2>7, <3>1, <3>2, <4>2
      <4> QED
        BY <2>7, <4>1, <4>2
    <3> QED
      BY <2>4, <3>2 DEF PlanApart
  <2>10. PlanCovers(acc1, i + 1, frc)
    <3>1. len + 1 \in DOMAIN J /\ \A j \in DOMAIN acc.jobs : j \in DOMAIN J /\ J[j] = acc.jobs[j]
      BY <1>4, <2>3
    <3> QED
      BY <1>3, <1>4, <2>2, <2>3, <2>4, <3>1 DEF PlanCovers, e
  <2>11. Len(acc1.jobs) <= i + 1
    BY <1>4, <2>3, <2>4
  <2> QED
    BY <2>4, <2>5, <2>8, <2>9, <2>10, <2>11 DEF PlanOK, acc1, e
<1> QED
  BY <1>6, <1>7, <1>8, <1>9 DEF e

LEMMA PlanSound ==
  ASSUME FilesOK, NEW frc \in BOOLEAN, NEW bad
  PROVE  PlanOK(Plan(frc, bad), Len(Listing), frc)
<1> DEFINE N == Len(Listing)
<1>1. PICK plan : plan = PlanSteps(plan, frc, bad) /\ Plan(frc, bad) = plan[N]
  BY PlanRounds
<1> DEFINE T == {i \in Nat : i <= N => PlanOK(plan[i], i, frc)}
<1>2. N \in Nat
  BY EntryFacts
<1>3. /\ plan[0] = [files |-> files, jobs |-> <<>>]
      /\ \A i \in Nat : i + 1 <= N => plan[i + 1] = PlanEntry(plan[i], Listing[i + 1], frc, bad)
  <2>1. plan[0] = [files |-> files, jobs |-> <<>>]
    BY <1>1, <1>2 DEF PlanSteps
  <2>2. ASSUME NEW i \in Nat, i + 1 <= N
        PROVE  plan[i + 1] = PlanEntry(plan[i], Listing[i + 1], frc, bad)
    <3>1. i + 1 \in 0 .. N /\ i + 1 # 0 /\ (i + 1) - 1 = i
      BY <1>2, <2>2
    <3> QED
      BY <1>1, <3>1 DEF PlanSteps
  <2> QED
    BY <2>1, <2>2
<1>4. 0 \in T
  <2>1. /\ plan[0].files = files /\ plan[0].jobs = <<>> /\ plan[0] \in PlanRec
        /\ DOMAIN <<>> = {} /\ Len(<<>>) = 0
    <3>1. <<>> \in Seq(JobRec)
      OBVIOUS
    <3>2. files \in [Names -> {files[n] : n \in Names} \cup {{Empty}}]
      BY DEF FilesOK
    <3> QED
      BY <1>3, <3>1, <3>2 DEF PlanRec
  <2>2. PlanOK(plan[0], 0, frc)
    BY <2>1 DEF PlanOK, PlanJobs, PlanApart, PlanCovers, PlanFiles
  <2> QED
    BY <2>2
<1>5. ASSUME NEW i \in Nat, i \in T PROVE i + 1 \in T
  <2>1. ASSUME i + 1 <= N PROVE PlanOK(plan[i + 1], i + 1, frc)
    <3>1. PlanOK(plan[i], i, frc) /\ i + 1 \in JobNumbers
      BY <1>2, <1>5, <2>1 DEF JobNumbers
    <3>2. PlanOK(PlanEntry(plan[i], Listing[i + 1], frc, bad), i + 1, frc)
      BY <3>1, PlanRound
    <3> QED
      BY <1>3, <2>1, <3>2
  <2> QED
    BY <2>1
<1>6. N \in T
  <2> HIDE DEF T, N
  <2> QED
    BY <1>2, <1>4, <1>5, CountUp
<1> QED
  BY <1>1, <1>2, <1>6

----------------------------------------------------------------------------
\* The steps.
LEMMA InvFacts ==
  ASSUME IInv
  PROVE  /\ DOMAIN files = Names /\ files = [n \in Names |-> files[n]]
         /\ jobs \in Seq(JobRec) /\ Len(jobs) \in Nat /\ DOMAIN jobs = 1 .. Len(jobs)
         /\ \A j \in DOMAIN jobs :
              /\ jobs[j] \in JobRec /\ jobs[j].part \in Entries /\ Path(j) \in Names
              /\ jobs[j].part.chunks \in Nat /\ jobs[j].part.chunks > 0
              /\ jobs[j].at \in Nat /\ jobs[j].at <= jobs[j].part.chunks
              /\ Direct(jobs[j].part) \in Nat
              /\ Direct(jobs[j].part) = IF jobs[j].part.tail THEN jobs[j].part.chunks - 1
                                        ELSE jobs[j].part.chunks
<1>1. files = [n \in Names |-> files[n]] /\ jobs \in Seq(JobRec)
  BY DEF IInv, FilesOK, JobsOK
<1>2. Len(jobs) \in Nat /\ DOMAIN jobs = 1 .. Len(jobs)
  BY <1>1, LenProperties
<1>3. ASSUME NEW j \in DOMAIN jobs
      PROVE  /\ jobs[j] \in JobRec /\ jobs[j].part \in Entries /\ Path(j) \in Names
             /\ jobs[j].part.chunks \in Nat /\ jobs[j].part.chunks > 0
             /\ jobs[j].at \in Nat /\ jobs[j].at <= jobs[j].part.chunks
             /\ Direct(jobs[j].part) \in Nat
             /\ Direct(jobs[j].part) = IF jobs[j].part.tail THEN jobs[j].part.chunks - 1
                                       ELSE jobs[j].part.chunks
  <2>1. jobs[j] \in JobRec
    BY <1>1, <1>2, ElementOfSeq
  <2>2. jobs[j].part \in Entries /\ jobs[j].at \in Nat
    BY <2>1 DEF JobRec
  <2>3. jobs[j].at <= jobs[j].part.chunks /\ jobs[j].part.chunks > 0
    BY DEF IInv, JobsOK
  <2>4. /\ jobs[j].part.chunks \in Nat /\ jobs[j].part.name \in Names
        /\ jobs[j].part.tail \in BOOLEAN
    BY <2>2, EntryFacts
  <2>5. Direct(jobs[j].part) = IF jobs[j].part.tail THEN jobs[j].part.chunks - 1
                               ELSE jobs[j].part.chunks
    BY DEF Direct
  <2> QED
    BY <2>1, <2>2, <2>3, <2>4, <2>5 DEF Path
<1> QED
  BY <1>1, <1>2, <1>3

LEMMA StartSound ==
  ASSUME IInv, NEW frc \in BOOLEAN, NEW bad \in SUBSET Names, Start(frc, bad)
  PROVE  IInv' /\ ExistingKept
<1> DEFINE plan == Plan(frc, bad)
<1>1. /\ files' = plan.files /\ jobs' = plan.jobs /\ phase' = Running /\ force' = frc
      /\ before' = {n \in Names : files[n] # {}} /\ runs' = runs + 1 /\ runs < MaxRuns
  BY DEF Start, Exists
<1>2. PlanOK(plan, Len(Listing), frc)
  BY PlanSound DEF IInv
<1>3. /\ plan \in PlanRec /\ Len(plan.jobs) <= Len(Listing)
      /\ PlanJobs(plan, Len(Listing), frc) /\ PlanApart(plan)
      /\ PlanCovers(plan, Len(Listing), frc) /\ PlanFiles(plan, Len(Listing), frc)
  BY <1>2 DEF PlanOK
<1> HIDE DEF plan
<1>4. FilesOK'
  <2>1. files' = [n \in Names |-> files'[n]]
    BY <1>1, <1>3 DEF PlanRec
  <2>2. ASSUME NEW n \in Names PROVE \A c, d \in files'[n] : c = d
    BY <1>1, <1>3 DEF PlanFiles, IInv, FilesOK
  <2> QED
    BY <2>1, <2>2 DEF FilesOK
<1>5. \A j \in DOMAIN jobs' : \E m \in JobNumbers :
        /\ jobs'[j] = NewJob(Listing[m])
        /\ Listing[m].chunks > 0 /\ ~Skipped(Listing[m].name, frc)
  BY <1>1, <1>3 DEF PlanJobs, JobNumbers
<1>6. ASSUME NEW j \in DOMAIN jobs'
      PROVE  /\ jobs'[j].at = 0 /\ jobs'[j].st = Queued /\ jobs'[j].part \in Entries
             /\ jobs'[j].part.chunks > 0 /\ jobs'[j].part.chunks \in Nat
             /\ ~Skipped(jobs'[j].part.name, frc) /\ jobs'[j].part.name \in Names
  BY <1>5, EntryFacts DEF NewJob
<1>7. JobsOK'
  BY <1>1, <1>3, <1>6 DEF JobsOK, PlanRec
<1>8. SoleApart'
  BY <1>1, <1>3 DEF SoleApart, PlanApart, Path
<1>9. SoleOK'
  <2>1. ASSUME NEW j \in DOMAIN jobs', Sole(jobs'[j].part.name) # {}, jobs'[j].part.name \notin before'
        PROVE  files'[jobs'[j].part.name] = {}
    <3> DEFINE n == jobs'[j].part.name
    <3>1. n \in Names /\ files[n] = {}
      BY <1>1, <1>6, <2>1
    <3>2. PICK m \in JobNumbers : /\ jobs'[j] = NewJob(Listing[m])
                                  /\ Listing[m].chunks > 0
      BY <1>5
    <3>3. Listing[m].name = n
      BY <3>2 DEF NewJob
    <3>4. \A k \in JobNumbers : Listing[k].name = n => k = m
      BY <2>1, <3>3, SoleFacts
    <3>5. ~\E k \in JobNumbers : Listing[k].name = n /\ Listing[k].chunks = 0
      BY <3>2, <3>4
    <3> QED
      BY <1>1, <1>3, <3>1, <3>5 DEF PlanFiles, JobNumbers
  <2> QED
    BY <1>6, <2>1 DEF SoleOK, JobOK, Path, Queued, Created, Copying, Extracted, Failed
<1>10. Planned'
  <2>1. ASSUME NEW n \in Wanted', NEW e \in Sole(n), e.chunks > 0
        PROVE  \E j \in DOMAIN jobs' : jobs'[j].part = e
    <3>1. PICK k \in JobNumbers : Listing[k].name = n /\ Sole(n) = {Listing[k]}
      BY <2>1, SoleFacts
    <3>2. e = Listing[k] /\ Listing[k] \in Sole(Listing[k].name) /\ n \in Names
      BY <2>1, <3>1 DEF Wanted
    <3>3. ~Skipped(n, frc)
      BY <1>1, <2>1, <3>2 DEF Wanted, Skipped
    <3> QED
      BY <1>1, <1>3, <2>1, <3>1, <3>2, <3>3 DEF PlanCovers, JobNumbers
  <2> QED
    BY <2>1 DEF Planned
<1>11. LeftAlone'
  BY <1>1, <1>6 DEF LeftAlone, Skipped, Path
<1>12. PhaseOK'
  BY <1>1, ListingAssumption DEF PhaseOK, IInv, Running, Success
<1>13. ExistingKept
  BY <1>1, <1>3 DEF ExistingKept, PlanFiles, Skipped
<1> QED
  BY <1>4, <1>7, <1>8, <1>9, <1>10, <1>11, <1>12, <1>13 DEF IInv

\* A job makes a step: others with its path may lose their file, and then the
\* name is in the listing more than once.
OneJob(j, r, F) ==
  /\ DOMAIN jobs' = DOMAIN jobs /\ jobs' \in Seq(JobRec) /\ Len(jobs') = Len(jobs)
  /\ jobs'[j] = r /\ r.part = jobs[j].part /\ r.at <= r.part.chunks
  /\ \A i \in DOMAIN jobs : i # j =>
       /\ jobs'[i].part = jobs[i].part /\ jobs'[i].at = jobs[i].at /\ jobs'[i].st = jobs[i].st
       /\ jobs'[i] # jobs[i] => Path(i) = Path(j)
  /\ files' = [files EXCEPT ![Path(j)] = F]
  /\ \A c, d \in F : c = d

LEMMA JobSound ==
  ASSUME IInv, phase = Running, NEW j \in DOMAIN jobs, NEW r, NEW F, OneJob(j, r, F),
         UNCHANGED <<phase, force, before, runs>>,
         Sole(Path(j)) # {} => JobOK(r, F, Path(j) \notin before)
  PROVE  IInv' /\ ExistingKept
<1> DEFINE n == Path(j)
<1>1. /\ FilesOK /\ JobsOK /\ SoleApart /\ SoleOK /\ Planned /\ LeftAlone /\ PhaseOK
      /\ n \in Names /\ DOMAIN files = Names
  BY InvFacts DEF IInv
<1>2. files'[n] = F /\ \A m \in Names : m # n => files'[m] = files[m]
  BY <1>1 DEF OneJob
<1>3. \A i \in DOMAIN jobs : jobs'[i].part = jobs[i].part /\ jobs'[i].part.name = Path(i)
  BY DEF OneJob, Path
<1>4. FilesOK'
  <2>1. files' = [m \in Names |-> files'[m]]
    BY <1>1 DEF OneJob
  <2>2. ASSUME NEW m \in Names PROVE \A c, d \in files'[m] : c = d
    BY <1>1, <1>2 DEF FilesOK, OneJob
  <2> QED
    BY <2>1, <2>2 DEF FilesOK
<1>5. JobsOK'
  BY <1>1 DEF JobsOK, OneJob
<1>6. SoleApart'
  BY <1>1, <1>3 DEF SoleApart, OneJob, Path
<1>7. SoleOK'
  <2>1. ASSUME NEW i \in DOMAIN jobs, Sole(Path(i)) # {}
        PROVE  JobOK(jobs'[i], files'[Path(i)], Path(i) \notin before)
    <3>1. CASE i = j
      BY <1>2, <2>1, <3>1 DEF OneJob
    <3>2. CASE i # j
      <4>1. Path(i) # n
        BY <1>1, <2>1, <3>2 DEF SoleApart
      <4>2. jobs'[i] = jobs[i]
        BY <3>2, <4>1 DEF OneJob
      <4>3. files'[Path(i)] = files[Path(i)]
        BY <1>2, <4>1, InvFacts
      <4> QED
        BY <1>1, <2>1, <4>2, <4>3 DEF SoleOK
    <3> QED
      BY <3>1, <3>2
  <2> QED
    BY <1>3, <2>1 DEF SoleOK, OneJob, Path
<1>8. Planned'
  BY <1>1, <1>3 DEF Planned, OneJob, Wanted
<1>9. LeftAlone'
  BY <1>1, <1>3 DEF LeftAlone, OneJob, Path
<1>10. PhaseOK'
  BY <1>1 DEF PhaseOK, Running, Success
<1>11. ExistingKept
  BY <1>1, <1>2 DEF ExistingKept, LeftAlone, PhaseOK
<1> QED
  BY <1>4, <1>5, <1>6, <1>7, <1>8, <1>9, <1>10, <1>11 DEF IInv

\* Only the job itself changes.
LEMMA ItselfOnly ==
  ASSUME IInv, NEW j \in DOMAIN jobs, NEW r \in JobRec, jobs' = [jobs EXCEPT ![j] = r],
         r.part = jobs[j].part, r.at <= r.part.chunks,
         NEW F, files' = [files EXCEPT ![Path(j)] = F], \A c, d \in F : c = d
  PROVE  OneJob(j, r, F)
<1>1. jobs \in Seq(JobRec) /\ DOMAIN jobs = 1 .. Len(jobs)
  BY InvFacts
<1>2. jobs' \in Seq(JobRec) /\ Len(jobs') = Len(jobs) /\ DOMAIN jobs' = DOMAIN jobs
  BY <1>1, ExceptSeq
<1>3. jobs'[j] = r /\ \A i \in DOMAIN jobs : i # j => jobs'[i] = jobs[i]
  BY <1>1
<1> QED
  BY <1>2, <1>3 DEF OneJob

LEMMA FileStays ==
  ASSUME IInv, NEW j \in DOMAIN jobs, files' = files
  PROVE  files' = [files EXCEPT ![Path(j)] = files[Path(j)]]
         /\ \A c, d \in files[Path(j)] : c = d
BY InvFacts DEF IInv, FilesOK

LEMMA CreateOutputSound ==
  ASSUME IInv, phase = Running, NEW j \in DOMAIN jobs, CreateOutput(j) \/ CreateFails(j),
         UNCHANGED <<phase, force, before, runs>>
  PROVE  IInv' /\ ExistingKept
<1>1. jobs[j].st = Queued /\ jobs[j] \in JobRec /\ jobs[j].at <= jobs[j].part.chunks
  BY InvFacts DEF CreateOutput, CreateFails
<1>2. Sole(Path(j)) # {} => jobs[j].at = 0 /\ (Path(j) \notin before => files[Path(j)] = {})
  BY <1>1 DEF IInv, SoleOK, JobOK
<1>3. CASE CreateOutput(j)
  <2> DEFINE r == [jobs[j] EXCEPT !.st = Created, !.linked = TRUE]
  <2>1. /\ r \in JobRec /\ r.part = jobs[j].part /\ r.at = jobs[j].at
        /\ r.st = Created /\ r.linked = TRUE
    BY <1>1 DEF JobRec
  <2>2. jobs' = [jobs EXCEPT ![j] = r] /\ files' = [files EXCEPT ![Path(j)] = {Empty}]
    BY <1>3 DEF CreateOutput
  <2> HIDE DEF r
  <2>3. OneJob(j, r, {Empty})
    BY <1>1, <2>1, <2>2, ItselfOnly
  <2>4. Sole(Path(j)) # {} => JobOK(r, {Empty}, Path(j) \notin before)
    BY <1>2, <2>1 DEF JobOK, Queued, Created, Copying, Extracted, Failed
  <2> QED
    BY <2>3, <2>4, JobSound
<1>4. CASE CreateFails(j)
  <2> DEFINE r == [jobs[j] EXCEPT !.st = Failed]
             F == files[Path(j)]
  <2>1. r \in JobRec /\ r.part = jobs[j].part /\ r.at = jobs[j].at /\ r.st = Failed
    BY <1>1 DEF JobRec
  <2>2. /\ jobs' = [jobs EXCEPT ![j] = r] /\ files' = [files EXCEPT ![Path(j)] = F]
        /\ \A c, d \in F : c = d
    BY <1>4, FileStays DEF CreateFails, Becomes
  <2> HIDE DEF r, F
  <2>3. OneJob(j, r, F)
    BY <1>1, <2>1, <2>2, ItselfOnly
  <2>4. Sole(Path(j)) # {} => JobOK(r, F, Path(j) \notin before)
    BY <1>2, <2>1 DEF JobOK, Queued, Created, Copying, Extracted, Failed, F
  <2> QED
    BY <2>3, <2>4, JobSound
<1> QED
  BY <1>3, <1>4

LEMMA OpenImageSound ==
  ASSUME IInv, phase = Running, NEW j \in DOMAIN jobs, OpenImage(j),
         UNCHANGED <<phase, force, before, runs>>
  PROVE  IInv' /\ ExistingKept
<1>1. jobs[j].st = Created /\ jobs[j] \in JobRec /\ jobs[j].at <= jobs[j].part.chunks
  BY InvFacts DEF OpenImage
<1>2. Sole(Path(j)) # {} => jobs[j].at = 0 /\ jobs[j].linked /\ files[Path(j)] = {Empty}
  BY <1>1 DEF IInv, SoleOK, JobOK
<1>3. PICK st \in {Copying, Failed} : Becomes(j, st)
  BY DEF OpenImage
<1> DEFINE r == [jobs[j] EXCEPT !.st = st]
           F == files[Path(j)]
<1>4. /\ r \in JobRec /\ r.part = jobs[j].part /\ r.at = jobs[j].at /\ r.st = st
      /\ r.linked = jobs[j].linked
  BY <1>1 DEF JobRec
<1>5. /\ jobs' = [jobs EXCEPT ![j] = r] /\ files' = [files EXCEPT ![Path(j)] = F]
      /\ \A c, d \in F : c = d
  BY <1>3, FileStays DEF OpenImage, Becomes
<1> HIDE DEF r, F
<1>6. OneJob(j, r, F)
  BY <1>1, <1>4, <1>5, ItselfOnly
<1>7. r.at = 0 => Flushed(r) = 0
  BY <1>4, InvFacts DEF Flushed
<1>8. Sole(Path(j)) # {} => JobOK(r, F, Path(j) \notin before)
  <2>1. CASE st = Copying
    BY <1>2, <1>4, <1>7, <2>1, EmptyContent DEF JobOK, Queued, Created, Copying, Extracted, Failed, F
  <2>2. CASE st = Failed
    BY <1>2, <1>4, <2>2 DEF JobOK, Queued, Created, Copying, Extracted, Failed, F
  <2> QED
    BY <2>1, <2>2
<1> QED
  BY <1>6, <1>8, JobSound

----------------------------------------------------------------------------
\* One more block at the end.
LEMMA PutNext ==
  ASSUME NEW e, NEW m \in Nat
  PROVE  Put(Content(e, m), m + 1, Block(e, m + 1)) = Content(e, m + 1)
<1>1. DOMAIN Content(e, m) \cup {m + 1} = 1 .. m + 1
  BY DEF Content
<1>2. ASSUME NEW i \in 1 .. m + 1
      PROVE  (IF i = m + 1 THEN Block(e, m + 1) ELSE Content(e, m)[i]) = Block(e, i)
  BY DEF Content
<1> QED
  BY <1>1, <1>2 DEF Put, Content

\* What a job has written of its own file.
LEMMA WrittenIs ==
  ASSUME IInv, NEW j \in DOMAIN jobs, NEW k
  PROVE  \E F : /\ Written(j, k) = [files EXCEPT ![Path(j)] = F]
                /\ \A c, d \in F : c = d
                /\ \A c : jobs[j].linked /\ files[Path(j)] = {c} =>
                     F = {Put(c, k, Block(jobs[j].part, k))}
<1>1. CASE jobs[j].linked
  <2> DEFINE F == {Put(c, k, Block(jobs[j].part, k)) : c \in files[Path(j)]}
  <2>1. Written(j, k) = [files EXCEPT ![Path(j)] = F]
    BY <1>1 DEF Written
  <2>2. \A c, d \in files[Path(j)] : c = d
    BY InvFacts DEF IInv, FilesOK
  <2>3. \A c, d \in F : c = d
    BY <2>2
  <2>4. ASSUME NEW c, files[Path(j)] = {c} PROVE F = {Put(c, k, Block(jobs[j].part, k))}
    BY <2>4
  <2> HIDE DEF F
  <2> QED
    BY <2>1, <2>3, <2>4
<1>2. CASE ~jobs[j].linked
  <2> DEFINE F == files[Path(j)]
  <2>1. Written(j, k) = files
    BY <1>2 DEF Written
  <2>2. files = [files EXCEPT ![Path(j)] = F] /\ \A c, d \in F : c = d
    BY InvFacts DEF IInv, FilesOK
  <2> HIDE DEF F
  <2> QED
    BY <1>2, <2>1, <2>2
<1> QED
  BY <1>1, <1>2

LEMMA CopyChunkSound ==
  ASSUME IInv, phase = Running, NEW j \in DOMAIN jobs, CopyChunk(j),
         UNCHANGED <<phase, force, before, runs>>
  PROVE  IInv' /\ ExistingKept
<1> DEFINE e == jobs[j].part
           k == jobs[j].at + 1
           r == [jobs[j] EXCEPT !.at = k]
<1>1. /\ jobs[j].st = Copying /\ k <= e.chunks /\ jobs[j] \in JobRec /\ jobs[j].at \in Nat
      /\ k \in Nat /\ Direct(e) \in Nat
  BY InvFacts DEF CopyChunk
<1>2. Sole(Path(j)) # {} => jobs[j].linked /\ files[Path(j)] = {Content(e, Flushed(jobs[j]))}
  BY <1>1 DEF IInv, SoleOK, JobOK
<1>3. /\ r \in JobRec /\ r.part = e /\ r.at = k /\ r.st = Copying /\ r.linked = jobs[j].linked
      /\ jobs' = [jobs EXCEPT ![j] = r]
  BY <1>1 DEF CopyChunk, JobRec
<1> HIDE DEF r
<1>4. CASE k <= Direct(e)
  <2>1. files' = Written(j, k)
    BY <1>4 DEF CopyChunk
  <2>2. PICK F : /\ Written(j, k) = [files EXCEPT ![Path(j)] = F]
                 /\ \A c, d \in F : c = d
                 /\ \A c : jobs[j].linked /\ files[Path(j)] = {c} => F = {Put(c, k, Block(e, k))}
    BY WrittenIs
  <2>3. OneJob(j, r, F)
    BY <1>1, <1>3, <2>1, <2>2, ItselfOnly
  <2>4. Flushed(jobs[j]) = jobs[j].at /\ Flushed(r) = k
    BY <1>1, <1>3, <1>4 DEF Flushed
  <2>5. Put(Content(e, jobs[j].at), k, Block(e, k)) = Content(e, k)
    BY <1>1, PutNext
  <2>6. Sole(Path(j)) # {} => JobOK(r, F, Path(j) \notin before)
    BY <1>2, <1>3, <2>2, <2>4, <2>5 DEF JobOK, Queued, Created, Copying, Extracted, Failed
  <2> QED
    BY <2>3, <2>6, JobSound
<1>5. CASE ~(k <= Direct(e))
  <2> DEFINE F == files[Path(j)]
  <2>1. files' = [files EXCEPT ![Path(j)] = F] /\ \A c, d \in F : c = d
    BY <1>5, FileStays DEF CopyChunk
  <2>2. Flushed(r) = Flushed(jobs[j])
    BY <1>1, <1>3, <1>5 DEF Flushed
  <2> HIDE DEF F
  <2>3. OneJob(j, r, F)
    BY <1>1, <1>3, <2>1, ItselfOnly
  <2>4. Sole(Path(j)) # {} => JobOK(r, F, Path(j) \notin before)
    BY <1>2, <1>3, <2>2 DEF JobOK, Queued, Created, Copying, Extracted, Failed, F
  <2> QED
    BY <2>3, <2>4, JobSound
<1> QED
  BY <1>4, <1>5

\* The other jobs of the path lose their file too.
LEMMA CopyFailsSound ==
  ASSUME IInv, phase = Running, NEW j \in DOMAIN jobs, CopyFails(j),
         UNCHANGED <<phase, force, before, runs>>
  PROVE  IInv' /\ ExistingKept
<1> DEFINE r == [jobs[j] EXCEPT !.st = Failed, !.linked = FALSE]
           J(i) == IF i = j THEN r
                   ELSE IF Path(i) = Path(j) THEN [jobs[i] EXCEPT !.linked = FALSE]
                   ELSE jobs[i]
<1>1. /\ jobs[j] \in JobRec /\ jobs[j].at <= jobs[j].part.chunks
      /\ jobs \in Seq(JobRec) /\ DOMAIN jobs = 1 .. Len(jobs) /\ Len(jobs) \in Nat
      /\ \A i \in DOMAIN jobs : jobs[i] \in JobRec
  BY InvFacts
<1>2. files' = [files EXCEPT ![Path(j)] = {}] /\ jobs' = [i \in DOMAIN jobs |-> J(i)]
  BY DEF CopyFails
<1>3. /\ r \in JobRec /\ r.part = jobs[j].part /\ r.at = jobs[j].at /\ r.st = Failed
  BY <1>1 DEF JobRec
<1>4. ASSUME NEW i \in DOMAIN jobs
      PROVE  /\ J(i) \in JobRec
             /\ i # j => /\ J(i).part = jobs[i].part /\ J(i).at = jobs[i].at
                         /\ J(i).st = jobs[i].st /\ (J(i) # jobs[i] => Path(i) = Path(j))
  <2>1. jobs[i] \in JobRec
    BY <1>1
  <2>2. /\ [jobs[i] EXCEPT !.linked = FALSE] \in JobRec
        /\ [jobs[i] EXCEPT !.linked = FALSE].part = jobs[i].part
        /\ [jobs[i] EXCEPT !.linked = FALSE].at = jobs[i].at
        /\ [jobs[i] EXCEPT !.linked = FALSE].st = jobs[i].st
    BY <2>1 DEF JobRec
  <2> HIDE DEF r
  <2> QED
    BY <1>3, <2>1, <2>2
<1>5. J(j) = r
  OBVIOUS
<1> HIDE DEF J, r
<1>6. jobs' \in Seq(JobRec) /\ Len(jobs') = Len(jobs) /\ DOMAIN jobs' = DOMAIN jobs
  <2>1. jobs' \in [1 .. Len(jobs) -> JobRec]
    BY <1>1, <1>2, <1>4
  <2> QED
    BY <1>1, <2>1, LenProperties
<1>7. OneJob(j, r, {})
  BY <1>1, <1>2, <1>3, <1>4, <1>5, <1>6 DEF OneJob
<1>8. Sole(Path(j)) # {} => JobOK(r, {}, Path(j) \notin before)
  BY <1>3 DEF JobOK, Queued, Created, Copying, Extracted, Failed
<1> QED
  BY <1>7, <1>8, JobSound

LEMMA CloseSound ==
  ASSUME IInv, phase = Running, NEW j \in DOMAIN jobs, Close(j),
         UNCHANGED <<phase, force, before, runs>>
  PROVE  IInv' /\ ExistingKept
<1> DEFINE e == jobs[j].part
           r == [jobs[j] EXCEPT !.st = Extracted]
<1>1. /\ jobs[j].st = Copying /\ jobs[j].at = e.chunks /\ jobs[j] \in JobRec
      /\ e.chunks \in Nat /\ Direct(e) \in Nat
      /\ Direct(e) = IF e.tail THEN e.chunks - 1 ELSE e.chunks
  BY InvFacts DEF Close
<1>2. Flushed(jobs[j]) = Direct(e)
  BY <1>1 DEF Flushed
<1>3. Sole(Path(j)) # {} => jobs[j].linked /\ files[Path(j)] = {Content(e, Direct(e))}
  BY <1>1, <1>2 DEF IInv, SoleOK, JobOK
<1>4. /\ r \in JobRec /\ r.part = e /\ r.at = jobs[j].at /\ r.st = Extracted
      /\ jobs' = [jobs EXCEPT ![j] = r]
  BY <1>1 DEF Close, Becomes, JobRec
<1> HIDE DEF r
<1>7. r.part = jobs[j].part /\ r.at <= r.part.chunks
  BY <1>1, <1>4
<1>5. CASE files' = files
  <2> DEFINE F == files[Path(j)]
  <2>1. files' = [files EXCEPT ![Path(j)] = F] /\ \A c, d \in F : c = d
    BY <1>5, FileStays
  <2> HIDE DEF F
  <2>2. OneJob(j, r, F)
    BY <1>4, <1>7, <2>1, ItselfOnly
  <2>3. Sole(Path(j)) # {} => JobOK(r, F, Path(j) \notin before)
    BY <1>3, <1>4 DEF JobOK, Queued, Created, Copying, Extracted, Failed, F
  <2> QED
    BY <2>2, <2>3, JobSound
<1>6. CASE files' # files
  <2> DEFINE k == e.chunks
  <2>1. files' = Written(j, k) /\ k = Direct(e) + 1
    BY <1>1, <1>6 DEF Close
  <2>2. PICK F : /\ Written(j, k) = [files EXCEPT ![Path(j)] = F]
                 /\ \A c, d \in F : c = d
                 /\ \A c : jobs[j].linked /\ files[Path(j)] = {c} => F = {Put(c, k, Block(e, k))}
    BY WrittenIs
  <2>3. OneJob(j, r, F)
    BY <1>4, <1>7, <2>1, <2>2, ItselfOnly
  <2>4. Put(Content(e, Direct(e)), k, Block(e, k)) = Content(e, k)
    BY <1>1, <2>1, PutNext
  <2>5. Sole(Path(j)) # {} => JobOK(r, F, Path(j) \notin before)
    BY <1>3, <1>4, <2>2, <2>4 DEF JobOK, Queued, Created, Copying, Extracted, Failed
  <2> QED
    BY <2>3, <2>5, JobSound
<1> QED
  BY <1>5, <1>6

LEMMA ExitSound ==
  ASSUME IInv, Exit
  PROVE  IInv' /\ ExistingKept
<1>1. /\ phase' \in {Failure, Success} /\ phase = Running
      /\ phase' = Success => \A j \in DOMAIN jobs : jobs[j].st = Extracted
      /\ UNCHANGED <<files, jobs, force, before, runs>>
  BY DEF Exit, Failure, Success
<1>2. FilesOK' /\ JobsOK' /\ SoleApart' /\ SoleOK' /\ LeftAlone'
  BY <1>1 DEF IInv, FilesOK, JobsOK, SoleApart, SoleOK, LeftAlone, Path
<1>3. Planned'
  BY <1>1 DEF IInv, Planned, Wanted
<1>4. PhaseOK'
  BY <1>1 DEF IInv, PhaseOK
<1> QED
  BY <1>1, <1>2, <1>3, <1>4 DEF IInv, ExistingKept

LEMMA KillSound ==
  ASSUME IInv, Kill
  PROVE  IInv' /\ ExistingKept
<1>1. /\ jobs' = <<>> /\ phase' = Killed /\ UNCHANGED <<files, force, before, runs>>
      /\ DOMAIN <<>> = {} /\ Len(<<>>) = 0 /\ <<>> \in Seq(JobRec) /\ Len(Listing) \in Nat
  BY EntryFacts DEF Kill
<1>2. FilesOK' /\ JobsOK' /\ SoleApart' /\ SoleOK' /\ LeftAlone'
  BY <1>1 DEF IInv, FilesOK, JobsOK, SoleApart, SoleOK, LeftAlone, Path
<1>3. Planned' /\ PhaseOK'
  BY <1>1 DEF IInv, Planned, PhaseOK, Running, Success, Failure, Killed
<1> QED
  BY <1>1, <1>2, <1>3 DEF IInv, ExistingKept

----------------------------------------------------------------------------
LEMMA InitSound == Init => IInv
<1> SUFFICES ASSUME Init PROVE IInv
  OBVIOUS
<1>1. PICK old \in SUBSET Names :
        files = [n \in Names |-> IF n \in old THEN {Foreign(n)} ELSE {}]
  BY DEF Init
<1>2. FilesOK
  BY <1>1 DEF FilesOK
<1>3. /\ jobs = <<>> /\ DOMAIN <<>> = {} /\ Len(<<>>) = 0 /\ <<>> \in Seq(JobRec)
      /\ Len(Listing) \in Nat
  BY EntryFacts DEF Init
<1>4. JobsOK /\ SoleApart /\ SoleOK /\ LeftAlone
  BY <1>3 DEF JobsOK, SoleApart, SoleOK, LeftAlone
<1>5. Planned
  BY DEF Init, Planned, Off, Running, Success, Failure
<1>6. PhaseOK
  <2>1. 0 \in 0 .. MaxRuns
    BY ListingAssumption
  <2> QED
    BY <2>1 DEF Init, PhaseOK, Off, Success
<1> QED
  BY <1>2, <1>4, <1>5, <1>6 DEF IInv

LEMMA NextSound ==
  ASSUME IInv, [Next]_vars
  PROVE  IInv' /\ ExistingKept
<1>1. CASE UNCHANGED vars
  <2>1. UNCHANGED <<files, jobs, phase, force, before, runs>>
    BY <1>1 DEF vars
  <2>2. FilesOK' /\ JobsOK' /\ SoleApart' /\ SoleOK' /\ LeftAlone'
    BY <2>1 DEF IInv, FilesOK, JobsOK, SoleApart, SoleOK, LeftAlone, Path
  <2>3. Planned' /\ PhaseOK'
    BY <2>1 DEF IInv, Planned, Wanted, PhaseOK
  <2> QED
    BY <2>1, <2>2, <2>3 DEF IInv, ExistingKept
<1>2. ASSUME NEW frc \in BOOLEAN, NEW bad \in SUBSET Names, Start(frc, bad)
      PROVE  IInv' /\ ExistingKept
  BY <1>2, StartSound
<1>3. ASSUME NEW j \in JobNumbers, JobStep(j) PROVE IInv' /\ ExistingKept
  <2>1. phase = Running /\ j \in DOMAIN jobs /\ UNCHANGED <<phase, force, before, runs>>
    BY <1>3 DEF JobStep
  <2>2. CASE CreateOutput(j) \/ CreateFails(j)
    BY <2>1, <2>2, CreateOutputSound
  <2>3. CASE OpenImage(j)
    BY <2>1, <2>3, OpenImageSound
  <2>4. CASE CopyChunk(j)
    BY <2>1, <2>4, CopyChunkSound
  <2>5. CASE CopyFails(j)
    BY <2>1, <2>5, CopyFailsSound
  <2>6. CASE Close(j)
    BY <2>1, <2>6, CloseSound
  <2> QED
    BY <1>3, <2>2, <2>3, <2>4, <2>5, <2>6 DEF JobStep
<1>4. CASE Exit
  BY <1>4, ExitSound
<1>5. CASE Kill
  BY <1>5, KillSound
<1> QED
  BY <1>1, <1>2, <1>3, <1>4, <1>5 DEF Next

\* At every moment each file is where its jobs have got it, and the jobs of a
\* run are the partitions it was to extract (run_parallel in extract.rs).
THEOREM SpecSound == Spec => []IInv
<1>1. IInv /\ [Next]_vars => IInv'
  BY NextSound
<1> QED
  BY <1>1, InitSound, PTL DEF Spec

\* The state has its types: a path names at most one file, and no more jobs
\* run than the listing has entries.
THEOREM SpecTypeOK == Spec => []TypeOK
<1>1. IInv => TypeOK
  <2> SUFFICES ASSUME IInv PROVE TypeOK
    OBVIOUS
  <2>1. ASSUME NEW n \in Names PROVE Cardinality(files[n]) <= 1
    <3>1. CASE files[n] = {}
      BY <3>1, FS_EmptySet
    <3>2. CASE files[n] # {}
      <4>1. PICK c : c \in files[n]
        BY <3>2
      <4>2. files[n] = {c}
        BY <4>1 DEF IInv, FilesOK
      <4> QED
        BY <4>2, FS_Singleton
    <3> QED
      BY <3>1, <3>2
  <2> QED
    BY <2>1 DEF IInv, TypeOK, JobsOK, JobRec, Entries, PhaseOK
<1> QED
  BY <1>1, SpecSound, PTL

\* A run that exits with success has written every partition it was to
\* extract, whole and in order, whatever was there before and whatever failed
\* or was killed earlier (extract_partition, and the exit code of `extract`).
THEOREM SpecSuccessIsWhole == Spec => []SuccessIsWhole
<1>1. IInv => SuccessIsWhole
  <2> SUFFICES ASSUME IInv, phase = Success, NEW n \in Wanted, NEW e \in Sole(n), e.chunks > 0
               PROVE  \E c \in files[n] : /\ c = [k \in DOMAIN c |-> Block(e, k)]
                                          /\ DOMAIN c \in {1 .. Direct(e), 1 .. e.chunks}
    BY DEF SuccessIsWhole
  <2>1. PICK j \in DOMAIN jobs : jobs[j].part = e
    BY DEF IInv, Planned
  <2>2. e.name = n
    BY DEF Sole
  <2>3. jobs[j].st = Extracted
    BY DEF IInv, PhaseOK
  <2>4. \E m \in {Direct(e), e.chunks} : files[n] = {Content(e, m)}
    BY <2>1, <2>2, <2>3 DEF IInv, SoleOK, JobOK, Path
  <2>5. PICK m \in {Direct(e), e.chunks} : files[n] = {Content(e, m)}
    BY <2>4
  <2>6. DOMAIN Content(e, m) = 1 .. m
        /\ Content(e, m) = [k \in 1 .. m |-> Block(e, k)]
    BY DEF Content
  <2> QED
    BY <2>5, <2>6
<1> QED
  BY <1>1, SpecSound, PTL

\* A job that failed leaves no data at a path that had no file: what is there
\* is empty, or nothing (the removal in extract_partition's error path).
THEOREM SpecFailedLeavesNoData == Spec => []FailedLeavesNoData
<1>1. IInv => FailedLeavesNoData
  BY DEF IInv, SoleOK, JobOK, FailedLeavesNoData
<1> QED
  BY <1>1, SpecSound, PTL

\* Without --force no step of a run touches a file that was there when it
\* began: neither the loop that collects the jobs nor any of the jobs.
THEOREM SpecExistingSkipped == Spec => ExistingSkipped
<1>1. IInv /\ [Next]_vars => [ExistingKept]_vars
  BY NextSound
<1> QED
  BY <1>1, SpecSound, PTL DEF Spec, ExistingSkipped
=============================================================================
