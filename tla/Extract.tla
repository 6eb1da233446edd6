------------------------------ MODULE Extract ------------------------------
(***************************************************************************)
(* `extract`: the partitions of the loaded slots become jobs that a thread *)
(* pool runs in parallel, each copying its extents to "<name>.img"         *)
(* (cli/src/commands/extract.rs).  The command may be killed, and run      *)
(* again over what it left.                                                *)
(*                                                                         *)
(* The output path of a job is its partition's name, whichever slot it is  *)
(* from.  A file is the function from positions to the blocks written      *)
(* there; a block is <<slot, name, position>>.  A position stands for one  *)
(* pass of the copy loop (1 MiB, less at the end).  A last pass below the  *)
(* 8 KiB that a BufWriter holds stays in memory until the writer is        *)
(* dropped, when an error can no longer be reported: the `tail` of a       *)
(* partition.                                                              *)
(***************************************************************************)
EXTENDS Integers, Sequences, FiniteSets
LOCAL INSTANCE SequencesExt

CONSTANTS
  Names,   \* partition names, and so output paths
  Listing, \* partitions of the loaded slots, in order: [slot, name, chunks, tail]
  Workers, \* threads of the pool
  MaxRuns  \* bound: times the command is run

ASSUME ListingAssumption ==
  /\ Listing \in Seq([slot : Nat, name : Names, chunks : Nat, tail : BOOLEAN])
  /\ Listing # <<>>
  /\ Workers \in Nat \ {0} /\ MaxRuns \in Nat

VARIABLES
  files,  \* path -> at most one file content
  jobs,   \* the jobs of this run
  phase,  \* "off", "running" or the exit of the last run
  force,  \* the run's --force
  before, \* history: the paths that existed when the run began
  runs    \* runs so far

vars == <<files, jobs, phase, force, before, runs>>

Off == "off"
Running == "running"
Success == "success"
Failure == "failure"
Killed == "killed"

Queued == "queued"       \* waits for a thread
Created == "created"     \* output file created, image not yet open
Copying == "copying"     \* copies extents
Extracted == "extracted" \* result Ok
Failed == "failed"       \* result Err

Empty == <<>>
Block(e, k) == <<e.slot, e.name, k>>

\* What an earlier, unrelated file at a path may hold: more than any
\* partition of the listing.
Foreign(n) == [k \in 1 .. 1 + FoldLeft(LAMBDA m, e : m + e.chunks, 0, Listing) |-> <<-1, n, k>>]

\* Passes that reach the file before the writer is dropped.
Direct(e) == IF e.tail THEN e.chunks - 1 ELSE e.chunks

Exists(n) == files[n] # {}

Init ==
  /\ \E old \in SUBSET Names :
       files = [n \in Names |-> IF n \in old THEN {Foreign(n)} ELSE {}]
  /\ jobs = <<>>
  /\ phase = Off
  /\ force = FALSE
  /\ before = {}
  /\ runs = 0

----------------------------------------------------------------------------
\* A job with an open output file writes to the file at its path as long as
\* it is `linked`: once that path is removed, it writes to nowhere.
NewJob(e) == [part |-> e, st |-> Queued, at |-> 0, linked |-> FALSE]

\* Mutant of PlanEntry: --force is not looked at.
PlanEntryAlways(acc, e, frc, bad) ==
  IF e.chunks > 0 THEN [acc EXCEPT !.jobs = Append(@, NewJob(e))]
  ELSE IF e.name \in bad THEN acc ELSE [acc EXCEPT !.files[e.name] = {Empty}]

\* One round of the loop that collects the jobs: a file that exists is left
\* alone without --force, an extent-less partition gets its empty file here
\* and now (an error is printed, no more), the others become jobs.
PlanEntry(acc, e, frc, bad) ==
  IF acc.files[e.name] # {} /\ ~frc THEN acc
  ELSE IF e.chunks > 0 THEN [acc EXCEPT !.jobs = Append(@, NewJob(e))]
  ELSE IF e.name \in bad THEN acc
  ELSE [acc EXCEPT !.files[e.name] = {Empty}]

\* The loop's files and jobs, over the whole listing; `bad` are the paths that
\* fs::write fails on.
Plan(frc, bad) ==
  LET plan[i \in 0 .. Len(Listing)] ==
        IF i = 0 THEN [files |-> files, jobs |-> <<>>]
        ELSE PlanEntry(plan[i - 1], Listing[i], frc, bad)
  IN plan[Len(Listing)]

Start(frc, bad) ==
  /\ phase # Running
  /\ runs < MaxRuns
  /\ files' = Plan(frc, bad).files
  /\ jobs' = Plan(frc, bad).jobs
  /\ phase' = Running
  /\ force' = frc
  /\ before' = {n \in Names : Exists(n)}
  /\ runs' = runs + 1

----------------------------------------------------------------------------
Active == {j \in DOMAIN jobs : jobs[j].st \in {Created, Copying}}
Path(j) == jobs[j].part.name
Becomes(j, st) == jobs' = [jobs EXCEPT ![j].st = st]

\* Mutant of CreateOutput: opened for writing, not truncated.
CreateOutputOver(j) ==
  /\ jobs[j].st = Queued
  /\ Cardinality(Active) < Workers
  /\ jobs' = [jobs EXCEPT ![j].st = Created, ![j].linked = TRUE]
  /\ files' = [files EXCEPT ![Path(j)] = IF @ = {} THEN {Empty} ELSE @]

\* File::create truncates the file that is there, or makes one.
CreateOutput(j) ==
  /\ jobs[j].st = Queued
  /\ Cardinality(Active) < Workers
  /\ jobs' = [jobs EXCEPT ![j].st = Created, ![j].linked = TRUE]
  /\ files' = [files EXCEPT ![Path(j)] = {Empty}]

CreateFails(j) ==
  /\ jobs[j].st = Queued
  /\ Cardinality(Active) < Workers
  /\ Becomes(j, Failed)
  /\ UNCHANGED files

\* Mutant of OpenImage: an image that does not open is tried again.
OpenImageAgain(j) ==
  /\ jobs[j].st = Created
  /\ \E st \in {Copying, Queued} : Becomes(j, st)
  /\ UNCHANGED files

\* The job's own image handle, and those of its bound devices; if they do not
\* open, the job fails and its file stays, empty.
OpenImage(j) ==
  /\ jobs[j].st = Created
  /\ \E st \in {Copying, Failed} : Becomes(j, st)
  /\ UNCHANGED files

\* A content with a block written at position k.
Put(c, k, b) == [i \in DOMAIN c \cup {k} |-> IF i = k THEN b ELSE c[i]]
Written(j, k) ==
  IF jobs[j].linked
  THEN [files EXCEPT ![Path(j)] = {Put(c, k, Block(jobs[j].part, k)) : c \in @}]
  ELSE files

\* Mutant of CopyChunk: one pass too many.
CopyChunkPast(j) ==
  LET k == jobs[j].at + 1
  IN /\ jobs[j].st = Copying
     /\ k <= jobs[j].part.chunks + 1
     /\ jobs' = [jobs EXCEPT ![j].at = k]
     /\ files' = IF k <= Direct(jobs[j].part) THEN Written(j, k) ELSE files

\* One pass of extract_partition's loop.
CopyChunk(j) ==
  LET k == jobs[j].at + 1
  IN /\ jobs[j].st = Copying
     /\ k <= jobs[j].part.chunks
     /\ jobs' = [jobs EXCEPT ![j].at = k]
     /\ files' = IF k <= Direct(jobs[j].part) THEN Written(j, k) ELSE files

\* Mutant of CopyFails: the file is not removed.
CopyFailsOnly(j) ==
  /\ jobs[j].st = Copying
  /\ jobs[j].at < jobs[j].part.chunks
  /\ Becomes(j, Failed)
  /\ UNCHANGED files

\* A read or a write fails: the path is removed, whoever writes there too.
CopyFails(j) ==
  /\ jobs[j].st = Copying
  /\ jobs[j].at < jobs[j].part.chunks
  /\ files' = [files EXCEPT ![Path(j)] = {}]
  /\ jobs' = [i \in DOMAIN jobs |->
                IF i = j THEN [jobs[i] EXCEPT !.st = Failed, !.linked = FALSE]
                ELSE IF Path(i) = Path(j) THEN [jobs[i] EXCEPT !.linked = FALSE]
                ELSE jobs[i]]

\* The result is Ok; dropping the writer writes the tail, or fails to.
Close(j) ==
  LET e == jobs[j].part
  IN /\ jobs[j].st = Copying
     /\ jobs[j].at = e.chunks
     /\ Becomes(j, Extracted)
     /\ files' \in {files} \cup {Written(j, k) : k \in Direct(e) + 1 .. e.chunks}
     /\ e.tail \/ files' = files

JobStep(j) ==
  /\ phase = Running
  /\ j \in DOMAIN jobs
  /\ \/ CreateOutput(j) \/ CreateFails(j) \/ OpenImage(j)
     \/ CopyChunk(j) \/ CopyFails(j) \/ Close(j)
  /\ UNCHANGED <<phase, force, before, runs>>

\* All results are collected: the exit code.
Exit ==
  /\ phase = Running
  /\ \A j \in DOMAIN jobs : jobs[j].st \in {Extracted, Failed}
  /\ phase' = IF \E j \in DOMAIN jobs : jobs[j].st = Failed THEN Failure ELSE Success
  /\ UNCHANGED <<files, jobs, force, before, runs>>

Kill ==
  /\ phase = Running
  /\ phase' = Killed
  /\ jobs' = <<>>
  /\ UNCHANGED <<files, force, before, runs>>

JobNumbers == 1 .. Len(Listing)
Next ==
  \/ \E frc \in BOOLEAN, bad \in SUBSET Names : Start(frc, bad)
  \/ \E j \in JobNumbers : JobStep(j)
  \/ Exit
  \/ Kill

Spec == Init /\ [][Next]_vars

\* The pool runs every job on one of its threads, and a job's loop goes on.
Fairness == WF_vars(Exit) /\ \A j \in JobNumbers : WF_vars(JobStep(j))
FairSpec == Spec /\ Fairness
----------------------------------------------------------------------------
TypeOK ==
  /\ \A n \in Names : Cardinality(files[n]) <= 1
  /\ jobs \in Seq([part : {Listing[i] : i \in JobNumbers}, at : Nat, linked : BOOLEAN,
                   st : {Queued, Created, Copying, Extracted, Failed}])
  /\ Len(jobs) <= Len(Listing)
  /\ \A j \in DOMAIN jobs : jobs[j].at <= jobs[j].part.chunks
  /\ phase \in {Off, Running, Success, Failure, Killed}
  /\ force \in BOOLEAN /\ before \subseteq Names /\ runs \in 0 .. MaxRuns

\* The entry of a name that is in the listing once.
Sole(n) ==
  {Listing[i] : i \in {k \in JobNumbers : /\ Listing[k].name = n
                                        /\ \A m \in JobNumbers : Listing[m].name = n => m = k}}

\* What the run was to write: not the files it was to leave alone.
Wanted == IF force THEN Names ELSE Names \ before

\* A run that exits with success has extracted every partition it was to
\* extract: the file of a name that is listed once has all of that
\* partition's blocks, in order, and no others, whatever was there before and
\* whatever failed or was killed in earlier runs.  Only the tail, which the
\* writer's drop writes, is not certain.
SuccessIsWhole ==
  phase = Success =>
    \A n \in Wanted : \A e \in Sole(n) :
      e.chunks > 0 =>
        \E c \in files[n] :
          /\ c = [k \in DOMAIN c |-> Block(e, k)]
          /\ DOMAIN c \in {1 .. Direct(e), 1 .. e.chunks}

\* A job that failed leaves no data at its path, where none was before
\* (an empty file, it may): nobody takes half a partition for a whole one.
FailedLeavesNoData ==
  \A j \in DOMAIN jobs :
    jobs[j].st = Failed /\ Path(j) \notin before /\ Sole(Path(j)) # {} =>
      files[Path(j)] \subseteq {Empty}

\* "Existing files are skipped unless --force overwrites them": such a file
\* is not touched at any moment of the run, by the loop that collects the
\* jobs or by a job of another slot.
ExistingKept == \A n \in before' : ~force' => files'[n] = files[n]
ExistingSkipped == [][ExistingKept]_vars

\* A run ends, unless it is killed, however its jobs fare.
RunEnds == phase = Running ~> phase # Running

----------------------------------------------------------------------------
\* What the command's help says of it.

\* "Unpack everything": after a run into an empty directory that exits with
\* success, every name with data in some slot has a file with such data.
EverythingUnpacked ==
  phase = Success /\ before = {} =>
    \A i \in JobNumbers :
      Listing[i].chunks > 0 => \E c \in files[Listing[i].name] : c # Empty

\* "Failed outputs are deleted, the rest are kept": when a run has ended, the
\* file of a job that extracted its partition is there.
ExtractedKept ==
  phase \in {Success, Failure} =>
    \A j \in DOMAIN jobs : jobs[j].st = Extracted => Exists(Path(j))
=============================================================================
