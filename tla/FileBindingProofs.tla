------------------------- MODULE FileBindingProofs -------------------------
(***************************************************************************)
(* The binding of a Job's files, for every set of Jobs and versions and    *)
(* every number of faults: what is published is complete and immutable,    *)
(* and what is recorded is what was published.                             *)
(***************************************************************************)
EXTENDS FileBinding, TLAPS

\* Before the first call nothing is published or recorded.
LEMMA BindingInit == Init => BindingInv
<1> SUFFICES ASSUME Init PROVE BindingInv
  OBVIOUS
<1> QED
  BY BindingAssumption DEF Init, BindingInv, TypeOK, StepInv, PublishedIsComplete,
     RecordedIsPublished, StagingIsAccounted, Directory, Absent, Exists, Labels, InTry

\* The steps that touch neither a directory, a row nor the locals of the call.
LEMMA BindingWorld ==
  ASSUME BindingInv, Edit \/ (\E j \in Jobs : CloseJob(j)) \/ UNCHANGED vars
  PROVE  BindingInv'
<1>1. CASE Edit
  BY <1>1 DEF BindingInv, TypeOK, StepInv, PublishedIsComplete, RecordedIsPublished,
     StagingIsAccounted, Edit, task, Exists
<1>2. CASE \E j \in Jobs : CloseJob(j)
  BY <1>2 DEF BindingInv, TypeOK, StepInv, PublishedIsComplete, RecordedIsPublished,
     StagingIsAccounted, CloseJob, task, world, Exists
<1>3. CASE UNCHANGED vars
  BY <1>3 DEF BindingInv, TypeOK, StepInv, PublishedIsComplete, RecordedIsPublished,
     StagingIsAccounted, vars, task, world, Exists
<1> QED
  BY <1>1, <1>2, <1>3

\* The process dies, starts again, or the task takes the next Job.
LEMMA BindingProcess ==
  ASSUME BindingInv, Crash \/ Restart \/ \E j \in Jobs : Take(j)
  PROVE  BindingInv'
<1> USE BindingAssumption DEF BindingInv, TypeOK, StepInv, PublishedIsComplete,
     RecordedIsPublished, StagingIsAccounted, Exists, world, Labels, InTry
<1>1. CASE Crash
  BY <1>1 DEF Crash, Absent, Directory
<1>2. CASE Restart
  BY <1>2 DEF Restart, Goto
<1>3. CASE \E j \in Jobs : Take(j)
  BY <1>3 DEF Take
<1> QED
  BY <1>1, <1>2, <1>3

\* The steps of bind, and the update that records its answer.
LEMMA BindingCall ==
  ASSUME BindingInv, Bind \/ RecordBinding
  PROVE  BindingInv'
<1> USE BindingAssumption DEF BindingInv, TypeOK, StepInv, PublishedIsComplete,
     RecordedIsPublished, StagingIsAccounted, Exists, world, task, Labels, InTry, Goto, Return, Fail
<1>1. CASE ResolveRaises \/ ResolveRefuses
  BY <1>1 DEF ResolveRaises, ResolveRefuses
<1>2. CASE Adopt
  BY <1>2 DEF Adopt, Directory, Absent
<1>3. CASE ResolveFresh \/ ResolveFails
  BY <1>3 DEF ResolveFresh, ResolveFails
<1>4. CASE MakeStaging \/ MakeStagingFails
  BY <1>4 DEF MakeStaging, MakeStagingFails
<1>5. CASE Render \/ RenderRefuses
  BY <1>5 DEF Render, RenderRefuses, Directory
<1>6. CASE WriteBinding
  BY <1>6 DEF WriteBinding, Directory
<1>7. CASE Publish
  BY <1>7 DEF Publish, Directory, Absent
<1>8. CASE FileSystemFails
  BY <1>8 DEF FileSystemFails
<1>9. CASE Discard \/ DiscardIncomplete
  BY <1>9 DEF Discard, DiscardIncomplete, Directory, Absent
<1>10. CASE RecordBinding
  BY <1>10 DEF RecordBinding, Directory
<1> QED
  BY <1>1, <1>2, <1>3, <1>4, <1>5, <1>6, <1>7, <1>8, <1>9, <1>10 DEF Bind

\* What every step of a binding may rely on.
THEOREM BindingIsInvariant == Spec => []BindingInv
<1>1. BindingInv /\ [Next]_vars => BindingInv'
  BY BindingWorld, BindingProcess, BindingCall DEF Next
<1> QED
  BY BindingInit, <1>1, PTL DEF Spec

\* The state keeps its types through every crash and error; the staging directories left
\* behind stay countable because each is paid for by a fault.
THEOREM BindingTypeCorrect == Spec => []TypeOK
  BY BindingIsInvariant, PTL DEF BindingInv

\* A directory under its final name has all its files and their binding.
THEOREM PublishedAreComplete == Spec => []PublishedIsComplete
  BY BindingIsInvariant, PTL DEF BindingInv

\* The binding of a row is that of the published directory.
THEOREM RecordedArePublished == Spec => []RecordedIsPublished
  BY BindingIsInvariant, PTL DEF BindingInv

\* Only crashes and failed removals leave staging directories behind.
THEOREM StagingsAreAccounted == Spec => []StagingIsAccounted
  BY BindingIsInvariant, PTL DEF BindingInv

\* The rename is the only write under a final name, and it is reached only when there is
\* nothing under that name.
THEOREM PublishedAreImmutable == Spec => PublishedIsImmutable
<1>1. ASSUME BindingInv, [Next]_vars,
             NEW j \in Jobs, Exists(disk[j])
      PROVE  disk'[j] = disk[j]
  <2>1. CASE Publish
    BY <1>1, <2>1 DEF Publish, Goto, BindingInv, StepInv, TypeOK, InTry
  <2>2. CASE UNCHANGED disk
    BY <2>2
  <2> QED
    BY <1>1, <2>1, <2>2
       DEF Next, vars, Take, CloseJob, Bind, RecordBinding, Edit, Crash, Restart,
           ResolveRaises, ResolveRefuses, Adopt, ResolveFresh, ResolveFails, MakeStaging,
           MakeStagingFails, Render, RenderRefuses, WriteBinding, FileSystemFails,
           Discard, DiscardIncomplete
<1>2. BindingInv /\ [Next]_vars => [\A j \in Jobs : Exists(disk[j]) => disk'[j] = disk[j]]_vars
  BY <1>1
<1> QED
  BY <1>2, BindingIsInvariant, PTL DEF Spec, PublishedIsImmutable

\* Only a catalog that no longer offers the Range, or an error of the call that looks for
\* them, fails a Job whose files are published.
THEOREM PublishedAreAdopted == Spec => PublishedIsAdopted
<1>1. ASSUME BindingInv, [Next]_vars, NEW j \in Jobs, Exists(disk[j]),
             status'[j] = "failed", status[j] # "failed"
      PROVE  catalog # "usable" \/ (pc = "resolve" /\ faults' > faults)
  <2>1. CASE UNCHANGED status
    BY <1>1, <2>1
  <2>2. CASE ResolveRaises \/ ResolveRefuses
    BY <2>2 DEF ResolveRaises, ResolveRefuses
  <2>3. CASE ResolveFresh
    BY <1>1, <2>3 DEF ResolveFresh, Fail, BindingInv, PublishedIsComplete, TypeOK
  <2>4. CASE MakeStagingFails \/ Discard \/ DiscardIncomplete
    BY <1>1, <2>4 DEF MakeStagingFails, Discard, DiscardIncomplete, Fail, BindingInv,
       StepInv, TypeOK, InTry
  <2>5. CASE \E i \in Jobs : CloseJob(i)
    BY <1>1, <2>5 DEF CloseJob, BindingInv, TypeOK
  <2>6. CASE ResolveFails
    BY <1>1, <2>6 DEF ResolveFails, BindingInv, TypeOK
  <2> QED
    BY <1>1, <2>1, <2>2, <2>3, <2>4, <2>5, <2>6
       DEF Next, vars, Take, Bind, RecordBinding, Edit, Crash, Restart, Adopt,
           MakeStaging, Render, RenderRefuses, WriteBinding, Publish, FileSystemFails
<1>2. BindingInv /\ [Next]_vars =>
        [\A j \in Jobs : Exists(disk[j]) /\ status'[j] = "failed" /\ status[j] # "failed"
           => catalog # "usable" \/ (pc = "resolve" /\ faults' > faults)]_vars
  BY <1>1
<1> QED
  BY <1>2, BindingIsInvariant, PTL DEF Spec, PublishedIsAdopted
=============================================================================
