---------------------------- MODULE FileBinding ----------------------------
(***************************************************************************)
(* SharedFileManager.bind and the update that records its answer: how the  *)
(* input files of a Job are rendered into a staging directory, published   *)
(* by one rename, and bound to the Job, while the operator edits the Range *)
(* catalog and the files it names, the API closes Jobs and the process     *)
(* dies at any point.  JobOrchestrator takes the call as one step.         *)
(*                                                                         *)
(* A version stands for what one rendering read and wrote; a directory is  *)
(* its files and its .binding.json.  The Job's result directory, which is  *)
(* only ever created, is left out.                                         *)
(***************************************************************************)
EXTENDS Naturals

CONSTANTS Jobs,
          Versions,      \* what the operator's input files may say
          None,          \* absent file, absent directory, NULL column
          MaxFaults      \* bound: crashes and file-system errors together

ASSUME BindingAssumption == /\ None \notin Versions /\ None \notin Jobs
                            /\ MaxFaults \in Nat

VARIABLES
  catalog,   \* the Range of the Jobs: "usable", "unavailable" or "invalid" YAML
  inputs,    \* the files the Range names: a version, or None when unusable
  disk,      \* disk[j]: the published input directory of Job j
  staging,   \* the staging directory of the call under way
  abandoned, \* how many staging directories nothing refers to any more
  bound,     \* bound[j]: binding_json of the Job row
  status,    \* status[j]: the Job is being bound, is closing, or has failed
  pc, cur, found,  \* the task, its Job, and what bind is about to return
  faults

world == <<catalog, inputs>>
task  == <<pc, cur, found>>
vars  == <<world, disk, staging, abandoned, bound, status, task, faults>>

Directory == [files : Versions \cup {None}, binding : Versions \cup {None}]
Absent    == [files |-> None, binding |-> None]

Exists(dir) == dir # Absent

InTry  == {"render", "write", "publish", "discard"}
Labels == InTry \cup {"down", "idle", "resolve", "stage", "record"}

TypeOK ==
  /\ catalog \in {"usable", "unavailable", "invalid"}
  /\ inputs \in Versions \cup {None}
  /\ disk \in [Jobs -> Directory]
  /\ staging \in Directory
  /\ abandoned \in 0..MaxFaults
  /\ bound \in [Jobs -> Versions \cup {None}]
  /\ status \in [Jobs -> {"open", "closing", "failed"}]
  /\ pc \in Labels /\ cur \in Jobs \cup {None} /\ found \in Versions \cup {None}
  /\ faults \in 0..MaxFaults

Init ==
  /\ catalog = "usable" /\ inputs \in Versions
  /\ disk = [j \in Jobs |-> Absent]
  /\ staging = Absent /\ abandoned = 0
  /\ bound = [j \in Jobs |-> None]
  /\ status = [j \in Jobs |-> "open"]
  /\ pc = "idle" /\ cur = None /\ found = None
  /\ faults = 0

-----------------------------------------------------------------------------
Goto(label) == pc' = label /\ UNCHANGED <<cur, found>>
Return      == pc' = "idle" /\ cur' = None /\ found' = None

\* _fail keeps a Job that was closed meanwhile.
Fail == /\ status' = [status EXCEPT ![cur] = IF @ = "open" THEN "failed" ELSE @]
        /\ Return

Take(j) ==
  /\ pc = "idle" /\ status[j] = "open" /\ bound[j] = None
  /\ pc' = "resolve" /\ cur' = j
  /\ UNCHANGED <<world, disk, staging, abandoned, bound, status, found, faults>>

\* TrustedConfigError is no FileBindingError: the pass ends, and the Job is tried
\* again or fails by its deadline.
ResolveRaises ==
  /\ pc = "resolve" /\ catalog = "invalid"
  /\ Fail \/ (Return /\ UNCHANGED status)
  /\ UNCHANGED <<world, disk, staging, abandoned, bound, faults>>

ResolveRefuses ==
  /\ pc = "resolve" /\ catalog = "unavailable"
  /\ Fail
  /\ UNCHANGED <<world, disk, staging, abandoned, bound, faults>>

\* Mutant: a published directory is not looked for.
AdoptNever ==
  /\ pc = "resolve" /\ catalog = "usable" /\ disk[cur].binding # None
  /\ pc' = "stage" /\ UNCHANGED <<cur, found>>
  /\ UNCHANGED <<world, disk, staging, abandoned, bound, status, faults>>

Adopt ==
  /\ pc = "resolve" /\ catalog = "usable" /\ disk[cur].binding # None
  /\ pc' = "record" /\ found' = disk[cur].binding /\ UNCHANGED cur
  /\ UNCHANGED <<world, disk, staging, abandoned, bound, status, faults>>

\* A directory without a binding is refused: "partial input binding already exists".
ResolveFresh ==
  /\ pc = "resolve" /\ catalog = "usable" /\ disk[cur].binding = None
  /\ IF Exists(disk[cur]) THEN Fail ELSE Goto("stage") /\ UNCHANGED status
  /\ UNCHANGED <<world, disk, staging, abandoned, bound, faults>>

\* What stands under the final name is looked at, and .binding.json read and parsed, before
\* the try: what that raises is not converted, and ends the Job.
ResolveFails ==
  /\ pc = "resolve" /\ catalog = "usable" /\ faults < MaxFaults
  /\ faults' = faults + 1
  /\ Fail
  /\ UNCHANGED <<world, disk, staging, abandoned, bound>>

MakeStaging ==
  /\ pc = "stage"
  /\ Goto("render")
  /\ UNCHANGED <<world, disk, staging, abandoned, bound, status, faults>>

\* mkdir and mkdtemp are called before the try: what they raise is not converted.
MakeStagingFails ==
  /\ pc = "stage" /\ faults < MaxFaults
  /\ faults' = faults + 1
  /\ Fail
  /\ UNCHANGED <<world, disk, staging, abandoned, bound>>

\* The catalog entry was read before; the files it names are read now.
Render ==
  /\ pc = "render" /\ inputs # None
  /\ staging' = [files |-> inputs, binding |-> None]
  /\ Goto("write")
  /\ UNCHANGED <<world, disk, abandoned, bound, status, faults>>

RenderRefuses ==
  /\ pc = "render" /\ inputs = None
  /\ Goto("discard")
  /\ UNCHANGED <<world, disk, staging, abandoned, bound, status, faults>>

WriteBinding ==
  /\ pc = "write"
  /\ staging' = [staging EXCEPT !.binding = staging.files]
  /\ Goto("publish")
  /\ UNCHANGED <<world, disk, abandoned, bound, status, faults>>

\* Mutant: the directory is renamed before its .binding.json is written.
PublishEarly ==
  /\ pc \in {"write", "publish"} /\ ~Exists(disk[cur])
  /\ disk' = [disk EXCEPT ![cur] = staging]
  /\ staging' = Absent
  /\ pc' = "record" /\ found' = staging.files /\ UNCHANGED cur
  /\ UNCHANGED <<world, abandoned, bound, status, faults>>

\* os.replace is atomic, and refuses a target directory that has files in it.
Publish ==
  /\ pc = "publish"
  /\ IF Exists(disk[cur])
     THEN Goto("discard") /\ UNCHANGED <<disk, staging>>
     ELSE /\ disk' = [disk EXCEPT ![cur] = staging]
          /\ staging' = Absent
          /\ pc' = "record" /\ found' = staging.binding /\ UNCHANGED cur
  /\ UNCHANGED <<world, abandoned, bound, status, faults>>

\* Any OSError inside the try.
FileSystemFails ==
  /\ pc \in InTry \ {"discard"} /\ faults < MaxFaults
  /\ faults' = faults + 1
  /\ Goto("discard")
  /\ UNCHANGED <<world, disk, staging, abandoned, bound, status>>

\* Mutant: the staging directory is left where it is.
DiscardNothing ==
  /\ pc = "discard"
  /\ staging' = Absent /\ abandoned' = abandoned + 1
  /\ Fail
  /\ UNCHANGED <<world, disk, bound, faults>>

\* rmtree, then FileBindingError.
Discard ==
  /\ pc = "discard"
  /\ staging' = Absent
  /\ Fail
  /\ UNCHANGED <<world, disk, abandoned, bound, faults>>

\* rmtree ignores its errors.
DiscardIncomplete ==
  /\ pc = "discard" /\ faults < MaxFaults
  /\ faults' = faults + 1 /\ abandoned' = abandoned + 1
  /\ staging' = Absent
  /\ Fail
  /\ UNCHANGED <<world, disk, bound>>

\* Mutant: what the files say now is recorded, not what bind returned.
RecordCurrent ==
  /\ pc = "record"
  /\ bound' = [bound EXCEPT ![cur] = inputs]
  /\ Return
  /\ UNCHANGED <<world, disk, staging, abandoned, status, faults>>

\* update(binding_json = ...) names no status and is accepted for a closing Job too.
RecordBinding ==
  /\ pc = "record"
  /\ bound' = [bound EXCEPT ![cur] = found]
  /\ Return
  /\ UNCHANGED <<world, disk, staging, abandoned, status, faults>>

-----------------------------------------------------------------------------
(* The operator, the API and the life of the process *)
Edit ==
  /\ catalog' \in {"usable", "unavailable", "invalid"}
  /\ inputs' \in Versions \cup {None}
  /\ UNCHANGED <<disk, staging, abandoned, bound, status, task, faults>>

CloseJob(j) ==
  /\ status[j] = "open"
  /\ status' = [status EXCEPT ![j] = "closing"]
  /\ UNCHANGED <<world, disk, staging, abandoned, bound, task, faults>>

\* mkdtemp has made the directory from "render" on, whatever is in it by now.
Crash ==
  /\ pc # "down" /\ faults < MaxFaults
  /\ faults' = faults + 1
  /\ abandoned' = IF pc \in InTry THEN abandoned + 1 ELSE abandoned
  /\ staging' = Absent
  /\ pc' = "down" /\ cur' = None /\ found' = None
  /\ UNCHANGED <<world, disk, bound, status>>

Restart ==
  /\ pc = "down"
  /\ Goto("idle")
  /\ UNCHANGED <<world, disk, staging, abandoned, bound, status, faults>>

Bind ==
  \/ ResolveRaises \/ ResolveRefuses \/ Adopt \/ ResolveFresh \/ ResolveFails
  \/ MakeStaging \/ MakeStagingFails \/ Render \/ RenderRefuses \/ WriteBinding
  \/ Publish \/ FileSystemFails \/ Discard \/ DiscardIncomplete

Next ==
  \/ \E j \in Jobs : Take(j) \/ CloseJob(j)
  \/ Bind \/ RecordBinding
  \/ Edit \/ Crash \/ Restart

Spec == Init /\ [][Next]_vars
-----------------------------------------------------------------------------
(* Properties *)

\* PRD: no controller reads half of a file set.  A directory under its final name has all
\* its files and the binding rendered with them, wherever a crash or an error hit.
PublishedIsComplete ==
  \A j \in Jobs : Exists(disk[j]) => /\ disk[j].files # None
                                     /\ disk[j].binding = disk[j].files

\* The binding of the Job row is that of the directory its RJobs mount, although a crash
\* may lie between the two writes and the operator may have edited the sources meanwhile.
RecordedIsPublished ==
  \A j \in Jobs : bound[j] # None => Exists(disk[j]) /\ disk[j].binding = bound[j]

\* A staging directory is left behind only by a crash or by a failed removal: the error
\* paths of a refused or failed rendering leave none, however often they are taken.
StagingIsAccounted ==
  /\ abandoned <= faults
  /\ pc \notin InTry => staging = Absent

\* A Job whose files were published before a crash adopts them: it fails only when the
\* catalog no longer offers its Range, or by an error of the very call that looks for them.
\* Nothing that went wrong in an earlier call fails it, and no retry meets its own directory
\* as a stranger's.
PublishedIsAdopted ==
  [][\A j \in Jobs : Exists(disk[j]) /\ status'[j] = "failed" /\ status[j] # "failed"
       => catalog # "usable" \/ (pc = "resolve" /\ faults' > faults)]_vars

\* PRD (Catalog drift): recovery reads only the snapshot, so what the operator does to the
\* catalog cannot fail a Job whose files are published.
RecoveryReadsSnapshot ==
  [][\A j \in Jobs : Exists(disk[j]) => ~(status'[j] = "failed" /\ status[j] # "failed")]_vars

\* PRD: a published file set never changes, whatever is retried or edited.
PublishedIsImmutable ==
  [][\A j \in Jobs : Exists(disk[j]) => disk'[j] = disk[j]]_vars

-----------------------------------------------------------------------------
(* The inductive strengthening: what the call has at each of its steps.      *)
StepInv ==
  /\ pc \in {"idle", "down"} <=> cur = None
  /\ pc \in InTry \cup {"stage"} => ~Exists(disk[cur])
  /\ pc = "write" => staging.files # None /\ staging.binding = None
  /\ pc = "publish" => staging.files # None /\ staging.binding = staging.files
  /\ pc = "record" => Exists(disk[cur]) /\ found = disk[cur].binding

BindingInv == /\ TypeOK /\ StepInv
              /\ PublishedIsComplete /\ RecordedIsPublished /\ StagingIsAccounted
=============================================================================
