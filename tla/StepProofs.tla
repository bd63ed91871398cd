----------------------------- MODULE StepProofs -----------------------------
(* What a step may never do, what becomes of the workloads, and that every   *)
(* step is one of JobLifecycle: consequences of the inductive invariant of   *)
(* RowProofs, for every instance.                                            *)
EXTENDS RowProofs

USE DEF Roles

-----------------------------------------------------------------------------
(* Who moves the platform.                                                   *)
Submits(r) == Creating(r) /\ rjobs' = AfterCreate(cur, r) /\ UNCHANGED jobs
Deletes(r) == /\ Stopping(r) /\ UNCHANGED jobs
              /\ rjobs' = AfterStop(cur, r) \/ rjobs' = AfterHalfStop(cur, r)

\* The platform moves by itself, or by the one call the task is at.
LEMMA PlatformMoves ==
  ASSUME [Next]_vars
  PROVE  \/ UNCHANGED rjobs
         \/ \E r \in Roles : Submits(r) \/ Deletes(r)
         \/ \E j \in Jobs, r \in Roles : PlatformStep(j, r) /\ UNCHANGED <<jobs, task>>
<1>1. CASE UNCHANGED vars
  BY <1>1 DEF vars
<1>2. CASE TaskStep
  <2>1. ASSUME NEW j \in Jobs, BeginReconcile(j) \/ BeginCleanup(j) PROVE UNCHANGED rjobs
    BY <2>1 DEF BeginReconcile, BeginCleanup
  <2>2. ASSUME NEW r \in Roles, \/ CreateOk(r) \/ CreateFails(r)
                                \/ StopOk(r) \/ StopFails(r) \/ StopRaises(r)
        PROVE  UNCHANGED rjobs \/ Submits(r) \/ Deletes(r)
    BY <2>2 DEF CreateOk, CreateFails, StopOk, StopFails, StopRaises, Submits, Deletes
  <2>3. CASE CallRaises
    BY <2>3 DEF CallRaises, Submits
  <2>4. CASE \/ ListActive \/ ListCleanupPending \/ EndPass \/ Prepare \/ BindFiles
             \/ BindFails \/ RecordBinding \/ ReadRow \/ SaveGateway \/ SaveController
             \/ SaveControllerLate \/ GetFails \/ GetGateway \/ RecordGatewayStatus
             \/ ProbeHealth \/ OnHealthy \/ OnUnhealthy \/ RecordUnready \/ RecordUrl
             \/ Reread \/ GetController \/ RecordControllerStatus \/ RecordSuccess
             \/ HandleDependencyError \/ FailRead \/ FailUpdate \/ CleanupRead
             \/ KeepWorkloads \/ CleanupDone
    BY <2>4 DEF ListActive, ListCleanupPending, EndPass, Prepare, BindFiles, BindFails,
         RecordBinding, ReadRow, SaveGateway, SaveController, SaveControllerLate, GetFails,
         GetGateway, RecordGatewayStatus, ProbeHealth, OnHealthy, OnUnhealthy,
         RecordUnready, RecordUrl, Reread, GetController, RecordControllerStatus,
         RecordSuccess, HandleDependencyError, FailRead, FailUpdate, CleanupRead,
         KeepWorkloads, CleanupDone
  <2> QED BY <1>2, <2>1, <2>2, <2>3, <2>4 DEF TaskStep
<1>3. CASE Environment
  <2>1. ASSUME NEW j \in Jobs, CreateJob(j) \/ CloseJob(j) PROVE UNCHANGED rjobs
    BY <2>1 DEF CreateJob, CloseJob
  <2>2. ASSUME NEW j \in Jobs, NEW r \in Roles, Deadline(j, r) PROVE UNCHANGED rjobs
    BY <2>2 DEF Deadline
  <2>3. CASE Crash \/ Restart
    BY <2>3 DEF Crash, Restart, Submits, Deletes
  <2> QED BY <1>3, <2>1, <2>2, <2>3 DEF Environment
<1> QED BY <1>1, <1>2, <1>3 DEF Next

\* What a submission, a delete and the platform itself do to each workload.
LEMMA WorkloadMoves ==
  ASSUME PlatformTypeOK, NEW c \in Jobs, NEW q \in Roles, NEW j \in Jobs, NEW r \in Roles
  PROVE  /\ AfterCreate(c, q)[j][r] =
              IF j = c /\ r = q /\ rjobs[j][r] = "absent" THEN "pending" ELSE rjobs[j][r]
         /\ AfterStop(c, q)[j][r] =
              IF j = c /\ r = q /\ rjobs[j][r] # "absent" THEN "deleting" ELSE rjobs[j][r]
         /\ AfterHalfStop(c, q)[j][r] =
              IF j = c /\ r = q /\ Live(j, r) THEN "failed" ELSE rjobs[j][r]
  BY DEF PlatformTypeOK, AfterCreate, AfterStop, AfterHalfStop, Become

\* The platform submits nothing and deletes nothing by itself, and revives nothing.
LEMMA PlatformAlone ==
  ASSUME PlatformTypeOK, NEW c \in Jobs, NEW q \in Roles, PlatformStep(c, q),
         NEW j \in Jobs, NEW r \in Roles
  PROVE  /\ rjobs[j][r] = "absent" => rjobs'[j][r] = "absent"
         /\ rjobs'[j][r] = "deleting" => rjobs[j][r] = "deleting"
         /\ ~Live(j, r) => ~Live(j, r)'
<1>1. ASSUME NEW s, rjobs' = Become(c, q, s)
      PROVE  rjobs'[j][r] = IF j = c /\ r = q THEN s ELSE rjobs[j][r]
  BY <1>1 DEF PlatformTypeOK, Become
<1>2. CASE WorkloadStarts(c, q)
  BY <1>1, <1>2 DEF WorkloadStarts, Live
<1>3. CASE WorkloadSucceeds(c, q)
  BY <1>1, <1>3 DEF WorkloadSucceeds, Live
<1>4. CASE WorkloadFails(c, q)
  BY <1>1, <1>4 DEF WorkloadFails, Live
<1>5. CASE WorkloadReaped(c, q)
  BY <1>1, <1>5 DEF WorkloadReaped, Live
<1>6. CASE WorkloadVanishes(c, q)
  BY <1>1, <1>6 DEF WorkloadVanishes, Live
<1> QED BY <1>2, <1>3, <1>4, <1>5, <1>6 DEF PlatformStep

\* A workload is submitted by the task's create() for it, and deleted by its stop().
LEMMA WhoSubmitsAndDeletes ==
  ASSUME IInv, [Next]_vars, NEW j \in Jobs, NEW r \in Roles
  PROVE  /\ Submitted(j, r) => Creating(r) /\ cur = j
         /\ Deleted(j, r) => Stopping(r) /\ cur = j
<1>1. PlatformTypeOK
  BY DEF IInv, TypeInv, TypeOK
<1>2. CASE UNCHANGED rjobs
  BY <1>2 DEF Submitted, Deleted
<1>3. ASSUME NEW q \in Roles, Submits(q)
      PROVE  /\ Submitted(j, r) => Creating(r) /\ cur = j
             /\ ~Deleted(j, r)
  <2>1. cur \in Jobs
    BY <1>3 DEF Submits, Creating, IInv, TypeInv, AtWork, Resting
  <2>2. rjobs'[j][r] = AfterCreate(cur, q)[j][r]
    BY <1>3 DEF Submits
  <2> QED BY <1>1, <1>3, <2>1, <2>2, WorkloadMoves DEF Submits, Submitted, Deleted
<1>4. ASSUME NEW q \in Roles, Deletes(q)
      PROVE  /\ ~Submitted(j, r)
             /\ Deleted(j, r) => Stopping(r) /\ cur = j
  <2>1. cur \in Jobs
    BY <1>4 DEF Deletes, Stopping, IInv, TypeInv, AtWork, Resting
  <2>2. \/ rjobs'[j][r] = AfterStop(cur, q)[j][r]
        \/ rjobs'[j][r] = AfterHalfStop(cur, q)[j][r]
    BY <1>4 DEF Deletes
  <2> QED BY <1>1, <1>4, <2>1, <2>2, WorkloadMoves DEF Deletes, Submitted, Deleted
<1>5. ASSUME NEW c \in Jobs, NEW q \in Roles, PlatformStep(c, q)
      PROVE  ~Submitted(j, r) /\ ~Deleted(j, r)
  BY <1>1, <1>5, PlatformAlone DEF Submitted, Deleted
<1> QED BY <1>2, <1>3, <1>4, <1>5, PlatformMoves
-----------------------------------------------------------------------------
\* What the task knows of its Job's row while it is in create().
LEMMA AtCreate ==
  ASSUME IInv, NEW r \in Roles, Creating(r)
  PROVE  /\ r \notin Current.ids /\ Current.status \in UnderWay
         /\ r = "controller" => /\ "gateway" \in Current.ids
                                /\ Current.url # None /\ Current.url = gateway.url
<1>1. pc \notin Resting /\ pc = IF r = "gateway" THEN "create_gateway" ELSE "create_controller"
  BY DEF Creating, Resting
<1>2. AtLabel(pc, Current)
  BY <1>1, AtAwait
<1> QED
  BY <1>1, <1>2 DEF Creating, AtLabel, Active, UnderWay, Reconciling, Resting, GatewayKept,
     UrlKnown, Releasing

\* No second workload of a role: create() runs only while the row has no id for that role
\* and the Job has not ended, across crashes, retries and lost answers.
THEOREM SubmittedOnce == Spec => SubmitOnce
<1>1. ASSUME IInv, [Next]_vars, NEW j \in Jobs, NEW r \in Roles, Submitted(j, r)
      PROVE  r \notin jobs[j].ids /\ jobs[j].status \notin Terminal
  <2>1. Creating(r) /\ cur = j
    BY <1>1, WhoSubmitsAndDeletes
  <2>2. r \notin Current.ids /\ Current.status \in UnderWay
    BY <1>1, <2>1, AtCreate
  <2> QED BY <2>1, <2>2 DEF Current, UnderWay, Terminal
<1>2. IInv /\ [Next]_vars =>
        [\A j \in Jobs, r \in Roles :
           Submitted(j, r) => r \notin jobs[j].ids /\ jobs[j].status \notin Terminal]_vars
  BY <1>1
<1> QED BY <1>2, Inductive, PTL DEF Spec, SubmitOnce

\* A controller is submitted only behind the recorded Gateway whose URL was just found healthy.
THEOREM ControllerIsBehindGateway == Spec => ControllerBehindGateway
<1>1. ASSUME IInv, [Next]_vars, NEW j \in Jobs, Submitted(j, "controller")
      PROVE  /\ "gateway" \in jobs[j].ids
             /\ jobs[j].url # None /\ jobs[j].url = gateway.url
  <2>1. Creating("controller") /\ cur = j
    BY <1>1, WhoSubmitsAndDeletes
  <2> QED BY <1>1, <2>1, AtCreate DEF Current
<1>2. IInv /\ [Next]_vars =>
        [\A j \in Jobs : Submitted(j, "controller") =>
           /\ "gateway" \in jobs[j].ids
           /\ jobs[j].url # None /\ jobs[j].url = gateway.url]_vars
  BY <1>1
<1> QED BY <1>2, Inductive, PTL DEF Spec, ControllerBehindGateway

\* With keep_rjobs only a closing Job's workloads are deleted.
THEOREM WorkloadsAreKept == Spec => KeptUnlessClosed
<1>1. ASSUME IInv, [Next]_vars, KeepRJobs, NEW j \in Jobs, NEW r \in Roles, Deleted(j, r)
      PROVE  jobs[j].status = "closing"
  <2>1. Stopping(r) /\ cur = j
    BY <1>1, WhoSubmitsAndDeletes
  <2>2. pc \in Releasing /\ pc \notin Resting
    BY <2>1 DEF Stopping, Releasing, Resting
  <2>3. AtLabel(pc, Current)
    BY <1>1, <2>2, AtAwait
  <2> QED BY <1>1, <2>1, <2>2, <2>3 DEF AtLabel, Current
<1>2. IInv /\ [Next]_vars =>
        [KeepRJobs => \A j \in Jobs, r \in Roles :
           Deleted(j, r) => jobs[j].status = "closing"]_vars
  BY <1>1
<1> QED BY <1>2, Inductive, PTL DEF Spec, KeptUnlessClosed

-----------------------------------------------------------------------------
(* The delete of a recorded workload was accepted, or it ended before.       *)
Released(j, r) == r \in jobs[j].ids => ~Live(j, r)

\* RecordedWorkloadsReleased is not inductive: a Job becomes settled at the end of a
\* cleanup, on the word of the deletes before it.
ReleaseInv ==
  /\ RecordedWorkloadsReleased
  /\ pc = "stop_gateway" => Released(cur, "controller")
  /\ pc = "cleaned" => \A r \in Roles : Released(cur, r)

\* Workloads move, rows do not, and no step of a cleanup is done.
LEMMA NothingRevived ==
  ASSUME IInv, ReleaseInv, UNCHANGED jobs,
         \A j \in Jobs, r \in Roles : Live(j, r)' => Live(j, r) \/ ~Settled(j),
         \/ pc' \notin {"stop_gateway", "cleaned"}
         \/ /\ pc' = pc /\ cur' = cur
            /\ \A j \in Jobs, r \in Roles : Live(j, r)' => Live(j, r)
  PROVE  ReleaseInv'
<1>1. RecordedWorkloadsReleased'
  BY DEF ReleaseInv, RecordedWorkloadsReleased, Settled
<1>2. pc \in {"stop_gateway", "cleaned"} => cur \in Jobs
  BY DEF IInv, TypeInv, AtWork, Resting
<1> QED BY <1>1, <1>2 DEF ReleaseInv, Released

\* Rows move, workloads do not, and no step of a cleanup is done.
LEMMA RowWritten ==
  ASSUME IInv, ReleaseInv, UNCHANGED rjobs, NEW j \in Jobs, NEW row,
         \A i \in Jobs : jobs'[i] = IF i = j THEN row ELSE jobs[i],
         \/ row.cleanup \/ row.status \notin Terminal \/ (KeepRJobs /\ row.status # "closed")
         \/ \A r \in Roles : r \in row.ids => ~Live(j, r),
         \/ pc' \notin {"stop_gateway", "cleaned"}
         \/ pc' = pc /\ cur' = cur /\ (j = cur => row.ids = jobs[j].ids)
  PROVE  ReleaseInv'
<1>1. RecordedWorkloadsReleased'
  <2> SUFFICES ASSUME NEW i \in Jobs, NEW r \in Roles, Settled(i)', r \in jobs'[i].ids
               PROVE  ~Live(i, r)'
    BY DEF RecordedWorkloadsReleased
  <2>1. CASE i = j
    BY <2>1 DEF Settled, Live, Terminal
  <2>2. CASE i # j
    BY <2>2 DEF ReleaseInv, RecordedWorkloadsReleased, Settled, Live
  <2> QED BY <2>1, <2>2
<1>2. pc \in {"stop_gateway", "cleaned"} => cur \in Jobs
  BY DEF IInv, TypeInv, AtWork, Resting
<1> QED BY <1>1, <1>2 DEF ReleaseInv, Released, Live

\* The deletes: the controller's before the Gateway's, and both before the end.
LEMMA StopReleases ==
  ASSUME IInv, ReleaseInv, NEW r \in Roles, StopOk(r) \/ StopFails(r) \/ StopRaises(r)
  PROVE  ReleaseInv'
<1>1. Stopping(r) /\ UNCHANGED jobs
  BY DEF StopOk, StopFails, StopRaises
<1>2. cur \in Jobs /\ PlatformTypeOK
  BY <1>1 DEF Stopping, IInv, TypeInv, TypeOK, AtWork, Resting
<1>3. \/ UNCHANGED rjobs \/ rjobs' = AfterStop(cur, r) \/ rjobs' = AfterHalfStop(cur, r)
  BY DEF StopOk, StopFails, StopRaises
<1>4. \A j \in Jobs, q \in Roles : Live(j, q)' => Live(j, q)
  BY <1>2, <1>3, WorkloadMoves DEF Live
<1>5. CASE StopFails(r) \/ StopRaises(r)
  <2>1. pc' \notin {"stop_gateway", "cleaned"}
    BY <1>5 DEF StopFails, StopRaises, Return, OtherRaised, Fail
  <2> QED BY <1>1, <1>4, <2>1, NothingRevived
<1>6. CASE StopOk(r)
  <2>1. RecordedWorkloadsReleased'
    BY <1>1, <1>4 DEF ReleaseInv, RecordedWorkloadsReleased, Settled
  <2>2. cur' = cur /\ pc' = IF r = "controller" THEN AfterController ELSE "cleaned"
    BY <1>6 DEF StopOk, Goto, locals
  <2>3. ~Live(cur, r)'
    <3>1. rjobs'[cur][r] \in {"absent", "deleting"}
      BY <1>2, <1>6, WorkloadMoves DEF StopOk
    <3> QED BY <2>2, <3>1 DEF Live
  <2>4. CASE r = "controller"
    BY <1>1, <2>1, <2>2, <2>3, <2>4
       DEF ReleaseInv, Released, AfterController, Has, Current
  <2>5. CASE r = "gateway"
    <3>1. Released(cur, "controller")
      BY <1>1, <2>5 DEF ReleaseInv, Stopping
    <3> QED BY <1>1, <1>2, <1>4, <2>1, <2>2, <2>3, <2>5, <3>1 DEF ReleaseInv, Released
  <2> QED BY <2>4, <2>5
<1> QED BY <1>5, <1>6

\* A step of the task keeps the workloads of settled Jobs released.
LEMMA TaskReleases ==
  ASSUME IInv, ReleaseInv, TaskStep
  PROVE  ReleaseInv'
<1>1. ASSUME NEW r \in Roles, StopOk(r) \/ StopFails(r) \/ StopRaises(r) PROVE ReleaseInv'
  BY <1>1, StopReleases
<1>2. ASSUME NEW r \in Roles, Submits(r), pc' \notin {"stop_gateway", "cleaned"}
      PROVE  ReleaseInv'
  <2>1. cur \in Jobs /\ PlatformTypeOK
    BY <1>2 DEF Submits, Creating, IInv, TypeInv, TypeOK, AtWork, Resting
  <2>2. ~Settled(cur)
    <3>1. Current.status \in UnderWay
      BY <1>2, AtCreate DEF Submits
    <3>2. RowOK(Current)
      BY <2>1 DEF IInv, RowsInv, RowConsistent, Current
    <3> QED BY <3>1, <3>2 DEF Settled, UnderWay, Terminal, Current
  <2>3. \A j \in Jobs, q \in Roles : Live(j, q)' => Live(j, q) \/ ~Settled(j)
    BY <1>2, <2>1, <2>2, WorkloadMoves DEF Submits, Live
  <2> QED BY <1>2, <2>3, NothingRevived DEF Submits
<1>3. ASSUME UNCHANGED <<jobs, rjobs>>, pc' \notin {"stop_gateway", "cleaned"}
      PROVE  ReleaseInv'
  BY <1>3, NothingRevived DEF Live
<1>4. ASSUME NEW r \in Roles, CreateOk(r) \/ CreateFails(r) PROVE ReleaseInv'
  <2>1. pc' \notin {"stop_gateway", "cleaned"}
    BY <1>4 DEF CreateOk, CreateFails, Goto, DependencyRaised
  <2>2. Submits(r) \/ UNCHANGED <<jobs, rjobs>>
    BY <1>4 DEF CreateOk, CreateFails, Submits
  <2> QED BY <1>2, <1>3, <2>1, <2>2
<1>5. CASE CallRaises
  <2>1. pc' \notin {"stop_gateway", "cleaned"}
    BY <1>5 DEF CallRaises, OtherRaised, Fail
  <2>2. (\E r \in Roles : Submits(r)) \/ UNCHANGED <<jobs, rjobs>>
    BY <1>5 DEF CallRaises, Submits
  <2> QED BY <1>2, <1>3, <2>1, <2>2
<1>6. ASSUME NEW j \in Jobs, BeginReconcile(j) \/ BeginCleanup(j) PROVE ReleaseInv'
  BY <1>3, <1>6 DEF BeginReconcile, BeginCleanup
<1>7. CASE \/ ListActive \/ ListCleanupPending \/ EndPass \/ BindFiles \/ BindFails
           \/ ReadRow \/ GetFails \/ GetGateway \/ ProbeHealth \/ OnHealthy
           \/ OnUnhealthy \/ Reread \/ GetController \/ HandleDependencyError \/ FailRead
  <2>1. UNCHANGED <<jobs, rjobs>> /\ pc' \notin {"stop_gateway", "cleaned"}
    BY <1>7 DEF ListActive, ListCleanupPending, EndPass, BindFiles, BindFails, ReadRow,
         GetFails, GetGateway, ProbeHealth, OnHealthy, OnUnhealthy, Reread, GetController,
         HandleDependencyError, FailRead, Goto, Return, Fail, DependencyRaised, ToController
  <2> QED BY <1>3, <2>1
<1>8. CASE CleanupRead
  <2>1. UNCHANGED <<jobs, rjobs>> /\ cur' = cur
    BY <1>8 DEF CleanupRead
  <2>2. RecordedWorkloadsReleased'
    BY <2>1 DEF ReleaseInv, RecordedWorkloadsReleased, Settled, Live
  <2>3. /\ pc' = "stop_gateway" => "controller" \notin Current.ids
        /\ pc' = "cleaned" => Current.ids \cap Roles = {}
    BY <1>8 DEF CleanupRead, AfterController, Has
  <2> QED BY <2>1, <2>2, <2>3 DEF ReleaseInv, Released, Current
<1>9. CASE \/ Prepare \/ RecordBinding \/ SaveGateway \/ SaveController
           \/ SaveControllerLate \/ RecordGatewayStatus \/ RecordUnready \/ RecordUrl
           \/ RecordControllerStatus \/ RecordSuccess \/ FailUpdate
           \/ KeepWorkloads \/ CleanupDone
  <2>1. pc \notin Resting /\ UNCHANGED rjobs
    BY <1>9 DEF Resting, Prepare, RecordBinding, SaveGateway, SaveController,
       SaveControllerLate, RecordGatewayStatus, RecordUnready, RecordUrl,
       RecordControllerStatus, RecordSuccess, FailUpdate, KeepWorkloads, CleanupDone
  <2>2. cur \in Jobs /\ Current \in Row /\ Good(Current) /\ AtLabel(pc, Current)
    BY <2>1, AtAwait
  <2>3. pc' \notin {"stop_gateway", "cleaned"}
    BY <1>9 DEF Prepare, RecordBinding, SaveGateway, SaveController, SaveControllerLate,
       RecordGatewayStatus, RecordUnready, RecordUrl, RecordControllerStatus, RecordSuccess,
       FailUpdate, KeepWorkloads, CleanupDone, Guarded, Goto, Return, OtherRaised, Fail,
       ToController
  <2>4. ASSUME NEW row, Store(row),
               \/ row.cleanup \/ row.status \notin Terminal
               \/ (KeepRJobs /\ row.status # "closed")
               \/ \A r \in Roles : r \in row.ids => ~Live(cur, r)
        PROVE  ReleaseInv'
    <3>1. \A i \in Jobs : jobs'[i] = IF i = cur THEN row ELSE jobs[i]
      BY <2>4 DEF Store, IInv, TypeInv, TypeOK
    <3> QED BY <2>1, <2>2, <2>3, <2>4, <3>1, RowWritten
  <2>5. CASE UNCHANGED jobs
    BY <1>3, <2>1, <2>3, <2>5
  <2>6. ASSUME pc \in Reconciling PROVE Current.status \notin Terminal
    BY <2>2, <2>6 DEF AtLabel, Active, Terminal
  <2>7. CASE \/ RecordBinding \/ SaveGateway \/ SaveControllerLate \/ RecordGatewayStatus
             \/ RecordUnready \/ RecordUrl \/ RecordControllerStatus
    <3>1. Current.status \notin Terminal
      BY <2>6, <2>7 DEF Reconciling, RecordBinding, SaveGateway, SaveControllerLate,
           RecordGatewayStatus, RecordUnready, RecordUrl, RecordControllerStatus
    <3>2. \A ph \in Phase :
            /\ [Note(Current, ph) EXCEPT !.bound = TRUE].status = Current.status
            /\ [Note(Current, ph) EXCEPT !.url = gateway.url].status = Current.status
            /\ Note(Current, ph).status = Current.status
            /\ WithId(Note(Current, ph), "gateway").status = Current.status
      BY <2>2 DEF Row, WithId, Note, Move
    <3>3. /\ WithId(Current, "controller").status = Current.status
          /\ [Current EXCEPT !.seen["gateway"] = gateway.state].status = Current.status
          /\ [Current EXCEPT !.seen["controller"] = controller].status = Current.status
      BY <2>2 DEF Row, WithId
    <3>4. {"submitting_gateway_rjob", "waiting_gateway_address", "checking_gateway_health",
           "submitting_safactory_rjob"} \subseteq Phase
      BY DEF Phase
    <3> QED
      BY <2>4, <2>7, <3>1, <3>2, <3>3, <3>4
         DEF RecordBinding, SaveGateway, SaveControllerLate, RecordGatewayStatus,
             RecordUnready, RecordUrl, RecordControllerStatus
  <2>8. CASE Prepare \/ SaveController
    <3>1. /\ Move(Current, "preparing", "resolving_job_files").status \notin Terminal
          /\ WithId(Move(Current, "running", "running_safactory"), "controller").status
               \notin Terminal
      BY <2>2 DEF Row, WithId, Move, Terminal
    <3> QED BY <2>4, <2>5, <2>8, <3>1 DEF Prepare, SaveController, Guarded
  <2>9. CASE RecordSuccess \/ FailUpdate
    <3>1. /\ [Move(Current, "succeeded", "completed") EXCEPT !.cleanup = TRUE].cleanup
          /\ [Move(Current, "failed", "cleaning_rjobs")
                EXCEPT !.reason = why, !.cleanup = TRUE].cleanup
      BY <2>2 DEF Row, Move
    <3> QED BY <2>4, <2>5, <2>9, <3>1 DEF RecordSuccess, FailUpdate, Guarded
  <2>10. CASE KeepWorkloads
    <3>1. KeepRJobs /\ Current.status # "closed"
      BY <2>2, <2>10 DEF KeepWorkloads, AtLabel
    <3>2. [Current EXCEPT !.cleanup = FALSE].status = Current.status
      BY <2>2 DEF Row
    <3> QED BY <2>4, <2>10, <3>1, <3>2 DEF KeepWorkloads
  <2>11. CASE CleanupDone
    <3>1. \A r \in Roles : r \in Current.ids => ~Live(cur, r)
      BY <2>11 DEF CleanupDone, ReleaseInv, Released, Current
    <3>2. /\ [Move(Current, "closed", "completed")
                EXCEPT !.cleanup = FALSE, !.reason = None].ids = Current.ids
          /\ [Current EXCEPT !.cleanup = FALSE].ids = Current.ids
      BY <2>2 DEF Row, Move
    <3> QED BY <2>4, <2>11, <3>1, <3>2 DEF CleanupDone
  <2> QED BY <1>9, <2>7, <2>8, <2>9, <2>10, <2>11
<1> QED
  BY <1>1, <1>4, <1>5, <1>6, <1>7, <1>8, <1>9 DEF TaskStep

\* Closes, deadlines, the platform and crashes keep the workloads of settled Jobs released.
LEMMA EnvironmentReleases ==
  ASSUME IInv, ReleaseInv, Environment
  PROVE  ReleaseInv'
<1>1. PlatformTypeOK /\ jobs \in [Jobs -> Row]
  BY DEF IInv, TypeInv, TypeOK
<1>2. ASSUME NEW j \in Jobs, CreateJob(j) \/ CloseJob(j) PROVE ReleaseInv'
  <2> DEFINE row == IF jobs[j].status = "absent" THEN NewControlJob ELSE Closed(jobs[j])
  <2>1. jobs[j].status \in Active \cup {"absent"} /\ jobs[j] \in Row
    BY <1>1, <1>2 DEF CreateJob, CloseJob
  <2>2. \A i \in Jobs : jobs'[i] = IF i = j THEN row ELSE jobs[i]
    BY <1>1, <1>2 DEF CreateJob, CloseJob, Active
  <2>3. row.status \in {"queued", "closing"}
    BY <2>1 DEF NewControlJob, Closed, Row
  <2>4. pc \in {"stop_gateway", "cleaned"} => j # cur
    <3>1. ASSUME pc \in {"stop_gateway", "cleaned"}, j = cur PROVE FALSE
      <4>1. AtLabel(pc, jobs[j])
        BY <3>1, AtAwait DEF Current, Resting
      <4> QED BY <2>1, <3>1, <4>1 DEF AtLabel, Releasing, Active
    <3> QED BY <3>1
  <2>5. UNCHANGED <<rjobs, task>>
    BY <1>2 DEF CreateJob, CloseJob
  <2> HIDE DEF row
  <2> QED BY <2>2, <2>3, <2>4, <2>5, RowWritten DEF task, Terminal
<1>3. ASSUME NEW j \in Jobs, NEW r \in Roles, Deadline(j, r) PROVE ReleaseInv'
  BY <1>3 DEF Deadline, task, ReleaseInv, Released, RecordedWorkloadsReleased, Settled, Live
<1>4. ASSUME NEW j \in Jobs, NEW r \in Roles,
             PlatformStep(j, r) /\ UNCHANGED <<jobs, late, task, crashes>>
      PROVE  ReleaseInv'
  <2>1. \A i \in Jobs, q \in Roles : Live(i, q)' => Live(i, q)
    BY <1>1, <1>4, PlatformAlone
  <2> QED BY <1>4, <2>1, NothingRevived DEF task
<1>5. CASE Crash
  <2>1. UNCHANGED jobs /\ pc' = "down"
    BY <1>5 DEF Crash
  <2>2. CASE UNCHANGED rjobs
    BY <2>1, <2>2, NothingRevived DEF Live
  <2>3. ASSUME NEW q \in Roles, Submits(q) PROVE ReleaseInv'
    <3>1. cur \in Jobs
      BY <2>3 DEF Submits, Creating, IInv, TypeInv, AtWork, Resting
    <3>2. ~Settled(cur)
      <4>1. Current.status \in UnderWay
        BY <2>3, AtCreate DEF Submits
      <4>2. RowOK(Current)
        BY <3>1 DEF IInv, RowsInv, RowConsistent, Current
      <4> QED BY <4>1, <4>2 DEF Settled, UnderWay, Terminal, Current
    <3>3. \A j \in Jobs, r \in Roles : Live(j, r)' => Live(j, r) \/ ~Settled(j)
      BY <1>1, <2>3, <3>1, <3>2, WorkloadMoves DEF Submits, Live
    <3> QED BY <2>1, <3>3, NothingRevived
  <2>4. ASSUME NEW q \in Roles, Stopping(q), rjobs' = AfterStop(cur, q) PROVE ReleaseInv'
    <3>1. cur \in Jobs
      BY <2>4 DEF Stopping, IInv, TypeInv, AtWork, Resting
    <3>2. \A j \in Jobs, r \in Roles : Live(j, r)' => Live(j, r)
      BY <1>1, <2>4, <3>1, WorkloadMoves DEF Live
    <3> QED BY <2>1, <3>2, NothingRevived
  <2> QED BY <1>5, <2>1, <2>2, <2>3, <2>4 DEF Crash, Submits
<1>6. CASE Restart
  BY <1>6, NothingRevived DEF Restart, Live
<1> QED BY <1>2, <1>3, <1>4, <1>5, <1>6 DEF Environment

\* The release invariant holds in every reachable state.
LEMMA ReleaseInductive == Spec => []ReleaseInv
<1>1. Init => ReleaseInv
  BY DEF Init, ReleaseInv, RecordedWorkloadsReleased, PlatformInit, Live
<1>2. IInv /\ ReleaseInv /\ [Next]_vars => ReleaseInv'
  <2>1. ASSUME ReleaseInv, UNCHANGED vars PROVE ReleaseInv'
    BY <2>1 DEF vars, task, ReleaseInv, Released, RecordedWorkloadsReleased, Settled, Live
  <2> QED BY <2>1, TaskReleases, EnvironmentReleases DEF Next
<1> QED BY <1>1, <1>2, Inductive, PTL DEF Spec

\* When a Job has ended and owes no cleanup, none of the workloads on its record is live,
\* however often the cleanup failed, was repeated or was interrupted.
THEOREM SettledJobsAreReleased == Spec => []RecordedWorkloadsReleased
<1>1. ReleaseInv => RecordedWorkloadsReleased
  BY DEF ReleaseInv
<1> QED BY <1>1, ReleaseInductive, PTL

\* The Gateway of a Job is deleted only when its recorded controller is no longer live.
THEOREM ControllerIsDeletedFirst == Spec => ControllerGoesFirst
<1>1. ASSUME IInv, ReleaseInv, [Next]_vars, NEW j \in Jobs,
             Deleted(j, "gateway"), "controller" \in jobs[j].ids
      PROVE  ~Live(j, "controller")
  <2>1. Stopping("gateway") /\ cur = j
    BY <1>1, WhoSubmitsAndDeletes
  <2> QED BY <1>1, <2>1 DEF Stopping, ReleaseInv, Released
<1>2. IInv /\ ReleaseInv /\ [Next]_vars =>
        [\A j \in Jobs : Deleted(j, "gateway") /\ "controller" \in jobs[j].ids
           => ~Live(j, "controller")]_vars
  BY <1>1
<1> QED BY <1>2, Inductive, ReleaseInductive, PTL DEF Spec, ControllerGoesFirst

-----------------------------------------------------------------------------
(* No workload escapes the record, unless an answer is lost or the process   *)
(* dies: NoOrphan itself is inductive on top of IInv.                        *)
NothingLost == {"crash", "lost_answer"} \cap Faults = {}

\* A step that submits nothing, forgets no id, and stores an id it was about to store.
LEMMA StaysRecorded ==
  ASSUME IInv, NoOrphan, NothingLost,
         \A j \in Jobs, r \in Roles : rjobs[j][r] = "absent" => rjobs'[j][r] = "absent",
         \A j \in Jobs : jobs[j].ids \subseteq jobs'[j].ids,
         \A r \in Roles : Saving(r) => r \in jobs'[cur].ids \/ (cur' = cur /\ Saving(r)')
  PROVE  NoOrphan'
<1> SUFFICES ASSUME NEW j \in Jobs, NEW r \in Roles, rjobs'[j][r] # "absent"
             PROVE  r \in jobs'[j].ids \/ (cur' = j /\ Saving(r)')
  BY DEF NoOrphan, NothingLost
<1>1. r \in jobs[j].ids \/ (cur = j /\ Saving(r))
  BY DEF NoOrphan, NothingLost
<1> QED BY <1>1

\* What the updates do to the ids of a row.
LEMMA IdsAfter ==
  ASSUME NEW row \in Row
  PROVE  /\ \A st \in Status, ph \in Phase : Move(row, st, ph).ids = row.ids
         /\ \A ph \in Phase : Note(row, ph).ids = row.ids
         /\ \A r \in Roles : WithId(row, r).ids = row.ids \cup {r}
         /\ Closed(row).ids = row.ids
BY DEF Row, Move, Note, WithId, Closed

\* The stores of the task keep every recorded id, and store the one they are there for.
LEMMA StoresRecord ==
  ASSUME IInv, NoOrphan, NothingLost,
         \/ Prepare \/ RecordBinding \/ SaveGateway \/ SaveController
         \/ SaveControllerLate \/ RecordGatewayStatus \/ RecordUnready \/ RecordUrl
         \/ RecordControllerStatus \/ RecordSuccess \/ FailUpdate
         \/ KeepWorkloads \/ CleanupDone
  PROVE  NoOrphan'
<1>1. pc \notin Resting /\ UNCHANGED rjobs
  BY DEF Resting, Prepare, RecordBinding, SaveGateway, SaveController,
     SaveControllerLate, RecordGatewayStatus, RecordUnready, RecordUrl,
     RecordControllerStatus, RecordSuccess, FailUpdate, KeepWorkloads, CleanupDone
<1>2. cur \in Jobs /\ Current \in Row /\ AtLabel(pc, Current)
  BY <1>1, AtAwait
<1>3. ASSUME NEW row, Store(row), Current.ids \subseteq row.ids,
             \A r \in Roles : Saving(r) => r \in row.ids
      PROVE  NoOrphan'
  <2>1. \A i \in Jobs : jobs'[i] = IF i = cur THEN row ELSE jobs[i]
    BY <1>3 DEF Store, IInv, TypeInv, TypeOK
  <2> QED BY <1>1, <1>2, <1>3, <2>1, StaysRecorded DEF Current
<1>4. ASSUME UNCHANGED jobs, \A r \in Roles : Saving(r) => cur' = cur /\ Saving(r)'
      PROVE  NoOrphan'
  BY <1>1, <1>4, StaysRecorded
<1>5. CASE SaveGateway
  <2> DEFINE row == WithId(Note(Current, "waiting_gateway_address"), "gateway")
  <2>1. row.ids = Current.ids \cup {"gateway"}
    <3>1. Note(Current, "waiting_gateway_address") \in Row /\ "waiting_gateway_address" \in Phase
      BY <1>2, RowTypes DEF Phase
    <3> QED BY <1>2, <3>1, IdsAfter
  <2> QED BY <1>3, <1>5, <2>1 DEF SaveGateway, Saving
<1>6. CASE SaveControllerLate
  <2>1. WithId(Current, "controller").ids = Current.ids \cup {"controller"}
    BY <1>2, IdsAfter
  <2> QED BY <1>3, <1>6, <2>1 DEF SaveControllerLate, Saving
<1>7. CASE SaveController
  <2>1. Current.status \in Active \cup {"closing"}
    BY <1>2, <1>7 DEF SaveController, AtLabel, Reconciling
  <2>2. CASE Conflict(Current, "running")
    <3>1. UNCHANGED jobs /\ cur' = cur /\ pc' = "save_controller_late"
      BY <1>7, <2>2 DEF SaveController, Goto, locals
    <3> QED BY <1>4, <1>7, <3>1 DEF SaveController, Saving
  <2>3. CASE ~Conflict(Current, "running")
    <3>1. ~Immutable(Current, "running")
      BY <2>1 DEF Immutable, Active, Terminal
    <3>2. Store(WithId(Move(Current, "running", "running_safactory"), "controller"))
      BY <1>7, <2>3, <3>1 DEF SaveController, Guarded
    <3>3. /\ "running" \in Status /\ "running_safactory" \in Phase
          /\ Move(Current, "running", "running_safactory") \in Row
      BY <1>2, RowTypes DEF Status, Active, Phase
    <3>4. WithId(Move(Current, "running", "running_safactory"), "controller").ids
            = Current.ids \cup {"controller"}
      BY <1>2, <3>3, IdsAfter
    <3> QED BY <1>3, <1>7, <3>2, <3>4 DEF SaveController, Saving
  <2> QED BY <2>2, <2>3
<1>8. CASE \/ Prepare \/ RecordBinding \/ RecordGatewayStatus \/ RecordUnready \/ RecordUrl
           \/ RecordControllerStatus \/ RecordSuccess \/ FailUpdate
           \/ KeepWorkloads \/ CleanupDone
  <2>1. \A r \in Roles : ~Saving(r)
    BY <1>8 DEF Saving, Prepare, RecordBinding, RecordGatewayStatus, RecordUnready, RecordUrl,
       RecordControllerStatus, RecordSuccess, FailUpdate, KeepWorkloads, CleanupDone
  <2>2. \A st \in {"preparing", "succeeded", "failed", "closed"},
           ph \in {"resolving_job_files", "completed", "cleaning_rjobs"} :
             Move(Current, st, ph).ids = Current.ids /\ Move(Current, st, ph) \in Row
    <3>1. /\ {"preparing", "succeeded", "failed", "closed"} \subseteq Status
          /\ {"resolving_job_files", "completed", "cleaning_rjobs"} \subseteq Phase
      BY DEF Status, Active, Terminal, Phase
    <3>2. \A st \in Status, ph \in Phase :
            Move(Current, st, ph).ids = Current.ids /\ Move(Current, st, ph) \in Row
      BY <1>2, IdsAfter, RowTypes
    <3> QED BY <3>1, <3>2
  <2>3. \A ph \in {"submitting_gateway_rjob", "checking_gateway_health",
                    "submitting_safactory_rjob"} :
             Note(Current, ph).ids = Current.ids /\ Note(Current, ph) \in Row
    <3>1. {"submitting_gateway_rjob", "checking_gateway_health", "submitting_safactory_rjob"}
            \subseteq Phase
      BY DEF Phase
    <3> QED BY <1>2, <3>1, IdsAfter, RowTypes
  <2>4. ASSUME NEW row, Store(row), row.ids = Current.ids PROVE NoOrphan'
    BY <1>3, <2>1, <2>4
  <2>5. CASE UNCHANGED jobs
    BY <1>4, <2>1, <2>5
  <2>6. CASE Prepare
    BY <2>2, <2>4, <2>5, <2>6 DEF Prepare, Guarded
  <2>7. CASE RecordBinding \/ RecordUrl \/ RecordUnready
    <3>1. /\ [Note(Current, "submitting_gateway_rjob") EXCEPT !.bound = TRUE].ids = Current.ids
          /\ [Note(Current, "submitting_safactory_rjob") EXCEPT !.url = gateway.url].ids
               = Current.ids
      BY <2>3 DEF Row
    <3> QED BY <2>3, <2>4, <2>7, <3>1 DEF RecordBinding, RecordUrl, RecordUnready
  <2>8. CASE RecordGatewayStatus \/ RecordControllerStatus
    <3>1. /\ [Current EXCEPT !.seen["gateway"] = gateway.state].ids = Current.ids
          /\ [Current EXCEPT !.seen["controller"] = controller].ids = Current.ids
      BY <1>2 DEF Row
    <3> QED BY <2>4, <2>8, <3>1 DEF RecordGatewayStatus, RecordControllerStatus
  <2>9. CASE RecordSuccess \/ FailUpdate
    <3>1. /\ [Move(Current, "succeeded", "completed") EXCEPT !.cleanup = TRUE].ids = Current.ids
          /\ [Move(Current, "failed", "cleaning_rjobs")
                EXCEPT !.reason = why, !.cleanup = TRUE].ids = Current.ids
      BY <2>2 DEF Row
    <3> QED BY <2>4, <2>5, <2>9, <3>1 DEF RecordSuccess, FailUpdate, Guarded
  <2>10. CASE KeepWorkloads \/ CleanupDone
    <3>1. /\ [Move(Current, "closed", "completed")
                EXCEPT !.cleanup = FALSE, !.reason = None].ids = Current.ids
          /\ [Current EXCEPT !.cleanup = FALSE].ids = Current.ids
      BY <1>2, <2>2 DEF Row
    <3> QED BY <2>4, <2>10, <3>1 DEF KeepWorkloads, CleanupDone
  <2> QED BY <1>8, <2>6, <2>7, <2>8, <2>9, <2>10
<1> QED BY <1>5, <1>6, <1>7, <1>8

\* The other steps of the task: a submission is followed by the store of its id.
LEMMA CallsRecord ==
  ASSUME IInv, NoOrphan, NothingLost, TaskStep
  PROVE  NoOrphan'
<1> USE DEF Saving
<1>1. PlatformTypeOK
  BY DEF IInv, TypeInv, TypeOK
<1>2. ASSUME UNCHANGED <<jobs, rjobs>>, \A r \in Roles : ~Saving(r) PROVE NoOrphan'
  BY <1>2, StaysRecorded
<1>3. ASSUME NEW r \in Roles, CreateOk(r) PROVE NoOrphan'
  <2>1. cur \in Jobs /\ Creating(r)
    BY <1>3 DEF CreateOk, Creating, IInv, TypeInv, AtWork, Resting
  <2>2. UNCHANGED jobs /\ cur' = cur /\ Saving(r)'
    BY <1>3 DEF CreateOk, Goto, locals
  <2>3. \A j \in Jobs, q \in Roles : ~(j = cur /\ q = r) => rjobs'[j][q] = rjobs[j][q]
    BY <1>1, <1>3, <2>1, WorkloadMoves DEF CreateOk
  <2>4. \A q \in Roles : ~Saving(q)
    BY <2>1 DEF Creating
  <2> SUFFICES ASSUME NEW j \in Jobs, NEW q \in Roles, rjobs'[j][q] # "absent"
               PROVE  q \in jobs'[j].ids \/ (cur' = j /\ Saving(q)')
    BY DEF NoOrphan
  <2>5. CASE j = cur /\ q = r
    BY <2>2, <2>5
  <2>6. CASE ~(j = cur /\ q = r)
    BY <2>2, <2>3, <2>4, <2>6 DEF NoOrphan, NothingLost
  <2> QED BY <2>5, <2>6
<1>4. ASSUME NEW r \in Roles, CreateFails(r) \/ CallRaises PROVE NoOrphan'
  <2>1. UNCHANGED <<jobs, rjobs>> /\ \A q \in Roles : ~Saving(q)
    BY <1>4 DEF CreateFails, CallRaises, Creating, NothingLost
  <2> QED BY <1>2, <2>1
<1>5. ASSUME NEW r \in Roles, StopOk(r) \/ StopFails(r) \/ StopRaises(r) PROVE NoOrphan'
  <2>1. Stopping(r) /\ UNCHANGED jobs /\ cur \in Jobs
    BY <1>5 DEF StopOk, StopFails, StopRaises, Stopping, IInv, TypeInv, AtWork, Resting
  <2>2. UNCHANGED rjobs \/ rjobs' = AfterStop(cur, r) \/ rjobs' = AfterHalfStop(cur, r)
    BY <1>5 DEF StopOk, StopFails, StopRaises
  <2>3. \A j \in Jobs, q \in Roles : rjobs[j][q] = "absent" => rjobs'[j][q] = "absent"
    BY <1>1, <2>1, <2>2, WorkloadMoves DEF Live
  <2>4. \A q \in Roles : ~Saving(q)
    BY <2>1 DEF Stopping
  <2> QED BY <2>1, <2>3, <2>4, StaysRecorded
<1>6. ASSUME NEW j \in Jobs, BeginReconcile(j) \/ BeginCleanup(j) PROVE NoOrphan'
  BY <1>2, <1>6 DEF BeginReconcile, BeginCleanup
<1>7. CASE \/ ListActive \/ ListCleanupPending \/ EndPass \/ BindFiles \/ BindFails
           \/ ReadRow \/ GetFails \/ GetGateway \/ ProbeHealth \/ OnHealthy
           \/ OnUnhealthy \/ Reread \/ GetController \/ HandleDependencyError \/ FailRead
           \/ CleanupRead
  <2>1. UNCHANGED <<jobs, rjobs>> /\ \A r \in Roles : ~Saving(r)
    BY <1>7 DEF ListActive, ListCleanupPending, EndPass, BindFiles, BindFails, ReadRow,
         GetFails, GetGateway, ProbeHealth, OnHealthy, OnUnhealthy, Reread, GetController,
         HandleDependencyError, FailRead, CleanupRead
  <2> QED BY <1>2, <2>1
<1>8. CASE \/ Prepare \/ RecordBinding \/ SaveGateway \/ SaveController
           \/ SaveControllerLate \/ RecordGatewayStatus \/ RecordUnready \/ RecordUrl
           \/ RecordControllerStatus \/ RecordSuccess \/ FailUpdate
           \/ KeepWorkloads \/ CleanupDone
  BY <1>8, StoresRecord
<1> QED BY <1>3, <1>4, <1>5, <1>6, <1>7, <1>8 DEF TaskStep

\* A new row has no workload: of an absent one neither an id is recorded nor one is stored.
LEMMA EnvironmentRecords ==
  ASSUME IInv, NoOrphan, NothingLost, Environment
  PROVE  NoOrphan'
<1>1. PlatformTypeOK /\ jobs \in [Jobs -> Row]
  BY DEF IInv, TypeInv, TypeOK
<1>2. ASSUME NEW j \in Jobs, CreateJob(j) PROVE NoOrphan'
  <2>1. jobs[j].ids = {}
    <3>1. RowOK(jobs[j]) /\ jobs[j].status = "absent" /\ jobs[j] \in Row
      BY <1>1, <1>2 DEF CreateJob, IInv, RowsInv, RowConsistent
    <3> QED BY <3>1 DEF RowOK, Row
  <2>2. \A i \in Jobs : jobs'[i] = IF i = j THEN NewControlJob ELSE jobs[i]
    BY <1>1, <1>2 DEF CreateJob
  <2>3. UNCHANGED <<rjobs, pc, cur>>
    BY <1>2 DEF CreateJob, task
  <2>4. \A i \in Jobs : jobs[i].ids \subseteq jobs'[i].ids
    BY <2>1, <2>2 DEF NewControlJob
  <2> QED BY <2>3, <2>4, StaysRecorded DEF Saving
<1>3. ASSUME NEW j \in Jobs, CloseJob(j) PROVE NoOrphan'
  <2>1. \A i \in Jobs : jobs'[i] = IF i = j THEN Closed(jobs[j]) ELSE jobs[i]
    BY <1>1, <1>3 DEF CloseJob
  <2>2. \A i \in Jobs : jobs[i].ids \subseteq jobs'[i].ids
    BY <1>1, <2>1, IdsAfter
  <2>3. UNCHANGED <<rjobs, pc, cur>>
    BY <1>3 DEF CloseJob, task
  <2> QED BY <2>2, <2>3, StaysRecorded DEF Saving
<1>4. ASSUME NEW j \in Jobs, NEW r \in Roles, Deadline(j, r) PROVE NoOrphan'
  BY <1>4, StaysRecorded DEF Deadline, task, Saving
<1>5. ASSUME NEW j \in Jobs, NEW r \in Roles,
             PlatformStep(j, r) /\ UNCHANGED <<jobs, late, task, crashes>>
      PROVE  NoOrphan'
  <2>1. \A i \in Jobs, q \in Roles : rjobs[i][q] = "absent" => rjobs'[i][q] = "absent"
    BY <1>1, <1>5, PlatformAlone
  <2> QED BY <1>5, <2>1, StaysRecorded DEF task, Saving
<1>6. ~Crash
  BY DEF Crash, NothingLost
<1>7. CASE Restart
  BY <1>7, StaysRecorded DEF Restart, locals, Saving
<1> QED BY <1>2, <1>3, <1>4, <1>5, <1>6, <1>7 DEF Environment

\* Unless the process dies or an answer is lost, every workload there is is on record, or the
\* task is just storing its id: no close at any await, and no call that fails, loses one.
THEOREM NoWorkloadEscapes == Spec => []NoOrphan
<1>1. Init => NoOrphan
  BY DEF Init, PlatformInit, NoOrphan
<1>2. IInv /\ NoOrphan /\ [Next]_vars => NoOrphan'
  <2> SUFFICES ASSUME IInv, NoOrphan, [Next]_vars PROVE NoOrphan'
    OBVIOUS
  <2>1. CASE ~NothingLost
    BY <2>1 DEF NoOrphan, NothingLost
  <2>2. CASE NothingLost /\ UNCHANGED vars
    BY <2>2 DEF vars, task, NoOrphan, Saving
  <2>3. CASE NothingLost /\ Next
    BY <2>3, CallsRecord, EnvironmentRecords DEF Next
  <2> QED BY <2>1, <2>2, <2>3
<1> QED BY <1>1, <1>2, Inductive, PTL DEF Spec

-----------------------------------------------------------------------------
(* Every step of JobOrchestrator is a step of JobLifecycle, or leaves its    *)
(* two variables alone.                                                      *)
\* The moves of one row that the lifecycle allows.  A binding once recorded stays.
FollowsLife(old, new) ==
  \/ new.status = old.status /\ new.cleanup = old.cleanup
  \/ old.status = "absent" /\ new.status = "queued" /\ new.cleanup = old.cleanup
  \/ old.status = "queued" /\ new.status = "preparing" /\ new.cleanup = old.cleanup
  \/ old.status = "preparing" /\ new.status = "running" /\ new.cleanup = old.cleanup
  \/ old.status = "running" /\ new.status = "succeeded" /\ new.cleanup = TRUE
  \/ old.status \in {"preparing", "running"} /\ new.status = "failed" /\ new.cleanup = TRUE
  \/ old.status \in Active /\ new.status = "closing" /\ new.cleanup = TRUE
  \/ /\ old.cleanup = TRUE /\ new.cleanup = FALSE
     /\ new.status = IF old.status = "closing" THEN "closed" ELSE old.status

MayBecome(old, new) ==
  /\ old.bound => new.bound
  /\ FollowsLife(old, new)

\* One row moves as it may: the table takes a step of the lifecycle.
LEMMA RowMoves ==
  ASSUME jobs \in [Jobs -> Row], NEW j \in Jobs, NEW row \in Row,
         jobs' = [jobs EXCEPT ![j] = row], MayBecome(jobs[j], row)
  PROVE  [Lifecycle!Next]_Lifecycle!vars
<1> DEFINE st  == [i \in Jobs |-> jobs[i].status]
           st1 == [i \in Jobs |-> jobs'[i].status]
           ow  == {i \in Jobs : jobs[i].cleanup}
           ow1 == {i \in Jobs : jobs'[i].cleanup}
<1>1. \A i \in Jobs : jobs'[i] = IF i = j THEN row ELSE jobs[i]
  OBVIOUS
<1>2. st1 = [st EXCEPT ![j] = row.status]
  BY <1>1
<1>3. row.cleanup \in BOOLEAN /\ jobs[j].cleanup \in BOOLEAN
  BY DEF Row
<1>4. ow1 = IF row.cleanup THEN ow \cup {j} ELSE ow \ {j}
  BY <1>1
<1>5. (j \in ow) <=> jobs[j].cleanup
  OBVIOUS
<1>6. st[j] = jobs[j].status
  OBVIOUS
<1> HIDE DEF st, st1, ow, ow1
<1>7. CASE row.status = jobs[j].status /\ row.cleanup = jobs[j].cleanup
  <2>1. st1 = st
    BY <1>1, <1>7 DEF st, st1
  <2>2. ow1 = ow
    BY <1>3, <1>4, <1>5, <1>7
  <2> QED BY <2>1, <2>2 DEF Lifecycle!vars, st, st1, ow, ow1
<1> SUFFICES ASSUME ~(row.status = jobs[j].status /\ row.cleanup = jobs[j].cleanup)
             PROVE  Lifecycle!Next
  BY <1>7
<1> USE DEF Lifecycle!Move
<1>8. CASE jobs[j].status = "absent" /\ row.status = "queued" /\ row.cleanup = jobs[j].cleanup
  <2>1. Lifecycle!Create(j)
    BY <1>2, <1>3, <1>4, <1>5, <1>6, <1>8 DEF Lifecycle!Create, st, st1, ow, ow1
  <2> QED BY <2>1 DEF Lifecycle!Next
<1>9. CASE /\ jobs[j].status = "queued" /\ row.status = "preparing"
           /\ row.cleanup = jobs[j].cleanup
  <2>1. Lifecycle!Prepare(j)
    BY <1>2, <1>3, <1>4, <1>5, <1>6, <1>9 DEF Lifecycle!Prepare, st, st1, ow, ow1
  <2> QED BY <2>1 DEF Lifecycle!Next, Lifecycle!Work
<1>10. CASE /\ jobs[j].status = "preparing" /\ row.status = "running"
            /\ row.cleanup = jobs[j].cleanup
  <2>1. Lifecycle!Run(j)
    BY <1>2, <1>3, <1>4, <1>5, <1>6, <1>10 DEF Lifecycle!Run, st, st1, ow, ow1
  <2> QED BY <2>1 DEF Lifecycle!Next, Lifecycle!Work
<1>11. CASE jobs[j].status = "running" /\ row.status = "succeeded" /\ row.cleanup = TRUE
  <2>1. Lifecycle!Succeed(j)
    BY <1>2, <1>4, <1>6, <1>11 DEF Lifecycle!Succeed, st, st1, ow, ow1
  <2> QED BY <2>1 DEF Lifecycle!Next, Lifecycle!Work
<1>12. CASE /\ jobs[j].status \in {"preparing", "running"} /\ row.status = "failed"
            /\ row.cleanup = TRUE
  <2>1. Lifecycle!Fail(j)
    BY <1>2, <1>4, <1>6, <1>12 DEF Lifecycle!Fail, st, st1, ow, ow1
  <2> QED BY <2>1 DEF Lifecycle!Next, Lifecycle!Work
<1>13. CASE jobs[j].status \in Active /\ row.status = "closing" /\ row.cleanup = TRUE
  <2>1. Lifecycle!Close(j)
    BY <1>2, <1>4, <1>6, <1>13
       DEF Lifecycle!Close, Lifecycle!Running, Active, st, st1, ow, ow1
  <2> QED BY <2>1 DEF Lifecycle!Next
<1>14. CASE /\ jobs[j].cleanup = TRUE /\ row.cleanup = FALSE
            /\ row.status = IF jobs[j].status = "closing" THEN "closed" ELSE jobs[j].status
  <2>1. st1 = IF st[j] = "closing" THEN [st EXCEPT ![j] = "closed"] ELSE st
    BY <1>2, <1>6, <1>14 DEF st
  <2>2. Lifecycle!Release(j)
    BY <1>4, <1>5, <1>14, <2>1 DEF Lifecycle!Release, st, st1, ow, ow1
  <2> QED BY <2>2 DEF Lifecycle!Next
<1> QED BY <1>8, <1>9, <1>10, <1>11, <1>12, <1>13, <1>14 DEF MayBecome, FollowsLife

\* A table nobody writes is a stuttering step of the lifecycle.
LEMMA SameTable ==
  ASSUME UNCHANGED jobs
  PROVE  [Lifecycle!Next]_Lifecycle!vars
  BY DEF Lifecycle!vars

\* What the task may write to the row of the Job it works on, by the label it is at.
LEMMA WriterMoves ==
  ASSUME NEW row \in Row, Good(row), NEW url \in Addresses \cup {None}, NEW s \in RJobState,
         NEW reason, NEW ph \in Phase
  PROVE  /\ ~Conflict(row, "preparing") /\ AtLabel("prepare", row) =>
              MayBecome(row, Move(row, "preparing", "resolving_job_files"))
         /\ ~Conflict(row, "running") /\ AtLabel("save_controller", row) =>
              MayBecome(row, WithId(Move(row, "running", "running_safactory"), "controller"))
         /\ ~Conflict(row, "succeeded") /\ AtLabel("succeed", row) =>
              MayBecome(row, [Move(row, "succeeded", "completed") EXCEPT !.cleanup = TRUE])
         /\ ~Conflict(row, "failed") /\ AtLabel("fail_update", row) =>
              MayBecome(row, [Move(row, "failed", "cleaning_rjobs")
                                EXCEPT !.reason = reason, !.cleanup = TRUE])
         /\ AtLabel("cleaned", row) /\ closing =>
              MayBecome(row, [Move(row, "closed", "completed")
                                EXCEPT !.cleanup = FALSE, !.reason = None])
         /\ AtLabel("keep", row) \/ (AtLabel("cleaned", row) /\ ~closing) =>
              MayBecome(row, [row EXCEPT !.cleanup = FALSE])
         /\ MayBecome(row, [Note(row, ph) EXCEPT !.bound = TRUE])
         /\ MayBecome(row, [Note(row, ph) EXCEPT !.url = url])
         /\ MayBecome(row, Note(row, ph))
         /\ MayBecome(row, WithId(Note(row, ph), "gateway"))
         /\ MayBecome(row, WithId(row, "controller"))
         /\ \A r \in Roles : MayBecome(row, [row EXCEPT !.seen[r] = s])
<1> USE DEF Row, MayBecome, FollowsLife
<1>1. ~Conflict(row, "preparing") /\ AtLabel("prepare", row) =>
        MayBecome(row, Move(row, "preparing", "resolving_job_files"))
  BY DEF Good, RowOK, Conflict, AtLabel, Move, Active, Reconciling
<1>2. ~Conflict(row, "running") /\ AtLabel("save_controller", row) =>
        MayBecome(row, WithId(Move(row, "running", "running_safactory"), "controller"))
  BY DEF Good, RowOK, Conflict, AtLabel, Move, WithId, Active, Reconciling, Resting
<1>3. ~Conflict(row, "succeeded") /\ AtLabel("succeed", row) =>
        MayBecome(row, [Move(row, "succeeded", "completed") EXCEPT !.cleanup = TRUE])
  BY DEF Good, RowOK, Conflict, AtLabel, Move, Active, Reconciling, Resting
<1>4. ~Conflict(row, "failed") /\ AtLabel("fail_update", row) =>
        MayBecome(row, [Move(row, "failed", "cleaning_rjobs")
                          EXCEPT !.reason = reason, !.cleanup = TRUE])
  BY DEF Good, RowOK, Conflict, AtLabel, Move, Active, Reconciling, Resting
<1>5. AtLabel("cleaned", row) /\ closing =>
        MayBecome(row, [Move(row, "closed", "completed")
                          EXCEPT !.cleanup = FALSE, !.reason = None])
  BY DEF Good, RowOK, AtLabel, Move, Releasing
<1>6. AtLabel("keep", row) \/ (AtLabel("cleaned", row) /\ ~closing) =>
        MayBecome(row, [row EXCEPT !.cleanup = FALSE])
  BY DEF Good, RowOK, AtLabel, Releasing
<1>7. /\ MayBecome(row, [Note(row, ph) EXCEPT !.bound = TRUE])
      /\ MayBecome(row, [Note(row, ph) EXCEPT !.url = url])
      /\ MayBecome(row, Note(row, ph))
      /\ MayBecome(row, WithId(Note(row, ph), "gateway"))
      /\ MayBecome(row, WithId(row, "controller"))
      /\ \A r \in Roles : MayBecome(row, [row EXCEPT !.seen[r] = s])
  BY DEF Note, Move, WithId
<1> QED BY <1>1, <1>2, <1>3, <1>4, <1>5, <1>6, <1>7

\* At most one row moves, as it may.
RowMoved == \/ UNCHANGED jobs
            \/ \E j \in Jobs, row \in Row :
                 jobs' = [jobs EXCEPT ![j] = row] /\ MayBecome(jobs[j], row)

\* The awaits of the task that write a row.
LEMMA TaskMovesRow ==
  ASSUME IInv,
         \/ Prepare \/ RecordBinding \/ SaveGateway \/ SaveController
         \/ SaveControllerLate \/ RecordGatewayStatus \/ RecordUnready \/ RecordUrl
         \/ RecordControllerStatus \/ RecordSuccess \/ FailUpdate
         \/ KeepWorkloads \/ CleanupDone
  PROVE  RowMoved
<1>1. pc \notin Resting
  BY DEF Resting, Prepare, RecordBinding, SaveGateway, SaveController, SaveControllerLate,
     RecordGatewayStatus, RecordUnready, RecordUrl, RecordControllerStatus, RecordSuccess,
     FailUpdate, KeepWorkloads, CleanupDone
<1>2. cur \in Jobs /\ Current \in Row /\ Good(Current) /\ AtLabel(pc, Current)
  BY <1>1, AtAwait
<1>3. gateway.state \in RJobState /\ gateway.url \in Addresses \cup {None}
        /\ controller \in RJobState
  BY DEF IInv, TypeInv, TypeOK, TaskTypeOK, Snapshot
<1>4. {"submitting_gateway_rjob", "waiting_gateway_address", "checking_gateway_health",
       "submitting_safactory_rjob"} \subseteq Phase
  BY DEF Phase
<1>5. jobs' \in [Jobs -> Row] /\ jobs \in [Jobs -> Row]
  BY StoreStepTypes DEF IInv, TypeInv, TypeOK
<1>6. ASSUME NEW row, Store(row), MayBecome(Current, row)
      PROVE  RowMoved
  <2>1. jobs' = [jobs EXCEPT ![cur] = row] /\ jobs'[cur] = row
    BY <1>2, <1>5, <1>6 DEF Store
  <2>2. row \in Row
    BY <1>2, <1>5, <2>1
  <2> QED BY <1>2, <1>6, <2>1, <2>2 DEF Current, RowMoved
<1>7. CASE UNCHANGED jobs
  BY <1>7 DEF RowMoved
<1>8. CASE RecordBinding \/ SaveGateway \/ SaveControllerLate \/ RecordUnready \/ RecordUrl
  BY <1>2, <1>3, <1>4, <1>6, <1>8, WriterMoves
     DEF RecordBinding, SaveGateway, SaveControllerLate, RecordUnready, RecordUrl
<1>9. CASE RecordGatewayStatus \/ RecordControllerStatus
  <2>1. /\ MayBecome(Current, [Current EXCEPT !.seen["gateway"] = gateway.state])
        /\ MayBecome(Current, [Current EXCEPT !.seen["controller"] = controller])
    BY <1>2, <1>3, <1>4, WriterMoves
  <2> QED BY <1>6, <1>9, <2>1 DEF RecordGatewayStatus, RecordControllerStatus
<1>10. CASE Prepare
  BY <1>2, <1>3, <1>4, <1>6, <1>7, <1>10, WriterMoves DEF Prepare, Guarded
<1>11. CASE SaveController
  BY <1>2, <1>3, <1>4, <1>6, <1>7, <1>11, WriterMoves DEF SaveController, Guarded
<1>12. CASE RecordSuccess
  BY <1>2, <1>3, <1>4, <1>6, <1>7, <1>12, WriterMoves DEF RecordSuccess, Guarded
<1>13. CASE FailUpdate
  BY <1>2, <1>3, <1>4, <1>6, <1>7, <1>13, WriterMoves DEF FailUpdate
<1>14. CASE KeepWorkloads
  BY <1>2, <1>3, <1>4, <1>6, <1>14, WriterMoves DEF KeepWorkloads
<1>15. CASE CleanupDone
  BY <1>2, <1>3, <1>4, <1>6, <1>15, WriterMoves DEF CleanupDone
<1> QED BY <1>8, <1>9, <1>10, <1>11, <1>12, <1>13, <1>14, <1>15

\* Every step of the system moves at most one row.
LEMMA StepMovesRow == IInv /\ [Next]_vars => RowMoved
<1> SUFFICES ASSUME IInv, [Next]_vars PROVE RowMoved
  OBVIOUS
<1>1. jobs \in [Jobs -> Row]
  BY DEF IInv, TypeInv, TypeOK
<1>2. CASE UNCHANGED jobs
  BY <1>2 DEF RowMoved
<1>3. CASE \/ Prepare \/ RecordBinding \/ SaveGateway \/ SaveController
           \/ SaveControllerLate \/ RecordGatewayStatus \/ RecordUnready \/ RecordUrl
           \/ RecordControllerStatus \/ RecordSuccess \/ FailUpdate
           \/ KeepWorkloads \/ CleanupDone
  BY <1>3, TaskMovesRow
<1>4. ASSUME NEW j \in Jobs, CreateJob(j) PROVE RowMoved
  <2>1. MayBecome(jobs[j], NewControlJob)
    BY <1>1, <1>4 DEF CreateJob, MayBecome, FollowsLife, NewControlJob, IInv, RowsInv, RowConsistent, RowOK,
         Row
  <2> QED BY <1>1, <1>4, <2>1, NewRowType DEF CreateJob, RowMoved
<1>5. ASSUME NEW j \in Jobs, CloseJob(j) PROVE RowMoved
  <2>1. Closed(jobs[j]) \in Row
    BY <1>1, RowTypes
  <2>2. MayBecome(jobs[j], Closed(jobs[j]))
    BY <1>1, <1>5 DEF CloseJob, MayBecome, FollowsLife, Closed, Row
  <2> QED BY <1>1, <1>5, <2>1, <2>2 DEF CloseJob, RowMoved
<1>6. ASSUME Environment PROVE UNCHANGED jobs \/ \E j \in Jobs : CreateJob(j) \/ CloseJob(j)
  BY <1>6 DEF Environment, Deadline, Crash, Restart
<1>7. ASSUME TaskStep,
             ~(\/ Prepare \/ RecordBinding \/ SaveGateway \/ SaveController
               \/ SaveControllerLate \/ RecordGatewayStatus \/ RecordUnready \/ RecordUrl
               \/ RecordControllerStatus \/ RecordSuccess \/ FailUpdate
               \/ KeepWorkloads \/ CleanupDone)
      PROVE  UNCHANGED jobs
  BY <1>7 DEF TaskStep, ListActive, ListCleanupPending, EndPass, BeginReconcile, BeginCleanup,
       BindFiles, BindFails, ReadRow, CreateOk, CreateFails, GetFails, CallRaises, GetGateway,
       ProbeHealth, OnHealthy, OnUnhealthy, Reread, GetController, HandleDependencyError,
       FailRead, CleanupRead, StopOk, StopFails, StopRaises
<1> QED BY <1>2, <1>3, <1>4, <1>5, <1>6, <1>7 DEF Next, vars

\* Every step of the system is a step of the lifecycle or a stutter.
LEMMA StepFollows == IInv /\ [Next]_vars => [Lifecycle!Next]_Lifecycle!vars
  BY StepMovesRow, RowMoves, SameTable DEF RowMoved, IInv, TypeInv, TypeOK

\* Whatever the interleaving of the task, the API, the platform and crashes, a Job's status
\* and its cleanup mark only ever move along the public lifecycle.
THEOREM LifecycleIsFollowed == Spec => FollowsLifecycle
<1>1. Init => Lifecycle!Init
  BY DEF Init, Lifecycle!Init, NoRow, NewControlJob
<1> QED
  BY <1>1, StepFollows, Inductive, PTL DEF Spec, FollowsLifecycle, Lifecycle!SafeSpec
=============================================================================
