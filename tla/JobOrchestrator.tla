-------------------------- MODULE JobOrchestrator --------------------------
(***************************************************************************)
(* RealJobOrchestrator: the one background task that takes every Job       *)
(* through file binding, the Gateway RJob, the health gate, the Safactory  *)
(* controller RJob and cleanup, next to the API handlers that create and   *)
(* close Jobs while it runs.                                               *)
(*                                                                         *)
(* Every await of the task is a scheduling point: one action per store     *)
(* call and one per outcome of an external call.  Between two of them the  *)
(* API may close the Job, a deadline may pass, the platform may move and   *)
(* the process may die.  The decision the code takes on the row an update  *)
(* or a get returned is part of the action that returned it.               *)
(***************************************************************************)
EXTENDS RJobPlatform, Integers

CONSTANTS KeepRJobs,     \* settings.keep_rjobs
          MaxCrashes     \* bound: how often the process may die

ASSUME ConstantsAssumption == /\ None \notin Addresses
                              /\ None \notin Jobs
                              /\ None \notin Reason \cup RJobState
                              /\ KeepRJobs \in BOOLEAN
                              /\ MaxCrashes \in Nat

VARIABLES
  jobs,      \* the jobs table
  late,      \* late[j]: the roles whose timeout has elapsed for Job j
  pc,        \* the await the task is at
  ctx,       \* who handles what the call raises: "reconcile", "handler", "sweep"
  cur,       \* the Job the task works on
  todo,      \* the Jobs left of the list the current loop iterates over
  why,       \* the reason _fail was called with
  closing,   \* the local of _cleanup
  gateway,   \* the Gateway snapshot and the URL built from it
  controller,\* the state of the controller snapshot
  crashes

task   == <<pc, ctx, cur, todo, why, closing, gateway, controller>>
vars   == <<jobs, rjobs, late, task, crashes>>
locals == <<cur, ctx, todo, why, closing, gateway, controller>>

NoSnapshot == [state |-> "unknown", url |-> None]
Snapshot   == [state : RJobState, url : Addresses \cup {None}]

Labels == {"down", "dead", "idle", "active", "sweep",
           "prepare", "bind", "bound", "row", "create_gateway", "save_gateway",
           "get_gateway", "record_gateway", "probe", "healthy", "unhealthy",
           "record_unready", "record_url", "reread", "create_controller",
           "save_controller", "save_controller_late", "get_controller",
           "record_controller", "succeed", "dependency_error", "fail",
           "fail_update", "cleanup", "keep", "stop_controller", "stop_gateway",
           "cleaned"}

TaskTypeOK ==
  /\ pc \in Labels
  /\ ctx \in {"reconcile", "handler", "sweep"}
  /\ cur \in Jobs \cup {None}
  /\ todo \subseteq Jobs
  /\ why \in Reason \cup {None}
  /\ closing \in BOOLEAN
  /\ gateway \in Snapshot
  /\ controller \in RJobState

TypeOK ==
  /\ PlatformTypeOK
  /\ TaskTypeOK
  /\ jobs \in [Jobs -> Row]
  /\ late \in [Jobs -> SUBSET Roles]
  /\ crashes \in 0..MaxCrashes

Init ==
  /\ PlatformInit
  /\ jobs = [j \in Jobs |-> NoRow]
  /\ late = [j \in Jobs |-> {}]
  /\ pc = "idle" /\ ctx = "reconcile" /\ cur = None /\ todo = {} /\ why = None
  /\ closing = FALSE /\ gateway = NoSnapshot /\ controller = "unknown"
  /\ crashes = 0

-----------------------------------------------------------------------------
(* Control flow *)
Current == jobs[cur]

Store(row) == jobs' = [jobs EXCEPT ![cur] = row]

Goto(label) == pc' = label /\ UNCHANGED locals

\* The locals of _reconcile, _fail and _cleanup die when the call returns.
Forget == /\ cur' = None /\ why' = None /\ closing' = FALSE
          /\ gateway' = NoSnapshot /\ controller' = "unknown"

\* Back to the loop of reconcile_once that called.
Return == /\ pc' = IF ctx = "sweep" THEN "sweep" ELSE "active"
          /\ ctx' = IF ctx = "sweep" THEN "sweep" ELSE "reconcile"
          /\ Forget
          /\ UNCHANGED todo

\* await self._fail(cur, reason), called by _reconcile or by a handler.
Fail(reason, caller) ==
  /\ pc' = "fail" /\ why' = reason /\ ctx' = caller
  /\ closing' = FALSE /\ gateway' = NoSnapshot /\ controller' = "unknown"
  /\ UNCHANGED <<cur, todo>>

\* The except clauses of reconcile_once around _reconcile.
DependencyRaised == /\ pc' = "dependency_error" /\ ctx' = "handler"
                    /\ gateway' = NoSnapshot /\ controller' = "unknown"
                    /\ UNCHANGED <<cur, todo, why, closing>>
OtherRaised      == Fail("INTERNAL_ORCHESTRATION_ERROR", "handler")

\* store.update(status = st, ...) inside _reconcile: refused, it raises.
Guarded(st, accepted) ==
  IF Conflict(Current, st) THEN Return /\ UNCHANGED jobs
  ELSE IF Immutable(Current, st) THEN OtherRaised /\ UNCHANGED jobs
  ELSE accepted

GatewayTimedOut    == "gateway" \in late[cur]
ControllerTimedOut == "controller" \in late[cur]
Has(r)             == r \in Current.ids
IsClosing          == Current.status = "closing"

-----------------------------------------------------------------------------
(* reconcile_once: first the active Jobs, then the Jobs that owe a cleanup.  *)
(* The wait between two passes ends by wake() or by the poll timeout.        *)
ListActive ==
  /\ pc = "idle"
  /\ pc' = "active"
  /\ todo' = {j \in Jobs : jobs[j].status \in Active}
  /\ UNCHANGED <<jobs, rjobs, ctx, cur, why, closing, gateway, controller>>

\* A listed Job may have been closed since: the first update returns its new row.
BeginReconcile(j) ==
  /\ pc = "active" /\ j \in todo
  /\ todo' = todo \ {j}
  /\ IF jobs[j].status = "closing" THEN UNCHANGED <<pc, cur>>
     ELSE cur' = j /\ pc' = IF jobs[j].bound THEN "row" ELSE "prepare"
  /\ UNCHANGED <<jobs, rjobs, ctx, why, closing, gateway, controller>>

ListCleanupPending ==
  /\ pc = "active" /\ todo = {}
  /\ pc' = "sweep" /\ ctx' = "sweep"
  /\ todo' = {j \in Jobs : jobs[j].cleanup}
  /\ UNCHANGED <<jobs, rjobs, cur, why, closing, gateway, controller>>

BeginCleanup(j) ==
  /\ pc = "sweep" /\ j \in todo
  /\ todo' = todo \ {j}
  /\ cur' = j /\ pc' = "cleanup"
  /\ UNCHANGED <<jobs, rjobs, ctx, why, closing, gateway, controller>>

EndPass ==
  /\ pc = "sweep" /\ todo = {}
  /\ pc' = "idle" /\ ctx' = "reconcile"
  /\ UNCHANGED <<jobs, rjobs, cur, todo, why, closing, gateway, controller>>

-----------------------------------------------------------------------------
(* _bind_files *)
Prepare ==
  /\ pc = "prepare"
  /\ Guarded("preparing", /\ Store(Move(Current, "preparing", "resolving_job_files"))
                          /\ Goto("bind"))
  /\ UNCHANGED rjobs

BindFiles ==
  /\ pc = "bind"
  /\ Goto("bound")
  /\ UNCHANGED <<jobs, rjobs>>

\* FileBindingError is answered in place, TrustedConfigError by reconcile_once.
BindFails ==
  /\ pc = "bind" /\ "binding" \in Faults
  /\ Fail("FILE_BINDING_FAILED", "reconcile") \/ DependencyRaised
  /\ UNCHANGED <<jobs, rjobs>>

RecordBinding ==
  /\ pc = "bound"
  /\ Store([Note(Current, "submitting_gateway_rjob") EXCEPT !.bound = TRUE])
  /\ IF IsClosing THEN Return ELSE Goto("row")
  /\ UNCHANGED rjobs

-----------------------------------------------------------------------------
(* The two submissions.  create() looks the stable name up before it submits.*)
\* Mutant: the recorded id is not looked at, create() is trusted to find the workload.
ReadRowCreatesAlways ==
  /\ pc = "row"
  /\ IF IsClosing THEN Return ELSE Goto("create_gateway")
  /\ UNCHANGED <<jobs, rjobs>>

ReadRow ==
  /\ pc = "row"
  /\ IF IsClosing THEN Return
     ELSE Goto(IF Has("gateway") THEN "get_gateway" ELSE "create_gateway")
  /\ UNCHANGED <<jobs, rjobs>>

Creating(r) == pc = (IF r = "gateway" THEN "create_gateway" ELSE "create_controller")
Saving(r)   == pc \in (IF r = "gateway" THEN {"save_gateway"}
                       ELSE {"save_controller", "save_controller_late"})

CreateOk(r) ==
  /\ Creating(r)
  /\ rjobs' = AfterCreate(cur, r)
  /\ Goto(IF r = "gateway" THEN "save_gateway" ELSE "save_controller")
  /\ UNCHANGED jobs

\* The platform may have accepted the submission whose answer was lost.
CreateFails(r) ==
  /\ Creating(r)
  /\ \/ "dependency" \in Faults /\ UNCHANGED rjobs
     \/ "lost_answer" \in Faults /\ rjobs' = AfterCreate(cur, r)
  /\ DependencyRaised
  /\ UNCHANGED jobs

SaveGateway ==
  /\ pc = "save_gateway"
  /\ Store(WithId(Note(Current, "waiting_gateway_address"), "gateway"))
  /\ IF IsClosing THEN Return ELSE Goto("get_gateway")
  /\ UNCHANGED rjobs

\* "Gateway availability remains a hard invariant for the controller lifetime."
ToController == IF gateway.state = "running" THEN Goto("get_controller")
                ELSE Fail("GATEWAY_LOST_DURING_RUN", "reconcile")

\* Mutant: the conflict of a close in flight ends the step.
SaveControllerGivesUp ==
  /\ pc = "save_controller"
  /\ Guarded("running",
       /\ Store(WithId(Move(Current, "running", "running_safactory"), "controller"))
       /\ ToController)
  /\ UNCHANGED rjobs

\* A close that wins while create() is in flight refuses the status, not the id.
SaveController ==
  /\ pc = "save_controller"
  /\ IF Conflict(Current, "running") THEN Goto("save_controller_late") /\ UNCHANGED jobs
     ELSE Guarded("running",
            /\ Store(WithId(Move(Current, "running", "running_safactory"), "controller"))
            /\ ToController)
  /\ UNCHANGED rjobs

SaveControllerLate ==
  /\ pc = "save_controller_late"
  /\ Store(WithId(Current, "controller"))
  /\ IF IsClosing THEN Return ELSE ToController
  /\ UNCHANGED rjobs

-----------------------------------------------------------------------------
(* The Gateway gate *)
\* An exception reconcile_once has no clause for: a malformed HTTP answer, an
\* unreadable binding file.  A create whose answer is malformed may have taken effect.
CallRaises ==
  /\ "raise" \in Faults
  /\ \/ pc \in {"bind", "get_gateway", "get_controller"} /\ UNCHANGED rjobs
     \/ \E r \in Roles :
          /\ Creating(r)
          /\ \/ UNCHANGED rjobs
             \/ "lost_answer" \in Faults /\ rjobs' = AfterCreate(cur, r)
  /\ OtherRaised
  /\ UNCHANGED jobs

GetFails ==
  /\ pc \in {"get_gateway", "get_controller"} /\ "dependency" \in Faults
  /\ DependencyRaised
  /\ UNCHANGED <<jobs, rjobs>>

\* A running Gateway may be reported before its address is known.
GetGateway ==
  /\ pc = "get_gateway"
  /\ \E url \in Addresses \cup {None} :
       gateway' = [state |-> Observed(cur, "gateway"),
                   url |-> IF Observed(cur, "gateway") = "running" THEN url ELSE None]
  /\ pc' = "record_gateway"
  /\ UNCHANGED <<jobs, rjobs, cur, ctx, todo, why, closing, controller>>

\* Mutant: the readiness timeout is tested before the controller.
RecordGatewayTimeoutFirst ==
  /\ pc = "record_gateway"
  /\ Store([Current EXCEPT !.seen["gateway"] = gateway.state])
  /\ IF IsClosing THEN Return
     ELSE IF gateway.state \in {"failed", "succeeded"}
          THEN Fail("GATEWAY_RJOB_FAILED", "reconcile")
     ELSE IF gateway.url # None THEN Goto("probe")
     ELSE IF GatewayTimedOut THEN Fail("GATEWAY_READY_TIMEOUT", "reconcile")
     ELSE IF Has("controller") THEN Fail("GATEWAY_LOST_DURING_RUN", "reconcile")
     ELSE Return
  /\ UNCHANGED rjobs

RecordGatewayStatus ==
  /\ pc = "record_gateway"
  /\ Store([Current EXCEPT !.seen["gateway"] = gateway.state])
  /\ IF IsClosing THEN Return
     ELSE IF gateway.state \in {"failed", "succeeded"}
          THEN Fail("GATEWAY_RJOB_FAILED", "reconcile")
     ELSE IF gateway.url # None THEN Goto("probe")
     ELSE IF Has("controller") THEN Fail("GATEWAY_LOST_DURING_RUN", "reconcile")
     ELSE IF GatewayTimedOut THEN Fail("GATEWAY_READY_TIMEOUT", "reconcile")
     ELSE Return
  /\ UNCHANGED rjobs

\* An unhealthy answer says nothing; a healthy one comes from a live Gateway.
ProbeHealth ==
  /\ pc = "probe"
  /\ \/ rjobs[cur]["gateway"] = "running" /\ Goto("healthy")
     \/ Goto("unhealthy")
  /\ UNCHANGED <<jobs, rjobs>>

\* Mutant: the healthy address is not compared with the recorded one.
OnHealthyAnyAddress ==
  /\ pc = "healthy"
  /\ IF IsClosing THEN Return
     ELSE IF Current.url = None THEN Goto("record_url") ELSE Goto("reread")
  /\ UNCHANGED <<jobs, rjobs>>

OnHealthy ==
  /\ pc = "healthy"
  /\ IF IsClosing THEN Return
     ELSE IF Current.url = None THEN Goto("record_url")
     ELSE IF Current.url # gateway.url THEN Fail("GATEWAY_ADDRESS_CHANGED", "reconcile")
     ELSE Goto("reread")
  /\ UNCHANGED <<jobs, rjobs>>

OnUnhealthy ==
  /\ pc = "unhealthy"
  /\ IF IsClosing THEN Return
     ELSE IF Has("controller") THEN Fail("GATEWAY_LOST_DURING_RUN", "reconcile")
     ELSE Goto("record_unready")
  /\ UNCHANGED <<jobs, rjobs>>

RecordUnready ==
  /\ pc = "record_unready"
  /\ Store(Note(Current, "checking_gateway_health"))
  /\ IF GatewayTimedOut THEN Fail("GATEWAY_HEALTH_TIMEOUT", "reconcile") ELSE Return
  /\ UNCHANGED rjobs

RecordUrl ==
  /\ pc = "record_url"
  /\ Store([Note(Current, "submitting_safactory_rjob") EXCEPT !.url = gateway.url])
  /\ IF IsClosing THEN Return ELSE Goto("reread")
  /\ UNCHANGED rjobs

Reread ==
  /\ pc = "reread"
  /\ IF IsClosing THEN Return
     ELSE IF Has("controller") THEN ToController
     ELSE Goto("create_controller")
  /\ UNCHANGED <<jobs, rjobs>>

-----------------------------------------------------------------------------
(* The controller *)
GetController ==
  /\ pc = "get_controller"
  /\ controller' = Observed(cur, "controller")
  /\ pc' = "record_controller"
  /\ UNCHANGED <<jobs, rjobs, cur, ctx, todo, why, closing, gateway>>

\* Whether a succeeded controller reported every episode is the platform's answer.
RecordControllerStatus ==
  /\ pc = "record_controller"
  /\ Store([Current EXCEPT !.seen["controller"] = controller])
  /\ IF IsClosing THEN Return
     ELSE IF controller = "succeeded"
          THEN Goto("succeed") \/ Fail("EPISODE_RESULTS_INCOMPLETE", "reconcile")
     ELSE IF controller = "failed" THEN Fail("SAFACTORY_RJOB_FAILED", "reconcile")
     ELSE IF ControllerTimedOut THEN Fail("SAFACTORY_RJOB_TIMEOUT", "reconcile")
     ELSE Return
  /\ UNCHANGED rjobs

RecordSuccess ==
  /\ pc = "succeed"
  /\ Guarded("succeeded",
       /\ Store([Move(Current, "succeeded", "completed") EXCEPT !.cleanup = TRUE])
       /\ Return)
  /\ UNCHANGED rjobs

-----------------------------------------------------------------------------
(* Failures *)
\* Mutant: a dependency error is always left to the next pass.
HandleDependencyErrorRetries ==
  /\ pc = "dependency_error"
  /\ Return
  /\ UNCHANGED <<jobs, rjobs>>

HandleDependencyError ==
  /\ pc = "dependency_error"
  /\ IF IF Has("controller") THEN ControllerTimedOut ELSE GatewayTimedOut
     THEN Fail("DEPENDENCY_UNAVAILABLE", "handler")
     ELSE Return
  /\ UNCHANGED <<jobs, rjobs>>

FailRead ==
  /\ pc = "fail"
  /\ IF Current.status \in {"succeeded", "closing", "closed"} THEN Return
     ELSE Goto(IF Current.status = "failed" THEN "cleanup" ELSE "fail_update")
  /\ UNCHANGED <<jobs, rjobs>>

FailUpdate ==
  /\ pc = "fail_update"
  /\ IF Conflict(Current, "failed") THEN Return /\ UNCHANGED jobs
     ELSE /\ Store([Move(Current, "failed", "cleaning_rjobs")
                      EXCEPT !.reason = why, !.cleanup = TRUE])
          /\ Goto("cleanup")
  /\ UNCHANGED rjobs

-----------------------------------------------------------------------------
(* _cleanup: the controller goes before the Gateway it talks to.             *)
AfterController == IF Has("gateway") THEN "stop_gateway" ELSE "cleaned"

\* Mutants: the Gateway goes first; keep_rjobs is not looked at.
CleanupGatewayFirst ==
  /\ pc = "cleanup"
  /\ closing' = IsClosing
  /\ pc' = IF KeepRJobs /\ ~IsClosing THEN "keep"
            ELSE IF Has("gateway") THEN "stop_gateway"
            ELSE "cleaned"
  /\ UNCHANGED <<jobs, rjobs, cur, ctx, todo, why, gateway, controller>>

CleanupNeverKeeps ==
  /\ pc = "cleanup"
  /\ closing' = IsClosing
  /\ pc' = IF Has("controller") THEN "stop_controller" ELSE AfterController
  /\ UNCHANGED <<jobs, rjobs, cur, ctx, todo, why, gateway, controller>>

CleanupRead ==
  /\ pc = "cleanup"
  /\ closing' = IsClosing
  /\ pc' = IF KeepRJobs /\ ~IsClosing THEN "keep"
            ELSE IF Has("controller") THEN "stop_controller"
            ELSE AfterController
  /\ UNCHANGED <<jobs, rjobs, cur, ctx, todo, why, gateway, controller>>

KeepWorkloads ==
  /\ pc = "keep"
  /\ Store([Current EXCEPT !.cleanup = FALSE])
  /\ Return
  /\ UNCHANGED rjobs

Stopping(r) == pc = (IF r = "gateway" THEN "stop_gateway" ELSE "stop_controller")

StopOk(r) ==
  /\ Stopping(r)
  /\ rjobs' = AfterStop(cur, r)
  /\ Goto(IF r = "controller" THEN AfterController ELSE "cleaned")
  /\ UNCHANGED jobs

\* Mutant: a failed delete is logged and the cleanup goes on.
StopFailsIgnored(r) ==
  /\ Stopping(r)
  /\ \/ "dependency" \in Faults /\ (UNCHANGED rjobs \/ rjobs' = AfterHalfStop(cur, r))
     \/ "lost_answer" \in Faults /\ rjobs' = AfterStop(cur, r)
  /\ Goto(IF r = "controller" THEN AfterController ELSE "cleaned")
  /\ UNCHANGED jobs

\* RJobDependencyError: the flag stays set and a later pass tries again.
StopFails(r) ==
  /\ Stopping(r)
  /\ \/ "dependency" \in Faults /\ (UNCHANGED rjobs \/ rjobs' = AfterHalfStop(cur, r))
     \/ "lost_answer" \in Faults /\ rjobs' = AfterStop(cur, r)
  /\ Return
  /\ UNCHANGED jobs

\* Any other exception: caught around _reconcile, fatal to the task elsewhere.
StopRaises(r) ==
  /\ Stopping(r) /\ "raise" \in Faults
  /\ IF ctx = "reconcile" THEN OtherRaised
     ELSE pc' = "dead" /\ ctx' = "reconcile" /\ todo' = {} /\ Forget
  /\ UNCHANGED rjobs \/ rjobs' = AfterStop(cur, r)
  /\ UNCHANGED jobs

CleanupDone ==
  /\ pc = "cleaned"
  /\ Store(IF closing
            THEN [Move(Current, "closed", "completed") EXCEPT !.cleanup = FALSE, !.reason = None]
            ELSE [Current EXCEPT !.cleanup = FALSE])
  /\ Return
  /\ UNCHANGED rjobs

-----------------------------------------------------------------------------
(* The API handlers, the clock, and the life of the process *)
CreateJob(j) ==
  /\ pc # "down" /\ jobs[j].status = "absent"
  /\ jobs' = [jobs EXCEPT ![j] = NewControlJob]
  /\ UNCHANGED <<rjobs, late, task, crashes>>

CloseJob(j) ==
  /\ pc # "down" /\ jobs[j].status \in Active
  /\ jobs' = [jobs EXCEPT ![j] = Closed(@)]
  /\ UNCHANGED <<rjobs, late, task, crashes>>

\* _timed_out counts from created_at, _controller_timed_out from started_at.
\* Nothing reads the deadline of a Job that is no longer active.
Deadline(j, r) ==
  /\ jobs[j].status \in Active /\ r \notin late[j]
  /\ r = "controller" => r \in jobs[j].ids
  /\ late' = [late EXCEPT ![j] = @ \cup {r}]
  /\ UNCHANGED <<jobs, rjobs, task, crashes>>

\* The process dies between two awaits, or inside a call the platform still serves.
Crash ==
  /\ pc # "down" /\ "crash" \in Faults /\ crashes < MaxCrashes
  /\ \/ UNCHANGED rjobs
     \/ \E r \in Roles : Creating(r) /\ rjobs' = AfterCreate(cur, r)
     \/ \E r \in Roles : Stopping(r) /\ rjobs' = AfterStop(cur, r)
  /\ crashes' = crashes + 1
  /\ pc' = "down" /\ ctx' = "reconcile" /\ todo' = {} /\ Forget
  /\ UNCHANGED <<jobs, late>>

\* start(): nothing but the database survives.
Restart ==
  /\ pc = "down"
  /\ pc' = "idle"
  /\ UNCHANGED <<jobs, rjobs, late, locals, crashes>>

-----------------------------------------------------------------------------
TaskStep ==
  /\ \/ ListActive \/ ListCleanupPending \/ EndPass
     \/ \E j \in Jobs : BeginReconcile(j) \/ BeginCleanup(j)
     \/ Prepare \/ BindFiles \/ BindFails \/ RecordBinding \/ ReadRow
     \/ \E r \in Roles : CreateOk(r) \/ CreateFails(r)
     \/ SaveGateway \/ SaveController \/ SaveControllerLate
     \/ GetFails \/ CallRaises \/ GetGateway \/ RecordGatewayStatus
     \/ ProbeHealth \/ OnHealthy \/ OnUnhealthy
     \/ RecordUnready \/ RecordUrl \/ Reread
     \/ GetController \/ RecordControllerStatus \/ RecordSuccess
     \/ HandleDependencyError \/ FailRead \/ FailUpdate
     \/ CleanupRead \/ KeepWorkloads \/ CleanupDone
     \/ \E r \in Roles : StopOk(r) \/ StopFails(r) \/ StopRaises(r)
  /\ UNCHANGED <<late, crashes>>

Environment ==
  \/ \E j \in Jobs : CreateJob(j) \/ CloseJob(j)
  \/ \E j \in Jobs, r \in Roles : Deadline(j, r)
  \/ \E j \in Jobs, r \in Roles :
       PlatformStep(j, r) /\ UNCHANGED <<jobs, late, task, crashes>>
  \/ Crash
  \/ Restart

Next == TaskStep \/ Environment

(* The event loop runs the task, calls end by an answer or an error, clocks  *)
(* advance, the process is restarted, and the platform does not refuse the   *)
(* same delete for ever.                                                     *)
Fairness ==
  /\ WF_vars(TaskStep)
  /\ WF_vars(Restart)
  /\ \A j \in Jobs, r \in Roles :
       /\ WF_vars(Deadline(j, r))
       /\ SF_vars(cur = j /\ StopOk(r) /\ UNCHANGED <<late, crashes>>)

Spec     == Init /\ [][Next]_vars
FairSpec == Spec /\ Fairness

-----------------------------------------------------------------------------
(* Properties *)

\* What a row may claim.  A Job never runs before both workloads and the verified
\* Gateway URL are recorded, each step of the submission order is on record before
\* the next, only a Job that ended or is closing owes a cleanup, and a Job is
\* successful only on a recorded success of its controller.  Each update writes a
\* part of the row under a different guard, with closes in between.
RowOK(row) ==
  /\ "controller" \in row.ids => "gateway" \in row.ids /\ row.url # None
  /\ row.url # None => "gateway" \in row.ids
  /\ "gateway" \in row.ids => row.bound
  /\ row.bound => row.status \notin {"absent", "queued"}
  /\ row.status = "running" => "controller" \in row.ids
  /\ row.status \in {"absent", "queued", "preparing"} => "controller" \notin row.ids
  /\ row.status = "succeeded" => row.seen["controller"] = "succeeded"
  /\ row.cleanup => row.status \in {"closing", "succeeded", "failed"}
  /\ row.status = "closing" => row.cleanup

RowConsistent == \A j \in Jobs : RowOK(jobs[j])

\* The phase shown for a Job that stopped executing is the phase of its ending: a
\* late update of a closed-in-flight Job does not bring an earlier phase back.
PhaseOK(row) ==
  /\ row.status \in {"closing", "failed"} => row.phase = "cleaning_rjobs"
  /\ (row.phase = "completed") <=> (row.status \in {"succeeded", "closed"})
  /\ row.phase = "running_safactory" => row.status = "running"

PhaseMatchesStatus == \A j \in Jobs : PhaseOK(jobs[j])

\* A failure reason is backed by the recorded evidence for as long as the row lives:
\* nothing recorded after the failure, by a later pass or a restart, contradicts it.
Backed(reason, row, elapsed) ==
  /\ reason = "GATEWAY_RJOB_FAILED" => row.seen["gateway"] \in {"failed", "succeeded"}
  /\ reason = "SAFACTORY_RJOB_FAILED" => row.seen["controller"] = "failed"
  /\ reason \in {"GATEWAY_LOST_DURING_RUN", "SAFACTORY_RJOB_TIMEOUT",
                 "EPISODE_RESULTS_INCOMPLETE"} => "controller" \in row.ids
  /\ reason \in {"GATEWAY_READY_TIMEOUT", "GATEWAY_HEALTH_TIMEOUT"} =>
       "controller" \notin row.ids /\ "gateway" \in elapsed
  /\ reason = "SAFACTORY_RJOB_TIMEOUT" => "controller" \in elapsed
  /\ reason = "DEPENDENCY_UNAVAILABLE" => elapsed # {}

ReasonHasEvidence ==
  \A j \in Jobs : /\ (jobs[j].status = "failed") <=> (jobs[j].reason # None)
                  /\ Backed(jobs[j].reason, jobs[j], late[j])

Settled(j) == /\ ~jobs[j].cleanup
              /\ jobs[j].status \in (IF KeepRJobs THEN {"closed"} ELSE Terminal)

\* When a Job has ended and owes no cleanup, the delete of every workload it has on
\* record was accepted: failed, repeated and interrupted cleanups included.
RecordedWorkloadsReleased ==
  \A j \in Jobs, r \in Roles : Settled(j) /\ r \in jobs[j].ids => ~Live(j, r)

\* API_DESIGN: "closed" says that the Job's resources are confirmed cleaned.
ClosedMeansReleased ==
  \A j \in Jobs, r \in Roles : jobs[j].status = "closed" => ~Live(j, r)

\* Without a crash or a lost or unreadable answer no workload escapes the record: one that exists is
\* recorded, or its id is just being stored, whatever closes the Job meanwhile.
NoOrphan ==
  {"crash", "lost_answer"} \cap Faults = {} =>
    \A j \in Jobs, r \in Roles :
      rjobs[j][r] # "absent" => r \in jobs[j].ids \/ (cur = j /\ Saving(r))

Submitted(j, r) == rjobs[j][r] = "absent" /\ rjobs'[j][r] = "pending"
Deleted(j, r)   == rjobs[j][r] # "deleting" /\ rjobs'[j][r] = "deleting"

\* No second workload of a role: a submission is accepted only while the row has no id
\* for that role and the Job has not ended, across crashes, retries and lost answers.
SubmitOnce ==
  [][\A j \in Jobs, r \in Roles :
       Submitted(j, r) => r \notin jobs[j].ids /\ jobs[j].status \notin Terminal]_vars

\* A controller is submitted only behind a Gateway whose id and URL are on record and
\* whose URL is the one just found healthy.
ControllerBehindGateway ==
  [][\A j \in Jobs : Submitted(j, "controller") =>
       /\ "gateway" \in jobs[j].ids
       /\ jobs[j].url # None /\ jobs[j].url = gateway.url]_vars

\* The server deletes a Gateway only once the recorded controller is no longer live,
\* so no controller is cut off from its Gateway by the cleanup.
ControllerGoesFirst ==
  [][\A j \in Jobs : Deleted(j, "gateway") /\ "controller" \in jobs[j].ids
       => ~Live(j, "controller")]_vars

\* With keep_rjobs the server deletes workloads for a close only: those of a Job that
\* failed or succeeded stay for inspection, whatever retries or restarts follow.
KeptUnlessClosed ==
  [][KeepRJobs => \A j \in Jobs, r \in Roles :
       Deleted(j, r) => jobs[j].status = "closing"]_vars

\* PRD: the Gateway is stopped or deleted only after the controller has exited.  A
\* controller under deletion may still be at work.
GatewayOutlivesController ==
  [][\A j \in Jobs : Deleted(j, "gateway") /\ "controller" \in jobs[j].ids
       => rjobs[j]["controller"] \in {"absent", "succeeded", "failed"}]_vars

Lifecycle == INSTANCE JobLifecycle WITH
  status <- [j \in Jobs |-> jobs[j].status],
  owes   <- {j \in Jobs : jobs[j].cleanup}

\* No status and no cleanup mark moves but along the public Job lifecycle, whoever writes
\* the row: the task late, a handler, the API, or the next process after a crash.
FollowsLifecycle == Lifecycle!SafeSpec

\* The orchestrator with its store and its API implements the public Job lifecycle:
\* beyond the above, under the fairness above every Job ends and every cleanup completes,
\* a dependency that fails for ever included.
ImplementsLifecycle == Lifecycle!Spec

\* A failed delete keeps the cleanup mark and is retried in the background until it
\* succeeds: every owed cleanup is eventually done.
CleanupDrains == \A j \in Jobs : jobs[j].cleanup ~> ~jobs[j].cleanup

-----------------------------------------------------------------------------
(* The inductive strengthening of the row properties: what the task may rely *)
(* on at each await although the API writes the same rows.                   *)
Resting == {"down", "dead", "idle", "active", "sweep"}

Reconciling == {"prepare", "bind", "bound", "row", "create_gateway", "save_gateway",
                "get_gateway", "record_gateway", "probe", "healthy", "unhealthy",
                "record_unready", "record_url", "reread", "create_controller",
                "save_controller", "save_controller_late", "get_controller",
                "record_controller", "succeed"}
UrlKnown    == {"reread", "create_controller", "save_controller", "save_controller_late",
                "get_controller", "record_controller", "succeed"}
GatewayKept == UrlKnown \cup {"get_gateway", "record_gateway", "probe", "healthy",
                              "unhealthy", "record_unready", "record_url"}
Releasing   == {"stop_controller", "stop_gateway", "cleaned"}

\* What the task may rely on at a label: of the current Job's row, and of its locals.
AtLabel(label, row) ==
  /\ label \in Reconciling \cup {"dependency_error", "fail_update"} =>
       row.status \in Active \cup {"closing"}
  /\ label = "prepare" => ~row.bound
  /\ label \in GatewayKept \cup {"row", "create_gateway", "save_gateway"} => row.bound
  /\ label \in GatewayKept => "gateway" \in row.ids
  /\ label \in UrlKnown => row.url # None
  /\ label = "create_gateway" => "gateway" \notin row.ids
  /\ label \in {"create_controller", "save_controller"} => "controller" \notin row.ids
  /\ label = "save_controller_late" => row.status = "closing"
  /\ label \in {"get_controller", "record_controller", "succeed"} =>
       "controller" \in row.ids
  /\ label = "succeed" => row.seen["controller"] = "succeeded"
  /\ label \notin Resting \cup {"prepare"} => row.status \notin {"absent", "queued"}
  /\ label \in Releasing \cup {"cleanup"} => row.status \in {"succeeded", "failed", "closing"}
  /\ label = "keep" => row.status \in {"succeeded", "failed"} /\ KeepRJobs
  /\ label \in Releasing => (closing <=> row.status = "closing") /\ (KeepRJobs => closing)
  /\ label \in {"probe", "healthy", "unhealthy", "record_url"} => gateway.url # None
  /\ label \in {"reread", "create_controller"} => row.url = gateway.url
  /\ label \in Reconciling => ctx = "reconcile"
  /\ label \in {"dependency_error", "fail", "fail_update"} => ctx # "sweep"

\* What the loops of reconcile_once may rely on of a listed Job that is still to come.
Listed(row) == IF ctx = "sweep" THEN row.cleanup ELSE row.status \in Active \cup {"closing"}

TaskInv ==
  /\ IF pc \in Resting THEN cur = None ELSE cur \in Jobs /\ AtLabel(pc, jobs[cur])
  /\ pc = "sweep" => ctx = "sweep"
  /\ pc \in {"down", "idle", "active"} => ctx = "reconcile"
  /\ cur \notin todo
  /\ \A j \in todo : Listed(jobs[j])

RowsInv == RowConsistent /\ PhaseMatchesStatus /\ TaskInv
=============================================================================
