----------------------------- MODULE RowProofs -----------------------------
(* RowConsistent and PhaseMatchesStatus are invariants of JobOrchestrator,  *)
(* for every instance.  Neither is inductive: what a row may claim depends  *)
(* on where the task stands when it writes.  The strengthening is TaskInv.  *)
EXTENDS JobOrchestratorProofs

Good(row) == RowOK(row) /\ PhaseOK(row)

\* A Job the task has started on and not ended.
UnderWay == {"preparing", "running", "closing"}

IInv == TypeInv /\ RowsInv

-----------------------------------------------------------------------------
(* The writers of rows, one lemma each: a good row that fits the label at   *)
(* which the task writes becomes a good row that fits the label it goes to. *)
\* Starting on a Job (Prepare).
LEMMA PreparedRow ==
  ASSUME NEW row \in Row, Good(row), AtLabel("prepare", row), ~Conflict(row, "preparing")
  PROVE  LET new == Move(row, "preparing", "resolving_job_files")
         IN  Good(new) /\ AtLabel("bind", new)
  BY DEF Row, Good, RowOK, PhaseOK, AtLabel, Conflict, Move, PhaseAfter, Active, Terminal,
         Reconciling, Resting, GatewayKept, UrlKnown, Releasing

\* Recording the binding (RecordBinding).
LEMMA BoundRow ==
  ASSUME NEW row \in Row, Good(row), AtLabel("bound", row)
  PROVE  LET new == [Note(row, "submitting_gateway_rjob") EXCEPT !.bound = TRUE]
         IN  Good(new) /\ AtLabel("row", new)
  BY DEF Row, Good, RowOK, PhaseOK, AtLabel, Note, Move, PhaseAfter, Active, Terminal,
         Reconciling, Resting, GatewayKept, UrlKnown, Releasing

\* Storing the id of the Gateway workload (SaveGateway).
LEMMA GatewaySavedRow ==
  ASSUME NEW row \in Row, Good(row), AtLabel("save_gateway", row)
  PROVE  LET new == WithId(Note(row, "waiting_gateway_address"), "gateway")
         IN  Good(new) /\ AtLabel("get_gateway", new)
  BY DEF Row, Good, RowOK, PhaseOK, AtLabel, WithId, Note, Move, PhaseAfter, Active, Terminal,
         Reconciling, Resting, GatewayKept, UrlKnown, Releasing

\* Storing the id of the controller with the status running (SaveController).
LEMMA ControllerSavedRow ==
  ASSUME NEW row \in Row, Good(row), AtLabel("save_controller", row),
         ~Conflict(row, "running")
  PROVE  LET new == WithId(Move(row, "running", "running_safactory"), "controller")
         IN  Good(new) /\ AtLabel("get_controller", new)
  BY DEF Row, Good, RowOK, PhaseOK, AtLabel, Conflict, WithId, Move, PhaseAfter, Active,
         Terminal, Reconciling, Resting, GatewayKept, UrlKnown, Releasing

\* Storing the controller's id when a close came first (SaveControllerLate).
LEMMA ControllerSavedLateRow ==
  ASSUME NEW row \in Row, Good(row), AtLabel("save_controller_late", row)
  PROVE  Good(WithId(row, "controller"))
  BY DEF Row, Good, RowOK, PhaseOK, AtLabel, WithId, Active, Terminal, UrlKnown, GatewayKept

\* Recording what get() said of the Gateway (RecordGatewayStatus).
LEMMA GatewaySeenRow ==
  ASSUME NEW row \in Row, Good(row), AtLabel("record_gateway", row), NEW st \in RJobState
  PROVE  LET new == [row EXCEPT !.seen["gateway"] = st]
         IN  /\ Good(new) /\ new.status = row.status
             /\ gateway.url # None => AtLabel("probe", new)
  BY DEF Row, Good, RowOK, PhaseOK, AtLabel, Active, Terminal, Reconciling, Resting,
         GatewayKept, UrlKnown, Releasing

\* Noting the health check of a Gateway that is not ready (RecordUnready).
LEMMA UnreadyRow ==
  ASSUME NEW row \in Row, Good(row), AtLabel("record_unready", row)
  PROVE  LET new == Note(row, "checking_gateway_health")
         IN  Good(new) /\ new.status = row.status
  BY DEF Row, Good, RowOK, PhaseOK, AtLabel, Note, Move, PhaseAfter, Active, Terminal,
         Reconciling

\* Recording the URL just found healthy (RecordUrl).
LEMMA UrlRow ==
  ASSUME NEW row \in Row, Good(row), AtLabel("record_url", row),
         gateway.url \in Addresses \cup {None}
  PROVE  LET new == [Note(row, "submitting_safactory_rjob") EXCEPT !.url = gateway.url]
         IN  Good(new) /\ AtLabel("reread", new)
  BY DEF Row, Good, RowOK, PhaseOK, AtLabel, Note, Move, PhaseAfter, Active, Terminal,
         Reconciling, Resting, GatewayKept, UrlKnown, Releasing

\* Recording what get() said of the controller (RecordControllerStatus).
LEMMA ControllerSeenRow ==
  ASSUME NEW row \in Row, Good(row), AtLabel("record_controller", row), NEW st \in RJobState
  PROVE  LET new == [row EXCEPT !.seen["controller"] = st]
         IN  /\ Good(new) /\ new.status = row.status
             /\ st = "succeeded" => AtLabel("succeed", new)
  BY DEF Row, Good, RowOK, PhaseOK, AtLabel, Active, Terminal, Reconciling, Resting,
         GatewayKept, UrlKnown, Releasing

\* Ending a Job whose controller succeeded (RecordSuccess).
LEMMA SucceededRow ==
  ASSUME NEW row \in Row, Good(row), AtLabel("succeed", row), ~Conflict(row, "succeeded")
  PROVE  Good([Move(row, "succeeded", "completed") EXCEPT !.cleanup = TRUE])
  BY DEF Row, Good, RowOK, PhaseOK, AtLabel, Conflict, Move, PhaseAfter, Active, Terminal,
         Reconciling, GatewayKept, UrlKnown

\* Ending a Job that failed (FailUpdate).
LEMMA FailedRow ==
  ASSUME NEW row \in Row, Good(row), AtLabel("fail_update", row), ~Conflict(row, "failed"),
         NEW reason
  PROVE  LET new == [Move(row, "failed", "cleaning_rjobs")
                       EXCEPT !.reason = reason, !.cleanup = TRUE]
         IN  Good(new) /\ AtLabel("cleanup", new)
  BY DEF Row, Good, RowOK, PhaseOK, AtLabel, Conflict, Move, PhaseAfter, Active, Terminal,
         Reconciling, Resting, GatewayKept, UrlKnown, Releasing

\* Clearing the cleanup mark, kept or deleted (KeepWorkloads, CleanupDone).
LEMMA ReleasedRow ==
  ASSUME NEW row \in Row, Good(row)
  PROVE  /\ AtLabel("keep", row) \/ (AtLabel("cleaned", row) /\ ~closing) =>
              Good([row EXCEPT !.cleanup = FALSE])
         /\ AtLabel("cleaned", row) /\ closing =>
              Good([Move(row, "closed", "completed") EXCEPT !.cleanup = FALSE, !.reason = None])
  BY DEF Row, Good, RowOK, PhaseOK, AtLabel, Move, PhaseAfter, Active, Terminal, Releasing

\* A close keeps the row good and in place at every label: it can win at any await.
LEMMA ClosedRow ==
  ASSUME NEW row \in Row, Good(row), row.status \in Active
  PROVE  /\ Good(Closed(row))
         /\ \A l \in Labels : AtLabel(l, row) => AtLabel(l, Closed(row))
         /\ Listed(row) => Listed(Closed(row))
  BY DEF Row, Good, RowOK, PhaseOK, AtLabel, Closed, Listed, Active, Terminal, Releasing,
         Reconciling

-----------------------------------------------------------------------------
(* What a step of the task does to the table and to its own position.        *)
Written(row) == /\ jobs'[cur] = row
                /\ \A j \in Jobs : j # cur => jobs'[j] = jobs[j]

\* store.update writes the current Job's row and no other.
LEMMA StoreWrites ==
  ASSUME TypeInv, cur \in Jobs, NEW row, Store(row)
  PROVE  Written(row)
  BY DEF Store, Written, TypeInv, TypeOK

\* A step that leaves the table alone writes the current row back.
LEMMA UnchangedWrites ==
  ASSUME UNCHANGED jobs
  PROVE  Written(Current)
  BY DEF Written, Current

\* A good row written for the current Job keeps the table good.
LEMMA RowsStayGood ==
  ASSUME RowConsistent, PhaseMatchesStatus, NEW row, Written(row), Good(row)
  PROVE  RowConsistent' /\ PhaseMatchesStatus'
<1>1. \A j \in Jobs : jobs'[j] = IF j = cur THEN row ELSE jobs[j]
  BY DEF Written
<1>2. \A j \in Jobs : Good(jobs'[j])
  BY <1>1 DEF RowConsistent, PhaseMatchesStatus, Good
<1> QED BY <1>2 DEF RowConsistent, PhaseMatchesStatus, Good

\* The ways on from a label of the task, for the row the step leaves behind.
LEMMA WaysOn ==
  ASSUME TypeInv, TaskInv, pc \notin Resting, NEW row, Written(row)
  PROVE  /\ Return => TaskInv'
         /\ \A l \in Labels \ Resting : Goto(l) /\ AtLabel(l, row) => TaskInv'
         /\ \A reason \in Reason, c \in {"reconcile", "handler"} :
              Fail(reason, c) /\ ctx # "sweep" /\ row.status \notin {"absent",
                 "queued"} => TaskInv'
         /\ DependencyRaised /\ ctx # "sweep" /\ row.status \in UnderWay => TaskInv'
<1>1. cur \in Jobs /\ cur \notin todo /\ todo \subseteq Jobs
  BY DEF TaskInv, TypeInv, TypeOK, TaskTypeOK
<1>2. \A j \in todo : jobs'[j] = jobs[j] /\ Listed(jobs[j])
  BY <1>1 DEF Written, TaskInv
<1>3. ASSUME todo' = todo, ctx' = "sweep" <=> ctx = "sweep"
      PROVE  \A j \in todo' : Listed(jobs[j])'
  BY <1>2, <1>3 DEF Listed
<1>4. Return => TaskInv'
  <2> SUFFICES ASSUME Return PROVE TaskInv'
    OBVIOUS
  <2>1. \A j \in todo' : Listed(jobs[j])'
    BY <1>3 DEF Return
  <2>2. cur' = None /\ pc' \in Resting /\ cur' \notin todo'
    BY <1>1, ConstantsAssumption DEF Return, Forget, Resting
  <2>3. /\ pc' = "sweep" => ctx' = "sweep"
        /\ pc' \in {"down", "idle", "active"} => ctx' = "reconcile"
    BY DEF Return
  <2> QED BY <2>1, <2>2, <2>3 DEF TaskInv
<1>5. \A l \in Labels \ Resting : Goto(l) /\ AtLabel(l, row) => TaskInv'
  <2> SUFFICES ASSUME NEW l \in Labels \ Resting, Goto(l), AtLabel(l, row) PROVE TaskInv'
    OBVIOUS
  <2>1. \A j \in todo' : Listed(jobs[j])'
    BY <1>3 DEF Goto, locals
  <2>2. pc' \notin Resting /\ cur' = cur /\ cur' \notin todo'
    BY <1>1 DEF Goto, locals
  <2>3. AtLabel(pc, jobs[cur])'
    BY DEF Goto, locals, Written, AtLabel
  <2>4. pc' \notin {"sweep", "down", "idle", "active"}
    BY <2>2 DEF Resting
  <2> QED BY <1>1, <2>1, <2>2, <2>3, <2>4 DEF TaskInv
<1>6. \A reason \in Reason, c \in {"reconcile", "handler"} :
        Fail(reason, c) /\ ctx # "sweep" /\ row.status \notin {"absent", "queued"} => TaskInv'
  <2> SUFFICES ASSUME NEW reason \in Reason, NEW c \in {"reconcile", "handler"}, Fail(reason,
     c),
                      ctx # "sweep", row.status \notin {"absent", "queued"}
               PROVE  TaskInv'
    OBVIOUS
  <2>1. \A j \in todo' : Listed(jobs[j])'
    BY <1>3 DEF Fail
  <2>2. pc' = "fail" /\ cur' = cur /\ cur' \notin todo' /\ ctx' # "sweep"
    BY <1>1 DEF Fail
  <2>3. AtLabel(pc, jobs[cur])'
    BY <2>2 DEF Written, AtLabel, Reconciling, Resting, GatewayKept, UrlKnown, Releasing
  <2> QED BY <1>1, <2>1, <2>2, <2>3 DEF TaskInv, Resting
<1>7. DependencyRaised /\ ctx # "sweep" /\ row.status \in UnderWay => TaskInv'
  <2> SUFFICES ASSUME DependencyRaised, ctx # "sweep", row.status \in UnderWay
               PROVE  TaskInv'
    OBVIOUS
  <2>1. \A j \in todo' : Listed(jobs[j])'
    BY <1>3 DEF DependencyRaised
  <2>2. pc' = "dependency_error" /\ cur' = cur /\ cur' \notin todo' /\ ctx' # "sweep"
    BY <1>1 DEF DependencyRaised
  <2>3. AtLabel(pc, jobs[cur])'
    BY <2>2 DEF Written, AtLabel, UnderWay, Active, Reconciling, Resting, GatewayKept, UrlKnown,
         Releasing
  <2> QED BY <1>1, <2>1, <2>2, <2>3 DEF TaskInv, Resting
<1> QED BY <1>4, <1>5, <1>6, <1>7

-----------------------------------------------------------------------------
(* The steps of the task. *)
\* What a step of the task starts from: a good row that fits the label.
LEMMA AtAwait ==
  ASSUME IInv, pc \notin Resting
  PROVE  /\ cur \in Jobs /\ Current \in Row /\ Good(Current) /\ AtLabel(pc, Current)
         /\ UNCHANGED jobs => Written(Current)
  BY UnchangedWrites DEF IInv, TypeInv, TypeOK, AtWork, RowsInv, RowConsistent,
     PhaseMatchesStatus, Good, TaskInv, Current

\* The loops of reconcile_once.
LEMMA LoopSteps ==
  ASSUME IInv,
         \/ ListActive \/ ListCleanupPending \/ EndPass
         \/ \E j \in Jobs : BeginReconcile(j) \/ BeginCleanup(j)
  PROVE  RowsInv'
<1> USE DEF IInv, RowsInv
<1>1. UNCHANGED jobs
  BY DEF ListActive, ListCleanupPending, EndPass, BeginReconcile, BeginCleanup
<1>2. RowConsistent' /\ PhaseMatchesStatus'
  BY <1>1 DEF RowConsistent, PhaseMatchesStatus
<1>3. CASE ListActive
  <2>1. cur' = None /\ None \notin todo'
    BY <1>3, ConstantsAssumption DEF ListActive, TaskInv, Resting
  <2>2. \A j \in todo' : Listed(jobs[j])'
    BY <1>3 DEF ListActive, TaskInv, Listed
  <2> QED BY <1>2, <1>3, <2>1, <2>2 DEF ListActive, TaskInv, Resting
<1>4. CASE ListCleanupPending
  <2>1. cur' = None /\ None \notin todo'
    BY <1>4, ConstantsAssumption DEF ListCleanupPending, TaskInv, Resting
  <2>2. \A j \in todo' : Listed(jobs[j])'
    BY <1>4 DEF ListCleanupPending, Listed
  <2> QED BY <1>2, <1>4, <2>1, <2>2 DEF ListCleanupPending, TaskInv, Resting
<1>5. CASE EndPass
  BY <1>2, <1>5 DEF EndPass, TaskInv, Resting
<1>6. ASSUME NEW j \in Jobs, BeginReconcile(j) PROVE RowsInv'
  <2>1. \A i \in todo' : Listed(jobs[i])'
    BY <1>6 DEF BeginReconcile, TaskInv, Listed
  <2>2. CASE jobs[j].status = "closing"
    BY <1>2, <1>6, <2>1, <2>2 DEF BeginReconcile, TaskInv, Resting
  <2>3. CASE jobs[j].status # "closing"
    <3>1. ctx = "reconcile" /\ jobs[j].status \in Active
      BY <1>6, <2>3 DEF BeginReconcile, TaskInv, Listed
    <3>2. pc' = (IF jobs[j].bound THEN "row" ELSE "prepare") /\ cur' = j /\ ctx' = ctx
      BY <1>6, <2>3 DEF BeginReconcile
    <3>3. AtLabel(pc, jobs[cur])'
      BY <1>1, <3>1, <3>2
         DEF RowConsistent, RowOK, AtLabel, Active, Reconciling, Resting, GatewayKept,
             UrlKnown, Releasing
    <3>4. cur' \notin todo' /\ pc' \notin Resting
      BY <1>6, <3>2 DEF BeginReconcile, Resting
    <3> QED BY <1>2, <2>1, <3>1, <3>2, <3>3, <3>4 DEF TaskInv, Resting
  <2> QED BY <2>2, <2>3
<1>7. ASSUME NEW j \in Jobs, BeginCleanup(j) PROVE RowsInv'
  <2>1. \A i \in todo' : Listed(jobs[i])'
    BY <1>7 DEF BeginCleanup, TaskInv, Listed
  <2>2. ctx = "sweep" /\ jobs[j].status \in {"succeeded", "failed", "closing"}
    BY <1>7 DEF BeginCleanup, TaskInv, Listed, RowConsistent, RowOK
  <2>3. AtLabel(pc, jobs[cur])'
    BY <1>7, <2>2 DEF BeginCleanup, AtLabel, Reconciling, Resting, GatewayKept, UrlKnown,
                      Releasing
  <2>4. cur' \in Jobs /\ cur' \notin todo' /\ pc' = "cleanup"
    BY <1>7 DEF BeginCleanup
  <2> QED BY <1>2, <2>1, <2>3, <2>4 DEF TaskInv, Resting
<1> QED BY <1>3, <1>4, <1>5, <1>6, <1>7

\* The awaits that write no row.
LEMMA ReadSteps ==
  ASSUME IInv,
         \/ BindFiles \/ BindFails \/ ReadRow \/ GetFails \/ CallRaises \/ GetGateway
         \/ ProbeHealth \/ OnHealthy \/ OnUnhealthy \/ Reread \/ GetController
         \/ HandleDependencyError \/ FailRead \/ CleanupRead
         \/ \E r \in Roles : \/ CreateOk(r) \/ CreateFails(r)
                             \/ StopOk(r) \/ StopFails(r) \/ StopRaises(r)
  PROVE  RowsInv'
<1>1. UNCHANGED jobs
  BY DEF BindFiles, BindFails, ReadRow, GetFails, CallRaises, GetGateway, ProbeHealth,
     OnHealthy, OnUnhealthy, Reread, GetController, HandleDependencyError, FailRead,
     CleanupRead, CreateOk, CreateFails, StopOk, StopFails, StopRaises
<1>2. pc \notin Resting
  BY DEF Resting, BindFiles, BindFails, ReadRow, GetFails, CallRaises, GetGateway,
     ProbeHealth, OnHealthy, OnUnhealthy, Reread, GetController, HandleDependencyError,
     FailRead, CleanupRead, CreateOk, CreateFails, StopOk, StopFails, StopRaises, Creating,
     Stopping
<1>3. RowConsistent' /\ PhaseMatchesStatus'
  BY <1>1 DEF IInv, RowsInv, RowConsistent, PhaseMatchesStatus
<1>4. cur \in Jobs /\ Current \in Row /\ Good(Current) /\ AtLabel(pc, Current)
        /\ Written(Current)
  BY <1>1, <1>2, AtAwait
<1>5. TypeInv /\ TaskInv
  BY DEF IInv, RowsInv
<1>6. Return => TaskInv'
  BY <1>2, <1>4, <1>5, WaysOn
<1>7. \A l \in Labels \ Resting : Goto(l) /\ AtLabel(l, Current) => TaskInv'
  BY <1>2, <1>4, <1>5, WaysOn
<1>8. \A reason \in Reason, c \in {"reconcile", "handler"} :
        Fail(reason, c) /\ ctx # "sweep" /\ Current.status \notin {"absent",
           "queued"} => TaskInv'
  BY <1>2, <1>4, <1>5, WaysOn
<1>9. DependencyRaised /\ ctx # "sweep" /\ Current.status \in UnderWay => TaskInv'
  BY <1>2, <1>4, <1>5, WaysOn
<1> SUFFICES TaskInv'
  BY <1>3 DEF RowsInv
<1>a. {"bound", "save_gateway", "save_controller", "get_gateway", "create_gateway",
       "healthy", "unhealthy", "record_url", "reread", "record_unready", "get_controller",
       "create_controller", "cleanup", "fail_update", "stop_gateway", "cleaned"}
         \subseteq Labels \ Resting
  BY DEF Labels, Resting
<1>b. {"FILE_BINDING_FAILED", "GATEWAY_LOST_DURING_RUN", "GATEWAY_ADDRESS_CHANGED",
       "DEPENDENCY_UNAVAILABLE", "INTERNAL_ORCHESTRATION_ERROR"} \subseteq Reason
  BY DEF Reason
<1>10. ASSUME ctx # "sweep", Current.status \notin {"absent", "queued"},
   AtLabel("get_controller", Current)
       PROVE  ToController => TaskInv'
  BY <1>a, <1>b, <1>7, <1>8, <1>10 DEF ToController
<1>11. CASE BindFiles
  BY <1>a, <1>4, <1>7, <1>11
       DEF BindFiles, AtLabel, Reconciling, Resting, GatewayKept, UrlKnown, Releasing
<1>12. CASE BindFails \/ GetFails \/ CallRaises
  <2>1. Current.status \in UnderWay /\ ctx = "reconcile"
    BY <1>4, <1>12
       DEF BindFails, GetFails, CallRaises, Creating, AtLabel, UnderWay, Active, Reconciling,
           Resting, GatewayKept, UrlKnown, Releasing
  <2>2. Current.status \notin {"absent", "queued"}
    BY <2>1 DEF UnderWay
  <2> QED BY <1>a, <1>b, <1>8, <1>9, <1>12, <2>1, <2>2 DEF BindFails, GetFails, CallRaises,
                                                           OtherRaised
<1>13. CASE ReadRow
  <2>1. AtLabel("get_gateway", Current) \/ "gateway" \notin Current.ids
    BY <1>4, <1>13 DEF ReadRow, AtLabel, Reconciling, Resting, GatewayKept, UrlKnown, Releasing
  <2>2. AtLabel("create_gateway", Current) \/ "gateway" \in Current.ids
    BY <1>4, <1>13 DEF ReadRow, AtLabel, Reconciling, Resting, GatewayKept, UrlKnown, Releasing
  <2> QED BY <1>a, <1>b, <1>6, <1>7, <1>13, <2>1, <2>2 DEF ReadRow, Has
<1>14. ASSUME NEW r \in Roles, CreateOk(r) \/ CreateFails(r) PROVE TaskInv'
  <2>1. Current.status \in UnderWay /\ ctx = "reconcile"
    BY <1>4, <1>14
       DEF CreateOk, CreateFails, Creating, AtLabel, UnderWay, Active, Reconciling, Resting,
           GatewayKept, UrlKnown, Releasing
  <2>2. CASE CreateOk(r)
    <3>1. AtLabel(IF r = "gateway" THEN "save_gateway" ELSE "save_controller", Current)
      BY <1>4, <2>2
       DEF CreateOk, Creating, AtLabel, Reconciling, Resting, GatewayKept, UrlKnown, Releasing
    <3> QED BY <1>a, <1>b, <1>7, <2>2, <3>1 DEF CreateOk
  <2> QED BY <1>9, <1>14, <2>1, <2>2 DEF CreateFails
<1>15. CASE GetGateway
  <2>1. pc' = "record_gateway" /\ cur' = cur /\ ctx' = ctx /\ todo' = todo /\ closing' = closing
    BY <1>15 DEF GetGateway
  <2>2. AtLabel(pc, jobs[cur])'
    BY <1>1, <1>4, <1>15, <2>1
       DEF GetGateway, Current, AtLabel, Reconciling, Resting, GatewayKept, UrlKnown, Releasing
  <2> QED BY <1>1, <1>4, <1>5, <2>1, <2>2 DEF TaskInv, Listed, Resting
<1>16. CASE ProbeHealth
  BY <1>a, <1>4, <1>7, <1>16
       DEF ProbeHealth, AtLabel, Reconciling, Resting, GatewayKept, UrlKnown, Releasing
<1>17. CASE OnHealthy
  <2>1. ctx = "reconcile" /\ Current.status \notin {"absent", "queued"}
    BY <1>4, <1>17
       DEF OnHealthy, Active, AtLabel, Reconciling, Resting, GatewayKept, UrlKnown, Releasing
  <2>2. /\ AtLabel("record_url", Current)
        /\ Current.url # None /\ Current.url = gateway.url => AtLabel("reread", Current)
    BY <1>4, <1>17 DEF OnHealthy, AtLabel, Reconciling, Resting, GatewayKept, UrlKnown,
                       Releasing
  <2> QED BY <1>a, <1>b, <1>6, <1>7, <1>8, <1>17, <2>1, <2>2 DEF OnHealthy
<1>18. CASE OnUnhealthy
  <2>1. ctx = "reconcile" /\ Current.status \notin {"absent", "queued"}
    BY <1>4, <1>18
       DEF OnUnhealthy, Active, AtLabel, Reconciling, Resting, GatewayKept, UrlKnown, Releasing
  <2>2. AtLabel("record_unready", Current)
    BY <1>4, <1>18 DEF OnUnhealthy, AtLabel, Reconciling, Resting, GatewayKept, UrlKnown,
                       Releasing
  <2> QED BY <1>a, <1>b, <1>6, <1>7, <1>8, <1>18, <2>1, <2>2 DEF OnUnhealthy
<1>19. CASE Reread
  <2>1. ctx = "reconcile" /\ Current.status \notin {"absent", "queued"}
    BY <1>4, <1>19
       DEF Reread, Active, AtLabel, Reconciling, Resting, GatewayKept, UrlKnown, Releasing
  <2>2. IF Has("controller") THEN AtLabel("get_controller", Current)
                             ELSE AtLabel("create_controller", Current)
    BY <1>4, <1>19 DEF Reread, Has, AtLabel, Reconciling, Resting, GatewayKept, UrlKnown,
                       Releasing
  <2> QED BY <1>a, <1>b, <1>6, <1>7, <1>10, <1>19, <2>1, <2>2 DEF Reread
<1>20. CASE GetController
  <2>1. /\ pc' = "record_controller" /\ cur' = cur /\ ctx' = ctx /\ todo' = todo
        /\ closing' = closing /\ gateway' = gateway
    BY <1>20 DEF GetController
  <2>2. AtLabel(pc, jobs[cur])'
    BY <1>1, <1>4, <1>20, <2>1
       DEF GetController, Current, AtLabel, Reconciling, Resting, GatewayKept, UrlKnown,
           Releasing
  <2> QED BY <1>1, <1>4, <1>5, <2>1, <2>2 DEF TaskInv, Listed, Resting
<1>21. CASE HandleDependencyError
  <2>1. ctx # "sweep" /\ Current.status \notin {"absent", "queued"}
    BY <1>4, <1>21
       DEF HandleDependencyError, Active, AtLabel, Reconciling, Resting, GatewayKept,
           UrlKnown, Releasing
  <2> QED BY <1>a, <1>b, <1>6, <1>8, <1>21, <2>1 DEF HandleDependencyError
<1>22. CASE FailRead
  <2>1. ctx # "sweep" /\ Current.status \in Status \ {"absent", "queued"}
    BY <1>4, <1>22
       DEF FailRead, Row, AtLabel, Reconciling, Resting, GatewayKept, UrlKnown, Releasing
  <2>2. /\ Current.status = "failed" => AtLabel("cleanup", Current)
        /\ Current.status \notin {"succeeded", "closing", "closed", "failed"} =>
             AtLabel("fail_update", Current)
    BY <2>1
       DEF Status, Active, Terminal, AtLabel, Reconciling, Resting, GatewayKept, UrlKnown,
           Releasing
  <2> QED BY <1>a, <1>b, <1>6, <1>7, <1>22, <2>2 DEF FailRead
<1>23. CASE CleanupRead
  <2>1. cur' = cur /\ ctx' = ctx /\ todo' = todo
    BY <1>23 DEF CleanupRead
  <2>2. closing' <=> Current.status = "closing"
    BY <1>23 DEF CleanupRead, IsClosing
  <2>3. \/ pc' \in Releasing /\ (KeepRJobs => closing')
        \/ pc' = "keep" /\ Current.status # "closing" /\ KeepRJobs
    BY <1>23 DEF CleanupRead, IsClosing, AfterController, Releasing
  <2>4. Current.status \in {"succeeded", "failed", "closing"}
    BY <1>4, <1>23 DEF CleanupRead, AtLabel, Reconciling, Resting, GatewayKept, UrlKnown,
                       Releasing
  <2>5. jobs'[cur'] = Current
    BY <1>1, <2>1 DEF Current
  <2>6. CASE pc' \in Releasing /\ (KeepRJobs => closing')
    BY <1>1, <1>4, <1>5, <2>1, <2>2, <2>4, <2>5, <2>6
       DEF TaskInv, Listed, Resting, AtLabel, Reconciling, Resting, GatewayKept, UrlKnown,
           Releasing
  <2>7. CASE pc' = "keep" /\ Current.status # "closing" /\ KeepRJobs
    BY <1>1, <1>4, <1>5, <2>1, <2>4, <2>5, <2>7
       DEF TaskInv, Listed, Resting, AtLabel, Reconciling, Resting, GatewayKept, UrlKnown,
           Releasing
  <2> QED BY <2>3, <2>6, <2>7
<1>24. ASSUME NEW r \in Roles, StopOk(r) \/ StopFails(r) PROVE TaskInv'
  <2>1. AtLabel("stop_gateway", Current) /\ AtLabel("cleaned", Current)
    BY <1>4, <1>24
       DEF StopOk, StopFails, Stopping, AtLabel, Reconciling, Resting, GatewayKept, UrlKnown,
           Releasing
  <2> QED BY <1>a, <1>b, <1>6, <1>7, <1>24, <2>1 DEF StopOk, StopFails, AfterController
<1>25. ASSUME NEW r \in Roles, StopRaises(r) PROVE TaskInv'
  <2>1. Current.status \notin {"absent", "queued"}
    BY <1>4, <1>25
       DEF StopRaises, Stopping, Terminal, AtLabel, Reconciling, Resting, GatewayKept,
           UrlKnown, Releasing
  <2>2. CASE ctx = "reconcile"
    BY <1>b, <1>8, <1>25, <2>1, <2>2 DEF StopRaises, OtherRaised
  <2>3. CASE ctx # "reconcile"
    BY <1>25, <2>3 DEF StopRaises, Forget, TaskInv, Resting
  <2> QED BY <2>2, <2>3
<1> QED
  BY <1>11, <1>12, <1>13, <1>14, <1>15, <1>16, <1>17, <1>18, <1>19, <1>20, <1>21,
     <1>22, <1>23, <1>24, <1>25

\* The awaits that write the current Job's row.
LEMMA WriteSteps ==
  ASSUME IInv,
         \/ Prepare \/ RecordBinding \/ SaveGateway \/ SaveController
         \/ SaveControllerLate \/ RecordGatewayStatus \/ RecordUnready \/ RecordUrl
         \/ RecordControllerStatus \/ RecordSuccess \/ FailUpdate
         \/ KeepWorkloads \/ CleanupDone
  PROVE  RowsInv'
<1>1. pc \notin Resting
  BY DEF Resting, Prepare, RecordBinding, SaveGateway, SaveController, SaveControllerLate,
     RecordGatewayStatus, RecordUnready, RecordUrl, RecordControllerStatus, RecordSuccess,
     FailUpdate, KeepWorkloads, CleanupDone
<1>2. cur \in Jobs /\ Current \in Row /\ Good(Current) /\ AtLabel(pc, Current)
        /\ (UNCHANGED jobs => Written(Current))
  BY <1>1, AtAwait
<1>3. TypeInv /\ TaskInv /\ RowConsistent /\ PhaseMatchesStatus
  BY DEF IInv, RowsInv
<1>4. gateway.state \in RJobState /\ gateway.url \in Addresses \cup {None}
        /\ controller \in RJobState
  BY <1>3 DEF TypeInv, TypeOK, TaskTypeOK, Snapshot
<1>5. ASSUME NEW row, Store(row) PROVE Written(row)
  BY <1>2, <1>3, <1>5, StoreWrites
<1>6. ASSUME NEW row, Written(row), Good(row) PROVE RowConsistent' /\ PhaseMatchesStatus'
  BY <1>3, <1>6, RowsStayGood
<1>7. ASSUME NEW row, Written(row), Return PROVE TaskInv'
  BY <1>1, <1>3, <1>7, WaysOn
<1>8. ASSUME NEW row, Written(row), NEW l \in Labels \ Resting, Goto(l), AtLabel(l, row)
      PROVE  TaskInv'
  BY <1>1, <1>3, <1>8, WaysOn
<1>9. ASSUME NEW row, Written(row), NEW reason \in Reason, Fail(reason, "reconcile"),
             ctx # "sweep", row.status \notin {"absent", "queued"}
      PROVE  TaskInv'
  BY <1>1, <1>3, <1>9, WaysOn
<1>11. {"bind", "row", "get_gateway", "get_controller", "save_controller_late", "probe",
        "reread", "succeed", "cleanup"} \subseteq Labels \ Resting
  BY DEF Labels, Resting
<1>12. {"GATEWAY_RJOB_FAILED", "GATEWAY_LOST_DURING_RUN", "GATEWAY_READY_TIMEOUT",
        "GATEWAY_HEALTH_TIMEOUT", "EPISODE_RESULTS_INCOMPLETE", "SAFACTORY_RJOB_FAILED",
        "SAFACTORY_RJOB_TIMEOUT"} \subseteq Reason
  BY DEF Reason
<1>13. ASSUME pc \in Reconciling
       PROVE  /\ ctx = "reconcile" /\ Current.status \in Active \cup {"closing"}
              /\ pc # "prepare" => Current.status \notin {"absent", "queued"}
  BY <1>1, <1>2, <1>13 DEF AtLabel
<1>14. ASSUME NEW row, Written(row), ToController, AtLabel("get_controller", row)
       PROVE  TaskInv'
  <2>1. ctx # "sweep" /\ row.status \notin {"absent", "queued"}
    BY <1>14 DEF AtLabel, Reconciling, Resting
  <2> QED BY <1>8, <1>9, <1>11, <1>12, <1>14, <2>1 DEF ToController
\* A refused update leaves the row as it was.
<1>15. ASSUME UNCHANGED jobs, pc \in Reconciling,
              Return \/ (OtherRaised /\ Current.status \in Terminal)
       PROVE  RowsInv'
  <2>1. Current.status \notin Terminal
    BY <1>13, <1>15 DEF Active, Terminal
  <2> QED BY <1>2, <1>6, <1>7, <1>15, <2>1 DEF RowsInv
<1>16. CASE Prepare
  <2>1. pc = "prepare" /\ pc \in Reconciling
    BY <1>16 DEF Prepare, Reconciling
  <2>2. CASE UNCHANGED jobs /\ (Return \/ (OtherRaised /\ Current.status \in Terminal))
    BY <1>15, <2>1, <2>2
  <2>3. CASE /\ ~Conflict(Current, "preparing") /\ Goto("bind")
             /\ Store(Move(Current, "preparing", "resolving_job_files"))
    BY <1>2, <1>5, <1>6, <1>8, <1>11, <2>1, <2>3, PreparedRow DEF RowsInv
  <2> QED BY <1>16, <2>2, <2>3 DEF Prepare, Guarded, Immutable
<1>17. CASE RecordBinding
  BY <1>2, <1>5, <1>6, <1>7, <1>8, <1>11, <1>17, BoundRow DEF RecordBinding, RowsInv
<1>18. CASE SaveGateway
  BY <1>2, <1>5, <1>6, <1>7, <1>8, <1>11, <1>18, GatewaySavedRow DEF SaveGateway, RowsInv
<1>19. CASE SaveController
  <2>1. pc = "save_controller" /\ pc \in Reconciling
    BY <1>19 DEF SaveController, Reconciling
  <2>2. CASE UNCHANGED jobs /\ (Return \/ (OtherRaised /\ Current.status \in Terminal))
    BY <1>15, <2>1, <2>2
  <2>3. CASE Conflict(Current, "running") /\ Goto("save_controller_late") /\ UNCHANGED jobs
    <3>1. AtLabel("save_controller_late", Current)
      BY <1>2, <2>1, <2>3 DEF Conflict, AtLabel, Reconciling, Resting, GatewayKept, UrlKnown,
                              Releasing
    <3> QED BY <1>2, <1>6, <1>8, <1>11, <2>3, <3>1 DEF RowsInv
  <2>4. CASE /\ ~Conflict(Current, "running") /\ ToController
             /\ Store(WithId(Move(Current, "running", "running_safactory"), "controller"))
    BY <1>2, <1>5, <1>6, <1>14, <2>1, <2>4, ControllerSavedRow DEF RowsInv
  <2> QED BY <1>19, <2>2, <2>3, <2>4 DEF SaveController, Guarded, Immutable
<1>20. CASE SaveControllerLate
  <2>1. pc = "save_controller_late" /\ Store(WithId(Current, "controller"))
    BY <1>20 DEF SaveControllerLate
  <2>2. IsClosing
    BY <1>2, <2>1 DEF AtLabel, IsClosing
  <2> QED
    BY <1>2, <1>5, <1>6, <1>7, <1>20, <2>1, <2>2, ControllerSavedLateRow
       DEF SaveControllerLate, RowsInv
<1>21. CASE RecordGatewayStatus
  <2> DEFINE new == [Current EXCEPT !.seen["gateway"] = gateway.state]
  <2>1. pc = "record_gateway" /\ pc \in Reconciling /\ Written(new)
    BY <1>5, <1>21 DEF RecordGatewayStatus, Reconciling
  <2>2. Good(new) /\ new.status = Current.status
          /\ (gateway.url # None => AtLabel("probe", new))
    BY <1>2, <1>4, <2>1, GatewaySeenRow
  <2>3. ctx # "sweep" /\ new.status \notin {"absent", "queued"}
    BY <1>13, <2>1, <2>2
  <2> HIDE DEF new
  <2>4. TaskInv'
    BY <1>7, <1>8, <1>9, <1>11, <1>12, <1>21, <2>1, <2>2, <2>3 DEF RecordGatewayStatus
  <2> QED BY <1>6, <2>1, <2>2, <2>4 DEF RowsInv
<1>22. CASE RecordUnready
  <2> DEFINE new == Note(Current, "checking_gateway_health")
  <2>1. pc = "record_unready" /\ pc \in Reconciling /\ Written(new)
    BY <1>5, <1>22 DEF RecordUnready, Reconciling
  <2>2. Good(new) /\ new.status = Current.status
    BY <1>2, <2>1, UnreadyRow
  <2>3. ctx # "sweep" /\ new.status \notin {"absent", "queued"}
    BY <1>13, <2>1, <2>2
  <2> HIDE DEF new
  <2>4. TaskInv'
    BY <1>7, <1>9, <1>12, <1>22, <2>1, <2>3 DEF RecordUnready
  <2> QED BY <1>6, <2>1, <2>2, <2>4 DEF RowsInv
<1>23. CASE RecordUrl
  BY <1>2, <1>4, <1>5, <1>6, <1>7, <1>8, <1>11, <1>23, UrlRow DEF RecordUrl, RowsInv
<1>24. CASE RecordControllerStatus
  <2> DEFINE new == [Current EXCEPT !.seen["controller"] = controller]
  <2>1. pc = "record_controller" /\ pc \in Reconciling /\ Written(new)
    BY <1>5, <1>24 DEF RecordControllerStatus, Reconciling
  <2>2. Good(new) /\ new.status = Current.status
          /\ (controller = "succeeded" => AtLabel("succeed", new))
    BY <1>2, <1>4, <2>1, ControllerSeenRow
  <2>3. ctx # "sweep" /\ new.status \notin {"absent", "queued"}
    BY <1>13, <2>1, <2>2
  <2> HIDE DEF new
  <2>4. TaskInv'
    BY <1>7, <1>8, <1>9, <1>11, <1>12, <1>24, <2>1, <2>2, <2>3 DEF RecordControllerStatus
  <2> QED BY <1>6, <2>1, <2>2, <2>4 DEF RowsInv
<1>25. CASE RecordSuccess
  <2>1. pc = "succeed" /\ pc \in Reconciling
    BY <1>25 DEF RecordSuccess, Reconciling
  <2>2. CASE UNCHANGED jobs /\ (Return \/ (OtherRaised /\ Current.status \in Terminal))
    BY <1>15, <2>1, <2>2
  <2>3. CASE /\ ~Conflict(Current, "succeeded") /\ Return
             /\ Store([Move(Current, "succeeded", "completed") EXCEPT !.cleanup = TRUE])
    BY <1>2, <1>5, <1>6, <1>7, <2>1, <2>3, SucceededRow DEF RowsInv
  <2> QED BY <1>25, <2>2, <2>3 DEF RecordSuccess, Guarded, Immutable
<1>26. CASE FailUpdate
  <2>1. pc = "fail_update"
    BY <1>26 DEF FailUpdate
  <2>2. CASE Return /\ UNCHANGED jobs
    BY <1>2, <1>6, <1>7, <2>2 DEF RowsInv
  <2>3. CASE /\ ~Conflict(Current, "failed") /\ Goto("cleanup")
             /\ Store([Move(Current, "failed", "cleaning_rjobs")
                         EXCEPT !.reason = why, !.cleanup = TRUE])
    BY <1>2, <1>5, <1>6, <1>8, <1>11, <2>1, <2>3, FailedRow DEF RowsInv
  <2> QED BY <1>26, <2>2, <2>3 DEF FailUpdate
<1>27. CASE KeepWorkloads
  BY <1>2, <1>5, <1>6, <1>7, <1>27, ReleasedRow DEF KeepWorkloads, RowsInv
<1>28. CASE CleanupDone
  <2>1. closing \in BOOLEAN
    BY <1>3 DEF TypeInv, TypeOK, TaskTypeOK
  <2> QED BY <1>2, <1>5, <1>6, <1>7, <1>28, <2>1, ReleasedRow DEF CleanupDone, RowsInv
<1> QED
  BY <1>16, <1>17, <1>18, <1>19, <1>20, <1>21, <1>22, <1>23, <1>24, <1>25, <1>26, <1>27,
     <1>28

\* No step of the task breaks the row properties or what the task relies on.
LEMMA TaskKeepsRows == IInv /\ TaskStep => RowsInv'
  BY LoopSteps, ReadSteps, WriteSteps DEF TaskStep

\* What the API, the clock, the platform and the life of the process do to the rows.
LEMMA EnvironmentKeepsRows == IInv /\ Environment => RowsInv'
<1> SUFFICES ASSUME IInv, Environment PROVE RowsInv'
  OBVIOUS
<1>1. /\ RowConsistent /\ PhaseMatchesStatus /\ TaskInv /\ TypeInv
      /\ jobs \in [Jobs -> Row] /\ todo \subseteq Jobs /\ pc \in Labels
  BY DEF IInv, RowsInv, TypeInv, TypeOK, TaskTypeOK
<1>2. ASSUME UNCHANGED <<jobs, task>> PROVE RowsInv'
  BY <1>1, <1>2 DEF task, RowsInv, RowConsistent, PhaseMatchesStatus, TaskInv, Listed, AtLabel
<1>3. ASSUME NEW j \in Jobs, NEW row \in Row, Good(row), UNCHANGED task,
             jobs' = [jobs EXCEPT ![j] = row],
             j = cur => AtLabel(pc, row), j \in todo => Listed(row)
      PROVE  RowsInv'
  <2>1. \A i \in Jobs : jobs'[i] = IF i = j THEN row ELSE jobs[i]
    BY <1>1, <1>3
  <2>2. RowConsistent' /\ PhaseMatchesStatus'
    BY <1>1, <1>3, <2>1 DEF RowConsistent, PhaseMatchesStatus, Good
  <2>3. /\ pc' = pc /\ cur' = cur /\ ctx' = ctx /\ todo' = todo /\ closing' = closing
        /\ gateway' = gateway
    BY <1>3 DEF task
  <2>4. \A i \in todo' : Listed(jobs[i])'
    BY <1>1, <1>3, <2>1, <2>3 DEF TaskInv, Listed
  <2>5. pc \notin Resting => cur \in Jobs /\ AtLabel(pc, jobs'[cur])
    BY <1>1, <1>3, <2>1 DEF TaskInv
  <2>6. AtLabel(pc, jobs'[cur]) => AtLabel(pc, jobs[cur])'
    BY <2>3 DEF AtLabel
  <2> QED BY <1>1, <2>2, <2>3, <2>4, <2>5, <2>6 DEF RowsInv, TaskInv
<1>4. ASSUME NEW j \in Jobs, CreateJob(j) PROVE RowsInv'
  <2>1. NewControlJob \in Row /\ Good(NewControlJob)
    BY NewRowType, ConstantsAssumption
       DEF NewControlJob, Good, RowOK, PhaseOK
  <2>2. j # cur \/ pc \in Resting
    BY <1>1, <1>4
       DEF CreateJob, TaskInv, AtLabel, Resting, Labels, Reconciling, GatewayKept, UrlKnown,
           Releasing, Active, Terminal
  <2>3. j \notin todo
    BY <1>1, <1>4 DEF CreateJob, TaskInv, Listed, Active, RowConsistent, RowOK
  <2>4. pc \in Resting => cur = None
    BY <1>1 DEF TaskInv
  <2>5. j # cur
    BY <2>2, <2>4, ConstantsAssumption
  <2> QED BY <1>3, <1>4, <2>1, <2>3, <2>5 DEF CreateJob
<1>5. ASSUME NEW j \in Jobs, CloseJob(j) PROVE RowsInv'
  <2>1. jobs[j] \in Row /\ Good(jobs[j]) /\ jobs[j].status \in Active
    BY <1>1, <1>5 DEF CloseJob, RowConsistent, PhaseMatchesStatus, Good
  <2>2. Closed(jobs[j]) \in Row
    BY <2>1, RowTypes
  <2>3. /\ Good(Closed(jobs[j]))
        /\ AtLabel(pc, jobs[j]) => AtLabel(pc, Closed(jobs[j]))
        /\ Listed(jobs[j]) => Listed(Closed(jobs[j]))
    BY <1>1, <2>1, ClosedRow
  <2>4. (j = cur => AtLabel(pc, jobs[j])) /\ (j \in todo => Listed(jobs[j]))
    BY <1>1, ConstantsAssumption DEF TaskInv
  <2> QED BY <1>3, <1>5, <2>2, <2>3, <2>4 DEF CloseJob
<1>6. ASSUME NEW j \in Jobs, NEW r \in Roles, Deadline(j, r) PROVE RowsInv'
  BY <1>2, <1>6 DEF Deadline
<1>7. CASE Crash \/ Restart
  <2>1. UNCHANGED jobs /\ cur' = None /\ pc' \in {"down", "idle"} /\ ctx' = "reconcile"
    BY <1>1, <1>7 DEF Crash, Restart, Forget, locals, TaskInv, Resting
  <2>2. None \notin todo' /\ \A j \in todo' : Listed(jobs[j])'
    BY <1>1, <1>7, <2>1, ConstantsAssumption DEF Crash, Restart, locals, TaskInv, Listed
  <2> QED BY <1>1, <2>1, <2>2 DEF RowsInv, RowConsistent, PhaseMatchesStatus, TaskInv, Resting
<1> QED BY <1>2, <1>4, <1>5, <1>6, <1>7 DEF Environment

\* An empty table and an idle task.
LEMMA RowsInit == Init => RowsInv
  BY ConstantsAssumption
     DEF Init, RowsInv, RowConsistent, PhaseMatchesStatus, TaskInv, NoRow, NewControlJob, RowOK,
         PhaseOK, Resting

\* No step of the system breaks the inductive invariant.
LEMMA RowsStep == IInv /\ [Next]_vars => IInv'
<1>1. ASSUME RowsInv, UNCHANGED vars PROVE RowsInv'
  BY <1>1 DEF vars, task, RowsInv, RowConsistent, PhaseMatchesStatus, TaskInv, Listed, AtLabel
<1>2. IInv /\ Next => RowsInv'
  BY TaskKeepsRows, EnvironmentKeepsRows DEF Next
<1>3. IInv => TypeInv /\ RowsInv
  BY DEF IInv
<1> QED BY <1>1, <1>2, <1>3, TypeStep DEF IInv

\* The inductive invariant holds in every reachable state.
LEMMA Inductive == Spec => []IInv
<1>1. Init => IInv
  BY TypeInit, RowsInit DEF IInv
<1> QED BY <1>1, RowsStep, PTL DEF Spec

\* No interleaving of the background task with closes, crashes, deadlines and faults leaves
\* a row that claims more than was done.
THEOREM RowsAreConsistent == Spec => []RowConsistent
<1>1. IInv => RowConsistent
  BY DEF IInv, RowsInv
<1> QED BY <1>1, Inductive, PTL

\* No late update of a Job that was closed or failed brings a phase of the execution back.
THEOREM PhasesMatchStatuses == Spec => []PhaseMatchesStatus
<1>1. IInv => PhaseMatchesStatus
  BY DEF IInv, RowsInv
<1> QED BY <1>1, Inductive, PTL

\* At each await the task can rely on what its code assumes of the row it read before,
\* whatever the API wrote to that row since.
THEOREM TaskReliesOnTruth == Spec => []TaskInv
<1>1. IInv => TaskInv
  BY DEF IInv, RowsInv
<1> QED BY <1>1, Inductive, PTL

-----------------------------------------------------------------------------
(* ReasonHasEvidence is not inductive either: the reason is chosen where the *)
(* evidence is, two awaits before it is written, and a close may come first. *)
RowEvidence(row, elapsed) == /\ (row.status = "failed") <=> (row.reason # None)
                             /\ Backed(row.reason, row, elapsed)

Failing == {"fail", "fail_update"}

EvidenceInv ==
  /\ ReasonHasEvidence
  /\ pc \in Failing => why \in Reason /\ Backed(why, jobs[cur], late[cur])
  /\ pc = "record_unready" => "controller" \notin jobs[cur].ids

\* A row without a reason needs no evidence, and evidence is not lost as time goes by.
LEMMA EvidenceStays ==
  /\ \A row, elapsed : row.status # "failed" /\ row.reason = None => RowEvidence(row, elapsed)
  /\ \A reason, row, new, before, after :
       /\ Backed(reason, row, before) /\ before \subseteq after
       /\ new.ids = row.ids /\ new.seen = row.seen
       => Backed(reason, new, after)
BY ConstantsAssumption DEF RowEvidence, Backed, Reason

\* No row is written, and the task neither fails a Job nor finds a Gateway unready.
LEMMA NothingWritten ==
  ASSUME IInv, EvidenceInv, UNCHANGED jobs, \A j \in Jobs : late[j] \subseteq late'[j],
         \/ pc' \notin Failing \cup {"record_unready"}
         \/ UNCHANGED <<pc, cur, why>>
  PROVE  EvidenceInv'
<1>1. ReasonHasEvidence'
  BY EvidenceStays DEF EvidenceInv, ReasonHasEvidence
<1>2. pc \in Failing \cup {"record_unready"} => cur \in Jobs
  BY DEF IInv, TypeInv, AtWork, Resting, Failing
<1> QED BY <1>1, <1>2, EvidenceStays DEF EvidenceInv, Failing

\* The task leaves behind a row with evidence, and evidence of the reason it fails for.
LEMMA EvidenceWritten ==
  ASSUME IInv, EvidenceInv, UNCHANGED late, cur \in Jobs, NEW row, Written(row),
         RowEvidence(row, late[cur]),
         pc' \in Failing => cur' = cur /\ why' \in Reason /\ Backed(why', row, late[cur]),
         pc' = "record_unready" => cur' = cur /\ "controller" \notin row.ids
  PROVE  EvidenceInv'
<1>1. \A j \in Jobs : RowEvidence(jobs'[j], late'[j])
  BY DEF EvidenceInv, ReasonHasEvidence, RowEvidence, Written
<1>2. ReasonHasEvidence'
  BY <1>1 DEF ReasonHasEvidence, RowEvidence
<1> QED BY <1>2 DEF EvidenceInv, Written

\* Where control may go without a claim.
LEMMA PlainWays ==
  /\ Return => pc' \notin Failing \cup {"record_unready"}
  /\ \A l : Goto(l) => pc' = l /\ cur' = cur /\ why' = why
  /\ DependencyRaised => pc' \notin Failing \cup {"record_unready"}
  /\ \A reason, c : Fail(reason, c) => pc' = "fail" /\ cur' = cur /\ why' = reason
BY DEF Return, Goto, DependencyRaised, Fail, Failing, locals

\* The steps of the task keep every reason backed.
LEMMA TaskKeepsEvidence ==
  ASSUME IInv, EvidenceInv, TaskStep
  PROVE  EvidenceInv'
<1>1. UNCHANGED late
  BY DEF TaskStep
<1> DEFINE Quiet == pc' \notin Failing \cup {"record_unready"}
<1>2. ASSUME UNCHANGED jobs, Quiet PROVE EvidenceInv'
  BY <1>1, <1>2, NothingWritten
<1>3. ASSUME pc \notin Resting
      PROVE  /\ cur \in Jobs /\ Current \in Row /\ AtLabel(pc, Current)
             /\ RowEvidence(Current, late[cur])
  BY <1>3, AtAwait DEF EvidenceInv, ReasonHasEvidence, RowEvidence, Current
<1>4. ASSUME pc \notin Resting, NEW row, Store(row) \/ (UNCHANGED jobs /\ row = Current),
             RowEvidence(row, late[cur]),
             pc' \in Failing => cur' = cur /\ why' \in Reason /\ Backed(why', row, late[cur]),
             pc' = "record_unready" => cur' = cur /\ "controller" \notin row.ids
      PROVE  EvidenceInv'
  <2>1. Written(row)
    BY <1>3, <1>4, StoreWrites, UnchangedWrites DEF IInv
  <2> QED BY <1>1, <1>3, <1>4, <2>1, EvidenceWritten
<1>5. ASSUME pc \in Reconciling
      PROVE  /\ pc \notin Resting
             /\ Current.status \in Active \cup {"closing"} /\ Current.reason = None
  <2>1. pc \notin Resting
    BY <1>5 DEF Reconciling, Resting
  <2>2. Current.status \in Active \cup {"closing"}
    BY <1>3, <1>5, <2>1 DEF AtLabel
  <2> QED BY <1>3, <2>1, <2>2 DEF RowEvidence, Active
<1>6. /\ OtherRaised => /\ pc' = "fail" /\ cur' = cur /\ why' \in Reason
                        /\ \A row : Backed(why', row, late[cur])
  BY PlainWays DEF OtherRaised, Backed, Reason
<1>7. ASSUME pc \notin Resting, OtherRaised, UNCHANGED jobs PROVE EvidenceInv'
  BY <1>3, <1>4, <1>6, <1>7
<1>8. ASSUME NEW j \in Jobs, BeginReconcile(j) \/ BeginCleanup(j) PROVE EvidenceInv'
  BY <1>2, <1>8 DEF BeginReconcile, BeginCleanup, Failing
<1>9. CASE \/ ListActive \/ ListCleanupPending \/ EndPass \/ BindFiles \/ ReadRow
           \/ GetFails \/ GetGateway \/ ProbeHealth \/ GetController \/ CleanupRead
  <2>1. UNCHANGED jobs /\ Quiet
    BY <1>9, PlainWays DEF ListActive, ListCleanupPending, EndPass, BindFiles, ReadRow,
       GetFails, GetGateway, ProbeHealth, GetController, CleanupRead, AfterController, Failing
  <2> QED BY <1>2, <2>1
<1>10. ASSUME NEW r \in Roles, CreateOk(r) \/ CreateFails(r) \/ StopOk(r) \/ StopFails(r)
       PROVE  EvidenceInv'
  <2>1. UNCHANGED jobs /\ Quiet
    BY <1>10, PlainWays DEF CreateOk, CreateFails, StopOk, StopFails, AfterController, Failing
  <2> QED BY <1>2, <2>1
<1>11. ASSUME NEW r \in Roles, StopRaises(r) PROVE EvidenceInv'
  <2>1. UNCHANGED jobs /\ pc \notin Resting /\ (OtherRaised \/ pc' = "dead")
    BY <1>11 DEF StopRaises, Stopping, Resting
  <2> QED BY <1>2, <1>7, <2>1 DEF Failing
<1>12. CASE CallRaises
  <2>1. UNCHANGED jobs /\ pc \notin Resting /\ OtherRaised
    BY <1>12 DEF CallRaises, Creating, Resting
  <2> QED BY <1>7, <2>1
<1>13. CASE BindFails
  <2>1. UNCHANGED jobs /\ pc \in Reconciling /\ pc \notin Resting
    BY <1>13 DEF BindFails, Reconciling, Resting
  <2>2. CASE DependencyRaised
    BY <1>2, <2>1, <2>2, PlainWays
  <2>3. CASE Fail("FILE_BINDING_FAILED", "reconcile")
    <3>1. pc' = "fail" /\ cur' = cur /\ why' = "FILE_BINDING_FAILED"
      BY <2>3, PlainWays
    <3>2. why' \in Reason /\ Backed(why', Current, late[cur])
      BY <3>1 DEF Reason, Backed
    <3> QED BY <1>3, <1>4, <2>1, <3>1, <3>2
  <2> QED BY <1>13, <2>2, <2>3 DEF BindFails
<1>14. CASE OnHealthy
  <2>1. UNCHANGED jobs /\ pc \in Reconciling /\ pc \notin Resting
    BY <1>14 DEF OnHealthy, Reconciling, Resting
  <2>2. Quiet \/ (pc' = "fail" /\ cur' = cur /\ why' = "GATEWAY_ADDRESS_CHANGED")
    BY <1>14, PlainWays DEF OnHealthy, Failing
  <2>3. /\ "GATEWAY_ADDRESS_CHANGED" \in Reason
        /\ Backed("GATEWAY_ADDRESS_CHANGED", Current, late[cur])
    BY DEF Reason, Backed
  <2> QED BY <1>2, <1>3, <1>4, <2>1, <2>2, <2>3
<1>15. CASE OnUnhealthy
  <2>1. UNCHANGED jobs /\ pc \in Reconciling /\ pc \notin Resting
    BY <1>15 DEF OnUnhealthy, Reconciling, Resting
  <2>2. \/ Quiet
        \/ Has("controller") /\ pc' = "fail" /\ cur' = cur /\ why' = "GATEWAY_LOST_DURING_RUN"
        \/ ~Has("controller") /\ pc' = "record_unready" /\ cur' = cur
    BY <1>15, PlainWays DEF OnUnhealthy, Failing
  <2>3. "GATEWAY_LOST_DURING_RUN" \in Reason
        /\ (Has("controller") => Backed("GATEWAY_LOST_DURING_RUN", Current, late[cur]))
    BY DEF Reason, Backed, Has
  <2> QED BY <1>2, <1>3, <1>4, <2>1, <2>2, <2>3 DEF Has, Failing
<1>16. CASE Reread
  <2>1. UNCHANGED jobs /\ pc \in Reconciling /\ pc \notin Resting
    BY <1>16 DEF Reread, Reconciling, Resting
  <2>2. Quiet \/ (Has("controller") /\ pc' = "fail" /\ cur' = cur
                  /\ why' = "GATEWAY_LOST_DURING_RUN")
    BY <1>16, PlainWays DEF Reread, ToController, Failing
  <2>3. "GATEWAY_LOST_DURING_RUN" \in Reason
        /\ (Has("controller") => Backed("GATEWAY_LOST_DURING_RUN", Current, late[cur]))
    BY DEF Reason, Backed, Has
  <2> QED BY <1>2, <1>3, <1>4, <2>1, <2>2, <2>3
<1>17. CASE HandleDependencyError
  <2>1. UNCHANGED jobs /\ pc \notin Resting
    BY <1>17 DEF HandleDependencyError, Resting
  <2>2. Quiet \/ (late[cur] # {} /\ pc' = "fail" /\ cur' = cur /\ why' = "DEPENDENCY_UNAVAILABLE")
    BY <1>17, PlainWays DEF HandleDependencyError, ControllerTimedOut, GatewayTimedOut, Failing
  <2>3. "DEPENDENCY_UNAVAILABLE" \in Reason
        /\ (late[cur] # {} => Backed("DEPENDENCY_UNAVAILABLE", Current, late[cur]))
    BY DEF Reason, Backed
  <2> QED BY <1>2, <1>3, <1>4, <2>1, <2>2, <2>3
<1>18. CASE FailRead
  <2>1. UNCHANGED jobs /\ pc \notin Resting /\ pc \in Failing
    BY <1>18 DEF FailRead, Resting, Failing
  <2>2. Quiet \/ (pc' = "fail_update" /\ cur' = cur /\ why' = why)
    BY <1>18, PlainWays DEF FailRead, Failing
  <2>3. why \in Reason /\ Backed(why, Current, late[cur])
    BY <2>1 DEF EvidenceInv, Current
  <2> QED BY <1>2, <1>3, <1>4, <2>1, <2>2, <2>3
<1>19. CASE FailUpdate
  <2>1. pc \notin Resting /\ why \in Reason /\ Backed(why, Current, late[cur]) /\ Quiet
    BY <1>19, PlainWays DEF FailUpdate, Resting, Failing, EvidenceInv, Current
  <2> DEFINE row == [Move(Current, "failed", "cleaning_rjobs")
                       EXCEPT !.reason = why, !.cleanup = TRUE]
  <2>2. /\ row.status = "failed" /\ row.reason = why
        /\ row.ids = Current.ids /\ row.seen = Current.seen
    BY <1>3, <2>1 DEF Row, Move
  <2>3. RowEvidence(row, late[cur])
    <3>1. Backed(why, row, late[cur])
      BY <2>1, <2>2, EvidenceStays
    <3> QED BY <2>1, <2>2, <3>1, ConstantsAssumption DEF RowEvidence
  <2> HIDE DEF row
  <2>4. Store(row) \/ UNCHANGED jobs
    BY <1>19 DEF FailUpdate, row
  <2> QED BY <1>2, <1>4, <2>1, <2>3, <2>4
<1>20. CASE KeepWorkloads \/ CleanupDone
  <2>1. pc \notin Resting /\ Quiet
    BY <1>20, PlainWays DEF KeepWorkloads, CleanupDone, Resting
  <2> DEFINE kept  == [Current EXCEPT !.cleanup = FALSE]
             ended == [Move(Current, "closed", "completed")
                         EXCEPT !.cleanup = FALSE, !.reason = None]
  <2>2. /\ kept.status = Current.status /\ kept.reason = Current.reason
        /\ kept.ids = Current.ids /\ kept.seen = Current.seen
        /\ ended.status = "closed" /\ ended.reason = None
    BY <1>3, <2>1 DEF Row, Move
  <2>3. RowEvidence(kept, late[cur]) /\ RowEvidence(ended, late[cur])
    <3>1. Backed(Current.reason, kept, late[cur])
      BY <1>3, <2>1, <2>2, EvidenceStays DEF RowEvidence
    <3> QED BY <1>3, <2>1, <2>2, <3>1, EvidenceStays DEF RowEvidence
  <2> HIDE DEF kept, ended
  <2>4. Store(kept) \/ Store(ended)
    BY <1>20 DEF KeepWorkloads, CleanupDone, kept, ended
  <2> QED BY <1>4, <2>1, <2>3, <2>4
<1>21. CASE \/ Prepare \/ RecordBinding \/ SaveGateway \/ SaveController
            \/ SaveControllerLate \/ RecordGatewayStatus \/ RecordUnready \/ RecordUrl
            \/ RecordControllerStatus \/ RecordSuccess
  <2>1. pc \in Reconciling
    BY <1>21 DEF Prepare, RecordBinding, SaveGateway, SaveController, SaveControllerLate,
       RecordGatewayStatus, RecordUnready, RecordUrl, RecordControllerStatus, RecordSuccess,
       Reconciling
  <2>2. /\ cur \in Jobs /\ Current \in Row /\ AtLabel(pc, Current) /\ pc \notin Resting
        /\ Current.status \in Active \cup {"closing"} /\ Current.reason = None
    BY <1>3, <1>5, <2>1
  <2>3. ASSUME NEW row, Store(row), row.status # "failed", row.reason = None,
               pc' \in Failing => cur' = cur /\ why' \in Reason /\ Backed(why', row, late[cur]),
               pc' # "record_unready"
        PROVE  EvidenceInv'
    BY <1>4, <2>2, <2>3, EvidenceStays
  <2>4. CASE Prepare
    <3> DEFINE row == Move(Current, "preparing", "resolving_job_files")
    <3>1. row.status # "failed" /\ row.reason = None
      BY <2>2 DEF Row, Move
    <3>2. \/ UNCHANGED jobs /\ (Quiet \/ OtherRaised)
          \/ Store(row) /\ Quiet
      BY <2>4, PlainWays DEF Prepare, Guarded, Failing
    <3> HIDE DEF row
    <3> QED BY <1>2, <1>7, <2>2, <2>3, <3>1, <3>2
  <2>5. CASE RecordSuccess
    <3> DEFINE row == [Move(Current, "succeeded", "completed") EXCEPT !.cleanup = TRUE]
    <3>1. row.status # "failed" /\ row.reason = None
      BY <2>2 DEF Row, Move
    <3>2. \/ UNCHANGED jobs /\ (Quiet \/ OtherRaised)
          \/ Store(row) /\ Quiet
      BY <2>5, PlainWays DEF RecordSuccess, Guarded
    <3> HIDE DEF row
    <3> QED BY <1>2, <1>7, <2>2, <2>3, <3>1, <3>2
  <2>6. CASE RecordBinding \/ SaveGateway \/ RecordUrl
    <3> DEFINE bound == [Note(Current, "submitting_gateway_rjob") EXCEPT !.bound = TRUE]
               saved == WithId(Note(Current, "waiting_gateway_address"), "gateway")
               found == [Note(Current, "submitting_safactory_rjob") EXCEPT !.url = gateway.url]
    <3>1. \A row \in {bound, saved, found} : row.status # "failed" /\ row.reason = None
      BY <2>2 DEF Row, Note, Move, WithId, Active
    <3>2. (Store(bound) \/ Store(saved) \/ Store(found)) /\ Quiet
      BY <2>6, PlainWays DEF RecordBinding, SaveGateway, RecordUrl, Failing
    <3> HIDE DEF bound, saved, found
    <3> QED BY <2>3, <3>1, <3>2
  <2>7. CASE SaveController
    <3> DEFINE row == WithId(Move(Current, "running", "running_safactory"), "controller")
    <3>1. row.status # "failed" /\ row.reason = None /\ "controller" \in row.ids
      BY <2>2 DEF Row, Move, WithId
    <3>2. \/ UNCHANGED jobs /\ (Quiet \/ OtherRaised)
          \/ Store(row) /\ (Quiet \/ Fail("GATEWAY_LOST_DURING_RUN", "reconcile"))
      BY <2>7, PlainWays DEF SaveController, Guarded, ToController, Failing
    <3>3. "GATEWAY_LOST_DURING_RUN" \in Reason /\ Backed("GATEWAY_LOST_DURING_RUN", row, late[cur])
      BY <3>1 DEF Reason, Backed
    <3> HIDE DEF row
    <3> QED BY <1>2, <1>7, <2>2, <2>3, <3>1, <3>2, <3>3, PlainWays
  <2>8. CASE SaveControllerLate
    <3> DEFINE row == WithId(Current, "controller")
    <3>1. row.status # "failed" /\ row.reason = None /\ "controller" \in row.ids
      BY <2>2 DEF Row, WithId, Active
    <3>2. Store(row) /\ (Quiet \/ Fail("GATEWAY_LOST_DURING_RUN", "reconcile"))
      BY <2>8, PlainWays DEF SaveControllerLate, ToController, Failing
    <3>3. "GATEWAY_LOST_DURING_RUN" \in Reason /\ Backed("GATEWAY_LOST_DURING_RUN", row, late[cur])
      BY <3>1 DEF Reason, Backed
    <3> HIDE DEF row
    <3> QED BY <2>3, <3>1, <3>2, <3>3, PlainWays
  <2>9. CASE RecordUnready
    <3> DEFINE row == Note(Current, "checking_gateway_health")
    <3>1. row.status # "failed" /\ row.reason = None /\ row.ids = Current.ids
      BY <2>2 DEF Row, Note, Move, Active
    <3>2. Store(row) /\ (Quiet \/ ("gateway" \in late[cur]
                                   /\ Fail("GATEWAY_HEALTH_TIMEOUT", "reconcile")))
      BY <2>9, PlainWays DEF RecordUnready, GatewayTimedOut
    <3>3. "controller" \notin row.ids
      BY <2>9, <3>1 DEF RecordUnready, EvidenceInv, Current
    <3>4. "GATEWAY_HEALTH_TIMEOUT" \in Reason
          /\ ("gateway" \in late[cur] => Backed("GATEWAY_HEALTH_TIMEOUT", row, late[cur]))
      BY <3>3 DEF Reason, Backed
    <3> HIDE DEF row
    <3> QED BY <2>3, <3>1, <3>2, <3>4, PlainWays
  <2>10. CASE RecordGatewayStatus
    <3> DEFINE row == [Current EXCEPT !.seen["gateway"] = gateway.state]
    <3>1. /\ row.status # "failed" /\ row.reason = None /\ row.ids = Current.ids
          /\ row.seen["gateway"] = gateway.state
      <4>1. Current.seen \in [Roles -> RJobState \cup {None}] /\ "gateway" \in Roles
        BY <2>2 DEF Row, Roles
      <4>2. row.seen["gateway"] = gateway.state
        BY <2>2, <4>1 DEF Row
      <4>3. row.status # "failed" /\ row.reason = None /\ row.ids = Current.ids
        BY <2>2 DEF Row, Active
      <4> QED BY <4>2, <4>3
    <3>2. Store(row) /\ (\/ Quiet
                         \/ /\ gateway.state \in {"failed", "succeeded"}
                            /\ Fail("GATEWAY_RJOB_FAILED", "reconcile")
                         \/ Has("controller") /\ Fail("GATEWAY_LOST_DURING_RUN", "reconcile")
                         \/ /\ ~Has("controller") /\ "gateway" \in late[cur]
                            /\ Fail("GATEWAY_READY_TIMEOUT", "reconcile"))
      BY <2>10, PlainWays DEF RecordGatewayStatus, GatewayTimedOut, Failing
    <3>3. /\ {"GATEWAY_RJOB_FAILED", "GATEWAY_LOST_DURING_RUN",
              "GATEWAY_READY_TIMEOUT"} \subseteq Reason
          /\ gateway.state \in {"failed", "succeeded"} =>
               Backed("GATEWAY_RJOB_FAILED", row, late[cur])
          /\ Has("controller") => Backed("GATEWAY_LOST_DURING_RUN", row, late[cur])
          /\ ~Has("controller") /\ "gateway" \in late[cur] =>
               Backed("GATEWAY_READY_TIMEOUT", row, late[cur])
      BY <3>1 DEF Reason, Backed, Has
    <3> HIDE DEF row
    <3> QED BY <2>3, <3>1, <3>2, <3>3, PlainWays
  <2>11. CASE RecordControllerStatus
    <3> DEFINE row == [Current EXCEPT !.seen["controller"] = controller]
    <3>1. /\ row.status # "failed" /\ row.reason = None /\ "controller" \in row.ids
          /\ row.seen["controller"] = controller
      BY <2>2, <2>11 DEF Row, Active, AtLabel, RecordControllerStatus
    <3>2. Store(row) /\ (\/ Quiet
                         \/ Fail("EPISODE_RESULTS_INCOMPLETE", "reconcile")
                         \/ controller = "failed" /\ Fail("SAFACTORY_RJOB_FAILED", "reconcile")
                         \/ /\ "controller" \in late[cur]
                            /\ Fail("SAFACTORY_RJOB_TIMEOUT", "reconcile"))
      BY <2>11, PlainWays DEF RecordControllerStatus, ControllerTimedOut, Failing
    <3>3. /\ {"EPISODE_RESULTS_INCOMPLETE", "SAFACTORY_RJOB_FAILED",
              "SAFACTORY_RJOB_TIMEOUT"} \subseteq Reason
          /\ Backed("EPISODE_RESULTS_INCOMPLETE", row, late[cur])
          /\ controller = "failed" => Backed("SAFACTORY_RJOB_FAILED", row, late[cur])
          /\ "controller" \in late[cur] => Backed("SAFACTORY_RJOB_TIMEOUT", row, late[cur])
      BY <3>1 DEF Reason, Backed
    <3> HIDE DEF row
    <3> QED BY <2>3, <3>1, <3>2, <3>3, PlainWays
  <2> QED BY <1>21, <2>4, <2>5, <2>6, <2>7, <2>8, <2>9, <2>10, <2>11
<1> QED
  BY <1>8, <1>9, <1>10, <1>11, <1>12, <1>13, <1>14, <1>15, <1>16, <1>17, <1>18, <1>19, <1>20,
     <1>21 DEF TaskStep

\* A close takes a row the task is failing out of the way and leaves its evidence.
LEMMA EnvironmentKeepsEvidence ==
  ASSUME IInv, EvidenceInv, Environment
  PROVE  EvidenceInv'
<1>1. jobs \in [Jobs -> Row] /\ late \in [Jobs -> SUBSET Roles]
  BY DEF IInv, TypeInv, TypeOK
<1>2. pc \in Failing \cup {"record_unready"} => cur \in Jobs
  BY DEF IInv, TypeInv, AtWork, Resting, Failing
<1>3. ASSUME NEW j \in Jobs, CreateJob(j) \/ CloseJob(j) PROVE EvidenceInv'
  <2> DEFINE row == IF jobs[j].status = "absent" THEN NewControlJob ELSE Closed(jobs[j])
  <2>1. jobs[j].status \in Active \cup {"absent"} /\ jobs[j] \in Row
    BY <1>1, <1>3 DEF CreateJob, CloseJob
  <2>2. \A i \in Jobs : jobs'[i] = IF i = j THEN row ELSE jobs[i]
    BY <1>1, <1>3 DEF CreateJob, CloseJob, Active
  <2>3. row.status \in {"queued", "closing"} /\ row.reason = None
    <3>1. jobs[j].reason = None
      BY <2>1 DEF EvidenceInv, ReasonHasEvidence, Active
    <3> QED BY <2>1, <3>1 DEF NewControlJob, Closed, Row
  <2>4. pc \in Failing \cup {"record_unready"} /\ j = cur =>
          row.ids = jobs[j].ids /\ row.seen = jobs[j].seen
    <3>1. ASSUME pc \in Failing \cup {"record_unready"}, j = cur PROVE jobs[j].status # "absent"
      <4>1. pc \notin Resting
        BY <3>1 DEF Failing, Resting
      <4>2. AtLabel(pc, jobs[j])
        BY <3>1, <4>1, AtAwait DEF Current
      <4> QED BY <3>1, <4>1, <4>2 DEF AtLabel, Failing
    <3> QED BY <2>1, <3>1 DEF Closed, Row
  <2>5. UNCHANGED <<late, pc, cur, why>>
    BY <1>3 DEF CreateJob, CloseJob, task
  <2> HIDE DEF row
  <2>6. \A i \in Jobs : RowEvidence(jobs'[i], late'[i])
    BY <2>2, <2>3, <2>5, EvidenceStays DEF EvidenceInv, ReasonHasEvidence, RowEvidence
  <2>7. pc \in Failing => Backed(why, jobs'[cur], late[cur])
    BY <1>2, <2>2, <2>4, EvidenceStays DEF EvidenceInv
  <2>8. pc = "record_unready" => "controller" \notin jobs'[cur].ids
    BY <1>2, <2>2, <2>4 DEF EvidenceInv
  <2> QED BY <2>5, <2>6, <2>7, <2>8 DEF EvidenceInv, ReasonHasEvidence, RowEvidence
<1>4. ASSUME NEW j \in Jobs, NEW r \in Roles, Deadline(j, r) PROVE EvidenceInv'
  <2>1. \A i \in Jobs : late[i] \subseteq late'[i]
    BY <1>1, <1>4 DEF Deadline
  <2> QED BY <1>4, <2>1, NothingWritten DEF Deadline, task
<1>5. ASSUME UNCHANGED <<jobs, late, task>> PROVE EvidenceInv'
  BY <1>5, NothingWritten DEF task
<1>6. CASE Crash \/ Restart
  <2>1. UNCHANGED <<jobs, late>> /\ pc' \in {"down", "idle"}
    BY <1>6 DEF Crash, Restart
  <2> QED BY <2>1, NothingWritten DEF Failing
<1> QED BY <1>3, <1>4, <1>5, <1>6 DEF Environment

\* A failure reason is backed by what is on record, from the failure on: nothing recorded by
\* a later pass, a late update or the next process contradicts it.
THEOREM ReasonsAreBacked == Spec => []ReasonHasEvidence
<1>1. Init => EvidenceInv
  BY EvidenceStays DEF Init, EvidenceInv, ReasonHasEvidence, RowEvidence, NoRow, NewControlJob,
     Failing
<1>2. IInv /\ EvidenceInv /\ [Next]_vars => EvidenceInv'
  <2>1. ASSUME EvidenceInv, UNCHANGED vars PROVE EvidenceInv'
    BY <2>1 DEF vars, task, EvidenceInv, ReasonHasEvidence, Backed
  <2> QED BY <2>1, TaskKeepsEvidence, EnvironmentKeepsEvidence DEF Next
<1>3. EvidenceInv => ReasonHasEvidence
  BY DEF EvidenceInv
<1> QED BY <1>1, <1>2, <1>3, Inductive, PTL DEF Spec
=============================================================================
