----------------------- MODULE JobOrchestratorProofs -----------------------
(* Machine-checked proofs about JobOrchestrator, for every set of Jobs, of  *)
(* addresses and of faults, every number of crashes and both KeepRJobs.     *)
EXTENDS JobOrchestrator, TLAPS

USE DEF Roles

-----------------------------------------------------------------------------
(* The operators that build rows keep them rows. *)
LEMMA RowTypes ==
  ASSUME NEW row \in Row
  PROVE  /\ \A st \in Status, ph \in Phase : Move(row, st, ph) \in Row
         /\ \A ph \in Phase : Note(row, ph) \in Row
         /\ \A r \in Roles : WithId(row, r) \in Row
         /\ Closed(row) \in Row
<1>1. \A st \in Status, ph \in Phase : Move(row, st, ph) \in Row
  BY DEF Move, PhaseAfter, Row
<1>2. \A ph \in Phase : Note(row, ph) \in Row
  BY <1>1 DEF Note, Row
<1>3. \A r \in Roles : WithId(row, r) \in Row
  BY DEF WithId, Row, RJobState
<1>4. Closed(row) \in Row
  BY DEF Closed, Row, Status, Phase
<1> QED BY <1>1, <1>2, <1>3, <1>4

\* A row just inserted, and the absence of one, are rows.
LEMMA NewRowType == NewControlJob \in Row /\ NoRow \in Row
  BY DEF NewControlJob, NoRow, Row, Status, Active, Terminal, Phase

\* Storing a row of the current Job keeps the table typed.
LEMMA StoreType ==
  ASSUME jobs \in [Jobs -> Row], NEW row, cur \in Jobs => row \in Row, Store(row)
  PROVE  jobs' \in [Jobs -> Row]
  BY DEF Store

\* The clients' operations keep the platform typed, and get() answers a state.
LEMMA PlatformTypes ==
  ASSUME PlatformTypeOK, NEW j \in Jobs, NEW r \in Roles
  PROVE  /\ \A s \in PlatformState : Become(j, r, s) \in [Jobs -> [Roles -> PlatformState]]
         /\ AfterCreate(j, r) \in [Jobs -> [Roles -> PlatformState]]
         /\ AfterStop(j, r) \in [Jobs -> [Roles -> PlatformState]]
         /\ AfterHalfStop(j, r) \in [Jobs -> [Roles -> PlatformState]]
         /\ Observed(j, r) \in RJobState
  BY DEF PlatformTypeOK, Become, AfterCreate, AfterStop, AfterHalfStop, Observed,
         PlatformState, RJobState

-----------------------------------------------------------------------------
(* Type correctness.  The task has a current Job at every label inside       *)
(* _reconcile, _fail and _cleanup.                                           *)
AtWork  == pc \notin Resting => cur \in Jobs

TypeInv == TypeOK /\ AtWork

\* Where the control-flow operators lead, and that the locals stay typed.
LEMMA ControlTypes ==
  ASSUME TypeInv
  PROVE  /\ Return => TaskTypeOK' /\ AtWork'
         /\ \A l \in Labels : Goto(l) /\ (cur \in Jobs \/ l \in Resting) => TaskTypeOK' /\ AtWork'
         /\ \A reason \in Reason, c \in {"reconcile", "handler"} :
              Fail(reason, c) /\ cur \in Jobs => TaskTypeOK' /\ AtWork'
         /\ DependencyRaised /\ cur \in Jobs => TaskTypeOK' /\ AtWork'
         /\ OtherRaised /\ cur \in Jobs => TaskTypeOK' /\ AtWork'
<1> USE DEF TypeInv, TypeOK, TaskTypeOK, AtWork, Resting, Labels
<1>0. NoSnapshot \in Snapshot /\ "unknown" \in RJobState
  BY DEF NoSnapshot, Snapshot, RJobState
<1>1. Return => TaskTypeOK' /\ AtWork'
  BY <1>0 DEF Return, Forget
<1>2. \A l \in Labels : Goto(l) /\ (cur \in Jobs \/ l \in Resting) => TaskTypeOK' /\ AtWork'
  BY DEF Goto, locals
<1>3. \A reason \in Reason, c \in {"reconcile", "handler"} :
        Fail(reason, c) /\ cur \in Jobs => TaskTypeOK' /\ AtWork'
  BY <1>0 DEF Fail
<1>4. DependencyRaised /\ cur \in Jobs => TaskTypeOK' /\ AtWork'
  BY <1>0 DEF DependencyRaised
<1>5. OtherRaised /\ cur \in Jobs => TaskTypeOK' /\ AtWork'
  BY <1>3 DEF OtherRaised, Reason
<1> QED BY <1>1, <1>2, <1>3, <1>4, <1>5

\* The rows the task stores.
LEMMA StoredTypes ==
  ASSUME TypeInv, cur \in Jobs
  PROVE  /\ Current \in Row
         /\ \A st \in Status, ph \in Phase : Move(Current, st, ph) \in Row
         /\ \A ph \in Phase : Note(Current, ph) \in Row
         /\ \A row \in Row, r \in Roles : WithId(row, r) \in Row
         /\ \A row \in Row, b \in BOOLEAN : [row EXCEPT !.bound = b] \in Row
         /\ \A row \in Row, b \in BOOLEAN : [row EXCEPT !.cleanup = b] \in Row
         /\ \A row \in Row, u \in Addresses \cup {None} : [row EXCEPT !.url = u] \in Row
         /\ \A row \in Row, b \in BOOLEAN, w \in Reason \cup {None} :
              /\ [row EXCEPT !.reason = w, !.cleanup = b] \in Row
              /\ [row EXCEPT !.cleanup = b, !.reason = w] \in Row
         /\ \A row \in Row, r \in Roles, st \in RJobState : [row EXCEPT !.seen[r] = st] \in Row
<1>1. Current \in Row
  BY DEF TypeInv, TypeOK, Current
<1>2. \A row \in Row, b \in BOOLEAN : [row EXCEPT !.bound = b] \in Row
  BY DEF Row
<1>3. \A row \in Row, b \in BOOLEAN : [row EXCEPT !.cleanup = b] \in Row
  BY DEF Row
<1>4. \A row \in Row, u \in Addresses \cup {None} : [row EXCEPT !.url = u] \in Row
  BY DEF Row
<1>5. \A row \in Row, b \in BOOLEAN, w \in Reason \cup {None} :
        /\ [row EXCEPT !.reason = w, !.cleanup = b] \in Row
        /\ [row EXCEPT !.cleanup = b, !.reason = w] \in Row
  BY DEF Row
<1>6. \A row \in Row, r \in Roles, st \in RJobState : [row EXCEPT !.seen[r] = st] \in Row
  BY DEF Row
<1>7. \A row \in Row, r \in Roles : WithId(row, r) \in Row
  BY RowTypes
<1> QED BY <1>1, <1>2, <1>3, <1>4, <1>5, <1>6, <1>7, RowTypes

\* Every action of the task that stores a row keeps the table typed.
LEMMA StoreStepTypes ==
  ASSUME TypeInv,
         \/ Prepare \/ RecordBinding \/ SaveGateway \/ SaveController
         \/ SaveControllerLate \/ RecordGatewayStatus \/ RecordUnready \/ RecordUrl
         \/ RecordControllerStatus \/ RecordSuccess \/ FailUpdate
         \/ KeepWorkloads \/ CleanupDone
  PROVE  jobs' \in [Jobs -> Row] /\ TaskTypeOK' /\ AtWork'
<1>1. cur \in Jobs
  BY DEF TypeInv, AtWork, Resting, Prepare, RecordBinding, SaveGateway, SaveController,
         SaveControllerLate, RecordGatewayStatus, RecordUnready, RecordUrl,
         RecordControllerStatus, RecordSuccess, FailUpdate, KeepWorkloads, CleanupDone
<1>2. jobs \in [Jobs -> Row] /\ gateway \in Snapshot /\ controller \in RJobState
        /\ why \in Reason \cup {None}
  BY DEF TypeInv, TypeOK, TaskTypeOK
<1>3. gateway.state \in RJobState /\ gateway.url \in Addresses \cup {None}
  BY <1>2 DEF Snapshot
<1>4. {"preparing", "running", "succeeded", "failed", "closed"} \subseteq Status
  BY DEF Status, Active, Terminal
<1>5. {"resolving_job_files", "submitting_gateway_rjob", "waiting_gateway_address",
       "checking_gateway_health", "submitting_safactory_rjob", "running_safactory",
       "completed", "cleaning_rjobs"} \subseteq Phase
  BY DEF Phase
<1>6. {"GATEWAY_RJOB_FAILED", "GATEWAY_LOST_DURING_RUN", "GATEWAY_READY_TIMEOUT",
       "GATEWAY_HEALTH_TIMEOUT", "EPISODE_RESULTS_INCOMPLETE", "SAFACTORY_RJOB_FAILED",
       "SAFACTORY_RJOB_TIMEOUT"} \subseteq Reason
  BY DEF Reason
<1>7. {"bind", "row", "get_gateway", "get_controller", "save_controller_late", "probe",
       "reread", "succeed", "cleanup"} \subseteq Labels
  BY DEF Labels
<1>8. ToController => TaskTypeOK' /\ AtWork'
  BY <1>1, <1>6, <1>7, ControlTypes DEF ToController
<1>9. CASE Prepare
  <2>1. Move(Current, "preparing", "resolving_job_files") \in Row
    BY <1>1, <1>2, <1>3, <1>4, <1>5, StoredTypes
  <2>2. jobs' \in [Jobs -> Row]
    BY <1>2, <2>1, <1>9, StoreType DEF Prepare, Guarded
  <2>3. TaskTypeOK' /\ AtWork'
    BY <1>1, <1>6, <1>7, <1>8, <1>9, ControlTypes DEF Prepare, Guarded
  <2> QED BY <2>2, <2>3
<1>10. CASE RecordBinding
  <2>1. [Note(Current, "submitting_gateway_rjob") EXCEPT !.bound = TRUE] \in Row
    BY <1>1, <1>2, <1>3, <1>4, <1>5, StoredTypes
  <2>2. jobs' \in [Jobs -> Row]
    BY <1>2, <2>1, <1>10, StoreType DEF RecordBinding
  <2>3. TaskTypeOK' /\ AtWork'
    BY <1>1, <1>6, <1>7, <1>8, <1>10, ControlTypes DEF RecordBinding
  <2> QED BY <2>2, <2>3
<1>11. CASE SaveGateway
  <2>1. WithId(Note(Current, "waiting_gateway_address"), "gateway") \in Row
    BY <1>1, <1>2, <1>3, <1>4, <1>5, StoredTypes
  <2>2. jobs' \in [Jobs -> Row]
    BY <1>2, <2>1, <1>11, StoreType DEF SaveGateway
  <2>3. TaskTypeOK' /\ AtWork'
    BY <1>1, <1>6, <1>7, <1>8, <1>11, ControlTypes DEF SaveGateway
  <2> QED BY <2>2, <2>3
<1>12. CASE SaveController
  <2>1. WithId(Move(Current, "running", "running_safactory"), "controller") \in Row
    BY <1>1, <1>2, <1>3, <1>4, <1>5, StoredTypes
  <2>2. jobs' \in [Jobs -> Row]
    BY <1>2, <2>1, <1>12, StoreType DEF SaveController, Guarded
  <2>3. TaskTypeOK' /\ AtWork'
    BY <1>1, <1>6, <1>7, <1>8, <1>12, ControlTypes DEF SaveController, Guarded
  <2> QED BY <2>2, <2>3
<1>13. CASE SaveControllerLate
  <2>1. WithId(Current, "controller") \in Row
    BY <1>1, <1>2, <1>3, <1>4, <1>5, StoredTypes
  <2>2. jobs' \in [Jobs -> Row]
    BY <1>2, <2>1, <1>13, StoreType DEF SaveControllerLate
  <2>3. TaskTypeOK' /\ AtWork'
    BY <1>1, <1>6, <1>7, <1>8, <1>13, ControlTypes DEF SaveControllerLate
  <2> QED BY <2>2, <2>3
<1>14. CASE RecordGatewayStatus
  <2>1. [Current EXCEPT !.seen["gateway"] = gateway.state] \in Row
    BY <1>1, <1>2, <1>3, <1>4, <1>5, StoredTypes
  <2>2. jobs' \in [Jobs -> Row]
    BY <1>2, <2>1, <1>14, StoreType DEF RecordGatewayStatus
  <2>3. TaskTypeOK' /\ AtWork'
    BY <1>1, <1>6, <1>7, <1>8, <1>14, ControlTypes DEF RecordGatewayStatus
  <2> QED BY <2>2, <2>3
<1>15. CASE RecordUnready
  <2>1. Note(Current, "checking_gateway_health") \in Row
    BY <1>1, <1>2, <1>3, <1>4, <1>5, StoredTypes
  <2>2. jobs' \in [Jobs -> Row]
    BY <1>2, <2>1, <1>15, StoreType DEF RecordUnready
  <2>3. TaskTypeOK' /\ AtWork'
    BY <1>1, <1>6, <1>7, <1>8, <1>15, ControlTypes DEF RecordUnready
  <2> QED BY <2>2, <2>3
<1>16. CASE RecordUrl
  <2>1. [Note(Current, "submitting_safactory_rjob") EXCEPT !.url = gateway.url] \in Row
    BY <1>1, <1>2, <1>3, <1>4, <1>5, StoredTypes
  <2>2. jobs' \in [Jobs -> Row]
    BY <1>2, <2>1, <1>16, StoreType DEF RecordUrl
  <2>3. TaskTypeOK' /\ AtWork'
    BY <1>1, <1>6, <1>7, <1>8, <1>16, ControlTypes DEF RecordUrl
  <2> QED BY <2>2, <2>3
<1>17. CASE RecordControllerStatus
  <2>1. [Current EXCEPT !.seen["controller"] = controller] \in Row
    BY <1>1, <1>2, <1>3, <1>4, <1>5, StoredTypes
  <2>2. jobs' \in [Jobs -> Row]
    BY <1>2, <2>1, <1>17, StoreType DEF RecordControllerStatus
  <2>3. TaskTypeOK' /\ AtWork'
    BY <1>1, <1>6, <1>7, <1>8, <1>17, ControlTypes DEF RecordControllerStatus
  <2> QED BY <2>2, <2>3
<1>18. CASE RecordSuccess
  <2>1. [Move(Current, "succeeded", "completed") EXCEPT !.cleanup = TRUE] \in Row
    BY <1>1, <1>2, <1>3, <1>4, <1>5, StoredTypes
  <2>2. jobs' \in [Jobs -> Row]
    BY <1>2, <2>1, <1>18, StoreType DEF RecordSuccess, Guarded
  <2>3. TaskTypeOK' /\ AtWork'
    BY <1>1, <1>6, <1>7, <1>8, <1>18, ControlTypes DEF RecordSuccess, Guarded
  <2> QED BY <2>2, <2>3
<1>19. CASE FailUpdate
  <2>1. [Move(Current, "failed", "cleaning_rjobs")
                    EXCEPT !.reason = why, !.cleanup = TRUE] \in Row
    BY <1>1, <1>2, <1>3, <1>4, <1>5, StoredTypes
  <2>2. jobs' \in [Jobs -> Row]
    BY <1>2, <2>1, <1>19, StoreType DEF FailUpdate
  <2>3. TaskTypeOK' /\ AtWork'
    BY <1>1, <1>6, <1>7, <1>8, <1>19, ControlTypes DEF FailUpdate
  <2> QED BY <2>2, <2>3
<1>20. CASE KeepWorkloads
  <2>1. [Current EXCEPT !.cleanup = FALSE] \in Row
    BY <1>1, <1>2, <1>3, <1>4, <1>5, StoredTypes
  <2>2. jobs' \in [Jobs -> Row]
    BY <1>2, <2>1, <1>20, StoreType DEF KeepWorkloads
  <2>3. TaskTypeOK' /\ AtWork'
    BY <1>1, <1>6, <1>7, <1>8, <1>20, ControlTypes DEF KeepWorkloads
  <2> QED BY <2>2, <2>3
<1>21. CASE CleanupDone
  <2>1. /\ [Move(Current, "closed", "completed")
                      EXCEPT !.cleanup = FALSE, !.reason = None] \in Row
                 /\ [Current EXCEPT !.cleanup = FALSE] \in Row
    BY <1>1, <1>2, <1>3, <1>4, <1>5, StoredTypes
  <2>2. jobs' \in [Jobs -> Row]
    BY <1>2, <2>1, <1>21, StoreType DEF CleanupDone
  <2>3. TaskTypeOK' /\ AtWork'
    BY <1>1, <1>6, <1>7, <1>8, <1>21, ControlTypes DEF CleanupDone
  <2> QED BY <2>2, <2>3
<1> QED BY <1>9, <1>10, <1>11, <1>12, <1>13, <1>14, <1>15, <1>16, <1>17, <1>18, <1>19, <1>20, <1>21

\* The initial state is typed.
LEMMA TypeInit == Init => TypeInv
<1> SUFFICES ASSUME Init PROVE TypeInv
  OBVIOUS
<1>1. PlatformTypeOK
  BY DEF Init, PlatformInit, PlatformTypeOK, PlatformState
<1>2. NoSnapshot \in Snapshot /\ "unknown" \in RJobState
  BY DEF NoSnapshot, Snapshot, RJobState
<1>3. TaskTypeOK /\ AtWork
  BY <1>2 DEF Init, TaskTypeOK, AtWork, Resting, Labels
<1>4. jobs \in [Jobs -> Row]
  BY NewRowType DEF Init
<1>5. late \in [Jobs -> SUBSET Roles]
  BY DEF Init
<1>6. crashes \in 0..MaxCrashes
  BY ConstantsAssumption DEF Init
<1> QED BY <1>1, <1>3, <1>4, <1>5, <1>6 DEF TypeInv, TypeOK

\* The actions of the task that leave the table alone.
LEMMA TaskStepTypes ==
  ASSUME TypeInv, TaskStep
  PROVE  TypeInv'
<1> USE DEF TypeInv, TypeOK
<1>1. late' \in [Jobs -> SUBSET Roles] /\ crashes' \in 0..MaxCrashes
  BY DEF TaskStep
<1>2. ASSUME UNCHANGED rjobs PROVE PlatformTypeOK'
  BY <1>2 DEF PlatformTypeOK
<1>3. ASSUME UNCHANGED jobs PROVE jobs' \in [Jobs -> Row]
  BY <1>3
<1>4. ASSUME NEW r \in Roles, cur \in Jobs,
             \/ UNCHANGED rjobs \/ rjobs' = AfterCreate(cur, r)
             \/ rjobs' = AfterStop(cur, r) \/ rjobs' = AfterHalfStop(cur, r)
      PROVE  PlatformTypeOK'
  <2>1. /\ AfterCreate(cur, r) \in [Jobs -> [Roles -> PlatformState]]
        /\ AfterStop(cur, r) \in [Jobs -> [Roles -> PlatformState]]
        /\ AfterHalfStop(cur, r) \in [Jobs -> [Roles -> PlatformState]]
    BY <1>4, PlatformTypes
  <2> QED BY <1>4, <2>1 DEF PlatformTypeOK
<1>5. {"bound", "get_gateway", "create_gateway", "save_gateway", "save_controller",
       "healthy", "unhealthy", "record_url", "reread", "record_unready",
       "create_controller", "get_controller", "cleanup", "fail_update",
       "stop_gateway", "cleaned"} \subseteq Labels
  BY DEF Labels
<1>6. {"FILE_BINDING_FAILED", "GATEWAY_LOST_DURING_RUN", "GATEWAY_ADDRESS_CHANGED",
       "DEPENDENCY_UNAVAILABLE"} \subseteq Reason
  BY DEF Reason
<1>7. pc \notin Resting => cur \in Jobs
  BY DEF AtWork
<1>8. CASE ListActive \/ ListCleanupPending \/ EndPass
  <2>1. TaskTypeOK' /\ AtWork'
    BY <1>8 DEF ListActive, ListCleanupPending, EndPass, TaskTypeOK, AtWork, Resting, Labels
  <2> QED BY <1>1, <1>2, <1>3, <1>8, <2>1 DEF ListActive, ListCleanupPending, EndPass
<1>9. ASSUME NEW j \in Jobs, BeginReconcile(j) \/ BeginCleanup(j) PROVE TypeInv'
  <2>1. TaskTypeOK' /\ AtWork'
    BY <1>9 DEF BeginReconcile, BeginCleanup, TaskTypeOK, AtWork, Resting, Labels
  <2> QED BY <1>1, <1>2, <1>3, <1>9, <2>1 DEF BeginReconcile, BeginCleanup
<1>10. CASE \/ Prepare \/ RecordBinding \/ SaveGateway \/ SaveController
            \/ SaveControllerLate \/ RecordGatewayStatus \/ RecordUnready \/ RecordUrl
            \/ RecordControllerStatus \/ RecordSuccess \/ FailUpdate
            \/ KeepWorkloads \/ CleanupDone
  <2>1. jobs' \in [Jobs -> Row] /\ TaskTypeOK' /\ AtWork'
    BY <1>10, StoreStepTypes
  <2>2. UNCHANGED rjobs
    BY <1>10 DEF Prepare, RecordBinding, SaveGateway, SaveController, SaveControllerLate,
         RecordGatewayStatus, RecordUnready, RecordUrl, RecordControllerStatus,
         RecordSuccess, FailUpdate, KeepWorkloads, CleanupDone
  <2> QED BY <1>1, <1>2, <2>1, <2>2
<1>11. CASE BindFiles \/ BindFails \/ ReadRow \/ GetFails \/ ProbeHealth \/ OnHealthy
            \/ OnUnhealthy \/ Reread \/ HandleDependencyError \/ FailRead
  <2>1. cur \in Jobs
    BY <1>7, <1>11 DEF Resting, BindFiles, BindFails, ReadRow, GetFails, ProbeHealth,
         OnHealthy, OnUnhealthy, Reread, HandleDependencyError, FailRead
  <2>2. ToController => TaskTypeOK' /\ AtWork'
    BY <1>5, <1>6, <2>1, ControlTypes DEF ToController
  <2>3. TaskTypeOK' /\ AtWork'
    BY <1>5, <1>6, <1>11, <2>1, <2>2, ControlTypes
       DEF BindFiles, BindFails, ReadRow, GetFails, ProbeHealth,
           OnHealthy, OnUnhealthy, Reread, HandleDependencyError, FailRead
  <2>4. UNCHANGED <<jobs, rjobs>>
    BY <1>11 DEF BindFiles, BindFails, ReadRow, GetFails, ProbeHealth,
         OnHealthy, OnUnhealthy, Reread, HandleDependencyError, FailRead
  <2> QED BY <1>1, <1>2, <1>3, <2>3, <2>4
<1>12. CASE GetGateway \/ GetController
  <2>1. cur \in Jobs
    BY <1>7, <1>12 DEF Resting, GetGateway, GetController
  <2>2. Observed(cur, "gateway") \in RJobState /\ Observed(cur, "controller") \in RJobState
    BY <2>1, PlatformTypes
  <2>3. gateway' \in Snapshot /\ controller' \in RJobState
    <3>1. CASE GetGateway
      BY <2>2, <3>1 DEF GetGateway, Snapshot, TaskTypeOK
    <3>2. CASE GetController
      BY <2>2, <3>2 DEF GetController, TaskTypeOK
    <3> QED BY <1>12, <3>1, <3>2
  <2>4. TaskTypeOK' /\ AtWork'
    BY <1>12, <2>1, <2>3 DEF GetGateway, GetController, TaskTypeOK, AtWork, Resting, Labels
  <2> QED BY <1>1, <1>2, <1>3, <1>12, <2>4 DEF GetGateway, GetController
<1>13. CASE CleanupRead
  <2>1. closing' \in BOOLEAN
    BY <1>13 DEF CleanupRead, IsClosing
  <2>2. TaskTypeOK' /\ AtWork'
    BY <1>7, <1>13, <2>1 DEF CleanupRead, AfterController, TaskTypeOK, AtWork, Resting, Labels
  <2> QED BY <1>1, <1>2, <1>3, <1>13, <2>2 DEF CleanupRead
<1>14. ASSUME NEW r \in Roles, CreateOk(r) \/ CreateFails(r) PROVE TypeInv'
  <2>1. cur \in Jobs
    BY <1>7, <1>14 DEF CreateOk, CreateFails, Creating, Resting
  <2>2. TaskTypeOK' /\ AtWork'
    BY <1>5, <1>14, <2>1, ControlTypes DEF CreateOk, CreateFails
  <2>3. PlatformTypeOK' /\ UNCHANGED jobs
    BY <1>4, <1>14, <2>1 DEF CreateOk, CreateFails
  <2> QED BY <1>1, <1>3, <2>2, <2>3
<1>15. ASSUME NEW r \in Roles, StopOk(r) \/ StopFails(r) PROVE TypeInv'
  <2>1. cur \in Jobs
    BY <1>7, <1>15 DEF StopOk, StopFails, Stopping, Resting
  <2>2. TaskTypeOK' /\ AtWork'
    BY <1>5, <1>15, <2>1, ControlTypes DEF StopOk, StopFails, AfterController
  <2>3. PlatformTypeOK' /\ UNCHANGED jobs
    BY <1>4, <1>15, <2>1 DEF StopOk, StopFails
  <2> QED BY <1>1, <1>3, <2>2, <2>3
<1>16. ASSUME NEW r \in Roles, StopRaises(r) PROVE TypeInv'
  <2>1. cur \in Jobs
    BY <1>7, <1>16 DEF StopRaises, Stopping, Resting
  <2>2. TaskTypeOK' /\ AtWork'
    <3>1. CASE OtherRaised
      BY <2>1, <3>1, ControlTypes
    <3>2. CASE pc' = "dead" /\ ctx' = "reconcile" /\ todo' = {} /\ Forget
      <4>1. NoSnapshot \in Snapshot /\ "unknown" \in RJobState
        BY DEF NoSnapshot, Snapshot, RJobState
      <4> QED BY <3>2, <4>1 DEF Forget, TaskTypeOK, AtWork, Resting, Labels
    <3> QED BY <1>16, <3>1, <3>2 DEF StopRaises
  <2>3. PlatformTypeOK' /\ UNCHANGED jobs
    BY <1>4, <1>16, <2>1 DEF StopRaises
  <2> QED BY <1>1, <1>3, <2>2, <2>3
<1>17. CASE CallRaises
  <2>1. cur \in Jobs
    BY <1>7, <1>17 DEF CallRaises, Creating, Resting
  <2>2. TaskTypeOK' /\ AtWork'
    BY <1>17, <2>1, ControlTypes DEF CallRaises
  <2>3. PlatformTypeOK' /\ UNCHANGED jobs
    BY <1>4, <1>17, <2>1 DEF CallRaises
  <2> QED BY <1>1, <1>3, <2>2, <2>3
<1> QED
  BY <1>8, <1>9, <1>10, <1>11, <1>12, <1>13, <1>14, <1>15, <1>16, <1>17 DEF TaskStep

\* The API, the clock, the platform and the life of the process keep the types.
LEMMA EnvironmentTypes ==
  ASSUME TypeInv, Environment
  PROVE  TypeInv'
<1> USE DEF TypeInv, TypeOK
<1>1. ASSUME UNCHANGED task PROVE TaskTypeOK' /\ AtWork'
  BY <1>1 DEF task, TaskTypeOK, AtWork
<1>2. ASSUME UNCHANGED rjobs PROVE PlatformTypeOK'
  BY <1>2 DEF PlatformTypeOK
<1>3. ASSUME NEW j \in Jobs, CreateJob(j) \/ CloseJob(j) PROVE TypeInv'
  <2>1. NewControlJob \in Row /\ Closed(jobs[j]) \in Row
    BY NewRowType, RowTypes
  <2>2. jobs' \in [Jobs -> Row]
    BY <1>3, <2>1 DEF CreateJob, CloseJob
  <2> QED BY <1>1, <1>2, <1>3, <2>2 DEF CreateJob, CloseJob
<1>4. ASSUME NEW j \in Jobs, NEW r \in Roles, Deadline(j, r) PROVE TypeInv'
  BY <1>1, <1>2, <1>4 DEF Deadline
<1>5. ASSUME NEW j \in Jobs, NEW r \in Roles, PlatformStep(j, r),
             UNCHANGED <<jobs, late, task, crashes>>
      PROVE  TypeInv'
  <2>1. \A s \in PlatformState : Become(j, r, s) \in [Jobs -> [Roles -> PlatformState]]
    BY PlatformTypes
  <2>2. {"running", "succeeded", "failed", "absent"} \subseteq PlatformState
    BY DEF PlatformState
  <2>3. rjobs' \in [Jobs -> [Roles -> PlatformState]]
    BY <1>5, <2>1, <2>2 DEF PlatformStep, WorkloadStarts, WorkloadSucceeds, WorkloadFails,
         WorkloadReaped, WorkloadVanishes
  <2> QED BY <1>1, <1>5, <2>3 DEF PlatformTypeOK
<1>6. CASE Crash
  <2>1. NoSnapshot \in Snapshot /\ "unknown" \in RJobState
    BY DEF NoSnapshot, Snapshot, RJobState
  <2>2. TaskTypeOK' /\ AtWork'
    BY <1>6, <2>1 DEF Crash, Forget, TaskTypeOK, AtWork, Resting, Labels
  <2>3. crashes' \in 0..MaxCrashes
    BY <1>6, ConstantsAssumption DEF Crash
  <2>4. PlatformTypeOK'
    <3>1. CASE UNCHANGED rjobs
      BY <1>2, <3>1
    <3>2. ASSUME NEW r \in Roles, \/ Creating(r) /\ rjobs' = AfterCreate(cur, r)
                                  \/ Stopping(r) /\ rjobs' = AfterStop(cur, r)
          PROVE  PlatformTypeOK'
      <4>1. cur \in Jobs
        BY <3>2 DEF Creating, Stopping, AtWork, Resting
      <4>2. /\ AfterCreate(cur, r) \in [Jobs -> [Roles -> PlatformState]]
            /\ AfterStop(cur, r) \in [Jobs -> [Roles -> PlatformState]]
        BY <4>1, PlatformTypes
      <4> QED BY <3>2, <4>2 DEF PlatformTypeOK
    <3> QED BY <1>6, <3>1, <3>2 DEF Crash
  <2> QED BY <1>6, <2>2, <2>3, <2>4 DEF Crash
<1>7. CASE Restart
  <2>1. TaskTypeOK' /\ AtWork'
    BY <1>7 DEF Restart, locals, TaskTypeOK, AtWork, Resting, Labels
  <2> QED BY <1>2, <1>7, <2>1 DEF Restart
<1> QED BY <1>3, <1>4, <1>5, <1>6, <1>7 DEF Environment

\* No step of the system breaks a type.
LEMMA TypeStep == TypeInv /\ [Next]_vars => TypeInv'
<1>1. ASSUME TypeInv, UNCHANGED vars PROVE TypeInv'
  BY <1>1 DEF vars, task, TypeInv, TypeOK, PlatformTypeOK, TaskTypeOK, AtWork
<1> QED BY <1>1, TaskStepTypes, EnvironmentTypes DEF Next

\* Type correctness: the table, the platform, the deadlines and every local of the task
\* keep their types, and the task has a current Job wherever its code uses one.
THEOREM TypeCorrect == Spec => []TypeOK
<1>1. Spec => []TypeInv
  BY TypeInit, TypeStep, PTL DEF Spec
<1>2. TypeInv => TypeOK
  BY DEF TypeInv
<1> QED BY <1>1, <1>2, PTL
=============================================================================
