---------------------------- MODULE SessionProofs ----------------------------
(***************************************************************************)
(* The session queries, for every set of Jobs, sessions and clients, with  *)
(* every fault and number of crashes of the server they are asked of: what *)
(* an answer says stays backed by both systems it was joined from.         *)
(***************************************************************************)
EXTENDS SessionQuery, StepProofs

USE DEF Roles

systemVars == <<vars, sessionVars>>

-----------------------------------------------------------------------------
(* The server below the queries.                                           *)
\* Every step is one of the server's or leaves it alone.
LEMMA ServerMoves == [SessionNext]_systemVars => [Next]_vars
  BY DEF SessionNext, ServerStep, RowsLand, FileWritten, Ask, Answer, QueryResult, ReadArtifact,
     ReadMilestones, MilestonesMissing, ListSessions, RequestFails, systemVars, sessionVars

\* What is proved of the server without its queries holds with them.
LEMMA ServerInv == SessionSpec => []IInv
<1>1. SessionInit => Init
  BY DEF SessionInit
<1>2. SessionSpec => Spec
  BY <1>1, ServerMoves, PTL DEF SessionSpec, Spec, systemVars
<1> QED BY <1>2, Inductive, PTL

\* A status only ever moves on, an ending is final, and a binding is kept.
LEMMA StatusMoves ==
  ASSUME IInv, [Next]_vars, NEW j \in Jobs
  PROVE  /\ jobs[j].status \in Terminal => jobs'[j].status = jobs[j].status
         /\ jobs[j].status \notin {"absent", "queued", "preparing"} =>
              jobs'[j].status \notin {"absent", "queued", "preparing"}
         /\ jobs[j].status # "absent" => jobs'[j].status # "absent"
         /\ jobs[j].bound => jobs'[j].bound
<1>1. jobs'[j] = jobs[j] \/ MayBecome(jobs[j], jobs'[j])
  BY StepMovesRow DEF RowMoved, IInv, TypeInv, TypeOK
<1>2. RowOK(jobs[j])
  BY DEF IInv, RowsInv, RowConsistent
<1> QED BY <1>1, <1>2 DEF MayBecome, FollowsLife, RowOK, Terminal, Active

\* A success of the controller is recorded where it was observed, with the id recorded.
LEMMA SuccessIsSeen ==
  ASSUME IInv, [Next]_vars, NEW j \in Jobs, jobs'[j].seen["controller"] = "succeeded"
  PROVE  \/ /\ jobs[j].seen["controller"] = "succeeded"
            /\ "controller" \in jobs[j].ids => "controller" \in jobs'[j].ids
         \/ /\ pc = "record_controller" /\ cur = j /\ controller = "succeeded"
            /\ "controller" \in jobs'[j].ids
<1>1. jobs \in [Jobs -> Row]
  BY DEF IInv, TypeInv, TypeOK
<1>2. CASE jobs'[j] = jobs[j]
  BY <1>2
<1>3. ASSUME jobs'[j] # jobs[j], TaskStep,
             \/ Prepare \/ RecordBinding \/ SaveGateway \/ SaveController
             \/ SaveControllerLate \/ RecordGatewayStatus \/ RecordUnready \/ RecordUrl
             \/ RecordControllerStatus \/ RecordSuccess \/ FailUpdate
             \/ KeepWorkloads \/ CleanupDone
      PROVE  \/ /\ jobs[j].seen["controller"] = "succeeded"
                /\ "controller" \in jobs[j].ids => "controller" \in jobs'[j].ids
             \/ /\ pc = "record_controller" /\ cur = j /\ controller = "succeeded"
                /\ "controller" \in jobs'[j].ids
  <2>1. cur = j /\ pc \notin Resting
    BY <1>1, <1>3 DEF Store, Guarded, Resting, Prepare, RecordBinding, SaveGateway,
       SaveController, SaveControllerLate, RecordGatewayStatus, RecordUnready, RecordUrl,
       RecordControllerStatus, RecordSuccess, FailUpdate, KeepWorkloads, CleanupDone
  <2>2. Current \in Row /\ Current = jobs[j] /\ AtLabel(pc, Current)
    BY <1>1, <2>1, AtAwait DEF Current
  <2>3. \A row : Store(row) => jobs'[j] = row
    BY <1>1, <2>1 DEF Store
  <2>4. CASE RecordControllerStatus
    <3>1. "controller" \in jobs[j].ids /\ pc = "record_controller"
      BY <2>2, <2>4 DEF RecordControllerStatus, AtLabel
    <3>2. jobs'[j] = [Current EXCEPT !.seen["controller"] = controller]
      BY <2>3, <2>4 DEF RecordControllerStatus
    <3>3. controller = "succeeded" /\ jobs'[j].ids = jobs[j].ids
      BY <2>2, <3>2 DEF Row
    <3> QED BY <2>1, <3>1, <3>3
  <2>5. CASE SaveController \/ SaveControllerLate
    <3>1. \E row \in Row : jobs'[j] = WithId(row, "controller")
      <4>1. Move(Current, "running", "running_safactory") \in Row
        BY <2>2, RowTypes DEF Status, Active, Phase
      <4> QED BY <1>3, <2>2, <2>3, <2>5, <4>1 DEF SaveController, SaveControllerLate, Guarded
    <3> QED BY <3>1 DEF WithId, Row
  <2>6. CASE SaveGateway
    <3>1. \E row \in Row : /\ row.seen = Current.seen /\ row.ids = Current.ids
                          /\ jobs'[j] = WithId(row, "gateway")
      <4>1. Note(Current, "waiting_gateway_address") \in Row
        BY <2>2, RowTypes DEF Phase
      <4>2. /\ Note(Current, "waiting_gateway_address").seen = Current.seen
            /\ Note(Current, "waiting_gateway_address").ids = Current.ids
        BY <2>2 DEF Note, Move, Row
      <4> QED BY <2>3, <2>6, <4>1, <4>2 DEF SaveGateway
    <3> QED BY <2>2, <3>1 DEF WithId, Row
  <2>7. CASE RecordGatewayStatus
    BY <2>2, <2>3, <2>7 DEF RecordGatewayStatus, Row
  <2>8. CASE \/ Prepare \/ RecordBinding \/ RecordUnready \/ RecordUrl
             \/ RecordSuccess \/ FailUpdate \/ KeepWorkloads \/ CleanupDone
    <3>1. \E row : /\ row.seen = Current.seen /\ row.ids = Current.ids /\ jobs'[j] = row
      BY <1>3, <2>2, <2>3, <2>8 DEF Prepare, RecordBinding, RecordUnready, RecordUrl,
         RecordSuccess, FailUpdate, KeepWorkloads, CleanupDone, Guarded, Note, Move, Row
    <3> QED BY <2>2, <3>1
  <2> QED BY <1>3, <2>4, <2>5, <2>6, <2>7, <2>8
<1>4. ASSUME NEW i \in Jobs, CreateJob(i) \/ CloseJob(i)
      PROVE  /\ jobs[j].seen["controller"] = "succeeded"
             /\ "controller" \in jobs[j].ids => "controller" \in jobs'[j].ids
  <2>1. CASE jobs'[j] = NewControlJob
    BY <2>1, ConstantsAssumption DEF NewControlJob, RJobState
  <2>2. CASE jobs'[j] = Closed(jobs[j])
    BY <1>1, <2>2 DEF Closed, Row
  <2>3. CASE jobs'[j] = jobs[j]
    BY <2>3
  <2> QED BY <1>1, <1>4, <2>1, <2>2, <2>3 DEF CreateJob, CloseJob
<1> QED
  BY <1>2, <1>3, <1>4
     DEF Next, vars, Environment, Deadline, Crash, Restart, TaskStep, ListActive,
         ListCleanupPending, EndPass, BeginReconcile, BeginCleanup, BindFiles, BindFails,
         ReadRow, CreateOk, CreateFails, GetFails, CallRaises, GetGateway, ProbeHealth,
         OnHealthy, OnUnhealthy, Reread, GetController, HandleDependencyError, FailRead,
         CleanupRead, StopOk, StopFails, StopRaises

-----------------------------------------------------------------------------
(* The episodes.                                                           *)
Over == {"failed", "succeeded"}

\* get_result of the data platform only moves on.
DataMoves(old, new) ==
  /\ old # "absent" => new # "absent"
  /\ old \in Over => new \in Over
  /\ old = "succeeded" => new = "succeeded"

\* What the data platform says of a session, in the order it may come to say it.
LEMMA DataValues ==
  /\ {Data[n] : n \in 1..4} = {"absent", "running"} \cup Over
  /\ DataRank("absent") = 1 /\ DataRank("running") = 2
  /\ DataRank("failed") = 3 /\ DataRank("succeeded") = 4
<1>1. /\ Data[1] = "absent" /\ Data[2] = "running"
      /\ Data[3] = "failed" /\ Data[4] = "succeeded"
  BY DEF Data
<1>2. 1..4 = {1, 2, 3, 4}
  OBVIOUS
<1> HIDE DEF Data
<1>3. {Data[n] : n \in 1..4} = {"absent", "running"} \cup Over
  BY <1>1, <1>2 DEF Over
<1>4. ASSUME NEW d, NEW k \in 1..4, \A n \in 1..4 : Data[n] = d <=> n = k
      PROVE  DataRank(d) = k
  BY <1>4 DEF DataRank
<1>5. \A n \in 1..4 : Data[n] = "absent" <=> n = 1
  BY <1>1, <1>2
<1>6. \A n \in 1..4 : Data[n] = "running" <=> n = 2
  BY <1>1, <1>2
<1>7. \A n \in 1..4 : Data[n] = "failed" <=> n = 3
  BY <1>1, <1>2
<1>8. \A n \in 1..4 : Data[n] = "succeeded" <=> n = 4
  BY <1>1, <1>2
<1> QED BY <1>3, <1>4, <1>5, <1>6, <1>7, <1>8

\* The controller of a Job ended with success: no episode is under way, none will be.
Ended(j) == Completed(j) /\ ~Live(j, "controller")

EndInv ==
  /\ \A j \in Jobs : rjobs[j]["controller"] = "succeeded" => Completed(j)
  /\ pc = "record_controller" /\ controller = "succeeded" => Ended(cur)
  /\ \A j \in Jobs : jobs[j].seen["controller"] = "succeeded" =>
       "controller" \in jobs[j].ids /\ Ended(j)

\* What the platform says of a session only moves on.
LEMMA LandedMoves ==
  ASSUME SessionTypeOK, [SessionNext]_systemVars, NEW j \in Jobs, NEW s \in Sessions
  PROVE  DataMoves(landed[j][s], landed'[j][s])
<1>1. CASE landed' = landed
  BY <1>1 DEF DataMoves
<1>2. ASSUME NEW i \in Jobs, NEW t \in Sessions, RowsLand(i, t)
      PROVE  DataMoves(landed[j][s], landed'[j][s])
  <2>1. PICK d \in {"absent", "running"} \cup Over :
          /\ DataRank(d) > DataRank(landed[i][t])
          /\ landed' = [landed EXCEPT ![i][t] = d]
    BY <1>2, DataValues DEF RowsLand
  <2>2. landed[i][t] \in {"absent", "running"} \cup Over
    BY DataValues DEF SessionTypeOK
  <2>3. landed'[j][s] = IF j = i /\ s = t THEN d ELSE landed[j][s]
    BY <2>1 DEF SessionTypeOK
  <2> QED BY <2>1, <2>2, <2>3, DataValues DEF DataMoves, Over
<1> QED
  BY <1>1, <1>2
     DEF SessionNext, ServerStep, FileWritten, Ask, Answer, QueryResult, ReadArtifact,
         ReadMilestones, MilestonesMissing, ListSessions, RequestFails, systemVars, sessionVars

\* A completed Job stays so.
LEMMA CompletedStays ==
  ASSUME SessionTypeOK, [SessionNext]_systemVars, NEW j \in Jobs, Completed(j)
  PROVE  Completed(j)'
  BY LandedMoves DEF Completed, DataMoves, Over

\* A workload that is not live comes back by a submission only, and ends with success by
\* itself only.
LEMMA WorkloadStays ==
  ASSUME IInv, [Next]_vars, NEW j \in Jobs, NEW r \in Roles
  PROVE  /\ Live(j, r)' => Live(j, r) \/ Submitted(j, r)
         /\ rjobs'[j][r] = "succeeded" => rjobs[j][r] \in {"running", "succeeded"}
<1>1. PlatformTypeOK
  BY DEF IInv, TypeInv, TypeOK
<1>2. CASE UNCHANGED rjobs
  BY <1>2 DEF Live
<1>3. ASSUME NEW q \in Roles, Submits(q) \/ Deletes(q)
      PROVE  /\ Live(j, r)' => Live(j, r) \/ Submitted(j, r)
             /\ rjobs'[j][r] = "succeeded" => rjobs[j][r] = "succeeded"
  <2>1. cur \in Jobs
    BY <1>3 DEF Submits, Deletes, Creating, Stopping, IInv, TypeInv, AtWork, Resting
  <2>2. \/ rjobs'[j][r] = AfterCreate(cur, q)[j][r]
        \/ rjobs'[j][r] = AfterStop(cur, q)[j][r]
        \/ rjobs'[j][r] = AfterHalfStop(cur, q)[j][r]
    BY <1>3 DEF Submits, Deletes
  <2> QED BY <1>1, <2>1, <2>2, WorkloadMoves DEF Submitted, Live
<1>4. ASSUME NEW c \in Jobs, NEW q \in Roles, PlatformStep(c, q)
      PROVE  /\ Live(j, r)' => Live(j, r)
             /\ rjobs'[j][r] = "succeeded" => rjobs[j][r] \in {"running", "succeeded"}
  <2>1. Live(j, r)' => Live(j, r)
    BY <1>1, <1>4, PlatformAlone
  <2>2. rjobs'[j][r] = "succeeded" => rjobs[j][r] \in {"running", "succeeded"}
    BY <1>1, <1>4 DEF PlatformStep, WorkloadStarts, WorkloadSucceeds, WorkloadFails,
       WorkloadReaped, WorkloadVanishes, Become, PlatformTypeOK
  <2> QED BY <2>1, <2>2
<1> QED BY <1>2, <1>3, <1>4, PlatformMoves

\* An end of the controller is one for good once its id is on record.
LEMMA EndedStays ==
  ASSUME IInv, SessionTypeOK, [SessionNext]_systemVars, NEW j \in Jobs, Ended(j),
         "controller" \in jobs[j].ids
  PROVE  Ended(j)'
<1>1. ~Submitted(j, "controller")
  <2>1. Submitted(j, "controller") => Creating("controller") /\ cur = j
    BY ServerMoves, WhoSubmitsAndDeletes
  <2>2. Creating("controller") => "controller" \notin Current.ids
    BY AtCreate
  <2> QED BY <2>1, <2>2 DEF Current
<1>2. ~Live(j, "controller")'
  BY <1>1, ServerMoves, WorkloadStays DEF Ended
<1> QED BY <1>2, CompletedStays DEF Ended

\* Where the task reads the controller's state.
LEMMA ControllerRead ==
  ASSUME [Next]_vars, pc' = "record_controller"
  PROVE  \/ pc = "record_controller" /\ UNCHANGED <<cur, controller>>
         \/ GetController
<1>1. CASE UNCHANGED task
  BY <1>1 DEF task
<1>2. CASE TaskStep
  BY <1>2 DEF TaskStep, ListActive, ListCleanupPending, EndPass, BeginReconcile, BeginCleanup,
     Prepare, BindFiles, BindFails, RecordBinding, ReadRow, CreateOk, CreateFails, SaveGateway,
     SaveController, SaveControllerLate, GetFails, CallRaises, GetGateway, RecordGatewayStatus,
     ProbeHealth, OnHealthy, OnUnhealthy, RecordUnready, RecordUrl, Reread,
     RecordControllerStatus, RecordSuccess, HandleDependencyError, FailRead, FailUpdate,
     CleanupRead, KeepWorkloads, CleanupDone, StopOk, StopFails, StopRaises,
     Goto, Return, Fail, DependencyRaised, OtherRaised, Guarded, ToController, AfterController
<1>3. CASE Crash \/ Restart
  BY <1>3 DEF Crash, Restart
<1> QED
  BY <1>1, <1>2, <1>3 DEF Next, vars, Environment, CreateJob, CloseJob, Deadline

\* A controller succeeds, and is seen to, once every session has completed, and none of them
\* is undone later.
LEMMA EndNext ==
  ASSUME IInv, SessionTypeOK, EndInv, [SessionNext]_systemVars
  PROVE  EndInv'
<1> USE ServerMoves
<1>1. ASSUME NEW j \in Jobs, rjobs'[j]["controller"] = "succeeded"
      PROVE  Completed(j)'
  <2>1. CASE rjobs[j]["controller"] = "succeeded"
    BY <2>1, CompletedStays DEF EndInv
  <2>2. CASE rjobs[j]["controller"] = "running"
    <3>1. Completed(j)
      BY <1>1, <2>2
         DEF SessionNext, ServerStep, RowsLand, FileWritten, Ask, Answer, QueryResult,
             ReadArtifact, ReadMilestones, MilestonesMissing, ListSessions, RequestFails,
             systemVars, vars
    <3> QED BY <3>1, CompletedStays
  <2> QED BY <1>1, <2>1, <2>2, WorkloadStays
<1>2. ASSUME pc' = "record_controller", controller' = "succeeded"
      PROVE  Ended(cur)'
  <2>1. CASE pc = "record_controller" /\ UNCHANGED <<cur, controller>>
    <3>1. cur \in Jobs /\ "controller" \in Current.ids
      BY <2>1, AtAwait DEF Resting, AtLabel
    <3>2. Ended(cur) /\ cur' = cur
      BY <1>2, <2>1 DEF EndInv
    <3> QED BY <3>1, <3>2, EndedStays DEF Current, Ended, Completed, Live
  <2>2. CASE GetController
    <3>1. cur \in Jobs /\ "controller" \in Current.ids /\ cur' = cur
      BY <2>2, AtAwait DEF Resting, AtLabel, GetController
    <3>2. rjobs[cur]["controller"] = "succeeded"
      BY <1>2, <2>2 DEF GetController, Observed
    <3>3. Ended(cur)
      BY <3>1, <3>2 DEF EndInv, Ended, Live
    <3> QED BY <3>1, <3>3, EndedStays DEF Current, Ended, Completed, Live
  <2> QED BY <1>2, <2>1, <2>2, ControllerRead
<1>3. ASSUME NEW j \in Jobs, jobs'[j].seen["controller"] = "succeeded"
      PROVE  "controller" \in jobs'[j].ids /\ Ended(j)'
  <2>1. CASE jobs[j].seen["controller"] = "succeeded"
    BY <1>3, <2>1, EndedStays, SuccessIsSeen DEF EndInv
  <2>2. CASE /\ pc = "record_controller" /\ cur = j /\ controller = "succeeded"
             /\ "controller" \in jobs'[j].ids
    <3>1. "controller" \in jobs[j].ids
      BY <2>2, AtAwait DEF Resting, AtLabel, Current
    <3> QED BY <2>2, <3>1, EndedStays DEF EndInv
  <2> QED BY <1>3, <2>1, <2>2, SuccessIsSeen
<1> QED BY <1>1, <1>2, <1>3 DEF EndInv

\* Once a success is on record nothing of the Job's sessions moves any more.
LEMMA NothingMoves ==
  ASSUME IInv, EndInv, NEW j \in Jobs, jobs[j].status = "succeeded", NEW s \in Sessions
  PROVE  /\ ~EpisodeActive(j, s) /\ landed[j][s] \in Over
         /\ jobs[j].bound
<1>1. RowOK(jobs[j])
  BY DEF IInv, RowsInv, RowConsistent
<1>2. jobs[j].seen["controller"] = "succeeded"
  BY <1>1 DEF RowOK
<1>3. "controller" \in jobs[j].ids /\ Ended(j)
  BY <1>2 DEF EndInv
<1> QED
  BY <1>1, <1>2, <1>3 DEF RowOK, Ended, Completed, Over, EpisodeActive, Executing, Live

-----------------------------------------------------------------------------
(* What the answers rest on.                                               *)
Early == {"absent", "queued", "preparing"}

\* A result, by the data of its session and the status of its Job.
ResultBacked(r, data, status) ==
  /\ r # "SESSION_RESULT_INCOMPLETE"
  /\ r \in Results => data # "absent"
  /\ r = "running" => status \notin Early
  /\ r \in Finals \ {"succeeded"} => data \in Over \/ status \in {"failed", "closed"}
  /\ r = "succeeded" => data = "succeeded"

\* What was said of the milestones, by all three.
MilestonesBacked(m, data, row, file) ==
  /\ m = "pending" => data # "absent"
  /\ m \in Missing => data # "absent" /\ row.status \in Terminal
  /\ m = "succeeded" => row.status = "succeeded" /\ ~file
  /\ m = "available" => row.bound /\ file

HasFile(j, s) == "milestones" \in files[j][s]

AnswerBacked(answer, j, s) ==
  /\ ResultBacked(answer.result, landed[j][s], jobs[j].status)
  /\ MilestonesBacked(answer.milestones, landed[j][s], jobs[j], HasFile(j, s))
  /\ s \in answer.listed => landed[j][s] # "absent"

\* The row a request read, and the row as it is now.
RowRead(row) ==
  /\ asked.status # "absent"
  /\ asked.status \in Terminal => row.status = asked.status
  /\ asked.status \notin Early => row.status \notin Early
  /\ asked.bound => row.bound
  /\ asked.status = "succeeded" => asked.bound

\* The row a request read is no older than the one the last answers went by.
ReadSince(answer, data) ==
  /\ answer.result = "running" => asked.status \notin Early
  /\ answer.result \in Finals \ {"succeeded"} =>
       data \in Over \/ asked.status \in {"failed", "closed"}
  /\ answer.milestones \in Missing => asked.status \in Terminal
  /\ answer.milestones = "available" => asked.bound

\* The half of an answer a request has between its reads.
HalfRead(answer, data, row, file) ==
  /\ asked.at = "artifact" =>
       /\ asked.kind = "result" /\ asked.result \in Results
       /\ ResultBacked(asked.result, data, row.status)
       /\ ResultRank(answer.result) <= ResultRank(asked.result)
  /\ asked.at = "sessions" =>
       /\ asked.kind = "milestones" /\ answer.milestones # "available"
       /\ asked.status = "succeeded" => ~file

AskedBacked(j, s) ==
  /\ RowRead(jobs[j])
  /\ ReadSince(told[j][s], landed[j][s])
  /\ HalfRead(told[j][s], landed[j][s], jobs[j], HasFile(j, s))

SayInv ==
  /\ \A j \in Jobs, s \in Sessions : AnswerBacked(told[j][s], j, s)
  /\ asked # NotAsking => AskedBacked(asked.job, asked.session)

SessionInv == SessionTypeOK /\ EndInv /\ SayInv

\* The strings are what they are; a request under way has all its parts.
LEMMA AskedTypes ==
  ASSUME SessionTypeOK
  PROVE  /\ client \subseteq {"sessions", "result", "milestones"}
         /\ asked # NotAsking =>
              asked \in [kind : client, at : {"data", "artifact", "sessions"}, job : Jobs,
                         session : Sessions, status : Status, bound : BOOLEAN,
                         result : Results \cup {None}]
         /\ asked.kind \in {"sessions", "result", "milestones"} => asked # NotAsking
<1>1. client \subseteq {"sessions", "result", "milestones"}
  BY SessionAssumption DEF SessionTypeOK
<1>2. asked # NotAsking =>
        asked \in [kind : client, at : {"data", "artifact", "sessions"}, job : Jobs,
                   session : Sessions, status : Status, bound : BOOLEAN,
                   result : Results \cup {None}]
  BY DEF SessionTypeOK, Request
<1>3. asked.kind \in {"sessions", "result", "milestones"} => asked # NotAsking
  BY DEF NotAsking
<1> QED BY <1>1, <1>2, <1>3

\* An answer about the session asked for replaces the last one, and no other.
LEMMA Tells ==
  ASSUME SessionTypeOK, asked # NotAsking, NEW answer \in Answers, Tell(answer)
  PROVE  /\ told' \in [Jobs -> [Sessions -> Answers]]
         /\ \A j \in Jobs, s \in Sessions :
              told'[j][s] = IF j = asked.job /\ s = asked.session THEN answer ELSE told[j][s]
         /\ asked' = NotAsking
<1>1. asked.job \in Jobs /\ asked.session \in Sessions
  BY AskedTypes
<1> QED BY <1>1 DEF Tell, SessionTypeOK

\* The answers are of the types the API declares.
LEMMA AnswerTypes ==
  ASSUME SessionTypeOK, asked # NotAsking
  PROVE  /\ Last \in Answers
         /\ \A r \in Results \cup {"SESSION_NOT_FOUND"} :
              [Last EXCEPT !.result = r] \in Answers
         /\ \A m \in {"available", "pending", "SESSION_NOT_FOUND"} \cup Missing :
              [Last EXCEPT !.milestones = m] \in Answers
         /\ \A e \in BOOLEAN, l \in SUBSET Sessions :
              [Last EXCEPT !.ended = e, !.listed = l] \in Answers
<1>1. asked.job \in Jobs /\ asked.session \in Sessions
  BY AskedTypes
<1>2. Last \in Answers
  BY <1>1 DEF Last, SessionTypeOK
<1> QED BY <1>2 DEF Answers

-----------------------------------------------------------------------------
(* The steps.                                                              *)
\* The world moves on below an answer: nothing it rests on is taken back.
LEMMA WorldMoves ==
  ASSUME IInv, SessionTypeOK, EndInv, [SessionNext]_systemVars,
         NEW j \in Jobs, NEW s \in Sessions
  PROVE  /\ DataMoves(landed[j][s], landed'[j][s])
         /\ HasFile(j, s) => HasFile(j, s)'
         /\ jobs[j].status = "succeeded" => (HasFile(j, s)' <=> HasFile(j, s))
         /\ jobs[j].status \in Terminal => jobs'[j].status = jobs[j].status
         /\ jobs[j].status \notin Early => jobs'[j].status \notin Early
         /\ jobs[j].bound => jobs'[j].bound
<1>1. DataMoves(landed[j][s], landed'[j][s])
  BY LandedMoves
<1>2. /\ HasFile(j, s) => HasFile(j, s)'
      /\ jobs[j].status = "succeeded" => (HasFile(j, s)' <=> HasFile(j, s))
  <2>1. CASE files' = files
    BY <2>1 DEF HasFile
  <2>2. ASSUME NEW i \in Jobs, NEW t \in Sessions, FileWritten(i, t)
        PROVE  /\ HasFile(j, s) => HasFile(j, s)'
               /\ jobs[j].status = "succeeded" => (HasFile(j, s)' <=> HasFile(j, s))
    <3>1. files'[j][s] = IF j = i /\ s = t THEN files[j][s] \cup {"milestones"}
                         ELSE files[j][s]
      BY <2>2 DEF FileWritten, SessionTypeOK
    <3>2. EpisodeActive(i, t)
      BY <2>2 DEF FileWritten
    <3> QED BY <3>1, <3>2, NothingMoves DEF HasFile
  <2> QED
    BY <2>1, <2>2
       DEF SessionNext, ServerStep, RowsLand, Ask, Answer, QueryResult, ReadArtifact,
           ReadMilestones, MilestonesMissing, ListSessions, RequestFails, systemVars,
           sessionVars
<1> QED BY <1>1, <1>2, ServerMoves, StatusMoves DEF Early

\* What was told stays backed.
LEMMA ToldStays ==
  ASSUME IInv, SessionTypeOK, EndInv, [SessionNext]_systemVars,
         NEW j \in Jobs, NEW s \in Sessions, AnswerBacked(told[j][s], j, s),
         told'[j][s] = told[j][s]
  PROVE  AnswerBacked(told[j][s], j, s)'
<1>1. ResultBacked(told[j][s].result, landed'[j][s], jobs'[j].status)
  BY WorldMoves DEF AnswerBacked, ResultBacked, DataMoves, Terminal
<1>2. MilestonesBacked(told[j][s].milestones, landed'[j][s], jobs'[j], HasFile(j, s)')
  BY WorldMoves DEF AnswerBacked, MilestonesBacked, DataMoves, Terminal
<1>3. s \in told[j][s].listed => landed'[j][s] # "absent"
  BY WorldMoves DEF AnswerBacked, DataMoves
<1> QED BY <1>1, <1>2, <1>3 DEF AnswerBacked, HasFile

\* So does what a request under way has read.
LEMMA AskedStays ==
  ASSUME IInv, SessionTypeOK, EndInv, [SessionNext]_systemVars, asked # NotAsking,
         AskedBacked(asked.job, asked.session), asked' = asked, told' = told
  PROVE  AskedBacked(asked.job, asked.session)'
<1>1. asked.job \in Jobs /\ asked.session \in Sessions
  BY AskedTypes
<1> PICK j \in Jobs, s \in Sessions : j = asked.job /\ s = asked.session
  BY <1>1
<1>2. RowRead(jobs'[j])
  BY WorldMoves DEF AskedBacked, RowRead
<1>3. ReadSince(told[j][s], landed'[j][s])
  BY WorldMoves DEF AskedBacked, ReadSince, DataMoves
<1>4. ResultBacked(asked.result, landed[j][s], jobs[j].status) =>
        ResultBacked(asked.result, landed'[j][s], jobs'[j].status)
  BY WorldMoves DEF ResultBacked, DataMoves, Terminal
<1>5. asked.status = "succeeded" => (HasFile(j, s)' <=> HasFile(j, s))
  <2>1. asked.status = "succeeded" => jobs[j].status = "succeeded"
    BY DEF AskedBacked, RowRead, Terminal
  <2> QED BY <2>1, WorldMoves
<1>6. HalfRead(told[j][s], landed'[j][s], jobs'[j], HasFile(j, s)')
  BY <1>4, <1>5 DEF AskedBacked, HalfRead
<1> QED BY <1>2, <1>3, <1>6 DEF AskedBacked, RowRead, ReadSince, HalfRead, HasFile

-----------------------------------------------------------------------------
(* The answers.                                                            *)
LEMMA Ranks ==
  /\ ResultRank("pending") = 1 /\ ResultRank("running") = 2
  /\ ResultRank("succeeded") = 4
  /\ \A r \in Finals \ {"succeeded"} : ResultRank(r) = 3
  /\ \A r : r \notin Results => ResultRank(r) = 0
  /\ MilestoneRank("pending") = 1 /\ MilestoneRank("available") = 3
  /\ \A m \in Missing : MilestoneRank(m) = 2
  /\ \A m : m \notin Missing \cup {"pending", "available"} => MilestoneRank(m) = 0
  BY DEF ResultRank, MilestoneRank, Results, Finals, Missing

\* What an answer may do to the last one.
Advances(old, new, s) ==
  /\ ResultRank(old.result) <= ResultRank(new.result)
  /\ MilestoneRank(old.milestones) <= MilestoneRank(new.milestones)
  /\ s \in old.listed =>
       /\ s \in new.listed
       /\ new.result = "SESSION_NOT_FOUND" => old.result = "SESSION_NOT_FOUND"

\* A request ends with an answer that is backed and that takes nothing back.
Told ==
  \E answer \in Answers : /\ Tell(answer)
                          /\ AnswerBacked(answer, asked.job, asked.session)
                          /\ Advances(Last, answer, asked.session)

\* The two reads together: a row no older than the last answer, and data newer than it.
LEMMA ReconciledIsBacked ==
  ASSUME IInv, SessionInv, asked # NotAsking,
         NEW d, d = landed[asked.job][asked.session], d # "absent"
  PROVE  LET r == Reconciled(d, asked.status)
         IN  /\ r \in Results
             /\ ResultBacked(r, d, jobs[asked.job].status)
             /\ ResultRank(Last.result) <= ResultRank(r)
<1> PICK j \in Jobs, s \in Sessions : j = asked.job /\ s = asked.session
  BY AskedTypes DEF SessionInv
<1> DEFINE r == Reconciled(d, asked.status)
<1>1. d \in {"running"} \cup Over
  BY DataValues DEF SessionInv, SessionTypeOK
<1>2. asked.status \in Status \ {"absent"} /\ RowRead(jobs[j])
  BY AskedTypes DEF SessionInv, SayInv, AskedBacked, RowRead
<1>3. asked.status = "succeeded" => d \in Over
  BY <1>2, NothingMoves DEF SessionInv, RowRead, Terminal
<1>4. r \in Results /\ ResultBacked(r, d, jobs[j].status)
  BY <1>1, <1>2, <1>3
     DEF Reconciled, ResultBacked, RowRead, Results, Finals, Over, Status, Active, Terminal,
         Early
<1>5. ResultRank(Last.result) <= ResultRank(r)
  <2>1. ResultBacked(Last.result, d, jobs[j].status) /\ ReadSince(Last, d)
    BY DEF SessionInv, SayInv, AnswerBacked, AskedBacked, Last
  <2>2. CASE Last.result \notin Results
    BY <1>4, <2>2, Ranks DEF Results
  <2>3. CASE Last.result = "pending"
    BY <1>4, <2>3, Ranks DEF Results
  <2>4. CASE Last.result = "running"
    BY <1>1, <1>2, <2>1, <2>4, Ranks
       DEF ReadSince, Reconciled, Over, Finals, Status, Active, Terminal, Early
  <2>5. CASE Last.result \in Finals \ {"succeeded"}
    BY <1>1, <1>2, <2>1, <2>5, Ranks
       DEF ReadSince, Reconciled, Over, Finals, Status, Active, Terminal, Early
  <2>6. CASE Last.result = "succeeded"
    BY <2>1, <2>6, Ranks DEF ResultBacked, Reconciled
  <2> QED BY <2>2, <2>3, <2>4, <2>5, <2>6 DEF Results
<1> QED BY <1>4, <1>5

\* Every rank is a number.
LEMMA MilestoneRanks ==
  ASSUME NEW m
  PROVE  MilestoneRank(m) \in Nat
  BY DEF MilestoneRank

\* A result that is backed and no step back may be told.
LEMMA ResultTold ==
  ASSUME SessionInv, asked # NotAsking, NEW r \in Results,
         ResultBacked(r, landed[asked.job][asked.session], jobs[asked.job].status),
         ResultRank(Last.result) <= ResultRank(r),
         TellResult(r)
  PROVE  Told
<1> DEFINE answer == [Last EXCEPT !.result = r]
<1>1. asked.job \in Jobs /\ asked.session \in Sessions /\ Last \in Answers
  BY AskedTypes, AnswerTypes DEF SessionInv
<1>2. /\ answer.result = r /\ answer.milestones = Last.milestones
      /\ answer.listed = Last.listed
  BY <1>1 DEF Answers
<1>3. r # "SESSION_NOT_FOUND"
  BY DEF Results, Finals
<1>4. AnswerBacked(answer, asked.job, asked.session)
  BY <1>1, <1>2 DEF SessionInv, SayInv, AnswerBacked, Last
<1>5. Advances(Last, answer, asked.session)
  BY <1>2, <1>3, MilestoneRanks DEF Advances
<1>6. Tell(answer) /\ answer \in Answers
  BY <1>1 DEF TellResult, Answers
<1> HIDE DEF answer
<1> QED BY <1>4, <1>5, <1>6 DEF Told

\* The query of get_result is answered, or goes on to the artifact with what the rows back.
LEMMA ResultIsTold ==
  ASSUME IInv, SessionInv, QueryResult
  PROVE  \/ Told
         \/ /\ asked # NotAsking /\ told' = told
            /\ AskedBacked(asked.job, asked.session)'
            /\ asked' # NotAsking
<1>1. asked # NotAsking /\ SessionTypeOK
  BY AskedTypes DEF QueryResult, AskingFor, SessionInv
<1> PICK j \in Jobs, s \in Sessions : j = asked.job /\ s = asked.session
  BY <1>1, AskedTypes
<1> DEFINE d == landed[j][s]
           r == Reconciled(d, asked.status)
<1>2. AnswerBacked(Last, j, s) /\ Last \in Answers /\ Last = told[j][s]
  BY <1>1, AnswerTypes DEF SessionInv, SayInv, Last
<1>3. CASE d = "absent"
  <2> DEFINE answer == [Last EXCEPT !.result = "SESSION_NOT_FOUND"]
  <2>1. Tell(answer) /\ answer \in Answers
    BY <1>1, <1>3, AnswerTypes DEF QueryResult, Query, TellResult
  <2>2. /\ answer.result = "SESSION_NOT_FOUND" /\ answer.milestones = Last.milestones
        /\ answer.listed = Last.listed
    BY <1>2 DEF Answers
  <2>3. Last.result \notin Results /\ s \notin Last.listed
    BY <1>2, <1>3 DEF AnswerBacked, ResultBacked
  <2>4. "SESSION_NOT_FOUND" \notin Results
    BY DEF Results, Finals
  <2>5. AnswerBacked(answer, j, s)
    BY <1>2, <2>2, <2>4 DEF AnswerBacked, ResultBacked, Results
  <2>6. Advances(Last, answer, s)
    BY <1>2, <2>2, <2>3, <2>4, Ranks, MilestoneRanks DEF Advances
  <2> QED BY <2>1, <2>5, <2>6 DEF Told
<1>4. ASSUME d # "absent"
      PROVE  /\ r \in Results /\ ResultBacked(r, d, jobs[j].status)
             /\ ResultRank(Last.result) <= ResultRank(r)
  BY <1>1, <1>4, ReconciledIsBacked
<1>5. CASE d # "absent" /\ ~Artifact
  <2>1. TellResult(r)
    BY <1>5 DEF QueryResult, Query
  <2> HIDE DEF r
  <2> QED BY <1>1, <1>4, <1>5, <2>1, ResultTold
<1>6. CASE d # "absent" /\ Artifact
  <2>1. asked' = [asked EXCEPT !.at = "artifact", !.result = r] /\ told' = told
    BY <1>6 DEF QueryResult, Query
  <2>2. /\ asked'.at = "artifact" /\ asked'.result = r /\ asked'.kind = "result"
        /\ asked'.job = j /\ asked'.session = s
        /\ asked'.status = asked.status /\ asked'.bound = asked.bound
    BY <1>1, <2>1, AskedTypes DEF QueryResult, AskingFor
  <2>3. asked' # NotAsking
    BY <2>2 DEF NotAsking
  <2>4. UNCHANGED <<landed, files, jobs>>
    BY DEF QueryResult, vars
  <2>5. AskedBacked(j, s) /\ told[j][s] = Last
    BY <1>1 DEF SessionInv, SayInv, Last
  <2> QED
    BY <1>1, <1>4, <1>6, <2>1, <2>2, <2>3, <2>4, <2>5
       DEF AskedBacked, RowRead, ReadSince, HalfRead, HasFile
<1> QED BY <1>3, <1>5, <1>6

\* Every rank of a result is a number.
LEMMA ResultRanks ==
  ASSUME NEW r
  PROVE  ResultRank(r) \in Nat
  BY DEF ResultRank

\* The answer after the artifact is the one the rows backed when they were read, or none.
LEMMA ArtifactIsTold ==
  ASSUME SessionInv, ReadArtifact
  PROVE  Told \/ (told' = told /\ asked' = NotAsking)
<1>1. asked # NotAsking
  BY AskedTypes DEF ReadArtifact, AskingFor, SessionInv
<1>2. CASE TellResult(asked.result)
  <2>1. HalfRead(Last, landed[asked.job][asked.session], jobs[asked.job],
                 HasFile(asked.job, asked.session))
    BY <1>1 DEF SessionInv, SayInv, AskedBacked, Last
  <2> QED BY <1>1, <1>2, <2>1, ResultTold DEF HalfRead, ReadArtifact, AskingFor
<1> QED BY <1>2 DEF ReadArtifact

\* What is said of the milestones may be told when it is backed and no step back.
LEMMA MilestonesTold ==
  ASSUME SessionInv, asked # NotAsking,
         NEW m \in {"available", "pending", "SESSION_NOT_FOUND"} \cup Missing,
         MilestonesBacked(m, landed[asked.job][asked.session], jobs[asked.job],
                          HasFile(asked.job, asked.session)),
         MilestoneRank(Last.milestones) <= MilestoneRank(m),
         Tell([Last EXCEPT !.milestones = m])
  PROVE  Told
<1> DEFINE answer == [Last EXCEPT !.milestones = m]
<1>1. asked.job \in Jobs /\ asked.session \in Sessions /\ Last \in Answers
  BY AskedTypes, AnswerTypes DEF SessionInv
<1>2. /\ answer.milestones = m /\ answer.result = Last.result
      /\ answer.listed = Last.listed
  BY <1>1 DEF Answers
<1>3. AnswerBacked(answer, asked.job, asked.session)
  BY <1>1, <1>2 DEF SessionInv, SayInv, AnswerBacked, Last
<1>4. Advances(Last, answer, asked.session)
  BY <1>2, ResultRanks DEF Advances
<1>5. Tell(answer) /\ answer \in Answers
  BY AnswerTypes DEF SessionInv
<1> HIDE DEF answer
<1> QED BY <1>3, <1>4, <1>5 DEF Told

\* get_milestones tells of a snapshot that is there, or goes on with what it read of the row.
LEMMA MilestonesAreTold ==
  ASSUME IInv, SessionInv, ReadMilestones
  PROVE  \/ Told
         \/ /\ told' = told /\ AskedBacked(asked.job, asked.session)'
            /\ asked # NotAsking /\ asked' # NotAsking
<1>1. asked # NotAsking
  BY AskedTypes DEF ReadMilestones, AskingFor, SessionInv
<1> PICK j \in Jobs, s \in Sessions : j = asked.job /\ s = asked.session
  BY <1>1, AskedTypes DEF SessionInv
<1>2. /\ AskedBacked(j, s) /\ told[j][s] = Last
      /\ AnswerBacked(Last, j, s)
  BY <1>1 DEF SessionInv, SayInv, Last
<1>3. CASE asked.bound /\ HasFile(j, s)
  <2>1. Tell([Last EXCEPT !.milestones = "available"])
    BY <1>3 DEF ReadMilestones, HasFile
  <2>2. MilestonesBacked("available", landed[j][s], jobs[j], HasFile(j, s))
    BY <1>2, <1>3 DEF MilestonesBacked, AskedBacked, RowRead, Missing
  <2>3. MilestoneRank(Last.milestones) <= MilestoneRank("available")
    BY Ranks DEF MilestoneRank
  <2> QED BY <1>1, <2>1, <2>2, <2>3, MilestonesTold
<1>4. CASE ~(asked.bound /\ HasFile(j, s))
  <2>1. asked' = [asked EXCEPT !.at = "sessions"] /\ told' = told
    BY <1>4 DEF ReadMilestones, HasFile
  <2>2. /\ asked'.at = "sessions" /\ asked'.kind = "milestones"
        /\ asked'.job = j /\ asked'.session = s /\ asked'.result = asked.result
        /\ asked'.status = asked.status /\ asked'.bound = asked.bound
    BY <1>1, <2>1, AskedTypes DEF ReadMilestones, AskingFor, SessionInv
  <2>3. asked' # NotAsking
    BY <2>2 DEF NotAsking
  <2>4. UNCHANGED <<landed, files, jobs>>
    BY DEF ReadMilestones, vars
  <2>5. Last.milestones # "available" /\ (asked.status = "succeeded" => ~HasFile(j, s))
    BY <1>2, <1>4 DEF AnswerBacked, MilestonesBacked, AskedBacked, RowRead, ReadSince
  <2> QED
    BY <1>1, <1>2, <2>1, <2>2, <2>3, <2>4, <2>5
       DEF AskedBacked, RowRead, ReadSince, HalfRead, HasFile
<1> QED BY <1>3, <1>4

\* Where no snapshot was found, the row read before and the result read now tell why.
LEMMA MissingIsTold ==
  ASSUME SessionInv, MilestonesMissing
  PROVE  Told
<1>1. asked # NotAsking
  BY AskedTypes DEF MilestonesMissing, AskingFor, SessionInv
<1> PICK j \in Jobs, s \in Sessions : j = asked.job /\ s = asked.session
  BY <1>1, AskedTypes DEF SessionInv
<1>2. /\ AskedBacked(j, s) /\ told[j][s] = Last
      /\ AnswerBacked(Last, j, s)
  BY <1>1 DEF SessionInv, SayInv, Last
<1> DEFINE m == IF landed[j][s] = "absent" THEN "SESSION_NOT_FOUND"
                ELSE IF asked.status \in Terminal THEN asked.status
                ELSE "pending"
<1>3. Tell([Last EXCEPT !.milestones = m])
  BY DEF MilestonesMissing, Query
<1>4. m \in {"available", "pending", "SESSION_NOT_FOUND"} \cup Missing
  BY DEF Terminal, Missing
<1>5. MilestonesBacked(m, landed[j][s], jobs[j], HasFile(j, s))
  BY <1>2
     DEF MilestonesBacked, AskedBacked, RowRead, HalfRead, MilestonesMissing, AskingFor,
         Terminal, Missing
<1>6. MilestoneRank(Last.milestones) <= MilestoneRank(m)
  <2>1. Last.milestones # "available"
    BY <1>2 DEF AskedBacked, HalfRead, MilestonesMissing, AskingFor
  <2>2. Last.milestones \in Missing => m \in Missing
    BY <1>2 DEF AnswerBacked, MilestonesBacked, AskedBacked, ReadSince, Terminal, Missing
  <2>3. Last.milestones = "pending" => m \in Missing \cup {"pending"}
    BY <1>2 DEF AnswerBacked, MilestonesBacked, Terminal, Missing
  <2> HIDE DEF m
  <2> QED BY <2>1, <2>2, <2>3, Ranks, MilestoneRanks
<1> HIDE DEF m
<1> QED BY <1>1, <1>3, <1>4, <1>5, <1>6, MilestonesTold

\* A list has the session from the moment its data has it, and so has every request after it.
LEMMA ListIsTold ==
  ASSUME SessionInv, ListSessions
  PROVE  Told
<1>1. asked # NotAsking
  BY AskedTypes DEF ListSessions, AskingFor, SessionInv
<1> PICK j \in Jobs, s \in Sessions : j = asked.job /\ s = asked.session
  BY <1>1, AskedTypes DEF SessionInv
<1>2. AnswerBacked(Last, j, s) /\ Last \in Answers
  BY <1>1, AnswerTypes DEF SessionInv, SayInv, Last
<1> DEFINE list == {t \in Sessions : landed[j][t] # "absent"}
           answer == [Last EXCEPT !.ended = asked.status \in Terminal, !.listed = list]
<1>3. answer \in Answers
  <2>1. list \in SUBSET Sessions /\ (asked.status \in Terminal) \in BOOLEAN
    OBVIOUS
  <2> HIDE DEF list
  <2> QED BY <1>2, <2>1 DEF Answers
<1>4. Tell(answer)
  <2>1. list = {t \in Sessions : "absent" \notin Query(asked.job, t)}
    BY DEF Query
  <2> QED BY <2>1 DEF ListSessions
<1>5. /\ answer.result = Last.result /\ answer.milestones = Last.milestones
      /\ answer.listed = list
  BY <1>2 DEF Answers
<1>6. AnswerBacked(answer, j, s)
  BY <1>2, <1>5 DEF AnswerBacked
<1>7. Advances(Last, answer, s)
  BY <1>2, <1>5, ResultRanks, MilestoneRanks DEF Advances, AnswerBacked
<1> HIDE DEF answer
<1> QED BY <1>3, <1>4, <1>6, <1>7 DEF Told

\* Whoever answers, it is an answer of the API, or a request between its reads.
LEMMA AnswersAreTold ==
  ASSUME IInv, SessionInv, Answer
  PROVE  \/ Told
         \/ told' = told /\ asked' = NotAsking
         \/ /\ told' = told /\ AskedBacked(asked.job, asked.session)'
            /\ asked # NotAsking /\ asked' # NotAsking
  BY ResultIsTold, ArtifactIsTold, MilestonesAreTold, MissingIsTold, ListIsTold DEF Answer

\* A request begins with a row no older than any answer.
LEMMA AskIsBacked ==
  ASSUME IInv, SessionInv, NEW kind \in client, NEW j \in Jobs, NEW s \in Sessions,
         Ask(kind, j, s)
  PROVE  AskedBacked(asked.job, asked.session)'
<1>1. /\ asked'.job = j /\ asked'.session = s /\ asked'.at = "data"
      /\ asked'.status = jobs[j].status /\ asked'.bound = jobs[j].bound
  BY DEF Ask
<1>2. UNCHANGED <<landed, files, told, jobs>> /\ jobs[j].status # "absent"
  BY DEF Ask, vars
<1>3. AnswerBacked(told[j][s], j, s)
  BY DEF SessionInv, SayInv
<1>4. jobs[j].status = "succeeded" => jobs[j].bound
  BY NothingMoves DEF SessionInv
<1> QED
  BY <1>1, <1>2, <1>3, <1>4
     DEF AskedBacked, RowRead, ReadSince, HalfRead, AnswerBacked, ResultBacked,
         MilestonesBacked

\* Between the answers nothing is told, and a request is dropped or kept.
LEMMA QuietSteps ==
  ASSUME [SessionNext]_systemVars
  PROVE  \/ Answer
         \/ \E kind \in client, j \in Jobs, s \in Sessions : Ask(kind, j, s)
         \/ told' = told /\ asked' \in {asked, NotAsking}
  BY DEF SessionNext, ServerStep, RowsLand, FileWritten, RequestFails, systemVars, sessionVars

\* The types are kept, by answers and by what is left half read.
LEMMA SessionTypes ==
  ASSUME IInv, SessionInv, [SessionNext]_systemVars
  PROVE  SessionTypeOK'
<1> USE DEF SessionInv
<1>1. client' = client
  BY DEF SessionNext, ServerStep, RowsLand, FileWritten, Ask, Answer, QueryResult, ReadArtifact,
     ReadMilestones, MilestonesMissing, ListSessions, RequestFails, systemVars, sessionVars
<1>2. landed' \in [Jobs -> [Sessions -> {Data[n] : n \in 1..4}]]
  <2>1. ASSUME NEW j \in Jobs, NEW s \in Sessions, RowsLand(j, s)
        PROVE  landed' \in [Jobs -> [Sessions -> {Data[n] : n \in 1..4}]]
    <3> DEFINE values == {Data[n] : n \in 1..4}
    <3>1. PICK d \in values : landed' = [landed EXCEPT ![j][s] = d]
      BY <2>1 DEF RowsLand
    <3>2. landed \in [Jobs -> [Sessions -> values]]
      BY DEF SessionTypeOK
    <3> HIDE DEF values
    <3>3. landed' \in [Jobs -> [Sessions -> values]]
      BY <3>1, <3>2
    <3> QED BY <3>3 DEF values
  <2>2. landed' = landed => landed' \in [Jobs -> [Sessions -> {Data[n] : n \in 1..4}]]
    BY DEF SessionTypeOK
  <2> QED
    BY <2>1, <2>2
       DEF SessionNext, ServerStep, FileWritten, Ask, Answer, QueryResult, ReadArtifact,
           ReadMilestones, MilestonesMissing, ListSessions, RequestFails, systemVars,
           sessionVars
<1>3. files' \in [Jobs -> [Sessions -> SUBSET {"milestones"}]]
  <2>1. ASSUME NEW j \in Jobs, NEW s \in Sessions, FileWritten(j, s)
        PROVE  files' \in [Jobs -> [Sessions -> SUBSET {"milestones"}]]
    BY <2>1 DEF FileWritten, SessionTypeOK
  <2>2. files' = files => files' \in [Jobs -> [Sessions -> SUBSET {"milestones"}]]
    BY DEF SessionTypeOK
  <2> QED
    BY <2>1, <2>2
       DEF SessionNext, ServerStep, RowsLand, Ask, Answer, QueryResult, ReadArtifact,
           ReadMilestones, MilestonesMissing, ListSessions, RequestFails, systemVars,
           sessionVars
<1>4. told' \in [Jobs -> [Sessions -> Answers]]
  <2>1. CASE told' = told
    BY <2>1 DEF SessionTypeOK
  <2>2. CASE Told /\ asked # NotAsking
    BY <2>2, Tells DEF Told
  <2>3. Answer => asked # NotAsking
    BY AskedTypes
       DEF Answer, QueryResult, ReadArtifact, ReadMilestones, MilestonesMissing, ListSessions,
           AskingFor
  <2> QED BY <2>1, <2>2, <2>3, QuietSteps, AnswersAreTold DEF Ask
<1>5. asked' \in Request
  <2>1. CASE asked' \in {asked, NotAsking}
    BY <2>1 DEF SessionTypeOK, Request
  <2>2. ASSUME NEW kind \in client, NEW j \in Jobs, NEW s \in Sessions, Ask(kind, j, s)
        PROVE  asked' \in Request
    <3>1. jobs[j].status \in Status /\ jobs[j].bound \in BOOLEAN
      BY DEF IInv, TypeInv, TypeOK, Row
    <3> QED BY <2>2, <3>1 DEF Ask, Request
  <2>3. CASE QueryResult
    <3>1. asked # NotAsking
      BY <2>3, AskedTypes DEF QueryResult, AskingFor
    <3>2. CASE asked' = NotAsking
      BY <3>2 DEF Request
    <3>3. CASE /\ landed[asked.job][asked.session] # "absent"
               /\ asked' = [asked EXCEPT !.at = "artifact",
                    !.result = Reconciled(landed[asked.job][asked.session], asked.status)]
      BY <3>1, <3>3, AskedTypes, ReconciledIsBacked DEF Request
    <3> QED BY <2>3, <3>2, <3>3 DEF QueryResult, Query, TellResult, Tell
  <2>4. CASE ReadMilestones
    <3>1. asked # NotAsking
      BY <2>4, AskedTypes DEF ReadMilestones, AskingFor
    <3>2. asked' = NotAsking \/ asked' = [asked EXCEPT !.at = "sessions"]
      BY <2>4 DEF ReadMilestones, Tell
    <3> QED BY <3>1, <3>2, AskedTypes DEF Request
  <2>5. CASE ReadArtifact \/ MilestonesMissing \/ ListSessions
    <3>1. asked' = NotAsking
      BY <2>5 DEF ReadArtifact, MilestonesMissing, ListSessions, TellResult, Tell
    <3> QED BY <3>1 DEF Request
  <2> QED BY <2>1, <2>2, <2>3, <2>4, <2>5, QuietSteps DEF Answer
<1> QED
  BY <1>1, <1>2, <1>3, <1>4, <1>5 DEF SessionTypeOK, Request

\* The answers stay backed.
LEMMA SayNext ==
  ASSUME IInv, SessionInv, [SessionNext]_systemVars
  PROVE  SayInv'
<1> USE DEF SessionInv
<1>1. ASSUME told' = told
      PROVE  \A j \in Jobs, s \in Sessions : AnswerBacked(told[j][s], j, s)'
  BY <1>1, ToldStays DEF SayInv
<1>2. CASE told' = told /\ asked' \in {asked, NotAsking}
  BY <1>1, <1>2, AskedStays DEF SayInv
<1>3. ASSUME NEW kind \in client, NEW j \in Jobs, NEW s \in Sessions, Ask(kind, j, s)
      PROVE  SayInv'
  <2>1. told' = told
    BY <1>3 DEF Ask
  <2> QED BY <1>1, <1>3, <2>1, AskIsBacked DEF SayInv
<1>4. CASE Answer
  <2>1. asked # NotAsking /\ UNCHANGED <<landed, files, jobs>>
    BY <1>4, AskedTypes
       DEF Answer, QueryResult, ReadArtifact, ReadMilestones, MilestonesMissing, ListSessions,
           AskingFor, vars
  <2>2. CASE Told
    <3>1. PICK answer \in Answers : /\ Tell(answer)
                                    /\ AnswerBacked(answer, asked.job, asked.session)
      BY <2>2 DEF Told
    <3>2. /\ asked' = NotAsking
          /\ \A j \in Jobs, s \in Sessions :
               told'[j][s] = IF j = asked.job /\ s = asked.session THEN answer ELSE told[j][s]
      BY <2>1, <3>1, Tells
    <3>3. ASSUME NEW j \in Jobs, NEW s \in Sessions
          PROVE  AnswerBacked(told'[j][s], j, s)
      BY <3>1, <3>2 DEF SayInv
    <3> QED BY <2>1, <3>2, <3>3 DEF SayInv, AnswerBacked, HasFile
  <2>3. CASE told' = told /\ AskedBacked(asked.job, asked.session)'
    BY <1>1, <2>3 DEF SayInv
  <2>4. CASE told' = told /\ asked' = NotAsking
    BY <1>2, <2>4
  <2> QED BY <1>4, <2>2, <2>3, <2>4, AnswersAreTold
<1> QED BY <1>2, <1>3, <1>4, QuietSteps

\* Nothing is there, nobody has asked, and nothing was told.
LEMMA SayInit == SessionInit => SessionInv
<1> SUFFICES ASSUME SessionInit PROVE SessionInv
  OBVIOUS
<1>1. \A j \in Jobs : /\ jobs[j] = NoRow /\ rjobs[j]["controller"] = "absent"
  BY DEF SessionInit, Init, PlatformInit
<1>2. NoRow.seen["controller"] # "succeeded"
  BY ConstantsAssumption DEF NoRow, NewControlJob, RJobState
<1>3. EndInv
  BY <1>1, <1>2 DEF SessionInit, Init, EndInv
<1>4. SessionTypeOK
  <2>1. "absent" \in {Data[n] : n \in 1..4}
    BY DataValues
  <2>2. Nothing \in Answers
    BY DEF Nothing, Answers
  <2>3. NotAsking \in Request
    BY DEF Request
  <2> QED BY <2>1, <2>2, <2>3 DEF SessionInit, SessionTypeOK
<1>5. \A j \in Jobs, s \in Sessions : AnswerBacked(Nothing, j, s)
  BY NoneAssumption
     DEF Nothing, AnswerBacked, ResultBacked, MilestonesBacked, Results, Finals, Missing
<1>6. SayInv
  BY <1>5 DEF SessionInit, SayInv
<1> QED BY <1>3, <1>4, <1>6 DEF SessionInv

\* The invariants of the server and of the answers hold together.
LEMMA SessionInductive == SessionSpec => [](IInv /\ SessionInv)
<1>1. IInv /\ SessionInv /\ [SessionNext]_systemVars => SessionInv'
  BY EndNext, SessionTypes, SayNext DEF SessionInv
<1> QED BY <1>1, SayInit, ServerInv, PTL DEF SessionSpec, systemVars

-----------------------------------------------------------------------------
\* The types of what a client is told, and of a request between its reads.
THEOREM SessionsTypeCorrect == SessionSpec => []SessionTypeOK
<1>1. IInv /\ SessionInv => SessionTypeOK
  BY DEF SessionInv
<1> QED BY <1>1, SessionInductive, PTL

\* No result is said to be incomplete of a session that completes.
THEOREM NothingIsIncomplete == SessionSpec => []IncompleteIsNeverSaid
<1>1. IInv /\ SessionInv => IncompleteIsNeverSaid
  BY DEF SessionInv, SayInv, AnswerBacked, ResultBacked, IncompleteIsNeverSaid
<1> QED BY <1>1, SessionInductive, PTL

\* Who is told that a Job that succeeded left no milestones is told so for good.
THEOREM NotFoundStaysTrue == SessionSpec => []NotFoundIsFinal
<1>1. IInv /\ SessionInv => NotFoundIsFinal
  BY DEF SessionInv, SayInv, AnswerBacked, MilestonesBacked, HasFile, NotFoundIsFinal
<1> QED BY <1>1, SessionInductive, PTL

\* No answer takes back what an earlier one said.
LEMMA AnswersAdvance ==
  ASSUME IInv, SessionInv, [SessionNext]_systemVars, NEW j \in Jobs, NEW s \in Sessions
  PROVE  Advances(told[j][s], told'[j][s], s)
<1>1. \A answer : Advances(answer, answer, s)
  BY ResultRanks, MilestoneRanks DEF Advances
<1>2. CASE told' = told
  BY <1>1, <1>2
<1>3. CASE Told /\ Answer
  <2>1. asked # NotAsking
    BY <1>3, AskedTypes
       DEF Answer, QueryResult, ReadArtifact, ReadMilestones, MilestonesMissing, ListSessions,
           AskingFor, SessionInv
  <2>2. PICK answer \in Answers : Tell(answer) /\ Advances(Last, answer, asked.session)
    BY <1>3 DEF Told
  <2>3. told'[j][s] = IF j = asked.job /\ s = asked.session THEN answer ELSE told[j][s]
    BY <2>1, <2>2, Tells DEF SessionInv
  <2> QED BY <1>1, <2>2, <2>3 DEF Last
<1> QED BY <1>2, <1>3, QuietSteps, AnswersAreTold DEF Ask

\* What a client is told of a result only advances, whatever the faults and the restarts of
\* the server between its requests.
THEOREM ResultsNeverGoBack == SessionSpec => ResultsAdvance
<1>1. IInv /\ SessionInv /\ [SessionNext]_systemVars =>
        [\A j \in Jobs, s \in Sessions :
           ResultRank(told[j][s].result) <= ResultRank(told'[j][s].result)]_systemVars
  BY AnswersAdvance DEF Advances
<1> QED BY <1>1, SessionInductive, PTL DEF SessionSpec, ResultsAdvance, systemVars

\* So does what it is told of the milestones.
THEOREM MilestonesNeverGoBack == SessionSpec => MilestonesAdvance
<1>1. IInv /\ SessionInv /\ [SessionNext]_systemVars =>
        [\A j \in Jobs, s \in Sessions :
           MilestoneRank(told[j][s].milestones) <=
             MilestoneRank(told'[j][s].milestones)]_systemVars
  BY AnswersAdvance DEF Advances
<1> QED BY <1>1, SessionInductive, PTL DEF SessionSpec, MilestonesAdvance, systemVars

\* A listed session stays listed and its result is found.
THEOREM ListedStayKnown == SessionSpec => ListedIsKnown
<1>1. IInv /\ SessionInv /\ [SessionNext]_systemVars =>
        [\A j \in Jobs, s \in Sessions : s \in told[j][s].listed =>
           /\ s \in told'[j][s].listed
           /\ told'[j][s].result = "SESSION_NOT_FOUND" =>
                told[j][s].result = "SESSION_NOT_FOUND"]_systemVars
  BY AnswersAdvance DEF Advances
<1> QED BY <1>1, SessionInductive, PTL DEF SessionSpec, ListedIsKnown, systemVars
=============================================================================
