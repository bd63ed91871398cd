---------------------------- MODULE SessionQuery ----------------------------
(***************************************************************************)
(* The session queries of the API (RealRuntimeRepository.list_sessions,    *)
(* get_result, get_milestones), asked by a polling client while the        *)
(* orchestrator of JobOrchestrator works on the Job they are about.        *)
(*                                                                         *)
(* Every query reads the Job row first and the session data later, from    *)
(* another system, and answers from both: the rest of the server moves in  *)
(* between.  The client sends one request at a time and remembers the last *)
(* answer to each kind.                                                    *)
(*                                                                         *)
(* The episodes are external.  They begin while the controller runs or is  *)
(* being torn down, write landing rows and result files until they end,    *)
(* and the controller ends with success only when every episode has ended  *)
(* and is persisted (PRD, FR-04 and FR-05).                                *)
(***************************************************************************)
EXTENDS JobOrchestrator

CONSTANTS Sessions,      \* the sessions a Job runs
          Artifact,      \* the Range declares a result_artifact
          Clients        \* bound: the clients, each by the kinds of request it sends

ASSUME SessionAssumption == /\ Artifact \in BOOLEAN
                            /\ Clients \subseteq SUBSET {"sessions", "result", "milestones"}

VARIABLES
  landed,    \* landed[j][s]: what get_result of the data platform says
  client,    \* who asks
  files,     \* files[j][s]: the milestone snapshot, once it is in the session's result directory
  asked,     \* the request under way, with the Job row it read
  told       \* the last answer to each kind of request

sessionVars == <<client, landed, files, asked, told>>

\* WTDataPlatformRepository.get_result: no rows, rows, completed, completed with a reward.
Data == <<"absent", "running", "failed", "succeeded">>
DataRank(d) == CHOOSE n \in 1..4 : Data[n] = d

Finals  == {"succeeded", "failed", "JOB_EXECUTION_FAILED", "SESSION_CANCELLED",
            "SESSION_RESULT_INCOMPLETE"}
Results == Finals \cup {"pending", "running"}

NotAsking == [kind |-> "none"]

Request ==
  {NotAsking} \cup
  [kind : client, at : {"data", "artifact", "sessions"}, job : Jobs, session : Sessions,
   status : Status, bound : BOOLEAN, result : Results \cup {None}]

\* MILESTONES_NOT_FOUND, by the status of the Job it was answered for.
Missing == {"succeeded", "failed", "closed"}

Answers ==
  [result : Results \cup {None, "SESSION_NOT_FOUND"},
   listed : SUBSET Sessions, ended : BOOLEAN,
   milestones : {None, "available", "pending", "SESSION_NOT_FOUND"} \cup Missing]

ASSUME NoneAssumption ==
  None \notin Results \cup Missing \cup {"SESSION_NOT_FOUND", "available"}

SessionTypeOK ==
  /\ client \in Clients
  /\ landed \in [Jobs -> [Sessions -> {Data[n] : n \in 1..4}]]
  /\ files \in [Jobs -> [Sessions -> SUBSET {"milestones"}]]
  /\ asked \in Request
  /\ told \in [Jobs -> [Sessions -> Answers]]

Nothing == [result |-> None, listed |-> {}, ended |-> FALSE, milestones |-> None]

SessionInit ==
  /\ Init
  /\ client \in Clients
  /\ landed = [j \in Jobs |-> [s \in Sessions |-> "absent"]]
  /\ files = [j \in Jobs |-> [s \in Sessions |-> {}]]
  /\ asked = NotAsking
  /\ told = [j \in Jobs |-> [s \in Sessions |-> Nothing]]

-----------------------------------------------------------------------------
(* The episodes *)
\* A controller under deletion may still be at work, unless it was seen to have ended.
Executing(j) == \/ rjobs[j]["controller"] = "running"
                \/ /\ rjobs[j]["controller"] = "deleting"
                   /\ jobs[j].seen["controller"] # "succeeded"

\* The server does not delete the RJob of an episode: once begun it may go on for itself.
EpisodeActive(j, s) == Executing(j) \/ landed[j][s] = "running"

RowsLand(j, s) ==
  /\ EpisodeActive(j, s)
  /\ \E d \in {Data[n] : n \in 1..4} :
       /\ DataRank(d) > DataRank(landed[j][s])
       /\ landed' = [landed EXCEPT ![j][s] = d]
  /\ UNCHANGED <<client, files, asked, told, vars>>

FileWritten(j, s) ==
  /\ EpisodeActive(j, s)
  /\ "milestones" \in client /\ "milestones" \notin files[j][s]
  /\ files' = [files EXCEPT ![j][s] = @ \cup {"milestones"}]
  /\ UNCHANGED <<client, landed, asked, told, vars>>

Completed(j) == \A s \in Sessions : landed[j][s] \in {"failed", "succeeded"}

ServerStep ==
  /\ Next
  /\ \A j \in Jobs :
       rjobs[j]["controller"] = "running" /\ rjobs'[j]["controller"] = "succeeded"
         => Completed(j)
  /\ asked' = IF pc' = "down" THEN NotAsking ELSE asked
  /\ UNCHANGED <<client, landed, files, told>>

-----------------------------------------------------------------------------
(* The requests *)
\* Mutant: a Job that has ended is taken for one that is unknown.
AskWhileActive(kind, j, s) ==
  /\ pc # "down" /\ asked = NotAsking /\ jobs[j].status \notin Terminal \cup {"absent"}
  /\ asked' = [kind |-> kind, at |-> "data", job |-> j, session |-> s,
               status |-> jobs[j].status, bound |-> jobs[j].bound, result |-> None]
  /\ UNCHANGED <<client, landed, files, told, vars>>

\* _require_job: the row this request goes by.
Ask(kind, j, s) ==
  /\ pc # "down" /\ asked = NotAsking /\ jobs[j].status # "absent"
  /\ asked' = [kind |-> kind, at |-> "data", job |-> j, session |-> s,
               status |-> jobs[j].status, bound |-> jobs[j].bound, result |-> None]
  /\ UNCHANGED <<client, landed, files, told, vars>>

\* Mutant: the table is queried as some earlier query saw it.
QueryStale(j, s) == {Data[n] : n \in 1..DataRank(landed[j][s])}

\* _query_landing with checkout_latest.
Query(j, s) == {landed[j][s]}

\* Mutants: the status of the Job covers that of the session, the status of the Job is
\* handed on.
ReconciledByJob(data, status) ==
  IF status = "failed" THEN "JOB_EXECUTION_FAILED"
  ELSE IF data \in {"succeeded", "failed"} THEN data
  ELSE CASE status \in {"queued", "preparing"} -> "pending"
         [] status = "closed"                  -> "SESSION_CANCELLED"
         [] OTHER                              -> "running"

ReconciledUnmapped(data, status) ==
  IF data \in {"succeeded", "failed"} THEN data ELSE status

\* _reconcile_result_with_job
Reconciled(data, status) ==
  IF data \in {"succeeded", "failed"} THEN data
  ELSE CASE status \in {"queued", "preparing"} -> "pending"
         [] status = "failed"                  -> "JOB_EXECUTION_FAILED"
         [] status = "closed"                  -> "SESSION_CANCELLED"
         [] status = "succeeded"               -> "SESSION_RESULT_INCOMPLETE"
         [] OTHER                              -> "running"

Tell(answer) == /\ told' = [told EXCEPT ![asked.job][asked.session] = answer]
                /\ asked' = NotAsking

Last == told[asked.job][asked.session]

TellResult(r) == Tell([Last EXCEPT !.result = r])

AskingFor(kind, at) == asked.kind = kind /\ asked.at = at

QueryResult ==
  /\ AskingFor("result", "data")
  /\ \E d \in Query(asked.job, asked.session) :
       LET r == Reconciled(d, asked.status) IN
       IF d = "absent" THEN TellResult("SESSION_NOT_FOUND")
       ELSE IF Artifact
            THEN asked' = [asked EXCEPT !.at = "artifact", !.result = r] /\ UNCHANGED told
            ELSE TellResult(r)
  /\ UNCHANGED <<client, landed, files, vars>>

\* The declared artifact is published before the episode counts as a success, but its
\* directory is known by the binding of the row: a success without it is unavailable.
ReadArtifact ==
  /\ AskingFor("result", "artifact")
  /\ IF asked.result = "succeeded" /\ ~asked.bound
     THEN asked' = NotAsking /\ UNCHANGED told
     ELSE TellResult(asked.result)
  /\ UNCHANGED <<client, landed, files, vars>>

\* Mutant: the row's binding_json is not looked at, and no snapshot is found.
ReadMilestonesNever ==
  /\ AskingFor("milestones", "data")
  /\ asked' = [asked EXCEPT !.at = "sessions"] /\ UNCHANGED told
  /\ UNCHANGED <<client, landed, files, vars>>

ReadMilestones ==
  /\ AskingFor("milestones", "data")
  /\ IF asked.bound /\ "milestones" \in files[asked.job][asked.session]
     THEN Tell([Last EXCEPT !.milestones = "available"])
     ELSE asked' = [asked EXCEPT !.at = "sessions"] /\ UNCHANGED told
  /\ UNCHANGED <<client, landed, files, vars>>

MilestonesMissing ==
  /\ AskingFor("milestones", "sessions")
  /\ \E d \in Query(asked.job, asked.session) :
       Tell([Last EXCEPT !.milestones =
               IF d = "absent" THEN "SESSION_NOT_FOUND"
               ELSE IF asked.status \in Terminal THEN asked.status
               ELSE "pending"])
  /\ UNCHANGED <<client, landed, files, vars>>

\* Mutant: the sessions still at work are listed, and one that has ended drops out.
ListSessionsAtWork ==
  /\ AskingFor("sessions", "data")
  /\ Tell([Last EXCEPT !.ended = asked.status \in Terminal,
             !.listed = {s \in Sessions : "running" \in Query(asked.job, s)}])
  /\ UNCHANGED <<client, landed, files, vars>>

ListSessions ==
  /\ AskingFor("sessions", "data")
  /\ Tell([Last EXCEPT !.ended = asked.status \in Terminal,
             !.listed = {s \in Sessions : "absent" \notin Query(asked.job, s)}])
  /\ UNCHANGED <<client, landed, files, vars>>

\* DEPENDENCY_UNAVAILABLE: no answer to go by.
RequestFails ==
  /\ asked # NotAsking
  /\ asked' = NotAsking
  /\ UNCHANGED <<client, landed, files, told, vars>>

Answer == QueryResult \/ ReadArtifact \/ ReadMilestones \/ MilestonesMissing \/ ListSessions

SessionNext ==
  \/ ServerStep
  \/ \E j \in Jobs, s \in Sessions :
       \/ RowsLand(j, s)
       \/ FileWritten(j, s)
       \/ \E kind \in client : Ask(kind, j, s)
  \/ Answer
  \/ RequestFails

SessionSpec == SessionInit /\ [][SessionNext]_<<vars, sessionVars>>

\* The server as without failing calls (Faults = {}); every request ends, the client polls,
\* and neither system refuses every one of its requests.
SessionFairness ==
  /\ WF_vars(TaskStep)
  /\ WF_vars(\E j \in Jobs, r \in Roles : Deadline(j, r))
  /\ WF_<<vars, sessionVars>>(Answer \/ RequestFails)
  /\ \A j \in Jobs, s \in Sessions : SF_<<vars, sessionVars>>(Ask("result", j, s))
  /\ SF_<<vars, sessionVars>>(QueryResult)
  /\ SF_<<vars, sessionVars>>(ReadArtifact)

SessionFairSpec == SessionSpec /\ SessionFairness

-----------------------------------------------------------------------------
(* Properties *)

\* SESSION_RESULT_INCOMPLETE is never said of a session that completes: whoever reads
\* "succeeded" in the Job row reads the rows the controller waited for afterwards.
IncompleteIsNeverSaid ==
  \A j \in Jobs, s \in Sessions : told[j][s].result # "SESSION_RESULT_INCOMPLETE"

ResultRank(r) == CASE r = "pending"             -> 1
                   [] r = "running"             -> 2
                   [] r \in Finals \ {"succeeded"} -> 3
                   [] r = "succeeded"           -> 4
                   [] OTHER                     -> 0

\* What a client is told of a session never goes back: not from a final result to one
\* still running, not from running to pending or unknown, and a success stays a success
\* whatever becomes of the Job.  Each answer joins two reads of two systems.
ResultsAdvance ==
  [][\A j \in Jobs, s \in Sessions :
       ResultRank(told[j][s].result) <= ResultRank(told'[j][s].result)]_<<vars, sessionVars>>

MilestoneRank(m) == CASE m = "pending"   -> 1
                      [] m \in Missing   -> 2
                      [] m = "available" -> 3
                      [] OTHER           -> 0

\* Milestones that were available stay so, and a client told that there will be none is
\* not told to wait for them again.
MilestonesAdvance ==
  [][\A j \in Jobs, s \in Sessions :
       MilestoneRank(told[j][s].milestones) <= MilestoneRank(told'[j][s].milestones)
    ]_<<vars, sessionVars>>

\* MILESTONES_NOT_FOUND for a Job that succeeded is the truth for good: no snapshot was
\* written between the three reads behind that answer.
NotFoundIsFinal ==
  \A j \in Jobs, s \in Sessions :
    told[j][s].milestones = "succeeded" => "milestones" \notin files[j][s]

\* API_DESIGN: a listed session stays listed, and a request for its result finds it,
\* although each answer is computed from a query of its own.
ListedIsKnown ==
  [][\A j \in Jobs, s \in Sessions : s \in told[j][s].listed =>
       /\ s \in told'[j][s].listed
       /\ told'[j][s].result = "SESSION_NOT_FOUND" => told[j][s].result = "SESSION_NOT_FOUND"
    ]_<<vars, sessionVars>>

\* API_DESIGN: once a Job has ended, the list of its sessions no longer changes.
EndedListIsFinal ==
  [][\A j \in Jobs, s \in Sessions :
       told[j][s].ended => told'[j][s].listed = told[j][s].listed
    ]_<<vars, sessionVars>>

\* API_DESIGN: a client that polls on Retry-After, which comes with every result that is
\* pending or running, is some day told how the session ended.
PollingEnds ==
  \A j \in Jobs, s \in Sessions :
    told[j][s].result \in {"pending", "running"} ~> told[j][s].result \in Finals
=============================================================================
