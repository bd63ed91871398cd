---------------------------- MODULE ControlStore ----------------------------
(***************************************************************************)
(* The durable row of one Job and the rules every writer of it passes: the *)
(* guards of SQLiteControlStore.update and SQLiteControlStore.request_close.*)
(*                                                                         *)
(* A row keeps what the properties tell apart.  `ids' is the set of roles  *)
(* whose RJob id column is not NULL, `seen' the last recorded status of    *)
(* each role, `bound' says that binding_json is not NULL, `cleanup' is     *)
(* cleanup_requested.  Timestamps, counters, images and the append-only    *)
(* events table are left out.  A row that was never inserted has the       *)
(* status "absent".                                                        *)
(***************************************************************************)
CONSTANTS Addresses,     \* the Gateway URLs the platform may report
          None           \* the NULL of the database and the None of the code

Roles == {"gateway", "controller"}

Active   == {"queued", "preparing", "running"}
Terminal == {"succeeded", "failed", "closed"}
Status   == Active \cup Terminal \cup {"absent", "closing"}

Phase == {"validating_request", "resolving_job_files", "submitting_gateway_rjob",
          "waiting_gateway_address", "checking_gateway_health",
          "submitting_safactory_rjob", "running_safactory", "completed",
          "cleaning_rjobs"}

Reason == {"FILE_BINDING_FAILED", "GATEWAY_RJOB_FAILED", "GATEWAY_LOST_DURING_RUN",
           "GATEWAY_READY_TIMEOUT", "GATEWAY_HEALTH_TIMEOUT",
           "GATEWAY_ADDRESS_CHANGED", "EPISODE_RESULTS_INCOMPLETE",
           "SAFACTORY_RJOB_FAILED", "SAFACTORY_RJOB_TIMEOUT",
           "DEPENDENCY_UNAVAILABLE", "INTERNAL_ORCHESTRATION_ERROR"}

\* What an RJob snapshot can say; "failed" stands for FAILED and for CANCELLED,
\* which every caller treats alike.
RJobState == {"pending", "running", "succeeded", "failed", "unknown"}

Row == [status : Status, phase : Phase, reason : Reason \cup {None},
        bound : BOOLEAN, ids : SUBSET Roles, url : Addresses \cup {None},
        seen : [Roles -> RJobState \cup {None}], cleanup : BOOLEAN]

NewControlJob ==
  [status |-> "queued", phase |-> "validating_request", reason |-> None,
   bound |-> FALSE, ids |-> {}, url |-> None,
   seen |-> [r \in Roles |-> None], cleanup |-> FALSE]

NoRow == [NewControlJob EXCEPT !.status = "absent"]

-----------------------------------------------------------------------------
(* update(job_id, status = st, ...): a terminal status is immutable, and a  *)
(* closing Job accepts no status but closing and closed.                    *)
Immutable(row, st) == row.status \in Terminal /\ st # row.status
\* Mutant: update() without the closing guard.
NoConflict(row, st) == FALSE

Conflict(row, st)  == row.status = "closing" /\ st \notin {"closing", "closed"}

\* Mutant: a status-less update of a closing Job keeps the phase it names.
PhaseAsNamed(row, st, phase) == phase

\* A status-less update of a closing Job loses the phase it asked for.
PhaseAfter(row, st, phase) ==
  IF row.status = "closing" /\ st = "closing" THEN row.phase ELSE phase

\* The row after an accepted update(status = st, phase = phase).
Move(row, st, phase) ==
  [row EXCEPT !.status = st, !.phase = PhaseAfter(row, st, phase)]

\* The row after an update that names a phase and no status.
Note(row, phase) == Move(row, row.status, phase)

\* The row after an update that stores the id create() returned for role r.
WithId(row, r) ==
  [row EXCEPT !.ids = @ \cup {r}, !.seen[r] = "pending"]

\* request_close: only an active Job is moved; any other row is returned as is.
Closed(row) ==
  IF row.status \in Active
  THEN [row EXCEPT !.status = "closing", !.phase = "cleaning_rjobs", !.cleanup = TRUE]
  ELSE row
=============================================================================
