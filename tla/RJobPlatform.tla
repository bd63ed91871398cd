---------------------------- MODULE RJobPlatform ----------------------------
(***************************************************************************)
(* The RJob platform as the two RJob clients of rjob.py see it: one         *)
(* workload per Job and role, under a name derived from the Job id.  The    *)
(* platform is external; its transitions are those the clients' state       *)
(* mapping distinguishes.                                                   *)
(***************************************************************************)
EXTENDS ControlStore

CONSTANTS Jobs, Faults

VARIABLE rjobs     \* rjobs[j][r]: the workload of role r of Job j

(* The faults of the environment that an instance of the model allows.       *)
(*   dependency   an RJob call fails without effect (RJobDependencyError)    *)
(*   lost_answer  an RJob call takes effect and its answer is lost, or, with *)
(*                "raise", cannot be read                                    *)
(*   raise        a call raises an exception that is not RJobDependencyError *)
(*   exit         a workload fails, or is killed from outside                *)
(*   reap         the platform deletes a finished workload by itself         *)
(*   binding      the Job's input files cannot be bound                      *)
(*   crash        the server process dies                                    *)
AllFaults == {"dependency", "lost_answer", "raise", "exit", "reap", "binding", "crash"}

ASSUME FaultsAssumption == Faults \subseteq AllFaults

PlatformState == {"absent", "pending", "running", "succeeded", "failed", "deleting"}

PlatformTypeOK == rjobs \in [Jobs -> [Roles -> PlatformState]]
PlatformInit   == rjobs = [j \in Jobs |-> [r \in Roles |-> "absent"]]

\* The workload runs, or will unless somebody deletes it.
Live(j, r) == rjobs[j][r] \in {"pending", "running"}

Become(j, r, s) == [rjobs EXCEPT ![j][r] = s]

\* create(): an existing workload of that name is returned, else one is submitted.
AfterCreate(j, r) == IF rjobs[j][r] = "absent" THEN Become(j, r, "pending") ELSE rjobs

\* stop(): the delete is asynchronous, the workload lingers while it is torn down.
AfterStop(j, r) == IF rjobs[j][r] = "absent" THEN rjobs ELSE Become(j, r, "deleting")

\* Mutant: get() hands the platform's own state on.
ObservedUnmapped(j, r) == rjobs[j][r]

\* get(): a missing workload is UNKNOWN, one under deletion is CANCELLED.
Observed(j, r) ==
  CASE rjobs[j][r] = "absent"   -> "unknown"
    [] rjobs[j][r] = "deleting" -> "failed"
    [] OTHER                    -> rjobs[j][r]

\* A stop() that failed half way: the workload was killed, the delete refused.
AfterHalfStop(j, r) == IF Live(j, r) THEN Become(j, r, "failed") ELSE rjobs

-----------------------------------------------------------------------------
WorkloadStarts(j, r) ==
  /\ rjobs[j][r] = "pending"
  /\ rjobs' = Become(j, r, "running")

\* The controller ends by itself; a Gateway is a daemon and ends only by a fault.
WorkloadSucceeds(j, r) ==
  /\ rjobs[j][r] = "running"
  /\ r = "gateway" => "exit" \in Faults
  /\ rjobs' = Become(j, r, "succeeded")

WorkloadFails(j, r) ==
  /\ "exit" \in Faults
  /\ Live(j, r)
  /\ rjobs' = Become(j, r, "failed")

WorkloadReaped(j, r) ==
  /\ "reap" \in Faults
  /\ rjobs[j][r] \in {"succeeded", "failed"}
  /\ rjobs' = Become(j, r, "absent")

WorkloadVanishes(j, r) ==
  /\ rjobs[j][r] = "deleting"
  /\ rjobs' = Become(j, r, "absent")

PlatformStep(j, r) == \/ WorkloadStarts(j, r)
                      \/ WorkloadSucceeds(j, r)
                      \/ WorkloadFails(j, r)
                      \/ WorkloadReaped(j, r)
                      \/ WorkloadVanishes(j, r)
=============================================================================
