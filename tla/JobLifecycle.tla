---------------------------- MODULE JobLifecycle ----------------------------
(***************************************************************************)
(* What the API promises of a Job (API_DESIGN, Job lifecycle): its status   *)
(* only moves along                                                        *)
(*                                                                         *)
(*    queued -> preparing -> running -> succeeded, or to failed, and        *)
(*    queued / preparing / running -> closing -> closed,                   *)
(*                                                                         *)
(* an ended Job never changes status again, every ending leaves a cleanup   *)
(* to do, a closing Job becomes closed exactly when its cleanup is done,    *)
(* and nothing stays under way for ever.                                   *)
(***************************************************************************)
CONSTANT Jobs

VARIABLES status,   \* status[j]: job_status
          owes      \* the Jobs that owe a cleanup

vars == <<status, owes>>

Running == {"queued", "preparing", "running"}

Init == /\ status = [j \in Jobs |-> "absent"]
        /\ owes = {}

Move(j, from, to) == /\ status[j] \in from
                     /\ status' = [status EXCEPT ![j] = to]

Create(j)  == Move(j, {"absent"}, "queued") /\ UNCHANGED owes
Prepare(j) == Move(j, {"queued"}, "preparing") /\ UNCHANGED owes
Run(j)     == Move(j, {"preparing"}, "running") /\ UNCHANGED owes
Succeed(j) == Move(j, {"running"}, "succeeded") /\ owes' = owes \cup {j}
Fail(j)    == Move(j, {"preparing", "running"}, "failed") /\ owes' = owes \cup {j}
Close(j)   == Move(j, Running, "closing") /\ owes' = owes \cup {j}

Release(j) ==
  /\ j \in owes
  /\ owes' = owes \ {j}
  /\ status' = IF status[j] = "closing" THEN [status EXCEPT ![j] = "closed"] ELSE status

Work(j) == Prepare(j) \/ Run(j) \/ Succeed(j) \/ Fail(j)

Next == \E j \in Jobs : Create(j) \/ Work(j) \/ Close(j) \/ Release(j)

Fairness == \A j \in Jobs : WF_vars(Work(j)) /\ WF_vars(Release(j))

SafeSpec == Init /\ [][Next]_vars
Spec     == SafeSpec /\ Fairness

=============================================================================
