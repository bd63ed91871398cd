--------------------------- MODULE RuleEvaluators ---------------------------
(***************************************************************************)
(* evaluate_rule of the programs that have one: a result becomes a score   *)
(* outside their container.  Each operator gives the outcomes it may have: *)
(* "failed" (there is no score), "zero", or "some".                        *)
(***************************************************************************)
EXTENDS Episode

Outcome == {"failed", "zero", "some"}

Number(r) == IF r.score = "absent" THEN "failed" ELSE r.score

\* A trial that succeeded has no errors.
HarborRule(r) == IF r.status = "succeeded" THEN {Number(r)} ELSE {"failed"}

\* infrastructure_ok goes with the status.
ExploitGymRule(r) == IF r.status = "succeeded" THEN {Number(r)} ELSE {"failed"}

\* These do not look at the status: a failed episode with a score has that score.
LiveCveRule(r) == {Number(r)}

Geo3kRule(r) == {Number(r)}

OpenRtRule(r) == {Number(r)}

\* e2e_success is null in a failure; else won, or the share of the milestones.
CyberRangeRule(r) == {"failed", Number(r)}

\* The verification must have ended with 0, and the database be there; the last PoC
\* of the agent counts, if it was run against both builds.
CyberGymRule(r) == IF r.from = {} THEN {"failed"} ELSE {"failed", Number(r)}

\* A patch is tried by the official evaluation, whose container may not start.
PatchEvalRule(r) == {"failed", Number(r)}

RuleScore(r) ==
  CASE runner = "harbor"       -> HarborRule(r)
    [] runner = "exploitgym"   -> ExploitGymRule(r)
    [] runner = "livecvebench" -> LiveCveRule(r)
    [] runner = "geo3k"        -> Geo3kRule(r)
    [] runner = "openrt"       -> OpenRtRule(r)
    [] runner = "cyberrange"   -> CyberRangeRule(r)
    [] runner = "cybergym"     -> CyberGymRule(r)
    [] runner \in {"strict", "claudecode", "openhands"} -> PatchEvalRule(r)
    [] OTHER                   -> {}
=============================================================================
