--------------------------- MODULE CyberGymRunner ---------------------------
(***************************************************************************)
(* The cybergym runner, a bash script with `set -euo pipefail', an ERR     *)
(* trap that reports the failure and exits with 0, and an EXIT trap that   *)
(* cleans up.  The ERR trap is not inherited by shell functions: what      *)
(* fails inside one of them ends the script through the EXIT trap alone;   *)
(* a function that returns 1 fires it in its caller.                       *)
(*                                                                         *)
(* evidence is the result directory of the session: "partial" is an        *)
(* args.json with an agent id, a verdict is what verification makes of the *)
(* last PoC that agent submitted.  file is its safactory_result.json; the  *)
(* script does not look at SAFACTORY_RESULT_PATH.                          *)
(***************************************************************************)
EXTENDS Episode, Integers

\* Seconds a phase may take, of those that remain of the episode; None: too few are left.
PhaseTimeout(configured, reserve, minimum, left) ==
  LET remaining == left - reserve
  IN IF remaining < minimum THEN None
     ELSE IF configured < remaining THEN configured ELSE remaining

\* Of the agent, of the process it runs in, and of the verification.
AgentTimeout(agent, verify, left)   == PhaseTimeout(agent, verify + 180, 60, left)
ProcessTimeout(agent, verify, left) == PhaseTimeout(agent + 120, verify + 60, 60, left)
VerifyTimeout(verify, left)         == PhaseTimeout(verify, 30, 30, left)

\* timeout(1) sends SIGKILL this much later.
KillAfter == 30

\* A command fails at the top level, or a function returns 1: the ERR trap.
Trapped(at) == At("cybergym", at) /\ Raise("trap") /\ KeepAll

\* A command fails inside a function.
Aborted(at) == At("cybergym", at) /\ Raise("abort") /\ KeepAll

Changed(at, l, changes) ==
  /\ At("cybergym", at) /\ Goto(l)
  /\ host' = host \cup changes
  /\ UNCHANGED <<session, children, verdict, evidence, outputs, published, mode, stuck, dialogue>>

\* The traps are set after the helpers are sourced.
CyberGymRequest ==
  \/ Ready("cybergym", "main", "prepare")
  \/ Traceback("cybergym", "main")

\* The result directory is known once the episode is.
CyberGymPrepare ==
  \/ Record("cybergym", "prepare", "docker", "episode")
  \/ Trapped("prepare")

\* The daemon of the host, or one of its own: its configuration is set aside and changed.
CyberGymDocker ==
  \/ Ready("cybergym", "docker", "images")
  \/ Ready("cybergym", "docker", "daemon")
  \/ Record("cybergym", "docker", "config", "config")
  \/ Trapped("docker") \/ Aborted("docker")
  \/ Changed("config", "daemon", {"config"}) \/ Aborted("config")

CyberGymDaemon ==
  \/ Spawn("cybergym", "daemon", "daemon_known", "daemon")
  \/ Record("cybergym", "daemon_known", "daemon_wait", "daemon")
  \/ Ready("cybergym", "daemon_wait", "images")
  \/ NotReady("cybergym", "daemon_wait", "trap", "daemon")
  \/ Aborted("daemon_wait")

CyberGymImages ==
  \/ Skip("cybergym", "images", "server", "trap")
  \/ Aborted("images")

CyberGymServer ==
  \/ Spawn("cybergym", "server", "server_known", "server")
  \/ Record("cybergym", "server_known", "server_wait", "server")
  \/ Ready("cybergym", "server_wait", "agent")
  \/ NotReady("cybergym", "server_wait", "trap", "server")

\* Under timeout(1); its status is kept, never an error.
CyberGymAgent ==
  \/ Spawn("cybergym", "agent", "wait", "agent")
  \/ Trapped("agent")
  \/ \E ending \in {"ok", "failed", "killed"} : Waited("cybergym", "wait", "discover", ending)
  \/ TimedOut("cybergym", "wait", "discover")

CyberGymDiscover == Skip("cybergym", "discover", "verify", "trap")

\* The newest args.json of the session's log directory, an earlier attempt's perhaps.
AgentResult == Newest(Left)

\* Verified means the verifier ended with 0 for that agent; a failed one is not an error.
CyberGymVerify ==
  \/ /\ AgentResult # {}
     /\ Record("cybergym", "verify", "final", "verified")
  \/ /\ At("cybergym", "verify") /\ Goto("final") /\ KeepAll
  \/ AgentResult # {} /\ Trapped("verify")

RolloutStatus(trajectory, timedOut) ==
  IF timedOut THEN "truncated"
  ELSE IF AgentResult # {} /\ "verified" \in known /\ native = "ok" /\ trajectory
       THEN "succeeded" ELSE "failed"

\* There is no reward: the rule evaluator reads the PoC database, if there was a verification.
\* It timed out if its status or the end of its output says so.
CyberGymFinal ==
  \E trajectory, timedOut \in BOOLEAN :
    LET status == RolloutStatus(trajectory, timedOut)
    IN /\ native = "timeout" => timedOut
       /\ SetResult("cybergym", "final", "file",
                    IF "verified" \in known THEN Scored(status, FALSE, AgentResult)
                                            ELSE Failed(status))

\* Written where the episode is known to put it, then said.
WritesThen(at, l) ==
  /\ At("cybergym", at) /\ Goto(l)
  /\ file' = IF "episode" \in known THEN result ELSE file
  /\ UNCHANGED <<session, children, verdict, evidence, line, exit, rest>>

CyberGymEmit ==
  \/ WritesThen("file", "line") \/ Trapped("file")
  \/ PrintLine("cybergym", "line", "clean")

\* emit_unexpected_failure: an error of the writer is ignored, and the script exits with 0.
CyberGymTrap ==
  \/ SetResult("cybergym", "trap", "trap_file", Failed("failed"))
  \/ WritesThen("trap_file", "line")
  \/ At("cybergym", "trap_file") /\ Raise("clean") /\ KeepAll

CyberGymAbort ==
  /\ At("cybergym", "abort") /\ Goto("clean")
  /\ mode' = "unwind"
  /\ UNCHANGED <<session, children, verdict, evidence, outputs, published, host, stuck, dialogue>>

\* The EXIT trap runs at once, without waiting for the command of the moment; a second
\* signal while it runs ends the script, which is Killed.
CyberGymSignal ==
  /\ runner = "cybergym" /\ pc \notin {"main", "exited"} /\ signals < MaxSignals
  /\ mode # "handler" /\ mode' = "handler" /\ signals' = signals + 1 /\ pc' = "clean"
  /\ UNCHANGED <<session, faults, children, verdict, evidence, outputs, published, host, stuck, dialogue>>

\* cleanup: the server, the daemon, its configuration (an error is ignored).
CyberGymCleanup ==
  \/ /\ At("cybergym", "clean") /\ Goto("clean_daemon")
     /\ alive' = alive \ (known \cap {"server"})
     /\ UNCHANGED <<known, verdict>> /\ Keep
  \/ /\ At("cybergym", "clean_daemon") /\ Goto("clean_config")
     /\ alive' = alive \ (known \cap {"daemon"})
     /\ UNCHANGED <<known, verdict>> /\ Keep
  \/ /\ At("cybergym", "clean_config") /\ Goto("end")
     /\ host' = IF "config" \in known THEN {} ELSE host
     /\ UNCHANGED <<session, children, verdict, evidence, outputs, published, mode, stuck, dialogue>>
  \/ "config" \in known /\ Sticks("cybergym", "clean_config", "end", "config")

CyberGymExit ==
  Exit("cybergym", "end", CASE mode = "run"    -> "done"
                            [] mode = "unwind" -> "traceback"
                            [] OTHER           -> "signalled")

CyberGymNext ==
  \/ CyberGymRequest \/ CyberGymPrepare \/ CyberGymDocker \/ CyberGymDaemon \/ CyberGymImages
  \/ CyberGymServer \/ CyberGymAgent \/ CyberGymDiscover \/ CyberGymVerify \/ CyberGymFinal
  \/ CyberGymEmit \/ CyberGymTrap \/ CyberGymAbort \/ CyberGymCleanup \/ CyberGymExit
=============================================================================
