--------------------------- MODULE NestedRunners ---------------------------
(***************************************************************************)
(* The runners that start a Docker daemon inside their container:          *)
(* exploitgym, harbor and livecvebench.  The first two clean up in a       *)
(* handler of SIGTERM as well as in their finally clause; the handler      *)
(* leaves with SystemExit, which `except Exception' does not catch.        *)
(***************************************************************************)
EXTENDS Episode

Handling == {"exploitgym", "harbor"}

\* Labels outside the try statement; the clean_ labels are its finally clause.
AfterTry == {"file", "line", "end", "exited"}
Cleaning == {"clean", "clean_aslr", "clean_services", "clean_firewall", "clean_daemon", "clean_end"}

\* Where exploitgym's cleanup is at work, already marked done.
Working == {"clean_aslr", "clean_services", "clean_firewall", "clean_daemon"}

\* handler_try: the signal came inside the try statement, whose finally clause is still to
\* run.  interrupted: it came while exploitgym's cleanup was at work; every later call of
\* cleanup, by this handler or by a finally clause, finds it marked done.
Modes == {"run", "handler_try", "handler", "unwind", "interrupted"}

\* stop: cleanup, called from wherever the program was.
Stop ==
  /\ runner \in Handling /\ pc # "exited" /\ signals < MaxSignals
  /\ signals' = signals + 1 /\ pc' = "clean"
  /\ mode' = IF mode = "interrupted" \/ (runner = "exploitgym" /\ pc \in Working)
             THEN "interrupted"
             ELSE CASE mode = "run" /\ pc \notin AfterTry \cup Cleaning -> "handler_try"
                    [] mode = "handler_try" -> "handler_try"
                    [] OTHER -> "handler"
  /\ UNCHANGED <<session, faults, children, verdict, evidence, outputs, published, host, stuck, dialogue>>

\* Without a handler, or by SIGKILL, the program is gone at once, and its container with it.
Killed ==
  /\ pc # "exited" /\ signals < MaxSignals
  /\ signals' = signals + 1 /\ pc' = "exited" /\ exit' = "killed"
  /\ alive' = {} /\ known' = {} /\ host' = {} /\ stuck' = {} /\ mode' = "run"
  /\ UNCHANGED <<session, faults, verdict, evidence, file, line, published, dialogue>>

\* Mutant: the handler returns to the program.
CleanEndAgain ==
  /\ runner \in Handling /\ pc = "clean_end"
  /\ UNCHANGED <<session, faults, signals, children, verdict, evidence, file, line, published, host, stuck, dialogue>>
  /\ CASE mode = "run"         -> pc' = "file" /\ UNCHANGED <<exit, mode>>
       [] mode = "handler_try" -> pc' = "clean" /\ UNCHANGED <<exit, mode>>
       [] OTHER                -> pc' = "exited" /\ exit' = "signalled" /\ UNCHANGED mode

\* After the cleanup: on past the finally clause, into it, or out of the program.
CleanEnd ==
  /\ runner \in Handling /\ pc = "clean_end"
  /\ UNCHANGED <<session, faults, signals, children, verdict, evidence, file, line, published, host, stuck, dialogue>>
  /\ CASE mode = "run"         -> pc' = "file" /\ UNCHANGED <<exit, mode>>
       [] mode = "handler_try" -> pc' = "clean" /\ mode' = "unwind" /\ UNCHANGED exit
       [] OTHER                -> pc' = "exited" /\ exit' = "signalled" /\ UNCHANGED mode

\* What is left of the host and of the processes after a step of a cleanup.
Undo(r, at, l, processes, changes) ==
  /\ At(r, at) /\ Goto(l)
  /\ alive' = alive \ processes
  /\ host' = host \ changes
  /\ UNCHANGED <<session, known, verdict, evidence, outputs, published, mode, stuck, dialogue>>

-----------------------------------------------------------------------------
(* exploitgym *)
Services == {"controller", "relay", "proxy", "proxy_relay"}

\* The path of the result file is part of what is resolved.
ExploitGymResolve ==
  \/ Record("exploitgym", "main", "prepare", "result_path")
  \/ At("exploitgym", "main") /\ Raise("except") /\ KeepAll

\* A daemon that answers already is used as it is.
ExploitGymDocker ==
  \/ Skip("exploitgym", "prepare", "aslr", "except")
  \/ Spawn("exploitgym", "prepare", "daemon_known", "daemon")
  \/ Record("exploitgym", "daemon_known", "daemon_wait", "daemon")
  \/ Ready("exploitgym", "daemon_wait", "aslr")
  \/ NotReady("exploitgym", "daemon_wait", "except", "daemon")

\* The setting is read for the cleanup, then changed.
ExploitGymAslr ==
  \/ Record("exploitgym", "aslr", "aslr_set", "aslr")
  \/ /\ At("exploitgym", "aslr_set") /\ Goto("images")
     /\ host' = host \cup {"aslr"}
     /\ UNCHANGED <<session, children, verdict, evidence, outputs, published, mode, stuck, dialogue>>
  \/ pc \in {"aslr", "aslr_set"} /\ At("exploitgym", pc) /\ Raise("except") /\ KeepAll

ExploitGymImages == Skip("exploitgym", "images", "firewall", "except")

\* A start that fails may have put up part of it.
ExploitGymFirewall ==
  /\ At("exploitgym", "firewall") /\ Try("controller", "except")
  /\ host' = host \cup {"firewall"}
  /\ UNCHANGED <<session, children, verdict, evidence, outputs, published, mode, stuck, dialogue>>

\* _start: the process is on the list of the cleanup, then it must answer.
ExploitGymStart(p, starting, waiting, next) ==
  \/ Spawn("exploitgym", p, starting, p)
  \/ Record("exploitgym", starting, waiting, p)
  \/ Ready("exploitgym", waiting, next)
  \/ NotReady("exploitgym", waiting, "except", p)

ExploitGymController == ExploitGymStart("controller", "controller_known", "controller_wait", "relay")

\* With one gateway only there is no relay.
ExploitGymRelay ==
  \/ ExploitGymStart("relay", "relay_known", "relay_wait", "proxy")
  \/ Skip("exploitgym", "relay", "proxy", "except")

\* The relay of the native gateway alone, or LiteLLM and perhaps a relay before it.
ExploitGymProxy == ExploitGymStart("proxy", "proxy_known", "proxy_wait", "proxy_relay")

ExploitGymProxyRelay ==
  \/ ExploitGymStart("proxy_relay", "proxy_relay_known", "proxy_relay_wait", "bench")
  \/ Ready("exploitgym", "proxy_relay", "bench")

\* The evaluator is part of the program and leaves its verdict when it returns.
ExploitGymBench ==
  \/ /\ At("exploitgym", "bench") /\ Goto("native")
     /\ native' \in {"ok", "failed"}
     /\ \E v \in {"fail", "pass"} : evidence' = [evidence EXCEPT ![attempt] = v]
     /\ UNCHANGED <<session, children, result, outputs, rest>>
  \/ At("exploitgym", "bench") /\ Raise("except") /\ KeepAll

ExploitGymNativeFile == Skip("exploitgym", "native", "get_result", "except")

\* Mutant: the reward does not ask for the evaluator's errors.
ExploitGymResultAnyhow ==
  SetResult("exploitgym", "get_result", "clean",
            Scored(IF native = "ok" THEN "succeeded" ELSE "failed", TRUE, {attempt}))

\* The score counts for the reward only when the evaluator reported no error.
ExploitGymResult ==
  SetResult("exploitgym", "get_result", "clean",
            Scored(IF native = "ok" THEN "succeeded" ELSE "failed", native = "ok", {attempt}))

ExploitGymFailure == SetResult("exploitgym", "except", "clean", Failed("failed"))

\* cleanup runs once: `cleaned' is set before anything is undone.  The firewall is a
\* container, looked for only when Docker answers.  Nobody looks whether Docker answered,
\* or how the two commands that put the host right ended.
ExploitGymCleanup ==
  \/ /\ "cleaned" \notin known /\ Record("exploitgym", "clean", "clean_aslr", "cleaned")
  \/ /\ "cleaned" \in known /\ Undo("exploitgym", "clean", "clean_end", {}, {})
  \/ Undo("exploitgym", "clean_aslr", "clean_services", {},
          IF "aslr" \in known THEN {"aslr"} ELSE {})
  \/ "aslr" \in known /\ Sticks("exploitgym", "clean_aslr", "clean_services", "aslr")
  \/ Undo("exploitgym", "clean_services", "clean_firewall", Services \cap known, {})
  \/ Undo("exploitgym", "clean_firewall", "clean_daemon", {},
          IF "daemon" \in known \ alive THEN {} ELSE {"firewall"})
  \/ Sticks("exploitgym", "clean_firewall", "clean_daemon", "firewall")
  \/ Undo("exploitgym", "clean_daemon", "clean_end", {"daemon"} \cap known, {})

\* Without a path no file is written; when it cannot be written there is no line.
ExploitGymMain ==
  \/ "result_path" \in known /\ WriteFile("exploitgym", "file", "line")
  \/ "result_path" \in known /\ Traceback("exploitgym", "file")
  \/ "result_path" \notin known /\ At("exploitgym", "file") /\ Goto("line") /\ KeepAll
  \/ PrintLine("exploitgym", "line", "end")
  \/ Exit("exploitgym", "end", "done")

-----------------------------------------------------------------------------
(* harbor *)
HarborResolve ==
  \/ filed /\ Skip("harbor", "main", "prepare", "except")
  \/ ~filed /\ At("harbor", "main") /\ Goto("except") /\ KeepAll

HarborDocker ==
  \/ Spawn("harbor", "prepare", "daemon_known", "daemon")
  \/ At("harbor", "prepare") /\ Raise("except") /\ KeepAll
  \/ Record("harbor", "daemon_known", "daemon_wait", "daemon")
  \/ Ready("harbor", "daemon_wait", "bundle")
  \/ NotReady("harbor", "daemon_wait", "except", "daemon")

HarborBundle == Skip("harbor", "bundle", "run", "except")

\* harbor_process is set while Harbor runs, and None again whichever way it ended.
HarborRun ==
  \/ Spawn("harbor", "run", "run_known", "agent")
  \/ Record("harbor", "run_known", "wait", "agent")
  \/ \E ending \in {"ok", "failed", "killed"} : Waited("harbor", "wait", "run_end", ending)
  \/ TimedOut("harbor", "wait", "run_end")
  \/ /\ At("harbor", "run_end") /\ Goto(IF native = "timeout" THEN "settle" ELSE "parse")
     /\ known' = known \ {"agent"}
     /\ UNCHANGED <<alive, verdict>> /\ Keep

\* After a timeout the files must be the same twice, or 30 seconds have gone.
HarborSettle == Skip("harbor", "settle", "parse", "except")

\* Exactly one trial must lie in the job directory, which the attempts of a session
\* share; its result must parse, unless the trial was cancelled: then it may be missing too.
HarborParse ==
  LET timedOut == native = "timeout"
      one      == \/ Cardinality(Written) = 1 /\ (timedOut \/ Written = Judged)
                  \/ timedOut /\ Written = {} /\ Cardinality(Left) = 1
      statuses == IF timedOut THEN {"truncated"}
                  ELSE {"truncated", "failed"} \cup (IF native = "ok" THEN {"succeeded"} ELSE {})
  IN \/ one /\ \E s \in statuses :
                SetResult("harbor", "parse", "clean",
                          IF Judged = {} THEN Failed(s) ELSE Scored(s, s = "succeeded", Judged))
     \/ ~one /\ At("harbor", "parse") /\ Goto("except") /\ KeepAll

HarborFailure == SetResult("harbor", "except", "clean", Failed("failed"))

\* Mutant: it runs once only, like that of exploitgym.
HarborCleanupOnce ==
  \/ "cleaned" \notin known /\ Record("harbor", "clean", "clean_services", "cleaned")
  \/ "cleaned" \in known /\ Undo("harbor", "clean", "clean_end", {}, {})
  \/ Undo("harbor", "clean_services", "clean_daemon", {"agent"} \cap known, {})
  \/ Undo("harbor", "clean_daemon", "clean_end", {"daemon"} \cap known, {})

\* Each field is None once its process is stopped; a second cleanup does what is left.
HarborCleanup ==
  \/ Undo("harbor", "clean", "clean_services", {}, {})
  \/ /\ At("harbor", "clean_services") /\ Goto("clean_daemon")
     /\ alive' = IF "agent" \in known THEN alive \ {"agent"} ELSE alive
     /\ known' = known \ {"agent"}
     /\ UNCHANGED verdict /\ Keep
  \/ /\ At("harbor", "clean_daemon") /\ Goto("clean_end")
     /\ alive' = IF "daemon" \in known THEN alive \ {"daemon"} ELSE alive
     /\ known' = known \ {"daemon"}
     /\ UNCHANGED verdict /\ Keep

HarborMain ==
  \/ WriteFile("harbor", "file", "line")
  \/ filed /\ Traceback("harbor", "file")
  \/ PrintLine("harbor", "line", "end")
  \/ Exit("harbor", "end", "done")

-----------------------------------------------------------------------------
(* livecvebench *)
LiveCveRequest ==
  \/ At("livecvebench", "main") /\ Goto("prepare") /\ KeepAll
  \/ Traceback("livecvebench", "main")

LiveCvePrepare == Skip("livecvebench", "prepare", "docker", "except")

\* A daemon that does not answer in time is asked to end, not waited for, and not returned.
LiveCveDocker ==
  \/ Skip("livecvebench", "docker", "run", "except")
  \/ Spawn("livecvebench", "docker", "daemon_wait", "daemon")
  \/ Record("livecvebench", "daemon_wait", "run", "daemon")
  \/ NotReady("livecvebench", "daemon_wait", "except", "daemon")

LiveCveRun ==
  \/ Spawn("livecvebench", "run", "wait", "agent")
  \/ \E ending \in {"ok", "failed", "killed"} : Waited("livecvebench", "wait", "collect", ending)
  \/ TimedOut("livecvebench", "wait", "except")

\* The attempts whose run_metadata.json may be the newest: one with a verdict has it.
LatestMetadata ==
  {{n} : n \in {m \in Left : \A k \in Judged : k <= m}} \cup (IF Judged = {} THEN {{}} ELSE {})

\* The newest run_metadata.json of the session's directory and the results beside it, which
\* may not parse.  Without any the score, not the reward, is the metadata's own accuracy.
LiveCveCollect ==
  \E S \in LatestMetadata :
    LET ok == native = "ok" /\ S # {} /\ S \subseteq Written
    IN \E value \in {Scored(IF ok THEN "succeeded" ELSE "failed", ok, S)}
                     \cup (IF S \subseteq Written THEN {}
                           ELSE {[Scored("failed", FALSE, S) EXCEPT !.score = "some"]}) :
         SetResult("livecvebench", "collect", "summary", value)

LiveCveSummary == Skip("livecvebench", "summary", "file", "except")

LiveCveFailure == SetResult("livecvebench", "except", "except_summary", Failed("failed"))

\* Written inside the try, and once more in its except clauses, where nothing catches an error.
LiveCveOut ==
  \/ WriteFile("livecvebench", "file", "line") \/ CannotWrite("livecvebench", "file", "except")
  \/ Skip("livecvebench", "except_summary", "except_file", "stop_raise")
  \/ WriteFile("livecvebench", "except_file", "line")
  \/ CannotWrite("livecvebench", "except_file", "stop_raise")
  \/ PrintLine("livecvebench", "line", "stop")

\* finally
LiveCveStop ==
  \/ Undo("livecvebench", "stop", "end", known, {})
  \/ Undo("livecvebench", "stop_raise", "end_raise", known, {})
  \/ Exit("livecvebench", "end", "done")
  \/ Exit("livecvebench", "end_raise", "traceback")

NestedNext ==
  \/ CleanEnd
  \/ ExploitGymResolve \/ ExploitGymDocker \/ ExploitGymAslr \/ ExploitGymImages
  \/ ExploitGymFirewall \/ ExploitGymController \/ ExploitGymRelay \/ ExploitGymProxy
  \/ ExploitGymProxyRelay \/ ExploitGymBench
  \/ ExploitGymNativeFile \/ ExploitGymResult \/ ExploitGymFailure \/ ExploitGymCleanup
  \/ ExploitGymMain
  \/ HarborResolve \/ HarborDocker \/ HarborBundle \/ HarborRun \/ HarborSettle \/ HarborParse
  \/ HarborFailure \/ HarborCleanup \/ HarborMain
  \/ LiveCveRequest \/ LiveCvePrepare \/ LiveCveDocker \/ LiveCveRun \/ LiveCveCollect
  \/ LiveCveSummary \/ LiveCveFailure \/ LiveCveOut \/ LiveCveStop
=============================================================================
