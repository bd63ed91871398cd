------------------------- MODULE EvaluationRunners -------------------------
(***************************************************************************)
(* The runners that hand the episode to an evaluation in their own         *)
(* container: dtap, clawenvkit, openrt, wildclawbench, cyberrange and      *)
(* openclaw.  None handles a signal.  They differ in which directory of    *)
(* which attempts they read, in what makes a success, and in what an error *)
(* while writing the result comes to.                                      *)
(***************************************************************************)
EXTENDS Episode

\* The end most of them share: an error of the result file is only logged, then the line.
QuietEnd(r) ==
  \/ WriteFile(r, "file", "line") \/ CannotWrite(r, "file", "line")
  \/ PrintLine(r, "line", "end")
  \/ Exit(r, "end", "done")

\* Reading the request and the session id comes before the try statement.
Request(r, l) == Ready(r, "main", l) \/ Traceback(r, "main")

Gives(r, at, l, status) == SetResult(r, at, l, Failed(status))

\* Whose native files lie in the result directory from here on.
Publish(r, at, l, S) ==
  /\ At(r, at) /\ Goto(l)
  /\ published' = S
  /\ UNCHANGED <<session, children, verdict, evidence, outputs, mode, host, stuck, dialogue>>

-----------------------------------------------------------------------------
(* dtap *)
DtapRequest == Request("dtap", "resolve")

DtapResolve == Skip("dtap", "resolve", "run", "except")

DtapRun ==
  \/ Spawn("dtap", "run", "wait", "agent")
  \/ \E ending \in {"ok", "failed", "killed"} : Waited("dtap", "wait", "collect", ending)
  \/ TimedOut("dtap", "wait", "except")

\* The directory is that of the session: the newest judgement that parses counts, and a
\* failed evaluation is forgiven when there is a judgement or a trajectory.
DtapCollect ==
  \E judgedOrTraced, logged \in BOOLEAN :
    LET ok == (native = "ok" \/ judgedOrTraced) /\ logged
    IN /\ Written # {} => judgedOrTraced
       /\ Left = {} => ~judgedOrTraced /\ ~logged
       /\ SetResult("dtap", "collect", "persist",
                    Scored(IF ok THEN "succeeded" ELSE "failed", ok, Newest(Judged)))

DtapPersist == Skip("dtap", "persist", "file", "except")

DtapFailure == Gives("dtap", "except", "file", "failed")

DtapOut == QuietEnd("dtap")

-----------------------------------------------------------------------------
(* clawenvkit *)
ClawRequest == Request("clawenvkit", "resolve")

\* The directory the container logs to is emptied, the one of the session is not.
ClawResolve == Skip("clawenvkit", "resolve", "run", "except")

ClawRun ==
  \/ Spawn("clawenvkit", "run", "wait", "agent")
  \/ \E ending \in {"ok", "failed", "killed"} : Waited("clawenvkit", "wait", "copy", ending)
  \/ TimedOut("clawenvkit", "wait", "except_copy")

\* What is there is copied over what an earlier attempt left: gradings and reward, or only
\* one of them, or half of one.
Copies(at, l) ==
  Publish("clawenvkit", at, l, IF attempt \in Judged THEN {attempt}
                               ELSE published \cup ({attempt} \cap Written))

\* A copy that breaks off may have replaced none of the two, one or both, and may have cut
\* short the last.
BrokenCopy(at, l, how) ==
  /\ At("clawenvkit", at) /\ Raise(l) /\ exit' = how
  /\ \/ UNCHANGED <<published, evidence>>
     \/ /\ attempt \in Written
        /\ published' \in {published \cup {attempt}, {attempt}}
        /\ \E v \in {"unreadable", evidence[attempt]} : evidence' = [evidence EXCEPT ![attempt] = v]
  /\ UNCHANGED <<session, children, verdict, file, line, mode, host, stuck, dialogue>>

ClawCopy == Copies("copy", "collect") \/ BrokenCopy("copy", "except", exit)

\* That grading.json or reward.txt exists makes a success, whatever the harness returned,
\* whichever attempt left them, and whether they parse or not; what parses gives the reward.
ClawCollect ==
  LET ok == published # {}
  IN \E S \in SUBSET published :
       /\ ok => S # {}
       /\ SetResult("clawenvkit", "collect", "persist",
                    Scored(IF ok THEN "succeeded" ELSE "failed", ok, S))

ClawPersist == Skip("clawenvkit", "persist", "file", "except")

\* After a timeout the artifacts are copied too, where nothing catches an error.
ClawFailure ==
  \/ Copies("except_copy", "except") \/ BrokenCopy("except_copy", "exited", "traceback")
  \/ Gives("clawenvkit", "except", "file", "failed")

ClawOut == QuietEnd("clawenvkit")

-----------------------------------------------------------------------------
(* openrt *)
OpenRtRequest == Request("openrt", "resolve")

OpenRtResolve == Skip("openrt", "resolve", "run", "except")

OpenRtRun ==
  \/ Spawn("openrt", "run", "wait", "agent")
  \/ \E ending \in {"ok", "failed", "killed"} : Waited("openrt", "wait", "collect", ending)
  \/ TimedOut("openrt", "wait", "except")

\* The mean of the metrics files of the session's directory that parse; that there is one,
\* parsed or not, makes the success.
OpenRtCollect ==
  LET ok == native = "ok" /\ Written # {}
  IN SetResult("openrt", "collect", "file",
               Scored(IF ok THEN "succeeded" ELSE "failed", ok, Written))

OpenRtFailure == Gives("openrt", "except", "file", "failed")

OpenRtOut == QuietEnd("openrt")

-----------------------------------------------------------------------------
(* wildclawbench: native is its error_text *)
\* Before the try statement errors go to the handler around main, which reports them.
WildClawRequest == Skip("wildclawbench", "main", "setup", "except_main")

WildClawMainFailure == Gives("wildclawbench", "except_main", "file", "failed")

WildClawSetup == Skip("wildclawbench", "setup", "gateway", "except")

WildClawGateway ==
  \/ Spawn("wildclawbench", "gateway", "gateway_known", "gateway")
  \/ At("wildclawbench", "gateway") /\ Raise("except") /\ KeepAll
  \/ Record("wildclawbench", "gateway_known", "run", "gateway")

\* A timeout is noted, and what there is graded.
WildClawAgent ==
  \/ Spawn("wildclawbench", "run", "wait", "agent")
  \/ \E ending \in {"ok", "failed", "killed"} : Waited("wildclawbench", "wait", "grade", ending)
  \/ TimedOut("wildclawbench", "wait", "grade")

WildClawGrade ==
  \/ SetResult("wildclawbench", "grade", "collect", Scored("succeeded", TRUE, {attempt}))
  \/ At("wildclawbench", "grade") /\ Raise("except") /\ KeepAll

WildClawCollect == Skip("wildclawbench", "collect", "stop", "except")

WildClawExcept ==
  /\ At("wildclawbench", "except") /\ Goto("stop")
  /\ native' = "failed"
  /\ UNCHANGED <<children, result>> /\ Keep

\* finally: terminated, waited for, and killed when that does not help.
WildClawStop ==
  /\ At("wildclawbench", "stop") /\ Goto("result")
  /\ alive' = alive \ known
  /\ UNCHANGED <<known, verdict>> /\ Keep

\* The score is the reward, of a failed episode too.
WildClawResult ==
  SetResult("wildclawbench", "result", "file",
            [(IF result = None THEN Failed("failed") ELSE result) EXCEPT
               !.status = IF native = "ok" THEN "succeeded" ELSE "failed"])

WildClawOut == QuietEnd("wildclawbench")

-----------------------------------------------------------------------------
(* cyberrange *)
\* Every attempt has a report directory of its own.
CyberRangeResolve ==
  \/ Skip("cyberrange", "main", "key", "except")
  \/ At("cyberrange", "key") /\ Raise("except") /\ KeepAll
  \/ /\ At("cyberrange", "key") /\ Try("run", "except")
     /\ host' = {"key"}
     /\ UNCHANGED <<session, children, verdict, evidence, outputs, published, mode, stuck, dialogue>>

CyberRangeRun ==
  \/ Spawn("cyberrange", "run", "wait", "agent")
  \/ Waited("cyberrange", "wait", "seal", "ok")
  \/ \E ending \in {"failed", "killed"} : Waited("cyberrange", "wait", "except", ending)
  \/ TimedOut("cyberrange", "wait", "except")

CyberRangeSeal ==
  \/ attempt \in Judged /\ Skip("cyberrange", "seal", "publish", "except")
  \/ attempt \notin Judged /\ At("cyberrange", "seal") /\ Goto("except") /\ KeepAll

\* Mutant: an error of the copies is only logged.
CyberRangePublishQuietly ==
  \/ filed /\ Publish("cyberrange", "publish", "result", {attempt})
  \/ Skip("cyberrange", "publish", "result", "result")

\* Beside the result file, one after the other; without one there is no place for them.
CyberRangePublish ==
  \/ filed /\ Publish("cyberrange", "publish", "result", {attempt})
  \/ /\ filed /\ At("cyberrange", "publish") /\ Raise("except")
     /\ published' \in {published, published \cup {attempt}}
     /\ UNCHANGED <<session, children, verdict, evidence, outputs, mode, host, stuck, dialogue>>
  \/ ~filed /\ At("cyberrange", "publish") /\ Goto("result") /\ KeepAll

\* A case that was run is a success, won or lost; the rule evaluator gives the score.
CyberRangeResult ==
  SetResult("cyberrange", "result", "file", Scored("succeeded", FALSE, {attempt}))

CyberRangeFailure == Gives("cyberrange", "except", "except_file", "failed")

\* _emit: the file first.  It may be there although the write raised (chmod comes after it).
EmitFails(at, h) ==
  /\ At("cyberrange", at) /\ filed /\ Raise(h)
  /\ file' \in {file, result}
  /\ UNCHANGED <<session, children, verdict, evidence, line, exit, rest>>

\* Mutant: the file of a failure is written like that of the other programs.
CyberRangeEmitQuietly ==
  \/ WriteFile("cyberrange", "file", "line") \/ EmitFails("file", "except")
  \/ WriteFile("cyberrange", "except_file", "line") \/ EmitFails("except_file", "line")
  \/ PrintLine("cyberrange", "line", "finally")

CyberRangeEmit ==
  \/ WriteFile("cyberrange", "file", "line") \/ EmitFails("file", "except")
  \/ WriteFile("cyberrange", "except_file", "line") \/ EmitFails("except_file", "finally_raise")
  \/ PrintLine("cyberrange", "line", "finally")

RemovesKey(at, l) ==
  \/ /\ At("cyberrange", at) /\ Goto(l)
     /\ host' = {}
     /\ UNCHANGED <<session, children, verdict, evidence, outputs, published, mode, stuck, dialogue>>
  \/ Sticks("cyberrange", at, l, "key")

\* finally: an error of the removal is ignored.
CyberRangeFinally ==
  \/ RemovesKey("finally", "end") \/ RemovesKey("finally_raise", "end_raise")
  \/ Exit("cyberrange", "end", "done")
  \/ Exit("cyberrange", "end_raise", "traceback")

-----------------------------------------------------------------------------
(* openclaw: the agent's own --timeout is the only one, and there is no result file *)
OpenClawPrepare == Skip("openclaw", "main", "run", "except")

\* The exit code of an agent that a signal ended is null, and Number(null || 0) is 0.
OpenClawRun ==
  \/ Spawn("openclaw", "run", "wait", "agent")
  \/ \E ending \in {"ok", "failed", "killed"} :
       Waited("openclaw", "wait", "result", IF ending = "killed" THEN "ok" ELSE ending)

\* Without a verdict on stdout there is no reward, and yet no failure.
OpenClawResult ==
  LET ok == native = "ok" /\ evidence[attempt] # "fail"
  IN SetResult("openclaw", "result", "line",
               Scored(IF ok THEN "succeeded" ELSE "failed", ok, {attempt}))

OpenClawFailure == Gives("openclaw", "except", "line", "failed")

OpenClawOut == PrintLine("openclaw", "line", "end") \/ Exit("openclaw", "end", "done")

EvaluationNext ==
  \/ DtapRequest \/ DtapResolve \/ DtapRun \/ DtapCollect \/ DtapPersist \/ DtapFailure \/ DtapOut
  \/ ClawRequest \/ ClawResolve \/ ClawRun \/ ClawCopy \/ ClawCollect \/ ClawPersist
  \/ ClawFailure \/ ClawOut
  \/ OpenRtRequest \/ OpenRtResolve \/ OpenRtRun \/ OpenRtCollect \/ OpenRtFailure \/ OpenRtOut
  \/ WildClawRequest \/ WildClawMainFailure \/ WildClawSetup \/ WildClawGateway \/ WildClawAgent
  \/ WildClawGrade \/ WildClawCollect \/ WildClawExcept \/ WildClawStop \/ WildClawResult
  \/ WildClawOut
  \/ CyberRangeResolve \/ CyberRangeRun \/ CyberRangeSeal \/ CyberRangePublish \/ CyberRangeResult
  \/ CyberRangeFailure \/ CyberRangeEmit \/ CyberRangeFinally
  \/ OpenClawPrepare \/ OpenClawRun \/ OpenClawResult \/ OpenClawFailure \/ OpenClawOut
=============================================================================
