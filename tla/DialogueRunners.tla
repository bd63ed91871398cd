-------------------------- MODULE DialogueRunners --------------------------
(***************************************************************************)
(* The runners that talk to the model themselves: geo3k, and the adapters  *)
(* of PatchEval (strict, claudecode and openhands; the second reads the    *)
(* agent's output as it comes, through a thread and a queue, and counts).  *)
(* PatchEval's adapters write no result file: their result is the line.    *)
(***************************************************************************)
EXTENDS Episode

Answers == {None, "wrong", "right"}

Verdict(a) == IF a = "right" THEN "pass" ELSE "fail"

\* A result that rests on the answer of this attempt.
Answered(r, at, l, rewarded) ==
  /\ At(r, at) /\ Goto(l)
  /\ evidence' = [evidence EXCEPT ![attempt] = Verdict(answer)]
  /\ result' = [status |-> "succeeded", reward |-> rewarded /\ answer = "right",
                score |-> IF answer = "right" THEN "some" ELSE "zero",
                from |-> {attempt}, attempt |-> attempt]
  /\ UNCHANGED <<session, children, native, outputs, rest>>

Fails(r, at, l) == SetResult(r, at, l, Failed("failed"))

Says(r) == PrintLine(r, "line", "end") \/ Exit(r, "end", "done")

Answering == UNCHANGED <<session, children, verdict, evidence, outputs, published, mode, host, stuck>>

-----------------------------------------------------------------------------
(* geo3k *)
Geo3kStart == Skip("geo3k", "main", "turn", "except")

\* The last \boxed answer said in any turn counts.
LatestBoxed(boxed) == IF boxed = None THEN answer ELSE boxed

\* One call of the model, and what is made of its message: a message with a tool call is
\* answered, whatever the tool's name and arguments, up to the cap on the turns; the score
\* the tool tells is not the score of the episode.
Geo3kTurn ==
  \/ At("geo3k", "turn") /\ Raise("except") /\ KeepAll
  \/ \E boxed \in Answers, toolCall \in BOOLEAN :
       /\ At("geo3k", "turn")
       /\ turn' = turn + 1
       /\ answer' = LatestBoxed(boxed)
       /\ Goto(IF toolCall /\ turn' < MaxTurns THEN "turn" ELSE "score")
       /\ Answering

Geo3kScore == Answered("geo3k", "score", "file", TRUE)

Geo3kFailure == Fails("geo3k", "except", "file")

Geo3kOut ==
  \/ WriteFile("geo3k", "file", "line") \/ CannotWrite("geo3k", "file", "line")
  \/ Says("geo3k")

-----------------------------------------------------------------------------
(* strict: one epoch, or with feedback several *)
StrictRequest == Ready("strict", "main", "resolve") \/ Traceback("strict", "main")

StrictResolve ==
  \/ Skip("strict", "resolve", "epoch", "except")
  \/ Record("strict", "resolve", "epoch", "feedback")

\* prepare.sh, the prompt and the call of the model.  What the parser or the replacement
\* cannot use is no patch; other errors end the episode.
StrictEpoch ==
  \/ At("strict", "epoch") /\ Raise("except") /\ KeepAll
  \/ /\ At("strict", "epoch") /\ Goto("scripts")
     /\ turn' = turn + 1 /\ answer' \in Answers
     /\ Answering

\* The scripts of the task; without a patch none is run.
StrictScripts ==
  \/ answer # None /\ At("strict", "scripts") /\ Raise("except") /\ KeepAll
  \/ Ready("strict", "scripts",
           IF answer = "right" \/ "feedback" \notin known \/ turn = MaxTurns
           THEN "result" ELSE "epoch")

StrictResult == Answered("strict", "result", "line", FALSE)

StrictFailure == Fails("strict", "except", "line")

StrictOut == Says("strict")

-----------------------------------------------------------------------------
(* claudecode: turn counts the tool calls read, MaxTurns is their limit *)
ClaudeRequest == Ready("claudecode", "main", "prepare") \/ Traceback("claudecode", "main")

ClaudePrepare == Skip("claudecode", "prepare", "run", "except")

ClaudeRun ==
  \/ Spawn("claudecode", "run", "read", "agent")
  \/ At("claudecode", "run") /\ Raise("except") /\ KeepAll

Reads(l, ending) ==
  /\ At("claudecode", "read") /\ Goto(l)
  /\ native' = ending
  /\ UNCHANGED <<children, result>> /\ Keep

\* Mutant: reaching the limit does not end the reading.
ClaudeLineUnlimited ==
  /\ At("claudecode", "read") /\ Goto("read")
  /\ \E calls \in 1..2 : turn' = turn + calls
  /\ UNCHANGED <<session, children, verdict, evidence, outputs, published, mode, host, stuck, answer>>

\* A line with tool calls, perhaps with several.
ClaudeLine ==
  /\ At("claudecode", "read")
  /\ \E calls \in 1..2 : turn' = turn + calls
  /\ native' = IF turn' >= MaxTurns THEN "killed" ELSE native
  /\ Goto(IF turn' >= MaxTurns THEN "wait" ELSE "read")
  /\ UNCHANGED <<session, children, result, evidence, outputs, published, mode, host, stuck, answer>>

\* A line that is JSON but no object is not expected, and raises.
ClaudeStrangeLine == At("claudecode", "read") /\ Raise("except") /\ KeepAll

\* The stream is closed, or nothing came for a second and the process is gone.
ClaudeStreamEnds == \E ending \in {"ok", "failed", "killed"} : Reads("wait", ending)

ClaudeDeadline == Reads("wait", "timeout")

\* The process is waited for and killed, what it started is not.  Even so it may not go.
ClaudeWait ==
  \/ /\ At("claudecode", "wait") /\ Goto("patch")
     /\ alive' \in {alive \ {"agent"}, (alive \ {"agent"}) \cup {"stray"}}
     /\ UNCHANGED <<known, verdict>> /\ Keep
  \/ At("claudecode", "wait") /\ Raise("except") /\ KeepAll

\* The patch is the first patch file, else the difference of the work tree.
ClaudePatch ==
  \/ SetResult("claudecode", "patch", "line", Scored("succeeded", FALSE, {attempt}))
  \/ At("claudecode", "patch") /\ Raise("except") /\ KeepAll

ClaudeFailure == Fails("claudecode", "except", "line")

ClaudeOut == Says("claudecode")

-----------------------------------------------------------------------------
(* openhands *)
OpenHandsRequest == Ready("openhands", "main", "prepare") \/ Traceback("openhands", "main")

OpenHandsPrepare == Skip("openhands", "prepare", "run", "except")

OpenHandsRun ==
  \/ Spawn("openhands", "run", "wait", "agent")
  \/ At("openhands", "run") /\ Raise("except") /\ KeepAll
  \/ \E ending \in {"ok", "failed", "killed"} : Waited("openhands", "wait", "patch", ending)
  \/ TimedOut("openhands", "wait", "patch")

OpenHandsPatch ==
  \/ SetResult("openhands", "patch", "line", Scored("succeeded", FALSE, {attempt}))
  \/ At("openhands", "patch") /\ Raise("except") /\ KeepAll

OpenHandsFailure == Fails("openhands", "except", "line")

OpenHandsOut == Says("openhands")

DialogueNext ==
  \/ Geo3kStart \/ Geo3kTurn \/ Geo3kScore \/ Geo3kFailure \/ Geo3kOut
  \/ StrictRequest \/ StrictResolve \/ StrictEpoch \/ StrictScripts \/ StrictResult
  \/ StrictFailure \/ StrictOut
  \/ ClaudeRequest \/ ClaudePrepare \/ ClaudeRun \/ ClaudeLine \/ ClaudeStrangeLine \/ ClaudeStreamEnds
  \/ ClaudeDeadline \/ ClaudeWait \/ ClaudePatch \/ ClaudeFailure \/ ClaudeOut
  \/ OpenHandsRequest \/ OpenHandsPrepare \/ OpenHandsRun \/ OpenHandsPatch
  \/ OpenHandsFailure \/ OpenHandsOut
=============================================================================
