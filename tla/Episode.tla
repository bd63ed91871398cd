------------------------------ MODULE Episode ------------------------------
(***************************************************************************)
(* What the programs under src/env share.  Each runs one episode in a      *)
(* container of its own: it resolves the request, starts the evaluation as *)
(* a child process, waits for it, makes one result of what it left behind, *)
(* writes the result to SAFACTORY_RESULT_PATH and prints it.  A session    *)
(* may be attempted again: the container is new, the result directory on   *)
(* the shared storage is the old one.                                      *)
(*                                                                         *)
(* NestedRunners, EvaluationRunners, CyberGymRunner and DialogueRunners    *)
(* give the programs, EpisodeRunners puts them together.                   *)
(***************************************************************************)
EXTENDS Naturals, FiniteSets

CONSTANTS None,
          Runners,        \* the programs looked at
          MaxAttempts,    \* bound: how often a session is attempted
          MaxFaults,      \* bound: calls that raise, in all attempts
          MaxSignals,     \* bound: SIGTERMs, in each attempt
          MaxTurns        \* the turns or epochs a dialogue with the model may have

ASSUME EpisodeAssumption ==
  /\ MaxAttempts \in Nat \ {0} /\ MaxFaults \in Nat /\ MaxSignals \in Nat
  /\ MaxTurns \in Nat \ {0}
  /\ None \notin 1..MaxAttempts

VARIABLES
  runner,     \* the program of this session, and
  filed,      \*   whether it is given a SAFACTORY_RESULT_PATH
  attempt, faults, signals,
  pc,         \* where the program is
  alive,      \* the processes it has started that are still there
  known,      \* what it has noted down: processes and settings, mostly for its cleanup
  native,     \* how the evaluation ended, as the program saw it
  evidence,   \* evidence[n]: what the evaluation of attempt n left in the result directory
  result,     \* the local of that name
  file,       \* the contents of SAFACTORY_RESULT_PATH
  line,       \* the result line on stdout
  exit,       \* how the program ended
  published,  \* the attempts whose native artifacts lie in the result directory
  mode,       \* "run", in a signal handler, or on the way out after one
  host,       \* what of the host is changed while the program runs, and
  stuck,      \*   what of it was to be changed back, and was not
  turn,       \* of a dialogue with the model: its turns so far, and
  answer      \*   the answer that would count if it ended now

session  == <<runner, filed, attempt>>
children == <<alive, known>>
verdict  == <<native, result>>
outputs  == <<file, line, exit>>
dialogue == <<turn, answer>>
rest     == <<published, mode, host, stuck, dialogue>>
episodeVars == <<session, faults, signals, pc, children, verdict, evidence, outputs, rest>>

Attempts == 1..MaxAttempts

\* An evaluation leaves nothing, files but none of a verdict, one that cannot be parsed
\* because it is still being written, or a verdict.
Evidence == {"none", "partial", "unreadable", "fail", "pass"}

\* How it ends: with status 0, another status, by a signal, or not in time.
Ending == {"ok", "failed", "killed", "timeout"}

\* reward: the total_reward is positive.  score: what the metrics hold for the rule
\* evaluator.  from: the attempts whose evidence the two rest on.
Result == [status : {"succeeded", "failed", "truncated"}, reward : BOOLEAN,
           score : {"absent", "zero", "some"}, from : SUBSET Attempts, attempt : Attempts]

\* Python's None is no result, and not one of the ways to end.
ASSUME NoneAssumption == None \notin Result \cup {"done", "traceback", "signalled", "killed"}

Failed(status) == [status |-> status, reward |-> FALSE, score |-> "absent",
                   from |-> {}, attempt |-> attempt]

Judged     == {n \in Attempts : evidence[n] \in {"fail", "pass"}}
Written    == {n \in Attempts : evidence[n] \in {"unreadable", "fail", "pass"}}
Left       == {n \in Attempts : evidence[n] # "none"}
Passed(S)  == \E n \in S : evidence[n] = "pass"
Newest(S)  == {n \in S : \A m \in S : m <= n}
Score(S)   == IF Passed(S) THEN "some" ELSE "zero"

\* A verdict drawn from the evidence of the attempts of S.
Scored(status, rewarded, S) ==
  [status |-> status, reward |-> rewarded /\ Passed(S), score |-> Score(S),
   from |-> S, attempt |-> attempt]

\* The programs that do not look at SAFACTORY_RESULT_PATH.
Unfiled == {"cybergym", "openclaw", "strict", "claudecode", "openhands"}

EpisodeInit ==
  /\ runner \in Runners /\ filed \in {FALSE, runner \notin Unfiled} /\ attempt = 1 /\ faults = 0
  /\ signals = 0 /\ pc = "main" /\ alive = {} /\ known = {} /\ native = None /\ result = None
  /\ line = None /\ exit = None /\ mode = "run" /\ host = {} /\ stuck = {}
  /\ evidence = [n \in Attempts |-> "none"]
  /\ file = None /\ published = {} /\ turn = 0 /\ answer = None

-----------------------------------------------------------------------------
(* Steps *)
At(r, l) == runner = r /\ pc = l

Goto(l) == pc' = l /\ UNCHANGED <<faults, signals>>

\* A call raises, and control is at the handler l.
Raise(l) == /\ faults < MaxFaults /\ faults' = faults + 1
            /\ pc' = l /\ UNCHANGED signals

\* A step that goes on at l, or raises and goes on at the handler h.
Try(l, h) == Goto(l) \/ Raise(h)

Keep == UNCHANGED <<session, evidence, outputs, rest>>

KeepAll == UNCHANGED <<children, verdict>> /\ Keep

\* A step of the program that changes none of what the others look at.
Skip(r, at, l, h) == At(r, at) /\ Try(l, h) /\ KeepAll

Spawn(r, at, l, p) ==
  /\ At(r, at) /\ Goto(l)
  /\ alive' = alive \cup {p}
  /\ UNCHANGED <<known, verdict>> /\ Keep

\* What Popen returned is assigned: only now can a cleanup find the process.
Record(r, at, l, p) ==
  /\ At(r, at) /\ Goto(l)
  /\ known' = known \cup {p}
  /\ UNCHANGED <<alive, verdict>> /\ Keep

Ready(r, at, l) == At(r, at) /\ Goto(l) /\ KeepAll

\* It does not answer in time, or it is dead.
NotReady(r, at, h, p) ==
  /\ At(r, at) /\ Raise(h)
  /\ alive' \in {alive, alive \ {p}}
  /\ UNCHANGED <<known, verdict>> /\ Keep

SetResult(r, at, l, value) ==
  /\ At(r, at) /\ Goto(l)
  /\ result' = value
  /\ UNCHANGED <<children, native>> /\ Keep

\* subprocess.run: the child has ended, with the status it returns.
Waited(r, at, l, ending) ==
  /\ At(r, at) /\ Goto(l)
  /\ native' = ending
  /\ alive' = alive \ {"agent"}
  /\ UNCHANGED <<known, result>> /\ Keep

\* subprocess.run raises TimeoutExpired: it kills its child, but not what that started.
TimedOut(r, at, l) ==
  /\ At(r, at) /\ Goto(l)
  /\ native' = "timeout"
  /\ alive' \in {alive \ {"agent"}, (alive \ {"agent"}) \cup {"stray"}}
  /\ UNCHANGED <<known, result>> /\ Keep

\* The result file is replaced by a complete one, if there is to be one.
WriteFile(r, at, l) ==
  /\ At(r, at) /\ Goto(l)
  /\ file' = IF filed THEN result ELSE file
  /\ UNCHANGED <<session, children, verdict, evidence, line, exit, rest>>

CannotWrite(r, at, h) == At(r, at) /\ filed /\ Raise(h) /\ KeepAll

PrintLine(r, at, l) ==
  /\ At(r, at) /\ Goto(l)
  /\ line' = result
  /\ UNCHANGED <<session, children, verdict, evidence, file, exit, rest>>

\* The program ends: "done" with status 0, else by an exception or a signal.
Exit(r, at, how) ==
  /\ At(r, at) /\ Goto("exited")
  /\ exit' = how
  /\ UNCHANGED <<session, children, verdict, evidence, file, line, rest>>

\* An exception leaves main.
Traceback(r, at) ==
  /\ At(r, at) /\ Raise("exited")
  /\ exit' = "traceback"
  /\ UNCHANGED <<session, children, verdict, evidence, file, line, rest>>

\* A change of the host is not taken back, and nobody looks.
Sticks(r, at, l, change) ==
  /\ At(r, at) /\ change \in host /\ Raise(l)
  /\ stuck' = stuck \cup {change}
  /\ UNCHANGED <<session, children, verdict, evidence, outputs, published, mode, host, dialogue>>

-----------------------------------------------------------------------------
(* Around the program *)
\* The programs whose verdict is a file that is written while it may be read.
VerdictFile == {"dtap", "clawenvkit", "openrt", "cyberrange", "harbor", "livecvebench"}

\* The evaluation, or what is left of it, writes what belongs to this attempt.  That of
\* clawenvkit writes to its container, and what is there when it is copied counts.
EvaluationWrites ==
  /\ alive \cap {"agent", "stray"} # {}
  /\ runner = "clawenvkit" => pc \in {"wait", "except_copy"}
  /\ \E v \in Evidence :
       /\ CASE evidence[attempt] = "none"       -> v = "partial"
            [] evidence[attempt] = "partial"    -> v \in {"unreadable", "fail", "pass"}
            [] evidence[attempt] = "unreadable" -> v \in {"fail", "pass"}
            [] OTHER                            -> FALSE
       /\ v = "unreadable" => runner \in VerdictFile
       /\ evidence' = [evidence EXCEPT ![attempt] = v]
  /\ UNCHANGED <<session, faults, signals, pc, children, verdict, outputs, rest>>

\* The container is gone; a new one is started for the same session.
AttemptAgain ==
  /\ pc = "exited" /\ attempt < MaxAttempts
  /\ attempt' = attempt + 1
  /\ signals' = 0 /\ pc' = "main" /\ alive' = {} /\ known' = {} /\ native' = None
  /\ result' = None /\ line' = None /\ exit' = None /\ mode' = "run" /\ host' = {}
  /\ stuck' = {} /\ turn' = 0 /\ answer' = None
  /\ UNCHANGED <<runner, filed, faults, evidence, file, published>>
=============================================================================
