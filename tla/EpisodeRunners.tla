--------------------------- MODULE EpisodeRunners ---------------------------
(***************************************************************************)
(* The programs under src/env together, each with the faults it may meet,  *)
(* SIGTERM and SIGKILL, and the further attempts of its session.           *)
(***************************************************************************)
EXTENDS NestedRunners, EvaluationRunners, DialogueRunners, CyberGymRunner, RuleEvaluators

RunnerNext == NestedNext \/ EvaluationNext \/ DialogueNext \/ CyberGymNext

\* Steps nothing in the code brings about in the end: the agents these two wait for have
\* no timeout in the program.
Unforced == At("openclaw", "wait") \/ At("exploitgym", "bench")

Next ==
  \/ RunnerNext
  \/ Stop \/ Killed \/ CyberGymSignal
  \/ EvaluationWrites \/ AttemptAgain

Spec == EpisodeInit /\ [][Next]_episodeVars

FairSpec == Spec /\ WF_episodeVars(~Unforced /\ RunnerNext)

-----------------------------------------------------------------------------
(* Properties *)
EpisodeTypeOK ==
  /\ runner \in Runners /\ filed \in BOOLEAN /\ attempt \in Attempts
  /\ faults \in 0..MaxFaults /\ signals \in 0..MaxSignals /\ mode \in Modes
  /\ native \in Ending \cup {None} /\ result \in Result \cup {None}
  /\ evidence \in [Attempts -> Evidence]
  /\ file \in Result \cup {None} /\ line \in Result \cup {None}
  /\ exit \in {None, "done", "traceback", "signalled", "killed"}
  /\ published \in SUBSET Attempts
  /\ turn \in 0..MaxTurns + 1 /\ answer \in Answers

\* A program that ends by itself with status 0 has said the result of this attempt; one
\* that ends with a traceback has said none; and whatever is said is also what the result
\* file of this attempt holds, whichever handler wrote it, and after however many errors.
\* The one exception is cybergym's trap, which swallows an error of its own writer.
ResultIsSaid ==
  /\ exit = "done" =>
       \/ line # None /\ line.attempt = attempt
       \/ runner = "cybergym" /\ line = None /\ result.status = "failed"
  /\ exit = "traceback" => line = None
  /\ line # None /\ file # None /\ file.attempt = attempt => file = line

\* The programs that read a verdict before they say "succeeded", and those that only look
\* whether its file is there: these say it of one that does not parse, with no reward.
Judging == {"harbor", "cyberrange", "exploitgym"}
Asking  == {"livecvebench", "openrt", "clawenvkit"}

\* The programs in which a failed evaluation is a failed episode.
Strict == (Judging \cup Asking \cup {"cybergym", "wildclawbench", "openclaw"}) \ {"clawenvkit"}

\* A result that says "succeeded" comes after an evaluation of this attempt that ended by
\* itself and well; it rests on verdicts that were complete when it was made, or, in the
\* programs that only ask for its file, on a verdict somebody had at least begun to write;
\* and when cyberrange's result file says so, none of the native artifacts beside it is older
\* than it.
SuccessIsEarned ==
  /\ line # None /\ line.status = "succeeded" =>
       /\ runner \in Strict => native = "ok"
       /\ runner \in Judging => line.from # {} /\ line.from \subseteq Judged
       /\ runner \in Asking => line.from # {} /\ line.from \subseteq Written
  /\ runner = "cyberrange" /\ file # None /\ file.status = "succeeded" =>
       published # {} /\ \A n \in published : n >= file.attempt

\* The programs that look at nothing an earlier attempt left.
Fresh == {"exploitgym", "wildclawbench", "cyberrange", "openclaw", "geo3k", "strict",
          "claudecode", "openhands"}

\* A reward, or a score above zero, is backed by a verdict that passed, of this very attempt
\* where the directories are its own; the one exception is the score of a failed livecvebench
\* episode, which may be the accuracy its metadata claims.  Only wildclawbench rewards an
\* episode that failed, and a rule evaluator that looks at the status scores only a success.
RewardIsBacked ==
  line # None =>
    LET scored == "some" \in RuleScore(line)
    IN /\ line.reward => Passed(line.from)
       /\ scored => Passed(line.from) \/ (runner = "livecvebench" /\ line.status = "failed")
       /\ runner \in Fresh => line.from \subseteq {attempt}
       /\ line.reward => line.status = "succeeded" \/ runner = "wildclawbench"
       /\ scored /\ runner \in {"harbor", "exploitgym"} => line.status = "succeeded"

\* However a program ends, short of being killed, no process it had noted down is left, and
\* whatever it had changed of the host, its firewall, address randomisation, daemon
\* configuration and key file, it has tried to change back: what is left is what did not let
\* itself be removed.  The one exception is an exploitgym whose cleanup a signal broke off;
\* but even then its daemon never goes before the firewall, which could not be removed
\* without it.
CleanedUp ==
  /\ exit \in {"done", "traceback", "signalled"} /\ mode # "interrupted" =>
       alive \cap known = {} /\ host \subseteq stuck
  /\ runner = "exploitgym" /\ "daemon" \in known \ alive => "firewall" \notin host \ stuck

\* Every episode ends, whatever fails on its way and whenever a SIGTERM comes, if its
\* evaluation is one the program gives a time to.
EpisodeEnds ==
  pc = "main" /\ runner \notin {"openclaw", "exploitgym"} ~> pc = "exited"
=============================================================================
