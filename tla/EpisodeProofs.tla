---------------------------- MODULE EpisodeProofs ----------------------------
(***************************************************************************)
(* The episodes of all the programs, for every number of attempts, faults, *)
(* signals and turns: an inductive invariant that says, label by label,    *)
(* what a program holds, and from it the safety properties of              *)
(* EpisodeRunners.                                                         *)
(*                                                                         *)
(* And the time the phases of a cybergym episode are given, for every      *)
(* length of the episode and every configured timeout: left is what        *)
(* remains of the episode when its phases are first asked about, in        *)
(* seconds; delay is what passes between two such questions besides the    *)
(* phases themselves.                                                      *)
(***************************************************************************)
EXTENDS EpisodeRunners, FiniteSetTheorems, TLAPS

-----------------------------------------------------------------------------
(* Time *)
\* A phase that is given time gets no more than it asks for and than leaves the reserve, and
\* never nothing: to timeout(1), 0 seconds are no limit at all.
LEMMA PhaseBounds ==
  ASSUME None \notin Int,
         NEW configured \in Int, NEW reserve \in Int, NEW minimum \in Int, NEW left \in Int
  PROVE  LET given == PhaseTimeout(configured, reserve, minimum, left)
         IN /\ given = None <=> left - reserve < minimum
            /\ given # None =>
                 /\ given \in {configured, left - reserve}
                 /\ given <= configured /\ given <= left - reserve
                 /\ configured > 0 /\ minimum > 0 => given > 0
BY DEF PhaseTimeout

\* If the agent has time at all, so has its process, and more of it, unless two minutes pass
\* between the two questions: it is the agent's own timeout that ends a slow agent, and the
\* process is stopped only when that does not.
THEOREM AgentEndsFirst ==
  ASSUME None \notin Int,
         NEW agent \in Nat \ {0}, NEW verify \in Nat \ {0}, NEW left \in Int,
         NEW delay \in 0..119,
         AgentTimeout(agent, verify, left) # None
  PROVE  LET given   == AgentTimeout(agent, verify, left)
             process == ProcessTimeout(given, verify, left - delay)
         IN process # None /\ given > 0 /\ given < process
<1> DEFINE given   == AgentTimeout(agent, verify, left)
           process == ProcessTimeout(given, verify, left - delay)
<1>1. given \in Int /\ given > 0 /\ given <= left - (verify + 180)
  BY PhaseBounds DEF AgentTimeout
<1>2. left - (verify + 180) >= 60
  BY PhaseBounds DEF AgentTimeout
<1> HIDE DEF given
<1>3. given + 120 \in Int /\ verify + 60 \in Int /\ left - delay \in Int
  BY <1>1
<1>4. process # None
  <2>1. ~((left - delay) - (verify + 60) < 60)
    BY <1>2
  <2>2. QED
    BY <1>3, <2>1, PhaseBounds DEF ProcessTimeout
<1>5. process \in {given + 120, left - delay - (verify + 60)}
  BY <1>3, <1>4, PhaseBounds DEF ProcessTimeout
<1>6. QED
  BY <1>1, <1>4, <1>5 DEF given

\* The reserves are enough: after an agent that used all the time of its process, and had to
\* be killed, the verification still gets its configured time but for the delay, and it ends,
\* killed if need be, before the episode does.
THEOREM VerificationHasTime ==
  ASSUME None \notin Int,
         NEW agent \in Nat \ {0}, NEW verify \in Nat \ {0}, NEW left \in Int,
         ProcessTimeout(agent, verify, left) # None,
         NEW spent \in Nat, spent <= ProcessTimeout(agent, verify, left) + KillAfter,
         NEW delay \in Nat, verify >= delay + 30
  PROVE  LET then  == left - spent - delay
             given == VerifyTimeout(verify, then)
         IN given # None /\ given >= verify - delay /\ given + KillAfter <= then
<1> DEFINE process == ProcessTimeout(agent, verify, left)
           then    == left - spent - delay
           given   == VerifyTimeout(verify, then)
<1>1. process \in Int /\ process <= left - (verify + 60)
  BY PhaseBounds DEF ProcessTimeout
<1>2. then \in Int /\ then >= verify + 30 - delay
  BY <1>1 DEF KillAfter
<1> HIDE DEF then
<1>3. given # None
  BY <1>2, PhaseBounds DEF VerifyTimeout
<1>4. given \in {verify, then - 30} /\ given <= then - 30
  BY <1>2, <1>3, PhaseBounds DEF VerifyTimeout
<1>5. QED
  BY <1>2, <1>3, <1>4 DEF KillAfter, then

-----------------------------------------------------------------------------
(* The inductive invariant *)
\* What no label decides.
Typed ==
  /\ runner \in Runners /\ filed \in BOOLEAN /\ attempt \in Attempts
  /\ faults \in 0..MaxFaults /\ signals \in 0..MaxSignals /\ mode \in Modes
  /\ native \in Ending \cup {None} /\ result \in Result \cup {None}
  /\ evidence \in [Attempts -> Evidence]
  /\ file \in Result \cup {None} /\ line \in Result \cup {None}
  /\ exit \in {None, "done", "traceback", "signalled", "killed"}
  /\ published \in SUBSET Attempts

\* A dialogue that may go on is below its cap.
TurnInv ==
  /\ turn \in 0..MaxTurns + 1 /\ answer \in Answers
  /\ pc = "main" => turn = 0
  /\ runner = "geo3k" /\ pc = "turn" => turn < MaxTurns
  /\ runner = "claudecode" /\ pc \in {"prepare", "run", "read"} => turn < MaxTurns
  /\ runner = "strict" /\ pc \in {"resolve", "epoch"} => turn < MaxTurns
  /\ runner = "strict" /\ pc = "scripts" => turn <= MaxTurns

\* Where the result is there and final.
Holding ==
  \/ pc \in {"file", "line", "persist", "summary", "except_file", "except_summary", "trap_file"}
  \/ runner \in Handling /\ pc \in Cleaning /\ mode = "run"

\* Where the line may have been printed.
Printed ==
  \/ pc \in {"end", "exited"}
  \/ At("cyberrange", "finally") \/ At("livecvebench", "stop")
  \/ runner \in Handling /\ pc \in Cleaning /\ mode \in {"handler", "interrupted"}
  \/ runner = "cybergym" /\ pc \in {"clean", "clean_daemon", "clean_config"} /\ mode # "unwind"

\* Where a program is tells whether it has a result, and has said it.
SaysInv ==
  /\ exit = None <=> pc # "exited"
  /\ runner \in Handling /\ mode # "run" => pc \in Cleaning \cup {"exited"}
  /\ runner = "cybergym" /\ mode # "run" =>
       pc \in {"clean", "clean_daemon", "clean_config", "end", "exited"}
  /\ result # None => result.attempt = attempt
  /\ line # None => line.attempt = attempt /\ Printed
  /\ Holding => result # None
  /\ pc \in {"end", "finally"} /\ runner # "cybergym" => line # None
  /\ At("livecvebench", "stop") => line # None
  /\ runner = "cybergym" /\ pc \in {"clean", "clean_daemon", "clean_config", "end"} =>
       /\ mode = "run" => line # None \/ result.status = "failed"
       /\ mode = "unwind" => line = None
  /\ At("cybergym", "trap_file") => result.status = "failed"
  /\ exit = "done" => line # None \/ (runner = "cybergym" /\ result.status = "failed")
  /\ exit = "traceback" => line = None

\* A file of this attempt holds what is said, or is about to be, or nothing will be said;
\* and cyberrange's native artifacts are there before its file.
FileInv ==
  /\ ~filed /\ runner # "cybergym" => file = None
  /\ file # None => file.attempt <= attempt
  /\ file # None /\ file.attempt = attempt =>
       IF line # None THEN file = line
       ELSE \/ pc = "line" /\ file = result
            \/ pc = "exited"
            \/ /\ runner = "cyberrange"
               /\ pc \in {"except", "except_file", "finally_raise", "end_raise"}
            \/ runner \in Handling \cup {"cybergym"} /\ mode # "run"
  /\ runner = "cyberrange" =>
       /\ \A n \in published : n <= attempt
       /\ filed /\ pc \in {"result", "file"} => published = {attempt}
       /\ pc = "except_file" => result.status = "failed"
       /\ file # None /\ file.status = "succeeded" =>
            published # {} /\ \A n \in published : n >= file.attempt

Earned(r) ==
  r.status = "succeeded" =>
    /\ runner \in Strict => native = "ok"
    /\ runner \in Judging => r.from # {} /\ r.from \subseteq Judged
    /\ runner \in Asking => r.from # {} /\ r.from \subseteq Written

Backed(r) ==
  /\ r.reward => Passed(r.from)
  /\ r.score = "some" => Passed(r.from) \/ (runner = "livecvebench" /\ r.status = "failed")
  /\ runner \in Fresh => r.from \subseteq {attempt}
  /\ r.reward => r.status = "succeeded" \/ runner = "wildclawbench"

\* Every result is earned from where it is final; wildclawbench's gets its status last.
\* A program that asks for a verdict of this attempt has it when it makes its result.
EarnInv ==
  /\ runner = "wildclawbench" /\ result # None => Backed(result)
  /\ Holding => Earned(result) /\ Backed(result)
  /\ line # None => Earned(line) /\ Backed(line)
  /\ runner = "exploitgym" /\ pc \in {"native", "get_result"} => attempt \in Judged
  /\ runner = "clawenvkit" => published \subseteq Written
  /\ runner = "cyberrange" =>
       /\ pc \in {"seal", "publish", "result"} => native = "ok"
       /\ pc \in {"publish", "result"} => attempt \in Judged

Ended  == exit \in {"done", "traceback", "signalled"}
Undone == alive \cap known = {} /\ host \subseteq stuck

\* How far each program has got with its cleanup.
PlainInv ==
  /\ pc = "main" => alive = {} /\ known = {} /\ host = {}
  /\ runner \notin {"strict", "livecvebench", "wildclawbench", "cyberrange", "harbor", "cybergym",
                   "exploitgym"} => known = {} /\ host = {}
  /\ runner = "strict" => alive = {} /\ host = {}
  /\ runner = "livecvebench" =>
       /\ host = {}
       /\ pc \in {"end", "end_raise"} \/ Ended => alive \cap known = {}
  /\ runner = "wildclawbench" =>
       /\ host = {}
       /\ pc = "except_main" => known = {}
       /\ pc \in {"result", "file", "line", "end"} \/ Ended => alive \cap known = {}
  /\ runner = "cyberrange" =>
       /\ known = {} /\ host \subseteq {"key"}
       /\ pc \in {"end", "end_raise"} \/ Ended => host \subseteq stuck
  /\ runner = "harbor" =>
       /\ host = {} /\ known \subseteq {"daemon", "agent"}
       /\ pc \in {"clean_daemon", "clean_end", "file", "line", "end"} \/ Ended =>
            "agent" \notin known
       /\ pc \in {"clean_end", "file", "line", "end"} \/ Ended => "daemon" \notin known
  /\ runner = "cybergym" =>
       /\ host \subseteq known \cap {"config"}
       /\ alive \subseteq {"server", "daemon", "agent", "stray"}
       /\ known \subseteq {"server", "daemon", "config", "episode", "verified"}
       /\ pc \in {"clean_daemon", "clean_config", "end"} \/ Ended =>
            "server" \notin alive \cap known
       /\ pc \in {"clean_config", "end"} \/ Ended => "daemon" \notin alive \cap known
       /\ pc = "end" \/ Ended => host \subseteq stuck

\* exploitgym's cleanup runs once: what it finds marked done is undone, unless a signal broke
\* it off.  It finds all it has to undo: in particular its daemon, which must answer for the
\* firewall to be found, is there as long as the firewall is.
ExploitInv ==
  runner = "exploitgym" =>
    /\ alive \subseteq Services \cup {"daemon"} /\ host \subseteq {"aslr", "firewall"}
    /\ "cleaned" \in known => pc \in Cleaning \cup AfterTry
    /\ pc \in Working \cup {"clean_end", "file", "line", "end"} => "cleaned" \in known
    /\ mode = "unwind" => "cleaned" \in known
    /\ "aslr" \in host \/ pc = "aslr_set" => "aslr" \in known
    /\ pc \in {"prepare", "daemon_known"} => "daemon" \notin known
    /\ pc \in {"daemon_known", "daemon_wait"} => "daemon" \in alive
    /\ pc \in {"prepare", "daemon_known", "daemon_wait", "aslr", "aslr_set", "images",
               "firewall"} => "firewall" \notin host
    /\ pc \in {"aslr", "aslr_set", "images", "firewall"} => "daemon" \notin known \ alive
    /\ "firewall" \in host \ stuck => "daemon" \notin known \ alive
    /\ pc \in {"clean_services", "clean_firewall", "clean_daemon"} => "aslr" \notin host \ stuck
    /\ pc \in {"clean_firewall", "clean_daemon"} => Services \cap known \cap alive = {}
    /\ pc = "clean_daemon" => "firewall" \notin host \ stuck
    /\ mode # "interrupted" =>
         /\ "cleaned" \in known /\ pc \notin Working \cup {"exited"} => Undone
         /\ Ended => Undone

EpisodeInv == Typed /\ TurnInv /\ SaysInv /\ FileInv /\ EarnInv /\ PlainInv /\ ExploitInv

-----------------------------------------------------------------------------
(* Results *)
Statuses == {"succeeded", "failed", "truncated"}

\* The sets of attempts a verdict is drawn from.
LEMMA EvidenceSets ==
  ASSUME Typed
  PROVE  /\ Judged \in SUBSET Attempts /\ Left \in SUBSET Attempts
         /\ Written \in SUBSET Attempts /\ Judged \subseteq Written
         /\ \A S \in SUBSET Attempts : Newest(S) \in SUBSET Attempts /\ Newest(S) \subseteq S
         /\ {attempt} \in SUBSET Attempts
BY DEF Judged, Written, Left, Newest, Typed

\* An attempt is a number, and not None.
LEMMA AttemptNumbers ==
  ASSUME Typed
  PROVE  /\ attempt \in Nat /\ attempt # None /\ \A n \in published : n \in Nat
         /\ \A r \in Result : r # None /\ r.attempt \in Nat
BY EpisodeAssumption, NoneAssumption DEF Typed, Attempts, Result

\* What the two ways to make a result make.
LEMMA ResultValues ==
  ASSUME Typed, NEW s \in Statuses
  PROVE  /\ LET r == Failed(s)
            IN /\ r \in Result /\ r # None /\ r.attempt = attempt /\ r.status = s
               /\ ~r.reward /\ r.score = "absent" /\ r.from = {}
         /\ \A w \in BOOLEAN, S \in SUBSET Attempts :
              LET r == Scored(s, w, S)
              IN /\ r \in Result /\ r # None /\ r.attempt = attempt /\ r.status = s
                 /\ (r.reward <=> w /\ Passed(S)) /\ r.score = Score(S) /\ r.from = S
<1>1. \A S \in SUBSET Attempts : Passed(S) \in BOOLEAN /\ Score(S) \in {"zero", "some"}
  BY DEF Passed, Score
<1>2. Failed(s) \in Result /\ \A w \in BOOLEAN, S \in SUBSET Attempts : Scored(s, w, S) \in Result
  BY <1>1 DEF Typed, Failed, Scored, Result, Statuses
<1> QED BY <1>2, NoneAssumption DEF Failed, Scored

\* When they are backed and earned.
LEMMA ResultBacking ==
  ASSUME Typed, NEW s \in Statuses
  PROVE  /\ Backed(Failed(s)) /\ (s # "succeeded" => Earned(Failed(s)))
         /\ \A w \in BOOLEAN, S \in SUBSET Attempts :
              /\ (w => s = "succeeded" \/ runner = "wildclawbench")
                   /\ (runner \in Fresh => S \subseteq {attempt})
                 => Backed(Scored(s, w, S))
              /\ (s = "succeeded" =>
                    /\ runner \in Strict => native = "ok"
                    /\ runner \in Judging => S # {} /\ S \subseteq Judged
                    /\ runner \in Asking => S # {} /\ S \subseteq Written)
                 => Earned(Scored(s, w, S))
<1>1. Backed(Failed(s)) /\ (s # "succeeded" => Earned(Failed(s)))
  BY ResultValues DEF Backed, Earned
<1>2. ASSUME NEW w \in BOOLEAN, NEW S \in SUBSET Attempts
      PROVE  /\ Scored(s, w, S).reward => Passed(S)
             /\ Scored(s, w, S).score = "some" => Passed(S)
             /\ Scored(s, w, S).reward => w
             /\ Scored(s, w, S).from = S /\ Scored(s, w, S).status = s
  BY ResultValues DEF Score
<1> QED BY <1>1, <1>2 DEF Backed, Earned

-----------------------------------------------------------------------------
(* The steps that decide: where the program makes its result *)
\* A step that sets a result that is backed and, unless the status is still to come, earned.
LEMMA BackedResult ==
  ASSUME EpisodeInv, NEW value \in Result, value.attempt = attempt, Backed(value),
         NEW r, NEW at \in {"get_result", "parse", "collect", "patch", "result", "grade", "final"},
         NEW l \in {"file", "line", "clean", "summary", "persist", "collect"},
         l = "clean" => r \in Handling, l = "collect" => r = "wildclawbench",
         l # "collect" => Earned(value),
         SetResult(r, at, l, value)
  PROVE  Typed' /\ SaysInv' /\ EarnInv'
<1> USE DEF SetResult, At, Goto, Keep, session, children, outputs, rest, dialogue
<1>1. value # None
  BY AttemptNumbers DEF EpisodeInv
<1>2. line = None /\ line' = None
  BY DEF EpisodeInv, SaysInv, Printed, Cleaning
<1>3. Backed(value)' /\ (l # "collect" => Earned(value)')
  BY DEF Backed, Earned, Passed, Judged, Written
<1>4. ~Holding /\ (l = "collect" => ~Holding')
  BY DEF Holding, Cleaning, Handling
<1>5. SaysInv'
  BY <1>1, <1>2, <1>4, NoneAssumption DEF EpisodeInv, SaysInv, Holding, Printed, Cleaning, Handling
<1>6. EarnInv'
  BY <1>1, <1>2, <1>3, <1>4 DEF EpisodeInv, EarnInv, Judged, Written
<1>7. Typed'
  BY DEF EpisodeInv, Typed
<1> QED BY <1>5, <1>6, <1>7

\* One that sets a verdict drawn from evidence.
LEMMA ScoredResult ==
  ASSUME EpisodeInv, NEW s \in Statuses, NEW w \in BOOLEAN, NEW S \in SUBSET Attempts,
         NEW r, NEW at \in {"get_result", "parse", "collect", "patch", "result", "grade", "final"},
         NEW l \in {"file", "line", "clean", "summary", "persist", "collect"},
         l = "clean" => r \in Handling, l = "collect" => r = "wildclawbench",
         w => s = "succeeded" \/ r = "wildclawbench",
         r \in Fresh => S \subseteq {attempt},
         l # "collect" /\ s = "succeeded" =>
           /\ r \in Strict => native = "ok"
           /\ r \in Judging => S # {} /\ S \subseteq Judged
           /\ r \in Asking => S # {} /\ S \subseteq Written,
         SetResult(r, at, l, Scored(s, w, S))
  PROVE  Typed' /\ SaysInv' /\ EarnInv'
<1> DEFINE value == Scored(s, w, S)
<1>1. Typed /\ runner = r
  BY DEF EpisodeInv, SetResult, At
<1>2. value \in Result /\ value.attempt = attempt
  BY <1>1, ResultValues
<1>3. Backed(value) /\ (l # "collect" => Earned(value))
  BY <1>1, ResultBacking
<1> QED BY <1>2, <1>3, BackedResult

\* The same where the reward goes with the success.
LEMMA OkResult ==
  ASSUME EpisodeInv, NEW ok \in BOOLEAN, NEW S \in SUBSET Attempts,
         NEW r, NEW at \in {"result", "collect"}, NEW l \in {"file", "line", "summary", "persist"},
         SetResult(r, at, l, Scored(IF ok THEN "succeeded" ELSE "failed", ok, S)),
         r \in Fresh => S \subseteq {attempt},
         ok => /\ r \in Strict => native = "ok"
               /\ r \in Judging => S # {} /\ S \subseteq Judged
               /\ r \in Asking => S # {} /\ S \subseteq Written
  PROVE  Typed' /\ SaysInv' /\ EarnInv'
<1>1. CASE ok
  <2>1. SetResult(r, at, l, Scored("succeeded", TRUE, S))
    BY <1>1
  <2> QED BY <1>1, <2>1, ScoredResult DEF Statuses
<1>2. CASE ~ok
  <2>1. SetResult(r, at, l, Scored("failed", FALSE, S))
    BY <1>2
  <2> QED BY <2>1, ScoredResult DEF Statuses
<1> QED BY <1>1, <1>2

\* A call that raises where nothing is decided yet.
LEMMA Undecided ==
  ASSUME EpisodeInv, NEW r, NEW at \in {"parse", "grade", "patch"},
         At(r, at), Goto("except") \/ Raise("except"), KeepAll
  PROVE  Typed' /\ SaysInv' /\ EarnInv'
BY EpisodeAssumption DEF At, Goto, Raise, KeepAll, Keep, session, children, verdict,
       outputs, rest, dialogue, EpisodeInv, EarnInv, SaysInv, Typed, Earned, Backed, Printed,
       Holding, Handling, Cleaning, Judged, Written, Passed

\* One that sets the verdict on the answer.
LEMMA AnsweredResult ==
  ASSUME EpisodeInv, NEW w \in BOOLEAN, NEW r \in {"geo3k", "strict"},
         NEW at \in {"score", "result"}, NEW l \in {"file", "line"}, Answered(r, at, l, w)
  PROVE  Typed' /\ SaysInv' /\ EarnInv'
<1> USE DEF Answered, At, Goto, session, children, outputs, rest, dialogue
<1>1. PICK value \in Result :
        /\ result' = value /\ value # None /\ value.attempt = attempt /\ value.from = {attempt}
        /\ value.status = "succeeded" /\ (value.reward \/ value.score = "some" => answer = "right")
  <2> DEFINE new == [status |-> "succeeded", reward |-> w /\ answer = "right",
                     score |-> IF answer = "right" THEN "some" ELSE "zero",
                     from |-> {attempt}, attempt |-> attempt]
  <2>1. new \in Result /\ new # None
    BY AttemptNumbers DEF EpisodeInv, Typed, Result
  <2> QED BY <2>1
<1>2. line = None /\ line' = None
  BY DEF EpisodeInv, SaysInv, Printed, Cleaning
<1>3. ~Holding
  BY DEF Holding, Cleaning, Handling
<1>4. evidence'[attempt] = Verdict(answer) /\ runner' = r /\ attempt' = attempt
  BY DEF EpisodeInv, Typed
<1>5. Backed(value)' /\ Earned(value)'
  BY <1>1, <1>4, AttemptNumbers DEF Backed, Earned, Passed, Verdict, Strict, Judging,
      Asking, EpisodeInv, Typed
<1>6. SaysInv'
  BY <1>1, <1>2, <1>3, NoneAssumption DEF EpisodeInv, SaysInv, Holding, Printed, Cleaning, Handling
<1>7. EarnInv'
  BY <1>1, <1>2, <1>3, <1>5 DEF EpisodeInv, EarnInv
<1>8. Typed'
  BY <1>1, <1>3 DEF EpisodeInv, Typed, Evidence, Verdict
<1> QED BY <1>6, <1>7, <1>8

\* exploitgym's evaluator has left its verdict when the result is made.
LEMMA ExploitGymResultDecides ==
  ASSUME EpisodeInv, ExploitGymResult PROVE Typed' /\ SaysInv' /\ EarnInv'
<1>1. \/ /\ SetResult("exploitgym", "get_result", "clean", Scored("succeeded", TRUE, {attempt}))
         /\ native = "ok"
      \/ SetResult("exploitgym", "get_result", "clean", Scored("failed", FALSE, {attempt}))
  BY DEF ExploitGymResult
<1>2. attempt \in Judged /\ {attempt} \in SUBSET Attempts
  BY EvidenceSets DEF EpisodeInv, EarnInv, ExploitGymResult, SetResult, At
<1> QED BY <1>1, <1>2, ScoredResult DEF Statuses, Handling, Asking

\* harbor finds one trial, with a verdict unless the run was truncated.
LEMMA HarborParseDecides ==
  ASSUME EpisodeInv, HarborParse PROVE Typed' /\ SaysInv' /\ EarnInv'
<1>1. Cardinality(Written) = 1 => Written # {}
  BY FS_EmptySet
<1>2. ASSUME NEW s \in Statuses, s = "succeeded" => native = "ok" /\ Judged # {},
             SetResult("harbor", "parse", "clean", Scored(s, s = "succeeded", Judged))
      PROVE  Typed' /\ SaysInv' /\ EarnInv'
  BY <1>2, EvidenceSets, ScoredResult DEF EpisodeInv, Fresh, Handling, Asking
<1>3. ASSUME NEW s \in Statuses, s # "succeeded",
             SetResult("harbor", "parse", "clean", Failed(s))
      PROVE  Typed' /\ SaysInv' /\ EarnInv'
  <2>1. /\ Failed(s) \in Result /\ Failed(s).attempt = attempt
        /\ Backed(Failed(s)) /\ Earned(Failed(s))
    BY <1>3, ResultValues, ResultBacking DEF EpisodeInv
  <2> QED BY <1>3, <2>1, BackedResult DEF Handling
<1>4. ASSUME NEW s \in Statuses,
             SetResult("harbor", "parse", "clean",
                       IF Judged = {} THEN Failed(s) ELSE Scored(s, s = "succeeded", Judged)),
             s = "succeeded" => native = "ok" /\ Judged # {}
      PROVE  Typed' /\ SaysInv' /\ EarnInv'
  BY <1>2, <1>3, <1>4
<1> QED BY <1>1, <1>4, Undecided DEF HarborParse, Statuses

\* livecvebench asks for the results beside the newest metadata; the accuracy it falls back to
\* is only ever the score of a failure.
LEMMA LiveCveCollectDecides ==
  ASSUME EpisodeInv, LiveCveCollect PROVE Typed' /\ SaysInv' /\ EarnInv'
<1>1. PICK S \in LatestMetadata :
        LET ok == native = "ok" /\ S # {} /\ S \subseteq Written
        IN \/ SetResult("livecvebench", "collect", "summary",
                        Scored(IF ok THEN "succeeded" ELSE "failed", ok, S))
           \/ SetResult("livecvebench", "collect", "summary",
                        [Scored("failed", FALSE, S) EXCEPT !.score = "some"])
  BY DEF LiveCveCollect
<1> DEFINE ok == native = "ok" /\ S # {} /\ S \subseteq Written
<1>2. S \in SUBSET Attempts
  BY EvidenceSets DEF EpisodeInv, LatestMetadata
<1>3. CASE SetResult("livecvebench", "collect", "summary",
                     Scored(IF ok THEN "succeeded" ELSE "failed", ok, S))
  <2>1. ok \in BOOLEAN /\ (ok => native = "ok" /\ S # {} /\ S \subseteq Written)
    OBVIOUS
  <2> HIDE DEF ok
  <2> QED BY <1>2, <1>3, <2>1, OkResult DEF Fresh, Judging
<1>4. CASE SetResult("livecvebench", "collect", "summary",
                     [Scored("failed", FALSE, S) EXCEPT !.score = "some"])
  <2> DEFINE old   == Scored("failed", FALSE, S)
             value == [old EXCEPT !.score = "some"]
  <2>1. /\ old \in Result /\ old.attempt = attempt /\ old.status = "failed"
        /\ ~old.reward /\ old.from = S
    BY <1>2, ResultValues DEF EpisodeInv, Statuses
  <2> HIDE DEF old
  <2>2. /\ value \in Result /\ value.attempt = attempt /\ value.status = "failed"
        /\ ~value.reward
    BY <2>1 DEF Result
  <2>3. Backed(value) /\ Earned(value)
    BY <1>4, <2>2 DEF Backed, Earned, SetResult, At, Fresh
  <2>4. SetResult("livecvebench", "collect", "summary", value)
    BY <1>4 DEF old
  <2> HIDE DEF value
  <2> QED BY <2>2, <2>3, <2>4, BackedResult
<1> QED BY <1>1, <1>3, <1>4

\* dtap forgives a failed evaluation, but rewards only a judgement that passed.
LEMMA DtapCollectDecides ==
  ASSUME EpisodeInv, DtapCollect PROVE Typed' /\ SaysInv' /\ EarnInv'
<1>1. PICK judgedOrTraced \in BOOLEAN, logged \in BOOLEAN :
        LET ok == (native = "ok" \/ judgedOrTraced) /\ logged
        IN SetResult("dtap", "collect", "persist",
                     Scored(IF ok THEN "succeeded" ELSE "failed", ok, Newest(Judged)))
  BY DEF DtapCollect
<1> QED BY <1>1, EvidenceSets, OkResult DEF EpisodeInv, Fresh, Strict, Judging, Asking

\* The gradings clawenvkit finds published are files some attempt had at least begun to write.
LEMMA ClawCollectDecides ==
  ASSUME EpisodeInv, ClawCollect PROVE Typed' /\ SaysInv' /\ EarnInv'
<1> DEFINE ok == published # {}
<1>1. PICK S \in SUBSET published :
        /\ ok => S # {}
        /\ SetResult("clawenvkit", "collect", "persist",
                     Scored(IF ok THEN "succeeded" ELSE "failed", ok, S))
  BY DEF ClawCollect
<1>2. ok \in BOOLEAN /\ S \in SUBSET Attempts /\ (ok => S # {} /\ S \subseteq Written)
  BY <1>1 DEF EpisodeInv, Typed, EarnInv, SetResult, At
<1> HIDE DEF ok
<1> QED BY <1>1, <1>2, OkResult DEF Fresh, Strict, Judging

\* openrt takes all the metrics files of its directory.
LEMMA OpenRtCollectDecides ==
  ASSUME EpisodeInv, OpenRtCollect PROVE Typed' /\ SaysInv' /\ EarnInv'
<1> DEFINE ok == native = "ok" /\ Written # {}
<1>1. SetResult("openrt", "collect", "file",
                Scored(IF ok THEN "succeeded" ELSE "failed", ok, Written))
  BY DEF OpenRtCollect
<1>2. ok \in BOOLEAN /\ Written \in SUBSET Attempts /\ (ok => native = "ok" /\ Written # {})
  BY EvidenceSets DEF EpisodeInv
<1> HIDE DEF ok
<1> QED BY <1>1, <1>2, OkResult DEF Fresh, Judging

\* wildclawbench grades what there is; the status of the episode comes later.
LEMMA WildClawGradeDecides ==
  ASSUME EpisodeInv, WildClawGrade PROVE Typed' /\ SaysInv' /\ EarnInv'
<1>1. CASE SetResult("wildclawbench", "grade", "collect", Scored("succeeded", TRUE, {attempt}))
  BY <1>1, EvidenceSets, ScoredResult DEF EpisodeInv, Statuses
<1> QED BY <1>1, Undecided DEF WildClawGrade

\* The status comes from how the agent ended, the reward from the grade there may be.
LEMMA WildClawResultDecides ==
  ASSUME EpisodeInv, WildClawResult PROVE Typed' /\ SaysInv' /\ EarnInv'
<1> DEFINE status == IF native = "ok" THEN "succeeded" ELSE "failed"
           value  == [(IF result = None THEN Failed("failed") ELSE result) EXCEPT !.status = status]
<1>1. Typed /\ runner = "wildclawbench" /\ runner \notin Judging \cup Asking /\ status \in Statuses
  BY DEF EpisodeInv, WildClawResult, SetResult, At, Judging, Asking, Statuses
<1>2. PICK old \in Result : /\ old.attempt = attempt /\ Backed(old)
                            /\ value = [old EXCEPT !.status = status]
  BY <1>1, ResultValues, ResultBacking DEF EpisodeInv, SaysInv, EarnInv, Typed, Statuses
<1>3. /\ value \in Result /\ value.attempt = old.attempt /\ value.status = status
      /\ value.reward = old.reward /\ value.score = old.score /\ value.from = old.from
  BY <1>1, <1>2 DEF Result, Statuses
<1>4. Backed(value) /\ Earned(value)
  BY <1>1, <1>2, <1>3 DEF Backed, Earned
<1> QED BY <1>2, <1>3, <1>4, BackedResult DEF WildClawResult

\* cyberrange has sealed a report of this attempt, and its evaluation ended well.
LEMMA CyberRangeResultDecides ==
  ASSUME EpisodeInv, CyberRangeResult PROVE Typed' /\ SaysInv' /\ EarnInv'
<1>1. native = "ok" /\ attempt \in Judged /\ {attempt} \in SUBSET Attempts
  BY EvidenceSets DEF EpisodeInv, EarnInv, CyberRangeResult, SetResult, At
<1> QED BY <1>1, ScoredResult DEF CyberRangeResult, Asking, Statuses

\* openclaw reads the verdict of its own attempt.
LEMMA OpenClawResultDecides ==
  ASSUME EpisodeInv, OpenClawResult PROVE Typed' /\ SaysInv' /\ EarnInv'
<1> DEFINE ok == native = "ok" /\ evidence[attempt] # "fail"
<1>1. SetResult("openclaw", "result", "line",
                Scored(IF ok THEN "succeeded" ELSE "failed", ok, {attempt}))
  BY DEF OpenClawResult
<1>2. ok \in BOOLEAN /\ {attempt} \in SUBSET Attempts /\ (ok => native = "ok")
  BY EvidenceSets DEF EpisodeInv
<1> HIDE DEF ok
<1> QED BY <1>1, <1>2, OkResult DEF Judging, Asking

\* geo3k is its own judge,
LEMMA Geo3kScoreDecides ==
  ASSUME EpisodeInv, Geo3kScore PROVE Typed' /\ SaysInv' /\ EarnInv'
BY AnsweredResult DEF Geo3kScore

\* and so is strict.
LEMMA StrictResultDecides ==
  ASSUME EpisodeInv, StrictResult PROVE Typed' /\ SaysInv' /\ EarnInv'
BY AnsweredResult DEF StrictResult

\* claudecode only reports a patch,
LEMMA ClaudePatchDecides ==
  ASSUME EpisodeInv, ClaudePatch PROVE Typed' /\ SaysInv' /\ EarnInv'
<1>1. CASE SetResult("claudecode", "patch", "line", Scored("succeeded", FALSE, {attempt}))
  BY <1>1, EvidenceSets, ScoredResult DEF EpisodeInv, Strict, Judging, Asking, Statuses
<1> QED BY <1>1, Undecided DEF ClaudePatch

\* and so does openhands.
LEMMA OpenHandsPatchDecides ==
  ASSUME EpisodeInv, OpenHandsPatch PROVE Typed' /\ SaysInv' /\ EarnInv'
<1>1. CASE SetResult("openhands", "patch", "line", Scored("succeeded", FALSE, {attempt}))
  BY <1>1, EvidenceSets, ScoredResult DEF EpisodeInv, Strict, Judging, Asking, Statuses
<1> QED BY <1>1, Undecided DEF OpenHandsPatch

\* cybergym says "succeeded" of a verified agent only, and draws on no verdict otherwise.
LEMMA CyberGymFinalDecides ==
  ASSUME EpisodeInv, CyberGymFinal PROVE Typed' /\ SaysInv' /\ EarnInv'
<1>1. PICK trajectory \in BOOLEAN, timedOut \in BOOLEAN :
        LET status == RolloutStatus(trajectory, timedOut)
        IN SetResult("cybergym", "final", "file",
                     IF "verified" \in known THEN Scored(status, FALSE, AgentResult)
                                             ELSE Failed(status))
  BY DEF CyberGymFinal
<1> DEFINE status == RolloutStatus(trajectory, timedOut)
<1>2. /\ status \in Statuses /\ AgentResult \in SUBSET Attempts /\ Typed
      /\ status = "succeeded" => native = "ok" /\ "verified" \in known
  BY EvidenceSets DEF RolloutStatus, Statuses, AgentResult, EpisodeInv
<1> HIDE DEF status
<1>3. CASE "verified" \in known
  BY <1>1, <1>2, <1>3, ScoredResult DEF Fresh, Judging, Asking, status
<1>4. CASE "verified" \notin known
  <2>1. /\ Failed(status) \in Result /\ Failed(status).attempt = attempt
        /\ Backed(Failed(status)) /\ Earned(Failed(status))
    BY <1>2, <1>4, ResultValues, ResultBacking
  <2>2. SetResult("cybergym", "final", "file", Failed(status))
    BY <1>1, <1>4 DEF status
  <2> QED BY <2>1, <2>2, BackedResult
<1> QED BY <1>3, <1>4

\* From here on the steps the programs are made of are expanded everywhere.
USE DEF At, Goto, Raise, Try, Keep, KeepAll, Skip, Spawn, Record, Ready, NotReady, SetResult,
        Waited, TimedOut, WriteFile, CannotWrite, PrintLine, Exit, Traceback, Undo, Sticks, session,
        children, verdict, outputs, rest, dialogue


-----------------------------------------------------------------------------
(* The steps of the programs *)
\* exploitgym
ExploitGymSteps ==
  ExploitGymResolve \/ ExploitGymDocker \/ ExploitGymAslr \/ ExploitGymImages
  \/ ExploitGymFirewall \/ ExploitGymController \/ ExploitGymRelay \/ ExploitGymProxy
  \/ ExploitGymProxyRelay \/ ExploitGymBench \/ ExploitGymNativeFile \/ ExploitGymResult
  \/ ExploitGymFailure \/ ExploitGymCleanup \/ ExploitGymMain

\* Its steps keep the invariant.
LEMMA ExploitGymKeeps == ASSUME EpisodeInv, ExploitGymSteps PROVE EpisodeInv'
<1> USE DEF EpisodeInv, ExploitGymSteps, ExploitGymResolve, ExploitGymDocker,
    ExploitGymAslr, ExploitGymImages, ExploitGymFirewall, ExploitGymController,
    ExploitGymRelay, ExploitGymProxy, ExploitGymProxyRelay, ExploitGymBench,
    ExploitGymNativeFile, ExploitGymFailure, ExploitGymCleanup, ExploitGymMain, Services,
    ExploitGymStart
<1>1. Typed'
  <2>1. CASE ExploitGymBench
    BY <2>1, ResultValues, EpisodeAssumption DEF Typed, Ending, Evidence, Modes, Statuses
  <2>2. CASE ExploitGymController \/ ExploitGymRelay \/ ExploitGymProxy \/ ExploitGymProxyRelay
    BY <2>2, ResultValues, EpisodeAssumption DEF Typed, Ending, Evidence, Modes, Statuses
  <2>3. CASE ExploitGymResolve \/ ExploitGymDocker \/ ExploitGymAslr \/ ExploitGymImages
              \/ ExploitGymFirewall
    BY <2>3, ResultValues, EpisodeAssumption DEF Typed, Ending, Evidence, Modes, Statuses
  <2>4. CASE ExploitGymNativeFile \/ ExploitGymFailure \/ ExploitGymCleanup \/ ExploitGymMain
    BY <2>4, ResultValues, EpisodeAssumption DEF Typed, Ending, Evidence, Modes, Statuses
  <2>5. CASE ExploitGymResult
    BY <2>5, ExploitGymResultDecides
  <2> QED BY <2>1, <2>2, <2>3, <2>4, <2>5
<1>2. TurnInv'
  BY EpisodeAssumption DEF ExploitGymResult, TurnInv, Answers
<1>3. SaysInv'
  <2>1. CASE ~ExploitGymResult
    BY <2>1, NoneAssumption, ResultValues DEF SaysInv, Typed, Printed, Holding, Handling,
         Cleaning, Statuses
  <2>2. CASE ExploitGymResult
    BY <2>2, ExploitGymResultDecides
  <2> QED BY <2>1, <2>2
<1>4. FileInv'
  BY AttemptNumbers, ResultValues DEF ExploitGymResult, FileInv, SaysInv, Typed, Printed,
       Holding, Handling, Cleaning, Statuses
<1>5. EarnInv'
  <2>1. CASE ~ExploitGymResult
    BY <2>1, ResultValues DEF EarnInv, SaysInv, Typed, Earned, Backed, Printed, Holding,
         Handling, Cleaning, Strict, Judging, Asking, Fresh, Passed, Judged, Written, Statuses
  <2>2. CASE ExploitGymResult
    BY <2>2, ExploitGymResultDecides
  <2> QED BY <2>1, <2>2
<1>6. PlainInv'
  BY NoneAssumption DEF ExploitGymResult, PlainInv, SaysInv, Ended, Handling, Cleaning,
       Typed
<1>7. ExploitInv'
  BY NoneAssumption DEF ExploitGymResult, ExploitInv, PlainInv, SaysInv, Ended, Handling,
       Cleaning, Services, AfterTry, Working, Undone, Typed
<1> QED BY <1>1, <1>2, <1>3, <1>4, <1>5, <1>6, <1>7

\* harbor
HarborSteps ==
  HarborResolve \/ HarborDocker \/ HarborBundle \/ HarborRun \/ HarborSettle \/ HarborParse
  \/ HarborFailure \/ HarborCleanup \/ HarborMain

\* Its steps keep the invariant.
LEMMA HarborKeeps == ASSUME EpisodeInv, HarborSteps PROVE EpisodeInv'
<1> USE DEF EpisodeInv, HarborSteps, HarborResolve, HarborDocker, HarborBundle, HarborRun,
    HarborSettle, HarborFailure, HarborCleanup, HarborMain
<1>1. Typed'
  <2>1. CASE ~HarborParse
    BY <2>1, ResultValues, EpisodeAssumption DEF Typed, Ending, Evidence, Modes, Statuses
  <2>2. CASE HarborParse
    BY <2>2, HarborParseDecides
  <2> QED BY <2>1, <2>2
<1>2. TurnInv'
  BY EpisodeAssumption DEF HarborParse, TurnInv, Answers
<1>3. SaysInv'
  <2>1. CASE ~HarborParse
    BY <2>1, NoneAssumption, ResultValues DEF SaysInv, Typed, Printed, Holding, Handling,
         Cleaning, Statuses
  <2>2. CASE HarborParse
    BY <2>2, HarborParseDecides
  <2> QED BY <2>1, <2>2
<1>4. FileInv'
  BY AttemptNumbers, ResultValues DEF HarborParse, FileInv, SaysInv, Typed, Printed,
       Holding, Handling, Cleaning, Statuses
<1>5. EarnInv'
  <2>1. CASE ~HarborParse
    BY <2>1, ResultValues DEF EarnInv, SaysInv, Typed, Earned, Backed, Printed, Holding,
         Handling, Cleaning, Strict, Judging, Asking, Fresh, Passed, Judged, Written, Statuses
  <2>2. CASE HarborParse
    BY <2>2, HarborParseDecides
  <2> QED BY <2>1, <2>2
<1>6. PlainInv'
  BY NoneAssumption DEF HarborParse, PlainInv, SaysInv, Ended, Handling, Cleaning, Typed
<1>7. ExploitInv'
  BY NoneAssumption DEF HarborParse, ExploitInv, PlainInv, SaysInv, Ended, Handling,
       Cleaning, Services, AfterTry, Working, Undone, Typed
<1> QED BY <1>1, <1>2, <1>3, <1>4, <1>5, <1>6, <1>7

\* livecvebench
LiveCveSteps ==
  LiveCveRequest \/ LiveCvePrepare \/ LiveCveDocker \/ LiveCveRun \/ LiveCveCollect
  \/ LiveCveSummary \/ LiveCveFailure \/ LiveCveOut \/ LiveCveStop

\* Its steps keep the invariant.
LEMMA LiveCveKeeps == ASSUME EpisodeInv, LiveCveSteps PROVE EpisodeInv'
<1> USE DEF EpisodeInv, LiveCveSteps, LiveCveRequest, LiveCvePrepare, LiveCveDocker,
    LiveCveRun, LiveCveSummary, LiveCveFailure, LiveCveOut, LiveCveStop
<1>1. Typed'
  <2>1. CASE ~LiveCveCollect
    BY <2>1, ResultValues, EpisodeAssumption DEF Typed, Ending, Evidence, Modes, Statuses
  <2>2. CASE LiveCveCollect
    BY <2>2, LiveCveCollectDecides
  <2> QED BY <2>1, <2>2
<1>2. TurnInv'
  BY EpisodeAssumption DEF LiveCveCollect, TurnInv, Answers
<1>3. SaysInv'
  <2>1. CASE ~LiveCveCollect
    BY <2>1, NoneAssumption, ResultValues DEF SaysInv, Typed, Printed, Holding, Handling,
         Cleaning, Statuses
  <2>2. CASE LiveCveCollect
    BY <2>2, LiveCveCollectDecides
  <2> QED BY <2>1, <2>2
<1>4. FileInv'
  <2>1. CASE LiveCveCollect
    <3>1. /\ runner = "livecvebench" /\ pc = "collect" /\ pc' = "summary"
          /\ UNCHANGED <<session, evidence, outputs, rest>>
      BY <2>1 DEF LiveCveCollect
    <3> QED BY <3>1 DEF FileInv, SaysInv, Printed, Cleaning, Handling
  <2>2. CASE ~LiveCveCollect
    BY <2>2, AttemptNumbers, ResultValues DEF FileInv, SaysInv, Typed, Printed, Holding,
         Handling, Cleaning, Statuses
  <2> QED BY <2>1, <2>2
<1>5. EarnInv'
  <2>1. CASE ~LiveCveCollect
    BY <2>1, ResultValues DEF EarnInv, SaysInv, Typed, Earned, Backed, Printed, Holding,
         Handling, Cleaning, Strict, Judging, Asking, Fresh, Passed, Judged, Written, Statuses
  <2>2. CASE LiveCveCollect
    BY <2>2, LiveCveCollectDecides
  <2> QED BY <2>1, <2>2
<1>6. PlainInv'
  BY NoneAssumption DEF LiveCveCollect, PlainInv, SaysInv, Ended, Handling, Cleaning, Typed
<1>7. ExploitInv'
  BY NoneAssumption DEF LiveCveCollect, ExploitInv, PlainInv, SaysInv, Ended, Handling,
       Cleaning, Services, AfterTry, Working, Undone, Typed
<1> QED BY <1>1, <1>2, <1>3, <1>4, <1>5, <1>6, <1>7

\* dtap
DtapSteps ==
  DtapRequest \/ DtapResolve \/ DtapRun \/ DtapCollect \/ DtapPersist \/ DtapFailure
  \/ DtapOut

\* Its steps keep the invariant.
LEMMA DtapKeeps == ASSUME EpisodeInv, DtapSteps PROVE EpisodeInv'
<1> USE DEF EpisodeInv, DtapSteps, DtapRequest, DtapResolve, DtapRun, DtapPersist,
    DtapFailure, DtapOut, Gives, Request, QuietEnd
<1>1. Typed'
  <2>1. CASE ~DtapCollect
    BY <2>1, ResultValues, EpisodeAssumption DEF Typed, Ending, Evidence, Modes, Statuses
  <2>2. CASE DtapCollect
    BY <2>2, DtapCollectDecides
  <2> QED BY <2>1, <2>2
<1>2. TurnInv'
  BY EpisodeAssumption DEF DtapCollect, TurnInv, Answers
<1>3. SaysInv'
  <2>1. CASE ~DtapCollect
    BY <2>1, NoneAssumption, ResultValues DEF SaysInv, Typed, Printed, Holding, Handling,
         Cleaning, Statuses
  <2>2. CASE DtapCollect
    BY <2>2, DtapCollectDecides
  <2> QED BY <2>1, <2>2
<1>4. FileInv'
  BY AttemptNumbers, ResultValues DEF DtapCollect, FileInv, SaysInv, Typed, Printed,
       Holding, Handling, Cleaning, Statuses
<1>5. EarnInv'
  <2>1. CASE ~DtapCollect
    BY <2>1, ResultValues DEF EarnInv, SaysInv, Typed, Earned, Backed, Printed, Holding,
         Handling, Cleaning, Strict, Judging, Asking, Fresh, Passed, Judged, Written, Statuses
  <2>2. CASE DtapCollect
    BY <2>2, DtapCollectDecides
  <2> QED BY <2>1, <2>2
<1>6. PlainInv'
  BY NoneAssumption DEF DtapCollect, PlainInv, SaysInv, Ended, Handling, Cleaning, Typed
<1>7. ExploitInv'
  BY NoneAssumption DEF DtapCollect, ExploitInv, PlainInv, SaysInv, Ended, Handling,
       Cleaning, Services, AfterTry, Working, Undone, Typed
<1> QED BY <1>1, <1>2, <1>3, <1>4, <1>5, <1>6, <1>7

\* clawenvkit
ClawSteps ==
  ClawRequest \/ ClawResolve \/ ClawRun \/ ClawCopy \/ ClawCollect \/ ClawPersist
  \/ ClawFailure \/ ClawOut

\* Its steps keep the invariant.
LEMMA ClawKeeps == ASSUME EpisodeInv, ClawSteps PROVE EpisodeInv'
<1> USE DEF EpisodeInv, ClawSteps, ClawRequest, ClawResolve, ClawRun, ClawCopy, ClawPersist,
    ClawFailure, ClawOut, Copies, BrokenCopy, Publish, Gives, Request, QuietEnd
<1>1. Typed'
  <2>1. CASE ~ClawCollect
    BY <2>1, ResultValues, EpisodeAssumption DEF Typed, Ending, Evidence, Modes, Statuses
  <2>2. CASE ClawCollect
    BY <2>2, ClawCollectDecides
  <2> QED BY <2>1, <2>2
<1>2. TurnInv'
  BY EpisodeAssumption DEF ClawCollect, TurnInv, Answers
<1>3. SaysInv'
  <2>1. CASE ~ClawCollect
    BY <2>1, NoneAssumption, ResultValues DEF SaysInv, Typed, Printed, Holding, Handling,
         Cleaning, Statuses
  <2>2. CASE ClawCollect
    BY <2>2, ClawCollectDecides
  <2> QED BY <2>1, <2>2
<1>4. FileInv'
  BY AttemptNumbers, ResultValues DEF ClawCollect, FileInv, SaysInv, Typed, Printed,
       Holding, Handling, Cleaning, Statuses
<1>5. EarnInv'
  <2>1. CASE ~ClawCollect
    BY <2>1, ResultValues DEF EarnInv, SaysInv, Typed, Earned, Backed, Printed, Holding,
         Handling, Cleaning, Strict, Judging, Asking, Fresh, Passed, Judged, Written, Statuses
  <2>2. CASE ClawCollect
    BY <2>2, ClawCollectDecides
  <2> QED BY <2>1, <2>2
<1>6. PlainInv'
  BY NoneAssumption DEF ClawCollect, PlainInv, SaysInv, Ended, Handling, Cleaning, Typed
<1>7. ExploitInv'
  BY NoneAssumption DEF ClawCollect, ExploitInv, PlainInv, SaysInv, Ended, Handling,
       Cleaning, Services, AfterTry, Working, Undone, Typed
<1> QED BY <1>1, <1>2, <1>3, <1>4, <1>5, <1>6, <1>7

\* openrt
OpenRtSteps ==
  OpenRtRequest \/ OpenRtResolve \/ OpenRtRun \/ OpenRtCollect \/ OpenRtFailure
  \/ OpenRtOut

\* Its steps keep the invariant.
LEMMA OpenRtKeeps == ASSUME EpisodeInv, OpenRtSteps PROVE EpisodeInv'
<1> USE DEF EpisodeInv, OpenRtSteps, OpenRtRequest, OpenRtResolve, OpenRtRun, OpenRtFailure,
    OpenRtOut, Gives, Request, QuietEnd
<1>1. Typed'
  <2>1. CASE ~OpenRtCollect
    BY <2>1, ResultValues, EpisodeAssumption DEF Typed, Ending, Evidence, Modes, Statuses
  <2>2. CASE OpenRtCollect
    BY <2>2, OpenRtCollectDecides
  <2> QED BY <2>1, <2>2
<1>2. TurnInv'
  BY EpisodeAssumption DEF OpenRtCollect, TurnInv, Answers
<1>3. SaysInv'
  <2>1. CASE ~OpenRtCollect
    BY <2>1, NoneAssumption, ResultValues DEF SaysInv, Typed, Printed, Holding, Handling,
         Cleaning, Statuses
  <2>2. CASE OpenRtCollect
    BY <2>2, OpenRtCollectDecides
  <2> QED BY <2>1, <2>2
<1>4. FileInv'
  BY AttemptNumbers, ResultValues DEF OpenRtCollect, FileInv, SaysInv, Typed, Printed,
       Holding, Handling, Cleaning, Statuses
<1>5. EarnInv'
  <2>1. CASE ~OpenRtCollect
    BY <2>1, ResultValues DEF EarnInv, SaysInv, Typed, Earned, Backed, Printed, Holding,
         Handling, Cleaning, Strict, Judging, Asking, Fresh, Passed, Judged, Written, Statuses
  <2>2. CASE OpenRtCollect
    BY <2>2, OpenRtCollectDecides
  <2> QED BY <2>1, <2>2
<1>6. PlainInv'
  BY NoneAssumption DEF OpenRtCollect, PlainInv, SaysInv, Ended, Handling, Cleaning, Typed
<1>7. ExploitInv'
  BY NoneAssumption DEF OpenRtCollect, ExploitInv, PlainInv, SaysInv, Ended, Handling,
       Cleaning, Services, AfterTry, Working, Undone, Typed
<1> QED BY <1>1, <1>2, <1>3, <1>4, <1>5, <1>6, <1>7

\* wildclawbench
WildClawSteps ==
  WildClawRequest \/ WildClawMainFailure \/ WildClawSetup \/ WildClawGateway
  \/ WildClawAgent \/ WildClawGrade \/ WildClawCollect \/ WildClawExcept \/ WildClawStop
  \/ WildClawResult \/ WildClawOut

\* Its steps keep the invariant.
LEMMA WildClawKeeps == ASSUME EpisodeInv, WildClawSteps PROVE EpisodeInv'
<1> USE DEF EpisodeInv, WildClawSteps, WildClawRequest, WildClawMainFailure, WildClawSetup,
    WildClawGateway, WildClawAgent, WildClawCollect, WildClawExcept, WildClawStop,
    WildClawOut, Gives, QuietEnd
<1>1. Typed'
  <2>1. CASE ~(WildClawGrade \/ WildClawResult)
    BY <2>1, ResultValues, EpisodeAssumption DEF Typed, Ending, Evidence, Modes, Statuses
  <2>2. CASE WildClawGrade
    BY <2>2, WildClawGradeDecides
  <2>3. CASE WildClawResult
    BY <2>3, WildClawResultDecides
  <2> QED BY <2>1, <2>2, <2>3
<1>2. TurnInv'
  BY EpisodeAssumption DEF WildClawGrade, WildClawResult, TurnInv, Answers
<1>3. SaysInv'
  <2>1. CASE ~(WildClawGrade \/ WildClawResult)
    BY <2>1, NoneAssumption, ResultValues DEF SaysInv, Typed, Printed, Holding, Handling,
         Cleaning, Statuses
  <2>2. CASE WildClawGrade
    BY <2>2, WildClawGradeDecides
  <2>3. CASE WildClawResult
    BY <2>3, WildClawResultDecides
  <2> QED BY <2>1, <2>2, <2>3
<1>4. FileInv'
  <2>1. CASE WildClawOut \/ WildClawMainFailure \/ WildClawResult
    BY <2>1, AttemptNumbers, ResultValues DEF WildClawResult, FileInv, SaysInv, Typed,
         Printed, Holding, Handling, Cleaning, Statuses
  <2>2. CASE WildClawGrade \/ WildClawRequest \/ WildClawSetup \/ WildClawGateway
    BY <2>2, AttemptNumbers, ResultValues DEF WildClawGrade, FileInv, SaysInv, Typed,
         Printed, Holding, Handling, Cleaning, Statuses
  <2>3. CASE WildClawAgent \/ WildClawCollect \/ WildClawExcept \/ WildClawStop
    BY <2>3, AttemptNumbers, ResultValues DEF FileInv, SaysInv, Typed, Printed, Holding,
         Handling, Cleaning, Statuses
  <2> QED BY <2>1, <2>2, <2>3
<1>5. EarnInv'
  <2>1. CASE ~(WildClawGrade \/ WildClawResult)
    BY <2>1, ResultValues DEF EarnInv, SaysInv, Typed, Earned, Backed, Printed, Holding,
         Handling, Cleaning, Strict, Judging, Asking, Fresh, Passed, Judged, Written, Statuses
  <2>2. CASE WildClawGrade
    BY <2>2, WildClawGradeDecides
  <2>3. CASE WildClawResult
    BY <2>3, WildClawResultDecides
  <2> QED BY <2>1, <2>2, <2>3
<1>6. PlainInv'
  BY NoneAssumption DEF WildClawGrade, WildClawResult, PlainInv, SaysInv, Ended, Handling,
       Cleaning, Typed
<1>7. ExploitInv'
  BY NoneAssumption DEF WildClawGrade, WildClawResult, ExploitInv, PlainInv, SaysInv, Ended,
       Handling, Cleaning, Services, AfterTry, Working, Undone, Typed
<1> QED BY <1>1, <1>2, <1>3, <1>4, <1>5, <1>6, <1>7

\* cyberrange
CyberRangeSteps ==
  CyberRangeResolve \/ CyberRangeRun \/ CyberRangeSeal \/ CyberRangePublish
  \/ CyberRangeResult \/ CyberRangeFailure \/ CyberRangeEmit \/ CyberRangeFinally

\* Its steps keep the invariant.
LEMMA CyberRangeKeeps == ASSUME EpisodeInv, CyberRangeSteps PROVE EpisodeInv'
<1> USE DEF EpisodeInv, CyberRangeSteps, CyberRangeResolve, CyberRangeRun, CyberRangeSeal,
    CyberRangePublish, CyberRangeFailure, CyberRangeEmit, CyberRangeFinally, Publish,
    EmitFails, RemovesKey, Gives
<1>1. Typed'
  <2>1. CASE ~CyberRangeResult
    BY <2>1, ResultValues, EpisodeAssumption DEF Typed, Ending, Evidence, Modes, Statuses
  <2>2. CASE CyberRangeResult
    BY <2>2, CyberRangeResultDecides
  <2> QED BY <2>1, <2>2
<1>2. TurnInv'
  BY EpisodeAssumption DEF CyberRangeResult, TurnInv, Answers
<1>3. SaysInv'
  <2>1. CASE ~CyberRangeResult
    BY <2>1, NoneAssumption, ResultValues DEF SaysInv, Typed, Printed, Holding, Handling,
         Cleaning, Statuses
  <2>2. CASE CyberRangeResult
    BY <2>2, CyberRangeResultDecides
  <2> QED BY <2>1, <2>2
<1>4. FileInv'
  <2>1. CASE CyberRangePublish
    BY <2>1, AttemptNumbers, ResultValues DEF FileInv, SaysInv, Typed, Printed, Holding,
         Handling, Cleaning, Statuses
  <2>2. CASE CyberRangeEmit
    BY <2>2, AttemptNumbers, ResultValues DEF FileInv, SaysInv, Typed, Printed, Holding,
         Handling, Cleaning, Statuses
  <2>3. CASE CyberRangeResult
    BY <2>3, AttemptNumbers, ResultValues DEF CyberRangeResult, FileInv, SaysInv, Typed,
         Printed, Holding, Handling, Cleaning, Statuses
  <2>4. CASE CyberRangeFailure
    BY <2>4, AttemptNumbers, ResultValues DEF FileInv, SaysInv, Typed, Printed, Holding,
         Handling, Cleaning, Statuses
  <2>5. CASE CyberRangeResolve \/ CyberRangeRun \/ CyberRangeSeal \/ CyberRangeFinally
    BY <2>5, AttemptNumbers, ResultValues DEF FileInv, SaysInv, Typed, Printed, Holding,
         Handling, Cleaning, Statuses
  <2> QED BY <2>1, <2>2, <2>3, <2>4, <2>5
<1>5. EarnInv'
  <2>1. CASE ~CyberRangeResult
    BY <2>1, ResultValues DEF EarnInv, SaysInv, Typed, Earned, Backed, Printed, Holding,
         Handling, Cleaning, Strict, Judging, Asking, Fresh, Passed, Judged, Written, Statuses
  <2>2. CASE CyberRangeResult
    BY <2>2, CyberRangeResultDecides
  <2> QED BY <2>1, <2>2
<1>6. PlainInv'
  <2>1. CASE CyberRangeResolve
    BY <2>1, NoneAssumption DEF PlainInv, SaysInv, Ended, Handling, Cleaning, Typed
  <2>2. CASE CyberRangeFinally
    BY <2>2, NoneAssumption DEF PlainInv, SaysInv, Ended, Handling, Cleaning, Typed
  <2>3. CASE CyberRangeRun \/ CyberRangeSeal \/ CyberRangePublish \/ CyberRangeResult
              \/ CyberRangeFailure \/ CyberRangeEmit
    BY <2>3, NoneAssumption DEF CyberRangeResult, PlainInv, SaysInv, Ended, Handling,
         Cleaning, Typed
  <2> QED BY <2>1, <2>2, <2>3
<1>7. ExploitInv'
  BY NoneAssumption DEF CyberRangeResult, ExploitInv, PlainInv, SaysInv, Ended, Handling,
       Cleaning, Services, AfterTry, Working, Undone, Typed
<1> QED BY <1>1, <1>2, <1>3, <1>4, <1>5, <1>6, <1>7

\* openclaw
OpenClawSteps ==
  OpenClawPrepare \/ OpenClawRun \/ OpenClawResult \/ OpenClawFailure \/ OpenClawOut

\* Its steps keep the invariant.
LEMMA OpenClawKeeps == ASSUME EpisodeInv, OpenClawSteps PROVE EpisodeInv'
<1> USE DEF EpisodeInv, OpenClawSteps, OpenClawPrepare, OpenClawRun, OpenClawFailure,
    OpenClawOut, Gives
<1>1. Typed'
  <2>1. CASE ~OpenClawResult
    BY <2>1, ResultValues, EpisodeAssumption DEF Typed, Ending, Evidence, Modes, Statuses
  <2>2. CASE OpenClawResult
    BY <2>2, OpenClawResultDecides
  <2> QED BY <2>1, <2>2
<1>2. TurnInv'
  BY EpisodeAssumption DEF OpenClawResult, TurnInv, Answers
<1>3. SaysInv'
  <2>1. CASE ~OpenClawResult
    BY <2>1, NoneAssumption, ResultValues DEF SaysInv, Typed, Printed, Holding, Handling,
         Cleaning, Statuses
  <2>2. CASE OpenClawResult
    BY <2>2, OpenClawResultDecides
  <2> QED BY <2>1, <2>2
<1>4. FileInv'
  BY AttemptNumbers, ResultValues DEF OpenClawResult, FileInv, SaysInv, Typed, Printed,
       Holding, Handling, Cleaning, Statuses
<1>5. EarnInv'
  <2>1. CASE ~OpenClawResult
    BY <2>1, ResultValues DEF EarnInv, SaysInv, Typed, Earned, Backed, Printed, Holding,
         Handling, Cleaning, Strict, Judging, Asking, Fresh, Passed, Judged, Written, Statuses
  <2>2. CASE OpenClawResult
    BY <2>2, OpenClawResultDecides
  <2> QED BY <2>1, <2>2
<1>6. PlainInv'
  BY NoneAssumption DEF OpenClawResult, PlainInv, SaysInv, Ended, Handling, Cleaning, Typed
<1>7. ExploitInv'
  BY NoneAssumption DEF OpenClawResult, ExploitInv, PlainInv, SaysInv, Ended, Handling,
       Cleaning, Services, AfterTry, Working, Undone, Typed
<1> QED BY <1>1, <1>2, <1>3, <1>4, <1>5, <1>6, <1>7

\* geo3k
Geo3kSteps ==
  Geo3kStart \/ Geo3kTurn \/ Geo3kScore \/ Geo3kFailure \/ Geo3kOut

\* Its steps keep the invariant.
LEMMA Geo3kKeeps == ASSUME EpisodeInv, Geo3kSteps PROVE EpisodeInv'
<1> USE DEF EpisodeInv, Geo3kSteps, Geo3kStart, Geo3kTurn, Geo3kFailure, Geo3kOut, Fails,
    Says, Answering, Answered, LatestBoxed
<1>1. Typed'
  <2>1. CASE ~Geo3kScore
    BY <2>1, ResultValues, EpisodeAssumption DEF Typed, Ending, Evidence, Modes, Statuses
  <2>2. CASE Geo3kScore
    BY <2>2, Geo3kScoreDecides
  <2> QED BY <2>1, <2>2
<1>2. TurnInv'
  BY EpisodeAssumption DEF Geo3kScore, TurnInv, Answers
<1>3. SaysInv'
  <2>1. CASE ~Geo3kScore
    BY <2>1, NoneAssumption, ResultValues DEF SaysInv, Typed, Printed, Holding, Handling,
         Cleaning, Statuses
  <2>2. CASE Geo3kScore
    BY <2>2, Geo3kScoreDecides
  <2> QED BY <2>1, <2>2
<1>4. FileInv'
  BY AttemptNumbers, ResultValues DEF Geo3kScore, FileInv, SaysInv, Typed, Printed, Holding,
       Handling, Cleaning, Statuses
<1>5. EarnInv'
  <2>1. CASE ~Geo3kScore
    BY <2>1, ResultValues DEF EarnInv, SaysInv, Typed, Earned, Backed, Printed, Holding,
         Handling, Cleaning, Strict, Judging, Asking, Fresh, Passed, Judged, Written, Statuses
  <2>2. CASE Geo3kScore
    BY <2>2, Geo3kScoreDecides
  <2> QED BY <2>1, <2>2
<1>6. PlainInv'
  BY NoneAssumption DEF Geo3kScore, PlainInv, SaysInv, Ended, Handling, Cleaning, Typed
<1>7. ExploitInv'
  BY NoneAssumption DEF Geo3kScore, ExploitInv, PlainInv, SaysInv, Ended, Handling,
       Cleaning, Services, AfterTry, Working, Undone, Typed
<1> QED BY <1>1, <1>2, <1>3, <1>4, <1>5, <1>6, <1>7

\* strict
StrictSteps ==
  StrictRequest \/ StrictResolve \/ StrictEpoch \/ StrictScripts \/ StrictResult
  \/ StrictFailure \/ StrictOut

\* Its steps keep the invariant.
LEMMA StrictKeeps == ASSUME EpisodeInv, StrictSteps PROVE EpisodeInv'
<1> USE DEF EpisodeInv, StrictSteps, StrictRequest, StrictResolve, StrictEpoch,
    StrictScripts, StrictFailure, StrictOut, Fails, Says, Answering, Answered
<1>1. Typed'
  <2>1. CASE ~StrictResult
    BY <2>1, ResultValues, EpisodeAssumption DEF Typed, Ending, Evidence, Modes, Statuses
  <2>2. CASE StrictResult
    BY <2>2, StrictResultDecides
  <2> QED BY <2>1, <2>2
<1>2. TurnInv'
  BY EpisodeAssumption DEF StrictResult, TurnInv, Answers
<1>3. SaysInv'
  <2>1. CASE ~StrictResult
    BY <2>1, NoneAssumption, ResultValues DEF SaysInv, Typed, Printed, Holding, Handling,
         Cleaning, Statuses
  <2>2. CASE StrictResult
    BY <2>2, StrictResultDecides
  <2> QED BY <2>1, <2>2
<1>4. FileInv'
  BY AttemptNumbers, ResultValues DEF StrictResult, FileInv, SaysInv, Typed, Printed,
       Holding, Handling, Cleaning, Statuses
<1>5. EarnInv'
  <2>1. CASE ~StrictResult
    BY <2>1, ResultValues DEF EarnInv, SaysInv, Typed, Earned, Backed, Printed, Holding,
         Handling, Cleaning, Strict, Judging, Asking, Fresh, Passed, Judged, Written, Statuses
  <2>2. CASE StrictResult
    BY <2>2, StrictResultDecides
  <2> QED BY <2>1, <2>2
<1>6. PlainInv'
  BY NoneAssumption DEF StrictResult, PlainInv, SaysInv, Ended, Handling, Cleaning, Typed
<1>7. ExploitInv'
  BY NoneAssumption DEF StrictResult, ExploitInv, PlainInv, SaysInv, Ended, Handling,
       Cleaning, Services, AfterTry, Working, Undone, Typed
<1> QED BY <1>1, <1>2, <1>3, <1>4, <1>5, <1>6, <1>7

\* claudecode
ClaudeSteps ==
  ClaudeRequest \/ ClaudePrepare \/ ClaudeRun \/ ClaudeLine \/ ClaudeStrangeLine
  \/ ClaudeStreamEnds \/ ClaudeDeadline \/ ClaudeWait \/ ClaudePatch \/ ClaudeFailure \/ ClaudeOut

\* Its steps keep the invariant.
LEMMA ClaudeKeeps == ASSUME EpisodeInv, ClaudeSteps PROVE EpisodeInv'
<1> USE DEF EpisodeInv, ClaudeSteps, ClaudeRequest, ClaudePrepare, ClaudeRun, ClaudeLine,
    ClaudeStrangeLine, ClaudeStreamEnds, ClaudeDeadline, ClaudeWait, ClaudeFailure,
    ClaudeOut, Reads, Fails, Says
<1>1. Typed'
  <2>1. CASE ~ClaudePatch
    BY <2>1, ResultValues, EpisodeAssumption DEF Typed, Ending, Evidence, Modes, Statuses
  <2>2. CASE ClaudePatch
    BY <2>2, ClaudePatchDecides
  <2> QED BY <2>1, <2>2
<1>2. TurnInv'
  <2>1. CASE ClaudeLine
    BY <2>1, EpisodeAssumption DEF TurnInv, Answers
  <2>2. CASE ClaudeRequest \/ ClaudePrepare
    BY <2>2, EpisodeAssumption DEF TurnInv, Answers
  <2>3. CASE ClaudeStrangeLine \/ ClaudeStreamEnds \/ ClaudeDeadline \/ ClaudeRun
    BY <2>3, EpisodeAssumption DEF TurnInv, Answers
  <2>4. CASE ClaudeWait \/ ClaudePatch \/ ClaudeFailure \/ ClaudeOut
    BY <2>4, EpisodeAssumption DEF ClaudePatch, TurnInv, Answers
  <2> QED BY <2>1, <2>2, <2>3, <2>4
<1>3. SaysInv'
  <2>1. CASE ~ClaudePatch
    BY <2>1, NoneAssumption, ResultValues DEF SaysInv, Typed, Printed, Holding, Handling,
         Cleaning, Statuses
  <2>2. CASE ClaudePatch
    BY <2>2, ClaudePatchDecides
  <2> QED BY <2>1, <2>2
<1>4. FileInv'
  <2>1. CASE ClaudeOut
    BY <2>1, AttemptNumbers, ResultValues DEF FileInv, SaysInv, Typed, Printed, Holding,
         Handling, Cleaning, Statuses
  <2>2. CASE ClaudeFailure \/ ClaudePatch
    BY <2>2, AttemptNumbers, ResultValues DEF ClaudePatch, FileInv, SaysInv, Typed, Printed,
         Holding, Handling, Cleaning, Statuses
  <2>3. CASE ClaudeRequest \/ ClaudePrepare \/ ClaudeRun \/ ClaudeLine \/ ClaudeStrangeLine
              \/ ClaudeStreamEnds \/ ClaudeDeadline \/ ClaudeWait
    BY <2>3, AttemptNumbers, ResultValues DEF FileInv, SaysInv, Typed, Printed, Holding,
         Handling, Cleaning, Statuses
  <2> QED BY <2>1, <2>2, <2>3
<1>5. EarnInv'
  <2>1. CASE ~ClaudePatch
    BY <2>1, ResultValues DEF EarnInv, SaysInv, Typed, Earned, Backed, Printed, Holding,
         Handling, Cleaning, Strict, Judging, Asking, Fresh, Passed, Judged, Written, Statuses
  <2>2. CASE ClaudePatch
    BY <2>2, ClaudePatchDecides
  <2> QED BY <2>1, <2>2
<1>6. PlainInv'
  BY NoneAssumption DEF ClaudePatch, PlainInv, SaysInv, Ended, Handling, Cleaning, Typed
<1>7. ExploitInv'
  BY NoneAssumption DEF ClaudePatch, ExploitInv, PlainInv, SaysInv, Ended, Handling,
       Cleaning, Services, AfterTry, Working, Undone, Typed
<1> QED BY <1>1, <1>2, <1>3, <1>4, <1>5, <1>6, <1>7

\* openhands
OpenHandsSteps ==
  OpenHandsRequest \/ OpenHandsPrepare \/ OpenHandsRun \/ OpenHandsPatch
  \/ OpenHandsFailure \/ OpenHandsOut

\* Its steps keep the invariant.
LEMMA OpenHandsKeeps == ASSUME EpisodeInv, OpenHandsSteps PROVE EpisodeInv'
<1> USE DEF EpisodeInv, OpenHandsSteps, OpenHandsRequest, OpenHandsPrepare, OpenHandsRun,
    OpenHandsFailure, OpenHandsOut, Fails, Says
<1>1. Typed'
  <2>1. CASE ~OpenHandsPatch
    BY <2>1, ResultValues, EpisodeAssumption DEF Typed, Ending, Evidence, Modes, Statuses
  <2>2. CASE OpenHandsPatch
    BY <2>2, OpenHandsPatchDecides
  <2> QED BY <2>1, <2>2
<1>2. TurnInv'
  BY EpisodeAssumption DEF OpenHandsPatch, TurnInv, Answers
<1>3. SaysInv'
  <2>1. CASE ~OpenHandsPatch
    BY <2>1, NoneAssumption, ResultValues DEF SaysInv, Typed, Printed, Holding, Handling,
         Cleaning, Statuses
  <2>2. CASE OpenHandsPatch
    BY <2>2, OpenHandsPatchDecides
  <2> QED BY <2>1, <2>2
<1>4. FileInv'
  <2>1. CASE OpenHandsOut
    BY <2>1, AttemptNumbers, ResultValues DEF FileInv, SaysInv, Typed, Printed, Holding,
         Handling, Cleaning, Statuses
  <2>2. CASE OpenHandsFailure \/ OpenHandsPatch
    BY <2>2, AttemptNumbers, ResultValues DEF OpenHandsPatch, FileInv, SaysInv, Typed,
         Printed, Holding, Handling, Cleaning, Statuses
  <2>3. CASE OpenHandsRequest \/ OpenHandsPrepare \/ OpenHandsRun
    BY <2>3, AttemptNumbers, ResultValues DEF FileInv, SaysInv, Typed, Printed, Holding,
         Handling, Cleaning, Statuses
  <2> QED BY <2>1, <2>2, <2>3
<1>5. EarnInv'
  <2>1. CASE ~OpenHandsPatch
    BY <2>1, ResultValues DEF EarnInv, SaysInv, Typed, Earned, Backed, Printed, Holding,
         Handling, Cleaning, Strict, Judging, Asking, Fresh, Passed, Judged, Written, Statuses
  <2>2. CASE OpenHandsPatch
    BY <2>2, OpenHandsPatchDecides
  <2> QED BY <2>1, <2>2
<1>6. PlainInv'
  BY NoneAssumption DEF OpenHandsPatch, PlainInv, SaysInv, Ended, Handling, Cleaning, Typed
<1>7. ExploitInv'
  BY NoneAssumption DEF OpenHandsPatch, ExploitInv, PlainInv, SaysInv, Ended, Handling,
       Cleaning, Services, AfterTry, Working, Undone, Typed
<1> QED BY <1>1, <1>2, <1>3, <1>4, <1>5, <1>6, <1>7

\* cybergym
CyberGymSteps ==
  CyberGymRequest \/ CyberGymPrepare \/ CyberGymDocker \/ CyberGymDaemon \/ CyberGymImages
  \/ CyberGymServer \/ CyberGymAgent \/ CyberGymDiscover \/ CyberGymVerify \/ CyberGymFinal
  \/ CyberGymEmit \/ CyberGymTrap \/ CyberGymAbort \/ CyberGymCleanup \/ CyberGymExit

\* Its steps keep the invariant.
LEMMA CyberGymKeeps == ASSUME EpisodeInv, CyberGymSteps PROVE EpisodeInv'
<1> USE DEF EpisodeInv, CyberGymSteps, CyberGymRequest, CyberGymPrepare, CyberGymDocker,
    CyberGymDaemon, CyberGymImages, CyberGymServer, CyberGymAgent, CyberGymDiscover,
    CyberGymVerify, CyberGymEmit, CyberGymTrap, CyberGymAbort, CyberGymCleanup,
    CyberGymExit, Trapped, Aborted, Changed, WritesThen
<1>1. Typed'
  <2>1. CASE ~CyberGymFinal
    BY <2>1, ResultValues, EpisodeAssumption DEF Typed, Ending, Evidence, Modes, Statuses
  <2>2. CASE CyberGymFinal
    BY <2>2, CyberGymFinalDecides
  <2> QED BY <2>1, <2>2
<1>2. TurnInv'
  BY EpisodeAssumption DEF CyberGymFinal, TurnInv, Answers
<1>3. SaysInv'
  <2>1. CASE ~CyberGymFinal
    BY <2>1, NoneAssumption, ResultValues DEF SaysInv, Typed, Printed, Holding, Handling,
         Cleaning, Statuses
  <2>2. CASE CyberGymFinal
    BY <2>2, CyberGymFinalDecides
  <2> QED BY <2>1, <2>2
<1>4. FileInv'
  <2>1. CASE CyberGymEmit \/ CyberGymTrap
    BY <2>1, AttemptNumbers, ResultValues DEF FileInv, SaysInv, Typed, Printed, Holding,
         Handling, Cleaning, Statuses
  <2>2. CASE CyberGymAbort \/ CyberGymFinal
    BY <2>2, AttemptNumbers, ResultValues DEF CyberGymFinal, FileInv, SaysInv, Typed,
         Printed, Holding, Handling, Cleaning, Statuses
  <2>3. CASE CyberGymCleanup \/ CyberGymExit
    BY <2>3, AttemptNumbers, ResultValues DEF FileInv, SaysInv, Typed, Printed, Holding,
         Handling, Cleaning, Statuses
  <2>4. CASE CyberGymRequest \/ CyberGymPrepare \/ CyberGymDocker \/ CyberGymDaemon
              \/ CyberGymImages \/ CyberGymServer \/ CyberGymAgent \/ CyberGymDiscover
              \/ CyberGymVerify
    BY <2>4, AttemptNumbers, ResultValues DEF FileInv, SaysInv, Typed, Printed, Holding,
         Handling, Cleaning, Statuses
  <2> QED BY <2>1, <2>2, <2>3, <2>4
<1>5. EarnInv'
  <2>1. CASE ~CyberGymFinal
    BY <2>1, ResultValues DEF EarnInv, SaysInv, Typed, Earned, Backed, Printed, Holding,
         Handling, Cleaning, Strict, Judging, Asking, Fresh, Passed, Judged, Written, Statuses
  <2>2. CASE CyberGymFinal
    BY <2>2, CyberGymFinalDecides
  <2> QED BY <2>1, <2>2
<1>6. PlainInv'
  <2>1. CASE CyberGymRequest \/ CyberGymPrepare \/ CyberGymDocker \/ CyberGymDaemon
    BY <2>1, NoneAssumption DEF PlainInv, SaysInv, Ended, Handling, Cleaning, Typed
  <2>2. CASE CyberGymCleanup \/ CyberGymExit \/ CyberGymAbort \/ CyberGymVerify \/ CyberGymTrap
    BY <2>2, NoneAssumption DEF PlainInv, SaysInv, Ended, Handling, Cleaning, Typed
  <2>3. CASE CyberGymImages \/ CyberGymServer \/ CyberGymAgent \/ CyberGymDiscover
              \/ CyberGymFinal \/ CyberGymEmit
    BY <2>3, NoneAssumption DEF CyberGymFinal, PlainInv, SaysInv, Ended, Handling, Cleaning,
         Typed
  <2> QED BY <2>1, <2>2, <2>3
<1>7. ExploitInv'
  BY NoneAssumption DEF CyberGymFinal, ExploitInv, PlainInv, SaysInv, Ended, Handling,
       Cleaning, Services, AfterTry, Working, Undone, Typed
<1> QED BY <1>1, <1>2, <1>3, <1>4, <1>5, <1>6, <1>7

-----------------------------------------------------------------------------
(* The steps around them *)
\* The end of a cleanup goes on past the finally clause, into it, or out.
LEMMA CleanEndKeeps == ASSUME EpisodeInv, CleanEnd PROVE EpisodeInv'
<1> USE DEF EpisodeInv, CleanEnd
<1>1. Typed'
  BY DEF Typed, Modes
<1>2. TurnInv'
  BY DEF TurnInv, Handling
<1>3. SaysInv'
  BY NoneAssumption DEF SaysInv, Printed, Holding, Handling, Cleaning
<1>4. FileInv'
  BY DEF FileInv, SaysInv, Handling
<1>5. EarnInv'
  BY DEF EarnInv, SaysInv, Earned, Backed, Passed, Judged, Written, Holding, Handling, Cleaning
<1>6. PlainInv'
  BY DEF PlainInv, Ended, Handling
<1>7. ExploitInv'
  BY DEF ExploitInv, SaysInv, Ended, Working, Undone, Handling, Cleaning, AfterTry
<1> QED BY <1>1, <1>2, <1>3, <1>4, <1>5, <1>6, <1>7

\* A SIGTERM that has a handler: what was said stays said, and the cleanup begins, or begins
\* again, in the handler.
LEMMA StopKeeps == ASSUME EpisodeInv, Stop PROVE EpisodeInv'
<1> USE DEF EpisodeInv
<1>1. /\ runner \in Handling /\ pc # "exited" /\ pc' = "clean" /\ signals' = signals + 1
      /\ signals < MaxSignals /\ signals \in Nat
      /\ UNCHANGED <<session, faults, children, verdict, evidence, outputs, published, host,
                     stuck, dialogue>>
  BY EpisodeAssumption DEF Stop, Typed
<1>2. /\ mode' \in {"handler_try", "handler", "interrupted"}
      /\ pc \in AfterTry /\ mode # "interrupted" => mode' = "handler"
      /\ mode \in {"handler", "unwind", "interrupted"} => mode' \in {"handler", "interrupted"}
      /\ mode = "run" /\ pc \in Cleaning => mode' \in {"handler", "interrupted"}
      /\ runner = "exploitgym" /\ mode' # "interrupted" => mode # "interrupted" /\ pc \notin Working
  BY DEF Stop, SaysInv, AfterTry, Cleaning, Working
<1>3. Typed'
  BY <1>1, <1>2, EpisodeAssumption DEF Typed, Modes
<1>4. TurnInv'
  BY <1>1 DEF TurnInv, Handling
<1>5. line # None => mode' \in {"handler", "interrupted"}
  BY <1>1, <1>2 DEF SaysInv, Printed, Handling, AfterTry
<1>6. SaysInv'
  BY <1>1, <1>2, <1>5 DEF SaysInv, Printed, Holding, Handling, Cleaning
<1>7. FileInv'
  BY <1>1, <1>2 DEF FileInv, Handling
<1>8. EarnInv'
  BY <1>1, <1>2 DEF EarnInv, Earned, Backed, Passed, Judged, Written, Holding, Handling
<1>9. PlainInv'
  BY <1>1, NoneAssumption DEF PlainInv, SaysInv, Ended, Handling
<1>10. ExploitInv'
  BY <1>1, <1>2, NoneAssumption DEF ExploitInv, SaysInv, Ended, Undone, Cleaning, Working
<1> QED BY <1>3, <1>4, <1>6, <1>7, <1>8, <1>9, <1>10

\* A program that is killed has said what it had said.
LEMMA KilledKeeps == ASSUME EpisodeInv, Killed PROVE EpisodeInv'
<1> USE DEF EpisodeInv, Killed
<1>1. Typed'
  BY EpisodeAssumption DEF Typed, Modes
<1>2. TurnInv'
  BY DEF TurnInv
<1>3. SaysInv'
  BY NoneAssumption DEF SaysInv, Printed, Holding, Cleaning
<1>4. FileInv'
  BY DEF FileInv
<1>5. EarnInv'
  BY DEF EarnInv, Earned, Backed, Passed, Judged, Written, Holding, Cleaning
<1>6. PlainInv'
  BY DEF PlainInv, Ended
<1>7. ExploitInv'
  BY DEF ExploitInv, Ended, Undone, Working
<1> QED BY <1>1, <1>2, <1>3, <1>4, <1>5, <1>6, <1>7

\* The trap of cybergym begins the cleanup.
LEMMA SignalKeeps == ASSUME EpisodeInv, CyberGymSignal PROVE EpisodeInv'
<1> USE DEF EpisodeInv, CyberGymSignal
<1>1. Typed'
  BY EpisodeAssumption DEF Typed, Modes
<1>2. TurnInv'
  BY DEF TurnInv
<1>3. SaysInv'
  BY NoneAssumption DEF SaysInv, Printed, Holding, Handling, Cleaning
<1>4. FileInv'
  BY DEF FileInv
<1>5. EarnInv'
  BY DEF EarnInv, Earned, Backed, Passed, Judged, Written, Holding, Handling
<1>6. PlainInv'
  BY NoneAssumption DEF PlainInv, SaysInv, Ended
<1>7. ExploitInv'
  BY DEF ExploitInv
<1> QED BY <1>1, <1>2, <1>3, <1>4, <1>5, <1>6, <1>7

\* Evidence that comes later takes nothing from the results that rest on what there was.
LEMMA WritesKeep == ASSUME EpisodeInv, EvaluationWrites PROVE EpisodeInv'
<1> USE DEF EpisodeInv
<1>1. UNCHANGED <<session, faults, signals, pc, children, verdict, outputs, rest>>
  BY DEF EvaluationWrites
<1>2. PICK v \in Evidence : /\ evidence' = [evidence EXCEPT ![attempt] = v]
                            /\ evidence[attempt] \notin {"fail", "pass"}
                            /\ evidence[attempt] = "unreadable" => v \in {"fail", "pass"}
  BY DEF EvaluationWrites, Evidence
<1>3. Typed'
  BY <1>1, <1>2 DEF Typed
<1>4. \A n \in Attempts : evidence[n] \in {"fail", "pass"} => evidence'[n] = evidence[n]
  BY <1>2 DEF Typed
<1>5. Judged \subseteq Judged' /\ Written \subseteq Written'
  BY <1>2, <1>4 DEF Judged, Written, Typed
<1>6. \A r \in Result : Backed(r) => Backed(r)'
  <2>1. ASSUME NEW r \in Result, Passed(r.from) PROVE Passed(r.from)'
    BY <1>4, <2>1 DEF Passed, Result
  <2> QED BY <1>1, <2>1 DEF Backed
<1>7. \A r \in Result : Earned(r) => Earned(r)'
  BY <1>1, <1>5 DEF Earned
<1>8. Holding' = Holding /\ Printed' = Printed
  BY <1>1 DEF Holding, Printed
<1>9. EarnInv'
  <2>1. runner = "wildclawbench" /\ result # None => Backed(result)'
    BY <1>1, <1>6 DEF EarnInv, Typed
  <2>2. Holding => Earned(result)' /\ Backed(result)'
    BY <1>1, <1>6, <1>7 DEF EarnInv, SaysInv, Typed
  <2>3. line # None => Earned(line)' /\ Backed(line)'
    BY <1>1, <1>6, <1>7 DEF EarnInv, Typed
  <2> QED BY <1>1, <1>5, <1>8, <2>1, <2>2, <2>3 DEF EarnInv, Earned, Backed
<1>10. TurnInv' /\ SaysInv' /\ FileInv'
  BY <1>1, <1>8 DEF TurnInv, SaysInv, FileInv
<1>11. PlainInv' /\ ExploitInv'
  BY <1>1 DEF PlainInv, ExploitInv, Ended, Undone
<1> QED BY <1>3, <1>9, <1>10, <1>11

\* A new container starts from nothing but what the shared storage holds.
LEMMA AgainKeeps == ASSUME EpisodeInv, AttemptAgain PROVE EpisodeInv'
<1> USE DEF EpisodeInv, AttemptAgain
<1>1. attempt' = attempt + 1 /\ attempt' \in Attempts /\ attempt \in Nat
  BY EpisodeAssumption DEF Typed, Attempts
<1>2. Typed'
  BY <1>1, EpisodeAssumption DEF Typed, Modes
<1>3. TurnInv'
  BY EpisodeAssumption DEF TurnInv, Answers
<1>4. SaysInv'
  BY NoneAssumption DEF SaysInv, Holding, Cleaning
<1>5. FileInv'
  <2>1. file # None => file.attempt \in Nat /\ file.attempt < attempt' /\ file' = file
    BY <1>1, AttemptNumbers DEF FileInv, Typed
  <2>2. \A n \in published : n \in Nat /\ (runner = "cyberrange" => n < attempt')
    BY <1>1, AttemptNumbers DEF FileInv
  <2> QED BY <1>1, <2>1, <2>2 DEF FileInv
<1>6. EarnInv'
  BY DEF EarnInv, Holding, Cleaning, Judged, Written
<1>7. PlainInv'
  BY NoneAssumption DEF PlainInv, Ended
<1>8. ExploitInv'
  BY NoneAssumption DEF ExploitInv, Ended, Working
<1> QED BY <1>2, <1>3, <1>4, <1>5, <1>6, <1>7, <1>8


-----------------------------------------------------------------------------
(* The specification *)
\* An episode starts in the invariant,
LEMMA EpisodeStarts == EpisodeInit => EpisodeInv
<1> SUFFICES ASSUME EpisodeInit PROVE EpisodeInv
  OBVIOUS
<1> USE NoneAssumption, EpisodeAssumption DEF EpisodeInit
<1>1. Typed
  <2>1. filed \in BOOLEAN
    <3>1. (runner \notin Unfiled) \in BOOLEAN
      OBVIOUS
    <3> QED BY <3>1
  <2>2. 1 \in Attempts
    BY DEF Attempts
  <2> QED BY <2>1, <2>2 DEF Typed, Modes, Evidence
<1>2. TurnInv
  BY DEF TurnInv, Answers
<1>3. SaysInv /\ EarnInv
  BY DEF SaysInv, EarnInv, Holding, Cleaning
<1>4. FileInv
  BY DEF FileInv
<1>5. PlainInv /\ ExploitInv
  BY DEF PlainInv, ExploitInv, Ended, Working
<1> QED BY <1>1, <1>2, <1>3, <1>4, <1>5 DEF EpisodeInv

\* every step of every program keeps it,
LEMMA ProgramsKeep == ASSUME EpisodeInv, RunnerNext PROVE EpisodeInv'
<1>1. CASE NestedNext
  BY <1>1, CleanEndKeeps, ExploitGymKeeps, HarborKeeps, LiveCveKeeps
     DEF NestedNext, ExploitGymSteps, HarborSteps, LiveCveSteps
<1>2. CASE EvaluationNext
  BY <1>2, DtapKeeps, ClawKeeps, OpenRtKeeps, WildClawKeeps, CyberRangeKeeps, OpenClawKeeps
     DEF EvaluationNext, DtapSteps, ClawSteps, OpenRtSteps, WildClawSteps, CyberRangeSteps,
         OpenClawSteps
<1>3. CASE DialogueNext
  BY <1>3, Geo3kKeeps, StrictKeeps, ClaudeKeeps, OpenHandsKeeps
     DEF DialogueNext, Geo3kSteps, StrictSteps, ClaudeSteps, OpenHandsSteps
<1>4. CASE CyberGymNext
  BY <1>4, CyberGymKeeps DEF CyberGymNext, CyberGymSteps
<1> QED BY <1>1, <1>2, <1>3, <1>4 DEF RunnerNext

\* and so does every other step,
LEMMA EpisodeInductive == ASSUME EpisodeInv, [Next]_episodeVars PROVE EpisodeInv'
<1>1. CASE Next
  BY <1>1, ProgramsKeep, StopKeeps, KilledKeeps, SignalKeeps, WritesKeep, AgainKeeps DEF Next
<1>2. CASE UNCHANGED episodeVars
  BY <1>2 DEF episodeVars, EpisodeInv, Typed, TurnInv, SaysInv, FileInv, EarnInv, PlainInv,
      ExploitInv, Holding, Printed, Earned, Backed, Passed, Judged, Written,
      Ended, Undone
<1> QED BY <1>1, <1>2

\* so it always holds.
LEMMA EpisodesKeep == Spec => []EpisodeInv
BY EpisodeStarts, EpisodeInductive, PTL DEF Spec

\* A score above zero is one the metrics hold, and harbor and exploitgym give none to a failure.
LEMMA RuleScores ==
  ASSUME NEW r, "some" \in RuleScore(r)
  PROVE  r.score = "some" /\ (runner \in {"harbor", "exploitgym"} => r.status = "succeeded")
BY DEF RuleScore, HarborRule, ExploitGymRule, LiveCveRule, Geo3kRule, OpenRtRule,
       CyberRangeRule, CyberGymRule, PatchEvalRule, Number

\* Every variable keeps its type; in particular no dialogue goes beyond its turns, but for
\* the calls of the last line claudecode reads.
THEOREM EpisodesTypeCorrect == Spec => []EpisodeTypeOK
<1>1. EpisodeInv => EpisodeTypeOK
  BY DEF EpisodeInv, Typed, TurnInv, EpisodeTypeOK
<1> QED BY <1>1, EpisodesKeep, PTL

\* A program that ends with status 0 has said the result of its attempt, one that ends with a
\* traceback has not, and the result file says the same, in every program, for every order of
\* faults, signals and attempts.
THEOREM ResultsAreSaid == Spec => []ResultIsSaid
<1>1. EpisodeInv => ResultIsSaid
  BY DEF EpisodeInv, SaysInv, FileInv, ResultIsSaid
<1> QED BY <1>1, EpisodesKeep, PTL

\* No program that looks how its evaluation ended says "succeeded" of one that did not end
\* well; harbor, cyberrange and exploitgym say it only of verdicts that were complete, and
\* livecvebench, openrt and clawenvkit, which never ask whether a file parses, at least of one
\* that was there; however often the session is attempted over the same directory.
THEOREM SuccessesAreEarned == Spec => []SuccessIsEarned
<1>1. EpisodeInv => SuccessIsEarned
  BY DEF EpisodeInv, EarnInv, FileInv, Earned, SuccessIsEarned
<1> QED BY <1>1, EpisodesKeep, PTL

\* No reward without a verdict that passed, and no score, but for the one a failed livecvebench
\* episode may take from its metadata; and of this attempt where the program looks at no other,
\* whatever evidence comes late.
THEOREM RewardsAreBacked == Spec => []RewardIsBacked
<1>1. ASSUME EpisodeInv PROVE RewardIsBacked
  <2>1. CASE line # None
    <3>1. Backed(line)
      BY <1>1, <2>1 DEF EpisodeInv, EarnInv
    <3> QED BY <3>1, RuleScores DEF Backed, RewardIsBacked
  <2> QED BY <2>1 DEF RewardIsBacked
<1> QED BY <1>1, EpisodesKeep, PTL

\* No process a program had noted down outlives it, and what is left of the changes to the host
\* is what it tried in vain to change back, unless it was killed or a signal broke off
\* exploitgym's cleanup; and never does exploitgym's daemon go before a firewall it could remove.
THEOREM ProgramsCleanUp == Spec => []CleanedUp
<1>1. ASSUME EpisodeInv, Ended, mode # "interrupted" PROVE Undone
  <2>1. CASE runner = "exploitgym"
    BY <1>1, <2>1 DEF EpisodeInv, ExploitInv
  <2>2. CASE runner \in {"harbor", "cyberrange", "cybergym"}
    BY <1>1, <2>2 DEF EpisodeInv, PlainInv, Undone
  <2>3. CASE runner \notin {"exploitgym", "harbor", "cyberrange", "cybergym"}
    BY <1>1, <2>3 DEF EpisodeInv, PlainInv, Undone
  <2> QED BY <2>1, <2>2, <2>3
<1>2. EpisodeInv => (runner = "exploitgym" /\ "daemon" \in known \ alive =>
                       "firewall" \notin host \ stuck)
  BY DEF EpisodeInv, ExploitInv
<1>3. EpisodeInv => CleanedUp
  BY <1>1, <1>2 DEF CleanedUp, Ended, Undone
<1> QED BY <1>3, EpisodesKeep, PTL
=============================================================================
