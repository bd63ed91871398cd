# Verification of the Safactory Job server

TLA+ specifications, TLC models and TLAPS proofs about the Safactory Job server (`src/src/server`) and
the programs that run the episodes of its Jobs (`src/env`). A client creates a Job; the server binds its input files, starts a Gateway RJob, waits until the Gateway
is healthy, starts a Safactory controller RJob behind it, follows it to its end, answers questions about
the sessions (episodes) it runs, and cleans up. Each episode is one run of one of fourteen programs, each
for a benchmark. Every definition is translated from the source; `PROJECT.json` maps it to the lines it stands for.

## 1. The system

| Component | State | Operations | Where it is modelled |
|---|---|---|---|
| Job orchestrator, `infrastructure/real/orchestrator.py` | the one background task: the list it iterates over, the Job in hand, snapshots read before an await | `reconcile_once`, `_reconcile`, `_bind_files`, `_submit_gateway`, `_submit_safactory`, `_fail`, `_cleanup`, `start`, `stop` | `JobOrchestrator` |
| Control store, `control_store.py` | the SQLite table of Jobs | `add`, `get`, `update`, `request_close`, two lists | `ControlStore` (the rules of a row) and the store calls of `JobOrchestrator` |
| RJob clients, `rjob.py` | none | `create`, `get`, `stop` | `RJobPlatform` |
| RJob platform | one workload per Job and role | external | `RJobPlatform` |
| Runtime repository, `runtime_repository.py` | none of its own | `create_job`, `close_job`; `list_sessions`, `get_result`, `get_milestones`; `get_steps`, `get_trajectory` | `JobOrchestrator`; `SessionQuery`; `LandingRows` |
| Data-platform adapter, `data_platform.py` | none | reads the landing rows of a session | `LandingRows`, and its result in `SessionQuery` |
| File manager, `file_manager.py` | input, staging and result directories on shared storage | `bind` | `FileBinding` |
| Public Job lifecycle (API design, `domain/entities.py`) | job_status, cleanup owed | | `JobLifecycle`, the abstract specification |
| Catalog, settings | trusted YAML and environment | parse, validate | not modelled; edits of the catalog are an action of `FileBinding` |
| HTTP API, authentication, logging | none | one handler per route | not modelled: stateless |
| Runners with a nested Docker daemon: exploitgym, harbor, livecvebench | one episode: processes started, firewall and key settings of the container, result directory | resolve, start the daemon and relay, run, collect, clean up, publish | `NestedRunners` |
| Runners with one evaluation process: dtap, clawenvkit, openrt, wildclawbench, cyberrange, openclaw | the same, without a daemon | resolve, run, read what was left, publish | `EvaluationRunners` |
| Runners that talk to the model: geo3k; patcheval strict, claudecode, openhands | turns or epochs, the answer so far | ask, judge, say | `DialogueRunners` |
| CyberGym runner (bash) | server, own daemon and its configuration, PoC database | prepare, serve, run, verify, write, traps | `CyberGymRunner` |
| Rule evaluators | none | one score from a result | `RuleEvaluators` |
| PatchEval image adapter | Docker images and containers shared by threads | `ensure_image`, `run_with_archive`, `remove_with_cleanup` | `ImageArchive` |
| Environment build tooling | none | generates configuration once | not modelled |

How they interact. The API handlers and the background task run on one event loop and share nothing but
the Jobs table; they meet through the guards of `update` and `request_close`. The task calls the RJob
platform, which moves by itself. The file manager is called by the task and meets the operator, who edits
the catalog and the files it names. The queries read the Job row first and the data platform or a result
directory later, and join the two. After a crash nothing but the database and the shared storage is left.

A runner is started by the controller, in a container of its own. It meets its evaluation, a child process
that writes into the result directory until it is stopped; the operator or the platform, who send SIGTERM and
SIGKILL; and earlier attempts of the same session, whose files the shared storage still has. What it says
on stdout, or files under `SAFACTORY_RESULT_PATH`, becomes a result and, through the rule evaluator of the
environment, a score. The image adapter lives in the Python process of the PatchEval evaluation, whose
threads start and remove containers.

What is hard about it, by component:

- *Orchestrator*: every `await` lets a close, a deadline or the platform in, so what was read before is
  stale after; calls fail, or take effect and lose their answer; the process dies inside a call; one task
  serves all Jobs, so what ends it ends everything. Right means: no step of a Job is recorded before its
  predecessor, no workload is submitted while the row has its id, or forgotten, the controller never runs without its Gateway,
  failure reasons are backed by what was recorded, every Job ends, every cleanup completes.
- *Store*: three writers guard the status on their own; only their combination gives the lifecycle.
- *File manager*: the publication (a rename) and the record of it (a row) are two writes with a crash in
  between. Right means: what is published is complete, immutable and what the row says, and is adopted
  after a crash; errors leave no staging directory.
- *Queries*: answers are computed from two or three reads of different systems. Right means: what a client
  is told never goes back, is never prematurely final, and a client that polls is some day told an end.
- *Runners*: an error, a timeout or a signal may come at each step, in the handlers and in the cleanup too; a
  killed attempt leaves parts of its files to the next; an evaluation that timed out may still write. Right
  means: what is said is what is filed, and is said exactly when the program ends well; a success comes after an
  evaluation that ended well where the program looks, a reward rests on a verdict that passed, of this attempt
  where the directory is its own; nothing that was started is left, and no change of the host without an attempt
  to undo it; every episode ends.
- *Image adapter*: a lock for each image which is free between the look at an image and the use of it. Right
  means: images that were there before stay, and what the adapter loaded is gone in the end.
- *Landing rows*: rows of one session have several writers and land late. Right means: steps keep their
  numbers and are found again, an end is true and final.

`PROJECT.json` lists the hazards, each at its line, with the property that covers it or the reason why
none does.

## 2. The modules

    ControlStore                   a row of the table, the guards of its writers (operators, no state)
      RJobPlatform                 + the workloads of the platform and the faults
        JobOrchestrator            + the task, the API, clocks, crashes         implements JobLifecycle
          SessionQuery             + the queries and the episodes, composed with all of the above
    FileBinding                    bind() step by step (JobOrchestrator takes it as one step)
    LandingRows                    one session's rows and the requests for its result and its steps
    Episode                        what all runners share: the steps, the result, the attempts
      NestedRunners, EvaluationRunners, DialogueRunners, CyberGymRunner     the programs
      RuleEvaluators               a result to a score
        EpisodeRunners             all of them together, with their properties
    ImageArchive                   the adapter's threads and Docker
    MCJobOrchestrator, MCSessionQuery, MCFileBinding, MCLandingRows, MCEpisodeRunners,
    MCImageArchive                 instances for TLC
    JobOrchestratorProofs, RowProofs, StepProofs                  the orchestrator, each on the one before
      SessionProofs                                               the queries, on top of the three
    FileBindingProofs, LandingProofs, EpisodeProofs, ImageProofs

### JobOrchestrator

`jobs[j]` is a row of the table, reduced to what the properties tell apart: status, phase, reason,
whether the binding is set, the set `ids` of roles whose RJob id is set, the Gateway URL, the last
recorded status of each RJob, and the cleanup mark. `pc` is the await the task is at; each label is one
store call or one external call, each action one outcome of it. The decision the code takes on the row
that a store call returned is part of the action of that call, since nothing runs in between. `cur`,
`todo`, `why`, `closing`, `gateway`, `controller` are the locals that live across an await. `ctx` says who
handles what is raised: the first loop of `reconcile_once` (which has `except` clauses), its handlers, or the
second loop (neither of which has any). `late[j]` holds the deadlines that have passed.

Abstractions:

- Every `await` is a scheduling point. This allows more than the code does: the SQLite calls themselves
  run synchronously under an uncontended `asyncio.Lock`.
- `wake()` and the poll timeout both end the wait between two passes; a pass may begin at any time.
- `get()` reports CANCELLED and FAILED, which all callers treat alike, as "failed". Deleting is
  asynchronous: a deleted workload lingers as "deleting", which is seen as CANCELLED.
- The address of a running Gateway is any of `Addresses`, or not known yet, at each poll.
- A deadline is a boolean that becomes true once; the two deadlines are independent of each other.
- `stop()` of the server is treated as a crash: whatever is awaited is cancelled. A create that the
  platform accepts after the death of the process is accepted at the crash or never.
- The contents of RJob specs, images, timestamps and the append-only event table are left out. The names
  of workloads are injective (see the hazard about their truncation).
- Faults are named in the constant `Faults`. The malformed answer of a create that took effect is allowed where both
  "raise" and "lost_answer" are; "raise" alone is a call that raises before it has an effect.
- The store does not fail. A failing list query would end the task, as in the run `dead_task`.

### SessionQuery

Composes `JobOrchestrator` (`ServerStep` is its `Next`) with one client that sends requests (`Ask`
reads the Job row, `QueryResult`, `ReadArtifact`, `ReadMilestones`, `MilestonesMissing`, `ListSessions` are
the later reads), and with the episodes, which are external: they begin while the controller
runs or is being torn down, their rows and files arrive until they end, and the controller ends with
success only when all are persisted (PRD, FR-04 and FR-05). `told` is the last answer of each kind. A
crash of the server drops the request under way. The Range of a Job stays what it was. The declared result
artifact of a session is not a file of its own here: it is published before the episode counts as a success
(PRD), so `ReadArtifact` misses it only where the data platform says "succeeded" and the Job has no binding.

### FileBinding

`disk[j]` is the input directory under its final name, `staging` the directory of the call under way,
`bound[j]` the column `binding_json`. A version stands for everything one rendering read and wrote. The
steps are those of `bind`: look up the Range, adopt what is published, make the staging directory, render,
write `.binding.json`, rename, return, and the caller's update. The operator may edit catalog and files
between any two. What stands under the final name is looked at, read and parsed before the `try`: an error there
(`ResolveFails`) is not converted to a refusal, but reaches the `except Exception` of `reconcile_once` and fails
the Job all the same; `PublishedIsAdopted` names it beside the catalog. Two branches of the code stay in the model although no behaviour takes them: a published
directory without a binding, and a rename that meets an existing target.

### LandingRows

`rows` are the rows a query sees, `transit` those that were written and have not landed. `Later` is
`_row_sort_key`; `TrajectoryRows`, `Number`, `IsSealingRow` and `Result` are the operators of the adapter;
the requests are those of the repository, `get_trajectory` with its second query. `inOrder` says whether
the rows land in the order they were written; it is chosen once for each behaviour, and two of the properties only claim
anything of the sessions where they do. Scores are left out but for whether there is one.

### Episode and the runners

`runner` is chosen once; its actions are those whose name begins with the program's. `pc` is the statement
the program is at, reduced to those that call something, may raise, or change what the others look at:
`Try(l, h)` goes on at `l`, or raises and goes on at the handler `h`. `alive` are the processes that exist,
`known` those the program has a variable for: `Popen` returns between `Spawn` and `Record`, so a signal in
between finds a process nobody knows of. `native` is how the evaluation ended. `evidence[n]` is what the evaluation of
attempt n left: nothing, parts, a verdict, or (`VerdictFile`) a verdict file that does not parse because it is
still being written; `EvaluationWrites` goes on until the evaluation, or a child of it that
a timeout did not reach, is stopped. A result is a status, whether there is a reward, what the metrics hold,
and `from`, the attempts it was drawn from. `filed` says whether the program was given a
`SAFACTORY_RESULT_PATH`; five of them never look (`Unfiled`). `mode` follows signals: exploitgym and harbor leave
their SIGTERM handler with `SystemExit`, which runs the finally clause but no `except Exception`; cybergym's
shell runs its EXIT trap. `interrupted` is an exploitgym whose cleanup a signal broke off: it has marked itself
done before it began, and no later call of it does anything. `Killed` is SIGKILL, and SIGTERM for the programs
without a handler; the container goes with the program. `host` is what the program has changed of the host and
not changed back, `stuck` the part of it that a cleanup tried in vain to change back: cyberrange, cybergym and
exploitgym all drop the errors of these steps (`Sticks`). `published` are the attempts whose native artifacts lie
in the result directory, of more than one when a copy replaced only some of them.
`AttemptAgain` starts the session anew over the old result directory.

What tells the programs apart, and is kept: what of the code stands inside `try`, which errors of the result
file end the program and which are logged, whether the files of other attempts are read (livecvebench takes the
newest, openrt all), whether a verdict must parse (harbor, cyberrange, exploitgym) or its file only be there
(livecvebench, openrt, clawenvkit), whether a timeout is an error or only noted, and in which order result and artifacts are
written. Left out: commands, prompts, settings, formulas of the scores, trajectories.

`CyberGymRunner` gives bash its due: the ERR trap is not inherited by functions, so a failing command in one of
them leaves through the EXIT trap without a result (`Aborted`), while a function that returns 1 fires the
trap in its caller (`Trapped`). `PhaseTimeout` and what is made of it are integer arithmetic, for the proofs
alone: the steps leave the time open.

### ImageArchive

Each thread is at a call of the adapter or of Docker; `mine` is what `ensure_image` returned, later what was
recorded of the container. A container is named by its thread, or by a number once nobody knows of it. Docker is
external: an image in use cannot be removed, a missing one is pulled when a container is created. `odd` counts
calls that fail and pulls.

### JobLifecycle

The abstract specification: status along queued, preparing, running to succeeded, failed or closed,
a cleanup owed by every ending, closed exactly when the cleanup of a closing Job is done, and fairness. `JobOrchestrator` implements it under
`status <- jobs[j].status`, `owes <- {j : jobs[j].cleanup}`.

## 3. What is checked

| Run | Instance | Shows |
|---|---|---|
| `faults` | 1 Job, 2 addresses, all faults but "raise", 2 crashes, fairness | the row invariants, the order of submissions and deletes, the refinement of `JobLifecycle`, liveness included |
| `two_jobs` | 2 Jobs, `keep_rjobs`, failing calls, and calls that end the task | the task's assumptions hold when another Job is handled and closed in between; no workload escapes the record; only a close deletes |
| `files` | 2 Jobs, 2 versions, 2 faults | publication is atomic, recorded truly, adopted after a crash, and leaves no staging directory behind |
| `answers` | 1 Job, 1 session, clients after milestones or after list and result, fairness | what a client is told never goes back and is never said too early; polling ends |
| `landing` | 1 session, 2 model calls, 4 rows | steps keep their numbers and are found again; ends are true and final |
| `episodes` | each of 14 programs, 2 attempts, 2 errors, 2 signals in each attempt, 2 turns, fairness | the result said is the result filed; success and reward rest on evidence; cleanups; every episode ends |
| `images` | 3 threads, 1 image, 5 containers, 2 failing calls or pulls | other images stay; what the adapter loaded is removed |
| `orphan`, `dead_task`, `gateway_early`, `recovery`, `ended_list` | smallest instance that shows it | five disagreements between documents and code (section 7) |

Each property of a passing run has a mutant in the modules (the operators whose comment begins with
"Mutant"): a plausible bug of the mapped code with which TLC finds that property violated.

### Bounds, and why they are enough

- *One Job* (`faults`, `answers`). Jobs share only the task. What another Job adds
  is a list read before long awaits, and a task that is elsewhere; `two_jobs` has both. The proofs hold
  for any number of Jobs. Two Jobs with every fault, or with liveness, are out of reach of a short run.
- *Two addresses*, so that a Gateway can move (`GATEWAY_ADDRESS_CHANGED`). *Two crashes*: one interrupts
  an operation, one its recovery.
- *MaxFaults = 2* in `FileBinding`: a crash and an error, or two crashes, in any two steps; *two versions*,
  so that the sources can change between them.
- *One session*: answers about two sessions have no state in common. *One request at a time*: a client
  compares answers it got one after the other.
- *Two model calls, four rows*: a step before and one after, with a repetition or refusal of either, or both
  closing rows around a late row.
- *Two attempts*: what an attempt finds is what earlier ones left, and two such attempts leave no more kinds of
  files than one. *Two errors, two signals* (`MaxFaults`, `MaxSignals`): one brings the program to a handler or its cleanup, the
  second comes there. *Two turns* (`MaxTurns`): one that goes on and one at the limit.
- *Three threads, one image*: images have locks of their own and share nothing; two threads overlap and a third
  comes between their steps. *Five containers*: each thread starts one, two of them a second. *MaxOdd = 2*: a
  failure and a pull, in any two steps. The proofs hold for any number of all of them.
- Passes, retries, polls, edits and requests are not bounded.

`CHECK_DEADLOCK FALSE` is set in the two instances with the fault "raise", in which the task may die for good, and in
`episodes` and `images`, which end. The invariants under "raise" with one Job are left to the proofs.

### Fairness

`FairSpec` assumes weak fairness of `TaskStep` (the event loop runs the task, and calls end with an
answer or an error), of `Restart` (the service is restarted) and of the deadlines (clocks advance), and
strong fairness of each accepted delete: the platform does not refuse the same delete for ever, of which
`_cleanup`'s endless retry is the other half. Nothing is assumed of the platform's own moves, of
other calls (they may fail for ever: the deadlines must end such a Job), of the API, or that there are no
crashes. `SessionFairSpec` is for a server whose own calls do not fail: the task runs, clocks advance, a request ends
with an answer or an error, the client goes on polling, and neither the data platform nor the disk refuses every
one of its requests.

`EpisodeRunners` assumes only that the program takes its next step, an error among them. Two waits are excepted
(`Unforced`): openclaw and exploitgym start their agent without a timeout, so nothing in the code ends them, and
`EpisodeEnds` claims nothing of these two. Nothing is assumed of signals, of the evaluation's writes and of
further attempts.

## 4. What is proved

Every invariant and every action property that a passing run checks is also a theorem: TLAPS checks them for
every set of Jobs, sessions, addresses, threads and faults, and for every number of crashes, attempts,
signals, turns, rows and steps, where these are counted at all. The assumptions on the constants say that
`None` differs from the values it is used next to (`ConstantsAssumption`, `BindingAssumption`, and
`NoneAssumption` of `SessionQuery` and of `Episode`) and what type the other constants have
(`FaultsAssumption`, `SessionAssumption`, `LandingAssumption`, `EpisodeAssumption`, `ImageAssumption`). TLC
evaluates all of them in the runs. The theorems are about the specifications without fairness.

- `TypeCorrect` (`JobOrchestratorProofs`): the type invariant, one lemma per group of actions.
- `RowsAreConsistent`, `PhasesMatchStatuses`, `TaskReliesOnTruth` (`RowProofs`). `RowConsistent` is not
  inductive: whether an update may claim something depends on where the task stands and on what it read
  several awaits ago. The strengthening is `RowsInv == RowConsistent /\ PhaseMatchesStatus /\ TaskInv`, where
  `TaskInv` says, for each label, what the task may rely on of the current row (`AtLabel`) and of the rows it
  has still to visit (`Listed`). The proof has two halves: every step of the task establishes `AtLabel` at its
  next label, and no step of the API, the platform or the clock destroys it. `run two_jobs` checks `TaskInv`
  with TLC.
- `SubmittedOnce`, `ControllerIsBehindGateway`, `WorkloadsAreKept` (`StepProofs`): the action properties
  follow from `TypeOK` and `RowsInv` before the step.
- `SettledJobsAreReleased`, `ControllerIsDeletedFirst` (`StepProofs`): they need the further invariant
  `ReleaseInv`, which says how far a cleanup under way has got.
- `ReasonsAreBacked` (`RowProofs`): the reason of a failure is chosen two awaits before it is written.
  `EvidenceInv` adds to `ReasonHasEvidence` that the evidence is there already at "fail" and "fail_update",
  and that a Gateway is found unready only before there is a controller.
- `NoWorkloadEscapes` (`StepProofs`): on top of `RowsInv` the property is inductive by itself. A row that was
  never created has no ids and no workload, and the step after each accepted create stores its id, into a Job
  closed meanwhile too.
- `LifecycleIsFollowed` (`StepProofs`): the safety part of the refinement. Rows move only as `MayBecome` says;
  every such move is a step of `JobLifecycle` or a stutter; every action moves at most one row.
- `BindingTypeCorrect`, `PublishedAreComplete`, `RecordedArePublished`, `StagingsAreAccounted`,
  `PublishedAreImmutable`, `PublishedAreAdopted` (`FileBindingProofs`), from the inductive `BindingInv`: what
  the call under way has at each of its steps. `PublishedAreAdopted` leaves a Job whose files are published two
  ways to fail: its Range is no longer offered, or the read of the published binding is itself in error. The count of abandoned directories is part of it, since even
  the type bound on that count needs that each is paid for by a fault.
- `OthersAlwaysStay`, `NothingIsLeft` (`ImageProofs`), for any number of threads, images, containers and
  failing calls. Neither property is inductive. For the first, `StayInv` says at which labels, and with which
  flag, a thread may come to remove an image, and that this is never one of the others. For the second,
  `LeftInv` says that while nothing failed each image noted as loaded has a thread to account for it: one on
  its way to the removal. A thread that finds a container of another and leaves the image leaves it to such a
  thread.
- `SessionsTypeCorrect`, `NothingIsIncomplete`, `NotFoundStaysTrue`, `ResultsNeverGoBack`,
  `MilestonesNeverGoBack`, `ListedStayKnown` (`SessionProofs`). A step of `SessionQuery` is a step of the
  server or leaves its variables alone, so `TypeOK`, `RowsInv` and what else holds of the server carry over.
  On top of them comes `EndInv`: where a controller is recorded to have succeeded, all its sessions have
  completed, and so nothing about them can change. `SayInv` says that each answer, and each request that has
  read the row but not yet the data, is backed by that row and the data as they are now. Since rows and data
  only advance, an answer once backed stays backed; the action properties follow from what backs the last
  answer.
- `LandingTypeCorrect`, `KnownIsAlwaysFound`, `EndsAreTrue`, `NumbersAlwaysStable`, `SealedAreComplete`,
  `ResultsOnlyAdvance` (`LandingProofs`), from `LandingInv == WrittenInv /\ AnswerInv`. `WrittenInv` is about
  what the episode wrote: ids are unique, every step with a row that is seen is in the enumeration, the first
  row with an output of a step is not written after one of a later step or one that ends the session, and
  while rows land in order none in transit is older than one that has landed. `AnswerInv` says that what was
  told rests on rows that are still seen. That a number stays the same is an argument about the enumeration:
  it counts the steps before one, and in order no new step lands before it.
- `EpisodesTypeCorrect`, `ResultsAreSaid`, `SuccessesAreEarned`, `RewardsAreBacked`, `ProgramsCleanUp`
  (`EpisodeProofs`), for all fourteen programs, from `EpisodeInv`. It says label by label whether there is a
  result and a line (`SaysInv`), what the result file may hold while they differ (`FileInv`), that a result is
  earned and backed from where it is final (`EarnInv`: a verdict file that is there stays there, and a complete
  one is never withdrawn, so it stays so), and how far each cleanup has got (`PlainInv`, `ExploitInv`).
  exploitgym needs most: its firewall can be removed only while its daemon answers, so the daemon must be there as
  long as it is; and since its cleanup runs once, whatever is marked done is undone unless a signal came while it
  was at work, which `mode` remembers. The proof has a lemma for each step that makes a result, one for each program, and one each for signals, the
  evaluation's writes and a further attempt.
- `AgentEndsFirst`, `VerificationHasTime` (`EpisodeProofs`): the arithmetic of `phase_timeout` over all
  integers. An agent that has time at all has less than its process, and after an agent that used it all and
  had to be killed the verification gets its configured time, less the delay, and ends before the episode.

## 5. What is only model-checked

Liveness: the fairness part of `ImplementsLifecycle`, `PollingEnds` and `EpisodeEnds`, and what needs
ENABLED. Both are out of the prover's reach. What the runs of section 7 show are counterexamples, and TLC finds them.

## 6. What is not modelled, and why

The parsing of the catalog and of settings, the HTTP layer, authentication and logging keep no state. RJob specs, address extraction and redaction are data handling. The second query
surface of the data-platform adapter (a higher-level SDK) maps records one to one. Calls that hang for
ever are assumed not to exist: the SDK is called without a timeout, which is listed as a hazard.

Of the runners: how a request is resolved to commands and settings; which agent `agent_dispatch.py` imports, and
the files `openhands_prepare.py` stages for it (both inside one step of cybergym); the formulas of the scores; the
scripts that generate configurations and build images. The evaluations themselves (third-party benchmarks) are
external: they write what `EvaluationWrites` lets them. A signal that breaks off exploitgym's cleanup leaves
what was not undone yet; `CleanedUp` claims of it only that the daemon does not go before the firewall. That the controller keeps the order of artifacts and
success, which `SessionQuery` assumes, is Safactory's own code and not in this repository.

## 7. Disagreements between documents and code

Each is a run that ends in a counterexample; `PROJECT.json` quotes both sides.

1. `orphan`: a create takes effect and its answer is lost, a close comes before the next pass: the Job is
   closed while the workload runs. The API design says that closed means cleaned up.
2. `dead_task`: a delete that raises anything but `RJobDependencyError` during a cleanup ends the background task. The deployment
   guide says that a failed delete is retried in the background.
3. `gateway_early`: the Gateway is deleted when the delete of the controller has been accepted. The PRD
   says when it has exited.
4. `recovery`: a crash between publication and record, and a catalog that no longer offers the Range: the Job
   fails. The PRD says that recovery reads only the snapshot.
5. `ended_list`: the session list of a failed Job grows while its controller is being stopped. The API
   design says that it no longer changes.

Seen while modelling, without a run of its own: the comment at `src/env/cyberrange/runner.py:169` says that the
runtime must always return its JSON; an error of the write of the failure's own result file ends the runner with a
traceback and no line. `ResultIsSaid` states what does hold: no line after a traceback.

Also seen, where no document says otherwise, and stated in the properties as it is: clawenvkit, openrt and livecvebench
say "succeeded" when their verdict file exists, whether it parses or not, and with no reward if it does not
(`clawenvkit/runner.py:102`, `openrt/runner.py:117`, `livecvebench/runner.py:115`); all three, dtap and harbor
may draw on what an earlier attempt of the session left; the score, not the reward, of a failed livecvebench
episode may be the accuracy its metadata claims (`livecvebench/runner.py:106`); exploitgym drops the status of
the commands that restore address randomisation and remove the firewall (`exploitgym/runner.py:511`, `:528`); and
an error of the read of a published `.binding.json` fails the Job (`file_manager.py:138`).

## 8. Plan

Done, in this order: `JobOrchestrator` with its store and platform and the first theorem; `JobLifecycle` and the refinement;
the inductive invariant and the action properties; `FileBinding` and its proofs; `SessionQuery`; `LandingRows`; the
runners with `EpisodeRunners`; `ImageArchive` and its proofs; the proofs of `SessionQuery`, `LandingRows` and
`EpisodeRunners`, after which every invariant and action property of the runs is proved.

To do:

1. That the one step in which `JobOrchestrator` binds a Job's files is what `FileBinding` implements, as a refinement.
2. The composition of `EpisodeRunners` with `LandingRows`, so that what a runner leaves behind is what a query
   answers from; the controller between the two is not in this repository.
3. The start of the server: `preflight` and the refusal to start, if a property of it turns out worth a run.
