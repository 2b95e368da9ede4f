# Verification of the research harness

TLA+ models of the parts of this repository that keep state, survive crashes
and are called by several processes, with TLC runs and TLAPS proofs. The models
are translated from `src/tools/*.py`; where a document, comment or docstring
says more than the code does, the code is modelled and the sentence is a
property.

Contents: [1 Inventory](#1-inventory) ·
[2 Modules and code](#2-modules-and-code) ·
[3 Runs](#3-runs) · [4 Proofs](#4-proofs) ·
[5 Where code and documents differ](#5-where-code-and-documents-differ) ·
[6 Not modelled](#6-not-modelled) · [7 Plan](#7-plan)

To check: `tlc -workers 2 -config <run>.cfg <module>` for each row of section 3,
`tlapm <module>.tla` for each module of section 4.

## 1 Inventory

The program turns a research request into a project directory of records and
logs. There is no server: everything is a command line over files. Concurrency
is that of processes on one project directory, ordering is that of file writes,
and failure is a process that dies between two of them.

| component | state it keeps | operations that change it | what makes it correct |
|---|---|---|---|
| **Task runtime** `task_runtime.py` | `07_runtime/research-state.json`: one record per task of the plan's DAG (status, attempts, expiries, lease, failure, effect key, request, response), `current_task` | `claim_next`, `heartbeat`, `complete`, `fail`, `wait_for_human`, `resolve_human`, `resume`; each under one flock, rolled back when it raises | one holder per task; a late caller is fenced out; attempts are spent by failures alone; dependencies; settled is settled; a dead worker's lease comes back |
| **Attempt workspaces** `attempt_workspace.py` | one directory per attempt: a copy of the project, its baseline hash, the changeset | create, inspect, promote (swap the directory, keep a backup) | a worker touches the project only through an accepted changeset |
| **Acceptance transaction** `acceptance_executor.py` | `acceptance-transaction.json` (PREPARED, PROMOTED, COMMITTED, ROLLED_BACK), the report, backup directories | `complete_attempt`, `recover_attempt_transaction`, rollback | a task succeeds exactly with its edits in the project, whatever dies on the way |
| **Supervisor** `harness_supervisor.py` | its journal `.harness/supervisor/<project>/<run>.json`; `result.json` of each attempt | `run`, `resume`, signals, the loop | bounded work, no work done twice, true outcome, always stops |
| **Worker adapter** `worker_adapter.py` | a child process, its output and deadline | start, heartbeat, terminate | a worker that does not answer is stopped and its lease is not kept for it |
| **Retry feedback** `retry_feedback.py` | the feedback of a failed attempt, bound by hashes | write, load | only the feedback of this task's last attempt is used |
| **Human decisions** `human_decisions.py` | `07_runtime/human-decisions.yaml` | `record_request`, `record_human_required`, `resolve_request` | a task that waits has a question that can be answered; one answer per question |
| **Next action** `next_action.py` | none (a view of the runtime) | `peek_next` | the held task first, then the budget, then a claim |
| **Stage B engine** `research_elements.py`, `research_element_*.py` | `research-elements.json`, the checkpoint of all accepted answers; the project files projected from it | `next`, `submit`, `finish`; a directory lock | accepted answers stay, interrupted projections are repaired, hand-made edits are kept, the run ends |
| **Stage C engine** `work_elements.py` | its own checkpoint, pinned to the digest of Stage B | `next`, `submit` | never continues over another Stage B |
| **Run log** `log_event.py`, `search_harness.py` | `run-log.jsonl` | append an event; record a batch of searches | no event lost, none twice; a recorded search stays |
| **Stage machine** `state_machine.py` | the status in `manifest.yaml` and `state.json`, transitions in the log | `transition_project`, `replay_project` | the three name one status |
| **Stopping policy** `stopping_policy.py` | the status of each question | `apply_project` | a question is closed on what the log says, once |
| **Project completion** `complete.py` | the completion report, with manifest, state and log | `complete_project` | a completed project says so in all four |
| **End-to-end run** `harness.py`, `harness_e2e.py`, `harness_paths.py` | work root with `.harness/run.json`, `e2e-run.json`, the supervisor's journal; `<output-root>/<slug>` | `run`, `resume` | published whole, once, by its own run; resumable |
| **Observability** `harness_observability.py` | `.harness/events/<run>.jsonl`, a hash chain | `append` | replays, in the order of phases |
| **Request intake** `accept_research_request.py`, `new_project.py` | project directory, request, receipt | accept | one project per request |
| **Canonical records** `validate.py`, `build_graph.py` | none: rules over claims, insights, decisions, hypotheses, plans, requirements, tests, queue, handoff | validate, build the graph, impact | the programs that read the same records agree |
| **Handoff** `build_handoff.py`, `export_handoff.py`, `handoff_common.py` | `production-handoff.yaml`, the bundle | build, export | one content per revision; a bundle resolves in itself |
| **Results** `import_production_result.py`, `export_feedback_signals.py` | feedback, change requests, evidence, log, the viewers' ledger in another repository, exported signals | import, export signals | whole or not there; idempotent |
| **Research memory, inspiration, context pack, release gates, text comparison** | derived files | recompute | deterministic |

### How they interact

    request -> project -> plan
                           |
     supervisor --claim--> task runtime <--resolve_human-- human decisions <-- human
         |   ^                ^
         |   +--result.json   | complete / fail / wait_for_human
         v                    |
     worker --edits--> attempt workspace --changeset--> acceptance transaction --promote--> project

    driver --next/submit--> Stage B engine --projects--> the same project files --> Stage C engine

    harness run/resume --> bootstrap --> supervisor --> completion --> handoff --> publication
                                                      (stage machine, stopping policy, run log)
    records --build--> handoff --export--> bundle --> production --result--> import --> evidence,
                                                                     change requests, signals

The supervisor drives the `legacy` route of the task DAG (it refuses any other,
`harness_supervisor.py` 232-235); the configuration's default route is the
Stage B engine. Both write into the same project directory. The runtime's
records lie *inside* that directory, so promoting an attempt, which swaps the
directory, also swaps the runtime's state: the acceptance transaction is where
the two meet.

### What is hard

* **Interleaving**: any process may call the runtime between any two calls of
  another; a clock is read before the flock is awaited; the decision document
  is read and written with no lock; the promotion swaps the directory without
  the runtime's flock.
* **Crash and recovery**: each point inside an acceptance, the journal write
  after each runtime call of the supervisor, each file of a projection, and the
  two to seven files that a transition, a completion, a stopping decision or an
  import writes one after the other, with an undo that is a sequence too.
* **Stale state**: a worker whose lease ran out comes back with its token; an
  answer comes to a request that is no longer pending; a recovery decides from
  a hash taken before a completion.
* **Retries and timeouts**: expiries give attempts back, human waits too, so
  that "how often" is spread over three counters.
* **Liveness**: a lease of a dead worker, a run of the supervisor, a run of
  Stage B with nobody answering.

`PROJECT.json` lists the hazards with the line where each bites and the
properties that cover it. Known, and neither there nor covered:

* `harness_supervisor.py` 584 reads the attempt counter again after the claim,
  and a lease that expires in between yields the number of another attempt
  (`Prompt` in section 3); 128 locks a run and not a project, so that two runs
  with one worker_id share a lease through TASK_RESUMED; 614 reuses a request
  found after a crash with the deadline it had.
* `retry_feedback.py` 90 binds feedback by hashes of files written one by one.
* `attempt_workspace.py` 780 compares, copies and renames under a lock that no
  runtime operation takes.
* `human_decisions.py` 296-301 undoes an answer by files read before and without the
  runtime's flock: what other processes wrote in between is lost (both modules that
  have the undo assume turns).
* `research_elements.py` 215 looks at the files and then writes them;
  `research_element_driver.py` 35 raises on a byte budget before an answer is
  saved.
* `accept_research_request.py`: a death before the request file is written
  makes every retry a conflict (168), one between request and receipt a
  REQUEST-STATE (165), and one between receipt and runtime (245, 266) an
  ALREADY_APPLIED for a project that has no runtime.
* `export_handoff.py` 477-478: a death between the removal of a bundle and the
  rename of its successor leaves neither.
* `impact.py` may read a dependency graph that is older than the records.

## 2 Modules and code

| module | models | notes |
|---|---|---|
| `TaskLifecycle` | what the runtime promises, with no attempts, leases or clocks | abstract specification |
| `TaskRuntime` | `task_runtime.py`, every operation that changes a record | refines `TaskLifecycle` |
| `MCTaskRuntime` | instances of it | |
| `TaskRuntime_proofs` | theorems about `TaskRuntime`: its invariant, what a step may not do, the order of tasks, the refinement | |
| `AcceptanceTransaction` | `acceptance_executor.py` with the promotion of `attempt_workspace.py`, driven for one task as the supervisor does | its cfgs name it directly |
| `AcceptanceTransaction_proofs` | theorems about it | |
| `Supervisor` | `harness_supervisor.py` over `TaskRuntime` (INSTANCE) | composition; refines `TaskRuntime` |
| `MCSupervisor` | instances of it | |
| `Supervisor_proofs` | theorems about `Supervisor` | |
| `HumanDecisions` | `human_decisions.py` step by step over an atomic runtime | its cfgs name it directly |
| `HumanDecisions_proofs` | theorems about it | |
| `ElementEngine` | `research_elements.py` with `research_element_driver.py` | |
| `MCElementEngine` | an instance of it | |
| `ElementEngine_proofs` | theorems about it | |
| `ProjectFiles` | the stage machine, stopping policy, run log, searches, completion and `_mutate` as lists of writes to one project's files | |
| `MCProjectFiles` | instances of it | |
| `ProjectFiles_proofs` | theorems about it | |
| `EndToEnd` | `harness.py` and `harness_e2e.py` with the event stream: commands on shared work and output roots | its cfgs name it directly |
| `EndToEnd_proofs` | theorems about it | |
| `ProjectRecords` | what `validate.py`, `build_handoff.py` and `build_graph.py` make of the records | operators, no state |
| `ProductionHandoff` | building, exporting, importing and passing on, over `ProjectRecords` (EXTENDS) | composition |
| `MCProductionHandoff` | instances of it: the records of a small project | |
| `ProductionHandoff_proofs` | theorems about it | |

Definitions that begin with a comment "Mutant:" are not part of a model. They
are plausible bugs (a dropped guard, a missing reset, a swapped order) put in
place of a definition of the model to see that a property notices.

### TaskRuntime

`tasks` is `task_runtime.tasks`. Every operation runs in `_mutate`: take the
flock, load, reconcile, change, save, and restore the old state when the mutator
raises. So an operation is one action, every action reconciles first (`Expire`,
then `Block`), and a refused call is no step. `alive`, `retired` and `charged`
are history or environment: worker processes that still make calls, leases that
ended and how, failures charged to a task.

*Time.* `expires_at` minus the clock is `lease.left`; `Tick` takes one from each
lease. The model then needs no bound on the clock. `delay` is how many ticks old
the caller's `now` is when it gets the flock.

*Blocking.* The `while` loop of `_reconcile` is the least set closed under "has
a dead dependency or one in the set" (`Doomed`), so the module is free of
RECURSIVE operators and can be proved about.

| code | action |
|---|---|
| `claim_next` | `Claim`: reconciliation, the least ready ID, a token of attempts and expiries |
| `heartbeat` | `Heartbeat` |
| `complete` | `Complete`, and the repeated call with the same effect key |
| `fail` | `Fail`: retryable or terminal |
| `wait_for_human`, `resolve_human` | `WaitForHuman`, `ResolveHuman` |
| `resume` | `Resume` |

The run log written beside the state is in `ProjectFiles`.

### AcceptanceTransaction

One task, its attempts, and the project as *one* value `tree` with the edits it
carries, the task's record in it, and whether a human has answered another
task's question in it meanwhile. A step of the module is what lies between two
points at which the process may die, the lease may run out or that answer may
arrive: `Gates` evaluates, `Capture` journals PREPARED, `Inspect` builds the
changeset, `Promote` / `SwapOut` / `SwapIn` / `CleanUp` are the directory
renames, `JournalPromoted`, `Validate`, `Complete`, `Commit` follow, `Undo` /
`Rebuild` / `JournalRolledBack` are the rollback, and `Start` / `Recover` the
next process. With `IOFaults` a file operation may raise where the code has a
handler for it. `tree = Gone` is the window in which the directory is not there.

### Supervisor

Composes `TaskRuntime` by INSTANCE: one runtime action per call. Its own state
is the journal and the results on disk, which survive, and `pc`, `resume`,
`shutdown`, `work`, which do not. `Top` is the head of the loop (bounds, signal,
final status), `Peek` `peek_next`, `Conclude` and `Report` the terminal outcome,
read from the runtime and then told to the journal, with calls of others before
either, `Claim` the held task or a claim, `Record`
the journal write that names the attempt, `Work` the worker, `Result` reading
`result.json`, `Accept` the acceptance (succeeds, fails, or dies; the steps are
in the module above), `Note` the journal write after the runtime's change.
`Others` are rival workers, humans and time. Nobody dies in the runtime's eyes and
clocks are fresh (`alive` is everybody, `MaxDelay` 0): a death of the process is its
`Crash`, and stale clocks are `TaskRuntime`'s subject.

### HumanDecisions

`doc` is the YAML file, `runtime` the records of the tasks. The reads and writes
of `record_human_required` and `resolve_request`, and their undo branches, are
steps of a process in `pc` / `mem`; `Exclusive` says whether at most one process
works on the project at a time. Every write may raise. `ResolveWrite` that raises
after the runtime has accepted the answer goes back through `ResolveUndoRuntime` and
`ResolveUndoDocument`, from what was read before, and may die between them. A write of
an undo that raises ends the command where it stands, which is what `Crash` does.
The runtime's state and log are one value here, put back in one step; the two files,
and what a death between them leaves, are in `ProjectFiles`.

### ElementEngine

A checkpoint (`answers`, `abandoned`, `ledger`, `history`, `attempt`, `status`,
`pending`, `files`, `previous`) and the files on `disk`. The heart is
`Schedule(s)`: like the generator in the code it walks from the first question
again after *every* answer, consults the accepted answers, and stops at the
first element without one. It carries what the code carries in local variables
(bodies seen, bodies quoted, dry rounds, sources fetched). `Advance` is
`Engine.advance` up to the save; `Write`, `Raise` and `Report` are
`materialize`, its conflict check and the reported request; `TimeOut`, `Keep`,
`TakeGood`, `TakeBad` and `Refuse` are what a command does once files are
repaired. Texts are abstracted: a body is a number, its checks are "good" or
"bad", and pairs, decisions and prior art, which come after the claims by the
same mechanism, are represented by the insights.

### ProjectFiles

`disk` is the six files: manifest, state, question register, completion report,
answers on file and log. A command reads them when it starts, decides, and becomes a list `todo`
of writes and a list `undo` of what it had read; `WriteNext` does one write,
`Raise` turns a failing write (or a validation that finds something, the write
`"check"`) into the undo, `Die` drops both, `Return` ends it. So the order of
the writes, which files an undo restores and what a death leaves are the code's.

| code | action |
|---|---|
| `transition_project` | `Transition`: manifest, state, log |
| `apply_project` | `ApplyStopping`: register, state, log; `DecisionEvents` numbers the decisions |
| `complete_project` | `Complete`: manifest, state, report, log, validation |
| `append_event` | `LogEvent`: an append, no lock, no undo |
| `_mutate` | `Mutate` under the flock: `TaskOperation` and `RecordSearches` |
| `resolve_request` | `ResolveRequest`: the runtime's two files under the flock, then the response without it; the undo is state, log, answers, in that order |

`Verdict` is `evaluate_question` over the metrics of the log, which are sets of
places in it, and `Replay` is `replay`: the status after n events is where the
last move among them led, and each move starts from the status before it. Numbers
are given out by `Nth` of the `Unused` ones. So the module has no fold and can be
proved about. Text is abstract: a status, a question number, a key.
`told` and `torn` are history: confirmed searches, and whether a command ever
ended with some of its writes done. An answer is undone twice if it fails inside
`_mutate`: there first, and by `resolve_request` again (`UndoneAgain`). One list
stands for both while no write of the first undoing fails; one that does starts the
second.

### EndToEnd

`work`, `state`, `journal`, `project`, `stream` and `output` are the files a
second command finds; `pc`, `args`, `mem`, `copy` belong to a process. Each
action is what the code does between two points at which another command or a
death may come: the look at the output (`LookAtOutput`), at the work root
(`Bootstrap`), the staging tree (`Stage`), the second look, `rmdir` and
`os.replace` (`LookAgain`, `Rmdir`, `Replace`), opening the stream, then one
action per phase up to `Publish` and `Done`. A command that finds its project
published rewrites the manifest in there (`UpdateManifest`, `AlreadyPublished`), and
while it does, or after a death in it (`litter`), the temporary file makes every
look at the output a refusal. `Refuse` is the handler of
`run_request`, with the state file it writes whosever the project is. The event
stream is its last phase and whether it still replays: an event appended by a
process whose copy is `stale` breaks the chain. The supervisor is a choice of its
outcome (the module above has its steps); `project.quality` is what completion
will find.

### ProjectRecords and ProductionHandoff

The records `c` of a project are functions from IDs; `RecordsClean`,
`HandoffClean` and `LifecycleClean` are what `validate.py` looks for,
`Buildable`, `Selection` and `Payload` what `build_handoff.py` derives,
`GraphEdges` and `GraphBuilds` what `build_graph.py` does. They are translated
independently of each other, as the programs read the files independently, so
that a run shows where they disagree.

`ProductionHandoff` keeps the name of the present `content` and the `files`
that the commands write. `BuildHandoff`, `ExportHandoff` and `ImportResult`
start a `call` with the writes it has left and what it puts back; `WriteNext`,
`WriteFails`, `Reject` (validation refuses), `PutBack`, `Raise` and `Die` are as
in `ProjectFiles`. `Acceptable` is every refusal of an import before its first
write, in one conjunction; `CompleteEffect` the test for ALREADY_APPLIED.
The two exceptions of the code are there: a severe uncertainty needs no plan if it
gives an external reason, and an INCOMPLETE project is built from if `stage_d_start`
lets it (`StageDStart`, TRUE in both configurations). Between commands workers change
the records (`EditRecords`), the project moves (`Advance`) and the viewers' repository goes back (`CheckOutViewer`).

## 3 Runs

Sizes and times are of a machine with two TLC workers.

| run | config | checks | shows |
|---|---|---|---|
| `runtime_leases` | `MCTaskRuntime_leases.cfg` | TypeOK AttemptBudget RetiredTokensFenced AnswerMatchesRequest SettledForGood DeadWorkerLosesLease | two workers that die and come back, stale clocks, expiries, human waits |
| `runtime_dag` | `MCTaskRuntime_dag.cfg` | DependenciesHonoured ImplementsLifecycle | four tasks whose dependencies run against the ID order |
| `acceptance_faults` | `Acceptance_faults.cfg` | SucceededMeansPromoted NoAttemptOnUnacceptedTree StageTellsTree SuccessNeverUndone | crashes and failing file operations at every step, a concurrent answer |
| `supervisor` | `MCSupervisor_run.cfg` | WorkIsBounded NoResultAbandoned SucceededOnOwnResult OutcomeIsTrue RunStops RuntimeKept | crashes, restarts by `run` and `resume`, signals, expiries, human waits, a rival worker, dependent tasks |
| `supervisor_consumed` | `MCSupervisor_consumed.cfg` | *violated:* ConsumedOnce | section 5 |
| `decisions_exclusive` | `HumanDecisions_exclusive.cfg` | WaitIsDocumented AnswersAgree | one process at a time that dies between any two writes |
| `elements_run` | `MCElementEngine_run.cfg` | NothingOrphaned FilesRepairable AttemptsAccounted SearchLoggedFirst EditsKept FinalForGood RunEnds | a whole Stage B run |
| `project_files` | `MCProjectFiles_files.cfg` | FilesTellOneStatus NothingTwice ClosedOnEvidence SearchDurable TaskLogBehind | every command on the files, failing and dying between any two writes |
| `end_to_end` | `EndToEnd_runs.cfg` | PublishedIsWhole OutcomesTell RootsAreKept | two commands, run IDs and workers on shared roots, with two deaths |
| `e2e_resume` | `EndToEnd_resume.cfg` | *violated:* ResumedRunGoesOn | section 5 |
| `production_exchange` | `MCProductionHandoff_exchange.cfg` | OneContentPerRevision BundleStandsAlone ImportedWhole SignalsBacked FailedImportLeavesNoTrace | handoffs, bundles, results and signals, with a failed write, a death or a loss anywhere |
| `production_reimport` | `MCProductionHandoff_reimport.cfg` | *violated:* ReimportSucceeds | section 5 |

Seven more configurations end in the counterexamples of section 5 that have no run
of their own: `MCTaskRuntime_token.cfg`, `Acceptance_recovery.cfg`,
`MCSupervisor_crashed.cfg`, `HumanDecisions_lost.cfg`,
`MCProjectFiles_poisoned.cfg`, `MCProjectFiles_answers.cfg`, `EndToEnd_overlap.cfg`.

`TypeOK` is checked of `TaskRuntime`, and proved. In the other modules it, or the
comments at the VARIABLES, states the shapes.

### What the properties say

* **AttemptBudget**: `attempts` equals the failures charged plus the run in
  progress, however expiries and human waits, which both give the attempt back,
  interleave; so the FAILED branch of an expiry is never taken.
* **RetiredTokensFenced**: the token of a lease that ran out, failed or
  completed never passes `_assert_lease` again.
* **OnlyExpiredLeaseReclaimed**: although callers' clocks may be stale, a lease
  is reclaimed only when it really ran out. A stale clock errs on the safe side
  because it is behind. (Proved for every delay; no run repeats it.)
* **SettledForGood**: no late, repeated or conflicting call alters the record of
  a settled task.
* **DeadWorkerLosesLease** (liveness): the lease of a dead worker is taken back.
* **DependenciesHonoured**: the death of a task buries all its pending
  dependents in the same write, against the order of IDs too.
* **ImplementsLifecycle**: the refinement of `TaskLifecycle`: one write may
  reclaim several tasks and bury several more, but starts, finishes or suspends
  at most one.
* **SucceededMeansPromoted, NoAttemptOnUnacceptedTree, StageTellsTree,
  SuccessNeverUndone**: the task's record, the project and the transaction's
  journal agree at every crash point. The one exception of SuccessNeverUndone is
  in the code: the transaction itself takes its success back when it cannot
  journal COMMITTED.
* **WorkIsBounded, NoResultAbandoned, SucceededOnOwnResult**: attempts come back
  to the directory of their result after an expiry or a human wait. In general
  the second of them needs more than the code has (section 5); the two tasks of the
  run form a chain, which is why it holds there.
* **OutcomeIsTrue, RunStops**: a final journal tells the truth of the tasks, from
  then on, though it tells what it read a while ago; the process, if scheduled,
  returns.
* **RuntimeKept**: the refinement of `TaskRuntime` by the run, its rivals and the
  humans together: with a lease that was lost, or after a death, the run does nothing
  to the tasks that the runtime would not let any worker do.
* **WaitIsDocumented, AnswersAgree**: file and runtime agree in spite of crashes,
  failing writes and undos cut short, if processes take turns; an answer that the
  runtime accepted and that could not be filed is taken back.
* **NothingOrphaned**: the schedule computed again after each answer passes by
  *every* element that was settled. A page that changes between two retrievals,
  a second URL with the same body, or a skipped claim could shift it.
* **FilesRepairable**: after any number of interrupted commands each file is the
  projection of the checkpoint or of the one before, which is exactly what the
  next command's conflict check lets pass. **EditsKept** is the other side: a
  file changed by hand is never written over.
* **FilesTellOneStatus**: manifest, state, replayed log and report agree after
  any sequence of commands and undos, as long as none died in between; the undo
  of one command runs after others have moved on.
* **NothingTwice**: repetition after a death neither reuses an ID nor decides a
  question or records a search again, whichever of the files the dead command
  had written.
* **ClosedOnEvidence**: against `ReachedLimit`, a statement of the limits without
  counters; the prefix quantifier is needed because a command that died between
  the register and the log leaves a decision that later events outdate.
* **SearchDurable, TaskLogBehind**: the log, rewritten whole by several tools from
  what each had read, loses no confirmed search, and is never ahead of the state: of
  the runtime's operations it tells none that the state has not. That holds of what
  `_mutate` writes and undoes, and whatever undo of another command runs beside it,
  but not of answers of humans, which are excepted: `resolve_request` puts the old state
  back before the old log. `AnswersLoggedOnce` states what that breaks (section 5).
* **PublishedIsWhole, OutcomesTell, RootsAreKept**: across two commands, two deaths
  and any refusals what is published is complete, of the run that owns the work
  root, and is never replaced; a command says COMPLETE or ALREADY_PUBLISHED only of
  what is there.
* **OneContentPerRevision, BundleStandsAlone**: rebuilt, rolled back, edited under
  it, exported after a death: what leaves under an ID and revision is one content,
  and it resolves in its own bundle.
* **ImportedWhole, FailedImportLeavesNoTrace, SignalsBacked**: the audit event comes
  last and tells of what is there; a failed import restores all seven files, the
  one in the other repository too; signals rest on an import that stays.
* **AttemptsAccounted, SearchLoggedFirst, FinalForGood, RunEnds**: attempts are
  charged to the element they were for; a search is in the run log before the
  agent is asked for it; an ended run changes only in its last time; every run
  ends even when nobody answers.

### Bounds, and why they are enough

* *Runtime.* `runtime_leases` takes one task, two workers, two attempts, leases
  of two ticks, readings of the clock one tick old, two requests and two
  responses. `MaxExpiries` bounds the one counter the code leaves unbounded: a
  task that expired that often is not claimed again. A fencing error needs an
  old and a new lease of one task, an accounting error a failure and a returned
  attempt; all of these occur, twice. The theorems of section 4 remove the
  bounds for all of its properties but the liveness, and for both of
  `runtime_dag`. That run takes four tasks so that a chain of two dependencies
  runs against the ID order with an unrelated task beside it, and one expiry;
  `Crashes` is off there, since to others a dead worker looks like a silent one.
  Workers, effect keys, requests and responses are symmetric there and in
  `MCTaskRuntime_token.cfg`; `runtime_leases` has a liveness property and uses no
  symmetry.
* *Acceptance.* Two attempts and three claims: an attempt that fails after an
  expiry, and another after it. One answer from outside, at any point.
* *Supervisor.* Two tasks of two attempts, the second dependent on the first (so
  that a run never comes back to a task from another), two
  results of workers counted in `MaxTasks`, one expiry of each task, one question,
  one lease of a rival (`RivalOnce`), any number of deaths and restarts. The two
  counted attempts may be of one task or of both. `Prompt` bounds time: a
  lease does not run out between the claim and the read of the attempts right
  after it. Without it the code charges one attempt to the directory of
  another; the next call refuses the lease, but the result is then filed under a
  wrong number (section 1). `supervisor_consumed` uses one task without `Prompt`.
* *Decisions.* Two tasks, two IDs, two times: two tasks may use one ID, and one
  task may ask twice.
* *Elements.* Two questions, an art round and one strategy, three page contents
  of which one mirrors another, one result per search, two sources in all, one
  sufficient answer, groups of two claims, two attempts, two failed answers (of
  a claim, which is skipped, or of an insight, which ends the run), one edit by
  hand, one tick of budget and one of delay. A page of one question reappears in
  the other, under the same URL with another body or under another URL with the
  same body. Two failures are enough to use up `MaxAttempts`.
* *Project files.* One question, one decision, limits of one and two, a log of four
  events, one death and one failing write, commands that take turns. (A failing
  write while undoing takes two failures: the theorems have it, the run has not.) A question needs two
  events to close by any limit but the first; a retried command needs a death, its
  own events and those of one other command.
* *End to end.* Two processes, runs and workers, two deaths. `SameRunTwice` is off:
  with two commands of one run at once the stream breaks (section 5) and with it
  the refusals that protect the output.
* *Production.* Four contents of the records (sound; one a person must select in;
  one with a withdrawn decision; one with a deleted candidate), three results, two
  result IDs, two handoff IDs, revisions one and two, one edit, one move (back to
  DECIDING, or to INCOMPLETE, from which a handoff may still be built), one trouble
  (a failed write, a death or a lost ledger line). Two imports of one ID, two IDs of
  one body and an import after a rebuild all occur. Handoff IDs, which the code only
  compares, are symmetric.

### Deadlock

The runtime, the supervisor and the end-to-end run are checked for deadlock. `CHECK_DEADLOCK FALSE`
stands in the others, which really stop: an acceptance that ended or was refused
for good, a task that succeeded with no question open, a Stage B whose file
somebody edited and whose clock has reached its bound, a project whose log and an
exchange whose edits, moves and troubles have reached theirs.

### Fairness, and why the code justifies it

* *Runtime:* `WF(Tick)` and `WF(Resume(0))`. Time passes, and the supervisor's
  loop reconciles on each iteration. No worker is assumed to call.
* *Supervisor:* `WF(Proceed)`: the process is scheduled, and the worker it waits
  for answers or meets the adapter's deadline. No assumption is made on
  restarts, rivals, humans or time.
* *Elements:* a command that has the lock returns or dies (it only computes and
  writes), commands do not die for ever, the driver calls again (`WF(Lock)`) and
  time passes. Nobody is assumed to answer: RunEnds comes from the deadline.

## 4 Proofs

The theorems hold for every value of the constants that meets the assumptions below.
They state thirty-seven of the forty properties that the runs check on small instances,
all thirty invariants among them, and `OnlyExpiredLeaseReclaimed`, which has no run.

| module | theorem | states |
|---|---|---|
| `TaskRuntime_proofs` | `TypeCorrect` | `Spec => []TypeOK` |
| | `AttemptBudgetHolds` | `Spec => []AttemptBudget` |
| | `AnswerMatches` | `Spec => []AnswerMatchesRequest` |
| | `RetiredTokensStayFenced` | `Spec => []RetiredTokensFenced` |
| | `SettledStaysSettled` | `Spec => SettledForGood` |
| | `LiveLeaseNotReclaimed` | `Spec => OnlyExpiredLeaseReclaimed` |
| | `DependenciesAreHonoured` | `Spec => []DependenciesHonoured` |
| | `RuntimeImplementsLifecycle` | `Spec => ImplementsLifecycle` |
| `AcceptanceTransaction_proofs` | `SuccessIsPromoted` | `Spec => []SucceededMeansPromoted` |
| | `AttemptsStartAccepted` | `Spec => []NoAttemptOnUnacceptedTree` |
| | `JournalTellsTree` | `Spec => []StageTellsTree` |
| | `SuccessStays` | `Spec => SuccessNeverUndone` |
| `Supervisor_proofs` | `SuccessIsOwn` | `Spec => []SucceededOnOwnResult` |
| | `JournalTellsTruth` | `Spec => []OutcomeIsTrue` |
| | `WorkStaysBounded` | `Spec => []WorkIsBounded` |
| | `NoResultIsAbandoned` | `Spec /\ [](ReadsInTime /\ AdoptsOwn) => []NoResultAbandoned` |
| | `ChainsAbandonNoResult` | `Chained => (Spec /\ []ReadsInTime => []NoResultAbandoned)` |
| | `RuntimeIsKept` | `Spec => RuntimeKept` |
| `HumanDecisions_proofs` | `WaitsAreDocumented` | `Exclusive => (Spec => []WaitIsDocumented)` |
| | `AnswersStayAgreed` | `Exclusive => (Spec => []AnswersAgree)` |
| `EndToEnd_proofs` | `OutcomesAreTrue` | `Spec => []OutcomesTell` |
| | `RootsStay` | `Spec => RootsAreKept` |
| | `PublishedWhole` | `~SameRunTwice => (Spec => []PublishedIsWhole)` |
| `ElementEngine_proofs` | `RepairAlwaysPossible` | `Spec => []FilesRepairable` |
| | `EditsAreKept` | `Spec => []EditsKept` |
| | `Final` | `Spec => FinalForGood` |
| | `NothingIsOrphaned` | `Spec => []NothingOrphaned` |
| | `SearchesAreLogged` | `Spec => []SearchLoggedFirst` |
| | `AttemptsAreCharged` | `Spec => []AttemptsAccounted` |
| `ProjectFiles_proofs` | `NothingIsWrittenTwice` | `Exclusive => (Spec => []NothingTwice)` |
| | `SearchesAreDurable` | `Exclusive => (Spec => []SearchDurable)` |
| | `LogIsBehind` | `Exclusive => (Spec => []TaskLogBehind)` |
| | `OneStatusIsTold` | `Exclusive, Goals \cap Completed = {} => (Spec => []FilesTellOneStatus)` |
| | `ClosedOnlyOnEvidence` | `Exclusive => (Spec => []ClosedOnEvidence)` |
| `ProductionHandoff_proofs` | `OneContent` | `Spec => []OneContentPerRevision` |
| | `BundlesStandAlone` | `Spec => []BundleStandsAlone` |
| | `ImportsAreWhole` | `Spec => []ImportedWhole` |
| | `SignalsAreBacked` | `Spec => []SignalsBacked` |
| | `NoTraceIsLeft` | `Spec => FailedImportLeavesNoTrace` |

They follow from inductive invariants: `IInv` (theorem `InvariantHolds`) of the
runtime, the acceptance, the supervisor, the decisions, the end-to-end run and the
exchange, with `TurnInv` and `ChainInv` beside it in the supervisor; `FilesInv`, `ScheduleInv`
and `AttemptsInv` of Stage B; `FilesInv`, `StoryInv` and `EvidenceInv` of the project's files.
`AcceptanceTransaction_proofs` and `Supervisor_proofs` have a `TypeCorrect` too.

### Assumptions

* `TaskRuntime`: `TaskAssumption` (IDs are numbers, finitely many; limits are
  positive) and `PolicyAssumption` (leases last; no class is both retryable and
  terminal; LEASE_EXPIRED is not terminal) are what `_canonical_tasks` and
  `_runtime_policy` refuse to run without; `NoneAssumption` says that JSON's null
  is no lease, request, key or answer. The plan need not be acyclic: a task on a
  cycle is never ready, and no theorem says that it is.
* `AcceptanceTransaction`: limits are positive, and null is no number, stage or
  report. With and without the concurrent answer and failing file operations.
* `Supervisor`: VALIDATION and LEASE_EXPIRED are retryable, PERMANENT is
  terminal, limits are positive, the run's worker_id is not a rival's, null is
  nothing else. Neither `Prompt` nor `RivalOnce` is assumed, except that
  `NoResultIsAbandoned` has two hypotheses on the behaviour. `ReadsInTime` is `Prompt`:
  the attempts are read again while the lease still holds (`harness_supervisor.py`
  584). `AdoptsOwn`: when a resumed run takes the attempt that its journal names, the
  journal means the task the run now holds. The code takes it whatever task it was of
  (586-592); section 5 has what comes of it. `ChainsAbandonNoResult` has `Chained` in
  its place, a condition on the plan alone: of any two tasks one needs the other. The
  run's instance is a chain; the template's plan is not, for its three collectors do
  not need each other (`templates/project/01_planning/research-plan.yaml` 37-48).
* `HumanDecisions`: `Exclusive`, commands take turns, for both properties:
  `HumanDecisions_lost.cfg` shows that they fail without.
* `EndToEnd`: run names are no marks of the file system and null is nothing
  else. `~SameRunTwice` for `PublishedWhole` only: two commands of one run build
  and validate one project under each other's hands.
* `ElementEngine`: `EngineAssumption`, numbers are positive and there are finitely many
  pages. Nothing is supposed of what a search returns, nor of the order of answers.
* `ProjectFiles`: `RegistersAssumption` (registers are finite, a project starts before
  it is completed), `LimitsPositive` (the five limits of the policy are positive) and
  `EntriesAssumption`: neither `log_event` (its EVENT_TYPES) nor an agent writes events
  of the commands' own types. `Exclusive`: commands take turns, since none of them
  but `_mutate` takes a lock. `Goals \cap Completed = {}`, for `OneStatusIsTold` only:
  the table of transitions lets any caller of `transition_project` close a project
  without the report that `complete.py` writes.
* `ProductionHandoff`: `ProductionAssumption` (bounds are numbers, the first content is
  one of the contents), `LedgerAssumption` (the IDs that `_next_id` counts up never
  repeat, results are finite) and `FirstLogAssumption` (a project begins without
  imports).

### The arguments

*The runtime's invariant.* None of the properties but the type is inductive.
`IInv` has two parts:

* `TableOK`: each record by itself (`RecordOK`) has a lease iff it runs, attempts
  equal to the failures charged plus one if it runs or succeeded, charges within
  their limit (strictly unless dead), the token of its lease made of its own two
  counters, and a response only to its own request. The records must be tied to
  `charged` one by one, since an expiry computes its status from `attempts`.
* `Before`: each retired lease lies strictly before every token its task can
  still mint: it has fewer expiries than the record, or as many and an attempt
  that has been charged. Tokens are pairs (attempt, expiry). A failure charges
  the first, an expiry returns it and raises the second, and a human wait returns
  the first only: the record's own pair is not monotone, and "different from the
  current token" is not inductive. What never falls is the pair (failures
  charged, expiries); `Before` is stated over that. A completed lease leaves a
  task that has succeeded and runs no more.

A human wait raises neither, which is why leases that ended by waiting are
excluded from the theorem and why `MCTaskRuntime_token.cfg` finds its
counterexample. The proof goes by the two halves of a reconciliation, lemmas on
one record each (`ExpireTask`, `Block`), lifted to the table, and then one step
per operation.

*Steps.* `Kept` says what a step owes to each record, and holds of
reconciliation, of an update after it, and of `fail`, which reconciles twice: the
second pass finds no lease to take back, since the caller's own has just ended.

*Order.* `Ordered` (what has begun has finished dependencies, what is blocked a
dead one) survives the change of one record; that pending tasks have no dead
dependency (`PendingAlive`) does not, and is what blocking re-establishes:
`Doomed`, defined as the intersection of all closed sets, is itself closed, and
each member is in it for a reason.

*Refinement.* Seen through `Phase` and the leases' owners, reconciliation only
takes back and buries (`Calm`); only the one task the call is about may start,
finish or suspend (`Loud`), and starts need finished dependencies, which is
where the order comes in.

*Acceptance.* Copies on disk (baseline, what was there before, backup) never hold
an attempt's edits, the journals of all attempts but the one in hand are closed,
and for each place of the process (`PlaceOK`) it is fixed what the journal says
there and what the project then holds. A crash loses the place; what the next
recovery finds is only what journal and project have in common (`TreeOK`).

*Supervisor.* The runtime is known by what each call owes to the run (`Sound`):
records stay well formed, settled ones are left alone, and no lease of this
worker ends as succeeded but the one the run completes. Then a result, once
written, never changes, and a worker is started only between a count in the
journal and a result, so at that point the results are fewer than the count;
the count is below the limit from the bounds check to the next count.

*Decisions.* File and runtime agree, and so do the file and the runtime an undo
would put back: each undo is of a write that nobody else has seen. Between the two
steps of an answer's undo the runtime is the one before the answer and the file has not
the answer yet, so that a death there leaves a question that is still open.

*End to end.* For three of the four shapes of a command's step (it goes on, ends,
or refuses) only the root it works in and what it has answered matter (`IInv`);
the fourth changes the project, which `WInv` follows from completion to the copy.

*Supervisor, waiting results.* A task's *turn* is the number of the attempt it is on,
or of the one it will be given next. `TurnInv` says that a result which waits for its
effect lies at its task's turn, that a journal which names the task names that
attempt, and that a worker runs at the turn. A call of the runtime moves the turn
only when it charges the attempt, which the run does where it consumes the result, or
when a rival holds the task; expiries and human waits give the attempt back and leave
the turn alone (`InTurn`). A new attempt in the journal is the turn, or an adopted
one, and for that `AdoptsOwn` is needed.

On a chain it follows (`ChainInv`). Tasks that run, wait or have succeeded stand on
dependencies that have succeeded, so what a task in hand needs has succeeded too;
a task with a result that is not settled is then the one in hand, or it would need
that one, or be needed by it. Hence every unsettled result is of the task the journal
names, and there is no other task's attempt to adopt. Without the dependencies of
`Ready` the proof fails, and off the chain TLC violates `ChainInv`.

*Stage B.* Each file is the checkpoint's projection (`files`), the one before it
(`previous`) or somebody's edit, and what the engine projects is never an edit. A new
checkpoint is saved before the first file is written and only over files that passed
the check, so that the projection they have becomes its `previous` (`FilesInv`).
Attempts: the failures of an element are its first attempts, one by one; only the
pending element has some that are not yet settled, as many as `attempt` says less one
(`AttemptsInv`).

*The schedule.* A search that is answered pins pages in the ledger and can change
what a walk does from there on; that nothing settled drops out of the walk is a fact
about two runs of the same generator. `Extends(s, t)` says that the answers of t are
those of s and more: answers and pins never change, and are only added. `Good(s, w)`
says what a walk w over s has done: it passed settled elements only, what it stopped
at is not settled, and before a search it wrote the query down. `Leads(s, t, w, a, b)`
says that from w the walk over s comes to a and the walk over t to b, both `Good`, that
b passed and wrote all that a did, that the two are equal where a went through, and
that b passes what a stopped at once that is settled. `Leads` holds of asking for
one element and of each piece of the schedule made of it; it composes (`ThenLeads`,
`TurnsLead` for a loop). A loop is a recursive function of its turns, and induction
on them comes from the well-foundedness of the numbers: a least turn that fails has
one before it (`Counting`). That needs no operator parameter, so the loop's body is
an operator of a name, `Turn`, and one lemma serves all loops. For it the
loops of the module are recursive functions of a LET and not folds.

On states, `ScheduleInv` says that a checkpoint's answers are sound (every result of
an accepted search is pinned, once; only what may be skipped is), that the walk over
them visits all that is settled (`Walked`), that the pending element is where the walk
stops, and that the log holds the query of each search asked for. A judged answer
settles the pending element and nothing else, so the new walk is led by the old one
(`AdvanceWalked`). `NothingIsOrphaned` and `SearchesAreLogged` follow, and with the
first of them `AttemptsAreCharged` needs no hypothesis.

*The composition.* Each step of the supervisor is a call of the runtime, with a token
that the runtime knows: a lease in force after a reconciliation was in force before it
(`HolderKnown`). Task and attempt in hand come from the supervisor's own invariant.

*The project's files.* A command is a list of writes and a list that undoes them. The
invariant is about the disks *to come*: after any part of the one list, and any part
of the other after it, the disk is `Good` (`Forward`, `Back`), and where a command may
finish or undo, its files tell one story (`Ends`). A write takes the head of such a
list, a failure exchanges the lists, a death leaves the disk that is already there;
so all of the work is at the start of a command. That lists restore what they overwrote
and write the log last is enough for `Good` (`Undoable`). An answer's lists do not, but
what they change is nothing `Good` speaks of: of the state only who has answered, and in
the log only an event of type ANSWER, so every disk on their way is as `Good` as the
first, in whichever order its files are put back, and however often. The arithmetic of
event numbers is in the lemmas on `Nth`, `Unused` and `NextNumber`. For decisions it is
simpler still (`EvidenceInv`): every register and every log that a command has to
write, or write back, agree pairwise, and the set of them only shrinks; evidence in a
log stays in each that continues it (`BacksLonger`).

*Exchange with production.* `Good` says of the files what the five properties say of
what has left or been logged; the invariant says that the writes a call has left lead
to a `Good` state, in every order in which failure and restoration can cut them, since
the log, which makes an import one, is written last and a bundle leaves whole.

### What the proofs found

* `NoResultAbandoned` is not true of every plan: the attempt to show `TurnInv`
  inductive stopped at the journal's attempt that a resumed run adopts, and TLC then
  found the counterexample with two tasks that do not depend on each other (section 5).
* Arms of a CASE in `ElementEngine` overlapped, which TLC decides by their order and
  the language does not; they are IFs now, in the code's order.
* `FilesTellOneStatus` depends on who closes a project, which the run's `Goals` left
  out of sight.
* `NothingOrphaned` rests on little: an answer that was accepted and a page that was
  pinned never change (`Answered`, and `Pin`, `research_elements.py` 331-334), and only
  what may be skipped is. The limits and the order of the rounds play no part in it.
* The walk over the answers of a whole run can be reasoned about without induction
  principles on data: a relation between two walks, and a least counterexample.

### Model-checked only

Liveness under fairness and ENABLED (`DeadWorkerLosesLease`, `RunStops`, `RunEnds`),
which the prover cannot treat. The theorems of `TaskRuntime_proofs` and
`RuntimeIsKept` are about the same `TaskRuntime`, with other constants; that the
runtime's theorems hold of the supervisor's tasks is their combination, which is not
restated here as a theorem.

## 5 Where code and documents differ

Three runs and seven further configurations end in a counterexample, each of a
sentence the repository states.

| configuration | sentence | what the code does |
|---|---|---|
| run `supervisor_consumed` | `harness_supervisor.py` 589-591: a durable result is consumed exactly once | `resume` stays set for all iterations, and a failed result is charged again until the attempts are spent |
| run `e2e_resume` | `docs/operations.md` 85: a run paused for a human is resumed with the work root kept | PAUSED is a final status of the journal (`harness_supervisor.py` 541): resuming after the answer returns PAUSED, for ever |
| run `production_reimport` | production handoff specification 461: the same result ID and hash again succeeds | a result that names an unknown acceptance test is imported, the graph can then not be built, and `import_production_result.py` 795 refuses every later import, this one included |
| `MCTaskRuntime_token.cfg` NoTokenMintedTwice | `task_runtime.py` 453-454: a returned attempt must not mint the same token twice | `wait_for_human` returns the attempt and counts no expiry: the next claim mints the same token, and the worker that asked passes the lease check with it |
| `Acceptance_recovery.cfg` RecoversAfterPromotion | `acceptance_executor.py` 452: recovers a process interrupted after promotion and before commit | the completion changes the promoted tree, so a recovery between completion and COMMITTED finds neither tree it knows and refuses, at every restart |
| `MCSupervisor_crashed.cfg` CrashedRunResumes | `docs/agent-runtime-guide.md` 160: after a crash the run resumes | a task's final failure makes the journal final while the loop goes on; a death there leaves a run that resume will not touch |
| `HumanDecisions_lost.cfg` WaitIsDocumented | `docs/agent-runtime-guide.md` 120-121: the request is saved, and the task waits | two unlocked read-modify-writes lose one request; its task waits for a question nobody finds |
| `MCProjectFiles_poisoned.cfg` LoggedIsCountable | `log_event.py` 2: an event is checked before it is written | EVIDENCE_ROUND is allowed, but no option carries the count that `stopping_policy.py` 164 requires: every later evaluation of the project raises |
| `MCProjectFiles_answers.cfg` AnswersLoggedOnce | `PLANS.md` 782: after a crash the same command finds the same response and the single event again | the undo of `resolve_request` writes the old state before the old log (`human_decisions.py` 296-297); a death between them leaves a task that waits and a log that says it was answered, and the answer is logged a second time |
| `EndToEnd_overlap.cfg` StreamReplays | `docs/agent-runtime-guide.md` 158: a second command of one run is refused | it is, by the run lock, but only after it has appended to the event stream: two events have one predecessor and the stream never replays again |

Met on the way, without a run of their own: a human's answer to another task
that arrives during a promotion is overwritten by the swapped directory
(`ConcurrentChangeKept` in `AcceptanceTransaction` states it; the line of the
guide about concurrent changes is 72), because the swap does not take the
runtime's flock, and a rollback or rebuild from the backup takes the runtime's
records back with it.

A result may be passed over (`docs/agent-runtime-guide.md` 160 says that what is complete
is not produced again). Two tasks that do not depend on each other, three attempts
each, and a rival at work on task 1. The run takes task 2: its first attempt fails and
is charged, its second leaves a result, and the process dies. Both leases expire. The
resumed run takes task 1, for it comes first in the plan, and completes it with attempt
1; then it claims task 2 with the journal's attempt still 1. `harness_supervisor.py`
586-592 takes that number for task 2's, finds the result of its first attempt and
charges it again. The counter moves on, and after another death a worker makes the
third attempt while the result of the second still waits: `NoResultAbandoned` is
violated, in 38 states with `Chain = FALSE`, `Attempts = 3` and `MaxTasks = 5`. The
template's three collectors are such tasks.

From the modules on the project's files, the end-to-end
run and the exchange, by reading and by traces:

* `REFERENCE_FIELDS` (`validate.py` 139-147) declares a plan's hypothesis and a
  comparison's recommendation, but `_check_references` (570-577) passes over single
  references other than to requirements: such records validate, and `build_graph`
  raises on them (content `dropped`).
* A READY handoff stays valid after its selected hypothesis is rejected or a
  blocking gap appears.
* A project moved to BLOCKED or CANCELLED by the stage machine has no completion
  report and is a finding of LIFECYCLE-STATE-SYNC from then on.
* With a selection left to a person, the validator wants the plans of rejected
  hypotheses in the handoff and the builder leaves them out.
* Only a handoff that supersedes itself is refused; longer cycles (item 15 of
  section 11 of the specification) pass.
* A dry run of a CRITICAL result reports a reopening that applying it does not do.
* A handoff rebuilt at another revision makes the import of an already imported
  result an error, for `_references_current` is asked first.
* End to end, a death at three points leaves a run that no command brings on:
  after `.harness/supervisor` is made and before the journal is (HARNESS-JOURNAL),
  between `_set_handoff_mode` and the handoff's write (validation fails), and
  between the COMPLETE event and the rename (HARNESS-PUBLISH-CONFLICT). A command of
  another run that is refused writes the state file of the run it found, without a
  worker.
* An import of a MAJOR result that dies after the manifest leaves manifest and
  state ahead of the log; `validate.py` then refuses every later command.

## 6 Not modelled

* *Replay of the runtime.* `replay_runtime` has no case for LEASE_EXTENDED; what it
  computes from the log is not modelled.
* *Stage C* (`work_elements.py`), the *worker adapter's* process handling and the
  *hashes of retry feedback*. In the supervisor a worker leaves any result or none,
  and feedback is usable or not.
* *Intake into a kept repository*: in `EndToEnd` the request is accepted in a
  staging tree that is thrown away when it fails; `accept_research_request` on a
  repository of its own has the windows of section 1.
* *Two commands on one project at once*, in `ProjectFiles` and `ProductionHandoff`:
  the code takes no lock there, and no property survives; both assume turns.
* *Hashes*, in handoffs, bundles, results and the event stream: two contents are
  the same or not.
* *Rules on paths, sizes, links and protected roots* of a workspace: properties
  of strings and of the file system.
* *What the gates and checks on texts evaluate*: a choice of verdict.
* *Context pack, impact's paths, inspiration and theme passes, research memory,
  text comparison, release gates*: recomputed from files or read-only; no state or
  order to go wrong.

## 7 Plan

In order:

1. **Stage C** (`WorkElements`): the checkpoint pinned on Stage B's digest, files
   written at completion only, composed with an abstract Stage B.
2. **Request intake**: the order of receipt, request and runtime, and retries.
3. **Retry feedback and worker adapter**: hashes that bind feedback to an
   attempt; deadline, heartbeat and termination against the lease.
4. **Two supervisors** with one worker_id on one project.
5. **Proofs**: the theorems of 1 to 4 with their modules.

Runs that ask related questions are merged as the modules come in.
