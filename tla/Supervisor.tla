---------------------------- MODULE Supervisor -----------------------------
(***************************************************************************)
(* One run of tools/harness_supervisor.py over the task runtime: the loop  *)
(* that claims a task, has a worker attempt it, and accepts, retries or    *)
(* hands back what the worker answers; its journal and its workers'        *)
(* results, which survive the process; and the processes that start it     *)
(* again.  The runtime is TaskRuntime, one action of it per call.          *)
(*                                                                         *)
(* What lies between the acceptance of a result and the task's completion  *)
(* is the subject of AcceptanceTransaction; here it succeeds, or fails, or *)
(* dies with the process.                                                  *)
(***************************************************************************)
EXTENDS Integers, FiniteSets

CONSTANTS
  Tasks, DependsOn, MaxAttempts, LeaseSeconds, Retryable, Terminal, Requests, Responses, None,  \* of TaskRuntime
  Self,           \* the worker_id of the run
  Rivals,         \* worker_ids of others on the same project
  MaxTasks        \* limits.max_tasks of the journal

VARIABLES
  tasks, current_task, retired, charged,  \* of TaskRuntime
  journal,        \* .harness/supervisor/<project>/<run>.json, or None
  results,        \* result.json of each attempt of the run
  pc,             \* where the process is, or how the last one ended
  resume,         \* whether it was started to resume
  shutdown,       \* SIGINT or SIGTERM arrived
  work,           \* the task, token and attempt in its hands
  consumed        \* history: how often a result had its effect on the task

AttemptNumbers == UNION {0..MaxAttempts[t] : t \in Tasks}
Runtime == INSTANCE TaskRuntime WITH
             Workers <- {Self} \cup Rivals, alive <- {Self} \cup Rivals, EffectKeys <- AttemptNumbers, MaxDelay <- 0

runtime == <<tasks, current_task, retired, charged>>
vars == <<tasks, current_task, retired, charged, journal, results, pc, resume, shutdown, work, consumed>>

FinalStatuses == {"SUCCEEDED", "FAILED", "BLOCKED", "PAUSED", "NO_TASK_READY"}
Journals ==
  [status : {"RUNNING", "SHUTDOWN"} \cup FinalStatuses, task : Tasks \cup {None},
   attempt : AttemptNumbers \cup {None}, processed : 0..MaxTasks]
WorkerFailures == {"VALIDATION", "PERMANENT"}
Results == WorkerFailures \cup {"HUMAN_REQUIRED", "SUCCEEDED"}

(* Not running: it returned at its end, or at once because its journal had *)
(* an end already, or it died.                                             *)
Stopped == {"ended", "returned", "crashed"}

(* At "conclude" the runtime is read once more for the outcome, and at a    *)
(* final status the journal is about to be told that one.                  *)
Points ==
  Stopped \cup FinalStatuses \cup
  {"top", "peek", "claim", "conclude", "record", "work", "result", "accept", "completed", "failed", "waiting"}

(* worker_failure_classes maps into the policy's classes, and the          *)
(* supervisor charges VALIDATION and LEASE_EXPIRED itself.                 *)
ASSUME SupervisorAssumption ==
  /\ {"VALIDATION", "LEASE_EXPIRED"} \subseteq Retryable
  /\ "PERMANENT" \in Terminal
  /\ MaxTasks \in Nat \ {0}
  /\ MaxAttempts \in [Tasks -> Nat \ {0}]
  /\ LeaseSeconds \in Nat \ {0}
  /\ Self \notin Rivals
  /\ None \notin Tasks \cup AttemptNumbers \cup Results \cup Journals

-----------------------------------------------------------------------------
(* Helpers.                                                                *)

(* _held_task: a lease of its own that has not run out.                    *)
Held(t) == tasks[t].status = "RUNNING" /\ tasks[t].lease.owner = Self /\ tasks[t].lease.left > 0

(* peek_next: what there is to do after a reconciliation nobody writes.    *)
SomethingToDo == \E t \in Tasks : Held(t) \/ Runtime!Ready(Runtime!Reconcile(tasks, 0), t)

(* The lease the process was given is still the one in force when the      *)
(* runtime reconciles before it looks.                                     *)
StillHeld == Runtime!HoldsLease(Runtime!Reconcile(tasks, 0)[work.task], Self, work.token)

ResultOf(t, a) == results[t][a]

(* Mutant: attempt directories are numbered by lease, not by attempt.      *)
AttemptByLease(t) == IF tasks[t].attempts + tasks[t].lease_expiries \in AttemptNumbers
                     THEN tasks[t].attempts + tasks[t].lease_expiries ELSE tasks[t].attempts

(* _attempt_id, unless a resumed run finds a result of this task under the *)
(* attempt its journal names, whatever task that attempt was of.           *)
AttemptId(t) ==
  IF resume /\ journal.attempt # None /\ ResultOf(t, journal.attempt) # None
  THEN journal.attempt ELSE tasks[t].attempts

Goto(p) == pc' = p

(* The journal keeps its reason for the end, and the process returns.      *)
End(status) == journal' = [journal EXCEPT !.status = status] /\ Goto("ended")

(* Mutant: any finished task is enough.                                    *)
OutcomeOfAny ==
  IF \E t \in Tasks : tasks[t].status = "WAITING_HUMAN" THEN "PAUSED"
  ELSE IF \E t \in Tasks : tasks[t].status = "SUCCEEDED" THEN "SUCCEEDED"
  ELSE "NO_TASK_READY"

(* _terminal_outcome                                                       *)
Outcome ==
  LET some(status) == \E t \in Tasks : tasks[t].status = status
  IN  CASE some("WAITING_HUMAN") -> "PAUSED"
        [] \A t \in Tasks : tasks[t].status = "SUCCEEDED" -> "SUCCEEDED"
        [] some("FAILED") /\ ~some("WAITING_HUMAN") -> "FAILED"
        [] some("BLOCKED") /\ ~some("FAILED") /\ ~some("WAITING_HUMAN") -> "BLOCKED"
        [] OTHER -> "NO_TASK_READY"

Consume == consumed' = [consumed EXCEPT ![work.task][work.attempt] = IF @ < 2 THEN @ + 1 ELSE @]

NoWork == [task |-> None, token |-> None, attempt |-> None]

-----------------------------------------------------------------------------
Init ==
  /\ Runtime!Init
  /\ journal = None
  /\ results = [t \in Tasks |-> [a \in AttemptNumbers |-> None]]
  /\ pc = "ended"
  /\ resume = FALSE
  /\ shutdown = FALSE
  /\ work = NoWork
  /\ consumed = [t \in Tasks |-> [a \in AttemptNumbers |-> 0]]

NewJournal == [status |-> "RUNNING", task |-> None, attempt |-> None, processed |-> 0]

(* Mutant: the limits start afresh with every process.                     *)
ReopenedAfresh(j) == [j EXCEPT !.status = "RUNNING", !.processed = 0]

Reopened(j) == [j EXCEPT !.status = "RUNNING"]

(* run and resume, and _load_or_create: a journal with a final status is   *)
(* returned as it is.                                                      *)
Start(asked) ==
  /\ pc \in Stopped
  /\ asked => journal # None
  /\ IF journal # None /\ journal.status \in FinalStatuses
     THEN Goto("returned") /\ UNCHANGED <<journal, resume, shutdown, work>>
     ELSE /\ journal' = IF journal = None THEN NewJournal ELSE Reopened(journal)
          /\ resume' = asked
          /\ shutdown' = FALSE
          /\ work' = NoWork
          /\ Goto("top")
  /\ UNCHANGED <<tasks, current_task, retired, charged, results, consumed>>

(* _check_bounds, as far as the journal decides it.                        *)
WithinBounds == journal.processed < MaxTasks

(* The top of the loop: a signal, the bounds (the clock may be past        *)
(* max_runtime_seconds at any time), then task_runtime.resume.             *)
Top ==
  /\ pc = "top"
  /\ \/ shutdown /\ End("SHUTDOWN") /\ UNCHANGED runtime
     \/ ~shutdown /\ End("BLOCKED") /\ UNCHANGED runtime
     \/ /\ ~shutdown
        /\ WithinBounds
        /\ Runtime!Resume(0)
        /\ Goto("peek")
        /\ UNCHANGED journal
  /\ UNCHANGED <<results, resume, shutdown, work, consumed>>

(* Mutant: a run with nothing to do waits for something.                   *)
PeekAndWait ==
  /\ pc = "peek"
  /\ Goto(IF SomethingToDo THEN "claim" ELSE "top")
  /\ UNCHANGED <<tasks, current_task, retired, charged, journal, results, resume, shutdown, work, consumed>>

Peek ==
  /\ pc = "peek"
  /\ Goto(IF SomethingToDo THEN "claim" ELSE "conclude")
  /\ UNCHANGED <<tasks, current_task, retired, charged, journal, results, resume, shutdown, work, consumed>>

(* _terminal_outcome: it reads the runtime again, then tells the journal,  *)
(* and others may call the runtime before either.                          *)
Conclude ==
  /\ pc = "conclude"
  /\ Goto(Outcome)
  /\ UNCHANGED <<tasks, current_task, retired, charged, journal, results, resume, shutdown, work, consumed>>

Report ==
  /\ pc \in FinalStatuses
  /\ End(pc)
  /\ UNCHANGED <<tasks, current_task, retired, charged, results, resume, shutdown, work, consumed>>

(* The feedback of an earlier attempt may turn out unusable.               *)
Begin(task) ==
  \/ Goto("record") /\ UNCHANGED journal
  \/ task.attempts > 1 /\ End("BLOCKED")

(* build_next_action: the task it holds, or a claim, or none of the two    *)
(* when the budget is spent or somebody else was quicker.                  *)
Claim ==
  /\ pc = "claim"
  /\ \/ \E t \in Tasks :
          /\ Held(t)
          /\ \A u \in Tasks : Held(u) => t <= u
          /\ work' = [task |-> t, token |-> tasks[t].lease.token, attempt |-> None]
          /\ Begin(tasks[t])
          /\ UNCHANGED runtime
     \/ /\ \A t \in Tasks : ~Held(t)
        /\ Goto("conclude")
        /\ UNCHANGED <<tasks, current_task, retired, charged, journal, work>>
     \/ /\ \A t \in Tasks : ~Held(t)
        /\ Runtime!Claim(Self, 0)
        /\ IF \E t \in Tasks : current_task' = t /\ tasks'[t].lease # tasks[t].lease /\ tasks'[t].status = "RUNNING"
           THEN /\ work' = [task |-> current_task', token |-> tasks'[current_task'].lease.token, attempt |-> None]
                /\ Begin(tasks'[current_task'])
           ELSE Goto("conclude") /\ UNCHANGED <<journal, work>>
  /\ UNCHANGED <<results, resume, shutdown, consumed>>

(* The journal names the task and the attempt, and counts.                 *)
Record ==
  /\ pc = "record"
  /\ LET a == AttemptId(work.task)
     IN  /\ work' = [work EXCEPT !.attempt = a]
         /\ journal' = [journal EXCEPT !.task = work.task, !.attempt = a, !.processed = @ + 1]
  /\ Goto("work")
  /\ UNCHANGED <<tasks, current_task, retired, charged, results, resume, shutdown, consumed>>

(* The result the attempt has already, or a worker that writes one, or a   *)
(* worker that could not be run.                                           *)
Work ==
  /\ pc = "work"
  /\ \/ /\ ResultOf(work.task, work.attempt) # None
        /\ Goto("result")
        /\ UNCHANGED <<journal, results>>
     \/ /\ ResultOf(work.task, work.attempt) = None
        /\ \E r \in Results : results' = [results EXCEPT ![work.task][work.attempt] = r]
        /\ Goto("result")
        /\ UNCHANGED journal
     \/ /\ ResultOf(work.task, work.attempt) = None
        /\ End("BLOCKED")
        /\ UNCHANGED results
  /\ UNCHANGED <<tasks, current_task, retired, charged, resume, shutdown, work, consumed>>

(* _heartbeat, while the worker runs.                                      *)
Heartbeat ==
  /\ pc = "work"
  /\ ResultOf(work.task, work.attempt) = None
  /\ ~shutdown
  /\ Runtime!Heartbeat(Self, work.task, work.token, 0)
  /\ UNCHANGED <<journal, results, pc, resume, shutdown, work, consumed>>

(* Mutant: the failure is written down although the lease is lost.         *)
HandleFailureAnyway(class) ==
  \/ /\ Runtime!Fail(Self, work.task, work.token, class, 0)
     /\ Goto("failed")
     /\ UNCHANGED journal
  \/ /\ ~StillHeld
     /\ End("BLOCKED")
     /\ tasks' = [tasks EXCEPT ![work.task].last_failure = class]
     /\ UNCHANGED <<current_task, retired, charged>>

(* _handle_failure: the runtime charges the attempt; a lease that is lost  *)
(* ends the run.                                                           *)
HandleFailure(class) ==
  \/ /\ Runtime!Fail(Self, work.task, work.token, class, 0)
     /\ Goto("failed")
     /\ UNCHANGED journal
  \/ /\ ~StillHeld
     /\ End("BLOCKED")
     /\ UNCHANGED runtime

(* A heartbeat that finds a signal, or that cannot renew the lease.        *)
HeartbeatFails ==
  /\ pc = "work"
  /\ ResultOf(work.task, work.attempt) = None
  /\ IF shutdown THEN End("SHUTDOWN") /\ UNCHANGED runtime ELSE HandleFailure("LEASE_EXPIRED")
  /\ UNCHANGED <<results, resume, shutdown, work, consumed>>

(* Mutant: whatever is not a failure is accepted.                          *)
AcceptableIfNoFailure(result) == result \notin WorkerFailures

Acceptable(result) == result = "SUCCEEDED"

(* The result decides; record_human_required needs the lease, and without  *)
(* it the exception reaches nobody: the process dies.                      *)
Result ==
  /\ pc = "result"
  /\ LET result == ResultOf(work.task, work.attempt)
     IN  \/ /\ Acceptable(result)
            /\ Goto("accept")
            /\ UNCHANGED <<tasks, current_task, retired, charged, journal, consumed>>
         \/ /\ result \in WorkerFailures
            /\ HandleFailure(result)
            /\ IF pc' = "failed" THEN Consume ELSE UNCHANGED consumed
         \/ /\ result = "HUMAN_REQUIRED"
            /\ ~Acceptable(result)
            /\ IF StillHeld
               THEN /\ \E q \in Requests : Runtime!WaitForHuman(Self, work.task, work.token, q, 0)
                    /\ Consume
                    /\ Goto("waiting")
               ELSE /\ Goto("crashed")
                    /\ UNCHANGED <<tasks, current_task, retired, charged, consumed>>
            /\ UNCHANGED journal
  /\ UNCHANGED <<results, resume, shutdown, work>>

(* complete_attempt                                                        *)
Accept ==
  /\ pc = "accept"
  /\ \/ /\ Runtime!Complete(Self, work.task, work.token, work.attempt, 0)
        /\ Goto("completed")
        /\ Consume
        /\ UNCHANGED journal
     \/ /\ HandleFailure("VALIDATION")
        /\ IF pc' = "failed" THEN Consume ELSE UNCHANGED consumed
  /\ UNCHANGED <<results, resume, shutdown, work>>

(* What the journal is told afterwards, by a write of its own.             *)
Note ==
  /\ \/ /\ pc = "completed"
        /\ journal' = [journal EXCEPT !.status = "RUNNING"]
        /\ Goto("top")
     \/ /\ pc = "failed"
        /\ journal' = IF tasks[work.task].status = "FAILED" THEN [journal EXCEPT !.status = "FAILED"] ELSE journal
        /\ Goto("top")
     \/ /\ pc = "waiting"
        /\ End("PAUSED")
  /\ UNCHANGED <<tasks, current_task, retired, charged, results, resume, shutdown, work, consumed>>

-----------------------------------------------------------------------------
(* The environment.                                                        *)

Crash ==
  /\ pc \notin Stopped
  /\ Goto("crashed")
  /\ UNCHANGED <<tasks, current_task, retired, charged, journal, results, resume, shutdown, work, consumed>>

Signal ==
  /\ pc \notin Stopped
  /\ shutdown' = TRUE
  /\ UNCHANGED <<tasks, current_task, retired, charged, journal, results, pc, resume, work, consumed>>

Others ==
  /\ \/ \E w \in Rivals : Runtime!WorkerCall(w, 0)
     \/ Runtime!HumanCall(0)
     \/ Runtime!Tick
  /\ UNCHANGED <<journal, results, pc, resume, shutdown, work, consumed>>

(* The process itself, but for the heartbeats.                             *)
Proceed ==
  Top \/ Peek \/ Conclude \/ Report \/ Claim \/ Record \/ Work \/ HeartbeatFails \/ Result \/ Accept \/ Note

Next ==
  \/ \E asked \in BOOLEAN : Start(asked)
  \/ Proceed
  \/ Heartbeat
  \/ Crash \/ Signal \/ Others

Spec == Init /\ [][Next]_vars

(* The process is scheduled, and a worker answers by its deadline.         *)
Fairness == WF_vars(Proceed)

FairSpec == Spec /\ Fairness

-----------------------------------------------------------------------------
(* Properties.                                                             *)

(* Shapes, and a process that works on something has a task in its hands.  *)
TypeOK ==
  /\ tasks \in [Tasks -> Runtime!TaskRecords]
  /\ journal \in Journals \cup {None}
  /\ results \in [Tasks -> [AttemptNumbers -> Results \cup {None}]]
  /\ pc \in Points
  /\ resume \in BOOLEAN
  /\ shutdown \in BOOLEAN
  /\ consumed \in [Tasks -> [AttemptNumbers -> 0..2]]
  /\ pc \notin Stopped \cup FinalStatuses \cup {"top", "peek", "claim", "conclude"} => work.task \in Tasks

(* Whatever crashes, expires and is retried, the run never has more        *)
(* attempts made than the journal counts, nor more than max_tasks.         *)
WorkIsBounded ==
  journal # None =>
    Cardinality({p \in Tasks \X AttemptNumbers : results[p[1]][p[2]] # None}) <= journal.processed
      /\ journal.processed <= MaxTasks

(* docs/agent-runtime-guide.md, line 160: a result that is complete is not *)
(* produced again.  No worker runs for a task the run holds while a result *)
(* of the run for that task waits for its effect; attempts given back by   *)
(* expiries and human decisions come back to the directory of their result.*)
(* (A rival's attempt moves the counter away from it; such tasks are left  *)
(* out.  Nor does it hold when a resumed run takes the attempt its journal *)
(* names for that of another task; tasks that form a chain leave no room   *)
(* for that.)                                                              *)
NoResultAbandoned ==
  pc = "work" /\ StillHeld /\ ResultOf(work.task, work.attempt) = None
    /\ (\A r \in retired : r.task = work.task => r.owner = Self) =>
    \A a \in AttemptNumbers : ResultOf(work.task, a) # None => consumed[work.task][a] > 0

(* A task the run completes succeeds on a result of its own that said so.  *)
SucceededOnOwnResult ==
  \A t \in Tasks :
    (\E r \in retired : r.task = t /\ r.owner = Self /\ r.how = "SUCCEEDED") =>
      ResultOf(t, tasks[t].effect_key) = "SUCCEEDED"

(* What the journal reports as final is final for the tasks too.           *)
OutcomeIsTrue ==
  journal # None =>
    /\ journal.status = "SUCCEEDED" => \A t \in Tasks : tasks[t].status = "SUCCEEDED"
    /\ journal.status = "FAILED" => \E t \in Tasks : tasks[t].status = "FAILED"

(* Whatever the run, its rivals and the humans do, and wherever the        *)
(* process dies or comes back with a lease that was taken from it, all     *)
(* that happens to the tasks are whole calls of the runtime: under a lease *)
(* in force, with a class of the policy and the number of an attempt.  So  *)
(* what holds of every behaviour of TaskRuntime holds of the run's tasks.  *)
RuntimeKept == Runtime!Spec

(* docs/agent-runtime-guide.md, line 160: the run always stops, by its     *)
(* bounds or by the limit of retries.                                      *)
RunStops == pc \notin Stopped ~> pc \in Stopped

(* The comment in _run_loop: a durable worker result belongs to the prior  *)
(* attempt and must be consumed exactly once.                              *)
ConsumedOnce == \A t \in Tasks, a \in AttemptNumbers : consumed[t][a] <= 1

(* docs/agent-runtime-guide.md, line 160: after a crash the run resumes.   *)
CrashedRunResumes == [][pc = "crashed" /\ pc' = "returned" => ~SomethingToDo]_vars
=============================================================================
