---------------------------- MODULE TaskRuntime ----------------------------
(***************************************************************************)
(* The task DAG runtime of tools/task_runtime.py: the task records kept in *)
(* 07_runtime/research-state.json and every operation that changes them.   *)
(*                                                                         *)
(* Each operation runs in _mutate, under one flock, and a mutator that     *)
(* raises is rolled back: an operation is one action, and a refused call   *)
(* changes nothing, so it is no step at all.  A caller reads its clock     *)
(* before it waits for that flock; the action's `delay` is how old the     *)
(* reading is when the operation runs.                                     *)
(*                                                                         *)
(* Time is kept as time to expiry: lease.left is expires_at minus the      *)
(* clock, so that the model needs no bound on the clock itself.            *)
(***************************************************************************)
EXTENDS Integers, FiniteSets

CONSTANTS
  Tasks,          \* task IDs; numbers, because the code orders them by ID
  DependsOn,      \* the plan's depends_on
  MaxAttempts,    \* per task
  Workers,        \* worker_id values
  LeaseSeconds,   \* ticks a claim or a heartbeat buys
  MaxDelay,       \* ticks a caller may wait for the flock
  Retryable,      \* retryable_failure_classes
  Terminal,       \* terminal_failure_classes
  EffectKeys,     \* effect keys a completion may carry
  Requests,       \* identities (id, hash) of human decision requests
  Responses,      \* identities (id, hash) of human decision responses
  None

Delays == 0..MaxDelay
Statuses == {"PENDING", "RUNNING", "WAITING_HUMAN", "SUCCEEDED", "FAILED", "BLOCKED"}
Dead == {"FAILED", "BLOCKED"}
Tokens == [attempt : Nat, expiry : Nat]
Leases == [owner : Workers, token : Tokens, left : Int]
FailureClasses == Retryable \cup Terminal
Failures == FailureClasses \cup {"LEASE_EXPIRED", "DEPENDENCY_FAILED", None}
Answers == [request : Requests, response : Responses]
TaskRecords ==
  [status : Statuses, attempts : Nat, lease_expiries : Nat, lease : Leases \cup {None},
   failure : Failures, last_failure : FailureClasses \cup {None}, effect_key : EffectKeys \cup {None},
   request : Requests \cup {None}, response : Answers \cup {None}]
Handles == [task : Tasks, owner : Workers, token : Tokens, how : {"EXPIRED", "FAILED", "WAITED", "SUCCEEDED"}]

(* _runtime_policy and _canonical_tasks refuse every other configuration.  *)
ASSUME TaskAssumption ==
  /\ Tasks \subseteq Nat
  /\ IsFiniteSet(Tasks)
  /\ DependsOn \in [Tasks -> SUBSET Tasks]
  /\ MaxAttempts \in [Tasks -> Nat \ {0}]
ASSUME PolicyAssumption ==
  /\ LeaseSeconds \in Nat \ {0}
  /\ MaxDelay \in Nat
  /\ Retryable \cap Terminal = {}
  /\ "LEASE_EXPIRED" \notin Terminal
ASSUME NoneAssumption ==
  /\ None \notin Leases
  /\ None \notin Requests
  /\ None \notin EffectKeys
  /\ None \notin Answers

VARIABLES
  tasks,          \* task_runtime.tasks
  current_task,   \* state.current_task
  alive,          \* worker processes that still make calls
  retired,        \* history: leases that ended, and how they ended
  charged         \* history: failures charged to a task

vars == <<tasks, current_task, alive, retired, charged>>

-----------------------------------------------------------------------------
(* Helpers of the code, on a table of task records.                        *)

NewTask ==
  [status |-> "PENDING", attempts |-> 0, lease_expiries |-> 0, lease |-> None, failure |-> None,
   last_failure |-> None, effect_key |-> None, request |-> None, response |-> None]

Ready(ts, t) ==
  /\ ts[t].status = "PENDING"
  /\ \A d \in DependsOn[t] : ts[d].status = "SUCCEEDED"

(* Mutant: a lease never runs out.                                         *)
ExpiredNever(rec, delay) == FALSE

(* A lease whose expires_at is not after the caller's clock.               *)
Expired(rec, delay) == rec.status = "RUNNING" /\ rec.lease.left + delay <= 0

Min0(n) == IF n < 0 THEN 0 ELSE n

(* Mutant: the expired lease stays in the record.                          *)
ExpireTaskKeepLease(t, rec) ==
  [rec EXCEPT !.lease_expiries = @ + 1, !.attempts = Min0(@ - 1), !.failure = "LEASE_EXPIRED", !.status = "PENDING"]

(* Mutant: an expiry spends the attempt.                                   *)
ExpireTaskSpend(t, rec) ==
  [rec EXCEPT !.lease = None, !.lease_expiries = @ + 1, !.failure = "LEASE_EXPIRED",
              !.status = IF rec.attempts < MaxAttempts[t] THEN "PENDING" ELSE "FAILED"]

(* First half of _reconcile: an expired lease gives its attempt back and   *)
(* counts an expiry instead.                                               *)
ExpireTask(t, rec) ==
  LET back == Min0(rec.attempts - 1)
  IN  [rec EXCEPT !.lease = None,
                  !.lease_expiries = @ + 1,
                  !.attempts = back,
                  !.failure = "LEASE_EXPIRED",
                  !.status = IF back < MaxAttempts[t] THEN "PENDING" ELSE "FAILED"]

Expire(ts, delay) ==
  [t \in Tasks |-> IF Expired(ts[t], delay) THEN ExpireTask(t, ts[t]) ELSE ts[t]]

(* Second half: the least set of pending tasks that contains every pending *)
(* task with a dependency that is dead or in the set (the while loop).     *)
BlocksClosed(ts, S) ==
  \A t \in Tasks :
    (ts[t].status = "PENDING" /\ \E d \in DependsOn[t] : ts[d].status \in Dead \/ d \in S) => t \in S

(* Mutant: one pass, only over dependencies that are dead already.         *)
DoomedDirectly(ts) == {t \in Tasks : ts[t].status = "PENDING" /\ \E d \in DependsOn[t] : ts[d].status \in Dead}

Doomed(ts) == {t \in Tasks : ts[t].status = "PENDING" /\ \A S \in SUBSET Tasks : BlocksClosed(ts, S) => t \in S}

Block(ts) ==
  [t \in Tasks |-> IF t \in Doomed(ts)
                   THEN [ts[t] EXCEPT !.status = "BLOCKED", !.failure = "DEPENDENCY_FAILED"]
                   ELSE ts[t]]

Reconcile(ts, delay) == Block(Expire(ts, delay))

(* Mutant: the token names the attempt only.                               *)
TokenOfAttempt(attempt, expiries) == [attempt |-> attempt, expiry |-> 0]

(* claim_next: the token names the attempt and the expiries so far.        *)
Token(attempt, expiries) == [attempt |-> attempt, expiry |-> expiries]

Grant(rec, w, delay) ==
  [rec EXCEPT !.attempts = @ + 1,
              !.status = "RUNNING",
              !.lease = [owner |-> w, token |-> Token(rec.attempts + 1, rec.lease_expiries),
                         left |-> LeaseSeconds - delay],
              !.failure = None]

(* _assert_lease                                                           *)
HoldsLease(rec, w, token) ==
  /\ rec.status = "RUNNING"
  /\ rec.lease.owner = w
  /\ rec.lease.token = token

(* Mutant: the former answer stays.                                        *)
AskKeepingAnswer(rec, request) ==
  [rec EXCEPT !.attempts = Min0(@ - 1), !.status = "WAITING_HUMAN", !.lease = None, !.failure = None,
              !.request = request]

(* wait_for_human: the lease is released and the attempt given back.       *)
Ask(rec, request) ==
  [rec EXCEPT !.attempts = Min0(@ - 1), !.status = "WAITING_HUMAN", !.lease = None, !.failure = None,
              !.request = request, !.response = None]

(* resolve_human takes a response only to the request a task waits on.     *)
(* Mutant: the status is not checked.                                      *)
AwaitsAnyStatus(rec, request) == rec.request = request

Awaits(rec, request) == rec.status = "WAITING_HUMAN" /\ rec.request = request

ShouldRetry(t, rec, class) == class \in Retryable /\ rec.attempts < MaxAttempts[t]

(* The records that heartbeat, complete, fail and resolve_human leave.     *)
WithLeft(rec, n) == [rec EXCEPT !.lease.left = n]

Finish(rec, key) ==
  [rec EXCEPT !.status = "SUCCEEDED", !.lease = None, !.effect_key = key, !.failure = None]

GiveUp(t, rec, class) ==
  [rec EXCEPT !.status = IF ShouldRetry(t, rec, class) THEN "PENDING" ELSE "FAILED",
              !.lease = None, !.failure = class, !.last_failure = class]

Answer(rec, request, response) ==
  [rec EXCEPT !.status = "PENDING", !.lease = None, !.failure = None,
              !.response = [request |-> request, response |-> response]]

(* The leases a step of reconciliation ends, and the one a call ends.      *)
Handle(t, rec, how) == [task |-> t, owner |-> rec.lease.owner, token |-> rec.lease.token, how |-> how]
EndedByExpiry(delay) == {Handle(t, tasks[t], "EXPIRED") : t \in {u \in Tasks : Expired(tasks[u], delay)}}

(* A call carries the task, worker and token of a lease once granted; only *)
(* those of a lease in force can pass _assert_lease.                       *)
KnownTokens(t) ==
  {h.token : h \in {g \in retired : g.task = t}}
    \cup (IF tasks[t].status = "RUNNING" THEN {tasks[t].lease.token} ELSE {})

ClearCurrent(t) == current_task' = IF current_task = t THEN None ELSE current_task

-----------------------------------------------------------------------------
Init ==
  /\ tasks = [t \in Tasks |-> NewTask]
  /\ current_task = None
  /\ alive = Workers
  /\ retired = {}
  /\ charged = [t \in Tasks |-> 0]

(* claim_next: reconcile, then the ready task with the lowest ID; with no  *)
(* ready task the reconciled state is still written.                       *)
Claim(w, delay) ==
  LET r == Reconcile(tasks, delay)
  IN  /\ w \in alive
      /\ retired' = retired \cup EndedByExpiry(delay)
      /\ \/ /\ \A t \in Tasks : ~Ready(r, t)
            /\ tasks' = r
            /\ UNCHANGED current_task
         \/ \E t \in Tasks :
              /\ Ready(r, t)
              /\ \A u \in Tasks : Ready(r, u) => t <= u
              /\ tasks' = [r EXCEPT ![t] = Grant(r[t], w, delay)]
              /\ current_task' = t
      /\ UNCHANGED <<alive, charged>>

(* resume: reconcile, and forget a current task that is not running.       *)
Resume(delay) ==
  LET r == Reconcile(tasks, delay)
  IN  /\ alive # {}
      /\ tasks' = r
      /\ current_task' = IF \E t \in Tasks : t = current_task /\ r[t].status = "RUNNING"
                         THEN current_task ELSE None
      /\ retired' = retired \cup EndedByExpiry(delay)
      /\ UNCHANGED <<alive, charged>>

(* heartbeat does not reconcile: it renews a lease that ran out but that   *)
(* nobody has reclaimed yet.                                               *)
Heartbeat(w, t, token, delay) ==
  /\ w \in alive
  /\ HoldsLease(tasks[t], w, token)
  /\ tasks' = [tasks EXCEPT ![t] = WithLeft(tasks[t], LeaseSeconds - delay)]
  /\ UNCHANGED <<current_task, alive, retired, charged>>

(* complete on a task that has not succeeded yet.                          *)
Complete(w, t, token, key, delay) ==
  LET r == Reconcile(tasks, delay)
  IN  /\ w \in alive
      /\ HoldsLease(r[t], w, token)
      /\ tasks' = [r EXCEPT ![t] = Finish(r[t], key)]
      /\ ClearCurrent(t)
      /\ retired' = retired \cup EndedByExpiry(delay) \cup {Handle(t, r[t], "SUCCEEDED")}
      /\ UNCHANGED <<alive, charged>>

(* complete delivered again: the same effect key is accepted whatever the  *)
(* token, and only the reconciliation is written.                          *)
CompleteAgain(w, t, key, delay) ==
  LET r == Reconcile(tasks, delay)
  IN  /\ w \in alive
      /\ r[t].status = "SUCCEEDED"
      /\ r[t].effect_key = key
      /\ tasks' = r
      /\ retired' = retired \cup EndedByExpiry(delay)
      /\ UNCHANGED <<current_task, alive, charged>>

(* fail: retry or give up, then reconcile once more so that the dependents *)
(* of a dead task are blocked by the same write.                           *)
Fail(w, t, token, class, delay) ==
  LET r == Reconcile(tasks, delay)
  IN  /\ w \in alive
      /\ HoldsLease(r[t], w, token)
      /\ tasks' = Reconcile([r EXCEPT ![t] = GiveUp(t, r[t], class)], delay)
      /\ ClearCurrent(t)
      /\ retired' = retired \cup EndedByExpiry(delay) \cup {Handle(t, r[t], "FAILED")}
      /\ charged' = [charged EXCEPT ![t] = @ + 1]
      /\ UNCHANGED alive

(* wait_for_human                                                          *)
WaitForHuman(w, t, token, request, delay) ==
  LET r == Reconcile(tasks, delay)
  IN  /\ w \in alive
      /\ HoldsLease(r[t], w, token)
      /\ tasks' = [r EXCEPT ![t] = Ask(r[t], request)]
      /\ ClearCurrent(t)
      /\ retired' = retired \cup EndedByExpiry(delay) \cup {Handle(t, r[t], "WAITED")}
      /\ UNCHANGED <<alive, charged>>

(* resolve_human: a response to the request the task waits on, or the same *)
(* response again before the task is claimed.                              *)
ResolveHuman(t, request, response, delay) ==
  LET r == Reconcile(tasks, delay)
      again == r[t].status = "PENDING" /\ r[t].response # None /\ r[t].response.response = response
  IN  /\ \/ /\ again
            /\ tasks' = r
         \/ /\ ~again
            /\ Awaits(r[t], request)
            /\ tasks' = [r EXCEPT ![t] = Answer(r[t], request, response)]
      /\ retired' = retired \cup EndedByExpiry(delay)
      /\ UNCHANGED <<current_task, alive, charged>>

-----------------------------------------------------------------------------
(* The environment: time passes, worker processes die and come back.       *)

Tick ==
  /\ tasks' = [t \in Tasks |-> IF tasks[t].status = "RUNNING" /\ tasks[t].lease.left > 0 - MaxDelay
                               THEN WithLeft(tasks[t], tasks[t].lease.left - 1) ELSE tasks[t]]
  /\ UNCHANGED <<current_task, alive, retired, charged>>

Crash(w) ==
  /\ w \in alive
  /\ alive' = alive \ {w}
  /\ UNCHANGED <<tasks, current_task, retired, charged>>

Restart(w) ==
  /\ w \notin alive
  /\ alive' = alive \cup {w}
  /\ UNCHANGED <<tasks, current_task, retired, charged>>

WorkerCall(w, delay) ==
  \/ Claim(w, delay)
  \/ \E t \in Tasks, key \in EffectKeys : CompleteAgain(w, t, key, delay)
  \/ \E t \in Tasks : \E token \in KnownTokens(t) :
       \/ Heartbeat(w, t, token, delay)
       \/ \E key \in EffectKeys : Complete(w, t, token, key, delay)
       \/ \E class \in FailureClasses : Fail(w, t, token, class, delay)
       \/ \E request \in Requests : WaitForHuman(w, t, token, request, delay)

HumanCall(delay) ==
  \E t \in Tasks, request \in Requests, response \in Responses : ResolveHuman(t, request, response, delay)

Next ==
  \/ \E w \in Workers, delay \in Delays : WorkerCall(w, delay)
  \/ \E delay \in Delays : Resume(delay) \/ HumanCall(delay)
  \/ Tick
  \/ \E w \in Workers : Crash(w) \/ Restart(w)

Spec == Init /\ [][Next]_vars

-----------------------------------------------------------------------------
(* Properties.                                                             *)

(* Every record keeps its shape, and exactly the running tasks carry a     *)
(* lease.                                                                  *)
TypeOK ==
  /\ tasks \in [Tasks -> TaskRecords]
  /\ \A t \in Tasks : tasks[t].lease # None <=> tasks[t].status = "RUNNING"
  /\ current_task \in Tasks \cup {None}
  /\ alive \subseteq Workers
  /\ retired \subseteq Handles
  /\ charged \in [Tasks -> Nat]

(* Attempts count failures and the run in progress, nothing else: neither  *)
(* an expired lease nor a human decision spends one, however they are      *)
(* interleaved, and a task that may still run has one left.  It follows    *)
(* that the FAILED branch of an expiry is never taken.                     *)
AttemptBudget ==
  \A t \in Tasks :
    /\ tasks[t].attempts = charged[t] + (IF tasks[t].status \in {"RUNNING", "SUCCEEDED"} THEN 1 ELSE 0)
    /\ charged[t] <= MaxAttempts[t]
    /\ tasks[t].status \notin Dead => charged[t] < MaxAttempts[t]

(* The token of a lease that ran out, failed or completed is never again   *)
(* the token of a lease of its task: a worker that comes back late cannot  *)
(* act on the attempt of another, or on a later attempt of its own.        *)
RetiredTokensFenced ==
  \A h \in retired : h.how # "WAITED" => ~HoldsLease(tasks[h.task], h.owner, h.token)

(* The comment in claim_next: a returned attempt must not mint the same    *)
(* token twice.  wait_for_human returns an attempt too.                    *)
NoTokenMintedTwice ==
  \A h \in retired : ~HoldsLease(tasks[h.task], h.owner, h.token)

(* A task is worked on only over finished dependencies; a task whose       *)
(* dependency died never stays pending past the write that killed it; and  *)
(* only such a task is blocked.                                            *)
DependenciesHonoured ==
  \A t \in Tasks :
    /\ \A d \in DependsOn[t] :
         /\ tasks[t].status \in {"RUNNING", "WAITING_HUMAN", "SUCCEEDED", "FAILED"} => tasks[d].status = "SUCCEEDED"
         /\ tasks[t].status = "PENDING" => tasks[d].status \notin Dead
    /\ tasks[t].status = "BLOCKED" => \E d \in DependsOn[t] : tasks[d].status \in Dead

(* The response a task runs with answers the request it asked last, and a  *)
(* task that waits has none.                                               *)
AnswerMatchesRequest ==
  \A t \in Tasks :
    tasks[t].response # None =>
      tasks[t].status # "WAITING_HUMAN" /\ tasks[t].response.request = tasks[t].request

(* What is settled stays settled: a late, repeated or conflicting call     *)
(* never changes the record of a task that succeeded, failed or blocked.   *)
SettledForGood ==
  [][\A t \in Tasks : tasks[t].status \in {"SUCCEEDED", "FAILED", "BLOCKED"} => tasks'[t] = tasks[t]]_vars

(* Only an expired lease is reclaimed, by whatever call and with however   *)
(* stale a clock reading (docs/agent-runtime-guide.md, line 170).          *)
OnlyExpiredLeaseReclaimed ==
  [][\A t \in Tasks : tasks'[t].lease_expiries # tasks[t].lease_expiries => tasks[t].lease.left <= 0]_vars

(* The runtime implements the life it promises to its tasks.               *)
Phase(rec) ==
  CASE rec.status = "PENDING" -> "todo"
    [] rec.status = "RUNNING" -> "active"
    [] rec.status = "WAITING_HUMAN" -> "asking"
    [] rec.status = "SUCCEEDED" -> "done"
    [] rec.status \in Dead -> "dead"
Lifecycle == INSTANCE TaskLifecycle WITH
               phase <- [t \in Tasks |-> Phase(tasks[t])],
               holder <- [t \in Tasks |-> IF tasks[t].status = "RUNNING" THEN tasks[t].lease.owner ELSE None]
ImplementsLifecycle == Lifecycle!Spec

(* A live supervisor goes on reconciling and the clock goes on: the run    *)
(* loop calls resume on every iteration.                                   *)
Fairness == WF_vars(Tick) /\ WF_vars(Resume(0))

(* The lease of a dead worker is eventually taken from it, as long as      *)
(* anybody is left to do so and the worker does not come back.             *)
DeadWorkerLosesLease ==
  \A t \in Tasks, w \in Workers :
    (tasks[t].status = "RUNNING" /\ tasks[t].lease.owner = w /\ w \notin alive)
      ~> (tasks[t].status # "RUNNING" \/ tasks[t].lease.owner # w \/ w \in alive \/ alive = {})
=============================================================================
