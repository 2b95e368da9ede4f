-------------------------- MODULE Supervisor_proofs -------------------------
(***************************************************************************)
(* Proofs about Supervisor: for any tasks, plan, limits and rivals, and    *)
(* whatever dies, expires and is started again, a run completes its tasks  *)
(* on results of its own, says of its tasks what they are, makes no more   *)
(* attempts than it counts, and, if it takes no attempt of one task for    *)
(* that of another, starts no worker over a result that waits; when of any *)
(* two tasks one needs the other, there is none to take.                   *)
(*                                                                         *)
(* The runtime is known by what each of its calls does to the records: it  *)
(* leaves them well formed, does not touch a settled one, ends no lease of *)
(* this run as succeeded but the one the run completes, and moves a task   *)
(* to its next attempt only when the one it is on is charged or a rival    *)
(* has held it.                                                            *)
(***************************************************************************)
EXTENDS Supervisor, FiniteSetTheorems, TLAPS

Settled == {"SUCCEEDED", "FAILED"}

(* A record on its own: an attempt is left for a task that may be claimed, *)
(* so that attempts are numbers of directories.                            *)
RecordOK(t, rec) ==
  /\ rec \in Runtime!TaskRecords
  /\ rec.status = "RUNNING" => rec.lease \in Runtime!Leases
  /\ rec.attempts <= MaxAttempts[t]
  /\ rec.status \in {"PENDING", "WAITING_HUMAN"} => rec.attempts < MaxAttempts[t]

TableOK(ts) == ts \in [Tasks -> Runtime!TaskRecords] /\ \A t \in Tasks : RecordOK(t, ts[t])

Works == [task : Tasks \cup {None}, token : Runtime!Tokens \cup {None}, attempt : AttemptNumbers \cup {None}]

TypesOK ==
  /\ TableOK(tasks)
  /\ journal \in Journals \cup {None}
  /\ results \in [Tasks -> [AttemptNumbers -> Results \cup {None}]]
  /\ pc \in Points
  /\ resume \in BOOLEAN
  /\ shutdown \in BOOLEAN
  /\ work \in Works
  /\ consumed \in [Tasks -> [AttemptNumbers -> 0..2]]

(* What a status says of the tasks.                                        *)
TrueOf(ts, status) ==
  /\ status = "SUCCEEDED" => \A t \in Tasks : ts[t].status = "SUCCEEDED"
  /\ status = "FAILED" => \E t \in Tasks : ts[t].status = "FAILED"

(* What the process has in its hands at each point.                        *)
HandsOK ==
  /\ pc \notin Stopped => journal # None
  /\ pc \notin Stopped \cup {"top", "peek", "claim", "conclude", "SUCCEEDED", "FAILED", "BLOCKED", "PAUSED",
                           "NO_TASK_READY"} => work.task \in Tasks
  /\ pc \in {"SUCCEEDED", "FAILED"} => TrueOf(tasks, pc)
  /\ pc \in {"work", "result", "accept"} => work.attempt \in AttemptNumbers
  /\ pc = "accept" => ResultOf(work.task, work.attempt) = "SUCCEEDED"

(* A task the run completed has the result it succeeded on.                *)
OwnSuccess(ts, res, t) ==
  /\ ts[t].status = "SUCCEEDED"
  /\ ts[t].effect_key \in AttemptNumbers
  /\ res[t][ts[t].effect_key] = "SUCCEEDED"

OwnOK ==
  \A h \in retired : h.task \in Tasks /\ h.owner = Self /\ h.how = "SUCCEEDED" => OwnSuccess(tasks, results, h.task)

(* The attempts that were made, against those the journal counts.          *)
Done == {p \in Tasks \X AttemptNumbers : results[p[1]][p[2]] # None}

Counted == IF journal = None THEN 0 ELSE journal.processed

CountOK ==
  /\ IsFiniteSet(Done)
  /\ Cardinality(Done) <= Counted
  /\ pc = "work" => Cardinality(Done) < Counted
  /\ pc \in {"peek", "claim", "record"} => Counted < MaxTasks

IInv == TypesOK /\ HandsOK /\ OwnOK /\ OutcomeIsTrue /\ CountOK

-----------------------------------------------------------------------------
(* Records.                                                                *)

Crew == {Self} \cup Rivals

LEMMA Limits ==
  ASSUME NEW t \in Tasks
  PROVE  /\ MaxAttempts[t] \in Nat \ {0}
         /\ \A n \in Nat : n <= MaxAttempts[t] => n \in AttemptNumbers
<1>1. MaxAttempts[t] \in Nat \ {0}
  BY SupervisorAssumption
<1>2. ASSUME NEW n \in Nat, n <= MaxAttempts[t]
      PROVE  n \in AttemptNumbers
  <2>1. n \in 0..MaxAttempts[t]
    BY <1>1, <1>2
  <2> QED
    BY <2>1 DEF AttemptNumbers
<1> QED
  BY <1>1, <1>2

(* An attempt given back leaves one to spend.                              *)
LEMMA ReturnedAttempt ==
  ASSUME NEW t \in Tasks, NEW rec, RecordOK(t, rec)
  PROVE  Runtime!Min0(rec.attempts - 1) \in Nat /\ Runtime!Min0(rec.attempts - 1) < MaxAttempts[t]
<1>1. rec.attempts \in Nat /\ rec.attempts <= MaxAttempts[t]
  BY DEF RecordOK, Runtime!TaskRecords
<1> QED
  BY <1>1, Limits DEF Runtime!Min0

LEMMA ExpireRecord ==
  ASSUME NEW t \in Tasks, NEW rec, RecordOK(t, rec)
  PROVE  RecordOK(t, Runtime!ExpireTask(t, rec))
<1> DEFINE back == Runtime!Min0(rec.attempts - 1)
           expiries == rec.lease_expiries + 1
           new == [rec EXCEPT !.lease = None, !.lease_expiries = expiries, !.attempts = back,
                              !.failure = "LEASE_EXPIRED", !.status = "PENDING"]
<1>1. back \in Nat /\ back < MaxAttempts[t] /\ expiries \in Nat
  BY ReturnedAttempt DEF RecordOK, Runtime!TaskRecords
<1>2. Runtime!ExpireTask(t, rec) = new
  BY <1>1 DEF Runtime!ExpireTask
<1> HIDE DEF back, expiries
<1>3. new \in Runtime!TaskRecords /\ new.status = "PENDING" /\ new.attempts = back
  BY <1>1 DEF RecordOK, Runtime!TaskRecords, Runtime!Statuses, Runtime!Failures
<1> HIDE DEF new
<1>4. RecordOK(t, new)
  BY <1>1, <1>3, Limits DEF RecordOK
<1> QED
  BY <1>2, <1>4

LEMMA BlockRecord ==
  ASSUME NEW t \in Tasks, NEW rec, RecordOK(t, rec)
  PROVE  RecordOK(t, [rec EXCEPT !.status = "BLOCKED", !.failure = "DEPENDENCY_FAILED"])
  BY DEF RecordOK, Runtime!TaskRecords, Runtime!Statuses, Runtime!Failures

LEMMA GrantRecord ==
  ASSUME NEW t \in Tasks, NEW rec, NEW w \in Crew, RecordOK(t, rec), rec.status = "PENDING"
  PROVE  RecordOK(t, Runtime!Grant(rec, w, 0))
<1> DEFINE token == Runtime!Token(rec.attempts + 1, rec.lease_expiries)
           lease == [owner |-> w, token |-> token, left |-> LeaseSeconds - 0]
           n == rec.attempts + 1
           new == [rec EXCEPT !.attempts = n, !.status = "RUNNING", !.lease = lease, !.failure = None]
<1>1. rec \in Runtime!TaskRecords /\ rec.attempts < MaxAttempts[t] /\ rec.lease_expiries \in Nat
      /\ rec.attempts \in Nat /\ n \in Nat
  BY DEF RecordOK, Runtime!TaskRecords
<1>2. token \in Runtime!Tokens
  BY <1>1 DEF Runtime!Token, Runtime!Tokens
<1>3. lease \in Runtime!Leases
  BY <1>2, SupervisorAssumption DEF Runtime!Leases, Crew
<1>4. Runtime!Grant(rec, w, 0) = new
  BY DEF Runtime!Grant
<1>e. n <= MaxAttempts[t]
  BY <1>1, Limits
<1> HIDE DEF lease, n
<1>5. new \in Runtime!TaskRecords /\ new.status = "RUNNING" /\ new.lease = lease /\ new.attempts = n
  BY <1>1, <1>3 DEF Runtime!TaskRecords, Runtime!Statuses, Runtime!Failures
<1> HIDE DEF new
<1>6. RecordOK(t, new)
  BY <1>3, <1>e, <1>5 DEF RecordOK
<1> QED
  BY <1>4, <1>6

LEMMA LeftRecord ==
  ASSUME NEW t \in Tasks, NEW rec, NEW n \in Int, RecordOK(t, rec), rec.status = "RUNNING"
  PROVE  RecordOK(t, Runtime!WithLeft(rec, n)) /\ Runtime!WithLeft(rec, n).status = "RUNNING"
<1> DEFINE lease == [rec.lease EXCEPT !.left = n]
           new == [rec EXCEPT !.lease = lease]
<1>1. lease \in Runtime!Leases
  BY DEF RecordOK, Runtime!Leases
<1>2. Runtime!WithLeft(rec, n) = new
  BY DEF Runtime!WithLeft
<1> HIDE DEF lease
<1>3. new \in Runtime!TaskRecords /\ new.lease = lease /\ new.status = rec.status /\ new.attempts = rec.attempts
  BY <1>1 DEF RecordOK, Runtime!TaskRecords
<1> HIDE DEF new
<1>4. RecordOK(t, new)
  BY <1>1, <1>3 DEF RecordOK
<1> QED
  BY <1>2, <1>3, <1>4

LEMMA FinishRecord ==
  ASSUME NEW t \in Tasks, NEW rec, NEW key \in AttemptNumbers, RecordOK(t, rec)
  PROVE  /\ RecordOK(t, Runtime!Finish(rec, key))
         /\ Runtime!Finish(rec, key).status = "SUCCEEDED"
         /\ Runtime!Finish(rec, key).effect_key = key
  BY DEF RecordOK, Runtime!Finish, Runtime!TaskRecords, Runtime!Statuses, Runtime!Failures

LEMMA GiveUpRecord ==
  ASSUME NEW t \in Tasks, NEW rec, NEW class \in Runtime!FailureClasses, RecordOK(t, rec)
  PROVE  RecordOK(t, Runtime!GiveUp(t, rec, class))
<1> DEFINE status == IF Runtime!ShouldRetry(t, rec, class) THEN "PENDING" ELSE "FAILED"
           new == [rec EXCEPT !.status = status, !.lease = None, !.failure = class, !.last_failure = class]
<1>1. Runtime!GiveUp(t, rec, class) = new
  BY DEF Runtime!GiveUp
<1>2. status \in {"PENDING", "FAILED"} /\ (status = "PENDING" => rec.attempts < MaxAttempts[t])
  BY DEF Runtime!ShouldRetry
<1> HIDE DEF status
<1>3. new \in Runtime!TaskRecords /\ new.status = status /\ new.attempts = rec.attempts
  BY <1>2 DEF RecordOK, Runtime!TaskRecords, Runtime!Statuses, Runtime!Failures
<1> HIDE DEF new
<1>4. RecordOK(t, new)
  BY <1>2, <1>3 DEF RecordOK
<1> QED
  BY <1>1, <1>4

LEMMA AskRecord ==
  ASSUME NEW t \in Tasks, NEW rec, NEW request \in Requests, RecordOK(t, rec)
  PROVE  RecordOK(t, Runtime!Ask(rec, request))
<1> DEFINE back == Runtime!Min0(rec.attempts - 1)
           new == [rec EXCEPT !.attempts = back, !.status = "WAITING_HUMAN", !.lease = None, !.failure = None,
                              !.request = request, !.response = None]
<1>1. back \in Nat /\ back < MaxAttempts[t]
  BY ReturnedAttempt
<1>2. Runtime!Ask(rec, request) = new
  BY DEF Runtime!Ask
<1> HIDE DEF back
<1>3. new \in Runtime!TaskRecords /\ new.status = "WAITING_HUMAN" /\ new.attempts = back
  BY <1>1 DEF RecordOK, Runtime!TaskRecords, Runtime!Statuses, Runtime!Failures
<1> HIDE DEF new
<1>4. RecordOK(t, new)
  BY <1>1, <1>3, Limits DEF RecordOK
<1> QED
  BY <1>2, <1>4

LEMMA AnswerRecord ==
  ASSUME NEW t \in Tasks, NEW rec, NEW request \in Requests, NEW response \in Responses, RecordOK(t, rec),
         rec.status = "WAITING_HUMAN"
  PROVE  RecordOK(t, Runtime!Answer(rec, request, response))
<1> DEFINE answer == [request |-> request, response |-> response]
           new == [rec EXCEPT !.status = "PENDING", !.lease = None, !.failure = None, !.response = answer]
<1>1. answer \in Runtime!Answers
  BY DEF Runtime!Answers
<1>2. Runtime!Answer(rec, request, response) = new
  BY DEF Runtime!Answer
<1> HIDE DEF answer
<1>3. new \in Runtime!TaskRecords /\ new.status = "PENDING" /\ new.attempts = rec.attempts
  BY <1>1 DEF RecordOK, Runtime!TaskRecords, Runtime!Statuses, Runtime!Failures
<1> HIDE DEF new
<1>4. RecordOK(t, new)
  BY <1>3 DEF RecordOK
<1> QED
  BY <1>2, <1>4

-----------------------------------------------------------------------------
(* Tables: what each call of the runtime, by whatever member of the crew,  *)
(* owes to the run.                                                        *)

Kept(ts, new) == \A t \in Tasks : ts[t].status \in Settled => new[t] = ts[t]

LEMMA UpdateTable ==
  ASSUME NEW ts, TableOK(ts), NEW t \in Tasks, NEW new, RecordOK(t, new)
  PROVE  /\ TableOK([ts EXCEPT ![t] = new])
         /\ ts[t].status \notin Settled => Kept(ts, [ts EXCEPT ![t] = new])
         /\ [ts EXCEPT ![t] = new][t] = new
<1>1. \A u \in Tasks : [ts EXCEPT ![t] = new][u] = IF u = t THEN new ELSE ts[u]
  BY DEF TableOK
<1>2. [ts EXCEPT ![t] = new] \in [Tasks -> Runtime!TaskRecords]
  BY DEF TableOK, RecordOK
<1> QED
  BY <1>1, <1>2 DEF TableOK, Kept

LEMMA KeptTwice ==
  ASSUME NEW ts, NEW mid, NEW new, Kept(ts, mid), Kept(mid, new)
  PROVE  Kept(ts, new)
  BY DEF Kept

LEMMA ReconcileTable ==
  ASSUME NEW ts, TableOK(ts)
  PROVE  TableOK(Runtime!Reconcile(ts, 0)) /\ Kept(ts, Runtime!Reconcile(ts, 0))
<1> DEFINE mid == Runtime!Expire(ts, 0)
           new == Runtime!Block(mid)
<1>1. \A t \in Tasks : mid[t] = IF Runtime!Expired(ts[t], 0) THEN Runtime!ExpireTask(t, ts[t]) ELSE ts[t]
  BY DEF Runtime!Expire
<1>2. \A t \in Tasks : RecordOK(t, mid[t])
  BY <1>1, ExpireRecord DEF TableOK
<1>3. \A t \in Tasks : ts[t].status \in Settled => mid[t] = ts[t]
  BY <1>1 DEF Runtime!Expired, Settled
<1> HIDE DEF mid
<1>4. \A t \in Tasks : new[t] = IF t \in Runtime!Doomed(mid)
                                THEN [mid[t] EXCEPT !.status = "BLOCKED", !.failure = "DEPENDENCY_FAILED"]
                                ELSE mid[t]
  BY DEF Runtime!Block
<1> HIDE DEF new
<1>5. ASSUME NEW t \in Tasks
      PROVE  RecordOK(t, new[t])
  <2>1. RecordOK(t, [mid[t] EXCEPT !.status = "BLOCKED", !.failure = "DEPENDENCY_FAILED"])
    BY <1>2, BlockRecord
  <2> QED
    BY <1>2, <1>4, <2>1
<1>6. \A t \in Tasks : mid[t].status \in Settled => new[t] = mid[t]
  <2>1. \A t \in Runtime!Doomed(mid) : mid[t].status = "PENDING"
    BY DEF Runtime!Doomed
  <2> QED
    BY <1>4, <2>1 DEF Settled
<1>7. new \in [Tasks -> Runtime!TaskRecords]
  <2>1. \A t \in Tasks : new[t] \in Runtime!TaskRecords
    BY <1>5 DEF RecordOK
  <2>2. new = [t \in Tasks |-> new[t]]
    BY DEF new, Runtime!Block
  <2> QED
    BY <2>1, <2>2
<1>8. Runtime!Reconcile(ts, 0) = new
  BY DEF Runtime!Reconcile, mid, new
<1> QED
  BY <1>3, <1>5, <1>6, <1>7, <1>8 DEF TableOK, Kept

(* A step of the runtime that is not the run's own completion of a task.   *)
Sound ==
  /\ TableOK(tasks')
  /\ Kept(tasks, tasks')
  /\ \A h \in retired' : h \in retired \/ h.how # "SUCCEEDED" \/ h.owner # Self

LEMMA ExpiriesEnd ==
  ASSUME NEW h \in Runtime!EndedByExpiry(0)
  PROVE  h.how = "EXPIRED"
  BY DEF Runtime!EndedByExpiry, Runtime!Handle

LEMMA ReconcileSound ==
  ASSUME TableOK(tasks), tasks' = Runtime!Reconcile(tasks, 0), retired' = retired \cup Runtime!EndedByExpiry(0)
  PROVE  Sound
  BY ReconcileTable, ExpiriesEnd DEF Sound

(* A call that reconciles, then changes one unsettled record.              *)
LEMMA UpdateSound ==
  ASSUME TableOK(tasks), NEW t \in Tasks, NEW new, RecordOK(t, new),
         Runtime!Reconcile(tasks, 0)[t].status \notin Settled,
         tasks' = [Runtime!Reconcile(tasks, 0) EXCEPT ![t] = new]
  PROVE  TableOK(tasks') /\ Kept(tasks, tasks') /\ tasks'[t] = new
<1> DEFINE r == Runtime!Reconcile(tasks, 0)
<1>1. TableOK(r) /\ Kept(tasks, r)
  BY ReconcileTable
<1>2. r[t].status \notin Settled /\ tasks' = [r EXCEPT ![t] = new]
  OBVIOUS
<1> HIDE DEF r
<1> DEFINE ts == [r EXCEPT ![t] = new]
<1>3. TableOK(ts) /\ Kept(r, ts) /\ ts[t] = new
  BY <1>1, <1>2, UpdateTable
<1>4. tasks' = ts
  BY <1>2
<1> HIDE DEF ts
<1>5. Kept(tasks, ts)
  BY <1>1, <1>3, KeptTwice
<1> QED
  BY <1>3, <1>4, <1>5

LEMMA ClaimSound ==
  ASSUME TableOK(tasks), NEW w \in Crew, Runtime!Claim(w, 0)
  PROVE  Sound
<1> DEFINE r == Runtime!Reconcile(tasks, 0)
<1>1. retired' = retired \cup Runtime!EndedByExpiry(0)
  BY DEF Runtime!Claim
<1>2. CASE tasks' = r
  BY <1>1, <1>2, ReconcileSound
<1>3. ASSUME NEW t \in Tasks, Runtime!Ready(r, t), tasks' = [r EXCEPT ![t] = Runtime!Grant(r[t], w, 0)]
      PROVE  Sound
  <2>1. RecordOK(t, r[t]) /\ r[t].status = "PENDING"
    BY <1>3, ReconcileTable DEF TableOK, Runtime!Ready
  <2>2. RecordOK(t, Runtime!Grant(r[t], w, 0))
    BY <2>1, GrantRecord
  <2>3. TableOK(tasks') /\ Kept(tasks, tasks')
    BY <1>3, <2>1, <2>2, UpdateSound DEF Settled
  <2> QED
    BY <1>1, <2>3, ExpiriesEnd DEF Sound
<1> QED
  BY <1>2, <1>3 DEF Runtime!Claim

LEMMA HolderRecord ==
  ASSUME TableOK(tasks), NEW t \in Tasks, NEW w, NEW token, Runtime!HoldsLease(Runtime!Reconcile(tasks, 0)[t], w, token)
  PROVE  /\ RecordOK(t, Runtime!Reconcile(tasks, 0)[t])
         /\ Runtime!Reconcile(tasks, 0)[t].status \notin Settled
         /\ Runtime!Reconcile(tasks, 0)[t].lease.owner = w
  BY ReconcileTable DEF TableOK, Runtime!HoldsLease, Settled

LEMMA HeartbeatSound ==
  ASSUME TableOK(tasks), NEW w \in Crew, NEW t \in Tasks, NEW token, Runtime!Heartbeat(w, t, token, 0)
  PROVE  Sound
<1> DEFINE n == LeaseSeconds - 0
           new == Runtime!WithLeft(tasks[t], n)
<1>1. RecordOK(t, tasks[t]) /\ tasks[t].status = "RUNNING" /\ n \in Int
  BY SupervisorAssumption DEF Runtime!Heartbeat, Runtime!HoldsLease, TableOK
<1>2. tasks' = [tasks EXCEPT ![t] = new] /\ retired' = retired
  BY DEF Runtime!Heartbeat
<1> HIDE DEF n
<1>3. RecordOK(t, new)
  BY <1>1, LeftRecord
<1> HIDE DEF new
<1> QED
  BY <1>1, <1>2, <1>3, UpdateTable DEF Sound, Settled

LEMMA FailSound ==
  ASSUME TableOK(tasks), NEW w \in Crew, NEW t \in Tasks, NEW token, NEW class \in Runtime!FailureClasses,
         Runtime!Fail(w, t, token, class, 0)
  PROVE  Sound
<1> DEFINE r == Runtime!Reconcile(tasks, 0)
           ts == [r EXCEPT ![t] = Runtime!GiveUp(t, r[t], class)]
<1>1. /\ Runtime!HoldsLease(r[t], w, token)
      /\ tasks' = Runtime!Reconcile(ts, 0)
      /\ retired' = retired \cup Runtime!EndedByExpiry(0) \cup {Runtime!Handle(t, r[t], "FAILED")}
  BY DEF Runtime!Fail
<1>2. RecordOK(t, r[t]) /\ r[t].status \notin Settled
  BY <1>1, HolderRecord
<1>3. RecordOK(t, Runtime!GiveUp(t, r[t], class))
  BY <1>2, GiveUpRecord
<1>4. TableOK(r) /\ Kept(tasks, r)
  BY ReconcileTable
<1>5. \A h \in retired' : h \in retired \/ h.how # "SUCCEEDED"
  BY <1>1, ExpiriesEnd DEF Runtime!Handle
<1> HIDE DEF r
<1>6. TableOK(ts) /\ Kept(r, ts)
  BY <1>2, <1>3, <1>4, UpdateTable
<1> HIDE DEF ts
<1>7. TableOK(tasks') /\ Kept(ts, tasks')
  BY <1>1, <1>6, ReconcileTable
<1> QED
  BY <1>4, <1>5, <1>6, <1>7, KeptTwice DEF Sound

LEMMA WaitSound ==
  ASSUME TableOK(tasks), NEW w \in Crew, NEW t \in Tasks, NEW token, NEW request \in Requests,
         Runtime!WaitForHuman(w, t, token, request, 0)
  PROVE  Sound
<1> DEFINE r == Runtime!Reconcile(tasks, 0)
<1>1. /\ Runtime!HoldsLease(r[t], w, token)
      /\ tasks' = [r EXCEPT ![t] = Runtime!Ask(r[t], request)]
      /\ retired' = retired \cup Runtime!EndedByExpiry(0) \cup {Runtime!Handle(t, r[t], "WAITED")}
  BY DEF Runtime!WaitForHuman
<1>2. RecordOK(t, r[t]) /\ r[t].status \notin Settled
  BY <1>1, HolderRecord
<1>3. RecordOK(t, Runtime!Ask(r[t], request))
  BY <1>2, AskRecord
<1>4. TableOK(tasks') /\ Kept(tasks, tasks')
  BY <1>1, <1>2, <1>3, UpdateSound
<1>5. \A h \in retired' : h \in retired \/ h.how # "SUCCEEDED"
  BY <1>1, ExpiriesEnd DEF Runtime!Handle
<1> QED
  BY <1>4, <1>5 DEF Sound

(* The completion of a task, by the run or by a rival.                     *)
LEMMA CompleteTable ==
  ASSUME TableOK(tasks), NEW w \in Crew, NEW t \in Tasks, NEW token, NEW key \in AttemptNumbers,
         Runtime!Complete(w, t, token, key, 0)
  PROVE  /\ TableOK(tasks')
         /\ Kept(tasks, tasks')
         /\ tasks'[t].status = "SUCCEEDED" /\ tasks'[t].effect_key = key
         /\ \A h \in retired' : \/ h \in retired
                                \/ h.how # "SUCCEEDED"
                                \/ h.task = t /\ h.owner = w
<1> DEFINE r == Runtime!Reconcile(tasks, 0)
<1>1. /\ Runtime!HoldsLease(r[t], w, token)
      /\ tasks' = [r EXCEPT ![t] = Runtime!Finish(r[t], key)]
      /\ retired' = retired \cup Runtime!EndedByExpiry(0) \cup {Runtime!Handle(t, r[t], "SUCCEEDED")}
  BY DEF Runtime!Complete
<1>2. RecordOK(t, r[t]) /\ r[t].status \notin Settled /\ r[t].lease.owner = w
  BY <1>1, HolderRecord
<1>3. /\ RecordOK(t, Runtime!Finish(r[t], key))
      /\ Runtime!Finish(r[t], key).status = "SUCCEEDED" /\ Runtime!Finish(r[t], key).effect_key = key
  BY <1>2, FinishRecord
<1>4. TableOK(tasks') /\ Kept(tasks, tasks') /\ tasks'[t] = Runtime!Finish(r[t], key)
  BY <1>1, <1>2, <1>3, UpdateSound
<1>5. \A h \in retired' : h \in retired \/ h.how # "SUCCEEDED" \/ (h.task = t /\ h.owner = w)
  BY <1>1, <1>2, ExpiriesEnd DEF Runtime!Handle
<1> QED
  BY <1>3, <1>4, <1>5

LEMMA HumanSound ==
  ASSUME TableOK(tasks), Runtime!HumanCall(0)
  PROVE  Sound
<1> DEFINE r == Runtime!Reconcile(tasks, 0)
<1>1. retired' = retired \cup Runtime!EndedByExpiry(0)
  BY DEF Runtime!HumanCall, Runtime!ResolveHuman
<1>2. CASE tasks' = r
  BY <1>1, <1>2, ReconcileSound
<1>3. ASSUME NEW t \in Tasks, NEW request \in Requests, NEW response \in Responses,
             Runtime!Awaits(r[t], request), tasks' = [r EXCEPT ![t] = Runtime!Answer(r[t], request, response)]
      PROVE  Sound
  <2>1. RecordOK(t, r[t]) /\ r[t].status = "WAITING_HUMAN"
    BY <1>3, ReconcileTable DEF TableOK, Runtime!Awaits
  <2>2. RecordOK(t, Runtime!Answer(r[t], request, response))
    BY <2>1, AnswerRecord
  <2>3. TableOK(tasks') /\ Kept(tasks, tasks')
    BY <1>3, <2>1, <2>2, UpdateSound DEF Settled
  <2> QED
    BY <1>1, <2>3, ExpiriesEnd DEF Sound
<1> QED
  BY <1>2, <1>3 DEF Runtime!HumanCall, Runtime!ResolveHuman

LEMMA TickSound ==
  ASSUME TableOK(tasks), Runtime!Tick
  PROVE  Sound
<1>1. ASSUME NEW t \in Tasks
      PROVE  /\ RecordOK(t, tasks'[t])
             /\ tasks[t].status \in Settled => tasks'[t] = tasks[t]
  <2>1. RecordOK(t, tasks[t])
    BY DEF TableOK
  <2>2. CASE tasks'[t] = tasks[t]
    BY <2>1, <2>2
  <2>3. CASE tasks[t].status = "RUNNING" /\ tasks'[t] = Runtime!WithLeft(tasks[t], tasks[t].lease.left - 1)
    <3> DEFINE n == tasks[t].lease.left - 1
    <3>1. n \in Int
      BY <2>1, <2>3 DEF RecordOK, Runtime!Leases
    <3> HIDE DEF n
    <3>2. RecordOK(t, Runtime!WithLeft(tasks[t], n))
      BY <2>1, <2>3, <3>1, LeftRecord
    <3> QED
      BY <2>3, <3>2 DEF n, Settled
  <2> QED
    BY <2>2, <2>3 DEF Runtime!Tick
<1>2. tasks' \in [Tasks -> Runtime!TaskRecords]
  <2>1. \A t \in Tasks : tasks'[t] \in Runtime!TaskRecords
    BY <1>1 DEF RecordOK
  <2>2. tasks' = [t \in Tasks |-> tasks'[t]]
    BY DEF Runtime!Tick
  <2> QED
    BY <2>1, <2>2
<1>3. retired' = retired
  BY DEF Runtime!Tick
<1> QED
  BY <1>1, <1>2, <1>3 DEF Sound, TableOK, Kept

LEMMA OthersSound ==
  ASSUME TableOK(tasks), Others
  PROVE  Sound
<1>1. ASSUME NEW w \in Rivals, Runtime!WorkerCall(w, 0)
      PROVE  Sound
  <2>1. w \in Crew /\ w # Self
    BY SupervisorAssumption DEF Crew
  <2>2. ASSUME NEW t \in Tasks, NEW key \in AttemptNumbers, Runtime!CompleteAgain(w, t, key, 0)
        PROVE  Sound
    BY <2>2, ReconcileSound DEF Runtime!CompleteAgain
  <2>3. ASSUME NEW t \in Tasks, NEW token, NEW key \in AttemptNumbers, Runtime!Complete(w, t, token, key, 0)
        PROVE  Sound
    BY <2>1, <2>3, CompleteTable DEF Sound
  <2> QED
    BY <1>1, <2>1, <2>2, <2>3, ClaimSound, HeartbeatSound, FailSound, WaitSound DEF Runtime!WorkerCall
<1> QED
  BY <1>1, HumanSound, TickSound DEF Others

-----------------------------------------------------------------------------
(* The run.                                                                *)

Histories == [Tasks -> [AttemptNumbers -> 0..2]]

LEMMA QuietSound ==
  ASSUME TableOK(tasks), tasks' = tasks, retired' = retired
  PROVE  Sound
  BY DEF Sound, Kept

LEMMA CountedType ==
  ASSUME IInv
  PROVE  /\ Counted \in Nat /\ Counted <= MaxTasks /\ MaxTasks \in Nat
         /\ Cardinality(Done) \in Nat
         /\ journal # None => journal \in Journals /\ Counted = journal.processed
  BY SupervisorAssumption, FS_CardinalityType DEF IInv, TypesOK, CountOK, Counted, Journals

(* Tasks the run completed keep their results, whatever the runtime does.  *)
LEMMA OwnKept ==
  ASSUME OwnOK, Sound,
         \A t \in Tasks, a \in AttemptNumbers : results[t][a] = "SUCCEEDED" => results'[t][a] = "SUCCEEDED"
  PROVE  OwnOK'
<1> SUFFICES ASSUME NEW h \in retired', h.task \in Tasks, h.owner = Self, h.how = "SUCCEEDED"
             PROVE  OwnSuccess(tasks', results', h.task)
  BY DEF OwnOK, OwnSuccess
<1>1. OwnSuccess(tasks, results, h.task)
  BY DEF Sound, OwnOK
<1>2. tasks'[h.task] = tasks[h.task]
  BY <1>1 DEF Sound, Kept, OwnSuccess, Settled
<1> QED
  BY <1>1, <1>2 DEF OwnSuccess

(* A verdict on the tasks that was true stays true.                        *)
LEMMA VerdictKept ==
  ASSUME Sound, NEW status, TrueOf(tasks, status)
  PROVE  TrueOf(tasks', status)
  BY DEF Sound, Kept, Settled, TrueOf

LEMMA OutcomeTrue == Outcome \in FinalStatuses /\ TrueOf(tasks, Outcome)
<1>1. CASE \E t \in Tasks : tasks[t].status = "WAITING_HUMAN"
  BY <1>1 DEF Outcome, FinalStatuses, TrueOf
<1>2. CASE \A t \in Tasks : tasks[t].status # "WAITING_HUMAN"
  BY <1>2 DEF Outcome, FinalStatuses, TrueOf
<1> QED
  BY <1>1, <1>2

(* A step that leaves the results alone.                                   *)
LEMMA Carry ==
  ASSUME IInv, Sound, results' = results,
         journal' \in Journals \cup {None}, pc' \in Points, resume' \in BOOLEAN, shutdown' \in BOOLEAN,
         work' \in Works, consumed' \in Histories, HandsOK', OutcomeIsTrue',
         Counted' >= Counted, Counted' \in Nat,
         pc' = "work" => pc = "work" \/ Counted' > Counted,
         pc' \in {"peek", "claim", "record"} => Counted' < MaxTasks
  PROVE  IInv'
<1>1. TypesOK'
  BY DEF IInv, TypesOK, Sound, Histories
<1>2. OwnOK'
  BY OwnKept DEF IInv
<1>3. Done' = Done
  BY DEF Done
<1>4. IsFiniteSet(Done) /\ Cardinality(Done) <= Counted /\ (pc = "work" => Cardinality(Done) < Counted)
  BY DEF IInv, CountOK
<1>5. Cardinality(Done) \in Nat /\ Counted \in Nat
  BY CountedType
<1>6. CountOK'
  BY <1>3, <1>4, <1>5 DEF CountOK
<1> QED
  BY <1>1, <1>2, <1>6 DEF IInv

(* A step that moves on and leaves the journal alone.                      *)
LEMMA MoveOK ==
  ASSUME IInv, Sound, journal' = journal, results' = results, resume' = resume, shutdown' \in BOOLEAN,
         pc' \in Points, work' \in Works, consumed' \in Histories, HandsOK',
         pc' = "work" => pc = "work",
         pc' \in {"peek", "claim", "record"} => Counted < MaxTasks
  PROVE  IInv'
<1>1. OutcomeIsTrue'
  <2>1. journal # None => TrueOf(tasks, journal.status)
    BY DEF IInv, OutcomeIsTrue, TrueOf
  <2>2. journal # None => TrueOf(tasks', journal.status)
    BY <2>1, VerdictKept
  <2> QED
    BY <2>2 DEF OutcomeIsTrue, TrueOf
<1>2. Counted' = Counted /\ Counted \in Nat
  BY CountedType DEF Counted
<1>3. journal' \in Journals \cup {None} /\ resume' \in BOOLEAN
  BY DEF IInv, TypesOK
<1> QED
  BY <1>1, <1>2, <1>3, Carry

(* A journal whose status is true of the tasks and whose count has grown   *)
(* or stayed.                                                              *)
LEMMA JournalOK ==
  ASSUME IInv, Sound, journal' \in Journals, TrueOf(tasks', journal'.status), results' = results,
         pc' \in Points, resume' \in BOOLEAN, shutdown' \in BOOLEAN, work' \in Works, consumed' \in Histories,
         HandsOK',
         journal'.processed >= Counted,
         pc' = "work" => journal'.processed > Counted,
         pc' \in {"peek", "claim", "record"} => journal'.processed < MaxTasks
  PROVE  IInv'
<1>1. journal' # None
  BY SupervisorAssumption
<1>2. Counted' = journal'.processed
  BY <1>1 DEF Counted
<1>3. Counted' \in Nat
  BY <1>2, SupervisorAssumption DEF Journals
<1>4. OutcomeIsTrue'
  BY DEF OutcomeIsTrue, TrueOf
<1> QED
  BY <1>2, <1>3, <1>4, Carry

(* The process ends and the journal says why.                              *)
LEMMA EndOK ==
  ASSUME IInv, journal # None, NEW status \in FinalStatuses \cup {"SHUTDOWN"}, End(status), Sound,
         TrueOf(tasks', status), results' = results, resume' = resume, shutdown' = shutdown,
         work' \in Works, consumed' = consumed
  PROVE  IInv'
<1>1. journal \in Journals /\ Counted = journal.processed
  BY CountedType
<1>2. /\ journal' = [journal EXCEPT !.status = status]
      /\ pc' = "ended"
  BY DEF End, Goto
<1>3. journal' \in Journals /\ journal'.status = status /\ journal'.processed = journal.processed
  BY <1>1, <1>2 DEF Journals
<1>4. HandsOK'
  BY <1>2 DEF HandsOK, Stopped
<1>5. journal'.processed >= Counted
  BY <1>1, <1>3, CountedType
<1>6. pc' \in Points /\ resume' \in BOOLEAN /\ shutdown' \in BOOLEAN /\ consumed' \in Histories
  BY <1>2 DEF IInv, TypesOK, Points, Stopped, Histories
<1> QED
  BY <1>1, <1>2, <1>3, <1>4, <1>5, <1>6, JournalOK

LEMMA ConsumeType ==
  ASSUME IInv, Consume, work.task \in Tasks, work.attempt \in AttemptNumbers
  PROVE  consumed' \in Histories
<1>1. consumed \in [Tasks -> [AttemptNumbers -> 0..2]]
  BY DEF IInv, TypesOK
<1>2. consumed[work.task][work.attempt] \in 0..2
  BY <1>1
<1> DEFINE n == IF consumed[work.task][work.attempt] < 2 THEN consumed[work.task][work.attempt] + 1
                ELSE consumed[work.task][work.attempt]
<1>3. n \in 0..2
  BY <1>2
<1>4. consumed' = [consumed EXCEPT ![work.task] = [consumed[work.task] EXCEPT ![work.attempt] = n]]
  BY <1>1 DEF Consume
<1> HIDE DEF n
<1> QED
  BY <1>1, <1>3, <1>4 DEF Histories

-----------------------------------------------------------------------------
(* One lemma per action.                                                   *)

LEMMA StartOK ==
  ASSUME IInv, NEW asked \in BOOLEAN, Start(asked)
  PROVE  IInv'
<1>1. Sound /\ results' = results /\ consumed' = consumed /\ consumed \in Histories
  BY QuietSound DEF Start, IInv, TypesOK, Histories
<1>2. CASE journal # None /\ journal.status \in FinalStatuses
  <2>1. pc' = "returned" /\ journal' = journal /\ resume' = resume /\ shutdown' = shutdown /\ work' = work
    BY <1>2 DEF Start, Goto
  <2>2. HandsOK' /\ pc' \in Points
    BY <2>1 DEF HandsOK, Stopped, Points
  <2>3. work' \in Works /\ shutdown' \in BOOLEAN
    BY <2>1 DEF IInv, TypesOK
  <2> QED
    BY <1>1, <2>1, <2>2, <2>3, MoveOK
<1>3. CASE ~(journal # None /\ journal.status \in FinalStatuses)
  <2>1. /\ journal' = IF journal = None THEN NewJournal ELSE Reopened(journal)
        /\ resume' = asked /\ shutdown' = FALSE /\ work' = NoWork /\ pc' = "top"
    BY <1>3 DEF Start, Goto
  <2>2. journal' \in Journals /\ journal'.status = "RUNNING" /\ journal'.processed >= Counted
    <3>1. CASE journal = None
      BY <2>1, <3>1, SupervisorAssumption DEF NewJournal, Journals, Counted
    <3>2. CASE journal # None
      BY <2>1, <3>2, CountedType DEF Reopened, Journals
    <3> QED
      BY <3>1, <3>2
  <2>3. HandsOK' /\ pc' \in Points
    BY <2>1, <2>2, SupervisorAssumption DEF HandsOK, Stopped, Points
  <2>4. work' \in Works
    BY <2>1 DEF NoWork, Works
  <2>5. TrueOf(tasks', journal'.status)
    BY <2>2 DEF TrueOf
  <2> QED
    BY <1>1, <2>1, <2>2, <2>3, <2>4, <2>5, JournalOK
<1> QED
  BY <1>2, <1>3

LEMMA ResumeSound ==
  ASSUME TableOK(tasks), Runtime!Resume(0)
  PROVE  Sound
  BY ReconcileSound DEF Runtime!Resume

LEMMA TopOK ==
  ASSUME IInv, Top
  PROVE  IInv'
<1>1. /\ results' = results /\ resume' = resume /\ shutdown' = shutdown /\ work' = work /\ consumed' = consumed
      /\ pc = "top" /\ TableOK(tasks)
      /\ work \in Works /\ shutdown \in BOOLEAN /\ consumed \in Histories
  BY DEF Top, IInv, TypesOK, Histories
<1>2. journal # None
  BY <1>1 DEF IInv, HandsOK, Stopped
<1>3. ASSUME NEW status \in {"SHUTDOWN", "BLOCKED"}, End(status), UNCHANGED runtime
      PROVE  IInv'
  <2>1. Sound
    BY <1>1, <1>3, QuietSound DEF runtime
  <2>2. TrueOf(tasks', status) /\ status \in FinalStatuses \cup {"SHUTDOWN"}
    BY <1>3 DEF TrueOf, FinalStatuses
  <2> QED
    BY <1>1, <1>2, <1>3, <2>1, <2>2, EndOK
<1>4. CASE WithinBounds /\ Runtime!Resume(0) /\ Goto("peek") /\ UNCHANGED journal
  <2>1. Sound
    BY <1>1, <1>4, ResumeSound
  <2>2. HandsOK' /\ pc' = "peek" /\ pc' \in Points
    BY <1>2, <1>4 DEF Goto, HandsOK, Stopped, Points
  <2>3. Counted < MaxTasks
    BY <1>2, <1>4 DEF WithinBounds, Counted
  <2> QED
    BY <1>1, <1>4, <2>1, <2>2, <2>3, MoveOK
<1> QED
  BY <1>3, <1>4 DEF Top

LEMMA PeekOK ==
  ASSUME IInv, Peek
  PROVE  IInv'
<1>1. /\ journal' = journal /\ results' = results /\ resume' = resume /\ shutdown' = shutdown /\ work' = work
      /\ consumed' = consumed /\ pc = "peek" /\ Sound
      /\ work \in Works /\ shutdown \in BOOLEAN /\ consumed \in Histories
  BY QuietSound DEF Peek, IInv, TypesOK, Histories
<1>2. journal # None /\ Counted < MaxTasks
  BY <1>1 DEF IInv, HandsOK, CountOK, Stopped
<1>3. pc' \in {"claim", "conclude"}
  BY DEF Peek, Goto
<1>4. HandsOK' /\ pc' \in Points
  BY <1>1, <1>2, <1>3 DEF HandsOK, Stopped, Points
<1> QED
  BY <1>1, <1>2, <1>3, <1>4, MoveOK

(* The outcome is read, and is still true when it is written.              *)
LEMMA ConcludeOK ==
  ASSUME IInv, Conclude
  PROVE  IInv'
<1>1. /\ journal' = journal /\ results' = results /\ resume' = resume /\ shutdown' = shutdown /\ work' = work
      /\ consumed' = consumed /\ pc = "conclude" /\ pc' = Outcome /\ Sound
      /\ work \in Works /\ shutdown \in BOOLEAN /\ consumed \in Histories
  BY QuietSound DEF Conclude, Goto, IInv, TypesOK, Histories
<1>2. journal # None
  BY <1>1 DEF IInv, HandsOK, Stopped
<1>3. pc' \in {"SUCCEEDED", "FAILED", "BLOCKED", "PAUSED", "NO_TASK_READY"}
  BY <1>1, OutcomeTrue DEF FinalStatuses
<1>4. TrueOf(tasks', pc')
  BY <1>1, OutcomeTrue, VerdictKept
<1>5. HandsOK' /\ pc' \in Points
  BY <1>1, <1>2, <1>3, <1>4 DEF HandsOK, Stopped, Points, FinalStatuses
<1> QED
  BY <1>1, <1>3, <1>5, MoveOK

LEMMA ReportOK ==
  ASSUME IInv, Report
  PROVE  IInv'
<1>1. /\ results' = results /\ resume' = resume /\ shutdown' = shutdown /\ work' = work /\ consumed' = consumed
      /\ pc \in FinalStatuses /\ End(pc) /\ Sound
      /\ work \in Works
  BY QuietSound DEF Report, IInv, TypesOK
<1>2. journal # None
  BY <1>1 DEF IInv, HandsOK, Stopped, FinalStatuses
<1>3. TrueOf(tasks, pc)
  BY DEF IInv, HandsOK, TrueOf
<1> QED
  BY <1>1, <1>2, <1>3, VerdictKept, EndOK

(* The process has a task: it records it, or the feedback is unusable.     *)
LEMMA BeginOK ==
  ASSUME IInv, pc = "claim", Sound, NEW task, Begin(task), work' \in Works, work'.task \in Tasks,
         results' = results, resume' = resume, shutdown' = shutdown, consumed' = consumed
  PROVE  IInv'
<1>1. journal # None /\ Counted < MaxTasks /\ shutdown \in BOOLEAN /\ consumed \in Histories
  BY DEF IInv, HandsOK, CountOK, Stopped, TypesOK, Histories
<1>2. CASE Goto("record") /\ UNCHANGED journal
  <2>1. HandsOK' /\ pc' = "record" /\ pc' \in Points
    BY <1>1, <1>2 DEF Goto, HandsOK, Stopped, Points
  <2> QED
    BY <1>1, <1>2, <2>1, MoveOK
<1>3. CASE End("BLOCKED")
  <2>1. TrueOf(tasks', "BLOCKED") /\ "BLOCKED" \in FinalStatuses
    BY DEF TrueOf, FinalStatuses
  <2> QED
    BY <1>1, <1>3, <2>1, EndOK
<1> QED
  BY <1>2, <1>3 DEF Begin

LEMMA HandsFull ==
  ASSUME NEW ts, TableOK(ts), NEW t \in Tasks, ts[t].status = "RUNNING"
  PROVE  [task |-> t, token |-> ts[t].lease.token, attempt |-> None] \in Works
<1>1. ts[t].lease.token \in Runtime!Tokens
  BY DEF TableOK, RecordOK, Runtime!Leases
<1> QED
  BY <1>1 DEF Works

LEMMA ClaimOK ==
  ASSUME IInv, Claim
  PROVE  IInv'
<1>1. /\ results' = results /\ resume' = resume /\ shutdown' = shutdown /\ consumed' = consumed
      /\ pc = "claim" /\ TableOK(tasks) /\ work \in Works
  BY DEF Claim, IInv, TypesOK
<1>2. journal # None
  BY <1>1 DEF IInv, HandsOK, Stopped
<1>3. ASSUME NEW t \in Tasks, Held(t), work' = [task |-> t, token |-> tasks[t].lease.token, attempt |-> None],
             Begin(tasks[t]), UNCHANGED runtime
      PROVE  IInv'
  <2>1. Sound
    BY <1>1, <1>3, QuietSound DEF runtime
  <2>2. work' \in Works /\ work'.task \in Tasks
    BY <1>1, <1>3, HandsFull DEF Held
  <2> QED
    BY <1>1, <1>3, <2>1, <2>2, BeginOK
<1>4. ASSUME Sound, Goto("conclude"), UNCHANGED <<journal, work>>
      PROVE  IInv'
  <2>1. HandsOK' /\ pc' = "conclude" /\ pc' \in Points
    BY <1>2, <1>4 DEF Goto, HandsOK, Stopped, Points
  <2>2. shutdown \in BOOLEAN /\ consumed \in Histories
    BY DEF IInv, TypesOK, Histories
  <2> QED
    BY <1>1, <1>4, <2>1, <2>2, MoveOK
<1>5. ASSUME Runtime!Claim(Self, 0)
      PROVE  Sound
  BY <1>1, <1>5, ClaimSound DEF Crew
<1>6. CASE UNCHANGED <<tasks, current_task, retired, charged, journal, work>> /\ Goto("conclude")
  BY <1>1, <1>4, <1>6, QuietSound
<1>7. CASE Runtime!Claim(Self, 0) /\ Goto("conclude") /\ UNCHANGED <<journal, work>>
  BY <1>4, <1>5, <1>7
<1>8. ASSUME Runtime!Claim(Self, 0), NEW t \in Tasks, current_task' = t, tasks'[t].status = "RUNNING",
             work' = [task |-> current_task', token |-> tasks'[current_task'].lease.token, attempt |-> None],
             Begin(tasks'[current_task'])
      PROVE  IInv'
  <2>1. Sound
    BY <1>5, <1>8
  <2>2. work' \in Works /\ work'.task \in Tasks
    BY <1>8, <2>1, HandsFull DEF Sound
  <2> QED
    BY <1>1, <1>8, <2>1, <2>2, BeginOK
<1> QED
  BY <1>3, <1>6, <1>7, <1>8 DEF Claim

LEMMA RecordStepOK ==
  ASSUME IInv, Record
  PROVE  IInv'
<1> DEFINE a == AttemptId(work.task)
<1>1. /\ pc = "record" /\ pc' = "work"
      /\ work' = [work EXCEPT !.attempt = a]
      /\ journal' = [journal EXCEPT !.task = work.task, !.attempt = a, !.processed = @ + 1]
      /\ results' = results /\ resume' = resume /\ shutdown' = shutdown /\ consumed' = consumed
  BY DEF Record, Goto
<1>2. /\ TableOK(tasks) /\ work \in Works /\ work.task \in Tasks /\ journal # None /\ Counted < MaxTasks
      /\ resume \in BOOLEAN /\ shutdown \in BOOLEAN /\ consumed \in Histories
  BY <1>1 DEF IInv, TypesOK, HandsOK, CountOK, Stopped, Histories
<1>3. journal \in Journals /\ Counted = journal.processed /\ Counted \in Nat
  BY <1>2, CountedType
<1>4. Sound
  BY <1>2, QuietSound DEF Record
<1>5. a \in AttemptNumbers
  <2>1. journal.attempt # None => journal.attempt \in AttemptNumbers
    BY <1>3 DEF Journals
  <2>2. RecordOK(work.task, tasks[work.task])
    BY <1>2 DEF TableOK
  <2>3. tasks[work.task].attempts \in AttemptNumbers
    BY <1>2, <2>2, Limits DEF RecordOK, Runtime!TaskRecords
  <2> QED
    BY <2>1, <2>3 DEF AttemptId
<1> HIDE DEF a
<1> DEFINE n == journal.processed + 1
<1>6. n \in 0..MaxTasks /\ n > Counted
  BY <1>2, <1>3, CountedType
<1>7. journal' = [journal EXCEPT !.task = work.task, !.attempt = a, !.processed = n]
  BY <1>1, <1>3
<1> HIDE DEF n
<1>8. journal' \in Journals /\ journal'.processed = n /\ journal'.status = journal.status
  BY <1>2, <1>3, <1>5, <1>6, <1>7 DEF Journals
<1>9. work' \in Works /\ work'.task = work.task /\ work'.attempt = a
  BY <1>1, <1>2, <1>5 DEF Works
<1>10. HandsOK' /\ pc' \in Points
  BY <1>1, <1>2, <1>5, <1>8, <1>9, SupervisorAssumption DEF HandsOK, Stopped, Points
<1>11. TrueOf(tasks', journal'.status)
  <2>1. TrueOf(tasks, journal.status)
    BY <1>2 DEF IInv, OutcomeIsTrue, TrueOf
  <2> QED
    BY <1>4, <1>8, <2>1, VerdictKept
<1>12. journal'.processed >= Counted /\ journal'.processed > Counted
  BY <1>3, <1>6, <1>8
<1> QED
  BY <1>1, <1>2, <1>4, <1>8, <1>9, <1>10, <1>11, <1>12, JournalOK

(* A worker leaves a result where there was none.                          *)
LEMMA WrittenOK ==
  ASSUME IInv, pc = "work", NEW r \in Results, results' = [results EXCEPT ![work.task][work.attempt] = r],
         ResultOf(work.task, work.attempt) = None, pc' = "result",
         UNCHANGED <<tasks, current_task, retired, charged, journal, resume, shutdown, work, consumed>>
  PROVE  IInv'
<1>1. /\ work.task \in Tasks /\ work.attempt \in AttemptNumbers /\ journal # None /\ TypesOK
      /\ OwnOK /\ OutcomeIsTrue
  BY DEF IInv, HandsOK, Stopped
<1> DEFINE place == <<work.task, work.attempt>>
<1>2. \A t \in Tasks, a \in AttemptNumbers :
         results'[t][a] = IF t = work.task /\ a = work.attempt THEN r ELSE results[t][a]
  BY <1>1 DEF TypesOK
<1>3. results' \in [Tasks -> [AttemptNumbers -> Results \cup {None}]]
  <2> DEFINE row == [results[work.task] EXCEPT ![work.attempt] = r]
  <2>1. row \in [AttemptNumbers -> Results \cup {None}]
    BY <1>1 DEF TypesOK
  <2>2. results' = [results EXCEPT ![work.task] = row]
    BY <1>1 DEF TypesOK
  <2> HIDE DEF row
  <2> QED
    BY <1>1, <2>1, <2>2 DEF TypesOK
<1>4. TypesOK'
  BY <1>1, <1>3 DEF TypesOK, Points
<1>5. HandsOK'
  BY <1>1 DEF HandsOK
<1>6. OwnOK'
  <2>1. Sound
    BY <1>1, QuietSound DEF TypesOK
  <2>2. \A t \in Tasks, a \in AttemptNumbers : results[t][a] = "SUCCEEDED" => results'[t][a] = "SUCCEEDED"
    BY <1>2, SupervisorAssumption DEF ResultOf, Results
  <2> QED
    BY <1>1, <2>1, <2>2, OwnKept
<1>7. CountOK'
  <2>1. Done' \subseteq Done \cup {place}
    BY <1>2 DEF Done
  <2>2. IsFiniteSet(Done) /\ Cardinality(Done) < Counted
    BY DEF IInv, CountOK
  <2>3. Cardinality(Done) \in Nat /\ Counted \in Nat
    BY CountedType
  <2>4. IsFiniteSet(Done \cup {place}) /\ Cardinality(Done \cup {place}) <= Cardinality(Done) + 1
    <3> DEFINE more == Done \cup {place}
    <3>1. /\ IsFiniteSet(more)
          /\ Cardinality(more) = IF place \in Done THEN Cardinality(Done) ELSE Cardinality(Done) + 1
      BY <2>2, FS_AddElement
    <3> HIDE DEF more
    <3>2. Cardinality(more) <= Cardinality(Done) + 1
      BY <2>3, <3>1
    <3> QED
      BY <3>1, <3>2 DEF more
  <2>5. IsFiniteSet(Done') /\ Cardinality(Done') <= Cardinality(Done \cup {place})
    BY <2>1, <2>4, FS_Subset
  <2>6. Cardinality(Done') \in Nat /\ Cardinality(Done \cup {place}) \in Nat
    BY <2>4, <2>5, FS_CardinalityType
  <2>7. Cardinality(Done') <= Counted
    BY <2>2, <2>3, <2>4, <2>5, <2>6
  <2>8. Counted' = Counted
    BY DEF Counted
  <2> QED
    BY <2>5, <2>7, <2>8 DEF CountOK
<1>8. OutcomeIsTrue'
  BY <1>1 DEF OutcomeIsTrue
<1> QED
  BY <1>4, <1>5, <1>6, <1>7, <1>8 DEF IInv

LEMMA WorkOK ==
  ASSUME IInv, Work
  PROVE  IInv'
<1>1. /\ UNCHANGED <<tasks, current_task, retired, charged, resume, shutdown, work, consumed>>
      /\ pc = "work" /\ Sound
      /\ work \in Works /\ shutdown \in BOOLEAN /\ consumed \in Histories
  BY QuietSound DEF Work, IInv, TypesOK, Histories
<1>2. journal # None /\ work.task \in Tasks /\ work.attempt \in AttemptNumbers
  BY <1>1 DEF IInv, HandsOK, Stopped
<1>3. CASE Goto("result") /\ UNCHANGED <<journal, results>>
  <2>1. HandsOK' /\ pc' = "result" /\ pc' \in Points
    BY <1>1, <1>2, <1>3 DEF Goto, HandsOK, Stopped, Points
  <2> QED
    BY <1>1, <1>3, <2>1, MoveOK
<1>4. ASSUME NEW r \in Results, ResultOf(work.task, work.attempt) = None,
             results' = [results EXCEPT ![work.task][work.attempt] = r], Goto("result"), UNCHANGED journal
      PROVE  IInv'
  BY <1>1, <1>4, WrittenOK DEF Goto
<1>5. CASE End("BLOCKED") /\ UNCHANGED results
  <2>1. TrueOf(tasks', "BLOCKED") /\ "BLOCKED" \in FinalStatuses
    BY DEF TrueOf, FinalStatuses
  <2> QED
    BY <1>1, <1>2, <1>5, <2>1, EndOK
<1> QED
  BY <1>3, <1>4, <1>5 DEF Work

(* _handle_failure: the attempt is charged, or its lease is lost.          *)
LEMMA FailureOK ==
  ASSUME IInv, NEW class \in {"VALIDATION", "LEASE_EXPIRED", "PERMANENT"}, HandleFailure(class),
         pc \notin Stopped, work.task \in Tasks,
         results' = results, resume' = resume, shutdown' = shutdown, work' = work,
         IF pc' = "failed" THEN consumed' \in Histories ELSE consumed' = consumed
  PROVE  IInv'
<1>1. journal # None /\ TableOK(tasks) /\ work \in Works /\ shutdown \in BOOLEAN
  BY DEF IInv, HandsOK, TypesOK
<1>2. CASE Runtime!Fail(Self, work.task, work.token, class, 0) /\ Goto("failed") /\ UNCHANGED journal
  <2>1. class \in Runtime!FailureClasses /\ Self \in Crew
    BY SupervisorAssumption DEF Runtime!FailureClasses, Crew
  <2>2. Sound
    BY <1>1, <1>2, <2>1, FailSound
  <2>3. HandsOK' /\ pc' = "failed" /\ pc' \in Points
    BY <1>1, <1>2 DEF Goto, HandsOK, Stopped, Points
  <2> QED
    BY <1>1, <1>2, <2>2, <2>3, MoveOK
<1>3. CASE End("BLOCKED") /\ UNCHANGED runtime
  <2>1. Sound
    BY <1>1, <1>3, QuietSound DEF runtime
  <2>2. TrueOf(tasks', "BLOCKED") /\ "BLOCKED" \in FinalStatuses
    BY DEF TrueOf, FinalStatuses
  <2>3. consumed' = consumed
    BY <1>3 DEF End, Goto
  <2> QED
    BY <1>1, <1>3, <2>1, <2>2, <2>3, EndOK
<1> QED
  BY <1>2, <1>3 DEF HandleFailure

LEMMA BeatOK ==
  ASSUME IInv, Heartbeat
  PROVE  IInv'
<1>1. /\ UNCHANGED <<journal, results, pc, resume, shutdown, work, consumed>> /\ pc = "work"
      /\ Runtime!Heartbeat(Self, work.task, work.token, 0)
      /\ TableOK(tasks) /\ work \in Works /\ shutdown \in BOOLEAN /\ consumed \in Histories /\ pc \in Points
  BY DEF Heartbeat, IInv, TypesOK, Histories
<1>2. HandsOK /\ work.task \in Tasks
  BY <1>1 DEF IInv, HandsOK, Stopped
<1>3. Sound
  BY <1>1, <1>2, HeartbeatSound DEF Crew
<1>4. HandsOK'
  BY <1>1, <1>2 DEF HandsOK, ResultOf
<1> QED
  BY <1>1, <1>3, <1>4, MoveOK

LEMMA HeartbeatFailsOK ==
  ASSUME IInv, HeartbeatFails
  PROVE  IInv'
<1>1. /\ UNCHANGED <<results, resume, shutdown, work, consumed>> /\ pc = "work"
      /\ TableOK(tasks) /\ work \in Works /\ consumed \in Histories
  BY DEF HeartbeatFails, IInv, TypesOK, Histories
<1>2. journal # None /\ work.task \in Tasks
  BY <1>1 DEF IInv, HandsOK, Stopped
<1>3. CASE End("SHUTDOWN") /\ UNCHANGED runtime
  <2>1. Sound
    BY <1>1, <1>3, QuietSound DEF runtime
  <2>2. TrueOf(tasks', "SHUTDOWN")
    BY DEF TrueOf
  <2> QED
    BY <1>1, <1>2, <1>3, <2>1, <2>2, EndOK
<1>4. CASE HandleFailure("LEASE_EXPIRED")
  <2>1. pc \notin Stopped
    BY <1>1 DEF Stopped
  <2> QED
    BY <1>1, <1>2, <1>4, <2>1, FailureOK
<1> QED
  BY <1>3, <1>4 DEF HeartbeatFails

LEMMA ResultStepOK ==
  ASSUME IInv, Result
  PROVE  IInv'
<1> DEFINE result == ResultOf(work.task, work.attempt)
<1>1. /\ UNCHANGED <<results, resume, shutdown, work>> /\ pc = "result"
      /\ TableOK(tasks) /\ work \in Works /\ shutdown \in BOOLEAN /\ consumed \in Histories
  BY DEF Result, IInv, TypesOK, Histories
<1>2. journal # None /\ work.task \in Tasks /\ work.attempt \in AttemptNumbers /\ pc \notin Stopped
  BY <1>1 DEF IInv, HandsOK, Stopped
<1>3. CASE /\ Acceptable(result) /\ Goto("accept")
           /\ UNCHANGED <<tasks, current_task, retired, charged, journal, consumed>>
  <2>1. Sound
    BY <1>1, <1>3, QuietSound
  <2>2. HandsOK' /\ pc' = "accept" /\ pc' \in Points
    BY <1>1, <1>2, <1>3 DEF Goto, HandsOK, Stopped, Points, Acceptable, ResultOf
  <2> QED
    BY <1>1, <1>3, <2>1, <2>2, MoveOK
<1>4. CASE /\ result \in WorkerFailures /\ HandleFailure(result)
           /\ IF pc' = "failed" THEN Consume ELSE UNCHANGED consumed
  <2>1. IF pc' = "failed" THEN consumed' \in Histories ELSE consumed' = consumed
    BY <1>2, <1>4, ConsumeType
  <2>2. result \in {"VALIDATION", "LEASE_EXPIRED", "PERMANENT"}
    BY <1>4 DEF WorkerFailures
  <2> HIDE DEF result
  <2> QED
    BY <1>1, <1>2, <1>4, <2>1, <2>2, FailureOK
<1>5. ASSUME NEW q \in Requests, Runtime!WaitForHuman(Self, work.task, work.token, q, 0), Consume, Goto("waiting"),
             UNCHANGED journal
      PROVE  IInv'
  <2>1. Sound
    BY <1>1, <1>2, <1>5, WaitSound DEF Crew
  <2>2. HandsOK' /\ pc' = "waiting" /\ pc' \in Points
    BY <1>1, <1>2, <1>5 DEF Goto, HandsOK, Stopped, Points
  <2>3. consumed' \in Histories
    BY <1>2, <1>5, ConsumeType
  <2> QED
    BY <1>1, <1>5, <2>1, <2>2, <2>3, MoveOK
<1>6. CASE Goto("crashed") /\ UNCHANGED <<tasks, current_task, retired, charged, journal, consumed>>
  <2>1. Sound
    BY <1>1, <1>6, QuietSound
  <2>2. HandsOK' /\ pc' = "crashed" /\ pc' \in Points
    BY <1>6 DEF Goto, HandsOK, Stopped, Points
  <2> QED
    BY <1>1, <1>6, <2>1, <2>2, MoveOK
<1> QED
  BY <1>3, <1>4, <1>5, <1>6 DEF Result

(* The run completes a task: on the result it judged acceptable.           *)
LEMMA CompletedOK ==
  ASSUME IInv, pc = "accept", Runtime!Complete(Self, work.task, work.token, work.attempt, 0), Goto("completed"),
         Consume, UNCHANGED <<journal, results, resume, shutdown, work>>
  PROVE  IInv'
<1>1. /\ work.task \in Tasks /\ work.attempt \in AttemptNumbers /\ journal # None
      /\ ResultOf(work.task, work.attempt) = "SUCCEEDED"
      /\ TableOK(tasks) /\ TypesOK /\ OwnOK /\ OutcomeIsTrue /\ CountOK
  BY DEF IInv, TypesOK, HandsOK, Stopped
<1>2. /\ TableOK(tasks')
      /\ Kept(tasks, tasks')
      /\ tasks'[work.task].status = "SUCCEEDED" /\ tasks'[work.task].effect_key = work.attempt
      /\ \A h \in retired' : \/ h \in retired
                             \/ h.how # "SUCCEEDED"
                             \/ h.task = work.task /\ h.owner = Self
  BY <1>1, CompleteTable DEF Crew
<1>3. TypesOK'
  BY <1>1, <1>2, ConsumeType DEF TypesOK, Points, Goto, Histories
<1>4. HandsOK'
  BY <1>1 DEF HandsOK, Goto
<1>5. OwnOK'
  <2> SUFFICES ASSUME NEW h \in retired', h.task \in Tasks, h.owner = Self, h.how = "SUCCEEDED"
               PROVE  OwnSuccess(tasks', results, h.task)
    BY DEF OwnOK, OwnSuccess
  <2>1. CASE h \in retired
    <3>1. OwnSuccess(tasks, results, h.task)
      BY <1>1, <2>1 DEF OwnOK
    <3> QED
      BY <1>2, <3>1 DEF Kept, OwnSuccess, Settled
  <2>2. CASE h.task = work.task
    BY <1>1, <1>2, <2>2 DEF OwnSuccess, ResultOf
  <2> QED
    BY <1>2, <2>1, <2>2
<1>6. OutcomeIsTrue'
  BY <1>1, <1>2 DEF OutcomeIsTrue, Kept, Settled
<1>7. CountOK'
  <2>1. Done' = Done /\ Counted' = Counted
    BY DEF Done, Counted
  <2> QED
    BY <1>1, <2>1 DEF CountOK, Goto
<1> QED
  BY <1>3, <1>4, <1>5, <1>6, <1>7 DEF IInv

LEMMA AcceptOK ==
  ASSUME IInv, Accept
  PROVE  IInv'
<1>1. UNCHANGED <<results, resume, shutdown, work>> /\ pc = "accept" /\ consumed \in Histories
  BY DEF Accept, IInv, TypesOK, Histories
<1>2. work.task \in Tasks /\ work.attempt \in AttemptNumbers /\ pc \notin Stopped
  BY <1>1 DEF IInv, HandsOK, Stopped
<1>3. CASE HandleFailure("VALIDATION") /\ (IF pc' = "failed" THEN Consume ELSE UNCHANGED consumed)
  <2>1. IF pc' = "failed" THEN consumed' \in Histories ELSE consumed' = consumed
    BY <1>2, <1>3, ConsumeType
  <2> QED
    BY <1>1, <1>2, <1>3, <2>1, FailureOK
<1> QED
  BY <1>1, <1>3, CompletedOK DEF Accept

LEMMA NoteOK ==
  ASSUME IInv, Note
  PROVE  IInv'
<1>1. /\ UNCHANGED <<tasks, current_task, retired, charged, results, resume, shutdown, work, consumed>>
      /\ pc \in {"completed", "failed", "waiting"}
      /\ work \in Works /\ resume \in BOOLEAN /\ shutdown \in BOOLEAN /\ consumed \in Histories
  BY DEF Note, IInv, TypesOK, Histories
<1>2. journal # None /\ work.task \in Tasks /\ journal \in Journals /\ Counted = journal.processed
  BY <1>1, CountedType DEF IInv, HandsOK, Stopped
<1>3. Sound
  BY <1>1, QuietSound DEF IInv, TypesOK
<1>4. ASSUME NEW status \in {"RUNNING", "FAILED"}, journal' = [journal EXCEPT !.status = status], Goto("top"),
             TrueOf(tasks, status)
      PROVE  IInv'
  <2>1. journal' \in Journals /\ journal'.status = status /\ journal'.processed = journal.processed
    BY <1>2, <1>4 DEF Journals, FinalStatuses
  <2>2. HandsOK' /\ pc' = "top" /\ pc' \in Points
    BY <1>4, <2>1, SupervisorAssumption DEF Goto, HandsOK, Stopped, Points
  <2>3. TrueOf(tasks', journal'.status)
    BY <1>3, <1>4, <2>1, VerdictKept
  <2>4. journal'.processed >= Counted
    BY <1>2, <2>1, CountedType
  <2> QED
    BY <1>1, <1>3, <2>1, <2>2, <2>3, <2>4, JournalOK
<1>5. CASE pc = "completed"
  BY <1>1, <1>4, <1>5 DEF Note, TrueOf
<1>6. CASE pc = "failed"
  <2>1. CASE tasks[work.task].status = "FAILED"
    <3>1. TrueOf(tasks, "FAILED")
      BY <1>2, <2>1 DEF TrueOf
    <3>2. journal' = [journal EXCEPT !.status = "FAILED"] /\ Goto("top")
      BY <1>6, <2>1 DEF Note
    <3> QED
      BY <1>4, <3>1, <3>2
  <2>2. CASE tasks[work.task].status # "FAILED"
    <3>1. journal' = journal /\ pc' = "top"
      BY <1>6, <2>2 DEF Note, Goto
    <3>2. HandsOK' /\ pc' \in Points
      BY <1>2, <3>1 DEF HandsOK, Stopped, Points
    <3> QED
      BY <1>1, <1>3, <3>1, <3>2, MoveOK
  <2> QED
    BY <2>1, <2>2
<1>7. CASE pc = "waiting"
  <2>1. TrueOf(tasks', "PAUSED") /\ "PAUSED" \in FinalStatuses
    BY DEF TrueOf, FinalStatuses
  <2> QED
    BY <1>1, <1>2, <1>3, <1>7, <2>1, EndOK DEF Note
<1> QED
  BY <1>1, <1>5, <1>6, <1>7

LEMMA EnvironmentOK ==
  ASSUME IInv, Crash \/ Signal \/ Others \/ UNCHANGED vars
  PROVE  IInv'
<1>1. /\ TableOK(tasks) /\ HandsOK /\ journal \in Journals \cup {None} /\ pc \in Points /\ work \in Works
      /\ shutdown \in BOOLEAN /\ consumed \in Histories
      /\ pc \in {"peek", "claim", "record"} => Counted < MaxTasks
  BY DEF IInv, TypesOK, CountOK, Histories
<1>2. CASE Crash
  <2>1. Sound /\ pc' = "crashed" /\ UNCHANGED <<journal, results, resume, shutdown, work, consumed>>
    BY <1>1, <1>2, QuietSound DEF Crash, Goto
  <2>2. HandsOK' /\ pc' \in Points
    BY <2>1 DEF HandsOK, Stopped, Points
  <2> QED
    BY <1>1, <2>1, <2>2, MoveOK
<1>3. CASE Signal
  <2>1. Sound /\ shutdown' \in BOOLEAN /\ UNCHANGED <<journal, results, pc, resume, work, consumed>>
    BY <1>1, <1>3, QuietSound DEF Signal
  <2>2. TrueOf(tasks, pc) => TrueOf(tasks', pc)
    BY <2>1, VerdictKept
  <2>3. HandsOK'
    BY <1>1, <2>1, <2>2 DEF HandsOK, ResultOf
  <2> QED
    BY <1>1, <2>1, <2>3, MoveOK
<1>4. CASE Others
  <2>1. Sound /\ UNCHANGED <<journal, results, pc, resume, shutdown, work, consumed>>
    BY <1>1, <1>4, OthersSound DEF Others
  <2>2. TrueOf(tasks, pc) => TrueOf(tasks', pc)
    BY <2>1, VerdictKept
  <2>3. HandsOK'
    BY <1>1, <2>1, <2>2 DEF HandsOK, ResultOf
  <2> QED
    BY <1>1, <2>1, <2>3, MoveOK
<1>5. CASE UNCHANGED vars
  <2>1. Sound /\ UNCHANGED <<journal, results, pc, resume, shutdown, work, consumed>>
    BY <1>1, <1>5, QuietSound DEF vars
  <2>2. TrueOf(tasks, pc) => TrueOf(tasks', pc)
    BY <2>1, VerdictKept
  <2>3. HandsOK'
    BY <1>1, <2>1, <2>2 DEF HandsOK, ResultOf
  <2> QED
    BY <1>1, <2>1, <2>3, MoveOK
<1> QED
  BY <1>2, <1>3, <1>4, <1>5

LEMMA InitOK ==
  ASSUME Init
  PROVE  IInv
<1>1. TypesOK
  <2>1. \A t \in Tasks : RecordOK(t, Runtime!NewTask)
    BY Limits DEF RecordOK, Runtime!NewTask, Runtime!TaskRecords, Runtime!Statuses, Runtime!Failures
  <2>2. TableOK(tasks)
    BY <2>1 DEF Init, Runtime!Init, TableOK, RecordOK
  <2>3. NoWork \in Works
    BY DEF NoWork, Works
  <2>4. /\ results \in [Tasks -> [AttemptNumbers -> Results \cup {None}]]
        /\ consumed \in [Tasks -> [AttemptNumbers -> 0..2]]
    BY DEF Init
  <2>5. /\ journal \in Journals \cup {None} /\ pc \in Points /\ work \in Works
        /\ resume \in BOOLEAN /\ shutdown \in BOOLEAN
    BY <2>3 DEF Init, Points, Stopped
  <2> QED
    BY <2>2, <2>4, <2>5 DEF TypesOK
<1>2. HandsOK /\ OutcomeIsTrue /\ OwnOK
  BY DEF Init, Runtime!Init, HandsOK, Stopped, OutcomeIsTrue, OwnOK
<1>3. CountOK
  <2>1. Done = {} /\ Counted = 0
    BY DEF Init, Done, Counted
  <2> QED
    BY <2>1, FS_EmptySet DEF Init, CountOK
<1> QED
  BY <1>1, <1>2, <1>3 DEF IInv

-----------------------------------------------------------------------------
(* Results that wait for their effect: the turn of a task is the number of *)
(* the attempt it is on, or of the next one it will be given.              *)

Active == {"PENDING", "RUNNING", "WAITING_HUMAN"}

Turn(rec) == IF rec.status = "RUNNING" THEN rec.attempts ELSE rec.attempts + 1

Begun(rec) == rec.status = "RUNNING" => rec.attempts > 0

(* A change of a record that leaves its turn alone, or settles it.         *)
InTurn(old, new) == new.status \in Active => old.status \in Active /\ Turn(new) = Turn(old)

AllBegun(ts) == \A t \in Tasks : Begun(ts[t])

(* No lease of a rival on the task has ended.                              *)
Ours(t) == \A h \in retired : h.task = t => h.owner = Self

Unspent(t, a) == results[t][a] # None /\ consumed[t][a] = 0

Waiting ==
  \A t \in Tasks, a \in AttemptNumbers :
    Unspent(t, a) /\ Ours(t) /\ tasks[t].status \in Active =>
      a = Turn(tasks[t]) /\ (journal # None /\ journal.task = t => journal.attempt = a)

InHand == pc \in {"work", "result", "accept"} => journal.task = work.task /\ journal.attempt = work.attempt

OnTurn ==
  pc = "work" /\ ResultOf(work.task, work.attempt) = None /\ Ours(work.task) /\ tasks[work.task].status \in Active =>
    work.attempt = Turn(tasks[work.task])

TurnInv == AllBegun(tasks) /\ Waiting /\ InHand /\ OnTurn

(* Time: the lease does not run out between the claim and the read of the  *)
(* attempts, and a resumed run that takes the attempt its journal names    *)
(* takes it for the task it was of.                                        *)
ReadsInTime == pc = "record" => StillHeld
AdoptsOwn == pc = "record" /\ AttemptId(work.task) # tasks[work.task].attempts => journal.task = work.task

-----------------------------------------------------------------------------
(* What the calls of the runtime do to the turns.                          *)

LEMMA Spent ==
  ASSUME NEW t \in Tasks, NEW rec, RecordOK(t, rec), rec.status = "RUNNING", Begun(rec)
  PROVE  Runtime!Min0(rec.attempts - 1) + 1 = rec.attempts
<1>1. rec.attempts \in Nat /\ rec.attempts > 0
  BY DEF RecordOK, Runtime!TaskRecords, Begun
<1> QED
  BY <1>1 DEF Runtime!Min0

LEMMA ExpireTurn ==
  ASSUME NEW t \in Tasks, NEW rec, RecordOK(t, rec), rec.status = "RUNNING", Begun(rec)
  PROVE  Begun(Runtime!ExpireTask(t, rec)) /\ InTurn(rec, Runtime!ExpireTask(t, rec))
<1> DEFINE back == Runtime!Min0(rec.attempts - 1)
           status == IF back < MaxAttempts[t] THEN "PENDING" ELSE "FAILED"
           expiries == rec.lease_expiries + 1
           new == [rec EXCEPT !.lease = None, !.lease_expiries = expiries, !.attempts = back,
                              !.failure = "LEASE_EXPIRED", !.status = status]
<1>1. back + 1 = rec.attempts
  BY Spent
<1>2. Runtime!ExpireTask(t, rec) = new
  BY DEF Runtime!ExpireTask
<1>3. status # "RUNNING" /\ rec \in Runtime!TaskRecords
  BY DEF RecordOK
<1> HIDE DEF back, status, expiries
<1>4. new.status = status /\ new.attempts = back
  BY <1>3 DEF Runtime!TaskRecords
<1> HIDE DEF new
<1>5. Begun(new) /\ InTurn(rec, new)
  BY <1>1, <1>3, <1>4 DEF Begun, InTurn, Turn, Active
<1> QED
  BY <1>2, <1>5

LEMMA TurnsTwice ==
  ASSUME NEW a, NEW b, NEW c, InTurn(a, b), InTurn(b, c)
  PROVE  InTurn(a, c)
  BY DEF InTurn

LEMMA ReconcileTurns ==
  ASSUME NEW ts, TableOK(ts), AllBegun(ts)
  PROVE  AllBegun(Runtime!Reconcile(ts, 0)) /\ \A t \in Tasks : InTurn(ts[t], Runtime!Reconcile(ts, 0)[t])
<1> DEFINE mid == Runtime!Expire(ts, 0)
           new == Runtime!Block(mid)
<1> SUFFICES ASSUME NEW t \in Tasks PROVE Begun(new[t]) /\ InTurn(ts[t], new[t])
  BY DEF AllBegun, Runtime!Reconcile
<1>1. mid[t] = IF Runtime!Expired(ts[t], 0) THEN Runtime!ExpireTask(t, ts[t]) ELSE ts[t]
  BY DEF Runtime!Expire
<1>2. RecordOK(t, ts[t]) /\ Begun(ts[t])
  BY DEF TableOK, AllBegun
<1>3. Begun(mid[t]) /\ InTurn(ts[t], mid[t])
  <2>1. CASE Runtime!Expired(ts[t], 0)
    BY <1>1, <1>2, <2>1, ExpireTurn DEF Runtime!Expired
  <2>2. CASE ~Runtime!Expired(ts[t], 0)
    BY <1>1, <1>2, <2>2 DEF InTurn
  <2> QED
    BY <2>1, <2>2
<1>4. mid[t] \in Runtime!TaskRecords
  BY <1>1, <1>2, ExpireRecord DEF RecordOK
<1> HIDE DEF mid
<1>5. new[t] = IF t \in Runtime!Doomed(mid)
               THEN [mid[t] EXCEPT !.status = "BLOCKED", !.failure = "DEPENDENCY_FAILED"]
               ELSE mid[t]
  BY DEF Runtime!Block
<1>6. Begun(new[t]) /\ InTurn(mid[t], new[t])
  <2>1. CASE t \in Runtime!Doomed(mid)
    <3>1. new[t].status = "BLOCKED"
      BY <1>4, <1>5, <2>1 DEF Runtime!TaskRecords
    <3> QED
      BY <3>1 DEF Begun, InTurn, Active
  <2>2. CASE t \notin Runtime!Doomed(mid)
    BY <1>3, <1>5, <2>2 DEF InTurn
  <2> QED
    BY <2>1, <2>2
<1> HIDE DEF new
<1> QED
  BY <1>3, <1>6, TurnsTwice

(* A call on the task u, which may move its turn; and a call that moves    *)
(* none but those whose rival has just left.                               *)
SteadyBut(u) ==
  /\ AllBegun(tasks')
  /\ retired \subseteq retired'
  /\ \A t \in Tasks : t # u => InTurn(tasks[t], tasks'[t])

Steady ==
  /\ AllBegun(tasks')
  /\ retired \subseteq retired'
  /\ \A t \in Tasks : (Ours(t))' => InTurn(tasks[t], tasks'[t])

LEMMA ReconcileSteady ==
  ASSUME TableOK(tasks), AllBegun(tasks), tasks' = Runtime!Reconcile(tasks, 0), retired \subseteq retired'
  PROVE  Steady
  BY ReconcileTurns DEF Steady

(* A reconciliation and the change of one record.                          *)
LEMMA UpdateTurns ==
  ASSUME TableOK(tasks), AllBegun(tasks), NEW t \in Tasks, NEW new, Begun(new),
         tasks' = [Runtime!Reconcile(tasks, 0) EXCEPT ![t] = new], retired \subseteq retired'
  PROVE  /\ SteadyBut(t)
         /\ InTurn(Runtime!Reconcile(tasks, 0)[t], new) => Steady
<1> DEFINE r == Runtime!Reconcile(tasks, 0)
<1>1. AllBegun(r) /\ \A u \in Tasks : InTurn(tasks[u], r[u])
  BY ReconcileTurns
<1>2. r \in [Tasks -> Runtime!TaskRecords]
  BY ReconcileTable DEF TableOK
<1>3. tasks' = [r EXCEPT ![t] = new]
  OBVIOUS
<1> HIDE DEF r
<1>4. \A u \in Tasks : tasks'[u] = IF u = t THEN new ELSE r[u]
  BY <1>2, <1>3
<1>5. AllBegun(tasks')
  BY <1>1, <1>4 DEF AllBegun
<1>6. SteadyBut(t)
  BY <1>1, <1>4, <1>5 DEF SteadyBut
<1>7. InTurn(r[t], new) => InTurn(tasks[t], tasks'[t])
  BY <1>1, <1>4, TurnsTwice
<1>8. InTurn(r[t], new) => Steady
  BY <1>1, <1>4, <1>5, <1>7 DEF Steady
<1> QED
  BY <1>6, <1>8 DEF r

LEMMA ClaimTurns ==
  ASSUME TableOK(tasks), AllBegun(tasks), NEW w, Runtime!Claim(w, 0)
  PROVE  Steady
<1> DEFINE r == Runtime!Reconcile(tasks, 0)
<1>1. retired \subseteq retired'
  BY DEF Runtime!Claim
<1>2. CASE tasks' = r
  BY <1>1, <1>2, ReconcileSteady
<1>3. ASSUME NEW t \in Tasks, Runtime!Ready(r, t), tasks' = [r EXCEPT ![t] = Runtime!Grant(r[t], w, 0)]
      PROVE  Steady
  <2> DEFINE new == Runtime!Grant(r[t], w, 0)
  <2>1. r[t] \in Runtime!TaskRecords /\ r[t].status = "PENDING"
    BY <1>3, ReconcileTable DEF TableOK, RecordOK, Runtime!Ready
  <2>2. new.status = "RUNNING" /\ new.attempts = r[t].attempts + 1 /\ r[t].attempts \in Nat
    BY <2>1 DEF Runtime!Grant, Runtime!TaskRecords
  <2> HIDE DEF new, r
  <2>3. Begun(new) /\ InTurn(r[t], new)
    BY <2>1, <2>2 DEF Begun, InTurn, Turn, Active
  <2> QED
    BY <1>1, <1>3, <2>3, UpdateTurns DEF new, r
<1> QED
  BY <1>2, <1>3 DEF Runtime!Claim

LEMMA HeartbeatTurns ==
  ASSUME TableOK(tasks), AllBegun(tasks), NEW w, NEW t \in Tasks, NEW token, Runtime!Heartbeat(w, t, token, 0)
  PROVE  Steady
<1> DEFINE n == LeaseSeconds - 0
           new == Runtime!WithLeft(tasks[t], n)
<1>1. tasks' = [tasks EXCEPT ![t] = new] /\ retired' = retired /\ Begun(tasks[t])
  BY DEF Runtime!Heartbeat, AllBegun
<1> HIDE DEF n
<1>2. tasks[t] \in Runtime!TaskRecords
  BY DEF TableOK
<1>3. new.status = tasks[t].status /\ new.attempts = tasks[t].attempts
  BY <1>2 DEF Runtime!WithLeft, Runtime!TaskRecords
<1> HIDE DEF new
<1>4. \A u \in Tasks : tasks'[u] = IF u = t THEN new ELSE tasks[u]
  BY <1>1 DEF TableOK
<1>5. Begun(new) /\ InTurn(tasks[t], new)
  BY <1>1, <1>3 DEF Begun, InTurn, Turn
<1> QED
  BY <1>1, <1>4, <1>5 DEF Steady, AllBegun, InTurn

LEMMA HolderTurns ==
  ASSUME TableOK(tasks), AllBegun(tasks), NEW t \in Tasks, NEW w, NEW token,
         Runtime!HoldsLease(Runtime!Reconcile(tasks, 0)[t], w, token)
  PROVE  /\ RecordOK(t, Runtime!Reconcile(tasks, 0)[t]) /\ Begun(Runtime!Reconcile(tasks, 0)[t])
         /\ Runtime!Reconcile(tasks, 0)[t].status = "RUNNING"
         /\ tasks[t].status \in Active
<1> DEFINE r == Runtime!Reconcile(tasks, 0)
<1>1. RecordOK(t, r[t]) /\ Begun(r[t]) /\ InTurn(tasks[t], r[t])
  BY ReconcileTable, ReconcileTurns DEF TableOK, AllBegun
<1>2. r[t].status = "RUNNING"
  BY DEF Runtime!HoldsLease
<1> QED
  BY <1>1, <1>2 DEF InTurn, Active

(* A failure moves the turn of its task and of no other.                   *)
LEMMA FailTurns ==
  ASSUME TableOK(tasks), AllBegun(tasks), NEW w \in Crew, NEW t \in Tasks, NEW token,
         NEW class \in Runtime!FailureClasses, Runtime!Fail(w, t, token, class, 0)
  PROVE  SteadyBut(t) /\ tasks[t].status \in Active /\ (w # Self => Steady)
<1> DEFINE r == Runtime!Reconcile(tasks, 0)
           new == Runtime!GiveUp(t, r[t], class)
           ts == [r EXCEPT ![t] = new]
<1>1. /\ Runtime!HoldsLease(r[t], w, token)
      /\ tasks' = Runtime!Reconcile(ts, 0)
      /\ retired' = retired \cup Runtime!EndedByExpiry(0) \cup {Runtime!Handle(t, r[t], "FAILED")}
  BY DEF Runtime!Fail
<1>2. RecordOK(t, r[t]) /\ tasks[t].status \in Active
  BY <1>1, HolderTurns
<1>3. RecordOK(t, new) /\ Begun(new)
  <2>1. new.status # "RUNNING"
    BY <1>2 DEF Runtime!GiveUp, RecordOK, Runtime!TaskRecords
  <2> QED
    BY <1>2, <2>1, GiveUpRecord DEF Begun
<1>4. TableOK(r) /\ AllBegun(r) /\ \A u \in Tasks : InTurn(tasks[u], r[u])
  BY ReconcileTable, ReconcileTurns
<1> HIDE DEF new, r
<1>5. TableOK(ts)
  BY <1>3, <1>4, UpdateTable
<1>6. \A u \in Tasks : ts[u] = IF u = t THEN new ELSE r[u]
  BY <1>4 DEF TableOK
<1>7. AllBegun(ts) /\ \A u \in Tasks : u # t => InTurn(tasks[u], ts[u])
  BY <1>3, <1>4, <1>6 DEF AllBegun
<1> HIDE DEF ts
<1>8. AllBegun(tasks') /\ \A u \in Tasks : InTurn(ts[u], tasks'[u])
  BY <1>1, <1>5, <1>7, ReconcileTurns
<1>9. retired \subseteq retired'
  BY <1>1
<1>10. SteadyBut(t)
  BY <1>7, <1>8, <1>9, TurnsTwice DEF SteadyBut
<1>11. w # Self => ~(Ours(t))'
  <2>1. r[t].lease.owner = w
    BY <1>1 DEF Runtime!HoldsLease
  <2> DEFINE h == Runtime!Handle(t, r[t], "FAILED")
  <2>2. h \in retired' /\ h.task = t /\ h.owner = w
    BY <1>1, <2>1 DEF Runtime!Handle
  <2> HIDE DEF h
  <2> QED
    BY <2>2 DEF Ours
<1> QED
  BY <1>2, <1>10, <1>11 DEF SteadyBut, Steady

LEMMA WaitTurns ==
  ASSUME TableOK(tasks), AllBegun(tasks), NEW w, NEW t \in Tasks, NEW token, NEW request \in Requests,
         Runtime!WaitForHuman(w, t, token, request, 0)
  PROVE  Steady
<1> DEFINE r == Runtime!Reconcile(tasks, 0)
           new == Runtime!Ask(r[t], request)
<1>1. /\ Runtime!HoldsLease(r[t], w, token)
      /\ tasks' = [r EXCEPT ![t] = new]
      /\ retired \subseteq retired'
  BY DEF Runtime!WaitForHuman
<1>2. RecordOK(t, r[t]) /\ Begun(r[t]) /\ r[t].status = "RUNNING"
  BY <1>1, HolderTurns
<1>3. new.status = "WAITING_HUMAN" /\ new.attempts = Runtime!Min0(r[t].attempts - 1)
  BY <1>2 DEF Runtime!Ask, RecordOK, Runtime!TaskRecords
<1>4. new.attempts + 1 = r[t].attempts
  BY <1>2, <1>3, Spent
<1> HIDE DEF new
<1>5. Begun(new) /\ InTurn(r[t], new)
  BY <1>2, <1>3, <1>4 DEF Begun, InTurn, Turn, Active
<1> QED
  BY <1>1, <1>5, UpdateTurns

LEMMA CompleteTurns ==
  ASSUME TableOK(tasks), AllBegun(tasks), NEW w, NEW t \in Tasks, NEW token, NEW key \in AttemptNumbers,
         Runtime!Complete(w, t, token, key, 0)
  PROVE  Steady
<1> DEFINE r == Runtime!Reconcile(tasks, 0)
           new == Runtime!Finish(r[t], key)
<1>1. /\ Runtime!HoldsLease(r[t], w, token)
      /\ tasks' = [r EXCEPT ![t] = new]
      /\ retired \subseteq retired'
  BY DEF Runtime!Complete
<1>2. RecordOK(t, r[t])
  BY <1>1, HolderTurns
<1>3. new.status = "SUCCEEDED"
  BY <1>2, FinishRecord
<1> HIDE DEF new
<1>4. Begun(new) /\ InTurn(r[t], new)
  BY <1>3 DEF Begun, InTurn, Active
<1> QED
  BY <1>1, <1>4, UpdateTurns

LEMMA HumanTurns ==
  ASSUME TableOK(tasks), AllBegun(tasks), Runtime!HumanCall(0)
  PROVE  Steady
<1> DEFINE r == Runtime!Reconcile(tasks, 0)
<1>1. retired \subseteq retired'
  BY DEF Runtime!HumanCall, Runtime!ResolveHuman
<1>2. CASE tasks' = r
  BY <1>1, <1>2, ReconcileSteady
<1>3. ASSUME NEW t \in Tasks, NEW request \in Requests, NEW response \in Responses,
             Runtime!Awaits(r[t], request), tasks' = [r EXCEPT ![t] = Runtime!Answer(r[t], request, response)]
      PROVE  Steady
  <2> DEFINE new == Runtime!Answer(r[t], request, response)
  <2>1. r[t] \in Runtime!TaskRecords /\ r[t].status = "WAITING_HUMAN"
    BY <1>3, ReconcileTable DEF TableOK, RecordOK, Runtime!Awaits
  <2>2. new.status = "PENDING" /\ new.attempts = r[t].attempts
    BY <2>1 DEF Runtime!Answer, Runtime!TaskRecords
  <2> HIDE DEF new, r
  <2>3. Begun(new) /\ InTurn(r[t], new)
    BY <2>1, <2>2 DEF Begun, InTurn, Turn, Active
  <2> QED
    BY <1>1, <1>3, <2>3, UpdateTurns DEF new, r
<1> QED
  BY <1>2, <1>3 DEF Runtime!HumanCall, Runtime!ResolveHuman

LEMMA TickTurns ==
  ASSUME TableOK(tasks), AllBegun(tasks), Runtime!Tick
  PROVE  Steady
<1>1. ASSUME NEW t \in Tasks
      PROVE  tasks'[t].status = tasks[t].status /\ tasks'[t].attempts = tasks[t].attempts
  <2>1. tasks[t] \in Runtime!TaskRecords
    BY DEF TableOK
  <2> QED
    BY <2>1 DEF Runtime!Tick, Runtime!WithLeft, Runtime!TaskRecords
<1>2. retired' = retired
  BY DEF Runtime!Tick
<1> QED
  BY <1>1, <1>2 DEF Steady, AllBegun, Begun, InTurn, Turn

LEMMA OthersTurns ==
  ASSUME TableOK(tasks), AllBegun(tasks), Others
  PROVE  Steady
<1>1. ASSUME NEW w \in Rivals, Runtime!WorkerCall(w, 0)
      PROVE  Steady
  <2>1. w \in Crew /\ w # Self
    BY SupervisorAssumption DEF Crew
  <2>2. ASSUME NEW t \in Tasks, NEW key \in AttemptNumbers, Runtime!CompleteAgain(w, t, key, 0)
        PROVE  Steady
    BY <2>2, ReconcileSteady DEF Runtime!CompleteAgain
  <2> QED
    BY <1>1, <2>1, <2>2, ClaimTurns, HeartbeatTurns, CompleteTurns, FailTurns, WaitTurns DEF Runtime!WorkerCall
<1> QED
  BY <1>1, HumanTurns, TickTurns DEF Others

LEMMA QuietTurns ==
  ASSUME AllBegun(tasks), tasks' = tasks, retired' = retired
  PROVE  Steady
  BY DEF Steady, InTurn, AllBegun
-----------------------------------------------------------------------------
(* The run.  No result loses its effect, and what a step does to the turns *)
(* and the journal leaves each waiting result where it will be looked for. *)

SameNames == journal' # None => \/ journal # None /\ journal'.task = journal.task /\ journal'.attempt = journal.attempt
                               \/ journal'.task = None

Spending == \A t \in Tasks, a \in AttemptNumbers : consumed[t][a] # 0 => consumed'[t][a] # 0

LEMMA MoveTurns ==
  ASSUME TurnInv, Steady, SameNames, Spending, results' = results, InHand',
         pc' = "work" => pc = "work" /\ work' = work /\ work.task \in Tasks
  PROVE  TurnInv'
<1>1. \A t \in Tasks : (Ours(t))' => Ours(t)
  BY DEF Steady, Ours
<1>2. AllBegun(tasks')
  BY DEF Steady
<1>3. Waiting'
  <2> SUFFICES ASSUME NEW t \in Tasks, NEW a \in AttemptNumbers, Unspent(t, a)', (Ours(t))',
                      tasks'[t].status \in Active
               PROVE  a = Turn(tasks'[t]) /\ (journal' # None /\ journal'.task = t => journal'.attempt = a)
    BY DEF Waiting
  <2>1. Unspent(t, a)
    BY DEF Unspent, Spending
  <2>2. tasks[t].status \in Active /\ Turn(tasks'[t]) = Turn(tasks[t])
    BY DEF Steady, InTurn
  <2>3. a = Turn(tasks[t]) /\ (journal # None /\ journal.task = t => journal.attempt = a)
    BY <1>1, <2>1, <2>2 DEF TurnInv, Waiting
  <2>4. journal' # None /\ journal'.task = t => journal # None /\ journal.task = t /\ journal'.attempt = journal.attempt
    BY SupervisorAssumption DEF SameNames
  <2> QED
    BY <2>2, <2>3, <2>4
<1>4. OnTurn'
  <2> SUFFICES ASSUME pc' = "work", ResultOf(work.task, work.attempt)' = None, (Ours(work.task))',
                      tasks'[work'.task].status \in Active
               PROVE  work'.attempt = Turn(tasks'[work'.task])
    BY DEF OnTurn
  <2>1. pc = "work" /\ work' = work /\ work.task \in Tasks
    OBVIOUS
  <2>2. (Ours(work.task))' => \A h \in retired' : h.task = work.task => h.owner = Self
    BY <2>1 DEF Ours
  <2>3. Ours(work.task) /\ InTurn(tasks[work.task], tasks'[work.task])
    BY <2>1, <2>2 DEF Steady, Ours
  <2>4. ResultOf(work.task, work.attempt) = None
    BY <2>1 DEF ResultOf
  <2> QED
    BY <2>1, <2>3, <2>4 DEF InTurn, TurnInv, OnTurn
<1> QED
  BY <1>2, <1>3, <1>4 DEF TurnInv

(* The attempt in hand is charged, and its result, if it has one, has had  *)
(* its effect.                                                             *)
LEMMA ChargeTurns ==
  ASSUME TurnInv, SteadyBut(work.task), journal' = journal, journal # None, Spending, results' = results,
         work.task \in Tasks, tasks[work.task].status \in Active,
         pc \in {"work", "result", "accept"}, pc' \notin {"work", "result", "accept"},
         ResultOf(work.task, work.attempt) = None \/ consumed'[work.task][work.attempt] # 0
  PROVE  TurnInv'
<1>1. \A t \in Tasks : (Ours(t))' => Ours(t)
  BY DEF SteadyBut, Ours
<1>2. AllBegun(tasks') /\ InHand' /\ OnTurn'
  BY DEF SteadyBut, InHand, OnTurn
<1>3. Waiting'
  <2> SUFFICES ASSUME NEW t \in Tasks, NEW a \in AttemptNumbers, Unspent(t, a)', (Ours(t))',
                      tasks'[t].status \in Active
               PROVE  a = Turn(tasks'[t]) /\ (journal' # None /\ journal'.task = t => journal'.attempt = a)
    BY DEF Waiting
  <2>1. Unspent(t, a) /\ Ours(t)
    BY <1>1 DEF Unspent, Spending
  <2>2. CASE t = work.task
    <3>1. journal.attempt = a /\ journal.attempt = work.attempt
      BY <2>1, <2>2 DEF TurnInv, Waiting, InHand
    <3> QED
      BY <2>2, <3>1 DEF Unspent, ResultOf
  <2>3. CASE t # work.task
    <3>1. tasks[t].status \in Active /\ Turn(tasks'[t]) = Turn(tasks[t])
      BY <2>3 DEF SteadyBut, InTurn
    <3> QED
      BY <2>1, <3>1 DEF TurnInv, Waiting
  <2> QED
    BY <2>2, <2>3
<1> QED
  BY <1>2, <1>3 DEF TurnInv

LEMMA QuietSpending ==
  ASSUME consumed' = consumed
  PROVE  Spending
  BY DEF Spending

LEMMA ConsumeSpends ==
  ASSUME IInv, Consume, work.task \in Tasks, work.attempt \in AttemptNumbers
  PROVE  Spending /\ consumed'[work.task][work.attempt] # 0
<1>1. consumed \in [Tasks -> [AttemptNumbers -> 0..2]]
  BY DEF IInv, TypesOK
<1>2. consumed[work.task][work.attempt] \in 0..2
  BY <1>1
<1> DEFINE n == IF consumed[work.task][work.attempt] < 2 THEN consumed[work.task][work.attempt] + 1
                ELSE consumed[work.task][work.attempt]
<1>3. n # 0
  BY <1>2
<1>4. consumed' = [consumed EXCEPT ![work.task] = [consumed[work.task] EXCEPT ![work.attempt] = n]]
  BY <1>1 DEF Consume
<1> HIDE DEF n
<1>5. \A t \in Tasks, a \in AttemptNumbers :
         consumed'[t][a] = IF t = work.task /\ a = work.attempt THEN n ELSE consumed[t][a]
  BY <1>1, <1>4
<1> QED
  BY <1>3, <1>5 DEF Spending

LEMMA EndTurns ==
  ASSUME TurnInv, Steady, journal # None, journal \in Journals, NEW status, End(status), results' = results,
         consumed' = consumed
  PROVE  TurnInv'
<1>1. journal' = [journal EXCEPT !.status = status] /\ pc' = "ended"
  BY DEF End, Goto
<1>2. SameNames
  BY <1>1 DEF SameNames, Journals
<1>3. InHand'
  BY <1>1 DEF InHand
<1> QED
  BY <1>1, <1>2, <1>3, QuietSpending, MoveTurns

LEMMA StartTurns ==
  ASSUME IInv, TurnInv, NEW asked \in BOOLEAN, Start(asked)
  PROVE  TurnInv'
<1>1. Steady /\ Spending /\ results' = results
  BY QuietTurns, QuietSpending DEF Start, TurnInv
<1>2. pc' \in {"returned", "top"} /\ journal' \in {journal, NewJournal, Reopened(journal)}
      /\ (journal' = Reopened(journal) => journal # None \/ journal' = NewJournal)
  BY DEF Start, Goto
<1>3. SameNames
  <2>1. journal \in Journals \cup {None}
    BY DEF IInv, TypesOK
  <2> QED
    BY <1>2, <2>1 DEF SameNames, NewJournal, Reopened, Journals
<1>4. InHand'
  BY <1>2 DEF InHand
<1> QED
  BY <1>1, <1>2, <1>3, <1>4, MoveTurns

LEMMA TopTurns ==
  ASSUME IInv, TurnInv, Top
  PROVE  TurnInv'
<1>1. /\ pc = "top" /\ results' = results /\ consumed' = consumed
      /\ journal # None /\ journal \in Journals /\ TableOK(tasks) /\ AllBegun(tasks)
  BY CountedType DEF Top, IInv, TypesOK, HandsOK, Stopped, TurnInv
<1>2. ASSUME NEW status, End(status), UNCHANGED runtime
      PROVE  TurnInv'
  BY <1>1, <1>2, QuietTurns, EndTurns DEF runtime
<1>3. CASE Runtime!Resume(0) /\ Goto("peek") /\ UNCHANGED journal
  <2>1. Steady
    BY <1>1, <1>3, ReconcileSteady DEF Runtime!Resume
  <2>2. SameNames /\ InHand' /\ pc' = "peek"
    BY <1>3 DEF SameNames, InHand, Goto
  <2> QED
    BY <1>1, <2>1, <2>2, QuietSpending, MoveTurns
<1> QED
  BY <1>2, <1>3 DEF Top

LEMMA PeekTurns ==
  ASSUME IInv, TurnInv, Peek \/ Conclude
  PROVE  TurnInv'
<1>1. /\ results' = results /\ consumed' = consumed /\ tasks' = tasks /\ retired' = retired /\ journal' = journal
      /\ AllBegun(tasks) /\ journal \in Journals
  BY CountedType DEF Peek, Conclude, IInv, TypesOK, HandsOK, Stopped, TurnInv
<1>2. Steady
  BY <1>1, QuietTurns
<1>3. pc' \in {"claim", "conclude", "SUCCEEDED", "FAILED", "BLOCKED", "PAUSED", "NO_TASK_READY"}
  BY OutcomeTrue DEF Peek, Conclude, Goto, FinalStatuses
<1>4. SameNames /\ InHand' /\ pc' # "work"
  BY <1>1, <1>3 DEF SameNames, InHand
<1> QED
  BY <1>1, <1>2, <1>4, QuietSpending, MoveTurns

LEMMA ReportTurns ==
  ASSUME IInv, TurnInv, Report
  PROVE  TurnInv'
<1>1. /\ results' = results /\ consumed' = consumed /\ tasks' = tasks /\ retired' = retired /\ AllBegun(tasks)
      /\ journal # None /\ journal \in Journals /\ End(pc)
  BY CountedType DEF Report, FinalStatuses, IInv, TypesOK, HandsOK, Stopped, TurnInv
<1>2. Steady
  BY <1>1, QuietTurns
<1> QED
  BY <1>1, <1>2, EndTurns

LEMMA ClaimStepTurns ==
  ASSUME IInv, TurnInv, Claim
  PROVE  TurnInv'
<1>1. /\ pc = "claim" /\ results' = results /\ consumed' = consumed
      /\ journal # None /\ journal \in Journals /\ TableOK(tasks) /\ AllBegun(tasks)
  BY CountedType DEF Claim, IInv, TypesOK, HandsOK, Stopped, TurnInv
<1>2. Steady
  BY <1>1, QuietTurns, ClaimTurns DEF Claim, runtime
<1>3. ASSUME NEW status, End(status)
      PROVE  TurnInv'
  BY <1>1, <1>2, <1>3, EndTurns
<1>4. ASSUME NEW place \in {"record", "conclude"}, Goto(place), UNCHANGED journal
      PROVE  TurnInv'
  <2>1. SameNames /\ InHand' /\ pc' \in {"record", "conclude"}
    BY <1>4 DEF SameNames, InHand, Goto
  <2> QED
    BY <1>1, <1>2, <2>1, QuietSpending, MoveTurns
<1> QED
  BY <1>3, <1>4 DEF Claim, Begin

LEMMA StillRunning ==
  ASSUME TableOK(tasks), work.task \in Tasks, StillHeld
  PROVE  tasks[work.task].status = "RUNNING"
<1> DEFINE r == Runtime!Reconcile(tasks, 0)
           mid == Runtime!Expire(tasks, 0)
<1>1. r[work.task].status = "RUNNING"
  BY DEF StillHeld, Runtime!HoldsLease
<1>2. r[work.task] = IF work.task \in Runtime!Doomed(mid)
                     THEN [mid[work.task] EXCEPT !.status = "BLOCKED", !.failure = "DEPENDENCY_FAILED"]
                     ELSE mid[work.task]
  BY DEF Runtime!Reconcile, Runtime!Block
<1>3. mid[work.task] = IF Runtime!Expired(tasks[work.task], 0) THEN Runtime!ExpireTask(work.task, tasks[work.task])
                       ELSE tasks[work.task]
  BY DEF Runtime!Expire
<1>4. RecordOK(work.task, mid[work.task])
  BY <1>3, ExpireRecord DEF TableOK
<1> HIDE DEF mid, r
<1>5. mid[work.task].status = "RUNNING"
  BY <1>1, <1>2, <1>4 DEF RecordOK, Runtime!TaskRecords
<1> QED
  BY <1>3, <1>5 DEF Runtime!Expired

(* The read of the attempts: either the task is on its turn, or its last   *)
(* attempt of the run, which the journal names, has a result.              *)
LEMMA RecordTurns ==
  ASSUME IInv, TurnInv, ReadsInTime, AdoptsOwn, Record
  PROVE  TurnInv'
<1> DEFINE a == AttemptId(work.task)
<1>1. /\ pc = "record" /\ pc' = "work"
      /\ work' = [work EXCEPT !.attempt = a]
      /\ journal' = [journal EXCEPT !.task = work.task, !.attempt = a, !.processed = @ + 1]
      /\ UNCHANGED <<tasks, retired, results, consumed>>
  BY DEF Record, Goto
<1>2. TableOK(tasks) /\ work \in Works /\ work.task \in Tasks /\ journal # None /\ journal \in Journals
  BY <1>1, CountedType DEF IInv, TypesOK, HandsOK, Stopped
<1>3. tasks[work.task].status = "RUNNING" /\ Turn(tasks[work.task]) = tasks[work.task].attempts
  BY <1>1, <1>2, StillRunning DEF ReadsInTime, Turn
<1>4. \/ a = tasks[work.task].attempts
      \/ journal.task = work.task /\ a = journal.attempt /\ ResultOf(work.task, a) # None
  BY <1>1 DEF AttemptId, AdoptsOwn
<1> HIDE DEF a
<1>5. work'.task = work.task /\ work'.attempt = a /\ journal'.task = work.task /\ journal'.attempt = a
  BY <1>1, <1>2 DEF Works, Journals
<1>6. InHand' /\ AllBegun(tasks')
  BY <1>1, <1>5 DEF InHand, TurnInv
<1>7. OnTurn'
  BY <1>1, <1>3, <1>4, <1>5 DEF OnTurn, ResultOf
<1>8. Waiting'
  <2> SUFFICES ASSUME NEW t \in Tasks, NEW b \in AttemptNumbers, Unspent(t, b), Ours(t), tasks[t].status \in Active
               PROVE  b = Turn(tasks[t]) /\ (journal' # None /\ journal'.task = t => journal'.attempt = b)
    BY <1>1 DEF Waiting, Unspent, Ours
  <2>1. b = Turn(tasks[t]) /\ (journal.task = t => journal.attempt = b)
    BY <1>2 DEF TurnInv, Waiting
  <2> QED
    BY <1>3, <1>4, <1>5, <2>1
<1> QED
  BY <1>6, <1>7, <1>8 DEF TurnInv

LEMMA WorkTurns ==
  ASSUME IInv, TurnInv, Work
  PROVE  TurnInv'
<1>1. /\ UNCHANGED <<tasks, retired, work, consumed>> /\ pc = "work"
      /\ work.task \in Tasks /\ work.attempt \in AttemptNumbers /\ journal # None /\ journal \in Journals
      /\ AllBegun(tasks)
  BY CountedType DEF Work, IInv, TypesOK, HandsOK, Stopped, TurnInv
<1>2. Steady
  BY <1>1, QuietTurns
<1>3. CASE Goto("result") /\ UNCHANGED <<journal, results>>
  <2>1. SameNames /\ InHand' /\ pc' = "result"
    BY <1>1, <1>3 DEF SameNames, InHand, Goto, TurnInv
  <2> QED
    BY <1>1, <1>2, <1>3, <2>1, QuietSpending, MoveTurns
<1>4. CASE End("BLOCKED") /\ UNCHANGED results
  BY <1>1, <1>2, <1>4, EndTurns
<1>5. ASSUME NEW r \in Results, ResultOf(work.task, work.attempt) = None,
             results' = [results EXCEPT ![work.task][work.attempt] = r], Goto("result"), UNCHANGED journal
      PROVE  TurnInv'
  <2>1. \A t \in Tasks, a \in AttemptNumbers :
           results'[t][a] = IF t = work.task /\ a = work.attempt THEN r ELSE results[t][a]
    BY <1>1, <1>5 DEF IInv, TypesOK
  <2>2. journal.task = work.task /\ journal.attempt = work.attempt
    BY <1>1 DEF TurnInv, InHand
  <2>3. InHand' /\ OnTurn' /\ AllBegun(tasks')
    BY <1>1, <1>5, <2>2 DEF InHand, OnTurn, Goto
  <2>4. Waiting'
    <3> SUFFICES ASSUME NEW t \in Tasks, NEW a \in AttemptNumbers, Unspent(t, a)', Ours(t), tasks[t].status \in Active
                 PROVE  a = Turn(tasks[t]) /\ (journal.task = t => journal.attempt = a)
      BY <1>1, <1>5 DEF Waiting, Ours
    <3>1. CASE t = work.task /\ a = work.attempt
      BY <1>1, <1>5, <2>2, <3>1 DEF TurnInv, OnTurn
    <3>2. CASE ~(t = work.task /\ a = work.attempt)
      <4>1. Unspent(t, a)
        BY <1>1, <2>1, <3>2 DEF Unspent
      <4> QED
        BY <1>1, <4>1 DEF TurnInv, Waiting
    <3> QED
      BY <3>1, <3>2
  <2> QED
    BY <2>3, <2>4 DEF TurnInv
<1> QED
  BY <1>3, <1>4, <1>5 DEF Work

LEMMA BeatTurns ==
  ASSUME IInv, TurnInv, Heartbeat
  PROVE  TurnInv'
<1>1. /\ UNCHANGED <<journal, results, pc, work, consumed>> /\ pc = "work" /\ work.task \in Tasks
      /\ TableOK(tasks) /\ AllBegun(tasks)
  BY DEF Heartbeat, IInv, TypesOK, HandsOK, Stopped, TurnInv
<1>2. Steady
  BY <1>1, HeartbeatTurns DEF Heartbeat
<1>3. SameNames /\ InHand'
  BY <1>1 DEF SameNames, InHand, TurnInv
<1> QED
  BY <1>1, <1>2, <1>3, QuietSpending, MoveTurns

LEMMA FailureTurns ==
  ASSUME IInv, TurnInv, NEW class \in {"VALIDATION", "LEASE_EXPIRED", "PERMANENT"}, HandleFailure(class),
         pc \in {"work", "result", "accept"}, results' = results, work' = work,
         IF pc' = "failed" THEN Spending ELSE consumed' = consumed,
         pc' = "failed" => ResultOf(work.task, work.attempt) = None \/ consumed'[work.task][work.attempt] # 0
  PROVE  TurnInv'
<1>1. /\ work.task \in Tasks /\ journal # None /\ journal \in Journals /\ TableOK(tasks) /\ AllBegun(tasks)
  BY CountedType DEF IInv, TypesOK, HandsOK, Stopped, TurnInv
<1>2. CASE Runtime!Fail(Self, work.task, work.token, class, 0) /\ Goto("failed") /\ UNCHANGED journal
  <2>1. class \in Runtime!FailureClasses /\ Self \in Crew
    BY SupervisorAssumption DEF Runtime!FailureClasses, Crew
  <2>2. SteadyBut(work.task) /\ tasks[work.task].status \in Active
    BY <1>1, <1>2, <2>1, FailTurns
  <2>3. pc' = "failed" /\ Spending
    BY <1>2 DEF Goto
  <2> QED
    BY <1>1, <1>2, <2>2, <2>3, ChargeTurns
<1>3. CASE End("BLOCKED") /\ UNCHANGED runtime
  <2>1. Steady
    BY <1>1, <1>3, QuietTurns DEF runtime
  <2>2. consumed' = consumed
    BY <1>3 DEF End, Goto
  <2> QED
    BY <1>1, <1>3, <2>1, <2>2, EndTurns
<1> QED
  BY <1>2, <1>3 DEF HandleFailure

LEMMA HeartbeatFailsTurns ==
  ASSUME IInv, TurnInv, HeartbeatFails
  PROVE  TurnInv'
<1>1. /\ UNCHANGED <<results, work, consumed>> /\ pc = "work" /\ ResultOf(work.task, work.attempt) = None
      /\ journal # None /\ journal \in Journals /\ AllBegun(tasks)
  BY CountedType DEF HeartbeatFails, IInv, TypesOK, HandsOK, Stopped, TurnInv
<1>2. CASE End("SHUTDOWN") /\ UNCHANGED runtime
  BY <1>1, <1>2, QuietTurns, EndTurns DEF runtime
<1>3. CASE HandleFailure("LEASE_EXPIRED")
  BY <1>1, <1>3, QuietSpending, FailureTurns
<1> QED
  BY <1>2, <1>3 DEF HeartbeatFails

LEMMA ResultTurns ==
  ASSUME IInv, TurnInv, Result
  PROVE  TurnInv'
<1> DEFINE result == ResultOf(work.task, work.attempt)
<1>1. /\ UNCHANGED <<results, work>> /\ pc = "result" /\ TableOK(tasks) /\ AllBegun(tasks)
      /\ work.task \in Tasks /\ work.attempt \in AttemptNumbers
  BY DEF Result, IInv, TypesOK, HandsOK, Stopped, TurnInv
<1>2. CASE Goto("accept") /\ UNCHANGED <<tasks, current_task, retired, charged, journal, consumed>>
  <2>1. SameNames /\ InHand' /\ pc' = "accept" /\ Steady
    BY <1>1, <1>2, QuietTurns DEF SameNames, InHand, Goto, TurnInv
  <2> QED
    BY <1>1, <1>2, <2>1, QuietSpending, MoveTurns
<1>3. CASE /\ result \in WorkerFailures /\ HandleFailure(result)
           /\ IF pc' = "failed" THEN Consume ELSE UNCHANGED consumed
  <2>1. /\ IF pc' = "failed" THEN Spending ELSE consumed' = consumed
        /\ pc' = "failed" => consumed'[work.task][work.attempt] # 0
    BY <1>1, <1>3, ConsumeSpends
  <2>2. result \in {"VALIDATION", "LEASE_EXPIRED", "PERMANENT"}
    BY <1>3 DEF WorkerFailures
  <2> HIDE DEF result
  <2> QED
    BY <1>1, <1>3, <2>1, <2>2, FailureTurns
<1>4. ASSUME NEW q \in Requests, Runtime!WaitForHuman(Self, work.task, work.token, q, 0), Consume, Goto("waiting"),
             UNCHANGED journal
      PROVE  TurnInv'
  <2>1. Steady /\ Spending
    BY <1>1, <1>4, WaitTurns, ConsumeSpends
  <2>2. SameNames /\ InHand' /\ pc' = "waiting"
    BY <1>4 DEF SameNames, InHand, Goto
  <2> QED
    BY <1>1, <2>1, <2>2, MoveTurns
<1>5. CASE Goto("crashed") /\ UNCHANGED <<tasks, current_task, retired, charged, journal, consumed>>
  <2>1. SameNames /\ InHand' /\ pc' = "crashed" /\ Steady
    BY <1>1, <1>5, QuietTurns DEF SameNames, InHand, Goto
  <2> QED
    BY <1>1, <1>5, <2>1, QuietSpending, MoveTurns
<1> QED
  BY <1>2, <1>3, <1>4, <1>5 DEF Result

LEMMA AcceptTurns ==
  ASSUME IInv, TurnInv, Accept
  PROVE  TurnInv'
<1>1. /\ UNCHANGED <<results, work>> /\ pc = "accept" /\ TableOK(tasks) /\ AllBegun(tasks)
      /\ work.task \in Tasks /\ work.attempt \in AttemptNumbers
  BY DEF Accept, IInv, TypesOK, HandsOK, Stopped, TurnInv
<1>2. CASE /\ Runtime!Complete(Self, work.task, work.token, work.attempt, 0)
           /\ Goto("completed") /\ Consume /\ UNCHANGED journal
  <2>1. Steady /\ Spending
    BY <1>1, <1>2, CompleteTurns, ConsumeSpends
  <2>2. SameNames /\ InHand' /\ pc' = "completed"
    BY <1>2 DEF SameNames, InHand, Goto
  <2> QED
    BY <1>1, <2>1, <2>2, MoveTurns
<1>3. CASE HandleFailure("VALIDATION") /\ (IF pc' = "failed" THEN Consume ELSE UNCHANGED consumed)
  <2>1. /\ IF pc' = "failed" THEN Spending ELSE consumed' = consumed
        /\ pc' = "failed" => consumed'[work.task][work.attempt] # 0
    BY <1>1, <1>3, ConsumeSpends
  <2> QED
    BY <1>1, <1>3, <2>1, FailureTurns
<1> QED
  BY <1>2, <1>3 DEF Accept

LEMMA NoteTurns ==
  ASSUME IInv, TurnInv, Note
  PROVE  TurnInv'
<1>1. /\ UNCHANGED <<tasks, retired, results, work, consumed>> /\ pc \in {"completed", "failed", "waiting"}
      /\ journal # None /\ journal \in Journals /\ AllBegun(tasks)
  BY CountedType DEF Note, IInv, TypesOK, HandsOK, Stopped, TurnInv
<1>2. Steady
  BY <1>1, QuietTurns
<1>3. pc' \in {"top", "ended"}
  BY DEF Note, End, Goto
<1>4. InHand'
  BY <1>3 DEF InHand
<1>5. SameNames
  BY <1>1 DEF Note, End, SameNames, Journals
<1> QED
  BY <1>1, <1>2, <1>3, <1>4, <1>5, QuietSpending, MoveTurns

LEMMA EnvironmentTurns ==
  ASSUME IInv, TurnInv, Crash \/ Signal \/ Others \/ UNCHANGED vars
  PROVE  TurnInv'
<1>1. /\ UNCHANGED <<journal, results, work, consumed>> /\ (pc' = pc \/ pc' = "crashed")
  BY DEF Crash, Signal, Others, vars, Goto
<1>2. Steady
  BY QuietTurns, OthersTurns DEF Crash, Signal, vars, TurnInv, IInv, TypesOK
<1>3. SameNames /\ InHand'
  BY <1>1 DEF SameNames, InHand, TurnInv
<1>4. pc = "work" => work.task \in Tasks
  BY DEF IInv, HandsOK, Stopped
<1> QED
  BY <1>1, <1>2, <1>3, <1>4, QuietSpending, MoveTurns
-----------------------------------------------------------------------------
(* Chains: of any two tasks one needs the other, so that while one is      *)
(* worked on the other is pending or settled, and a result that waits is   *)
(* of the task the journal names.                                          *)

(* The least set of tasks that holds the dependencies of u and their own.  *)
Needs(u) ==
  {t \in Tasks : \A S \in SUBSET Tasks : DependsOn[u] \subseteq S /\ (\A v \in S : DependsOn[v] \subseteq S) => t \in S}

Chained ==
  /\ DependsOn \in [Tasks -> SUBSET Tasks]
  /\ \A t, u \in Tasks : t = u \/ t \in Needs(u) \/ u \in Needs(t)

Over == {"RUNNING", "WAITING_HUMAN", "SUCCEEDED"}

Provided(ts, t) == \A d \in DependsOn[t] : ts[d].status = "SUCCEEDED"

Grounded(ts) == \A t \in Tasks : ts[t].status \in Over => Provided(ts, t)

Attempted(t) == \E a \in AttemptNumbers : results[t][a] # None

ChainInv ==
  /\ Grounded(tasks)
  /\ pc \in {"record", "work"} => Provided(tasks, work.task)
  /\ \A t \in Tasks :
       Attempted(t) => Provided(tasks, t) /\ (tasks[t].status \notin Settled => journal # None /\ journal.task = t)

(* What u needs has succeeded once its dependencies have.                  *)
LEMMA NeedsSucceeded ==
  ASSUME Chained, NEW ts, Grounded(ts), NEW u \in Tasks, Provided(ts, u), NEW t \in Needs(u)
  PROVE  ts[t].status = "SUCCEEDED"
<1> DEFINE S == {v \in Tasks : ts[v].status = "SUCCEEDED"}
<1>1. S \in SUBSET Tasks
  OBVIOUS
<1>2. \A v \in Tasks : DependsOn[v] \subseteq Tasks
  BY DEF Chained
<1>3. DependsOn[u] \subseteq S
  BY <1>2 DEF Provided
<1>4. \A v \in S : DependsOn[v] \subseteq S
  BY <1>2 DEF Grounded, Provided, Over
<1>5. t \in S
  BY <1>1, <1>3, <1>4 DEF Needs
<1> QED
  BY <1>5

LEMMA ProvidedKept ==
  ASSUME Chained, NEW ts, NEW new, Kept(ts, new), NEW t \in Tasks, Provided(ts, t)
  PROVE  Provided(new, t)
<1>1. DependsOn[t] \subseteq Tasks
  BY DEF Chained
<1> QED
  BY <1>1 DEF Provided, Kept, Settled

LEMMA GroundedKept ==
  ASSUME Chained, NEW ts, NEW new, Grounded(ts), Kept(ts, new),
         \A t \in Tasks : new[t].status \in Over => ts[t].status \in Over \/ Provided(ts, t)
  PROVE  Grounded(new)
  BY ProvidedKept DEF Grounded

LEMMA GroundedReconcile ==
  ASSUME Chained, NEW ts, TableOK(ts), Grounded(ts)
  PROVE  Grounded(Runtime!Reconcile(ts, 0))
<1> DEFINE mid == Runtime!Expire(ts, 0)
           new == Runtime!Block(mid)
<1> SUFFICES ASSUME NEW t \in Tasks, new[t].status \in Over PROVE ts[t].status \in Over
  BY ReconcileTable, GroundedKept DEF Runtime!Reconcile
<1>1. mid[t] = IF Runtime!Expired(ts[t], 0) THEN Runtime!ExpireTask(t, ts[t]) ELSE ts[t]
  BY DEF Runtime!Expire
<1>2. RecordOK(t, ts[t])
  BY DEF TableOK
<1>3. RecordOK(t, mid[t])
  BY <1>1, <1>2, ExpireRecord
<1>4. CASE Runtime!Expired(ts[t], 0)
  BY <1>4 DEF Runtime!Expired, Over
<1>5. CASE mid[t] = ts[t]
  <2> HIDE DEF mid
  <2>1. new[t] = IF t \in Runtime!Doomed(mid)
                 THEN [mid[t] EXCEPT !.status = "BLOCKED", !.failure = "DEPENDENCY_FAILED"]
                 ELSE mid[t]
    BY DEF Runtime!Block
  <2>2. new[t].status \in {"BLOCKED", mid[t].status}
    BY <1>3, <2>1 DEF RecordOK, Runtime!TaskRecords
  <2> HIDE DEF new
  <2> QED
    BY <1>5, <2>2 DEF Over
<1> QED
  BY <1>1, <1>4, <1>5

LEMMA GroundedUpdate ==
  ASSUME Chained, NEW ts, TableOK(ts), Grounded(ts), NEW t \in Tasks, NEW new, RecordOK(t, new),
         ts[t].status \notin Settled, new.status \in Over => ts[t].status \in Over \/ Provided(ts, t)
  PROVE  Grounded([ts EXCEPT ![t] = new])
<1> DEFINE next == [ts EXCEPT ![t] = new]
<1>1. Kept(ts, next)
  BY UpdateTable
<1>2. \A u \in Tasks : next[u] = IF u = t THEN new ELSE ts[u]
  BY DEF TableOK
<1> HIDE DEF next
<1>3. Grounded(next)
  BY <1>1, <1>2, GroundedKept
<1> QED
  BY <1>3 DEF next

(* A step of the runtime that takes no success back and starts no task     *)
(* before its dependencies have succeeded.                                 *)
Lawful == Kept(tasks, tasks') /\ Grounded(tasks')

LEMMA ReconcileLawful ==
  ASSUME Chained, TableOK(tasks), Grounded(tasks), tasks' = Runtime!Reconcile(tasks, 0)
  PROVE  Lawful
  BY ReconcileTable, GroundedReconcile DEF Lawful

LEMMA UpdateLawful ==
  ASSUME Chained, TableOK(tasks), Grounded(tasks), NEW t \in Tasks, NEW new, RecordOK(t, new),
         Runtime!Reconcile(tasks, 0)[t].status \notin Settled,
         new.status \in Over => \/ Runtime!Reconcile(tasks, 0)[t].status \in Over
                                \/ Provided(Runtime!Reconcile(tasks, 0), t),
         tasks' = [Runtime!Reconcile(tasks, 0) EXCEPT ![t] = new]
  PROVE  Lawful
<1> DEFINE r == Runtime!Reconcile(tasks, 0)
<1>1. Kept(tasks, tasks')
  BY UpdateSound
<1>2. TableOK(r) /\ Grounded(r)
  BY ReconcileTable, GroundedReconcile
<1>3. /\ r[t].status \notin Settled
      /\ new.status \in Over => r[t].status \in Over \/ Provided(r, t)
      /\ tasks' = [r EXCEPT ![t] = new]
  OBVIOUS
<1> HIDE DEF r
<1>4. Grounded(tasks')
  BY <1>2, <1>3, GroundedUpdate
<1> QED
  BY <1>1, <1>4 DEF Lawful

LEMMA ClaimLawful ==
  ASSUME Chained, TableOK(tasks), Grounded(tasks), NEW w \in Crew, Runtime!Claim(w, 0)
  PROVE  Lawful
<1> DEFINE r == Runtime!Reconcile(tasks, 0)
<1>1. CASE tasks' = r
  BY <1>1, ReconcileLawful
<1>2. ASSUME NEW t \in Tasks, Runtime!Ready(r, t), tasks' = [r EXCEPT ![t] = Runtime!Grant(r[t], w, 0)]
      PROVE  Lawful
  <2>1. RecordOK(t, r[t]) /\ r[t].status = "PENDING" /\ Provided(r, t)
    BY <1>2, ReconcileTable DEF TableOK, Runtime!Ready, Provided
  <2>2. RecordOK(t, Runtime!Grant(r[t], w, 0))
    BY <2>1, GrantRecord
  <2> QED
    BY <1>2, <2>1, <2>2, UpdateLawful DEF Settled
<1> QED
  BY <1>1, <1>2 DEF Runtime!Claim

LEMMA HeartbeatLawful ==
  ASSUME Chained, TableOK(tasks), Grounded(tasks), NEW w \in Crew, NEW t \in Tasks, NEW token,
         Runtime!Heartbeat(w, t, token, 0)
  PROVE  Lawful
<1> DEFINE n == LeaseSeconds - 0
           new == Runtime!WithLeft(tasks[t], n)
<1>1. RecordOK(t, tasks[t]) /\ tasks[t].status = "RUNNING" /\ n \in Int
  BY SupervisorAssumption DEF Runtime!Heartbeat, Runtime!HoldsLease, TableOK
<1>2. tasks' = [tasks EXCEPT ![t] = new]
  BY DEF Runtime!Heartbeat
<1> HIDE DEF n
<1>3. RecordOK(t, new)
  BY <1>1, LeftRecord
<1> HIDE DEF new
<1> QED
  BY <1>1, <1>2, <1>3, UpdateTable, GroundedUpdate DEF Lawful, Settled, Over

LEMMA FailLawful ==
  ASSUME Chained, TableOK(tasks), Grounded(tasks), NEW w, NEW t \in Tasks, NEW token,
         NEW class \in Runtime!FailureClasses, Runtime!Fail(w, t, token, class, 0)
  PROVE  Lawful
<1> DEFINE r == Runtime!Reconcile(tasks, 0)
           new == Runtime!GiveUp(t, r[t], class)
           ts == [r EXCEPT ![t] = new]
<1>1. Runtime!HoldsLease(r[t], w, token) /\ tasks' = Runtime!Reconcile(ts, 0)
  BY DEF Runtime!Fail
<1>2. RecordOK(t, r[t]) /\ r[t].status = "RUNNING"
  BY <1>1, HolderRecord DEF Runtime!HoldsLease
<1>3. RecordOK(t, new)
  BY <1>2, GiveUpRecord DEF Settled
<1>4. TableOK(r) /\ Kept(tasks, r) /\ Grounded(r)
  BY ReconcileTable, GroundedReconcile
<1> HIDE DEF r, new
<1>5. TableOK(ts) /\ Kept(r, ts) /\ Grounded(ts)
  BY <1>2, <1>3, <1>4, UpdateTable, GroundedUpdate DEF Settled, Over
<1> HIDE DEF ts
<1>6. Kept(ts, tasks') /\ Grounded(tasks')
  BY <1>1, <1>5, ReconcileTable, GroundedReconcile
<1> QED
  BY <1>4, <1>5, <1>6, KeptTwice DEF Lawful

LEMMA WaitLawful ==
  ASSUME Chained, TableOK(tasks), Grounded(tasks), NEW w, NEW t \in Tasks, NEW token, NEW request \in Requests,
         Runtime!WaitForHuman(w, t, token, request, 0)
  PROVE  Lawful
<1> DEFINE r == Runtime!Reconcile(tasks, 0)
<1>1. Runtime!HoldsLease(r[t], w, token) /\ tasks' = [r EXCEPT ![t] = Runtime!Ask(r[t], request)]
  BY DEF Runtime!WaitForHuman
<1>2. RecordOK(t, r[t]) /\ r[t].status = "RUNNING"
  BY <1>1, HolderRecord DEF Runtime!HoldsLease
<1>3. RecordOK(t, Runtime!Ask(r[t], request))
  BY <1>2, AskRecord DEF Settled
<1> QED
  BY <1>1, <1>2, <1>3, UpdateLawful DEF Settled, Over

LEMMA CompleteLawful ==
  ASSUME Chained, TableOK(tasks), Grounded(tasks), NEW w, NEW t \in Tasks, NEW token, NEW key \in AttemptNumbers,
         Runtime!Complete(w, t, token, key, 0)
  PROVE  Lawful
<1> DEFINE r == Runtime!Reconcile(tasks, 0)
<1>1. Runtime!HoldsLease(r[t], w, token) /\ tasks' = [r EXCEPT ![t] = Runtime!Finish(r[t], key)]
  BY DEF Runtime!Complete
<1>2. RecordOK(t, r[t]) /\ r[t].status = "RUNNING"
  BY <1>1, HolderRecord DEF Runtime!HoldsLease
<1>3. RecordOK(t, Runtime!Finish(r[t], key))
  BY <1>2, FinishRecord
<1> QED
  BY <1>1, <1>2, <1>3, UpdateLawful DEF Settled, Over

LEMMA HumanLawful ==
  ASSUME Chained, TableOK(tasks), Grounded(tasks), Runtime!HumanCall(0)
  PROVE  Lawful
<1> DEFINE r == Runtime!Reconcile(tasks, 0)
<1>1. CASE tasks' = r
  BY <1>1, ReconcileLawful
<1>2. ASSUME NEW t \in Tasks, NEW request \in Requests, NEW response \in Responses,
             Runtime!Awaits(r[t], request), tasks' = [r EXCEPT ![t] = Runtime!Answer(r[t], request, response)]
      PROVE  Lawful
  <2>1. RecordOK(t, r[t]) /\ r[t].status = "WAITING_HUMAN"
    BY <1>2, ReconcileTable DEF TableOK, Runtime!Awaits
  <2>2. RecordOK(t, Runtime!Answer(r[t], request, response))
    BY <2>1, AnswerRecord
  <2> QED
    BY <1>2, <2>1, <2>2, UpdateLawful DEF Settled, Over
<1> QED
  BY <1>1, <1>2 DEF Runtime!HumanCall, Runtime!ResolveHuman

LEMMA TickLawful ==
  ASSUME Chained, TableOK(tasks), Grounded(tasks), Runtime!Tick
  PROVE  Lawful
<1>1. Kept(tasks, tasks')
  BY TickSound DEF Sound
<1>2. ASSUME NEW t \in Tasks
      PROVE  tasks'[t].status = tasks[t].status
  <2>1. tasks[t] \in Runtime!TaskRecords
    BY DEF TableOK
  <2> QED
    BY <2>1 DEF Runtime!Tick, Runtime!WithLeft, Runtime!TaskRecords
<1>3. Grounded(tasks')
  BY <1>1, <1>2, GroundedKept
<1> QED
  BY <1>1, <1>3 DEF Lawful

LEMMA OthersLawful ==
  ASSUME Chained, TableOK(tasks), Grounded(tasks), Others
  PROVE  Lawful
<1>1. ASSUME NEW w \in Rivals, Runtime!WorkerCall(w, 0)
      PROVE  Lawful
  <2>1. w \in Crew
    BY DEF Crew
  <2>2. ASSUME NEW t \in Tasks, NEW key \in AttemptNumbers, Runtime!CompleteAgain(w, t, key, 0)
        PROVE  Lawful
    BY <2>2, ReconcileLawful DEF Runtime!CompleteAgain
  <2> QED
    BY <1>1, <2>1, <2>2, ClaimLawful, HeartbeatLawful, CompleteLawful, FailLawful, WaitLawful DEF Runtime!WorkerCall
<1> QED
  BY <1>1, HumanLawful, TickLawful DEF Others

LEMMA QuietLawful ==
  ASSUME Grounded(tasks), tasks' = tasks
  PROVE  Lawful
  BY DEF Lawful, Kept

(* The journal goes on naming the task it names.                           *)
KeepsTask == journal # None => journal' # None /\ journal'.task = journal.task

LEMMA EndKeepsTask ==
  ASSUME journal \in Journals, NEW status \in FinalStatuses \cup {"SHUTDOWN"}, End(status)
  PROVE  KeepsTask
<1>1. journal' \in Journals /\ journal'.task = journal.task
  BY DEF End, Journals
<1> QED
  BY <1>1, SupervisorAssumption DEF KeepsTask

LEMMA MoveChain ==
  ASSUME Chained, ChainInv, Lawful, KeepsTask, results' = results,
         pc' \in {"record", "work"} => Provided(tasks', work'.task)
  PROVE  ChainInv'
<1>1. ASSUME NEW t \in Tasks, Attempted(t)'
      PROVE  Provided(tasks', t) /\ (tasks'[t].status \notin Settled => journal' # None /\ journal'.task = t)
  <2>1. Attempted(t)
    BY <1>1 DEF Attempted
  <2>2. Provided(tasks, t) /\ (tasks[t].status \notin Settled => journal # None /\ journal.task = t)
    BY <2>1 DEF ChainInv
  <2>3. Provided(tasks', t)
    BY <2>2, ProvidedKept DEF Lawful
  <2>4. tasks'[t].status \notin Settled => tasks[t].status \notin Settled
    BY DEF Lawful, Kept
  <2> QED
    BY <2>2, <2>3, <2>4 DEF KeepsTask
<1> QED
  BY <1>1 DEF ChainInv, Lawful

LEMMA StartChain ==
  ASSUME Chained, IInv, ChainInv, NEW asked \in BOOLEAN, Start(asked)
  PROVE  ChainInv'
<1>1. Lawful /\ results' = results /\ pc' \in {"returned", "top"}
  BY QuietLawful DEF Start, Goto, ChainInv
<1>2. KeepsTask
  <2> SUFFICES ASSUME journal # None PROVE journal' # None /\ journal'.task = journal.task
    BY DEF KeepsTask
  <2>1. Reopened(journal) \in Journals /\ Reopened(journal).task = journal.task
    BY CountedType DEF Reopened, Journals
  <2> QED
    BY <2>1, SupervisorAssumption DEF Start
<1> QED
  BY <1>1, <1>2, MoveChain

(* The verdict of a run that ends without an outcome.                      *)
LEMMA ReasonType == "BLOCKED" \in FinalStatuses
  BY DEF FinalStatuses

LEMMA TopChain ==
  ASSUME Chained, IInv, ChainInv, Top \/ Peek \/ Conclude \/ Report \/ Note
  PROVE  ChainInv'
<1>1. journal \in Journals /\ TableOK(tasks) /\ Grounded(tasks) /\ results' = results
  BY CountedType DEF Top, Peek, Conclude, Report, Note, IInv, TypesOK, HandsOK, Stopped, ChainInv,
                        FinalStatuses
<1>2. Lawful
  BY <1>1, QuietLawful, ReconcileLawful DEF Top, Peek, Conclude, Report, Note, runtime, Runtime!Resume
<1>3. pc' \notin {"record", "work"}
  BY OutcomeTrue DEF Top, Peek, Conclude, Report, Note, End, Goto, FinalStatuses
<1>4. KeepsTask
  <2>1. ASSUME NEW status \in {"RUNNING", "FAILED"}, journal' = [journal EXCEPT !.status = status]
        PROVE  KeepsTask
    <3>1. journal' \in Journals /\ journal'.task = journal.task
      BY <1>1, <2>1 DEF Journals, FinalStatuses
    <3> QED
      BY <3>1, SupervisorAssumption DEF KeepsTask
  <2>2. CASE journal' = journal
    BY <2>2 DEF KeepsTask
  <2>3. ASSUME NEW status \in FinalStatuses \cup {"SHUTDOWN"}, End(status)
        PROVE  KeepsTask
    BY <1>1, <2>3, EndKeepsTask
  <2> QED
    <3>1. CASE Top
      BY <2>2, <2>3, <3>1, ReasonType DEF Top
    <3>2. CASE Peek \/ Conclude
      BY <2>2, <3>2 DEF Peek, Conclude
    <3>3. CASE Report
      BY <2>3, <3>3 DEF Report
    <3>4. CASE Note
      BY <2>1, <2>2, <2>3, <3>4 DEF Note, FinalStatuses
    <3> QED
      BY <3>1, <3>2, <3>3, <3>4
<1> QED
  BY <1>1, <1>2, <1>3, <1>4, MoveChain

LEMMA ClaimChain ==
  ASSUME Chained, IInv, ChainInv, Claim
  PROVE  ChainInv'
<1>1. journal \in Journals /\ TableOK(tasks) /\ Grounded(tasks) /\ results' = results
  BY CountedType DEF Claim, IInv, TypesOK, HandsOK, Stopped, ChainInv
<1>2. Lawful
  BY <1>1, QuietLawful, ClaimLawful DEF Claim, runtime, Crew
<1>3. ASSUME NEW status \in FinalStatuses \cup {"SHUTDOWN"}, End(status)
      PROVE  ChainInv'
  <2>1. KeepsTask /\ pc' = "ended"
    BY <1>1, <1>3, EndKeepsTask DEF End, Goto
  <2> QED
    BY <1>1, <1>2, <2>1, MoveChain
<1>4. ASSUME Goto("record"), UNCHANGED journal, NEW t \in Tasks, tasks'[t].status = "RUNNING", work'.task = t
      PROVE  ChainInv'
  <2>1. KeepsTask
    BY <1>4 DEF KeepsTask
  <2>2. Provided(tasks', work'.task)
    BY <1>2, <1>4 DEF Lawful, Grounded, Over
  <2> QED
    BY <1>1, <1>2, <2>1, <2>2, MoveChain
<1>5. ASSUME Goto("conclude"), UNCHANGED journal
      PROVE  ChainInv'
  <2>1. KeepsTask /\ pc' = "conclude"
    BY <1>5 DEF KeepsTask, Goto
  <2> QED
    BY <1>1, <1>2, <2>1, MoveChain
<1>6. ASSUME NEW t \in Tasks, Held(t), work'.task = t, Begin(tasks[t]), UNCHANGED runtime
      PROVE  ChainInv'
  BY <1>3, <1>4, <1>6, ReasonType DEF Begin, Held, runtime
<1>7. ASSUME NEW t \in Tasks, tasks'[t].status = "RUNNING", work'.task = t, Begin(tasks'[t])
      PROVE  ChainInv'
  BY <1>3, <1>4, <1>7, ReasonType DEF Begin
<1> QED
  BY <1>1, <1>2, <1>6, <1>7, <1>5 DEF Claim

(* The task in hand is running: a result that waits is its own.            *)
LEMMA RecordChain ==
  ASSUME Chained, IInv, ChainInv, ReadsInTime, Record
  PROVE  ChainInv'
<1> DEFINE a == AttemptId(work.task)
<1>1. /\ pc = "record" /\ UNCHANGED <<tasks, results>>
      /\ work' = [work EXCEPT !.attempt = a]
      /\ journal' = [journal EXCEPT !.task = work.task, !.attempt = a, !.processed = @ + 1]
  BY DEF Record
<1>2. /\ TableOK(tasks) /\ work \in Works /\ work.task \in Tasks /\ journal # None /\ journal \in Journals
      /\ Provided(tasks, work.task)
  BY <1>1, CountedType DEF IInv, TypesOK, HandsOK, Stopped, ChainInv
<1> HIDE DEF a
<1>3. work'.task = work.task /\ journal'.task = work.task
  BY <1>1, <1>2 DEF Works, Journals
<1>4. journal' # None
  <2>1. IInv' /\ pc' = "work"
    BY RecordStepOK DEF Record, Goto
  <2> QED
    BY <2>1 DEF IInv, HandsOK, Stopped
<1>5. tasks[work.task].status = "RUNNING"
  BY <1>1, <1>2, StillRunning DEF ReadsInTime
<1>6. ASSUME NEW t \in Tasks, Attempted(t), tasks[t].status \notin Settled
      PROVE  t = work.task
  <2>1. Provided(tasks, t) /\ Grounded(tasks)
    BY <1>6 DEF ChainInv
  <2>2. t \notin Needs(work.task)
    BY <1>2, <1>6, <2>1, NeedsSucceeded DEF Settled
  <2>3. work.task \notin Needs(t)
    BY <1>2, <1>5, <2>1, NeedsSucceeded
  <2> QED
    BY <1>2, <2>2, <2>3 DEF Chained
<1> QED
  BY <1>1, <1>2, <1>3, <1>4, <1>6 DEF ChainInv, Attempted

LEMMA WorkChain ==
  ASSUME Chained, IInv, TurnInv, ChainInv, Work
  PROVE  ChainInv'
<1>1. /\ UNCHANGED <<tasks, work>> /\ pc = "work" /\ work.task \in Tasks /\ work.attempt \in AttemptNumbers
      /\ journal # None /\ journal \in Journals /\ Provided(tasks, work.task)
  BY CountedType DEF Work, IInv, TypesOK, HandsOK, Stopped, ChainInv
<1>2. Lawful
  BY <1>1, QuietLawful DEF ChainInv
<1>3. CASE Goto("result") /\ UNCHANGED <<journal, results>>
  BY <1>2, <1>3, MoveChain DEF Goto, KeepsTask
<1>4. CASE End("BLOCKED") /\ UNCHANGED results
  BY <1>1, <1>2, <1>4, ReasonType, EndKeepsTask, MoveChain DEF End, Goto
<1>5. ASSUME NEW r \in Results, results' = [results EXCEPT ![work.task][work.attempt] = r], Goto("result"),
             UNCHANGED journal
      PROVE  ChainInv'
  <2>1. \A t \in Tasks : t # work.task => results'[t] = results[t]
    BY <1>1, <1>5 DEF IInv, TypesOK
  <2>2. \A t \in Tasks : Attempted(t)' => Attempted(t) \/ t = work.task
    BY <2>1 DEF Attempted
  <2>3. journal.task = work.task
    BY <1>1 DEF TurnInv, InHand
  <2> QED
    BY <1>1, <1>5, <2>2, <2>3 DEF ChainInv, Goto
<1> QED
  BY <1>3, <1>4, <1>5 DEF Work

(* A call that charges the attempt, or finds the lease lost.               *)
LEMMA FailureChain ==
  ASSUME Chained, IInv, ChainInv, NEW class \in {"VALIDATION", "LEASE_EXPIRED", "PERMANENT"}, HandleFailure(class),
         pc \in {"work", "result", "accept"}, results' = results
  PROVE  ChainInv'
<1>1. work.task \in Tasks /\ journal \in Journals /\ TableOK(tasks) /\ Grounded(tasks)
  BY CountedType DEF IInv, TypesOK, HandsOK, Stopped, ChainInv
<1>2. class \in Runtime!FailureClasses
  BY SupervisorAssumption DEF Runtime!FailureClasses
<1>3. CASE Runtime!Fail(Self, work.task, work.token, class, 0) /\ Goto("failed") /\ UNCHANGED journal
  <2>1. Lawful
    BY <1>1, <1>2, <1>3, FailLawful
  <2> QED
    BY <1>3, <2>1, MoveChain DEF KeepsTask, Goto
<1>4. CASE End("BLOCKED") /\ UNCHANGED runtime
  <2>1. Lawful /\ pc' = "ended"
    BY <1>1, <1>4, QuietLawful DEF runtime, End, Goto
  <2> QED
    BY <1>1, <1>4, <2>1, ReasonType, EndKeepsTask, MoveChain
<1> QED
  BY <1>3, <1>4 DEF HandleFailure

LEMMA ResultChain ==
  ASSUME Chained, IInv, ChainInv, Result
  PROVE  ChainInv'
<1> DEFINE result == ResultOf(work.task, work.attempt)
<1>1. results' = results /\ pc = "result" /\ work.task \in Tasks /\ TableOK(tasks) /\ Grounded(tasks)
  BY DEF Result, IInv, TypesOK, HandsOK, Stopped, ChainInv
<1>2. CASE (Goto("accept") \/ Goto("crashed")) /\ UNCHANGED <<tasks, journal>>
  BY <1>1, <1>2, QuietLawful, MoveChain DEF KeepsTask, Goto
<1>3. CASE result \in WorkerFailures /\ HandleFailure(result)
  <2>1. result \in {"VALIDATION", "LEASE_EXPIRED", "PERMANENT"}
    BY <1>3 DEF WorkerFailures
  <2> HIDE DEF result
  <2> QED
    BY <1>1, <1>3, <2>1, FailureChain
<1>4. ASSUME NEW q \in Requests, Runtime!WaitForHuman(Self, work.task, work.token, q, 0), Goto("waiting"),
             UNCHANGED journal
      PROVE  ChainInv'
  <2>1. Lawful
    BY <1>1, <1>4, WaitLawful
  <2> QED
    BY <1>1, <1>4, <2>1, MoveChain DEF KeepsTask, Goto
<1> QED
  BY <1>2, <1>3, <1>4 DEF Result

LEMMA AcceptChain ==
  ASSUME Chained, IInv, ChainInv, Accept
  PROVE  ChainInv'
<1>1. /\ results' = results /\ pc = "accept" /\ work.task \in Tasks /\ work.attempt \in AttemptNumbers
      /\ TableOK(tasks) /\ Grounded(tasks)
  BY DEF Accept, IInv, TypesOK, HandsOK, Stopped, ChainInv
<1>2. CASE Runtime!Complete(Self, work.task, work.token, work.attempt, 0) /\ Goto("completed") /\ UNCHANGED journal
  <2>1. Lawful
    BY <1>1, <1>2, CompleteLawful
  <2> QED
    BY <1>1, <1>2, <2>1, MoveChain DEF KeepsTask, Goto
<1>3. CASE HandleFailure("VALIDATION")
  BY <1>1, <1>3, FailureChain
<1> QED
  BY <1>2, <1>3 DEF Accept

LEMMA HeartbeatFailsChain ==
  ASSUME Chained, IInv, ChainInv, HeartbeatFails
  PROVE  ChainInv'
<1>1. results' = results /\ pc = "work" /\ journal \in Journals /\ Grounded(tasks)
  BY CountedType DEF HeartbeatFails, IInv, TypesOK, HandsOK, Stopped, ChainInv
<1>2. CASE End("SHUTDOWN") /\ UNCHANGED runtime
  BY <1>1, <1>2, QuietLawful, EndKeepsTask, MoveChain DEF runtime, End, Goto
<1>3. CASE HandleFailure("LEASE_EXPIRED")
  BY <1>1, <1>3, FailureChain
<1> QED
  BY <1>2, <1>3 DEF HeartbeatFails

(* The task in hand stays the same.                                        *)
LEMMA EnvironmentChain ==
  ASSUME Chained, IInv, ChainInv, Heartbeat \/ Crash \/ Signal \/ Others \/ UNCHANGED vars
  PROVE  ChainInv'
<1>1. UNCHANGED <<journal, results, work>> /\ (pc' = pc \/ pc' = "crashed")
  BY DEF Heartbeat, Crash, Signal, Others, vars, Goto
<1>2. TableOK(tasks) /\ Grounded(tasks) /\ (pc \in {"record", "work"} => work.task \in Tasks)
  BY DEF IInv, TypesOK, HandsOK, Stopped, ChainInv
<1>3. Lawful
  <2>1. CASE Heartbeat
    BY <1>2, <2>1, HeartbeatLawful DEF Heartbeat, Crew
  <2>2. CASE Crash \/ Signal \/ Others \/ UNCHANGED vars
    BY <1>2, <2>2, OthersLawful, QuietLawful DEF Crash, Signal, vars
  <2> QED
    BY <2>1, <2>2
<1>4. pc' \in {"record", "work"} => Provided(tasks', work'.task)
  BY <1>1, <1>2, <1>3, ProvidedKept DEF Lawful, ChainInv
<1> QED
  BY <1>1, <1>3, <1>4, MoveChain DEF KeepsTask

(* On a chain a result found under the journal's attempt is of the task in *)
(* hand.                                                                   *)
LEMMA ChainAdopts ==
  ASSUME IInv, ChainInv, ReadsInTime
  PROVE  AdoptsOwn
<1> SUFFICES ASSUME pc = "record", AttemptId(work.task) # tasks[work.task].attempts
             PROVE  journal.task = work.task
  BY DEF AdoptsOwn
<1>1. TableOK(tasks) /\ work.task \in Tasks /\ journal \in Journals
  BY CountedType DEF IInv, TypesOK, HandsOK, Stopped
<1>2. tasks[work.task].status = "RUNNING"
  BY <1>1, StillRunning DEF ReadsInTime
<1>3. Attempted(work.task)
  BY <1>1 DEF AttemptId, Attempted, ResultOf, Journals
<1> QED
  BY <1>1, <1>2, <1>3 DEF ChainInv, Settled
-----------------------------------------------------------------------------
(* Results.                                                                *)

(* The inductive invariant.                                                *)
THEOREM InvariantHolds == Spec => []IInv
<1>1. Init => IInv
  BY InitOK
<1>2. IInv /\ [Next]_vars => IInv'
  BY StartOK, TopOK, PeekOK, ConcludeOK, ReportOK, ClaimOK, RecordStepOK, WorkOK, BeatOK, HeartbeatFailsOK,
     ResultStepOK, AcceptOK, NoteOK, EnvironmentOK DEF Next, Proceed
<1> QED
  BY <1>1, <1>2, PTL DEF Spec

(* Shapes, for every instance.                                             *)
THEOREM TypeCorrect == Spec => []TypeOK
<1>1. IInv => TypeOK
  BY DEF IInv, TypesOK, TableOK, HandsOK, FinalStatuses, TypeOK
<1> QED
  BY <1>1, InvariantHolds, PTL

(* A task the run completes succeeds on a result of its own that said so,  *)
(* whatever result a resumed run finds under whatever attempt.             *)
THEOREM SuccessIsOwn == Spec => []SucceededOnOwnResult
<1>1. IInv => SucceededOnOwnResult
  BY DEF IInv, OwnOK, OwnSuccess, SucceededOnOwnResult, ResultOf
<1> QED
  BY <1>1, InvariantHolds, PTL

(* What the journal reports as final is final for the tasks too.           *)
THEOREM JournalTellsTruth == Spec => []OutcomeIsTrue
<1>1. IInv => OutcomeIsTrue
  BY DEF IInv
<1> QED
  BY <1>1, InvariantHolds, PTL

(* Over all deaths and restarts, no more attempts are made than the        *)
(* journal counts, nor more than max_tasks.                                *)
THEOREM WorkStaysBounded == Spec => []WorkIsBounded
<1>1. IInv => WorkIsBounded
  <2> SUFFICES ASSUME IInv, journal # None
               PROVE  /\ Cardinality({p \in Tasks \X AttemptNumbers : results[p[1]][p[2]] # None}) <= journal.processed
                      /\ journal.processed <= MaxTasks
    BY DEF WorkIsBounded
  <2>1. Cardinality(Done) <= Counted /\ Counted <= MaxTasks /\ Counted = journal.processed
    BY CountedType DEF IInv, CountOK
  <2> QED
    BY <2>1 DEF Done
<1> QED
  BY <1>1, InvariantHolds, PTL

(* The waiting results, from the start and over every step.                *)
LEMMA TurnsBegin ==
  ASSUME Init
  PROVE  TurnInv
  BY SupervisorAssumption
     DEF Init, Runtime!Init, Runtime!NewTask, TurnInv, AllBegun, Begun, Waiting, Unspent, InHand, OnTurn

LEMMA TurnsGoOn ==
  ASSUME IInv, TurnInv, ReadsInTime, AdoptsOwn, [Next]_vars
  PROVE  TurnInv'
  BY StartTurns, TopTurns, PeekTurns, ReportTurns, ClaimStepTurns, RecordTurns, WorkTurns, BeatTurns,
     HeartbeatFailsTurns, ResultTurns, AcceptTurns, NoteTurns, EnvironmentTurns DEF Next, Proceed

LEMMA TurnsAbandonNothing ==
  ASSUME IInv, TurnInv
  PROVE  NoResultAbandoned
<1> SUFFICES ASSUME pc = "work", StillHeld, ResultOf(work.task, work.attempt) = None,
                    \A r \in retired : r.task = work.task => r.owner = Self,
                    NEW a \in AttemptNumbers, ResultOf(work.task, a) # None
             PROVE  consumed[work.task][a] > 0
  BY DEF NoResultAbandoned
<1>1. /\ work.task \in Tasks /\ journal # None /\ TableOK(tasks) /\ AllBegun(tasks)
      /\ consumed[work.task][a] \in 0..2
  BY DEF IInv, TypesOK, HandsOK, Stopped, TurnInv
<1>2. tasks[work.task].status \in Active
  BY <1>1, HolderTurns DEF StillHeld
<1>3. ~Unspent(work.task, a)
  BY <1>1, <1>2 DEF TurnInv, Waiting, InHand, Ours, ResultOf
<1> QED
  BY <1>1, <1>3 DEF Unspent, ResultOf

(* docs/agent-runtime-guide.md, line 160: a result that is complete is not *)
(* produced again.  No worker runs for a task while a result for it waits, *)
(* however often the run dies, its leases expire and people are asked; as  *)
(* long as the process reads the attempts while it holds the lease, and a  *)
(* resumed run takes no attempt of another task for its own.               *)
THEOREM NoResultIsAbandoned == Spec /\ [](ReadsInTime /\ AdoptsOwn) => []NoResultAbandoned
<1>1. Init => TurnInv
  BY TurnsBegin
<1>2. IInv /\ TurnInv /\ (ReadsInTime /\ AdoptsOwn) /\ [Next]_vars => TurnInv'
  BY TurnsGoOn
<1>3. IInv /\ TurnInv => NoResultAbandoned
  BY TurnsAbandonNothing
<1> QED
  BY <1>1, <1>2, <1>3, InvariantHolds, PTL DEF Spec

(* The same of every plan that is a chain, of whatever length: there is    *)
(* never another task's attempt to take, and time is the only condition.   *)
THEOREM ChainsAbandonNoResult ==
  ASSUME Chained
  PROVE  Spec /\ []ReadsInTime => []NoResultAbandoned
<1>1. Init => TurnInv /\ ChainInv
  <2> SUFFICES ASSUME Init PROVE ChainInv
    BY TurnsBegin
  <2>1. \A t \in Tasks : tasks[t].status = "PENDING"
    BY DEF Init, Runtime!Init, Runtime!NewTask
  <2>2. pc = "ended" /\ \A t \in Tasks : ~Attempted(t)
    BY DEF Init, Attempted
  <2> QED
    BY <2>1, <2>2 DEF ChainInv, Grounded, Over
<1>2. IInv /\ TurnInv /\ ChainInv /\ ReadsInTime /\ [Next]_vars => TurnInv' /\ ChainInv'
  BY ChainAdopts, TurnsGoOn, StartChain, TopChain, ClaimChain, RecordChain, WorkChain, ResultChain, AcceptChain,
     HeartbeatFailsChain, EnvironmentChain DEF Next, Proceed
<1>3. IInv /\ TurnInv => NoResultAbandoned
  BY TurnsAbandonNothing
<1> QED
  BY <1>1, <1>2, <1>3, InvariantHolds, PTL DEF Spec
-----------------------------------------------------------------------------
(* The run as behaviour of the runtime.                                    *)

(* A call of the runtime as the runtime knows it, or none.                 *)
Called == [Runtime!Next]_(Runtime!vars)

LEMMA NothingCalled ==
  ASSUME UNCHANGED runtime
  PROVE  Called
BY DEF Called, Runtime!vars, runtime

(* A lease that is in force after a reconciliation was so before.          *)
LEMMA HolderKnown ==
  ASSUME NEW t \in Tasks, NEW w, NEW token, Runtime!HoldsLease(Runtime!Reconcile(tasks, 0)[t], w, token)
  PROVE  token \in Runtime!KnownTokens(t)
<1> DEFINE mid == Runtime!Expire(tasks, 0)
           new == Runtime!Block(mid)
<1>1. mid[t] = IF Runtime!Expired(tasks[t], 0) THEN Runtime!ExpireTask(t, tasks[t]) ELSE tasks[t]
  BY DEF Runtime!Expire
<1> HIDE DEF mid
<1>2. new[t] = IF t \in Runtime!Doomed(mid)
               THEN [mid[t] EXCEPT !.status = "BLOCKED", !.failure = "DEPENDENCY_FAILED"]
               ELSE mid[t]
  BY DEF Runtime!Block
<1>3. Runtime!HoldsLease(new[t], w, token)
  BY DEF Runtime!Reconcile, mid, new
<1> HIDE DEF new
<1>4. mid[t].status = "RUNNING" /\ mid[t].lease.token = token
  BY <1>2, <1>3 DEF Runtime!HoldsLease
<1>5. mid[t] = tasks[t]
  BY <1>1, <1>4 DEF Runtime!ExpireTask
<1> QED
  BY <1>4, <1>5 DEF Runtime!KnownTokens

LEMMA WorkerCalled ==
  ASSUME NEW w \in Crew, Runtime!WorkerCall(w, 0)
  PROVE  Called
BY DEF Called, Runtime!Next, Runtime!Delays, Crew

LEMMA ClaimCalled ==
  ASSUME Runtime!Claim(Self, 0)
  PROVE  Called
<1>1. Runtime!WorkerCall(Self, 0) /\ Self \in Crew
  BY DEF Runtime!WorkerCall, Crew
<1> QED
  BY <1>1, WorkerCalled

LEMMA ResumeCalled ==
  ASSUME Runtime!Resume(0)
  PROVE  Called
BY DEF Called, Runtime!Next, Runtime!Delays

LEMMA HeartbeatCalled ==
  ASSUME NEW t \in Tasks, NEW token, Runtime!Heartbeat(Self, t, token, 0)
  PROVE  Called
<1>1. token \in Runtime!KnownTokens(t)
  BY DEF Runtime!Heartbeat, Runtime!HoldsLease, Runtime!KnownTokens
<1>2. Runtime!WorkerCall(Self, 0) /\ Self \in Crew
  BY <1>1 DEF Runtime!WorkerCall, Crew
<1> QED
  BY <1>2, WorkerCalled

LEMMA CompleteCalled ==
  ASSUME NEW t \in Tasks, NEW token, NEW key \in AttemptNumbers, Runtime!Complete(Self, t, token, key, 0)
  PROVE  Called
<1>1. token \in Runtime!KnownTokens(t)
  BY HolderKnown DEF Runtime!Complete
<1>2. Runtime!WorkerCall(Self, 0) /\ Self \in Crew
  BY <1>1 DEF Runtime!WorkerCall, Crew
<1> QED
  BY <1>2, WorkerCalled

LEMMA FailCalled ==
  ASSUME NEW t \in Tasks, NEW token, NEW class \in {"VALIDATION", "LEASE_EXPIRED", "PERMANENT"},
         Runtime!Fail(Self, t, token, class, 0)
  PROVE  Called
<1>1. token \in Runtime!KnownTokens(t) /\ class \in Runtime!FailureClasses
  BY HolderKnown, SupervisorAssumption DEF Runtime!Fail, Runtime!FailureClasses
<1>2. Runtime!WorkerCall(Self, 0) /\ Self \in Crew
  BY <1>1 DEF Runtime!WorkerCall, Crew
<1> QED
  BY <1>2, WorkerCalled

LEMMA WaitCalled ==
  ASSUME NEW t \in Tasks, NEW token, NEW q \in Requests, Runtime!WaitForHuman(Self, t, token, q, 0)
  PROVE  Called
<1>1. token \in Runtime!KnownTokens(t)
  BY HolderKnown DEF Runtime!WaitForHuman
<1>2. Runtime!WorkerCall(Self, 0) /\ Self \in Crew
  BY <1>1 DEF Runtime!WorkerCall, Crew
<1> QED
  BY <1>2, WorkerCalled

LEMMA FailureCalled ==
  ASSUME NEW class \in {"VALIDATION", "LEASE_EXPIRED", "PERMANENT"}, HandleFailure(class), work.task \in Tasks
  PROVE  Called
BY FailCalled, NothingCalled DEF HandleFailure

(* With a task in its hands, and an attempt of that task.                  *)
LEMMA ProceedCalled ==
  ASSUME HandsOK, Proceed
  PROVE  Called
<1>1. CASE Top
  BY <1>1, ResumeCalled, NothingCalled DEF Top
<1>2. CASE Peek \/ Conclude \/ Report \/ Record \/ Work \/ Note
  BY <1>2, NothingCalled DEF Peek, Conclude, Report, Record, Work, Note, runtime
<1>3. CASE Claim
  BY <1>3, ClaimCalled, NothingCalled DEF Claim, runtime
<1>4. CASE HeartbeatFails
  <2>1. work.task \in Tasks
    BY <1>4 DEF HeartbeatFails, HandsOK, Stopped
  <2> QED
    BY <1>4, <2>1, FailureCalled, NothingCalled DEF HeartbeatFails
<1>5. CASE Result
  <2>1. work.task \in Tasks
    BY <1>5 DEF Result, HandsOK, Stopped
  <2>2. ResultOf(work.task, work.attempt) \in WorkerFailures =>
          ResultOf(work.task, work.attempt) \in {"VALIDATION", "LEASE_EXPIRED", "PERMANENT"}
    BY DEF WorkerFailures
  <2> QED
    BY <1>5, <2>1, <2>2, FailureCalled, WaitCalled, NothingCalled DEF Result, runtime
<1>6. CASE Accept
  <2>1. work.task \in Tasks /\ work.attempt \in AttemptNumbers
    BY <1>6 DEF Accept, HandsOK, Stopped
  <2> QED
    BY <1>6, <2>1, FailureCalled, CompleteCalled DEF Accept
<1> QED
  BY <1>1, <1>2, <1>3, <1>4, <1>5, <1>6 DEF Proceed

LEMMA OthersCalled ==
  ASSUME Others
  PROVE  Called
<1>1. CASE \E w \in Rivals : Runtime!WorkerCall(w, 0)
  BY <1>1, WorkerCalled DEF Crew
<1>2. CASE Runtime!HumanCall(0) \/ Runtime!Tick
  BY <1>2 DEF Called, Runtime!Next, Runtime!Delays
<1> QED
  BY <1>1, <1>2 DEF Others

LEMMA StepCalled ==
  ASSUME HandsOK, [Next]_vars
  PROVE  Called
<1>1. CASE Proceed
  BY <1>1, ProceedCalled
<1>2. CASE Heartbeat
  <2>1. work.task \in Tasks
    BY <1>2 DEF Heartbeat, HandsOK, Stopped
  <2> QED
    BY <1>2, <2>1, HeartbeatCalled DEF Heartbeat
<1>3. CASE Others
  BY <1>3, OthersCalled
<1>4. CASE (\E asked \in BOOLEAN : Start(asked)) \/ Crash \/ Signal \/ UNCHANGED vars
  BY <1>4, NothingCalled DEF Start, Crash, Signal, vars, runtime
<1> QED
  BY <1>1, <1>2, <1>3, <1>4 DEF Next

(* For any tasks, plan, limits and rivals, and over all deaths and         *)
(* resumptions, whatever happens to the tasks in a run are whole calls of  *)
(* the runtime, with a lease in force and arguments its policy allows.     *)
THEOREM RuntimeIsKept == Spec => RuntimeKept
<1>1. Init => Runtime!Init
  BY DEF Init
<1>2. IInv /\ [Next]_vars => [Runtime!Next]_(Runtime!vars)
  BY StepCalled DEF IInv, Called
<1> QED
  BY <1>1, <1>2, InvariantHolds, PTL DEF Spec, RuntimeKept, Runtime!Spec
=============================================================================
