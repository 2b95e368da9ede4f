------------------------- MODULE TaskRuntime_proofs -------------------------
(***************************************************************************)
(* Proofs about TaskRuntime, for every plan, worker set and policy.        *)
(*                                                                         *)
(* The inductive invariant is a statement about one record, RecordOK, plus *)
(* a statement that places every retired lease strictly before the tokens  *)
(* its task can still mint.  Every operation first reconciles the table,   *)
(* so the lemmas about Expire and Block come first and each action only    *)
(* has to look at the one record it changes afterwards.                    *)
(***************************************************************************)
EXTENDS TaskRuntime, TLAPS

RecordOK(t, rec, c) ==
  /\ rec \in TaskRecords
  /\ rec.lease # None <=> rec.status = "RUNNING"
  /\ rec.attempts = c + (IF rec.status \in {"RUNNING", "SUCCEEDED"} THEN 1 ELSE 0)
  /\ c <= MaxAttempts[t]
  /\ rec.status \notin Dead => c < MaxAttempts[t]
  /\ rec.status = "RUNNING" => rec.lease.token = Token(rec.attempts, rec.lease_expiries)
  /\ rec.response # None => rec.status # "WAITING_HUMAN" /\ rec.response.request = rec.request

TableOK(ts, ch) ==
  /\ ts \in [Tasks -> TaskRecords]
  /\ ch \in [Tasks -> Nat]
  /\ \A t \in Tasks : RecordOK(t, ts[t], ch[t])

(* A retired lease lies before the record: an expiry ago, or on an attempt *)
(* that has been charged since; a completed one leaves a finished task.    *)
Before(h, rec, c) ==
  /\ h.how \in {"EXPIRED", "FAILED"} =>
       \/ h.token.expiry < rec.lease_expiries
       \/ h.token.expiry = rec.lease_expiries /\ h.token.attempt <= c
  /\ h.how = "SUCCEEDED" => rec.status = "SUCCEEDED"

IInv ==
  /\ TableOK(tasks, charged)
  /\ current_task \in Tasks \cup {None}
  /\ alive \subseteq Workers
  /\ retired \subseteq Handles
  /\ \A h \in retired : Before(h, tasks[h.task], charged[h.task])

-----------------------------------------------------------------------------
(* What the parts of _reconcile do to one record.                          *)

LEMMA UpdateRecord ==
  ASSUME NEW rec \in TaskRecords, NEW s \in Statuses, NEW n \in Nat, NEW e \in Nat,
         NEW l \in Leases \cup {None}, NEW f \in Failures
  PROVE  [rec EXCEPT !.lease = l, !.lease_expiries = e, !.attempts = n, !.failure = f, !.status = s] \in TaskRecords
  BY DEF TaskRecords

LEMMA UpdateRecordSameExpiries ==
  ASSUME NEW rec \in TaskRecords, NEW s \in Statuses, NEW n \in Nat,
         NEW l \in Leases \cup {None}, NEW f \in Failures
  PROVE  [rec EXCEPT !.attempts = n, !.status = s, !.lease = l, !.failure = f] \in TaskRecords
  BY DEF TaskRecords

LEMMA ExpireRecord ==
  ASSUME NEW t \in Tasks, NEW rec, NEW c \in Nat, RecordOK(t, rec, c), rec.status = "RUNNING"
  PROVE  /\ RecordOK(t, ExpireTask(t, rec), c)
         /\ ExpireTask(t, rec).status = "PENDING"
         /\ ExpireTask(t, rec).lease_expiries = rec.lease_expiries + 1
<1> DEFINE new == ExpireTask(t, rec)
<1>1. MaxAttempts[t] \in Nat /\ c < MaxAttempts[t] /\ rec.attempts = c + 1
  BY TaskAssumption DEF RecordOK, Dead
<1>2. Min0(rec.attempts - 1) = c
  BY <1>1 DEF Min0
<1>3. new = [rec EXCEPT !.lease = None, !.lease_expiries = @ + 1, !.attempts = c,
                        !.failure = "LEASE_EXPIRED", !.status = "PENDING"]
  BY <1>1, <1>2 DEF ExpireTask
<1> HIDE DEF new
<1>r. rec \in TaskRecords
  BY DEF RecordOK
<1>4. new \in TaskRecords
  <2>1. rec.lease_expiries + 1 \in Nat /\ "LEASE_EXPIRED" \in Failures /\ "PENDING" \in Statuses
    BY <1>r DEF TaskRecords, Statuses, Failures
  <2> QED
    BY <1>3, <1>r, <2>1, UpdateRecord
<1>5. /\ new.status = "PENDING" /\ new.lease = None /\ new.attempts = c
      /\ new.lease_expiries = rec.lease_expiries + 1
      /\ new.response = rec.response /\ new.request = rec.request
  BY <1>3 DEF RecordOK, TaskRecords
<1> HIDE DEF new
<1>6. RecordOK(t, new, c)
  BY <1>1, <1>4, <1>5 DEF RecordOK, Dead
<1> QED
  BY <1>5, <1>6 DEF new

LEMMA BlockRecord ==
  ASSUME NEW t \in Tasks, NEW rec, NEW c \in Nat, RecordOK(t, rec, c), rec.status = "PENDING"
  PROVE  RecordOK(t, [rec EXCEPT !.status = "BLOCKED", !.failure = "DEPENDENCY_FAILED"], c)
  BY TaskAssumption, NoneAssumption
     DEF RecordOK, TaskRecords, Statuses, Failures, Dead

LEMMA GrantRecord ==
  ASSUME NEW t \in Tasks, NEW rec, NEW c \in Nat, NEW w \in Workers, NEW delay \in Delays,
         RecordOK(t, rec, c), rec.status = "PENDING"
  PROVE  /\ RecordOK(t, Grant(rec, w, delay), c)
         /\ Grant(rec, w, delay).status = "RUNNING"
         /\ Grant(rec, w, delay).lease_expiries = rec.lease_expiries
<1> DEFINE token == Token(rec.attempts + 1, rec.lease_expiries)
           lease == [owner |-> w, token |-> token, left |-> LeaseSeconds - delay]
           new == [rec EXCEPT !.attempts = @ + 1, !.status = "RUNNING", !.lease = lease, !.failure = None]
<1>1. MaxAttempts[t] \in Nat /\ c < MaxAttempts[t] /\ rec.attempts = c /\ rec.lease_expiries \in Nat
  BY TaskAssumption DEF RecordOK, Dead, TaskRecords
<1>2. token \in Tokens /\ lease \in Leases
  BY <1>1, PolicyAssumption DEF Token, Tokens, Leases, Delays
<1>3. lease # None /\ lease.token = token
  BY <1>2, NoneAssumption
<1> HIDE DEF lease
<1>r. rec \in TaskRecords
  BY DEF RecordOK
<1>4. new \in TaskRecords
  <2>1. rec.attempts + 1 \in Nat /\ None \in Failures /\ "RUNNING" \in Statuses /\ lease \in Leases \cup {None}
    BY <1>1, <1>2 DEF Statuses, Failures
  <2> QED
    BY <1>1, <1>r, <2>1, UpdateRecordSameExpiries
<1>5. /\ new.status = "RUNNING" /\ new.lease = lease /\ new.attempts = c + 1
      /\ new.lease_expiries = rec.lease_expiries
      /\ new.response = rec.response /\ new.request = rec.request
  BY <1>1 DEF RecordOK, TaskRecords
<1>6. Grant(rec, w, delay) = new
  BY DEF Grant, lease
<1> HIDE DEF new
<1>7. RecordOK(t, new, c)
  BY <1>1, <1>3, <1>4, <1>5 DEF RecordOK, Dead
<1> QED
  BY <1>5, <1>6, <1>7

LEMMA LeftRecord ==
  ASSUME NEW t \in Tasks, NEW rec, NEW c \in Nat, NEW n \in Int,
         RecordOK(t, rec, c), rec.status = "RUNNING"
  PROVE  /\ RecordOK(t, WithLeft(rec, n), c)
         /\ WithLeft(rec, n).status = "RUNNING"
         /\ WithLeft(rec, n).lease_expiries = rec.lease_expiries
<1> DEFINE lease == [rec.lease EXCEPT !.left = n]
           new == [rec EXCEPT !.lease = lease]
<1>1. rec \in TaskRecords /\ rec.lease \in Leases
  BY NoneAssumption DEF RecordOK, TaskRecords
<1>2. lease \in Leases /\ lease.token = rec.lease.token
  BY <1>1 DEF Leases
<1>3. lease # None
  BY <1>2, NoneAssumption
<1>4. WithLeft(rec, n) = new
  BY <1>1 DEF WithLeft, TaskRecords, Leases
<1> HIDE DEF lease
<1>5. new \in TaskRecords
  BY <1>1, <1>2 DEF TaskRecords
<1>6. /\ new.lease = lease /\ new.status = rec.status /\ new.attempts = rec.attempts
      /\ new.lease_expiries = rec.lease_expiries
      /\ new.response = rec.response /\ new.request = rec.request
  BY <1>1 DEF TaskRecords
<1> HIDE DEF new
<1>7. RecordOK(t, new, c)
  BY <1>2, <1>3, <1>5, <1>6 DEF RecordOK
<1> QED
  BY <1>4, <1>6, <1>7

LEMMA FinishRecord ==
  ASSUME NEW t \in Tasks, NEW rec, NEW c \in Nat, NEW key \in EffectKeys,
         RecordOK(t, rec, c), rec.status = "RUNNING"
  PROVE  /\ RecordOK(t, Finish(rec, key), c)
         /\ Finish(rec, key).status = "SUCCEEDED"
         /\ Finish(rec, key).lease_expiries = rec.lease_expiries
<1> DEFINE new == Finish(rec, key)
<1>1. rec \in TaskRecords
  BY DEF RecordOK
<1>2. new \in TaskRecords
  BY <1>1 DEF Finish, TaskRecords, Statuses, Failures
<1>3. /\ new.lease = None /\ new.status = "SUCCEEDED" /\ new.attempts = rec.attempts
      /\ new.lease_expiries = rec.lease_expiries
      /\ new.response = rec.response /\ new.request = rec.request
  BY <1>1 DEF Finish, TaskRecords
<1> HIDE DEF new
<1>4. RecordOK(t, new, c)
  BY <1>2, <1>3 DEF RecordOK, Dead
<1> QED
  BY <1>3, <1>4 DEF new

LEMMA GiveUpRecord ==
  ASSUME NEW t \in Tasks, NEW rec, NEW c \in Nat, NEW class \in FailureClasses,
         RecordOK(t, rec, c), rec.status = "RUNNING"
  PROVE  /\ RecordOK(t, GiveUp(t, rec, class), c + 1)
         /\ GiveUp(t, rec, class).status \in {"PENDING", "FAILED"}
         /\ GiveUp(t, rec, class).lease_expiries = rec.lease_expiries
<1> DEFINE new == GiveUp(t, rec, class)
<1>1. rec \in TaskRecords /\ rec.attempts = c + 1 /\ c < MaxAttempts[t] /\ MaxAttempts[t] \in Nat
  BY TaskAssumption DEF RecordOK, Dead
<1>2. new \in TaskRecords
  BY <1>1 DEF GiveUp, TaskRecords, Statuses, Failures
<1>3. /\ new.lease = None /\ new.attempts = rec.attempts
      /\ new.lease_expiries = rec.lease_expiries
      /\ new.response = rec.response /\ new.request = rec.request
      /\ new.status = "FAILED" \/ (new.status = "PENDING" /\ rec.attempts < MaxAttempts[t])
  BY <1>1 DEF GiveUp, TaskRecords, ShouldRetry
<1> HIDE DEF new
<1>4. RecordOK(t, new, c + 1)
  BY <1>1, <1>2, <1>3 DEF RecordOK, Dead
<1> QED
  BY <1>3, <1>4 DEF new

LEMMA AskRecord ==
  ASSUME NEW t \in Tasks, NEW rec, NEW c \in Nat, NEW request \in Requests,
         RecordOK(t, rec, c), rec.status = "RUNNING"
  PROVE  /\ RecordOK(t, Ask(rec, request), c)
         /\ Ask(rec, request).status = "WAITING_HUMAN"
         /\ Ask(rec, request).lease_expiries = rec.lease_expiries
<1> DEFINE new == Ask(rec, request)
<1>1. rec \in TaskRecords /\ rec.attempts = c + 1 /\ Min0(rec.attempts - 1) = c
  BY DEF RecordOK, Min0
<1>2. new = [rec EXCEPT !.attempts = c, !.status = "WAITING_HUMAN", !.lease = None, !.failure = None,
                        !.request = request, !.response = None]
  BY <1>1 DEF Ask
<1> HIDE DEF new
<1>3. new \in TaskRecords
  BY <1>1, <1>2 DEF TaskRecords, Statuses, Failures
<1>4. /\ new.lease = None /\ new.attempts = c /\ new.status = "WAITING_HUMAN"
      /\ new.lease_expiries = rec.lease_expiries /\ new.response = None
  BY <1>1, <1>2 DEF TaskRecords
<1>5. RecordOK(t, new, c)
  BY <1>1, <1>3, <1>4 DEF RecordOK, Dead
<1> QED
  BY <1>4, <1>5 DEF new

LEMMA AnswerRecord ==
  ASSUME NEW t \in Tasks, NEW rec, NEW c \in Nat, NEW request \in Requests, NEW response \in Responses,
         RecordOK(t, rec, c), Awaits(rec, request)
  PROVE  /\ RecordOK(t, Answer(rec, request, response), c)
         /\ Answer(rec, request, response).status = "PENDING"
         /\ Answer(rec, request, response).lease_expiries = rec.lease_expiries
<1> DEFINE answer == [request |-> request, response |-> response]
           new == [rec EXCEPT !.status = "PENDING", !.lease = None, !.failure = None, !.response = answer]
<1>1. rec \in TaskRecords /\ answer \in Answers /\ answer.request = request
  BY DEF RecordOK, Answers
<1>2. Answer(rec, request, response) = new
  BY DEF Answer
<1> HIDE DEF answer
<1>3. new \in TaskRecords
  BY <1>1 DEF TaskRecords, Statuses, Failures
<1>4. /\ new.lease = None /\ new.attempts = rec.attempts /\ new.status = "PENDING"
      /\ new.lease_expiries = rec.lease_expiries /\ new.response = answer /\ new.request = rec.request
  BY <1>1 DEF TaskRecords
<1> HIDE DEF new
<1>5. RecordOK(t, new, c)
  BY <1>1, <1>3, <1>4 DEF RecordOK, Dead, Awaits
<1> QED
  BY <1>2, <1>4, <1>5

-----------------------------------------------------------------------------
(* The same for a whole table, and for _reconcile.                         *)

LEMMA UpdateTable ==
  ASSUME NEW ts, NEW ch, TableOK(ts, ch), NEW t \in Tasks, NEW rec, NEW c \in Nat, RecordOK(t, rec, c)
  PROVE  TableOK([ts EXCEPT ![t] = rec], [ch EXCEPT ![t] = c])
  BY DEF TableOK, RecordOK

LEMMA UpdateTableSameCharge ==
  ASSUME NEW ts, NEW ch, TableOK(ts, ch), NEW t \in Tasks, NEW rec, RecordOK(t, rec, ch[t])
  PROVE  TableOK([ts EXCEPT ![t] = rec], ch)
  BY DEF TableOK, RecordOK

LEMMA ExpireTable ==
  ASSUME NEW ts, NEW ch, NEW delay, TableOK(ts, ch)
  PROVE  /\ TableOK(Expire(ts, delay), ch)
         /\ \A t \in Tasks :
              /\ Expired(ts[t], delay) => /\ Expire(ts, delay)[t].status = "PENDING"
                                         /\ Expire(ts, delay)[t].lease_expiries = ts[t].lease_expiries + 1
              /\ ~Expired(ts[t], delay) => Expire(ts, delay)[t] = ts[t]
<1> DEFINE r == Expire(ts, delay)
<1>1. \A t \in Tasks : r[t] = IF Expired(ts[t], delay) THEN ExpireTask(t, ts[t]) ELSE ts[t]
  BY DEF Expire
<1>2. ASSUME NEW t \in Tasks, Expired(ts[t], delay)
      PROVE  /\ RecordOK(t, r[t], ch[t]) /\ r[t].status = "PENDING"
             /\ r[t].lease_expiries = ts[t].lease_expiries + 1
  <2>1. ts[t].status = "RUNNING"
    BY <1>2 DEF Expired
  <2>2. RecordOK(t, ts[t], ch[t]) /\ ch[t] \in Nat
    BY DEF TableOK
  <2>3. r[t] = ExpireTask(t, ts[t])
    BY <1>1, <1>2
  <2> HIDE DEF r
  <2> QED
    BY <2>1, <2>2, <2>3, ExpireRecord
<1>3. ASSUME NEW t \in Tasks, ~Expired(ts[t], delay)
      PROVE  RecordOK(t, r[t], ch[t]) /\ r[t] = ts[t]
  BY <1>1, <1>3 DEF TableOK
<1>4. DOMAIN r = Tasks /\ r = [t \in Tasks |-> r[t]]
  BY DEF Expire
<1> HIDE DEF r
<1>5. r \in [Tasks -> TaskRecords]
  BY <1>2, <1>3, <1>4 DEF RecordOK
<1> QED
  BY <1>2, <1>3, <1>5 DEF TableOK, r

(* The set that _reconcile blocks is closed, and everything in it has a    *)
(* dependency that is dead or in it.                                       *)
LEMMA DoomedIsLeast ==
  ASSUME NEW ts
  PROVE  /\ BlocksClosed(ts, Doomed(ts))
         /\ \A t \in Doomed(ts) : ts[t].status = "PENDING"
                                  /\ \E d \in DependsOn[t] : ts[d].status \in Dead \/ d \in Doomed(ts)
<1>1. BlocksClosed(ts, Doomed(ts))
  <2> SUFFICES ASSUME NEW t \in Tasks, ts[t].status = "PENDING",
                      NEW d \in DependsOn[t], ts[d].status \in Dead \/ d \in Doomed(ts)
               PROVE  t \in Doomed(ts)
    BY DEF BlocksClosed
  <2> SUFFICES ASSUME NEW S \in SUBSET Tasks, BlocksClosed(ts, S) PROVE t \in S
    BY DEF Doomed
  <2>1. d \in Doomed(ts) => d \in S
    BY DEF Doomed
  <2> QED
    BY <2>1 DEF BlocksClosed
<1>2. ASSUME NEW t \in Doomed(ts), ~\E d \in DependsOn[t] : ts[d].status \in Dead \/ d \in Doomed(ts)
      PROVE  FALSE
  <2> DEFINE S == Doomed(ts) \ {t}
  <2>1. S \in SUBSET Tasks
    BY DEF Doomed
  <2>2. BlocksClosed(ts, S)
    BY <1>1, <1>2 DEF BlocksClosed
  <2>3. t \in S
    BY <2>1, <2>2, <1>2 DEF Doomed
  <2> QED
    BY <2>3
<1> QED
  BY <1>1, <1>2 DEF Doomed

LEMMA BlockTable ==
  ASSUME NEW ts, NEW ch, TableOK(ts, ch)
  PROVE  /\ TableOK(Block(ts), ch)
         /\ \A t \in Tasks :
              /\ Block(ts)[t].lease_expiries = ts[t].lease_expiries
              /\ t \in Doomed(ts) => ts[t].status = "PENDING" /\ Block(ts)[t].status = "BLOCKED"
              /\ t \notin Doomed(ts) => Block(ts)[t] = ts[t]
<1> DEFINE r == Block(ts)
           blocked(t) == [ts[t] EXCEPT !.status = "BLOCKED", !.failure = "DEPENDENCY_FAILED"]
<1>1. \A t \in Tasks : r[t] = IF t \in Doomed(ts) THEN blocked(t) ELSE ts[t]
  BY DEF Block
<1>2. ASSUME NEW t \in Tasks, t \in Doomed(ts)
      PROVE  /\ RecordOK(t, r[t], ch[t]) /\ r[t].status = "BLOCKED"
             /\ r[t].lease_expiries = ts[t].lease_expiries /\ ts[t].status = "PENDING"
  <2>1. ts[t].status = "PENDING"
    BY <1>2 DEF Doomed
  <2>2. RecordOK(t, ts[t], ch[t]) /\ ts[t] \in TaskRecords /\ ch[t] \in Nat
    BY DEF TableOK, RecordOK
  <2>3. blocked(t).status = "BLOCKED" /\ blocked(t).lease_expiries = ts[t].lease_expiries
    BY <2>2 DEF TaskRecords
  <2>4. r[t] = blocked(t)
    BY <1>1, <1>2
  <2>5. RecordOK(t, blocked(t), ch[t])
    BY <2>1, <2>2, BlockRecord
  <2> HIDE DEF r, blocked
  <2> QED
    BY <2>1, <2>3, <2>4, <2>5
<1>3. ASSUME NEW t \in Tasks, t \notin Doomed(ts)
      PROVE  RecordOK(t, r[t], ch[t]) /\ r[t] = ts[t]
  BY <1>1, <1>3 DEF TableOK
<1>4. DOMAIN r = Tasks /\ r = [t \in Tasks |-> r[t]]
  BY DEF Block
<1> HIDE DEF r
<1>5. r \in [Tasks -> TaskRecords]
  BY <1>2, <1>3, <1>4 DEF RecordOK
<1> QED
  BY <1>2, <1>3, <1>5 DEF TableOK, r

(* What a caller sees after reconciliation, record by record.              *)
Reconciled(old, new, delay) ==
  /\ new.status = "RUNNING" => new = old /\ ~Expired(old, delay)
  /\ old.status \notin {"PENDING", "RUNNING"} => new = old
  /\ new.status \in {"SUCCEEDED", "WAITING_HUMAN", "FAILED"} => new = old
  /\ old.status = "RUNNING" => new = old \/ Expired(old, delay)
  /\ new.lease_expiries = IF Expired(old, delay) THEN old.lease_expiries + 1 ELSE old.lease_expiries

LEMMA ReconcileTable ==
  ASSUME NEW ts, NEW ch, NEW delay, TableOK(ts, ch)
  PROVE  /\ TableOK(Reconcile(ts, delay), ch)
         /\ \A t \in Tasks : Reconciled(ts[t], Reconcile(ts, delay)[t], delay)
<1> DEFINE e == Expire(ts, delay)
           r == Block(e)
<1>1. TableOK(e, ch)
  BY ExpireTable
<1>2. TableOK(r, ch)
  BY <1>1, BlockTable
<1>3. \A t \in Tasks :
       /\ Expired(ts[t], delay) => /\ ts[t].status = "RUNNING" /\ e[t].status = "PENDING"
                                  /\ e[t].lease_expiries = ts[t].lease_expiries + 1
       /\ ~Expired(ts[t], delay) => e[t] = ts[t]
  <2>1. \A t \in Tasks : Expired(ts[t], delay) => ts[t].status = "RUNNING"
    BY DEF Expired
  <2> QED
    BY <2>1, ExpireTable
<1>4. \A t \in Tasks :
       /\ r[t].lease_expiries = e[t].lease_expiries
       /\ r[t] = e[t] \/ (e[t].status = "PENDING" /\ r[t].status = "BLOCKED")
  BY <1>1, BlockTable
<1>5. Reconcile(ts, delay) = r
  BY DEF Reconcile
<1> HIDE DEF e, r
<1>6. \A t \in Tasks : Reconciled(ts[t], r[t], delay)
  BY <1>3, <1>4 DEF Reconciled
<1> QED
  BY <1>2, <1>5, <1>6

-----------------------------------------------------------------------------
(* Retired leases stay before the record of their task.                    *)

LEMMA BeforeKept ==
  ASSUME NEW h, NEW rec, NEW new, NEW c \in Nat, NEW d \in Nat,
         Before(h, rec, c), rec.status # "SUCCEEDED", new.lease_expiries = rec.lease_expiries, c <= d, h \in Handles
  PROVE  Before(h, new, d)
  BY DEF Before, Handles, Tokens

(* After reconciliation every retired lease, the expired ones included, is *)
(* before its record.                                                      *)
LEMMA RetiredAfterReconcile ==
  ASSUME IInv, NEW delay
  PROVE  /\ retired \cup EndedByExpiry(delay) \subseteq Handles
         /\ \A h \in retired \cup EndedByExpiry(delay) : Before(h, Reconcile(tasks, delay)[h.task], charged[h.task])
<1> DEFINE r == Reconcile(tasks, delay)
<1>1. /\ TableOK(tasks, charged) /\ retired \subseteq Handles
      /\ \A h \in retired : Before(h, tasks[h.task], charged[h.task])
  BY DEF IInv
<1>2. TableOK(r, charged)
  BY <1>1, ReconcileTable
<1>a. ASSUME NEW t \in Tasks
      PROVE  /\ r[t].lease_expiries \in {tasks[t].lease_expiries, tasks[t].lease_expiries + 1}
             /\ tasks[t].status = "SUCCEEDED" => r[t].status = "SUCCEEDED"
  <2>1. Reconciled(tasks[t], r[t], delay)
    BY <1>1, ReconcileTable
  <2> HIDE DEF r
  <2> QED
    BY <2>1 DEF Reconciled
<1>3. ASSUME NEW h \in retired
      PROVE  h \in Handles /\ Before(h, r[h.task], charged[h.task])
  <2>1. h \in Handles /\ h.task \in Tasks /\ Before(h, tasks[h.task], charged[h.task])
    BY <1>1 DEF Handles
  <2>2. tasks[h.task].lease_expiries \in Nat
    BY <1>1, <2>1 DEF TableOK, TaskRecords
  <2>3. r[h.task].lease_expiries \in {tasks[h.task].lease_expiries, tasks[h.task].lease_expiries + 1}
    BY <1>a, <2>1
  <2>4. tasks[h.task].status = "SUCCEEDED" => r[h.task].status = "SUCCEEDED"
    BY <1>a, <2>1
  <2> HIDE DEF r
  <2> QED
    BY <2>1, <2>2, <2>3, <2>4 DEF Before, Handles, Tokens
<1>4. ASSUME NEW h \in EndedByExpiry(delay)
      PROVE  h \in Handles /\ Before(h, r[h.task], charged[h.task])
  <2>1. PICK t \in Tasks : Expired(tasks[t], delay) /\ h = Handle(t, tasks[t], "EXPIRED")
    BY <1>4 DEF EndedByExpiry
  <2>2. RecordOK(t, tasks[t], charged[t]) /\ tasks[t].status = "RUNNING"
    BY <1>1, <2>1 DEF TableOK, Expired
  <2>3. tasks[t].lease \in Leases /\ tasks[t].lease.token = Token(tasks[t].attempts, tasks[t].lease_expiries)
    BY <2>2, NoneAssumption DEF RecordOK, TaskRecords
  <2>4. tasks[t].lease_expiries \in Nat /\ r[t].lease_expiries = tasks[t].lease_expiries + 1
    BY <1>1, <2>1, <2>2, ReconcileTable DEF RecordOK, TaskRecords, Reconciled
  <2>5. /\ h \in Handles /\ h.task = t /\ h.how = "EXPIRED"
        /\ h.token.expiry = tasks[t].lease_expiries
    BY <2>1, <2>3 DEF Handle, Handles, Leases, Tokens, Token
  <2> HIDE DEF r
  <2> QED
    BY <2>4, <2>5 DEF Before
<1> QED
  BY <1>3, <1>4

(* The lease that a call of its holder ends is the one of the record it    *)
(* leaves behind, failed once more or finished.                            *)
LEMMA HandleOfHolder ==
  ASSUME NEW t \in Tasks, NEW rec, NEW c \in Nat, NEW how \in {"EXPIRED", "FAILED", "WAITED", "SUCCEEDED"},
         RecordOK(t, rec, c), rec.status = "RUNNING"
  PROVE  /\ Handle(t, rec, how) \in Handles
         /\ Handle(t, rec, how).task = t /\ Handle(t, rec, how).how = how
         /\ Handle(t, rec, how).token.expiry = rec.lease_expiries
         /\ Handle(t, rec, how).token.attempt = c + 1
<1>1. rec.lease \in Leases /\ rec.lease.token = Token(rec.attempts, rec.lease_expiries) /\ rec.attempts = c + 1
  BY NoneAssumption DEF RecordOK, TaskRecords
<1> QED
  BY <1>1 DEF Handle, Handles, Leases, Token

(* One record changes after the reconciliation, to one with the same       *)
(* number of expiries, and the lease it ended is before it.                *)
Changes(ts, t, new, c, ended, delay) ==
  /\ ts = [Reconcile(tasks, delay) EXCEPT ![t] = new]
  /\ charged' = [charged EXCEPT ![t] = c]
  /\ retired' = retired \cup EndedByExpiry(delay) \cup ended
  /\ charged[t] <= c
  /\ RecordOK(t, new, c)
  /\ Reconcile(tasks, delay)[t].status # "SUCCEEDED"
  /\ new.lease_expiries = Reconcile(tasks, delay)[t].lease_expiries
  /\ ended \subseteq Handles
  /\ \A h \in ended : h.task = t /\ Before(h, new, c)

LEMMA ChangesTable ==
  ASSUME IInv, NEW delay, NEW ts, NEW t \in Tasks, NEW new, NEW c \in Nat, NEW ended,
         Changes(ts, t, new, c, ended, delay)
  PROVE  /\ TableOK(ts, charged')
         /\ retired' \subseteq Handles
         /\ \A h \in retired' : Before(h, ts[h.task], charged'[h.task])
<1> DEFINE r == Reconcile(tasks, delay)
<1>1. TableOK(r, charged) /\ TableOK(tasks, charged)
  BY ReconcileTable DEF IInv
<1>2. TableOK(ts, charged')
  <2>1. RecordOK(t, new, c) /\ ts = [r EXCEPT ![t] = new] /\ charged' = [charged EXCEPT ![t] = c]
    BY DEF Changes
  <2> HIDE DEF r
  <2> QED
    BY <1>1, <2>1, UpdateTable
<1>3. /\ DOMAIN r = Tasks /\ DOMAIN charged = Tasks /\ charged[t] \in Nat
  BY <1>1 DEF TableOK
<1>4. /\ ts[t] = new /\ charged'[t] = c
      /\ \A u \in Tasks \ {t} : ts[u] = r[u] /\ charged'[u] = charged[u]
  BY <1>3 DEF Changes
<1>r. r[t].status # "SUCCEEDED" /\ new.lease_expiries = r[t].lease_expiries /\ charged[t] <= c
  BY DEF Changes
<1> HIDE DEF r
<1>5. ASSUME NEW h \in retired \cup EndedByExpiry(delay)
      PROVE  Before(h, ts[h.task], charged'[h.task])
  <2>1. h \in Handles /\ h.task \in Tasks /\ Before(h, r[h.task], charged[h.task])
    BY RetiredAfterReconcile DEF Handles, r
  <2>2. CASE h.task = t
    BY <1>3, <1>4, <1>r, <2>1, <2>2, BeforeKept
  <2>3. CASE h.task # t
    BY <1>4, <2>1, <2>3
  <2> QED
    BY <2>2, <2>3
<1>6. /\ retired' = retired \cup EndedByExpiry(delay) \cup ended /\ ended \subseteq Handles
      /\ \A h \in ended : Before(h, ts[h.task], charged'[h.task])
  BY <1>4 DEF Changes
<1> QED
  BY <1>2, <1>5, <1>6, RetiredAfterReconcile

-----------------------------------------------------------------------------
(* IInv is inductive: one lemma per operation.                             *)

LEMMA InitIInv == Init => IInv
<1> SUFFICES ASSUME Init PROVE IInv
  OBVIOUS
<1>1. NewTask \in TaskRecords
  BY DEF NewTask, TaskRecords, Statuses, Failures
<1>2. \A t \in Tasks : MaxAttempts[t] \in Nat /\ 0 < MaxAttempts[t]
  BY TaskAssumption
<1>3. \A t \in Tasks : RecordOK(t, NewTask, 0)
  BY <1>1, <1>2 DEF RecordOK, NewTask, Dead
<1> QED
  BY <1>1, <1>3 DEF Init, IInv, TableOK

(* Steps that only reconcile.                                              *)
LEMMA ReconcileStep ==
  ASSUME IInv, NEW delay, tasks' = Reconcile(tasks, delay), charged' = charged,
         retired' = retired \cup EndedByExpiry(delay),
         current_task' \in Tasks \cup {None}, alive' \subseteq Workers
  PROVE  IInv'
<1>1. TableOK(tasks', charged')
  BY ReconcileTable DEF IInv
<1> QED
  BY <1>1, RetiredAfterReconcile DEF IInv

(* Steps that reconcile and then change the record of t.                   *)
LEMMA RecordStep ==
  ASSUME IInv, NEW delay, NEW t \in Tasks, NEW new, NEW c \in Nat, NEW ended, Changes(tasks', t, new, c, ended, delay),
         current_task' \in Tasks \cup {None}, alive' \subseteq Workers
  PROVE  IInv'
  BY ChangesTable DEF IInv

LEMMA ClaimIInv ==
  ASSUME IInv, NEW w \in Workers, NEW delay \in Delays, Claim(w, delay)
  PROVE  IInv'
<1> DEFINE r == Reconcile(tasks, delay)
<1>1. CASE tasks' = r /\ UNCHANGED current_task
  BY <1>1, ReconcileStep DEF Claim, IInv
<1>2. ASSUME NEW t \in Tasks, Ready(r, t), tasks' = [r EXCEPT ![t] = Grant(r[t], w, delay)], current_task' = t
      PROVE  IInv'
  <2>1. RecordOK(t, r[t], charged[t]) /\ charged \in [Tasks -> Nat]
    BY ReconcileTable DEF IInv, TableOK
  <2>2. r[t].status = "PENDING"
    BY <1>2 DEF Ready
  <2>3. /\ RecordOK(t, Grant(r[t], w, delay), charged[t])
        /\ Grant(r[t], w, delay).lease_expiries = r[t].lease_expiries
    BY <2>1, <2>2, GrantRecord
  <2>4. charged' = [charged EXCEPT ![t] = charged[t]] /\ charged[t] \in Nat
    BY <2>1 DEF Claim
  <2>5. retired' = retired \cup EndedByExpiry(delay) \cup {} /\ alive' = alive
    BY DEF Claim
  <2> HIDE DEF r
  <2>6. alive' \subseteq Workers /\ current_task' \in Tasks \cup {None}
    BY <1>2, <2>5 DEF IInv
  <2>7. Changes(tasks', t, Grant(r[t], w, delay), charged[t], {}, delay)
    BY <1>2, <2>2, <2>3, <2>4, <2>5 DEF r, Changes
  <2> QED
    BY <2>4, <2>6, <2>7, RecordStep
<1> QED
  BY <1>1, <1>2 DEF Claim

LEMMA ResumeIInv ==
  ASSUME IInv, NEW delay \in Delays, Resume(delay)
  PROVE  IInv'
<1>1. current_task' \in Tasks \cup {None} /\ alive' \subseteq Workers
  BY DEF Resume, IInv
<1> QED
  BY <1>1, ReconcileStep DEF Resume

LEMMA CompleteAgainIInv ==
  ASSUME IInv, NEW w \in Workers, NEW t \in Tasks, NEW key \in EffectKeys, NEW delay \in Delays,
         CompleteAgain(w, t, key, delay)
  PROVE  IInv'
  BY ReconcileStep DEF CompleteAgain, IInv

LEMMA HeartbeatIInv ==
  ASSUME IInv, NEW w \in Workers, NEW t \in Tasks, NEW token, NEW delay \in Delays,
         Heartbeat(w, t, token, delay)
  PROVE  IInv'
<1> DEFINE new == WithLeft(tasks[t], LeaseSeconds - delay)
<1>1. RecordOK(t, tasks[t], charged[t]) /\ tasks[t].status = "RUNNING" /\ charged[t] \in Nat
  BY DEF Heartbeat, HoldsLease, IInv, TableOK
<1>2. LeaseSeconds - delay \in Int
  BY PolicyAssumption DEF Delays
<1>3. RecordOK(t, new, charged[t]) /\ new.status = "RUNNING" /\ new.lease_expiries = tasks[t].lease_expiries
  BY <1>1, <1>2, LeftRecord
<1>4. tasks' = [tasks EXCEPT ![t] = new] /\ UNCHANGED <<current_task, alive, retired, charged>>
  BY DEF Heartbeat
<1> HIDE DEF new
<1>5. TableOK(tasks', charged')
  BY <1>3, <1>4, UpdateTableSameCharge DEF IInv
<1>6. ASSUME NEW h \in retired
      PROVE  Before(h, tasks'[h.task], charged[h.task])
  <2>1. h \in Handles /\ h.task \in Tasks /\ Before(h, tasks[h.task], charged[h.task])
    BY DEF IInv, Handles
  <2>2. tasks'[h.task].lease_expiries = tasks[h.task].lease_expiries /\ tasks'[h.task].status = tasks[h.task].status
    BY <1>1, <1>3, <1>4, <2>1 DEF IInv, TableOK
  <2> QED
    BY <2>1, <2>2 DEF Before
<1> QED
  BY <1>4, <1>5, <1>6 DEF IInv

(* complete, fail and wait_for_human share the call of a lease's holder.   *)
LEMMA HolderRecord ==
  ASSUME IInv, NEW w, NEW t \in Tasks, NEW token, NEW delay, HoldsLease(Reconcile(tasks, delay)[t], w, token)
  PROVE  /\ RecordOK(t, Reconcile(tasks, delay)[t], charged[t])
         /\ Reconcile(tasks, delay)[t].status = "RUNNING"
         /\ charged[t] \in Nat
         /\ charged = [charged EXCEPT ![t] = charged[t]]
  BY ReconcileTable DEF HoldsLease, IInv, TableOK

LEMMA CompleteIInv ==
  ASSUME IInv, NEW w \in Workers, NEW t \in Tasks, NEW token, NEW key \in EffectKeys, NEW delay \in Delays,
         Complete(w, t, token, key, delay)
  PROVE  IInv'
<1> DEFINE rec == Reconcile(tasks, delay)[t]
           new == Finish(rec, key)
           h == Handle(t, rec, "SUCCEEDED")
<1>1. RecordOK(t, rec, charged[t]) /\ rec.status = "RUNNING" /\ charged[t] \in Nat
      /\ charged = [charged EXCEPT ![t] = charged[t]]
  <2>1. HoldsLease(Reconcile(tasks, delay)[t], w, token)
    BY DEF Complete
  <2>2. /\ RecordOK(t, Reconcile(tasks, delay)[t], charged[t])
        /\ Reconcile(tasks, delay)[t].status = "RUNNING"
        /\ charged[t] \in Nat
        /\ charged = [charged EXCEPT ![t] = charged[t]]
    BY <2>1, HolderRecord
  <2> QED
    BY <2>2
<1>2. RecordOK(t, new, charged[t]) /\ new.status = "SUCCEEDED" /\ new.lease_expiries = rec.lease_expiries
  BY <1>1, FinishRecord
<1>3. h \in Handles /\ h.task = t /\ h.how = "SUCCEEDED"
  BY <1>1, HandleOfHolder
<1>4. /\ tasks' = [Reconcile(tasks, delay) EXCEPT ![t] = new]
      /\ retired' = retired \cup EndedByExpiry(delay) \cup {h}
      /\ charged' = charged /\ alive' = alive
      /\ current_task' \in {current_task, None}
  BY DEF Complete, ClearCurrent
<1>5. alive' \subseteq Workers /\ current_task' \in Tasks \cup {None}
  BY <1>4 DEF IInv
<1> HIDE DEF h, new
<1>6. \A g \in {h} : g.task = t /\ Before(g, new, charged[t])
  BY <1>2, <1>3 DEF Before
<1>7. Changes(tasks', t, new, charged[t], {h}, delay)
  BY <1>1, <1>2, <1>3, <1>4, <1>6 DEF Changes
<1> QED
  BY <1>1, <1>5, <1>7, RecordStep

LEMMA WaitForHumanIInv ==
  ASSUME IInv, NEW w \in Workers, NEW t \in Tasks, NEW token, NEW request \in Requests, NEW delay \in Delays,
         WaitForHuman(w, t, token, request, delay)
  PROVE  IInv'
<1> DEFINE rec == Reconcile(tasks, delay)[t]
           new == Ask(rec, request)
           h == Handle(t, rec, "WAITED")
<1>1. RecordOK(t, rec, charged[t]) /\ rec.status = "RUNNING" /\ charged[t] \in Nat
      /\ charged = [charged EXCEPT ![t] = charged[t]]
  <2>1. HoldsLease(Reconcile(tasks, delay)[t], w, token)
    BY DEF WaitForHuman
  <2>2. /\ RecordOK(t, Reconcile(tasks, delay)[t], charged[t])
        /\ Reconcile(tasks, delay)[t].status = "RUNNING"
        /\ charged[t] \in Nat
        /\ charged = [charged EXCEPT ![t] = charged[t]]
    BY <2>1, HolderRecord
  <2> QED
    BY <2>2
<1>2. RecordOK(t, new, charged[t]) /\ new.lease_expiries = rec.lease_expiries
  BY <1>1, AskRecord
<1>3. h \in Handles /\ h.task = t /\ h.how = "WAITED"
  BY <1>1, HandleOfHolder
<1>4. /\ tasks' = [Reconcile(tasks, delay) EXCEPT ![t] = new]
      /\ retired' = retired \cup EndedByExpiry(delay) \cup {h}
      /\ charged' = charged /\ alive' = alive
      /\ current_task' \in {current_task, None}
  BY DEF WaitForHuman, ClearCurrent
<1>5. alive' \subseteq Workers /\ current_task' \in Tasks \cup {None}
  BY <1>4 DEF IInv
<1> HIDE DEF h, new
<1>6. \A g \in {h} : g.task = t /\ Before(g, new, charged[t])
  BY <1>3 DEF Before
<1>7. Changes(tasks', t, new, charged[t], {h}, delay)
  BY <1>1, <1>2, <1>3, <1>4, <1>6 DEF Changes
<1> QED
  BY <1>1, <1>5, <1>7, RecordStep

LEMMA ResolveHumanIInv ==
  ASSUME IInv, NEW t \in Tasks, NEW request \in Requests, NEW response \in Responses, NEW delay \in Delays,
         ResolveHuman(t, request, response, delay)
  PROVE  IInv'
<1> DEFINE rec == Reconcile(tasks, delay)[t]
           new == Answer(rec, request, response)
<1>0. alive' \subseteq Workers /\ current_task' \in Tasks \cup {None}
      /\ retired' = retired \cup EndedByExpiry(delay) /\ charged' = charged
  BY DEF ResolveHuman, IInv
<1>1. CASE tasks' = Reconcile(tasks, delay)
  BY <1>0, <1>1, ReconcileStep
<1>2. CASE Awaits(rec, request) /\ tasks' = [Reconcile(tasks, delay) EXCEPT ![t] = new]
  <2>1. RecordOK(t, rec, charged[t]) /\ charged[t] \in Nat /\ charged = [charged EXCEPT ![t] = charged[t]]
    BY ReconcileTable DEF IInv, TableOK
  <2>2. RecordOK(t, new, charged[t]) /\ new.lease_expiries = rec.lease_expiries /\ rec.status # "SUCCEEDED"
    BY <1>2, <2>1, AnswerRecord DEF Awaits
  <2>3. retired' = retired \cup EndedByExpiry(delay) \cup {}
    BY <1>0
  <2> HIDE DEF new
  <2>4. Changes(tasks', t, new, charged[t], {}, delay)
    BY <1>0, <1>2, <2>1, <2>2, <2>3 DEF Changes
  <2> QED
    BY <1>0, <2>1, <2>4, RecordStep
<1> QED
  BY <1>1, <1>2 DEF ResolveHuman

(* Retired leases stay before their records when a table is reconciled.    *)
LEMMA BeforeReconciled ==
  ASSUME NEW ts, NEW ch, TableOK(ts, ch), NEW delay, NEW h \in Handles, Before(h, ts[h.task], ch[h.task])
  PROVE  Before(h, Reconcile(ts, delay)[h.task], ch[h.task])
<1> DEFINE t == h.task
           new == Reconcile(ts, delay)[t]
<1>1. t \in Tasks /\ ts[t].lease_expiries \in Nat
  BY DEF Handles, TableOK, TaskRecords
<1>2. Reconciled(ts[t], new, delay)
  BY <1>1, ReconcileTable
<1> HIDE DEF new
<1>3. /\ new.lease_expiries \in {ts[t].lease_expiries, ts[t].lease_expiries + 1}
      /\ ts[t].status = "SUCCEEDED" => new.status = "SUCCEEDED"
  BY <1>2 DEF Reconciled
<1>4. Before(h, new, ch[t])
  BY <1>1, <1>3 DEF Before, Handles, Tokens
<1> QED
  BY <1>4 DEF new

LEMMA FailIInv ==
  ASSUME IInv, NEW w \in Workers, NEW t \in Tasks, NEW token, NEW class \in FailureClasses, NEW delay \in Delays,
         Fail(w, t, token, class, delay)
  PROVE  IInv'
<1> DEFINE rec == Reconcile(tasks, delay)[t]
           new == GiveUp(t, rec, class)
           ts == [Reconcile(tasks, delay) EXCEPT ![t] = new]
           h == Handle(t, rec, "FAILED")
           c == charged[t] + 1
<1>1. RecordOK(t, rec, charged[t]) /\ rec.status = "RUNNING" /\ charged[t] \in Nat
  <2>1. HoldsLease(Reconcile(tasks, delay)[t], w, token)
    BY DEF Fail
  <2>2. /\ RecordOK(t, Reconcile(tasks, delay)[t], charged[t])
        /\ Reconcile(tasks, delay)[t].status = "RUNNING"
        /\ charged[t] \in Nat
        /\ charged = [charged EXCEPT ![t] = charged[t]]
    BY <2>1, HolderRecord
  <2> QED
    BY <2>2
<1>2. RecordOK(t, new, c) /\ new.lease_expiries = rec.lease_expiries
  BY <1>1, GiveUpRecord
<1>3. /\ h \in Handles /\ h.task = t /\ h.how = "FAILED"
      /\ h.token.expiry = rec.lease_expiries /\ h.token.attempt = c
  BY <1>1, HandleOfHolder
<1>4. /\ tasks' = Reconcile(ts, delay)
      /\ retired' = retired \cup EndedByExpiry(delay) \cup {h}
      /\ charged' = [charged EXCEPT ![t] = c] /\ alive' = alive
      /\ current_task' \in {current_task, None}
  BY DEF Fail, ClearCurrent
<1>5. alive' \subseteq Workers /\ current_task' \in Tasks \cup {None}
  BY <1>4 DEF IInv
<1>c. c \in Nat /\ charged[t] <= c
  BY <1>1
<1> HIDE DEF h, new, c
<1>6. \A g \in {h} : g.task = t /\ Before(g, new, c)
  BY <1>c, <1>2, <1>3 DEF Before
<1>7. Changes(ts, t, new, c, {h}, delay)
  BY <1>c, <1>1, <1>2, <1>3, <1>4, <1>6 DEF Changes
<1> HIDE DEF ts
<1>8. /\ TableOK(ts, charged')
      /\ retired' \subseteq Handles
      /\ \A g \in retired' : Before(g, ts[g.task], charged'[g.task])
  BY <1>c, <1>7, ChangesTable
<1>9. TableOK(tasks', charged')
  BY <1>4, <1>8, ReconcileTable
<1>10. \A g \in retired' : Before(g, tasks'[g.task], charged'[g.task])
  BY <1>4, <1>8, BeforeReconciled
<1> QED
  BY <1>5, <1>8, <1>9, <1>10 DEF IInv

LEMMA TickIInv ==
  ASSUME IInv, Tick
  PROVE  IInv'
<1>1. ASSUME NEW t \in Tasks
      PROVE  /\ RecordOK(t, tasks'[t], charged[t])
             /\ tasks'[t].status = tasks[t].status
             /\ tasks'[t].lease_expiries = tasks[t].lease_expiries
  <2>1. RecordOK(t, tasks[t], charged[t]) /\ charged[t] \in Nat
    BY DEF IInv, TableOK
  <2>2. CASE tasks'[t] = tasks[t]
    BY <2>1, <2>2
  <2>3. CASE tasks[t].status = "RUNNING" /\ tasks'[t] = WithLeft(tasks[t], tasks[t].lease.left - 1)
    <3>1. tasks[t].lease.left - 1 \in Int
      BY <2>1, <2>3, NoneAssumption DEF RecordOK, TaskRecords, Leases
    <3> DEFINE n == tasks[t].lease.left - 1
    <3>2. n \in Int
      BY <3>1
    <3> HIDE DEF n
    <3>3. /\ RecordOK(t, WithLeft(tasks[t], n), charged[t])
          /\ WithLeft(tasks[t], n).status = "RUNNING"
          /\ WithLeft(tasks[t], n).lease_expiries = tasks[t].lease_expiries
      BY <2>1, <2>3, <3>2, LeftRecord
    <3> QED
      BY <2>3, <3>3 DEF n
  <2> QED
    BY <2>2, <2>3 DEF Tick
<1>2. /\ DOMAIN tasks' = Tasks /\ tasks' = [t \in Tasks |-> tasks'[t]]
      /\ UNCHANGED <<current_task, alive, retired, charged>>
  BY DEF Tick
<1>3. tasks' \in [Tasks -> TaskRecords]
  BY <1>1, <1>2 DEF RecordOK
<1>4. TableOK(tasks', charged')
  BY <1>1, <1>2, <1>3 DEF TableOK, IInv
<1>5. \A h \in retired : h.task \in Tasks
  BY DEF IInv, Handles
<1> QED
  BY <1>1, <1>2, <1>4, <1>5 DEF IInv, Before

LEMMA NextIInv == IInv /\ [Next]_vars => IInv'
<1> SUFFICES ASSUME IInv, [Next]_vars PROVE IInv'
  OBVIOUS
<1>1. ASSUME NEW w \in Workers, NEW delay \in Delays, WorkerCall(w, delay)
      PROVE  IInv'
  <2>1. CASE Claim(w, delay)
    BY <2>1, ClaimIInv
  <2>2. CASE \E t \in Tasks, key \in EffectKeys : CompleteAgain(w, t, key, delay)
    BY <2>2, CompleteAgainIInv
  <2>3. ASSUME NEW t \in Tasks, NEW token \in KnownTokens(t), Heartbeat(w, t, token, delay)
        PROVE  IInv'
    BY <2>3, HeartbeatIInv
  <2>4. ASSUME NEW t \in Tasks, NEW token \in KnownTokens(t), NEW key \in EffectKeys,
               Complete(w, t, token, key, delay)
        PROVE  IInv'
    BY <2>4, CompleteIInv
  <2>5. ASSUME NEW t \in Tasks, NEW token \in KnownTokens(t), NEW class \in FailureClasses,
               Fail(w, t, token, class, delay)
        PROVE  IInv'
    BY <2>5, FailIInv
  <2>6. ASSUME NEW t \in Tasks, NEW token \in KnownTokens(t), NEW request \in Requests,
               WaitForHuman(w, t, token, request, delay)
        PROVE  IInv'
    BY <2>6, WaitForHumanIInv
  <2> QED
    BY <1>1, <2>1, <2>2, <2>3, <2>4, <2>5, <2>6 DEF WorkerCall
<1>2. ASSUME NEW delay \in Delays, Resume(delay)
      PROVE  IInv'
  BY <1>2, ResumeIInv
<1>3. ASSUME NEW delay \in Delays, HumanCall(delay)
      PROVE  IInv'
  BY <1>3, ResolveHumanIInv DEF HumanCall
<1>4. CASE Tick
  BY <1>4, TickIInv
<1>5. ASSUME NEW w \in Workers, Crash(w) \/ Restart(w)
      PROVE  IInv'
  BY <1>5 DEF Crash, Restart, IInv
<1>6. CASE UNCHANGED vars
  BY <1>6 DEF vars, IInv
<1> QED
  BY <1>1, <1>2, <1>3, <1>4, <1>5, <1>6 DEF Next

(* The inductive invariant holds in every reachable state.                 *)
THEOREM InvariantHolds == Spec => []IInv
  BY InitIInv, NextIInv, PTL DEF Spec

-----------------------------------------------------------------------------
(* What it implies.                                                        *)

(* Type correctness of the task table.                                     *)
THEOREM TypeCorrect == Spec => []TypeOK
<1>1. IInv => TypeOK
  BY DEF IInv, TypeOK, TableOK, RecordOK
<1> QED
  BY <1>1, InvariantHolds, PTL

(* Neither an expiry nor a human decision spends an attempt.               *)
THEOREM AttemptBudgetHolds == Spec => []AttemptBudget
<1>1. IInv => AttemptBudget
  BY DEF IInv, AttemptBudget, TableOK, RecordOK
<1> QED
  BY <1>1, InvariantHolds, PTL

(* A task runs with the answer to its last question, or with none.         *)
THEOREM AnswerMatches == Spec => []AnswerMatchesRequest
<1>1. IInv => AnswerMatchesRequest
  BY DEF IInv, AnswerMatchesRequest, TableOK, RecordOK
<1> QED
  BY <1>1, InvariantHolds, PTL

(* The token of a lease that expired, failed or completed is dead: every   *)
(* token its task mints later differs in the attempt or in the expiries.   *)
THEOREM RetiredTokensStayFenced == Spec => []RetiredTokensFenced
<1>1. ASSUME IInv, NEW h \in retired, h.how # "WAITED"
      PROVE  ~HoldsLease(tasks[h.task], h.owner, h.token)
  <2> DEFINE t == h.task
  <2>1. h \in Handles /\ t \in Tasks /\ Before(h, tasks[t], charged[t])
    BY <1>1 DEF IInv, Handles
  <2>2. RecordOK(t, tasks[t], charged[t]) /\ charged[t] \in Nat /\ tasks[t].lease_expiries \in Nat
    BY <1>1, <2>1 DEF IInv, TableOK, TaskRecords
  <2>3. SUFFICES ASSUME tasks[t].status = "RUNNING", tasks[t].lease.token = h.token
                 PROVE  FALSE
    BY DEF HoldsLease
  <2>4. /\ h.token.attempt = charged[t] + 1
        /\ h.token.expiry = tasks[t].lease_expiries
    BY <2>2, <2>3 DEF RecordOK, Token
  <2> QED
    BY <1>1, <2>1, <2>2, <2>3, <2>4 DEF Before, Handles
<1>2. IInv => RetiredTokensFenced
  BY <1>1 DEF RetiredTokensFenced
<1> QED
  BY <1>2, InvariantHolds, PTL
-----------------------------------------------------------------------------
(***************************************************************************)
(* Proofs about the steps of TaskRuntime: what no call may do to a record. *)
(* They rest on the inductive invariant above and on what                  *)
(* a reconciliation does to each record.                                   *)
(***************************************************************************)

Settled == {"SUCCEEDED", "FAILED", "BLOCKED"}

(* What a step owes to a record.                                           *)
Kept(old, new) ==
  /\ old.status \in Settled => new = old
  /\ new.lease_expiries # old.lease_expiries => old.lease.left <= 0

LEMMA ReconcileKeeps ==
  ASSUME NEW ts, NEW ch, NEW delay \in Delays, TableOK(ts, ch), NEW t \in Tasks
  PROVE  Kept(ts[t], Reconcile(ts, delay)[t])
<1> DEFINE new == Reconcile(ts, delay)[t]
<1>1. Reconciled(ts[t], new, delay)
  BY ReconcileTable
<1> HIDE DEF new
<1>2. ts[t].status \in Settled => new = ts[t]
  BY <1>1 DEF Reconciled, Settled
<1>3. ASSUME Expired(ts[t], delay)
      PROVE  ts[t].lease.left <= 0
  <2>1. RecordOK(t, ts[t], ch[t]) /\ ts[t].status = "RUNNING" /\ ts[t].lease.left + delay <= 0
    BY <1>3 DEF Expired, TableOK
  <2>2. ts[t].lease \in Leases
    BY <2>1 DEF RecordOK, TaskRecords
  <2>3. ts[t].lease.left \in Int /\ delay \in Nat
    BY <2>2, PolicyAssumption DEF Leases, Delays
  <2> QED
    BY <2>1, <2>3
<1>4. new.lease_expiries # ts[t].lease_expiries => Expired(ts[t], delay)
  BY <1>1 DEF Reconciled
<1> QED
  BY <1>2, <1>3, <1>4 DEF Kept, new

(* A call that changes one unsettled record after the reconciliation, and  *)
(* leaves its expiries alone.                                              *)
LEMMA UpdateKeeps ==
  ASSUME IInv, NEW delay \in Delays, NEW t \in Tasks, NEW new,
         Reconcile(tasks, delay)[t].status \notin Settled,
         new.lease_expiries = Reconcile(tasks, delay)[t].lease_expiries,
         NEW u \in Tasks
  PROVE  Kept(tasks[u], [Reconcile(tasks, delay) EXCEPT ![t] = new][u])
<1> DEFINE r == Reconcile(tasks, delay)
           ts == [r EXCEPT ![t] = new]
<1>1. TableOK(r, charged)
  BY ReconcileTable DEF IInv
<1>2. Kept(tasks[u], r[u])
  BY ReconcileKeeps DEF IInv
<1>3. ts[u] = IF u = t THEN new ELSE r[u]
  BY <1>1 DEF TableOK
<1>4. r[t].status \notin Settled /\ new.lease_expiries = r[t].lease_expiries
  OBVIOUS
<1> HIDE DEF r, ts
<1>5. Kept(tasks[u], ts[u])
  BY <1>2, <1>3, <1>4 DEF Kept
<1> QED
  BY <1>5 DEF r, ts

(* fail reconciles twice: the second pass finds no lease to reclaim.       *)
LEMMA FailKeeps ==
  ASSUME IInv, NEW w \in Workers, NEW t \in Tasks, NEW token, NEW class \in FailureClasses, NEW delay \in Delays,
         Fail(w, t, token, class, delay), NEW u \in Tasks
  PROVE  Kept(tasks[u], tasks'[u])
<1> DEFINE r == Reconcile(tasks, delay)
           new == GiveUp(t, r[t], class)
           ts == [r EXCEPT ![t] = new]
<1>1. /\ HoldsLease(r[t], w, token)
      /\ tasks' = Reconcile(ts, delay)
  BY DEF Fail
<1>2. RecordOK(t, r[t], charged[t]) /\ r[t].status = "RUNNING" /\ charged[t] \in Nat
  BY <1>1, HolderRecord
<1>3. /\ RecordOK(t, new, charged[t] + 1)
      /\ new.status \in {"PENDING", "FAILED"}
      /\ new.lease_expiries = r[t].lease_expiries
  BY <1>2, GiveUpRecord
<1> HIDE DEF new
<1>4. Kept(tasks[u], ts[u])
  BY <1>2, <1>3, UpdateKeeps DEF Settled
<1>5. TableOK(r, charged) /\ Reconciled(tasks[u], r[u], delay)
  BY ReconcileTable DEF IInv
<1> HIDE DEF r
<1>6. TableOK(ts, [charged EXCEPT ![t] = charged[t] + 1])
  BY <1>2, <1>3, <1>5, UpdateTable
<1>7. Reconciled(ts[u], tasks'[u], delay)
  BY <1>1, <1>6, ReconcileTable
<1>8. ts[u] = IF u = t THEN new ELSE r[u]
  BY <1>5 DEF TableOK
<1>9. ~Expired(ts[u], delay)
  <2>1. CASE u = t
    BY <1>3, <1>8, <2>1 DEF Expired
  <2>2. CASE u # t
    BY <1>5, <1>8, <2>2 DEF Reconciled, Expired
  <2> QED
    BY <2>1, <2>2
<1> HIDE DEF ts
<1>10. tasks[u].status \in Settled => ts[u] = tasks[u] /\ tasks'[u] = tasks[u]
  BY <1>4, <1>7 DEF Kept, Reconciled, Settled
<1>11. tasks'[u].lease_expiries = ts[u].lease_expiries
  BY <1>7, <1>9 DEF Reconciled
<1> QED
  BY <1>4, <1>10, <1>11 DEF Kept

(* The clock changes nothing but how long a lease has left.                *)
LEMMA TickKeeps ==
  ASSUME IInv, Tick, NEW u \in Tasks
  PROVE  Kept(tasks[u], tasks'[u])
<1>1. RecordOK(u, tasks[u], charged[u]) /\ charged[u] \in Nat
  BY DEF IInv, TableOK
<1>2. CASE tasks'[u] = tasks[u]
  BY <1>2 DEF Kept
<1>3. CASE tasks[u].status = "RUNNING" /\ tasks'[u] = WithLeft(tasks[u], tasks[u].lease.left - 1)
  <2>1. tasks[u].lease \in Leases
    BY <1>1, <1>3 DEF RecordOK, TaskRecords
  <2> DEFINE n == tasks[u].lease.left - 1
  <2>2. n \in Int
    BY <2>1 DEF Leases
  <2> HIDE DEF n
  <2>3. WithLeft(tasks[u], n).lease_expiries = tasks[u].lease_expiries
    BY <1>1, <1>3, <2>2, LeftRecord
  <2> QED
    BY <1>3, <2>3 DEF Kept, Settled, n
<1> QED
  BY <1>2, <1>3 DEF Tick

(* One step per operation.                                                 *)
LEMMA NextKeeps ==
  ASSUME IInv, [Next]_vars, NEW u \in Tasks
  PROVE  Kept(tasks[u], tasks'[u])
<1>r. ASSUME NEW delay \in Delays, tasks' = Reconcile(tasks, delay)
      PROVE  Kept(tasks[u], tasks'[u])
  BY <1>r, ReconcileKeeps DEF IInv
<1>1. ASSUME NEW w \in Workers, NEW delay \in Delays, Claim(w, delay)
      PROVE  Kept(tasks[u], tasks'[u])
  <2> DEFINE r == Reconcile(tasks, delay)
  <2>1. ASSUME NEW t \in Tasks, Ready(r, t), tasks' = [r EXCEPT ![t] = Grant(r[t], w, delay)]
        PROVE  Kept(tasks[u], tasks'[u])
    <3>1. RecordOK(t, r[t], charged[t]) /\ charged[t] \in Nat /\ r[t].status = "PENDING"
      BY <2>1, ReconcileTable DEF IInv, TableOK, Ready
    <3>2. Grant(r[t], w, delay).lease_expiries = r[t].lease_expiries
      BY <3>1, GrantRecord
    <3> QED
      BY <2>1, <3>1, <3>2, UpdateKeeps DEF Settled
  <2> QED
    BY <1>1, <1>r, <2>1 DEF Claim
<1>2. ASSUME NEW delay \in Delays,
             Resume(delay) \/ (\E w \in Workers, t \in Tasks, key \in EffectKeys : CompleteAgain(w, t, key, delay))
      PROVE  Kept(tasks[u], tasks'[u])
  BY <1>2, <1>r DEF Resume, CompleteAgain
<1>3. ASSUME NEW w, NEW t \in Tasks, NEW token, NEW delay \in Delays, Heartbeat(w, t, token, delay)
      PROVE  Kept(tasks[u], tasks'[u])
  <2> DEFINE n == LeaseSeconds - delay
  <2>1. RecordOK(t, tasks[t], charged[t]) /\ tasks[t].status = "RUNNING" /\ charged[t] \in Nat
    BY <1>3 DEF Heartbeat, HoldsLease, IInv, TableOK
  <2>2. n \in Int
    BY PolicyAssumption DEF Delays
  <2>3. tasks'[u] = IF u = t THEN WithLeft(tasks[t], n) ELSE tasks[u]
    BY <1>3 DEF Heartbeat, IInv, TableOK
  <2> HIDE DEF n
  <2>4. WithLeft(tasks[t], n).lease_expiries = tasks[t].lease_expiries
    BY <2>1, <2>2, LeftRecord
  <2> QED
    BY <2>1, <2>3, <2>4 DEF Kept, Settled
<1>4. ASSUME NEW w, NEW t \in Tasks, NEW token, NEW key \in EffectKeys, NEW delay \in Delays,
             Complete(w, t, token, key, delay)
      PROVE  Kept(tasks[u], tasks'[u])
  <2> DEFINE r == Reconcile(tasks, delay)
  <2>1. HoldsLease(r[t], w, token) /\ tasks' = [r EXCEPT ![t] = Finish(r[t], key)]
    BY <1>4 DEF Complete
  <2>2. RecordOK(t, r[t], charged[t]) /\ r[t].status = "RUNNING" /\ charged[t] \in Nat
    BY <2>1, ReconcileTable DEF IInv, TableOK, HoldsLease
  <2>3. Finish(r[t], key).lease_expiries = r[t].lease_expiries
    BY <2>2, FinishRecord
  <2> QED
    BY <2>1, <2>2, <2>3, UpdateKeeps DEF Settled
<1>5. ASSUME NEW w, NEW t \in Tasks, NEW token, NEW request \in Requests, NEW delay \in Delays,
             WaitForHuman(w, t, token, request, delay)
      PROVE  Kept(tasks[u], tasks'[u])
  <2> DEFINE r == Reconcile(tasks, delay)
  <2>1. HoldsLease(r[t], w, token) /\ tasks' = [r EXCEPT ![t] = Ask(r[t], request)]
    BY <1>5 DEF WaitForHuman
  <2>2. RecordOK(t, r[t], charged[t]) /\ r[t].status = "RUNNING" /\ charged[t] \in Nat
    BY <2>1, ReconcileTable DEF IInv, TableOK, HoldsLease
  <2>3. Ask(r[t], request).lease_expiries = r[t].lease_expiries
    BY <2>2, AskRecord
  <2> QED
    BY <2>1, <2>2, <2>3, UpdateKeeps DEF Settled
<1>6. ASSUME NEW t \in Tasks, NEW request \in Requests, NEW response \in Responses, NEW delay \in Delays,
             ResolveHuman(t, request, response, delay)
      PROVE  Kept(tasks[u], tasks'[u])
  <2> DEFINE r == Reconcile(tasks, delay)
  <2>1. ASSUME Awaits(r[t], request), tasks' = [r EXCEPT ![t] = Answer(r[t], request, response)]
        PROVE  Kept(tasks[u], tasks'[u])
    <3>1. RecordOK(t, r[t], charged[t]) /\ charged[t] \in Nat
      BY ReconcileTable DEF IInv, TableOK
    <3>2. Answer(r[t], request, response).lease_expiries = r[t].lease_expiries
      BY <2>1, <3>1, AnswerRecord
    <3> QED
      BY <2>1, <3>2, UpdateKeeps DEF Settled, Awaits
  <2> QED
    BY <1>6, <1>r, <2>1 DEF ResolveHuman
<1>7. ASSUME tasks' = tasks
      PROVE  Kept(tasks[u], tasks'[u])
  BY <1>7 DEF Kept
<1> QED
  BY <1>1, <1>2, <1>3, <1>4, <1>5, <1>6, <1>7, FailKeeps, TickKeeps
     DEF Next, WorkerCall, HumanCall, Crash, Restart, vars

(* What is settled stays settled: a late, repeated or conflicting call     *)
(* never changes the record of a task that succeeded, failed or blocked.   *)
THEOREM SettledStaysSettled == Spec => SettledForGood
<1>1. ASSUME IInv, [Next]_vars
      PROVE  \A t \in Tasks : tasks[t].status \in {"SUCCEEDED", "FAILED", "BLOCKED"} => tasks'[t] = tasks[t]
  BY <1>1, NextKeeps DEF Kept, Settled
<1> QED
  BY <1>1, InvariantHolds, PTL DEF Spec, SettledForGood

(* No call, with however stale a clock reading, reclaims a lease that has  *)
(* time left.                                                              *)
THEOREM LiveLeaseNotReclaimed == Spec => OnlyExpiredLeaseReclaimed
<1>1. ASSUME IInv, [Next]_vars
      PROVE  \A t \in Tasks : tasks'[t].lease_expiries # tasks[t].lease_expiries => tasks[t].lease.left <= 0
  BY <1>1, NextKeeps DEF Kept
<1> QED
  BY <1>1, InvariantHolds, PTL DEF Spec, OnlyExpiredLeaseReclaimed
-----------------------------------------------------------------------------
(***************************************************************************)
(* Proofs about the order in which TaskRuntime runs tasks: for every plan, *)
(* work starts over finished dependencies only and a dead task takes all   *)
(* its pending dependents with it in the same write.                       *)
(*                                                                         *)
(* Ordered is what survives the change of one record, PendingAlive what    *)
(* the blocking half of a reconciliation re-establishes.                   *)
(***************************************************************************)

Begun == {"RUNNING", "WAITING_HUMAN", "SUCCEEDED", "FAILED"}

DepsDone(ts, t) == \A d \in DependsOn[t] : ts[d].status = "SUCCEEDED"
DepsAlive(ts, t) == \A d \in DependsOn[t] : ts[d].status \notin Dead

Ordered(ts) ==
  \A t \in Tasks :
    /\ ts[t].status \in Begun => DepsDone(ts, t)
    /\ ts[t].status = "BLOCKED" => ~DepsAlive(ts, t)

PendingAlive(ts) == \A t \in Tasks : ts[t].status = "PENDING" => DepsAlive(ts, t)

LEMMA HonouredParts == DependenciesHonoured <=> Ordered(tasks) /\ PendingAlive(tasks)
  BY DEF DependenciesHonoured, Ordered, PendingAlive, DepsDone, DepsAlive, Begun

-----------------------------------------------------------------------------
(* What a reconciliation and the change of one record do to the order.     *)

(* The least set of doomed tasks is all that is missing: a task outside it *)
(* has no dead dependency afterwards, one inside it has.                   *)
LEMMA BlockOrders ==
  ASSUME NEW ts, NEW ch, TableOK(ts, ch)
  PROVE  /\ PendingAlive(Block(ts))
         /\ \A t \in Doomed(ts) : ~DepsAlive(Block(ts), t)
<1> DEFINE r == Block(ts)
           S == Doomed(ts)
<1>1. /\ \A t \in Tasks : t \in S => ts[t].status = "PENDING" /\ r[t].status = "BLOCKED"
      /\ \A t \in Tasks : t \notin S => r[t] = ts[t]
  BY BlockTable
<1>2. /\ BlocksClosed(ts, S)
      /\ \A t \in S : \E d \in DependsOn[t] : ts[d].status \in Dead \/ d \in S
  BY DoomedIsLeast
<1>3. S \subseteq Tasks /\ \A t \in Tasks : DependsOn[t] \subseteq Tasks
  BY TaskAssumption DEF Doomed
<1> HIDE DEF r, S
<1>4. \A d \in Tasks : r[d].status \in Dead <=> ts[d].status \in Dead \/ d \in S
  BY <1>1 DEF Dead
<1>5. PendingAlive(r)
  <2> SUFFICES ASSUME NEW t \in Tasks, r[t].status = "PENDING", NEW d \in DependsOn[t], r[d].status \in Dead
               PROVE  FALSE
    BY DEF PendingAlive, DepsAlive
  <2>1. t \notin S /\ ts[t].status = "PENDING"
    BY <1>1
  <2>2. ts[d].status \in Dead \/ d \in S
    BY <1>3, <1>4
  <2> QED
    BY <1>2, <2>1, <2>2 DEF BlocksClosed
<1>6. \A t \in S : ~DepsAlive(r, t)
  BY <1>2, <1>3, <1>4 DEF DepsAlive
<1> QED
  BY <1>5, <1>6 DEF r, S

LEMMA ReconcileOrders ==
  ASSUME NEW ts, NEW ch, TableOK(ts, ch), NEW delay, Ordered(ts)
  PROVE  /\ Ordered(Reconcile(ts, delay))
         /\ PendingAlive(Reconcile(ts, delay))
<1> DEFINE e == Expire(ts, delay)
           r == Block(e)
<1>1. TableOK(e, ch) /\ Reconcile(ts, delay) = r
  <2>1. TableOK(e, ch)
    BY ExpireTable
  <2>2. Reconcile(ts, delay) = r
    BY DEF Reconcile
  <2> QED
    BY <2>1, <2>2
<1>2. \A t \in Tasks : Reconciled(ts[t], r[t], delay)
  BY <1>1, ReconcileTable
<1>3. /\ PendingAlive(r)
      /\ \A t \in Doomed(e) : ~DepsAlive(r, t)
  BY <1>1, BlockOrders
<1>4. \A t \in Tasks : t \notin Doomed(e) => r[t] = e[t]
  BY <1>1, BlockTable
<1>5. \A t \in Tasks : e[t] = ts[t] \/ e[t].status = "PENDING"
  <2>1. \A t \in Tasks :
          /\ Expired(ts[t], delay) => e[t].status = "PENDING" /\ e[t].lease_expiries = ts[t].lease_expiries + 1
          /\ ~Expired(ts[t], delay) => e[t] = ts[t]
    BY <1>1, ExpireTable DEF Expired
  <2> QED
    BY <2>1
<1>6. \A t \in Tasks : DependsOn[t] \subseteq Tasks
  BY TaskAssumption
<1> HIDE DEF e, r
<1>7. ASSUME NEW t \in Tasks, r[t].status \in Begun
      PROVE  DepsDone(r, t)
  <2>1. ts[t].status \in Begun
    BY <1>2, <1>7 DEF Reconciled, Begun
  <2>2. DepsDone(ts, t)
    BY <2>1 DEF Ordered
  <2> QED
    BY <1>2, <1>6, <2>2 DEF DepsDone, Reconciled
<1>8. ASSUME NEW t \in Tasks, r[t].status = "BLOCKED"
      PROVE  ~DepsAlive(r, t)
  <2>1. CASE t \in Doomed(e)
    BY <1>3, <2>1
  <2>2. CASE t \notin Doomed(e)
    <3>1. ts[t].status = "BLOCKED"
      BY <1>4, <1>5, <1>8, <2>2
    <3>2. PICK d \in DependsOn[t] : ts[d].status \in Dead
      BY <3>1 DEF Ordered, DepsAlive
    <3>3. r[d].status \in Dead
      BY <1>2, <1>6, <3>2 DEF Reconciled, Dead
    <3> QED
      BY <3>2, <3>3 DEF DepsAlive
  <2> QED
    BY <2>1, <2>2
<1> QED
  BY <1>1, <1>3, <1>7, <1>8 DEF Ordered

(* A call changes the record of one unsettled task.                        *)
LEMMA UpdateOrders ==
  ASSUME NEW r, NEW ch, TableOK(r, ch), Ordered(r),
         NEW t \in Tasks, r[t].status \notin Settled, NEW new, new.status # "BLOCKED",
         new.status \in Begun => DepsDone(r, t)
  PROVE  /\ Ordered([r EXCEPT ![t] = new])
         /\ PendingAlive(r) /\ new.status # "FAILED" /\ DepsAlive(r, t) => PendingAlive([r EXCEPT ![t] = new])
<1> DEFINE ts == [r EXCEPT ![t] = new]
<1>1. \A u \in Tasks : ts[u] = IF u = t THEN new ELSE r[u]
  BY DEF TableOK
<1>2. \A u \in Tasks : DependsOn[u] \subseteq Tasks
  BY TaskAssumption
<1> HIDE DEF ts
<1>3. ASSUME NEW u \in Tasks, DepsDone(r, u)
      PROVE  DepsDone(ts, u)
  BY <1>1, <1>2, <1>3 DEF DepsDone, Settled
<1>4. ASSUME NEW u \in Tasks, ~DepsAlive(r, u)
      PROVE  ~DepsAlive(ts, u)
  BY <1>1, <1>2, <1>4 DEF DepsAlive, Dead, Settled
<1>5. Ordered(ts)
  BY <1>1, <1>3, <1>4 DEF Ordered
<1>6. ASSUME PendingAlive(r), new.status # "FAILED", DepsAlive(r, t)
      PROVE  PendingAlive(ts)
  <2>1. \A u \in Tasks : ts[u].status \in Dead => r[u].status \in Dead
    BY <1>1, <1>6 DEF Dead
  <2>2. \A u \in Tasks : ts[u].status = "PENDING" => DepsAlive(r, u)
    BY <1>1, <1>6 DEF PendingAlive
  <2> QED
    BY <1>2, <2>1, <2>2 DEF PendingAlive, DepsAlive
<1> QED
  BY <1>5, <1>6 DEF ts

-----------------------------------------------------------------------------
(* Every step keeps the order.                                             *)

Honoured == Ordered(tasks) /\ PendingAlive(tasks)

(* The reconciled table that every call but the heartbeat works on.        *)
LEMMA ReconciledTable ==
  ASSUME IInv, Honoured, NEW delay \in Delays
  PROVE  /\ TableOK(Reconcile(tasks, delay), charged)
         /\ Ordered(Reconcile(tasks, delay))
         /\ PendingAlive(Reconcile(tasks, delay))
<1>1. TableOK(tasks, charged) /\ Ordered(tasks)
  BY DEF IInv, Honoured
<1> QED
  BY <1>1, ReconcileTable, ReconcileOrders

(* A call that leaves the task running, finished, asking or pending again. *)
LEMMA UpdateHonours ==
  ASSUME IInv, Honoured, NEW delay \in Delays, NEW t \in Tasks, NEW new,
         Reconcile(tasks, delay)[t].status \notin Settled,
         DepsDone(Reconcile(tasks, delay), t), new.status \notin Dead,
         tasks' = [Reconcile(tasks, delay) EXCEPT ![t] = new]
  PROVE  Honoured'
<1> DEFINE r == Reconcile(tasks, delay)
<1>1. TableOK(r, charged) /\ Ordered(r) /\ PendingAlive(r)
  BY ReconciledTable
<1>2. /\ r[t].status \notin Settled /\ DepsDone(r, t)
      /\ new.status # "BLOCKED" /\ new.status # "FAILED"
      /\ tasks' = [r EXCEPT ![t] = new]
  BY DEF Dead
<1> HIDE DEF r
<1>3. DepsAlive(r, t)
  BY <1>2 DEF DepsDone, DepsAlive, Dead
<1> DEFINE ts == [r EXCEPT ![t] = new]
<1>4. Ordered(ts) /\ PendingAlive(ts)
  BY <1>1, <1>2, <1>3, UpdateOrders
<1>5. tasks' = ts
  BY <1>2
<1> HIDE DEF ts
<1> QED
  BY <1>4, <1>5 DEF Honoured

(* The holder of a lease works over finished dependencies.                 *)
LEMMA HolderOrder ==
  ASSUME IInv, Honoured, NEW w, NEW t \in Tasks, NEW token, NEW delay \in Delays,
         HoldsLease(Reconcile(tasks, delay)[t], w, token)
  PROVE  /\ Reconcile(tasks, delay)[t].status \notin Settled
         /\ DepsDone(Reconcile(tasks, delay), t)
  BY ReconciledTable DEF HoldsLease, Ordered, Begun, Settled

LEMMA FailHonours ==
  ASSUME IInv, Honoured, NEW w \in Workers, NEW t \in Tasks, NEW token, NEW class \in FailureClasses,
         NEW delay \in Delays, Fail(w, t, token, class, delay)
  PROVE  Honoured'
<1> DEFINE r == Reconcile(tasks, delay)
           new == GiveUp(t, r[t], class)
           ts == [r EXCEPT ![t] = new]
<1>1. HoldsLease(r[t], w, token) /\ tasks' = Reconcile(ts, delay)
  BY DEF Fail
<1>2. r[t].status \notin Settled /\ DepsDone(r, t)
  BY <1>1, HolderOrder
<1>3. RecordOK(t, r[t], charged[t]) /\ r[t].status = "RUNNING" /\ charged[t] \in Nat
  BY <1>1, ReconcileTable DEF IInv, TableOK, HoldsLease
<1>4. RecordOK(t, new, charged[t] + 1) /\ new.status \in {"PENDING", "FAILED"}
  BY <1>3, GiveUpRecord
<1>5. TableOK(r, charged) /\ Ordered(r)
  BY ReconciledTable
<1> HIDE DEF r, new
<1>6. Ordered(ts)
  BY <1>2, <1>4, <1>5, UpdateOrders
<1>7. TableOK(ts, [charged EXCEPT ![t] = charged[t] + 1])
  BY <1>3, <1>4, <1>5, UpdateTable
<1> HIDE DEF ts
<1>8. Ordered(tasks') /\ PendingAlive(tasks')
  BY <1>1, <1>6, <1>7, ReconcileOrders
<1> QED
  BY <1>8 DEF Honoured

(* Steps that change no status.                                            *)
LEMMA SameStatusHonours ==
  ASSUME Honoured, \A u \in Tasks : tasks'[u].status = tasks[u].status
  PROVE  Honoured'
<1>1. \A u \in Tasks : DependsOn[u] \subseteq Tasks
  BY TaskAssumption
<1> QED
  BY <1>1 DEF Honoured, Ordered, PendingAlive, DepsDone, DepsAlive

LEMMA NextHonours ==
  ASSUME IInv, Honoured, [Next]_vars
  PROVE  Honoured'
<1>r. ASSUME NEW delay \in Delays, tasks' = Reconcile(tasks, delay)
      PROVE  Honoured'
  BY <1>r, ReconciledTable DEF Honoured
<1>1. ASSUME NEW w \in Workers, NEW delay \in Delays, Claim(w, delay)
      PROVE  Honoured'
  <2> DEFINE r == Reconcile(tasks, delay)
  <2>1. ASSUME NEW t \in Tasks, Ready(r, t), tasks' = [r EXCEPT ![t] = Grant(r[t], w, delay)]
        PROVE  Honoured'
    <3>1. RecordOK(t, r[t], charged[t]) /\ charged[t] \in Nat /\ r[t].status = "PENDING" /\ DepsDone(r, t)
      BY <2>1, ReconciledTable DEF TableOK, Ready, DepsDone, IInv
    <3>2. Grant(r[t], w, delay).status = "RUNNING"
      BY <3>1, GrantRecord
    <3> QED
      BY <2>1, <3>1, <3>2, UpdateHonours DEF Settled, Dead
  <2> QED
    BY <1>1, <1>r, <2>1 DEF Claim
<1>2. ASSUME NEW delay \in Delays,
             Resume(delay) \/ (\E w \in Workers, t \in Tasks, key \in EffectKeys : CompleteAgain(w, t, key, delay))
      PROVE  Honoured'
  BY <1>2, <1>r DEF Resume, CompleteAgain
<1>3. ASSUME NEW w, NEW t \in Tasks, NEW token, NEW delay \in Delays, Heartbeat(w, t, token, delay)
      PROVE  Honoured'
  <2> DEFINE n == LeaseSeconds - delay
  <2>1. RecordOK(t, tasks[t], charged[t]) /\ tasks[t].status = "RUNNING" /\ charged[t] \in Nat
    BY <1>3 DEF Heartbeat, HoldsLease, IInv, TableOK
  <2>2. n \in Int
    BY PolicyAssumption DEF Delays
  <2>3. \A u \in Tasks : tasks'[u] = IF u = t THEN WithLeft(tasks[t], n) ELSE tasks[u]
    BY <1>3 DEF Heartbeat, IInv, TableOK
  <2> HIDE DEF n
  <2>4. WithLeft(tasks[t], n).status = "RUNNING"
    BY <2>1, <2>2, LeftRecord
  <2> QED
    BY <2>1, <2>3, <2>4, SameStatusHonours
<1>4. ASSUME NEW w, NEW t \in Tasks, NEW token, NEW key \in EffectKeys, NEW delay \in Delays,
             Complete(w, t, token, key, delay)
      PROVE  Honoured'
  <2> DEFINE r == Reconcile(tasks, delay)
  <2>1. HoldsLease(r[t], w, token) /\ tasks' = [r EXCEPT ![t] = Finish(r[t], key)]
    BY <1>4 DEF Complete
  <2>2. RecordOK(t, r[t], charged[t]) /\ r[t].status = "RUNNING" /\ charged[t] \in Nat
    BY <2>1, ReconcileTable DEF IInv, TableOK, HoldsLease
  <2>3. Finish(r[t], key).status = "SUCCEEDED"
    BY <2>2, FinishRecord
  <2> QED
    BY <2>1, <2>3, HolderOrder, UpdateHonours DEF Dead
<1>5. ASSUME NEW w, NEW t \in Tasks, NEW token, NEW request \in Requests, NEW delay \in Delays,
             WaitForHuman(w, t, token, request, delay)
      PROVE  Honoured'
  <2> DEFINE r == Reconcile(tasks, delay)
  <2>1. HoldsLease(r[t], w, token) /\ tasks' = [r EXCEPT ![t] = Ask(r[t], request)]
    BY <1>5 DEF WaitForHuman
  <2>2. RecordOK(t, r[t], charged[t]) /\ r[t].status = "RUNNING" /\ charged[t] \in Nat
    BY <2>1, ReconcileTable DEF IInv, TableOK, HoldsLease
  <2>3. Ask(r[t], request).status = "WAITING_HUMAN"
    BY <2>2, AskRecord
  <2> QED
    BY <2>1, <2>3, HolderOrder, UpdateHonours DEF Dead
<1>6. ASSUME NEW t \in Tasks, NEW request \in Requests, NEW response \in Responses, NEW delay \in Delays,
             ResolveHuman(t, request, response, delay)
      PROVE  Honoured'
  <2> DEFINE r == Reconcile(tasks, delay)
  <2>1. ASSUME Awaits(r[t], request), tasks' = [r EXCEPT ![t] = Answer(r[t], request, response)]
        PROVE  Honoured'
    <3>1. RecordOK(t, r[t], charged[t]) /\ charged[t] \in Nat /\ DepsDone(r, t) /\ r[t].status \notin Settled
      BY <2>1, ReconciledTable DEF TableOK, IInv, Ordered, Awaits, Begun, Settled
    <3>2. Answer(r[t], request, response).status = "PENDING"
      BY <2>1, <3>1, AnswerRecord
    <3> QED
      BY <2>1, <3>1, <3>2, UpdateHonours DEF Dead
  <2> QED
    BY <1>6, <1>r, <2>1 DEF ResolveHuman
<1>7. CASE Tick
  BY <1>7, SameStatusHonours DEF Tick, WithLeft, IInv, TableOK, TaskRecords
<1>8. ASSUME tasks' = tasks
      PROVE  Honoured'
  BY <1>8 DEF Honoured
<1> QED
  BY <1>1, <1>2, <1>3, <1>4, <1>5, <1>6, <1>7, <1>8, FailHonours
     DEF Next, WorkerCall, HumanCall, Crash, Restart, vars

LEMMA OrderKept == Spec => []Honoured
<1>1. Init => Honoured
  <2> SUFFICES ASSUME Init PROVE Honoured
    OBVIOUS
  <2>1. \A t \in Tasks : tasks[t].status = "PENDING"
    BY DEF Init, NewTask
  <2> QED
    BY <2>1, TaskAssumption DEF Honoured, Ordered, PendingAlive, DepsAlive, Begun, Dead
<1>2. IInv /\ Honoured /\ [Next]_vars => Honoured'
  BY NextHonours
<1> QED
  BY <1>1, <1>2, InvariantHolds, PTL DEF Spec

(* A task is worked on only over finished dependencies, a task with a dead *)
(* dependency never stays pending, and only such a task is blocked.        *)
THEOREM DependenciesAreHonoured == Spec => []DependenciesHonoured
<1>1. Honoured => DependenciesHonoured
  BY HonouredParts DEF Honoured
<1> QED
  BY <1>1, OrderKept, PTL
-----------------------------------------------------------------------------
(***************************************************************************)
(* TaskRuntime implements TaskLifecycle: every operation, seen through     *)
(* Phase and the owners of the leases, is one step of the life the runtime *)
(* promises, or none.                                                      *)
(*                                                                         *)
(* A reconciliation takes tasks back and buries them; it never starts,     *)
(* finishes or suspends one.  Those are done by the call's change of its   *)
(* one record, which is why Singular holds of one task at most.            *)
(***************************************************************************)

Holder(rec) == IF rec.status = "RUNNING" THEN rec.lease.owner ELSE None

(* What a record may become when its task is not the one a call is about:  *)
(* it stays, is taken back or given up, or goes down with a dependency.    *)
Calm(old, new) ==
  \/ new.status = old.status /\ Holder(new) = Holder(old)
  \/ old.status = "RUNNING" /\ new.status \in {"PENDING", "FAILED", "BLOCKED"}
  \/ old.status = "PENDING" /\ new.status = "BLOCKED"

Quiet(t) ==
  \/ Calm(tasks[t], tasks'[t])
  \/ tasks[t].status = "WAITING_HUMAN" /\ tasks'[t].status = "PENDING"

(* What the one task a call is about may become besides.                   *)
Loud(t) ==
  \/ /\ tasks[t].status \in {"PENDING", "RUNNING"}
     /\ DepsDone(tasks, t)
     /\ tasks'[t].status = "RUNNING"
     /\ Holder(tasks'[t]) \in Workers
  \/ tasks[t].status = "RUNNING" /\ tasks'[t].status \in {"SUCCEEDED", "WAITING_HUMAN"}

LEMMA PhaseTable ==
  ASSUME NEW rec
  PROVE  /\ rec.status = "PENDING" => Phase(rec) = "todo"
         /\ rec.status = "RUNNING" => Phase(rec) = "active"
         /\ rec.status = "WAITING_HUMAN" => Phase(rec) = "asking"
         /\ rec.status = "SUCCEEDED" => Phase(rec) = "done"
         /\ rec.status \in Dead => Phase(rec) = "dead"
<1>1. ASSUME rec.status = "PENDING" PROVE Phase(rec) = "todo"
  BY <1>1 DEF Phase, Dead
<1>2. ASSUME rec.status = "RUNNING" PROVE Phase(rec) = "active"
  BY <1>2 DEF Phase, Dead
<1>3. ASSUME rec.status = "WAITING_HUMAN" PROVE Phase(rec) = "asking"
  BY <1>3 DEF Phase, Dead
<1>4. ASSUME rec.status = "SUCCEEDED" PROVE Phase(rec) = "done"
  BY <1>4 DEF Phase, Dead
<1>5. ASSUME rec.status \in Dead PROVE Phase(rec) = "dead"
  <2>1. CASE rec.status = "FAILED"
    BY <2>1 DEF Phase, Dead
  <2>2. CASE rec.status = "BLOCKED"
    BY <2>2 DEF Phase, Dead
  <2> QED
    BY <1>5, <2>1, <2>2 DEF Dead
<1> QED
  BY <1>1, <1>2, <1>3, <1>4, <1>5

LEMMA QuietStep ==
  ASSUME IInv, IInv', Honoured', NEW t \in Tasks, Quiet(t)
  PROVE  /\ Lifecycle!Same(t) \/ Lifecycle!Leave(t) \/ Lifecycle!Answered(t) \/ Lifecycle!Buried(t)
         /\ ~Lifecycle!Singular(t)
<1>1. DependsOn[t] \subseteq Tasks
  BY TaskAssumption
<1>2. CASE tasks'[t].status = tasks[t].status /\ Holder(tasks'[t]) = Holder(tasks[t])
  <2>1. tasks[t].status \in Statuses
    BY DEF IInv, TableOK, TaskRecords
  <2>2. Phase(tasks'[t]) = Phase(tasks[t])
    BY <1>2, <2>1, PhaseTable DEF Statuses, Dead
  <2> QED
    BY <1>2, <2>2 DEF Lifecycle!Same, Lifecycle!Singular, Holder
<1>3. CASE tasks[t].status = "RUNNING" /\ tasks'[t].status \in {"PENDING", "FAILED", "BLOCKED"}
  BY <1>3, PhaseTable DEF Lifecycle!Leave, Lifecycle!Singular, Dead
<1>4. CASE tasks[t].status = "WAITING_HUMAN" /\ tasks'[t].status = "PENDING"
  BY <1>4, PhaseTable DEF Lifecycle!Answered, Lifecycle!Singular
<1>5. CASE tasks[t].status = "PENDING" /\ tasks'[t].status = "BLOCKED"
  <2>1. PICK d \in DependsOn[t] : tasks'[d].status \in Dead
    BY <1>5 DEF Honoured, Ordered, DepsAlive
  <2>2. Phase(tasks'[d]) = "dead"
    BY <2>1, PhaseTable
  <2> QED
    BY <1>1, <1>5, <2>2, PhaseTable DEF Lifecycle!Buried, Lifecycle!Singular, Dead
<1> QED
  BY <1>2, <1>3, <1>4, <1>5 DEF Quiet, Calm

LEMMA LoudStep ==
  ASSUME NEW t \in Tasks, Loud(t)
  PROVE  Lifecycle!Start(t) \/ Lifecycle!Leave(t)
<1>1. DependsOn[t] \subseteq Tasks
  BY TaskAssumption
<1>2. CASE tasks[t].status = "RUNNING" /\ tasks'[t].status \in {"SUCCEEDED", "WAITING_HUMAN"}
  BY <1>2, PhaseTable DEF Lifecycle!Leave
<1>3. CASE /\ tasks[t].status \in {"PENDING", "RUNNING"}
           /\ DepsDone(tasks, t)
           /\ tasks'[t].status = "RUNNING"
           /\ Holder(tasks'[t]) \in Workers
  <2>1. \A d \in DependsOn[t] : d \in Tasks /\ Phase(tasks[d]) = "done"
    BY <1>1, <1>3, PhaseTable DEF DepsDone
  <2> QED
    BY <1>3, <2>1, PhaseTable DEF Lifecycle!Start, Holder
<1> QED
  BY <1>2, <1>3 DEF Loud

-----------------------------------------------------------------------------
(* The shape of a step: all tasks quiet, or all but one.                   *)

LEMMA ReconcileCalm ==
  ASSUME NEW ts, NEW ch, TableOK(ts, ch), NEW delay, NEW t \in Tasks
  PROVE  Calm(ts[t], Reconcile(ts, delay)[t])
<1> DEFINE new == Reconcile(ts, delay)[t]
<1>1. Reconciled(ts[t], new, delay)
  BY ReconcileTable
<1>2. TableOK(Reconcile(ts, delay), ch)
  BY ReconcileTable
<1>3. ts[t].status \in Statuses /\ new.status \in Statuses
  BY <1>2 DEF TableOK, TaskRecords
<1> HIDE DEF new
<1>4. Calm(ts[t], new)
  BY <1>1, <1>3 DEF Calm, Reconciled, Statuses, Holder
<1> QED
  BY <1>4 DEF new

Shaped ==
  \/ \A u \in Tasks : Quiet(u)
  \/ \E t \in Tasks : Loud(t) /\ \A u \in Tasks \ {t} : Quiet(u)

(* A call that changes the record of t after the reconciliation.           *)
LEMMA UpdateShaped ==
  ASSUME IInv, NEW delay, NEW t \in Tasks, NEW new,
         tasks' = [Reconcile(tasks, delay) EXCEPT ![t] = new],
         tasks'[t] = new => Loud(t) \/ Quiet(t)
  PROVE  Shaped
<1> DEFINE r == Reconcile(tasks, delay)
<1>1. TableOK(r, charged) /\ TableOK(tasks, charged)
  BY ReconcileTable DEF IInv
<1>2. \A u \in Tasks : Calm(tasks[u], r[u])
  BY <1>1, ReconcileCalm
<1>3. \A u \in Tasks : tasks'[u] = IF u = t THEN new ELSE r[u]
  BY <1>1 DEF TableOK
<1> HIDE DEF r
<1>4. \A u \in Tasks \ {t} : Quiet(u)
  BY <1>2, <1>3 DEF Quiet
<1>5. Loud(t) \/ Quiet(t)
  BY <1>3
<1> QED
  BY <1>4, <1>5 DEF Shaped

(* The holder's task was running before the call and ran over finished     *)
(* dependencies.                                                           *)
LEMMA HolderBefore ==
  ASSUME IInv, Honoured, NEW w, NEW t \in Tasks, NEW token, NEW delay \in Delays,
         HoldsLease(Reconcile(tasks, delay)[t], w, token)
  PROVE  /\ tasks[t].status = "RUNNING"
         /\ RecordOK(t, Reconcile(tasks, delay)[t], charged[t])
         /\ Reconcile(tasks, delay)[t].status = "RUNNING"
         /\ charged[t] \in Nat
<1> DEFINE rec == Reconcile(tasks, delay)[t]
<1>1. Reconciled(tasks[t], rec, delay) /\ RecordOK(t, rec, charged[t]) /\ charged[t] \in Nat
  BY ReconcileTable DEF IInv, TableOK
<1>2. rec.status = "RUNNING"
  BY DEF HoldsLease
<1> HIDE DEF rec
<1>3. tasks[t].status = "RUNNING"
  BY <1>1, <1>2 DEF Reconciled
<1> QED
  BY <1>1, <1>2, <1>3 DEF rec

LEMMA ClaimShaped ==
  ASSUME IInv, Honoured, NEW w \in Workers, NEW delay \in Delays, NEW t \in Tasks,
         Ready(Reconcile(tasks, delay), t),
         tasks' = [Reconcile(tasks, delay) EXCEPT ![t] = Grant(Reconcile(tasks, delay)[t], w, delay)]
  PROVE  Shaped
<1> DEFINE r == Reconcile(tasks, delay)
           new == Grant(r[t], w, delay)
<1>1. TableOK(r, charged) /\ \A u \in Tasks : Reconciled(tasks[u], r[u], delay)
  BY ReconcileTable DEF IInv
<1>2. RecordOK(t, r[t], charged[t]) /\ charged[t] \in Nat /\ r[t].status = "PENDING" /\ DepsDone(r, t)
  BY <1>1 DEF TableOK, Ready, DepsDone
<1>3. new.status = "RUNNING" /\ Holder(new) = w
  <2>1. r[t] \in TaskRecords
    BY <1>2 DEF RecordOK
  <2> HIDE DEF r
  <2> QED
    BY <2>1 DEF Grant, Holder, TaskRecords
<1>4. tasks' = [r EXCEPT ![t] = new]
  OBVIOUS
<1> HIDE DEF r, new
<1>5. tasks[t].status \in {"PENDING", "RUNNING"}
  BY <1>1, <1>2 DEF Reconciled
<1>6. DepsDone(tasks, t)
  <2>1. \A d \in DependsOn[t] : d \in Tasks
    BY TaskAssumption
  <2> QED
    BY <1>1, <1>2, <2>1 DEF DepsDone, Reconciled
<1>7. tasks'[t] = new => Loud(t)
  BY <1>3, <1>5, <1>6 DEF Loud
<1> QED
  BY <1>4, <1>7, UpdateShaped DEF r

LEMMA FailShaped ==
  ASSUME IInv, Honoured, NEW w \in Workers, NEW t \in Tasks, NEW token, NEW class \in FailureClasses,
         NEW delay \in Delays, Fail(w, t, token, class, delay)
  PROVE  Shaped
<1> DEFINE r == Reconcile(tasks, delay)
           new == GiveUp(t, r[t], class)
           ts == [r EXCEPT ![t] = new]
<1>1. HoldsLease(r[t], w, token) /\ tasks' = Reconcile(ts, delay)
  BY DEF Fail
<1>2. /\ tasks[t].status = "RUNNING" /\ RecordOK(t, r[t], charged[t])
      /\ r[t].status = "RUNNING" /\ charged[t] \in Nat
  BY <1>1, HolderBefore
<1>3. RecordOK(t, new, charged[t] + 1) /\ new.status \in {"PENDING", "FAILED"}
  BY <1>2, GiveUpRecord
<1>4. TableOK(r, charged) /\ TableOK(tasks, charged)
  BY ReconcileTable DEF IInv
<1>5. \A u \in Tasks : Calm(tasks[u], r[u])
  BY <1>4, ReconcileCalm
<1> HIDE DEF r, new
<1>6. TableOK(ts, [charged EXCEPT ![t] = charged[t] + 1])
  BY <1>2, <1>3, <1>4, UpdateTable
<1>7. \A u \in Tasks : ts[u] = IF u = t THEN new ELSE r[u]
  BY <1>4 DEF TableOK
<1> HIDE DEF ts
<1>8. \A u \in Tasks : Calm(ts[u], tasks'[u])
  BY <1>1, <1>6, ReconcileCalm
<1>9. ASSUME NEW u \in Tasks
      PROVE  Quiet(u)
  <2>1. CASE u = t
    BY <1>2, <1>3, <1>7, <1>8, <2>1 DEF Quiet, Calm
  <2>2. CASE u # t
    BY <1>5, <1>7, <1>8, <2>2 DEF Quiet, Calm
  <2> QED
    BY <2>1, <2>2
<1> QED
  BY <1>9 DEF Shaped

LEMMA NextShaped ==
  ASSUME IInv, Honoured, [Next]_vars
  PROVE  Shaped
<1>r. ASSUME NEW delay \in Delays, tasks' = Reconcile(tasks, delay)
      PROVE  Shaped
  BY <1>r, ReconcileCalm DEF IInv, Shaped, Quiet
<1>1. ASSUME NEW w \in Workers, NEW delay \in Delays, Claim(w, delay)
      PROVE  Shaped
  BY <1>1, <1>r, ClaimShaped DEF Claim
<1>2. ASSUME NEW delay \in Delays,
             Resume(delay) \/ (\E w \in Workers, t \in Tasks, key \in EffectKeys : CompleteAgain(w, t, key, delay))
      PROVE  Shaped
  BY <1>2, <1>r DEF Resume, CompleteAgain
<1>3. ASSUME NEW w \in Workers, NEW t \in Tasks, NEW token, NEW delay \in Delays, Heartbeat(w, t, token, delay)
      PROVE  Shaped
  <2> DEFINE n == LeaseSeconds - delay
  <2>1. tasks[t] \in TaskRecords /\ tasks[t].status = "RUNNING" /\ tasks[t].lease \in Leases
    BY <1>3 DEF Heartbeat, HoldsLease, IInv, TableOK, RecordOK, TaskRecords
  <2>2. \A u \in Tasks : tasks'[u] = IF u = t THEN WithLeft(tasks[t], n) ELSE tasks[u]
    BY <1>3 DEF Heartbeat, IInv, TableOK
  <2> HIDE DEF n
  <2>3. WithLeft(tasks[t], n).status = tasks[t].status /\ WithLeft(tasks[t], n).lease.owner = tasks[t].lease.owner
    BY <2>1 DEF WithLeft, TaskRecords, Leases
  <2> QED
    BY <2>1, <2>2, <2>3 DEF Shaped, Quiet, Calm, Holder
<1>4. ASSUME NEW w \in Workers, NEW t \in Tasks, NEW token, NEW key \in EffectKeys, NEW delay \in Delays,
             Complete(w, t, token, key, delay)
      PROVE  Shaped
  <2> DEFINE r == Reconcile(tasks, delay)
             new == Finish(r[t], key)
  <2>1. HoldsLease(r[t], w, token) /\ tasks' = [r EXCEPT ![t] = new]
    BY <1>4 DEF Complete
  <2>2. /\ tasks[t].status = "RUNNING" /\ RecordOK(t, r[t], charged[t])
        /\ r[t].status = "RUNNING" /\ charged[t] \in Nat
    BY <2>1, HolderBefore
  <2>3. new.status = "SUCCEEDED"
    BY <2>2, FinishRecord
  <2> HIDE DEF new
  <2> QED
    BY <2>1, <2>2, <2>3, UpdateShaped DEF Loud
<1>5. ASSUME NEW w \in Workers, NEW t \in Tasks, NEW token, NEW request \in Requests, NEW delay \in Delays,
             WaitForHuman(w, t, token, request, delay)
      PROVE  Shaped
  <2> DEFINE r == Reconcile(tasks, delay)
             new == Ask(r[t], request)
  <2>1. HoldsLease(r[t], w, token) /\ tasks' = [r EXCEPT ![t] = new]
    BY <1>5 DEF WaitForHuman
  <2>2. /\ tasks[t].status = "RUNNING" /\ RecordOK(t, r[t], charged[t])
        /\ r[t].status = "RUNNING" /\ charged[t] \in Nat
    BY <2>1, HolderBefore
  <2>3. new.status = "WAITING_HUMAN"
    BY <2>2, AskRecord
  <2> HIDE DEF new
  <2> QED
    BY <2>1, <2>2, <2>3, UpdateShaped DEF Loud
<1>6. ASSUME NEW t \in Tasks, NEW request \in Requests, NEW response \in Responses, NEW delay \in Delays,
             ResolveHuman(t, request, response, delay)
      PROVE  Shaped
  <2> DEFINE r == Reconcile(tasks, delay)
             new == Answer(r[t], request, response)
  <2>1. ASSUME Awaits(r[t], request), tasks' = [r EXCEPT ![t] = new]
        PROVE  Shaped
    <3>1. /\ RecordOK(t, r[t], charged[t]) /\ charged[t] \in Nat
          /\ Reconciled(tasks[t], r[t], delay) /\ r[t].status = "WAITING_HUMAN"
      BY <2>1, ReconcileTable DEF IInv, TableOK, Awaits
    <3>2. new.status = "PENDING"
      BY <2>1, <3>1, AnswerRecord
    <3>3. tasks[t].status = "WAITING_HUMAN"
      BY <3>1 DEF Reconciled
    <3> HIDE DEF new
    <3> QED
      BY <2>1, <3>2, <3>3, UpdateShaped DEF Quiet
  <2> QED
    BY <1>6, <1>r, <2>1 DEF ResolveHuman
<1>7. CASE Tick
  <2>1. ASSUME NEW u \in Tasks
        PROVE  tasks'[u].status = tasks[u].status /\ Holder(tasks'[u]) = Holder(tasks[u])
    <3>1. CASE tasks'[u] = tasks[u]
      BY <3>1
    <3>2. CASE tasks[u].status = "RUNNING" /\ tasks'[u] = WithLeft(tasks[u], tasks[u].lease.left - 1)
      <4>1. tasks[u] \in TaskRecords /\ tasks[u].lease \in Leases
        BY <3>2 DEF IInv, TableOK, RecordOK, TaskRecords
      <4> QED
        BY <3>2, <4>1 DEF WithLeft, Holder, TaskRecords, Leases
    <3> QED
      BY <1>7, <3>1, <3>2 DEF Tick
  <2> QED
    BY <2>1 DEF Shaped, Quiet, Calm
<1>8. ASSUME tasks' = tasks
      PROVE  Shaped
  BY <1>8 DEF Shaped, Quiet, Calm
<1> QED
  BY <1>1, <1>2, <1>3, <1>4, <1>5, <1>6, <1>7, <1>8, FailShaped
     DEF Next, WorkerCall, HumanCall, Crash, Restart, vars

(* A shaped step is a step of the life, or none.                           *)
LEMMA ShapedRefines ==
  ASSUME IInv, IInv', Honoured', Shaped
  PROVE  Lifecycle!Next
<1>1. \A u \in Tasks : \/ Lifecycle!Same(u) \/ Lifecycle!Start(u) \/ Lifecycle!Leave(u)
                        \/ Lifecycle!Answered(u) \/ Lifecycle!Buried(u)
  BY QuietStep, LoudStep DEF Shaped
<1>2. \A t, u \in Tasks : Lifecycle!Singular(t) /\ Lifecycle!Singular(u) => t = u
  BY QuietStep DEF Shaped
<1>3. ASSUME NEW t \in Tasks, Phase(tasks'[t]) = "todo", NEW d \in DependsOn[t]
      PROVE  Phase(tasks'[d]) # "dead"
  <2>1. d \in Tasks
    BY TaskAssumption
  <2>2. tasks'[t].status \in Statuses /\ tasks'[d].status \in Statuses
    BY <2>1 DEF IInv, TableOK, TaskRecords
  <2>3. tasks'[t].status = "PENDING"
    BY <1>3, <2>2, PhaseTable DEF Statuses, Dead
  <2>4. tasks'[d].status \notin Dead
    BY <2>3 DEF Honoured, PendingAlive, DepsAlive
  <2> QED
    BY <2>2, <2>4, PhaseTable DEF Statuses, Dead
<1>4. \A t \in Tasks : DependsOn[t] \subseteq Tasks
  BY TaskAssumption
<1> QED
  BY <1>1, <1>2, <1>3, <1>4 DEF Lifecycle!Next

(* The runtime implements the life it promises to its tasks: for every     *)
(* plan, whatever its workers, clocks and humans do, each task goes through *)
(* it once, over finished dependencies and in the hands of one worker.     *)
THEOREM RuntimeImplementsLifecycle == Spec => ImplementsLifecycle
<1>1. Init => Lifecycle!Init
  <2> SUFFICES ASSUME Init PROVE Lifecycle!Init
    OBVIOUS
  <2>1. \A t \in Tasks : tasks[t].status = "PENDING"
    BY DEF Init, NewTask
  <2> QED
    BY <2>1, PhaseTable DEF Lifecycle!Init
<1>2. IInv /\ IInv' /\ Honoured /\ [Next]_vars => [Lifecycle!Next]_(Lifecycle!vars)
  BY NextShaped, NextHonours, ShapedRefines
<1>3. Spec => []Honoured
  BY OrderKept
<1> QED
  BY <1>1, <1>2, <1>3, InvariantHolds, PTL DEF Spec, ImplementsLifecycle, Lifecycle!Spec
=============================================================================
