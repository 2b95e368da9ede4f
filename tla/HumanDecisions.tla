--------------------------- MODULE HumanDecisions --------------------------
(***************************************************************************)
(* Human decisions live in two files: 07_runtime/human-decisions.yaml,     *)
(* which tools/human_decisions.py reads and writes without any lock, and   *)
(* the task runtime, whose operations are atomic.  record_human_required   *)
(* and resolve_request change one, then the other, and put the former      *)
(* content back when the second change is refused or fails.  Each of their *)
(* reads and writes is a step; a write may raise, commands may overlap and *)
(* may die between steps.  A write that raises while undoing ends the      *)
(* command where it is, as a death does.                                   *)
(***************************************************************************)
EXTENDS Naturals, FiniteSets

CONSTANTS
  Tasks,
  Ids,            \* decision IDs a worker may choose
  Times,          \* the clock readings a request may carry (created_at)
  Answers,        \* what a human may answer
  Commands,       \* processes that record or resolve
  MaxLeases,      \* bound on the claims of a task
  Exclusive,      \* whether at most one process works on the project at a time
  None

Requests == [id : Ids, task : Tasks, at : Times]
Responses == [request : Requests, answer : Answers]
Documents == [requests : SUBSET Requests, responses : SUBSET Responses]
TaskRecords ==
  [status : {"PENDING", "RUNNING", "WAITING_HUMAN", "SUCCEEDED"}, lease : 1..MaxLeases,
   request : Requests \cup {None}, response : Responses \cup {None}]
Runtimes == [Tasks -> TaskRecords]
Points ==
  {"idle", "read", "write", "wait", "undo", "capture", "resolve", "write response", "undo runtime", "undo document"}

ASSUME HumanDecisionsAssumption ==
  /\ Exclusive \in BOOLEAN
  /\ MaxLeases \in Nat \ {0}
  /\ None \notin Requests \cup Responses

VARIABLES
  doc,            \* human-decisions.yaml
  runtime,        \* the runtime's records of the tasks
  pc,             \* where each command is
  mem             \* what it remembers

vars == <<doc, runtime, pc, mem>>

-----------------------------------------------------------------------------
Nothing == [request |-> None, response |-> None, lease |-> 0, before |-> None, seen |-> None, saved |-> None]

Free(p) == pc[p] = "idle" /\ (Exclusive => \A q \in Commands : pc[q] = "idle")
Quiet == Exclusive => \A q \in Commands : pc[q] = "idle"

Holds(t, l) == runtime[t].status = "RUNNING" /\ runtime[t].lease = l

Goto(p, point) == pc' = [pc EXCEPT ![p] = point]
Finish(p) == Goto(p, "idle") /\ mem' = [mem EXCEPT ![p] = Nothing]
Remember(p, field, value) == mem' = [mem EXCEPT ![p][field] = value]

(* Mutant: the document holds the latest request only.                     *)
WithLatestRequest(d, q) == [d EXCEPT !.requests = {q}]

WithRequest(d, q) == [d EXCEPT !.requests = @ \cup {q}]

WithResponse(d, r) == [d EXCEPT !.responses = @ \cup {r}]

Asked(rec, q) == [rec EXCEPT !.status = "WAITING_HUMAN", !.request = q, !.response = None]

Answered(rec, r) == [rec EXCEPT !.status = "PENDING", !.response = r]

-----------------------------------------------------------------------------
Init ==
  /\ doc = [requests |-> {}, responses |-> {}]
  /\ runtime = [t \in Tasks |-> [status |-> "RUNNING", lease |-> 1, request |-> None, response |-> None]]
  /\ pc = [p \in Commands |-> "idle"]
  /\ mem = [p \in Commands |-> Nothing]

(* record_human_required, called with the lease of the attempt, which may  *)
(* be lost by now: the first load of the document, for the undo.           *)
(* created_at is read from the clock, which has moved on since a request   *)
(* that was answered.                                                      *)
Record(p, q) ==
  /\ Free(p)
  /\ \A e \in doc.responses : e.request # q
  /\ \E l \in 1..runtime[q.task].lease :
       mem' = [mem EXCEPT ![p].request = q, ![p].lease = l, ![p].before = doc]
  /\ Goto(p, "read")
  /\ UNCHANGED <<doc, runtime>>

(* record_request loads it again; the same decision ID with other content  *)
(* (created_at counts) is refused, before anything is there to undo.       *)
RecordRead(p) ==
  LET q == mem[p].request
      same == {e \in doc.requests : e.id = q.id}
  IN  /\ pc[p] = "read"
      /\ \/ same = {} /\ Goto(p, "write") /\ Remember(p, "seen", doc)
         \/ same = {q} /\ Goto(p, "wait") /\ UNCHANGED mem
         \/ same \notin {{}, {q}} /\ Finish(p)
      /\ UNCHANGED <<doc, runtime>>

(* A write that raises is undone by record_request itself.                 *)
RecordWrite(p) ==
  /\ pc[p] = "write"
  /\ \/ doc' = WithRequest(mem[p].seen, mem[p].request) /\ Goto(p, "wait") /\ UNCHANGED mem
     \/ doc' = mem[p].seen /\ Finish(p)
  /\ UNCHANGED runtime

(* wait_for_human under the lease, unless the task waits for this request  *)
(* already; it may refuse, and its write may raise.                        *)
RecordWait(p) ==
  LET q == mem[p].request
      rec == runtime[q.task]
  IN  /\ pc[p] = "wait"
      /\ \/ /\ rec.status = "WAITING_HUMAN"
            /\ rec.request = q
            /\ Finish(p)
            /\ UNCHANGED runtime
         \/ /\ Holds(q.task, mem[p].lease)
            /\ runtime' = [runtime EXCEPT ![q.task] = Asked(rec, q)]
            /\ Finish(p)
         \/ /\ ~(rec.status = "WAITING_HUMAN" /\ rec.request = q)
            /\ Goto(p, "undo")
            /\ UNCHANGED <<runtime, mem>>
      /\ UNCHANGED doc

RecordUndo(p) ==
  /\ pc[p] = "undo"
  /\ doc' = mem[p].before
  /\ Finish(p)
  /\ UNCHANGED runtime

(* resolve_request: a response to a request of the document; a request     *)
(* that is answered already takes no second one and changes nothing.       *)
Resolve(p, r) ==
  /\ Free(p)
  /\ r.request \in doc.requests
  /\ \A e \in doc.responses : e.request.id # r.request.id
  /\ mem' = [mem EXCEPT ![p].response = r, ![p].seen = doc]
  /\ Goto(p, "capture")
  /\ UNCHANGED <<doc, runtime>>

ResolveCapture(p) ==
  /\ pc[p] = "capture"
  /\ Remember(p, "saved", runtime)
  /\ Goto(p, "resolve")
  /\ UNCHANGED <<doc, runtime>>

(* Mutant: a refusal of the runtime is overlooked.                         *)
ResolveRuntimeAnyway(p) ==
  /\ pc[p] = "resolve"
  /\ LET r == mem[p].response
         rec == runtime[r.request.task]
     IN  runtime' = IF rec.status = "WAITING_HUMAN" /\ rec.request = r.request
                    THEN [runtime EXCEPT ![r.request.task] = Answered(rec, r)] ELSE runtime
  /\ Goto(p, "write response")
  /\ UNCHANGED <<doc, mem>>

(* resolve_human: the task waits for this request, or it is ready with     *)
(* this very response.  Anything else is refused, and its write may raise. *)
ResolveRuntime(p) ==
  LET r == mem[p].response
      t == r.request.task
      rec == runtime[t]
      waits == rec.status = "WAITING_HUMAN" /\ rec.request = r.request
      again == rec.status = "PENDING" /\ rec.response = r
  IN  /\ pc[p] = "resolve"
      /\ \/ waits /\ runtime' = [runtime EXCEPT ![t] = Answered(rec, r)] /\ Goto(p, "write response")
         \/ again /\ UNCHANGED runtime /\ Goto(p, "write response")
         \/ UNCHANGED runtime /\ Goto(p, "undo runtime")
      /\ UNCHANGED <<doc, mem>>

(* The response is filed; a write that raises takes the runtime back,      *)
(* although it has accepted the answer.                                    *)
ResolveWrite(p) ==
  /\ pc[p] = "write response"
  /\ \/ doc' = WithResponse(mem[p].seen, mem[p].response) /\ Finish(p)
     \/ UNCHANGED <<doc, mem>> /\ Goto(p, "undo runtime")
  /\ UNCHANGED runtime

ResolveUndoRuntime(p) ==
  /\ pc[p] = "undo runtime"
  /\ runtime' = mem[p].saved
  /\ Goto(p, "undo document")
  /\ UNCHANGED <<doc, mem>>

ResolveUndoDocument(p) ==
  /\ pc[p] = "undo document"
  /\ doc' = mem[p].seen
  /\ Finish(p)
  /\ UNCHANGED runtime

-----------------------------------------------------------------------------
(* The environment: a command dies; a worker claims or finishes a task;    *)
(* a lease runs out at any time.                                           *)

Crash(p) ==
  /\ pc[p] # "idle"
  /\ Finish(p)
  /\ UNCHANGED <<doc, runtime>>

Worker(t) ==
  /\ Quiet
  /\ \/ /\ runtime[t].status = "PENDING"
        /\ runtime[t].lease < MaxLeases
        /\ runtime' = [runtime EXCEPT ![t].status = "RUNNING", ![t].lease = @ + 1]
     \/ /\ runtime[t].status = "RUNNING"
        /\ runtime' = [runtime EXCEPT ![t].status = "SUCCEEDED"]
  /\ UNCHANGED <<doc, pc, mem>>

Expire(t) ==
  /\ runtime[t].status = "RUNNING"
  /\ runtime' = [runtime EXCEPT ![t].status = "PENDING"]
  /\ UNCHANGED <<doc, pc, mem>>

Command(p) ==
  \/ \E q \in Requests : Record(p, q)
  \/ RecordRead(p) \/ RecordWrite(p) \/ RecordWait(p) \/ RecordUndo(p)
  \/ \E r \in Responses : Resolve(p, r)
  \/ ResolveCapture(p) \/ ResolveRuntime(p) \/ ResolveWrite(p)
  \/ ResolveUndoRuntime(p) \/ ResolveUndoDocument(p)

Next ==
  \/ \E p \in Commands : Command(p) \/ Crash(p)
  \/ \E t \in Tasks : Worker(t) \/ Expire(t)

Spec == Init /\ [][Next]_vars

-----------------------------------------------------------------------------
(* Properties.                                                             *)

(* Shapes, and a task waits for one request without an answer.             *)
TypeOK ==
  /\ doc \in Documents
  /\ runtime \in Runtimes
  /\ \A t \in Tasks : runtime[t].status = "WAITING_HUMAN" => runtime[t].request # None /\ runtime[t].response = None
  /\ pc \in [Commands -> Points]
  /\ \A p \in Commands : mem[p].request \in Requests \cup {None} /\ mem[p].response \in Responses \cup {None}

(* docs/agent-runtime-guide.md, line 120: the request is saved and the     *)
(* task moves to WAITING_HUMAN.  Nobody waits for a question that nobody   *)
(* can answer, because resolve_request does not find it.                   *)
WaitIsDocumented ==
  \A t \in Tasks : runtime[t].status = "WAITING_HUMAN" => runtime[t].request \in doc.requests

(* The file and the runtime never hold different answers to one question:  *)
(* an answer on file is the one the task went on with, whatever crashes,   *)
(* repeats and refusals lie between (a task never waits for an answer that *)
(* is already on file, either).                                            *)
AnswersAgree ==
  \A r \in doc.responses :
    runtime[r.request.task].request = r.request => runtime[r.request.task].response = r
=============================================================================
