------------------------ MODULE HumanDecisions_proofs -----------------------
(***************************************************************************)
(* Proofs about HumanDecisions, for any number of tasks, decision IDs,     *)
(* clock readings, answers and commands that work one at a time, each of   *)
(* which may die between any two of its steps.  Commands that overlap      *)
(* break both properties (HumanDecisions_lost.cfg), so the theorems assume *)
(* Exclusive.                                                              *)
(*                                                                         *)
(* The invariant says that file and runtime agree, that what the command   *)
(* in progress would put back agrees with them too, and what it has        *)
(* established about its request or its response so far.                   *)
(***************************************************************************)
EXTENDS HumanDecisions, TLAPS

Recording == {"read", "write", "wait", "undo"}
Resolving == {"capture", "resolve", "write response", "undo runtime", "undo document"}

Memories ==
  [request : Requests \cup {None}, response : Responses \cup {None}, lease : 0..MaxLeases,
   before : Documents \cup {None}, seen : Documents \cup {None}, saved : Runtimes \cup {None}]

TypesOK ==
  /\ doc \in Documents
  /\ runtime \in Runtimes
  /\ pc \in [Commands -> Points]
  /\ mem \in [Commands -> Memories]

(* A task that waits has asked, and a response answers the request.        *)
RecordsOK(run) ==
  \A t \in Tasks :
    /\ run[t].status = "WAITING_HUMAN" => run[t].request \in Requests /\ run[t].response = None
    /\ run[t].response # None => run[t].response.request = run[t].request

(* A document and a runtime, these or remembered ones, that agree.         *)
Documented(d, run) ==
  \A t \in Tasks : run[t].status = "WAITING_HUMAN" => run[t].request \in d.requests

Agreeing(d, run) ==
  \A r \in d.responses : run[r.request.task].request = r.request => run[r.request.task].response = r

Consistent(d, run) == RecordsOK(run) /\ Documented(d, run) /\ Agreeing(d, run)

OneAtATime == \A p, q \in Commands : pc[p] # "idle" /\ pc[q] # "idle" => p = q

(* What record_human_required has established when it is at a point.       *)
RecordingOK(p) ==
  /\ mem[p].request \in Requests
  /\ mem[p].before \in Documents
  /\ Consistent(mem[p].before, runtime)
  /\ \A e \in doc.responses : e.request # mem[p].request
  /\ pc[p] = "write" => mem[p].seen = doc
  /\ pc[p] = "wait" => mem[p].request \in doc.requests

(* And resolve_request.                                                    *)
ResolvingOK(p) ==
  LET r == mem[p].response
  IN  /\ r \in Responses
      /\ mem[p].seen = doc
      /\ \A e \in doc.responses : e.request # r.request
      /\ pc[p] \in {"resolve", "write response", "undo runtime"} =>
           mem[p].saved \in Runtimes /\ Consistent(doc, mem[p].saved)
      /\ pc[p] = "write response" =>
           (runtime[r.request.task].request = r.request => runtime[r.request.task].response = r)

PlacesOK == \A p \in Commands : /\ pc[p] \in Recording => RecordingOK(p)
                                /\ pc[p] \in Resolving => ResolvingOK(p)

IInv == TypesOK /\ OneAtATime /\ Consistent(doc, runtime) /\ PlacesOK

-----------------------------------------------------------------------------
(* Helpers.                                                                *)

(* A runtime with the same questions and answers and no task waiting that  *)
(* did not wait before is consistent with what the former was.             *)
LEMMA FewerWait ==
  ASSUME NEW d \in Documents, NEW run \in Runtimes, NEW other \in Runtimes, Consistent(d, run),
         \A t \in Tasks : /\ other[t].request = run[t].request
                          /\ other[t].response = run[t].response
                          /\ other[t].status = "WAITING_HUMAN" => run[t].status = "WAITING_HUMAN"
  PROVE  Consistent(d, other)
<1>1. RecordsOK(other)
  BY DEF Consistent, RecordsOK
<1>2. Documented(d, other)
  BY DEF Consistent, Documented
<1>3. \A r \in d.responses : r.request.task \in Tasks
  BY DEF Documents, Responses, Requests
<1>4. Agreeing(d, other)
  BY <1>3 DEF Consistent, Agreeing
<1> QED
  BY <1>1, <1>2, <1>4 DEF Consistent

(* A command that moves is the only one at work, before and after.         *)
LEMMA Alone ==
  ASSUME Exclusive, IInv, NEW p \in Commands, NEW point \in Points,
         pc[p] # "idle" \/ Free(p), Goto(p, point)
  PROVE  /\ pc' \in [Commands -> Points]
         /\ pc'[p] = point
         /\ \A q \in Commands : q # p => pc[q] = "idle" /\ pc'[q] = "idle"
         /\ OneAtATime'
<1>1. pc' \in [Commands -> Points] /\ pc'[p] = point /\ \A q \in Commands : q # p => pc'[q] = pc[q]
  BY DEF IInv, TypesOK, Goto
<1>2. \A q \in Commands : q # p => pc[q] = "idle"
  BY DEF IInv, OneAtATime, Free
<1> QED
  BY <1>1, <1>2 DEF OneAtATime

(* So its own place is all that PlacesOK says.                             *)
LEMMA OnlyPlace ==
  ASSUME NEW p \in Commands, \A q \in Commands : q # p => pc'[q] = "idle",
         pc'[p] \in Recording => RecordingOK(p)',
         pc'[p] \in Resolving => ResolvingOK(p)'
  PROVE  PlacesOK'
  BY DEF PlacesOK, Recording, Resolving

(* A command that is done or has died leaves what it has written.          *)
LEMMA Finished ==
  ASSUME Exclusive, IInv, NEW p \in Commands, pc[p] # "idle", Finish(p),
         doc' \in Documents, runtime' \in Runtimes, Consistent(doc', runtime')
  PROVE  IInv'
<1>1. "idle" \in Points /\ Goto(p, "idle")
  BY DEF Points, Finish
<1>2. /\ pc' \in [Commands -> Points]
      /\ pc'[p] = "idle"
      /\ \A q \in Commands : q # p => pc'[q] = "idle"
      /\ OneAtATime'
  BY <1>1, Alone
<1>3. Nothing \in Memories
  BY HumanDecisionsAssumption DEF Nothing, Memories
<1>4. mem' \in [Commands -> Memories]
  BY <1>3 DEF Finish, IInv, TypesOK
<1>5. TypesOK'
  BY <1>2, <1>4 DEF TypesOK
<1>6. PlacesOK'
  BY <1>2, OnlyPlace DEF Recording, Resolving
<1>7. Consistent(doc, runtime)'
  BY DEF Consistent, RecordsOK, Documented, Agreeing
<1> QED
  BY <1>2, <1>5, <1>6, <1>7 DEF IInv

(* A command that goes on, with the files as they were.                    *)
LEMMA GoesOn ==
  ASSUME Exclusive, IInv, NEW p \in Commands, NEW point \in Points,
         pc[p] # "idle" \/ Free(p), Goto(p, point), mem' \in [Commands -> Memories],
         UNCHANGED <<doc, runtime>>,
         point \in Recording => RecordingOK(p)',
         point \in Resolving => ResolvingOK(p)'
  PROVE  IInv'
<1>1. /\ pc' \in [Commands -> Points]
      /\ pc'[p] = point
      /\ \A q \in Commands : q # p => pc'[q] = "idle"
      /\ OneAtATime'
  BY Alone
<1>2. TypesOK'
  BY <1>1 DEF IInv, TypesOK
<1>3. PlacesOK'
  BY <1>1, OnlyPlace
<1>4. Consistent(doc, runtime)'
  BY DEF IInv, Consistent, RecordsOK, Documented, Agreeing
<1> QED
  BY <1>1, <1>2, <1>3, <1>4 DEF IInv

-----------------------------------------------------------------------------
(* record_human_required, step by step.                                    *)

LEMMA RecordKeeps ==
  ASSUME Exclusive, IInv, NEW p \in Commands, NEW q \in Requests, Record(p, q)
  PROVE  IInv'
<1>1. PICK l \in 1..runtime[q.task].lease :
        mem' = [mem EXCEPT ![p].request = q, ![p].lease = l, ![p].before = doc]
  BY DEF Record
<1>2. runtime[q.task].lease \in 1..MaxLeases
  BY DEF IInv, TypesOK, Runtimes, TaskRecords, Requests
<1>3. l \in 0..MaxLeases
  BY <1>1, <1>2, HumanDecisionsAssumption
<1>4. mem' \in [Commands -> Memories] /\ mem'[p].request = q /\ mem'[p].before = doc
  BY <1>1, <1>3 DEF IInv, TypesOK, Memories
<1>5. pc'[p] = "read"
  BY DEF Record, Goto, IInv, TypesOK
<1>6. RecordingOK(p)'
  BY <1>4, <1>5 DEF Record, RecordingOK, IInv, TypesOK, Consistent, RecordsOK, Documented, Agreeing
<1>7. "read" \in Points /\ "read" \notin Resolving
  BY DEF Points, Resolving
<1> QED
  BY <1>4, <1>6, <1>7, GoesOn DEF Record

LEMMA RecordReadKeeps ==
  ASSUME Exclusive, IInv, NEW p \in Commands, RecordRead(p)
  PROVE  IInv'
<1> DEFINE q == mem[p].request
           same == {e \in doc.requests : e.id = q.id}
<1>1. RecordingOK(p) /\ pc[p] = "read" /\ UNCHANGED <<doc, runtime>>
  BY DEF IInv, PlacesOK, Recording, RecordRead
<1>2. CASE same = {} /\ Goto(p, "write") /\ Remember(p, "seen", doc)
  <2>1. mem' \in [Commands -> Memories] /\ mem'[p] = [mem[p] EXCEPT !.seen = doc]
    BY <1>2 DEF IInv, TypesOK, Remember, Memories
  <2>2. pc'[p] = "write"
    BY <1>2 DEF Goto, IInv, TypesOK
  <2>3. mem'[p].request = mem[p].request /\ mem'[p].before = mem[p].before /\ mem'[p].seen = doc
    BY <2>1 DEF IInv, TypesOK, Memories
  <2>4. RecordingOK(p)'
    BY <1>1, <2>2, <2>3 DEF RecordingOK, Consistent, RecordsOK, Documented, Agreeing
  <2>5. "write" \in Points /\ "write" \notin Resolving
    BY DEF Points, Resolving
  <2> QED
    BY <1>1, <1>2, <2>1, <2>4, <2>5, GoesOn
<1>3. CASE same = {q} /\ Goto(p, "wait") /\ UNCHANGED mem
  <2>1. pc'[p] = "wait" /\ q \in doc.requests
    BY <1>3 DEF Goto, IInv, TypesOK
  <2>2. RecordingOK(p)'
    BY <1>1, <1>3, <2>1 DEF RecordingOK, Consistent, RecordsOK, Documented, Agreeing
  <2>3. "wait" \in Points /\ "wait" \notin Resolving /\ mem' \in [Commands -> Memories]
    BY <1>3 DEF Points, Resolving, IInv, TypesOK
  <2> QED
    BY <1>1, <1>3, <2>2, <2>3, GoesOn
<1>4. CASE Finish(p)
  BY <1>1, <1>4, Finished DEF IInv, TypesOK
<1> QED
  BY <1>2, <1>3, <1>4 DEF RecordRead

(* The document is written as it was read, with the request.               *)
LEMMA RecordWriteKeeps ==
  ASSUME Exclusive, IInv, NEW p \in Commands, RecordWrite(p)
  PROVE  IInv'
<1> DEFINE q == mem[p].request
<1>0. RecordingOK(p) /\ pc[p] = "write" /\ UNCHANGED runtime
  BY DEF IInv, PlacesOK, Recording, RecordWrite
<1>a. CASE doc' = mem[p].seen /\ Finish(p)
  <2>1. doc' = doc
    BY <1>0, <1>a DEF RecordingOK
  <2>2. doc' \in Documents /\ runtime' \in Runtimes /\ Consistent(doc', runtime')
    BY <1>0, <2>1 DEF IInv, TypesOK
  <2> QED
    BY <1>0, <1>a, <2>2, Finished
<1>b. SUFFICES ASSUME doc' = WithRequest(mem[p].seen, q), Goto(p, "wait"), UNCHANGED mem
               PROVE  IInv'
  BY <1>a DEF RecordWrite
<1>1. RecordingOK(p) /\ pc[p] = "write" /\ UNCHANGED <<runtime, mem>>
  BY <1>0, <1>b
<1>2. doc' = [doc EXCEPT !.requests = @ \cup {q}]
  BY <1>1, <1>b DEF RecordingOK, WithRequest
<1>3. doc' \in Documents /\ doc'.requests = doc.requests \cup {q} /\ doc'.responses = doc.responses
  BY <1>1, <1>2 DEF IInv, TypesOK, Documents, RecordingOK
<1>4. Consistent(doc', runtime)
  BY <1>3 DEF IInv, Consistent, Documented, Agreeing
<1>5. /\ pc' \in [Commands -> Points]
      /\ pc'[p] = "wait"
      /\ \A o \in Commands : o # p => pc'[o] = "idle"
      /\ OneAtATime'
  BY <1>1, <1>b, Alone DEF Points
<1>6. RecordingOK(p)'
  BY <1>1, <1>3, <1>5 DEF RecordingOK, Consistent, RecordsOK, Documented, Agreeing
<1>7. PlacesOK'
  BY <1>5, <1>6, OnlyPlace DEF Resolving
<1>8. TypesOK' /\ Consistent(doc, runtime)'
  BY <1>1, <1>3, <1>4, <1>5 DEF IInv, TypesOK, Consistent, RecordsOK, Documented, Agreeing
<1> QED
  BY <1>5, <1>7, <1>8 DEF IInv

(* The task waits for a request that is on file and that has no answer     *)
(* there.                                                                  *)
LEMMA RecordWaitKeeps ==
  ASSUME Exclusive, IInv, NEW p \in Commands, RecordWait(p)
  PROVE  IInv'
<1> DEFINE q == mem[p].request
<1>1. RecordingOK(p) /\ pc[p] = "wait" /\ UNCHANGED doc /\ q \in Requests /\ q \in doc.requests
  BY DEF IInv, PlacesOK, Recording, RecordWait, RecordingOK
<1>2. q.task \in Tasks /\ runtime[q.task] \in TaskRecords
  BY <1>1 DEF Requests, IInv, TypesOK, Runtimes
<1>3. CASE Finish(p) /\ UNCHANGED runtime
  BY <1>1, <1>3, Finished DEF IInv, TypesOK
<1>4. CASE Finish(p) /\ runtime' = [runtime EXCEPT ![q.task] = Asked(runtime[q.task], q)]
  <2>1. /\ runtime' \in Runtimes
        /\ runtime'[q.task].status = "WAITING_HUMAN"
        /\ runtime'[q.task].request = q
        /\ runtime'[q.task].response = None
        /\ \A t \in Tasks : t # q.task => runtime'[t] = runtime[t]
    BY <1>1, <1>2, <1>4 DEF IInv, TypesOK, Runtimes, TaskRecords, Asked
  <2>2. RecordsOK(runtime') /\ Documented(doc, runtime')
    BY <1>1, <2>1 DEF IInv, Consistent, RecordsOK, Documented
  <2>3. \A r \in doc.responses : r.request.task \in Tasks
    BY DEF IInv, TypesOK, Documents, Responses, Requests
  <2>4. Agreeing(doc, runtime')
    BY <1>1, <2>1, <2>3 DEF IInv, Consistent, Agreeing, RecordingOK
  <2>5. Consistent(doc', runtime') /\ doc' \in Documents
    BY <1>1, <2>2, <2>4 DEF Consistent, IInv, TypesOK
  <2> QED
    BY <1>1, <1>4, <2>1, <2>5, Finished
<1>5. CASE Goto(p, "undo") /\ UNCHANGED <<runtime, mem>>
  <2>1. pc'[p] = "undo"
    BY <1>5 DEF Goto, IInv, TypesOK
  <2>2. RecordingOK(p)'
    BY <1>1, <1>5, <2>1 DEF RecordingOK, Consistent, RecordsOK, Documented, Agreeing
  <2>3. "undo" \in Points /\ "undo" \notin Resolving /\ mem' \in [Commands -> Memories]
    BY <1>5 DEF Points, Resolving, IInv, TypesOK
  <2> QED
    BY <1>1, <1>5, <2>2, <2>3, GoesOn
<1> QED
  BY <1>3, <1>4, <1>5 DEF RecordWait

LEMMA RecordUndoKeeps ==
  ASSUME Exclusive, IInv, NEW p \in Commands, RecordUndo(p)
  PROVE  IInv'
<1>1. RecordingOK(p) /\ pc[p] = "undo" /\ UNCHANGED runtime /\ doc' = mem[p].before
  BY DEF IInv, PlacesOK, Recording, RecordUndo
<1>2. doc' \in Documents /\ Consistent(doc', runtime') /\ runtime' \in Runtimes
  BY <1>1 DEF RecordingOK, IInv, TypesOK
<1> QED
  BY <1>1, <1>2, Finished DEF RecordUndo

-----------------------------------------------------------------------------
(* resolve_request, step by step.                                          *)

LEMMA ResolveKeeps ==
  ASSUME Exclusive, IInv, NEW p \in Commands, NEW r \in Responses, Resolve(p, r)
  PROVE  IInv'
<1>1. mem' \in [Commands -> Memories] /\ mem'[p].response = r /\ mem'[p].seen = doc
  BY DEF Resolve, IInv, TypesOK, Memories
<1>2. pc'[p] = "capture"
  BY DEF Resolve, Goto, IInv, TypesOK
<1>3. ResolvingOK(p)'
  BY <1>1, <1>2 DEF Resolve, ResolvingOK
<1>4. "capture" \in Points /\ "capture" \notin Recording
  BY DEF Points, Recording
<1> QED
  BY <1>1, <1>3, <1>4, GoesOn DEF Resolve

LEMMA ResolveCaptureKeeps ==
  ASSUME Exclusive, IInv, NEW p \in Commands, ResolveCapture(p)
  PROVE  IInv'
<1>1. ResolvingOK(p) /\ pc[p] = "capture" /\ UNCHANGED <<doc, runtime>>
  BY DEF IInv, PlacesOK, Resolving, ResolveCapture
<1>2. mem' \in [Commands -> Memories] /\ mem'[p] = [mem[p] EXCEPT !.saved = runtime]
  BY DEF ResolveCapture, Remember, IInv, TypesOK, Memories
<1>3. mem'[p].response = mem[p].response /\ mem'[p].seen = mem[p].seen /\ mem'[p].saved = runtime
  BY <1>2 DEF IInv, TypesOK, Memories
<1>4. pc'[p] = "resolve"
  BY DEF ResolveCapture, Goto, IInv, TypesOK
<1>5. ResolvingOK(p)'
  BY <1>1, <1>3, <1>4 DEF ResolvingOK, IInv, TypesOK, Consistent, RecordsOK, Documented, Agreeing
<1>6. "resolve" \in Points /\ "resolve" \notin Recording
  BY DEF Points, Recording
<1> QED
  BY <1>1, <1>2, <1>5, <1>6, GoesOn DEF ResolveCapture

(* The runtime takes the answer before the document does.                  *)
LEMMA ResolveRuntimeKeeps ==
  ASSUME Exclusive, IInv, NEW p \in Commands, ResolveRuntime(p)
  PROVE  IInv'
<1> DEFINE r == mem[p].response
           t == r.request.task
<1>1. ResolvingOK(p) /\ pc[p] = "resolve" /\ UNCHANGED <<doc, mem>> /\ r \in Responses
  BY DEF IInv, PlacesOK, Resolving, ResolveRuntime, ResolvingOK
<1>2. r.request \in Requests /\ t \in Tasks /\ runtime[t] \in TaskRecords
  BY <1>1 DEF Responses, Requests, IInv, TypesOK, Runtimes
<1>3. "write response" \in Points /\ "write response" \notin Recording
      /\ "undo runtime" \in Points /\ "undo runtime" \notin Recording /\ mem' \in [Commands -> Memories]
  BY <1>1 DEF Points, Recording, IInv, TypesOK
<1>4. CASE /\ runtime[t].status = "WAITING_HUMAN" /\ runtime[t].request = r.request
           /\ runtime' = [runtime EXCEPT ![t] = Answered(runtime[t], r)]
           /\ Goto(p, "write response")
  <2>1. /\ runtime' \in Runtimes
        /\ runtime'[t].status = "PENDING"
        /\ runtime'[t].request = r.request
        /\ runtime'[t].response = r
        /\ \A o \in Tasks : o # t => runtime'[o] = runtime[o]
    BY <1>1, <1>2, <1>4 DEF IInv, TypesOK, Runtimes, TaskRecords, Answered
  <2>2. RecordsOK(runtime') /\ Documented(doc, runtime')
    BY <2>1 DEF IInv, Consistent, RecordsOK, Documented
  <2>3. \A e \in doc.responses : e.request.task \in Tasks /\ e.request # r.request
    BY <1>1 DEF IInv, TypesOK, Documents, Responses, Requests, ResolvingOK
  <2>4. Agreeing(doc, runtime')
    BY <2>1, <2>3 DEF IInv, Consistent, Agreeing
  <2>5. /\ pc' \in [Commands -> Points]
        /\ pc'[p] = "write response"
        /\ \A o \in Commands : o # p => pc'[o] = "idle"
        /\ OneAtATime'
    BY <1>1, <1>3, <1>4, Alone
  <2>6. ResolvingOK(p)'
    BY <1>1, <2>1, <2>5 DEF ResolvingOK, Consistent, RecordsOK, Documented, Agreeing
  <2>7. PlacesOK'
    BY <1>3, <2>5, <2>6, OnlyPlace
  <2>8. TypesOK' /\ Consistent(doc, runtime)'
    BY <1>1, <1>3, <2>1, <2>2, <2>4, <2>5 DEF IInv, TypesOK, Consistent, RecordsOK, Documented, Agreeing
  <2> QED
    BY <2>5, <2>7, <2>8 DEF IInv
<1>5. CASE /\ runtime[t].status = "PENDING" /\ runtime[t].response = r
           /\ UNCHANGED runtime
           /\ Goto(p, "write response")
  <2>1. pc'[p] = "write response"
    BY <1>5 DEF Goto, IInv, TypesOK
  <2>2. ResolvingOK(p)'
    BY <1>1, <1>5, <2>1 DEF ResolvingOK, Consistent, RecordsOK, Documented, Agreeing
  <2> QED
    BY <1>1, <1>3, <1>5, <2>2, GoesOn
<1>6. CASE UNCHANGED runtime /\ Goto(p, "undo runtime")
  <2>1. pc'[p] = "undo runtime"
    BY <1>6 DEF Goto, IInv, TypesOK
  <2>2. ResolvingOK(p)'
    BY <1>1, <1>6, <2>1 DEF ResolvingOK, Consistent, RecordsOK, Documented, Agreeing
  <2> QED
    BY <1>1, <1>3, <1>6, <2>2, GoesOn
<1> QED
  BY <1>4, <1>5, <1>6 DEF ResolveRuntime

(* The response is filed, or the write of it raises and the command goes   *)
(* on to put back the runtime's file.                                      *)
LEMMA ResolveWriteKeeps ==
  ASSUME Exclusive, IInv, NEW p \in Commands, ResolveWrite(p)
  PROVE  IInv'
<1> DEFINE r == mem[p].response
<1>1. ResolvingOK(p) /\ pc[p] = "write response" /\ UNCHANGED runtime /\ r \in Responses
  BY DEF IInv, PlacesOK, Resolving, ResolveWrite, ResolvingOK
<1>2. CASE doc' = WithResponse(mem[p].seen, r) /\ Finish(p)
  <2>1. doc' = [doc EXCEPT !.responses = @ \cup {r}]
    BY <1>1, <1>2 DEF ResolvingOK, WithResponse
  <2>2. doc' \in Documents /\ doc'.requests = doc.requests /\ doc'.responses = doc.responses \cup {r}
    BY <1>1, <2>1 DEF IInv, TypesOK, Documents
  <2>3. Consistent(doc', runtime)
    BY <1>1, <2>2 DEF IInv, Consistent, Documented, Agreeing, ResolvingOK
  <2>4. Consistent(doc', runtime') /\ runtime' \in Runtimes
    BY <1>1, <2>3 DEF Consistent, RecordsOK, Documented, Agreeing, IInv, TypesOK
  <2> QED
    BY <1>1, <1>2, <2>2, <2>4, Finished
<1>3. CASE UNCHANGED <<doc, mem>> /\ Goto(p, "undo runtime")
  <2>1. pc'[p] = "undo runtime"
    BY <1>3 DEF Goto, IInv, TypesOK
  <2>2. ResolvingOK(p)'
    BY <1>1, <1>3, <2>1 DEF ResolvingOK, Consistent, RecordsOK, Documented, Agreeing
  <2>3. "undo runtime" \in Points /\ "undo runtime" \notin Recording /\ mem' \in [Commands -> Memories]
    BY <1>3 DEF Points, Recording, IInv, TypesOK
  <2> QED
    BY <1>1, <1>3, <2>2, <2>3, GoesOn
<1> QED
  BY <1>2, <1>3 DEF ResolveWrite

(* The runtime's file is put back as it was before the call.               *)
LEMMA ResolveUndoRuntimeKeeps ==
  ASSUME Exclusive, IInv, NEW p \in Commands, ResolveUndoRuntime(p)
  PROVE  IInv'
<1>1. ResolvingOK(p) /\ pc[p] = "undo runtime" /\ UNCHANGED <<doc, mem>> /\ runtime' = mem[p].saved
  BY DEF IInv, PlacesOK, Resolving, ResolveUndoRuntime
<1>2. runtime' \in Runtimes /\ Consistent(doc, runtime')
  BY <1>1 DEF ResolvingOK
<1>3. "undo document" \in Points /\ "undo document" \notin Recording /\ mem' \in [Commands -> Memories]
  BY <1>1 DEF Points, Recording, IInv, TypesOK
<1>4. /\ pc' \in [Commands -> Points]
      /\ pc'[p] = "undo document"
      /\ \A o \in Commands : o # p => pc'[o] = "idle"
      /\ OneAtATime'
  BY <1>1, <1>3, Alone DEF ResolveUndoRuntime
<1>5. ResolvingOK(p)'
  BY <1>1, <1>4 DEF ResolvingOK
<1>6. PlacesOK'
  BY <1>3, <1>4, <1>5, OnlyPlace
<1>7. TypesOK' /\ Consistent(doc, runtime)'
  BY <1>1, <1>2, <1>3, <1>4 DEF IInv, TypesOK, Consistent, RecordsOK, Documented, Agreeing
<1> QED
  BY <1>4, <1>6, <1>7 DEF IInv

LEMMA ResolveUndoDocumentKeeps ==
  ASSUME Exclusive, IInv, NEW p \in Commands, ResolveUndoDocument(p)
  PROVE  IInv'
<1>1. ResolvingOK(p) /\ pc[p] = "undo document" /\ UNCHANGED runtime /\ doc' = doc
  BY DEF IInv, PlacesOK, Resolving, ResolveUndoDocument, ResolvingOK
<1>2. doc' \in Documents /\ runtime' \in Runtimes /\ Consistent(doc', runtime')
  BY <1>1 DEF IInv, TypesOK, Consistent, RecordsOK, Documented, Agreeing
<1> QED
  BY <1>1, <1>2, Finished DEF ResolveUndoDocument

-----------------------------------------------------------------------------
(* The environment.                                                        *)

LEMMA CrashKeeps ==
  ASSUME Exclusive, IInv, NEW p \in Commands, Crash(p)
  PROVE  IInv'
<1>1. doc' \in Documents /\ runtime' \in Runtimes /\ Consistent(doc', runtime')
  BY DEF Crash, IInv, TypesOK, Consistent, RecordsOK, Documented, Agreeing
<1> QED
  BY <1>1, Finished DEF Crash

(* No worker starts or finishes a task while a command is at work.         *)
LEMMA WorkerKeeps ==
  ASSUME Exclusive, IInv, NEW t \in Tasks, Worker(t)
  PROVE  IInv'
<1>1. \A p \in Commands : pc[p] = "idle"
  BY DEF Worker, Quiet
<1>2. /\ runtime' \in Runtimes
      /\ \A o \in Tasks : /\ runtime'[o].request = runtime[o].request
                          /\ runtime'[o].response = runtime[o].response
                          /\ runtime'[o].status = "WAITING_HUMAN" => runtime[o].status = "WAITING_HUMAN"
  <2>1. CASE /\ runtime[t].lease < MaxLeases
             /\ runtime' = [runtime EXCEPT ![t].status = "RUNNING", ![t].lease = @ + 1]
    <3>1. runtime[t].lease + 1 \in 1..MaxLeases
      BY <2>1, HumanDecisionsAssumption DEF IInv, TypesOK, Runtimes, TaskRecords
    <3> QED
      BY <2>1, <3>1 DEF IInv, TypesOK, Runtimes, TaskRecords
  <2>2. CASE runtime' = [runtime EXCEPT ![t].status = "SUCCEEDED"]
    BY <2>2 DEF IInv, TypesOK, Runtimes, TaskRecords
  <2> QED
    BY <2>1, <2>2 DEF Worker
<1>3. Consistent(doc, runtime')
  BY <1>2, FewerWait DEF IInv, TypesOK
<1>4. UNCHANGED <<doc, pc, mem>>
  BY DEF Worker
<1>5. TypesOK' /\ OneAtATime' /\ Consistent(doc, runtime)'
  BY <1>2, <1>3, <1>4 DEF IInv, TypesOK, OneAtATime, Consistent, RecordsOK, Documented, Agreeing
<1>6. PlacesOK'
  BY <1>1, <1>4 DEF PlacesOK, Recording, Resolving
<1> QED
  BY <1>5, <1>6 DEF IInv

(* A lease may run out at any point of a command: nobody starts to wait.   *)
LEMMA ExpireKeeps ==
  ASSUME Exclusive, IInv, NEW t \in Tasks, Expire(t)
  PROVE  IInv'
<1>1. UNCHANGED <<doc, pc, mem>>
  BY DEF Expire
<1>2. /\ runtime' \in Runtimes
      /\ \A o \in Tasks : /\ runtime'[o].request = runtime[o].request
                          /\ runtime'[o].response = runtime[o].response
                          /\ runtime'[o].status = "WAITING_HUMAN" => runtime[o].status = "WAITING_HUMAN"
  BY DEF Expire, IInv, TypesOK, Runtimes, TaskRecords
<1>3. \A d \in Documents : Consistent(d, runtime) => Consistent(d, runtime')
  BY <1>2, FewerWait DEF IInv, TypesOK
<1>4. TypesOK' /\ OneAtATime' /\ Consistent(doc, runtime)'
  BY <1>1, <1>2, <1>3 DEF IInv, TypesOK, OneAtATime, Consistent, RecordsOK, Documented, Agreeing
<1>5. ASSUME NEW p \in Commands, pc[p] \in Recording PROVE RecordingOK(p)'
  <2>1. RecordingOK(p)
    BY <1>5 DEF IInv, PlacesOK
  <2>2. Consistent(mem[p].before, runtime')
    BY <1>3, <2>1 DEF RecordingOK
  <2>3. Consistent(mem[p].before, runtime)'
    BY <1>1, <2>2 DEF Consistent, RecordsOK, Documented, Agreeing
  <2> QED
    BY <1>1, <2>1, <2>3 DEF RecordingOK
<1>6. ASSUME NEW p \in Commands, pc[p] \in Resolving PROVE ResolvingOK(p)'
  <2>1. ResolvingOK(p)
    BY <1>6 DEF IInv, PlacesOK
  <2>2. mem[p].response.request.task \in Tasks
    BY <2>1 DEF ResolvingOK, Responses, Requests
  <2>3. Consistent(doc, mem[p].saved) => Consistent(doc, mem[p].saved)'
    BY <1>1 DEF Consistent, RecordsOK, Documented, Agreeing
  <2> QED
    BY <1>1, <1>2, <2>1, <2>2, <2>3 DEF ResolvingOK
<1> QED
  BY <1>1, <1>4, <1>5, <1>6 DEF IInv, PlacesOK

-----------------------------------------------------------------------------
LEMMA InitIInv == Init => IInv
<1> SUFFICES ASSUME Init PROVE IInv
  OBVIOUS
<1>1. Nothing \in Memories
  BY HumanDecisionsAssumption DEF Nothing, Memories
<1>2. 1 \in 1..MaxLeases
  BY HumanDecisionsAssumption
<1>3. TypesOK
  BY <1>1, <1>2 DEF Init, TypesOK, Documents, Runtimes, TaskRecords, Points
<1>4. OneAtATime /\ Consistent(doc, runtime) /\ PlacesOK
  BY DEF Init, OneAtATime, Consistent, RecordsOK, Documented, Agreeing, PlacesOK, Recording, Resolving
<1> QED
  BY <1>3, <1>4 DEF IInv

LEMMA NextIInv == ASSUME Exclusive PROVE IInv /\ [Next]_vars => IInv'
<1> SUFFICES ASSUME IInv, [Next]_vars PROVE IInv'
  OBVIOUS
<1>1. CASE UNCHANGED vars
  <2>1. UNCHANGED <<doc, runtime, pc, mem>>
    BY <1>1 DEF vars
  <2>2. TypesOK' /\ OneAtATime' /\ Consistent(doc, runtime)'
    BY <2>1 DEF IInv, TypesOK, OneAtATime, Consistent, RecordsOK, Documented, Agreeing
  <2>3. ASSUME NEW p \in Commands PROVE (RecordingOK(p) => RecordingOK(p)') /\ (ResolvingOK(p) => ResolvingOK(p)')
    BY <2>1 DEF RecordingOK, ResolvingOK, Consistent, RecordsOK, Documented, Agreeing
  <2> QED
    BY <2>1, <2>2, <2>3 DEF IInv, PlacesOK
<1>2. ASSUME NEW p \in Commands, Command(p) PROVE IInv'
  BY <1>2, RecordKeeps, RecordReadKeeps, RecordWriteKeeps, RecordWaitKeeps, RecordUndoKeeps,
     ResolveKeeps, ResolveCaptureKeeps, ResolveRuntimeKeeps, ResolveWriteKeeps,
     ResolveUndoRuntimeKeeps, ResolveUndoDocumentKeeps
     DEF Command
<1>3. ASSUME NEW p \in Commands, Crash(p) PROVE IInv'
  BY <1>3, CrashKeeps
<1>4. ASSUME NEW t \in Tasks, Worker(t) \/ Expire(t) PROVE IInv'
  BY <1>4, WorkerKeeps, ExpireKeeps
<1> QED
  BY <1>1, <1>2, <1>3, <1>4 DEF Next

(* The invariant holds in every reachable state, if commands take turns.   *)
THEOREM InvariantHolds == Exclusive => (Spec => []IInv)
<1> SUFFICES ASSUME Exclusive PROVE Spec => []IInv
  OBVIOUS
<1>1. IInv /\ [Next]_vars => IInv'
  BY NextIInv
<1> QED
  BY <1>1, InitIInv, PTL DEF Spec

(* A task that waits for a human has its request on file, where            *)
(* resolve_request finds it, wherever commands have died.                  *)
THEOREM WaitsAreDocumented == Exclusive => (Spec => []WaitIsDocumented)
<1>1. IInv => WaitIsDocumented
  BY DEF IInv, Consistent, Documented, WaitIsDocumented
<1> QED
  BY <1>1, InvariantHolds, PTL

(* The document and the runtime never hold different answers to one        *)
(* question.                                                               *)
THEOREM AnswersStayAgreed == Exclusive => (Spec => []AnswersAgree)
<1>1. IInv => AnswersAgree
  BY DEF IInv, Consistent, Agreeing, AnswersAgree
<1> QED
  BY <1>1, InvariantHolds, PTL
=============================================================================
