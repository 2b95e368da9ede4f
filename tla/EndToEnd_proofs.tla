--------------------------- MODULE EndToEnd_proofs --------------------------
(***************************************************************************)
(* Proofs about EndToEnd, for any number of commands, runs, workers and    *)
(* deaths.                                                                 *)
(*                                                                         *)
(* IInv needs no assumption: a command that is past the opening of its run *)
(* works in a root that holds this run, and what a command has answered is *)
(* true of what is published.  WInv follows the project from the           *)
(* completion to the copy that is put in place, and needs that one run is  *)
(* worked on by one command at a time (~SameRunTwice).                     *)
(***************************************************************************)
EXTENDS EndToEnd, TLAPS

Outside == {"manifest", "existing", "update", "updating", "bootstrap", "staging", "look", "rmdir", "replace"}
Early == {"open", "started", "bootstrapped", "run", "supervise", "journal", "working", "supervised",
          "completing", "validate"}
Marking == {"building", "mode"}
Building == {"build", "built"}
Handing == {"exporting", "publishing", "copy"}
Copying == {"export", "published", "terminal", "rename"}

Inside == Early \cup Marking \cup Building \cup Handing \cup Copying \cup {"done"}
Points == {"idle"} \cup Outside \cup Inside

FailedStatuses == {"FAILED", "BLOCKED", "PAUSED", "NO_TASK_READY"}
GoodStatuses == {"COMPLETE", "ALREADY_PUBLISHED"}
States == [there : BOOLEAN, worker : Workers \cup {None}]
Arguments == [run : Runs \cup {None}, worker : Workers \cup {None}, resume : BOOLEAN]

TypesOK ==
  /\ work \in Runs \cup {"missing", "empty"}
  /\ state \in States
  /\ project \in Projects
  /\ output \in Outputs \cup {None}
  /\ pc \in [Processes -> Points]
  /\ args \in [Processes -> Arguments]
  /\ mode \in [Processes -> BOOLEAN]
  /\ copy \in [Processes -> Projects]
  /\ DOMAIN answer = Processes
  /\ put \in [Processes -> BOOLEAN]

(* Where a command is, and what it may count on there.                     *)
RootOK(p) ==
  /\ pc[p] # "idle" => args[p].run \in Runs /\ args[p].worker \in Workers
  /\ pc[p] \in Inside => work = args[p].run
  /\ pc[p] = "existing" /\ args[p].resume => work = args[p].run

OutcomeOK(p) ==
  /\ pc[p] # "idle" => answer[p].status = "none"
  /\ put[p] => pc[p] \in {"idle", "done"} /\ answer[p].status \in {"none", "COMPLETE"}
  /\ pc[p] = "done" \/ pc[p] \in {"update", "updating"} \/ answer[p].status \in GoodStatuses =>
       output # None /\ output.run = args[p].run /\ output.worker = args[p].worker

IInv ==
  /\ TypesOK
  /\ output # None => output.run = work
  /\ \A p \in Processes : RootOK(p) /\ OutcomeOK(p)

Whole(proj) == proj.quality = "complete" /\ proj.completed /\ proj.handoffMode /\ proj.handoff = "good"

OneCommand == \A p, q \in Processes : p # q /\ pc[p] # "idle" /\ pc[q] # "idle" => args[p].run # args[q].run

(* How far the project is, by the place of the command that works on it.   *)
WorkOK(p) ==
  /\ pc[p] \in Marking \cup Building \cup Handing => project.quality = "complete" /\ project.completed
  /\ pc[p] \in Building \cup Handing => project.handoffMode
  /\ pc[p] \in Handing => project.handoff = "good"
  /\ pc[p] \in Copying => Whole(copy[p])

WInv ==
  /\ OneCommand
  /\ output # None => Whole(output.project)
  /\ \A p \in Processes : WorkOK(p)

-----------------------------------------------------------------------------
(* What a step does to the commands that do not take it.                   *)

LEMMA StepIInv ==
  ASSUME IInv, NEW p \in Processes, NEW to \in Points, Goto(p, to), UNCHANGED args, TypesOK',
         work \in Runs => work' = work,
         output # None => output' = output,
         output' # None => output'.run = work',
         \A q \in Processes : q # p => answer'[q] = answer[q] /\ put'[q] = put[q],
         RootOK(p)', OutcomeOK(p)'
  PROVE  IInv'
<1>1. ASSUME NEW q \in Processes, q # p PROVE RootOK(q)' /\ OutcomeOK(q)'
  <2>1. RootOK(q) /\ OutcomeOK(q) /\ pc'[q] = pc[q]
    BY <1>1 DEF IInv, TypesOK, Goto
  <2>2. RootOK(q)'
    BY <2>1 DEF RootOK, Inside, Early, Marking, Building, Handing, Copying
  <2>3. OutcomeOK(q)'
    BY <1>1, <2>1 DEF OutcomeOK
  <2> QED
    BY <2>2, <2>3
<1> QED
  BY <1>1 DEF IInv

(* Whoever changes the project is inside its run, and so is alone with it. *)
LEMMA StepWInv ==
  ASSUME IInv, WInv, NEW p \in Processes, NEW to \in Points, pc[p] # "idle", Goto(p, to), UNCHANGED args,
         pc[p] \in Inside \/ UNCHANGED project,
         \A q \in Processes : q # p => copy'[q] = copy[q],
         WorkOK(p)',
         output' # None => Whole(output'.project)
  PROVE  WInv'
<1>1. \A q \in Processes : q # p => pc'[q] = pc[q]
  BY DEF IInv, TypesOK, Goto
<1>2. ASSUME NEW q \in Processes, q # p PROVE WorkOK(q)'
  <2>1. WorkOK(q)
    BY DEF WInv
  <2>2. CASE pc[q] \in Marking \cup Building \cup Handing /\ pc[p] \in Inside
    <3>1. pc[q] \in Inside /\ pc[q] # "idle"
      BY <2>2 DEF Inside, Marking, Building, Handing
    <3>2. work = args[p].run /\ work = args[q].run
      BY <2>2, <3>1 DEF IInv, RootOK
    <3> QED
      BY <1>2, <3>1, <3>2 DEF WInv, OneCommand
  <2>3. CASE pc[q] \notin Marking \cup Building \cup Handing
    BY <1>1, <1>2, <2>1, <2>3 DEF WorkOK, Whole
  <2>4. CASE UNCHANGED project
    BY <1>1, <1>2, <2>1, <2>4 DEF WorkOK, Whole
  <2> QED
    BY <2>2, <2>3, <2>4
<1>3. OneCommand'
  BY <1>1 DEF WInv, OneCommand
<1> QED
  BY <1>2, <1>3 DEF WInv

-----------------------------------------------------------------------------
(* The shapes that steps have.                                             *)

(* A command that goes on from one place to another and leaves the work    *)
(* root, the project and the output as they are.                           *)
LEMMA Onward ==
  ASSUME IInv, NEW p \in Processes, NEW to \in Points \ {"idle", "done"},
         pc[p] \notin {"idle", "done"}, Goto(p, to),
         UNCHANGED <<work, project, output, args, mode, copy, answer, put>>, state' \in States,
         to \in Inside => pc[p] \in Inside \/ work = args[p].run,
         to = "existing" => work = args[p].run,
         to \in {"update", "updating"} => output # None /\ output.run = args[p].run /\ output.worker = args[p].worker,
         to \in Marking => pc[p] \in Marking,
         to \in Building => pc[p] \in Building,
         to \in Handing => pc[p] \in Handing,
         to \in Copying => pc[p] \in Copying
  PROVE  IInv' /\ (WInv => WInv')
<1>1. pc' \in [Processes -> Points] /\ pc'[p] = to
  BY DEF IInv, TypesOK, Goto
<1>2. TypesOK'
  BY <1>1 DEF IInv, TypesOK
<1>3. RootOK(p) /\ OutcomeOK(p)
  BY DEF IInv
<1>4. RootOK(p)'
  BY <1>1, <1>3 DEF RootOK, Inside, Early, Marking, Building, Handing, Copying
<1>5. OutcomeOK(p)'
  BY <1>1, <1>3 DEF OutcomeOK
<1>6. IInv'
  BY <1>2, <1>4, <1>5, StepIInv DEF IInv
<1>7. ASSUME WInv PROVE WInv'
  <2>1. WorkOK(p)
    BY <1>7 DEF WInv
  <2>2. WorkOK(p)'
    BY <1>1, <2>1 DEF WorkOK, Whole
  <2> QED
    BY <1>7, <2>2, StepWInv DEF WInv
<1> QED
  BY <1>6, <1>7

(* A command that ends with an outcome of its own.                         *)
LEMMA Ends ==
  ASSUME IInv, NEW p \in Processes, pc[p] # "idle",
         NEW status \in FailedStatuses \cup GoodStatuses, NEW rule, Answer(p, status, rule),
         status \in FailedStatuses => pc[p] # "done",
         status \in GoodStatuses => output # None /\ output.run = args[p].run /\ output.worker = args[p].worker,
         status = "ALREADY_PUBLISHED" => pc[p] # "done",
         UNCHANGED <<output, args, mode, copy, put>>,
         state' \in States, project' \in Projects, work' \in Runs \cup {"missing", "empty"},
         work \in Runs => work' = work,
         pc[p] \in Inside \/ UNCHANGED project
  PROVE  IInv' /\ (WInv => WInv')
<1>1. Goto(p, "idle") /\ "idle" \in Points
  BY DEF Answer, Points
<1>2. pc' \in [Processes -> Points] /\ pc'[p] = "idle"
  BY <1>1 DEF IInv, TypesOK, Goto
<1>4. /\ DOMAIN answer' = Processes
      /\ answer'[p].status = status
      /\ \A q \in Processes : q # p => answer'[q] = answer[q]
  BY DEF Answer, IInv, TypesOK
<1>5. TypesOK'
  BY <1>2, <1>4 DEF IInv, TypesOK
<1>6. RootOK(p)'
  BY <1>2 DEF RootOK, Inside, Early, Marking, Building, Handing, Copying
<1>7. OutcomeOK(p)'
  BY <1>2, <1>4 DEF IInv, OutcomeOK, FailedStatuses, GoodStatuses
<1>8. output' # None => output'.run = work'
  BY DEF IInv, TypesOK, Outputs
<1>9. IInv'
  BY <1>1, <1>4, <1>5, <1>6, <1>7, <1>8, StepIInv
<1>10. ASSUME WInv PROVE WInv'
  <2>1. WorkOK(p)'
    BY <1>2 DEF WorkOK, Marking, Building, Handing, Copying
  <2> QED
    BY <1>1, <1>10, <2>1, StepWInv DEF WInv
<1> QED
  BY <1>9, <1>10

LEMMA Refuses ==
  ASSUME IInv, NEW p \in Processes, pc[p] \notin {"idle", "done"},
         NEW rule, Refuse(p, rule, FALSE) \/ Refuse(p, rule, TRUE),
         UNCHANGED <<output, args, mode, copy, put>>,
         project' \in Projects, work' \in Runs \cup {"missing", "empty"},
         work \in Runs => work' = work,
         pc[p] \in Inside \/ UNCHANGED project
  PROVE  IInv' /\ (WInv => WInv')
<1>1. state' \in States
  BY DEF Refuse, IInv, TypesOK, States
<1>2. PICK status \in {"FAILED", "BLOCKED"} : Answer(p, status, rule)
  BY DEF Refuse
<1>3. status \in FailedStatuses /\ status \notin GoodStatuses
  BY DEF FailedStatuses, GoodStatuses
<1> QED
  BY <1>1, <1>2, <1>3, Ends

(* A command in a run that changes the project, or its copy of it.         *)
LEMMA Works ==
  ASSUME IInv, NEW p \in Processes, pc[p] \in Inside, pc[p] # "done", NEW to \in Inside \ {"done"}, Goto(p, to),
         UNCHANGED <<work, output, args, answer, put>>,
         mode' \in [Processes -> BOOLEAN], copy' \in [Processes -> Projects],
         \A q \in Processes : q # p => copy'[q] = copy[q],
         state' \in States, project' \in Projects,
         WInv => WorkOK(p)'
  PROVE  IInv' /\ (WInv => WInv')
<1>1. /\ pc' \in [Processes -> Points] /\ pc'[p] = to /\ to \in Points /\ pc[p] # "idle"
      /\ to \notin {"idle", "existing", "update", "updating"}
  BY DEF IInv, TypesOK, Goto, Points, Inside, Early, Marking, Building, Handing, Copying
<1>2. TypesOK'
  BY <1>1 DEF IInv, TypesOK
<1>3. RootOK(p) /\ OutcomeOK(p)
  BY DEF IInv
<1>4. RootOK(p)'
  BY <1>1, <1>3 DEF RootOK, Inside, Early, Marking, Building, Handing, Copying
<1>5. OutcomeOK(p)'
  BY <1>1, <1>3 DEF OutcomeOK
<1>6. IInv'
  BY <1>1, <1>2, <1>4, <1>5, StepIInv DEF IInv
<1>7. ASSUME WInv PROVE WInv'
  BY <1>1, <1>7, StepWInv DEF WInv
<1> QED
  BY <1>6, <1>7

-----------------------------------------------------------------------------
(* The steps that only go on or refuse.                                    *)

LEMMA StateTyped ==
  ASSUME IInv, NEW p \in Processes, pc[p] # "idle"
  PROVE  /\ state \in States
         /\ UNCHANGED state => state' \in States
         /\ WriteState(p) => state' \in States
<1>1. state \in States /\ args[p].worker \in Workers
  BY DEF IInv, TypesOK, RootOK
<1>2. ASSUME WriteState(p) PROVE state' \in States
  BY <1>1, <1>2 DEF WriteState, States
<1> QED
  BY <1>1, <1>2

LEMMA LoadManifestKeeps ==
  ASSUME IInv, NEW p \in Processes, LoadManifest(p)
  PROVE  IInv' /\ (WInv => WInv')
<1>1. pc[p] = "manifest"
  BY DEF LoadManifest, At
<1>2. CASE work = args[p].run
  <2>1. /\ Goto(p, "existing")
        /\ UNCHANGED <<work, project, output, args, mode, copy, answer, put>>
        /\ state' \in States
    BY <1>1, <1>2, StateTyped DEF LoadManifest
  <2>2. /\ "existing" \in Points \ {"idle", "done"}
        /\ "existing" \notin Inside \cup Marking \cup Building \cup Handing \cup Copying
    BY DEF Points, Outside, Inside, Early, Marking, Building, Handing, Copying
  <2> QED
    BY <1>1, <1>2, <2>1, <2>2, Onward
<1>3. CASE work # args[p].run
  BY <1>1, <1>3, Refuses DEF LoadManifest, IInv, TypesOK
<1> QED
  BY <1>2, <1>3

LEMMA LookAtOutputKeeps ==
  ASSUME IInv, NEW p \in Processes, LookAtOutput(p)
  PROVE  IInv' /\ (WInv => WInv')
<1>1. pc[p] = "existing" /\ UNCHANGED <<work, project, output, args, mode, copy, put>>
  BY DEF LookAtOutput, At
<1>2. CASE output = None
  <2> DEFINE to == IF args[p].resume THEN "open" ELSE "bootstrap"
  <2>1. Goto(p, to) /\ UNCHANGED answer /\ state' \in States
    BY <1>1, <1>2, StateTyped DEF LookAtOutput, Published
  <2>2. args[p].resume => work = args[p].run
    BY <1>1 DEF IInv, RootOK
  <2>3. to \in Points \ {"idle", "done", "existing", "update", "updating"} /\ to \notin Marking \cup Building \cup Handing \cup Copying
    BY DEF Points, Outside, Inside, Early, Marking, Building, Handing, Copying
  <2>4. to \in Inside => work = args[p].run
    BY <2>2 DEF Inside, Early, Marking, Building, Handing, Copying
  <2> QED
    BY <1>1, <2>1, <2>3, <2>4, Onward
<1>3. CASE output # None /\ Published(args[p].run, args[p].worker) /\ ~Littered
  <2>1. Goto(p, "update") /\ UNCHANGED answer /\ state' \in States
    BY <1>1, <1>3, StateTyped DEF LookAtOutput, Published
  <2>2. /\ "update" \in Points \ {"idle", "done", "existing"}
        /\ "update" \notin Inside \cup Marking \cup Building \cup Handing \cup Copying
    BY DEF Points, Outside, Inside, Early, Marking, Building, Handing, Copying
  <2> QED
    BY <1>1, <1>3, <2>1, <2>2, Onward DEF Published
<1>4. CASE output # None /\ ~(Published(args[p].run, args[p].worker) /\ ~Littered)
  <2>1. Refuse(p, "HARNESS-PUBLISH-CONFLICT", FALSE)
    BY <1>4 DEF LookAtOutput, Published
  <2> QED
    BY <1>1, <2>1, Refuses DEF IInv, TypesOK
<1> QED
  BY <1>2, <1>3, <1>4

LEMMA UpdateManifestKeeps ==
  ASSUME IInv, NEW p \in Processes, UpdateManifest(p)
  PROVE  IInv' /\ (WInv => WInv')
<1>1. /\ pc[p] = "update" /\ Goto(p, "updating")
      /\ UNCHANGED <<work, state, project, output, args, mode, copy, answer, put>>
  BY DEF UpdateManifest, At
<1>2. state' \in States
  BY <1>1, StateTyped
<1>3. output # None /\ output.run = args[p].run /\ output.worker = args[p].worker
  BY <1>1 DEF IInv, OutcomeOK
<1>4. /\ "updating" \in Points \ {"idle", "done", "existing"}
      /\ "updating" \notin Inside \cup Marking \cup Building \cup Handing \cup Copying
  BY DEF Points, Outside, Inside, Early, Marking, Building, Handing, Copying
<1> QED
  BY <1>1, <1>2, <1>3, <1>4, Onward

LEMMA AlreadyPublishedKeeps ==
  ASSUME IInv, NEW p \in Processes, AlreadyPublished(p)
  PROVE  IInv' /\ (WInv => WInv')
<1>1. pc[p] = "updating" /\ UNCHANGED <<work, project, output, args, mode, copy, put>>
  BY DEF AlreadyPublished, At
<1>2. output # None /\ output.run = args[p].run /\ output.worker = args[p].worker
  BY <1>1 DEF IInv, OutcomeOK
<1>3. CASE Answer(p, "ALREADY_PUBLISHED", "none") /\ UNCHANGED state
  <2>1. state' \in States
    BY <1>1, <1>3, StateTyped
  <2>2. "ALREADY_PUBLISHED" \in GoodStatuses /\ "ALREADY_PUBLISHED" \notin FailedStatuses
    BY DEF GoodStatuses, FailedStatuses
  <2> QED
    BY <1>1, <1>2, <1>3, <2>1, <2>2, Ends DEF IInv, TypesOK
<1>4. CASE Refuse(p, "HARNESS-PHASE", FALSE)
  BY <1>1, <1>4, Refuses DEF IInv, TypesOK
<1> QED
  BY <1>3, <1>4 DEF AlreadyPublished

LEMMA BootstrapKeeps ==
  ASSUME IInv, NEW p \in Processes, Bootstrap(p)
  PROVE  IInv' /\ (WInv => WInv')
<1>1. pc[p] = "bootstrap" /\ args[p].run \in Runs /\ UNCHANGED <<project, output, args, mode, copy, put>>
  BY DEF Bootstrap, At, IInv, RootOK
<1>2. CASE HoldsRun(p)
  <2>1. Goto(p, "open") /\ UNCHANGED <<work, answer>> /\ state' \in States /\ work = args[p].run
    <3>1. work = args[p].run /\ work \in Runs /\ ~HoldsOther(p)
      BY <1>1, <1>2 DEF HoldsRun, HoldsOther
    <3>2. Goto(p, "open") /\ UNCHANGED <<work, state, answer>>
      BY <1>2, <3>1 DEF Bootstrap
    <3> QED
      BY <1>1, <3>1, <3>2, StateTyped
  <2>2. /\ "open" \in Points \ {"idle", "done", "existing"}
        /\ "open" \notin Marking \cup Building \cup Handing \cup Copying
    BY DEF Points, Outside, Inside, Early, Marking, Building, Handing, Copying
  <2> QED
    BY <1>1, <2>1, <2>2, Onward
<1>3. CASE ~HoldsRun(p) /\ HoldsOther(p)
  <2>1. Refuse(p, "HARNESS-BOOTSTRAP-CONFLICT", FALSE) /\ UNCHANGED work
    BY <1>3 DEF Bootstrap, HoldsRun, HoldsOther
  <2> QED
    BY <1>1, <2>1, Refuses DEF IInv, TypesOK
<1>4. CASE work \notin Runs /\ output # None
  BY <1>4 DEF IInv, TypesOK, Outputs
<1>5. CASE work \notin Runs /\ output = None
  <2>1. work' = "empty" /\ Goto(p, "staging") /\ UNCHANGED answer /\ state' \in States
    BY <1>1, <1>5, StateTyped DEF Bootstrap, HoldsRun, HoldsOther
  <2>2. "staging" \in Points
    BY DEF Points, Outside
  <2>3. pc' \in [Processes -> Points] /\ pc'[p] = "staging"
    BY <2>1, <2>2 DEF IInv, TypesOK, Goto
  <2>4. TypesOK'
    BY <1>1, <2>1, <2>3 DEF IInv, TypesOK
  <2>5. RootOK(p)' /\ OutcomeOK(p)'
    BY <1>1, <2>1, <2>3 DEF IInv, RootOK, OutcomeOK, Inside, Early, Marking, Building, Handing, Copying
  <2>6. IInv'
    BY <1>1, <1>5, <2>1, <2>2, <2>4, <2>5, StepIInv
  <2>7. WorkOK(p)'
    BY <2>3 DEF WorkOK, Marking, Building, Handing, Copying
  <2> QED
    BY <1>1, <2>1, <2>2, <2>6, <2>7, StepWInv DEF WInv
<1> QED
  BY <1>2, <1>3, <1>4, <1>5 DEF HoldsRun, HoldsOther

(* The places that follow each other with no more done than that.          *)
Plain ==
  {<<"staging", "look">>, <<"look", "rmdir">>, <<"open", "started">>,
   <<"open", "bootstrapped">>, <<"started", "started">>, <<"started", "bootstrapped">>,
   <<"bootstrapped", "run">>, <<"run", "supervise">>, <<"supervise", "journal">>,
   <<"supervise", "working">>, <<"supervise", "supervised">>, <<"journal", "working">>,
   <<"working", "working">>, <<"supervised", "completing">>, <<"completing", "validate">>,
   <<"building", "mode">>, <<"exporting", "publishing">>, <<"publishing", "copy">>,
   <<"export", "published">>, <<"published", "terminal">>, <<"terminal", "rename">>}

LEMMA PlainPlaces ==
  ASSUME NEW from, NEW to, <<from, to>> \in Plain
  PROVE  /\ from \notin {"idle", "done"}
         /\ to \in Points \ {"idle", "done", "existing", "update", "updating"}
         /\ to \in Inside => from \in Inside
         /\ to \in Marking => from \in Marking
         /\ to \in Building => from \in Building
         /\ to \in Handing => from \in Handing
         /\ to \in Copying => from \in Copying
  BY DEF Plain, Points, Outside, Inside, Early, Marking, Building, Handing, Copying

Unworked == UNCHANGED <<work, project, output, args, mode, copy, put>>
GoesOn(p, to) == Goto(p, to) /\ UNCHANGED answer /\ (UNCHANGED state \/ WriteState(p))
RefusesTo(p, rule) == Refuse(p, rule, FALSE) \/ Refuse(p, rule, TRUE)

LEMMA PlainStep ==
  ASSUME IInv, NEW p \in Processes, NEW to, <<pc[p], to>> \in Plain, Unworked,
         GoesOn(p, to) \/ \E rule : RefusesTo(p, rule)
  PROVE  IInv' /\ (WInv => WInv')
<1>1. pc[p] \notin {"idle", "done"} /\ to \in Points \ {"idle", "done", "existing", "update", "updating"}
  BY PlainPlaces
<1>2. CASE GoesOn(p, to)
  <2>1. state' \in States /\ UNCHANGED <<work, project, output, args, mode, copy, answer, put>> /\ Goto(p, to)
    BY <1>1, <1>2, StateTyped DEF GoesOn, Unworked
  <2> QED
    BY <1>1, <2>1, PlainPlaces, Onward
<1>3. ASSUME NEW rule, RefusesTo(p, rule) PROVE IInv' /\ (WInv => WInv')
  <2>1. project' \in Projects /\ work' \in Runs \cup {"missing", "empty"} /\ UNCHANGED <<work, project>>
        /\ UNCHANGED <<output, args, mode, copy, put>>
    BY DEF Unworked, IInv, TypesOK
  <2> QED
    BY <1>1, <1>3, <2>1, Refuses DEF RefusesTo
<1> QED
  BY <1>2, <1>3

LEMMA PlainKeeps ==
  ASSUME IInv, NEW p \in Processes,
         \/ Stage(p) \/ LookAgain(p) \/ Open(p) \/ RunStarted(p) \/ Bootstrapped(p) \/ EnterRunning(p)
         \/ Supervise(p) \/ CreateJournal(p) \/ SupervisorEvent(p) \/ EnterCompleting(p)
         \/ EnterBuilding(p) \/ EnterExporting(p) \/ EnterPublishing(p) \/ Export(p)
         \/ SayPublished(p) \/ SayComplete(p)
  PROVE  IInv' /\ (WInv => WInv')
<1>1. CASE Stage(p)
  <2>1. pc[p] = "staging" /\ Unworked
    BY <1>1 DEF Stage, At, Unworked
  <2>2. GoesOn(p, "look") \/ \E rule : RefusesTo(p, rule)
    BY <1>1, <2>1 DEF Stage, At, GoesOn, RefusesTo
  <2>3. <<pc[p], "look">> \in Plain
    BY <2>1 DEF Plain
  <2> QED
    BY <2>1, <2>2, <2>3, PlainStep
<1>2. CASE LookAgain(p)
  <2>1. pc[p] = "look" /\ Unworked
    BY <1>2 DEF LookAgain, At, Unworked
  <2>2. GoesOn(p, "rmdir") \/ \E rule : RefusesTo(p, rule)
    BY <1>2, <2>1 DEF LookAgain, At, GoesOn, RefusesTo
  <2>3. <<pc[p], "rmdir">> \in Plain
    BY <2>1 DEF Plain
  <2> QED
    BY <2>1, <2>2, <2>3, PlainStep
<1>3. CASE Open(p)
  <2>1. pc[p] = "open" /\ Unworked
    BY <1>3 DEF Open, At, Unworked
  <2>2. GoesOn(p, "started") \/ GoesOn(p, "bootstrapped") \/ \E rule : RefusesTo(p, rule)
    BY <1>3, <2>1 DEF Open, At, GoesOn, RefusesTo
  <2>3. <<pc[p], "started">> \in Plain /\ <<pc[p], "bootstrapped">> \in Plain
    BY <2>1 DEF Plain
  <2> QED
    BY <2>1, <2>2, <2>3, PlainStep
<1>4. CASE RunStarted(p)
  <2>1. pc[p] = "started" /\ Unworked
    BY <1>4 DEF RunStarted, At, Unworked
  <2>2. GoesOn(p, "started") \/ GoesOn(p, "bootstrapped") \/ \E rule : RefusesTo(p, rule)
    BY <1>4, <2>1 DEF RunStarted, At, GoesOn, RefusesTo, Goto, IInv, TypesOK
  <2>3. <<pc[p], "started">> \in Plain /\ <<pc[p], "bootstrapped">> \in Plain
    BY <2>1 DEF Plain
  <2> QED
    BY <2>1, <2>2, <2>3, PlainStep
<1>5. CASE Bootstrapped(p)
  <2>1. pc[p] = "bootstrapped" /\ Unworked
    BY <1>5 DEF Bootstrapped, At, Unworked
  <2>2. GoesOn(p, "run") \/ \E rule : RefusesTo(p, rule)
    BY <1>5, <2>1 DEF Bootstrapped, At, GoesOn, RefusesTo
  <2>3. <<pc[p], "run">> \in Plain
    BY <2>1 DEF Plain
  <2> QED
    BY <2>1, <2>2, <2>3, PlainStep
<1>6. CASE EnterRunning(p)
  <2>1. pc[p] = "run" /\ Unworked
    BY <1>6 DEF EnterRunning, At, Unworked
  <2>2. GoesOn(p, "supervise") \/ \E rule : RefusesTo(p, rule)
    BY <1>6, <2>1 DEF EnterRunning, ObservePhase, At, GoesOn, RefusesTo
  <2>3. <<pc[p], "supervise">> \in Plain
    BY <2>1 DEF Plain
  <2> QED
    BY <2>1, <2>2, <2>3, PlainStep
<1>7. CASE Supervise(p)
  <2>1. pc[p] = "supervise" /\ Unworked
    BY <1>7 DEF Supervise, At, Unworked
  <2>2. GoesOn(p, "journal") \/ GoesOn(p, "supervised") \/ GoesOn(p, "working") \/ \E rule : RefusesTo(p, rule)
    BY <1>7, <2>1 DEF Supervise, At, GoesOn, RefusesTo
  <2>3. <<pc[p], "journal">> \in Plain /\ <<pc[p], "supervised">> \in Plain /\ <<pc[p], "working">> \in Plain
    BY <2>1 DEF Plain
  <2> QED
    BY <2>1, <2>2, <2>3, PlainStep
<1>8. CASE CreateJournal(p)
  <2>1. pc[p] = "journal" /\ Unworked
    BY <1>8 DEF CreateJournal, At, Unworked
  <2>2. GoesOn(p, "working") \/ \E rule : RefusesTo(p, rule)
    BY <1>8, <2>1 DEF CreateJournal, At, GoesOn, RefusesTo
  <2>3. <<pc[p], "working">> \in Plain
    BY <2>1 DEF Plain
  <2> QED
    BY <2>1, <2>2, <2>3, PlainStep
<1>9. CASE SupervisorEvent(p)
  <2>1. pc[p] = "working" /\ Unworked
    BY <1>9 DEF SupervisorEvent, At, Unworked
  <2>2. GoesOn(p, "working") \/ \E rule : RefusesTo(p, rule)
    BY <1>9, <2>1 DEF SupervisorEvent, At, GoesOn, RefusesTo, Goto, IInv, TypesOK
  <2>3. <<pc[p], "working">> \in Plain
    BY <2>1 DEF Plain
  <2> QED
    BY <2>1, <2>2, <2>3, PlainStep
<1>10. CASE EnterCompleting(p)
  <2>1. pc[p] = "completing" /\ Unworked
    BY <1>10 DEF EnterCompleting, At, Unworked
  <2>2. GoesOn(p, "validate") \/ \E rule : RefusesTo(p, rule)
    BY <1>10, <2>1 DEF EnterCompleting, ObservePhase, At, GoesOn, RefusesTo
  <2>3. <<pc[p], "validate">> \in Plain
    BY <2>1 DEF Plain
  <2> QED
    BY <2>1, <2>2, <2>3, PlainStep
<1>11. CASE EnterBuilding(p)
  <2>1. pc[p] = "building" /\ Unworked
    BY <1>11 DEF EnterBuilding, At, Unworked
  <2>2. GoesOn(p, "mode") \/ \E rule : RefusesTo(p, rule)
    BY <1>11, <2>1 DEF EnterBuilding, ObservePhase, At, GoesOn, RefusesTo
  <2>3. <<pc[p], "mode">> \in Plain
    BY <2>1 DEF Plain
  <2> QED
    BY <2>1, <2>2, <2>3, PlainStep
<1>12. CASE EnterExporting(p)
  <2>1. pc[p] = "exporting" /\ Unworked
    BY <1>12 DEF EnterExporting, At, Unworked
  <2>2. GoesOn(p, "publishing") \/ \E rule : RefusesTo(p, rule)
    BY <1>12, <2>1 DEF EnterExporting, ObservePhase, At, GoesOn, RefusesTo
  <2>3. <<pc[p], "publishing">> \in Plain
    BY <2>1 DEF Plain
  <2> QED
    BY <2>1, <2>2, <2>3, PlainStep
<1>13. CASE EnterPublishing(p)
  <2>1. pc[p] = "publishing" /\ Unworked
    BY <1>13 DEF EnterPublishing, At, Unworked
  <2>2. GoesOn(p, "copy") \/ \E rule : RefusesTo(p, rule)
    BY <1>13, <2>1 DEF EnterPublishing, ObservePhase, At, GoesOn, RefusesTo
  <2>3. <<pc[p], "copy">> \in Plain
    BY <2>1 DEF Plain
  <2> QED
    BY <2>1, <2>2, <2>3, PlainStep
<1>14. CASE Export(p)
  <2>1. pc[p] = "export" /\ Unworked
    BY <1>14 DEF Export, At, Unworked
  <2>2. GoesOn(p, "published") \/ \E rule : RefusesTo(p, rule)
    BY <1>14, <2>1 DEF Export, At, GoesOn, RefusesTo
  <2>3. <<pc[p], "published">> \in Plain
    BY <2>1 DEF Plain
  <2> QED
    BY <2>1, <2>2, <2>3, PlainStep
<1>15. CASE SayPublished(p)
  <2>1. pc[p] = "published" /\ Unworked
    BY <1>15 DEF SayPublished, At, Unworked
  <2>2. GoesOn(p, "terminal") \/ \E rule : RefusesTo(p, rule)
    BY <1>15, <2>1 DEF SayPublished, At, GoesOn, RefusesTo
  <2>3. <<pc[p], "terminal">> \in Plain
    BY <2>1 DEF Plain
  <2> QED
    BY <2>1, <2>2, <2>3, PlainStep
<1>16. CASE SayComplete(p)
  <2>1. pc[p] = "terminal" /\ Unworked
    BY <1>16 DEF SayComplete, At, Unworked
  <2>2. GoesOn(p, "rename") \/ \E rule : RefusesTo(p, rule)
    BY <1>16, <2>1 DEF SayComplete, At, GoesOn, RefusesTo
  <2>3. <<pc[p], "rename">> \in Plain
    BY <2>1 DEF Plain
  <2> QED
    BY <2>1, <2>2, <2>3, PlainStep
<1> QED
  BY <1>1, <1>2, <1>3, <1>4, <1>5, <1>6, <1>7, <1>8, <1>9, <1>10, <1>11, <1>12, <1>13, <1>14, <1>15, <1>16

-----------------------------------------------------------------------------
(* The work root.                                                          *)

LEMMA RmdirKeeps ==
  ASSUME IInv, NEW p \in Processes, Rmdir(p)
  PROVE  IInv' /\ (WInv => WInv')
<1>1. pc[p] = "rmdir" /\ UNCHANGED <<project, output, args, mode, copy, put>>
  BY DEF Rmdir, At
<1>2. CASE work = "empty"
  <2>1. work' = "missing" /\ Goto(p, "replace") /\ UNCHANGED answer /\ state' \in States
    BY <1>1, <1>2, StateTyped DEF Rmdir, RemoveRoot
  <2>2. work \notin Runs
    BY <1>2, EndToEndAssumption
  <2>3. output = None
    BY <2>2 DEF IInv, TypesOK, Outputs
  <2>4. "replace" \in Points
    BY DEF Points, Outside
  <2>5. pc' \in [Processes -> Points] /\ pc'[p] = "replace"
    BY <2>1, <2>4 DEF IInv, TypesOK, Goto
  <2>6. TypesOK'
    BY <1>1, <2>1, <2>5 DEF IInv, TypesOK
  <2>7. RootOK(p)' /\ OutcomeOK(p)'
    BY <1>1, <2>1, <2>5 DEF IInv, RootOK, OutcomeOK, Inside, Early, Marking, Building, Handing, Copying
  <2>8. IInv'
    BY <1>1, <2>1, <2>2, <2>3, <2>4, <2>6, <2>7, StepIInv
  <2>9. WorkOK(p)'
    BY <2>5 DEF WorkOK, Marking, Building, Handing, Copying
  <2> QED
    BY <1>1, <2>1, <2>4, <2>8, <2>9, StepWInv DEF WInv
<1>3. CASE work # "empty"
  <2>1. Refuse(p, "HARNESS-PHASE", FALSE) /\ UNCHANGED work
    BY <1>3 DEF Rmdir, RemoveRoot
  <2> QED
    BY <1>1, <2>1, Refuses DEF IInv, TypesOK
<1> QED
  BY <1>2, <1>3

(* The new root is put where none holds a run.                             *)
LEMMA ReplaceKeeps ==
  ASSUME IInv, NEW p \in Processes, Replace(p)
  PROVE  IInv' /\ (WInv => WInv')
<1>1. pc[p] = "replace" /\ args[p].run \in Runs /\ UNCHANGED <<project, output, args, mode, copy, put>>
  BY DEF Replace, At, IInv, RootOK
<1>2. CASE work \notin Runs
  <2>1. work' = args[p].run /\ Goto(p, "open") /\ UNCHANGED answer /\ state' \in States
    BY <1>1, <1>2, StateTyped DEF Replace
  <2>2. output = None
    BY <1>2 DEF IInv, TypesOK, Outputs
  <2>3. "open" \in Points
    BY DEF Points, Inside, Early
  <2>4. pc' \in [Processes -> Points] /\ pc'[p] = "open"
    BY <2>1, <2>3 DEF IInv, TypesOK, Goto
  <2>5. TypesOK'
    BY <1>1, <2>1, <2>4 DEF IInv, TypesOK
  <2>6. RootOK(p)' /\ OutcomeOK(p)'
    BY <1>1, <2>1, <2>4 DEF IInv, RootOK, OutcomeOK
  <2>7. IInv'
    BY <1>1, <1>2, <2>1, <2>2, <2>3, <2>5, <2>6, StepIInv
  <2>8. WorkOK(p)'
    BY <2>4 DEF WorkOK, Marking, Building, Handing, Copying
  <2> QED
    BY <1>1, <2>1, <2>3, <2>7, <2>8, StepWInv DEF WInv
<1>3. CASE work \in Runs
  <2>1. Refuse(p, "HARNESS-PHASE", FALSE) /\ UNCHANGED work
    BY <1>3 DEF Replace
  <2> QED
    BY <1>1, <2>1, Refuses DEF IInv, TypesOK
<1> QED
  BY <1>2, <1>3

-----------------------------------------------------------------------------
(* The steps that change the project, the copy or the output.              *)

LEMMA SupervisorEndsKeeps ==
  ASSUME IInv, NEW p \in Processes, NEW s, NEW q \in Qualities, SupervisorEnds(p, s, q)
  PROVE  IInv' /\ (WInv => WInv')
<1>1. /\ pc[p] = "working" /\ Goto(p, "supervised")
      /\ project' = [project EXCEPT !.quality = q]
      /\ UNCHANGED <<work, state, output, args, mode, copy, answer, put>>
  BY DEF SupervisorEnds, At
<1>2. "working" \in Inside \ {"done"} /\ "supervised" \in Inside \ {"done"}
  BY DEF Inside, Early
<1>3. project' \in Projects
  BY <1>1 DEF IInv, TypesOK, Projects
<1>4. pc'[p] = "supervised"
  BY <1>1 DEF IInv, TypesOK, Goto
<1>5. WorkOK(p)'
  BY <1>4 DEF WorkOK, Marking, Building, Handing, Copying
<1> QED
  BY <1>1, <1>2, <1>3, <1>5, Works DEF IInv, TypesOK

LEMMA SupervisedKeeps ==
  ASSUME IInv, NEW p \in Processes, Supervised(p)
  PROVE  IInv' /\ (WInv => WInv')
<1>1. pc[p] = "supervised" /\ Unworked
  BY DEF Supervised, At, Unworked
<1>2. CASE journal = "SUCCEEDED"
  <2>1. GoesOn(p, "completing")
    BY <1>2 DEF Supervised, GoesOn
  <2>2. <<pc[p], "completing">> \in Plain
    BY <1>1 DEF Plain
  <2> QED
    BY <1>1, <2>1, <2>2, PlainStep
<1>3. CASE journal # "SUCCEEDED"
  <2>1. PICK status \in {"PAUSED", "NO_TASK_READY", "BLOCKED", "FAILED"} : Answer(p, status, "none")
    BY <1>3 DEF Supervised
  <2>2. status \in FailedStatuses /\ status \notin GoodStatuses
    BY DEF FailedStatuses, GoodStatuses
  <2>3. state' \in States
    BY <1>1, <1>3, StateTyped DEF Supervised
  <2>4. project' \in Projects /\ work' \in Runs \cup {"missing", "empty"}
    BY <1>1 DEF Unworked, IInv, TypesOK
  <2> QED
    BY <1>1, <2>1, <2>2, <2>3, <2>4, Ends DEF Unworked
<1> QED
  BY <1>2, <1>3

LEMMA CompleteKeeps ==
  ASSUME IInv, NEW p \in Processes, Complete(p)
  PROVE  IInv' /\ (WInv => WInv')
<1>1. pc[p] = "validate" /\ UNCHANGED <<work, output, args, mode, copy, put>>
  BY DEF Complete, At
<1>2. "validate" \in Inside \ {"done"} /\ "building" \in Inside \ {"done"}
  BY DEF Inside, Early, Marking
<1>3. CASE Completes
  <2>1. /\ project' = [project EXCEPT !.completed = (project.quality = "complete")]
        /\ Goto(p, "building") /\ UNCHANGED <<state, answer>>
    BY <1>3 DEF Complete
  <2>2. project.quality = "complete"
    BY <1>3 DEF Completes
  <2>3. project' \in Projects /\ project'.quality = "complete" /\ project'.completed
    BY <2>1, <2>2 DEF IInv, TypesOK, Projects
  <2>4. pc'[p] = "building"
    BY <2>1 DEF IInv, TypesOK, Goto
  <2>5. WorkOK(p)'
    BY <2>3, <2>4 DEF WorkOK, Marking, Building, Handing, Copying
  <2> QED
    BY <1>1, <1>2, <2>1, <2>3, <2>5, Works DEF IInv, TypesOK
<1>4. CASE ~Completes
  <2>1. Refuse(p, "HARNESS-COMPLETION", TRUE) /\ UNCHANGED project
    BY <1>4 DEF Complete
  <2> QED
    BY <1>1, <2>1, Refuses DEF IInv, TypesOK
<1> QED
  BY <1>3, <1>4

LEMMA SetHandoffModeKeeps ==
  ASSUME IInv, NEW p \in Processes, SetHandoffMode(p)
  PROVE  IInv' /\ (WInv => WInv')
<1>1. /\ pc[p] = "mode" /\ Goto(p, "build")
      /\ mode' = [mode EXCEPT ![p] = project.handoffMode]
      /\ project' = [project EXCEPT !.handoffMode = TRUE]
      /\ UNCHANGED <<work, state, output, args, copy, answer, put>>
  BY DEF SetHandoffMode, At
<1>2. "mode" \in Inside \ {"done"} /\ "build" \in Inside \ {"done"}
  BY DEF Inside, Marking, Building
<1>3. /\ project' \in Projects /\ mode' \in [Processes -> BOOLEAN]
      /\ project'.handoffMode /\ project'.quality = project.quality /\ project'.completed = project.completed
  BY <1>1 DEF IInv, TypesOK, Projects
<1>4. pc'[p] = "build"
  BY <1>1 DEF IInv, TypesOK, Goto
<1>5. WInv => WorkOK(p)'
  BY <1>1, <1>3, <1>4 DEF WInv, WorkOK, Marking, Building, Handing, Copying
<1> QED
  BY <1>1, <1>2, <1>3, <1>5, Works DEF IInv, TypesOK

LEMMA BuildHandoffKeeps ==
  ASSUME IInv, NEW p \in Processes, BuildHandoff(p)
  PROVE  IInv' /\ (WInv => WInv')
<1>1. pc[p] = "build" /\ UNCHANGED <<work, output, args, mode, copy, put>>
  BY DEF BuildHandoff, At
<1>2. "build" \in Inside \ {"done"} /\ "built" \in Inside \ {"done"}
  BY DEF Inside, Building
<1>3. ASSUME NEW h \in {"good", "bad"}, project' = [project EXCEPT !.handoff = h],
             Goto(p, "built"), UNCHANGED <<state, answer>>
      PROVE IInv' /\ (WInv => WInv')
  <2>1. /\ project' \in Projects
        /\ project'.handoffMode = project.handoffMode
        /\ project'.quality = project.quality
        /\ project'.completed = project.completed
    BY <1>3 DEF IInv, TypesOK, Projects
  <2>2. pc'[p] = "built"
    BY <1>3 DEF IInv, TypesOK, Goto
  <2>3. WInv => WorkOK(p)'
    BY <1>1, <2>1, <2>2 DEF WInv, WorkOK, Marking, Building, Handing, Copying
  <2> QED
    BY <1>1, <1>2, <1>3, <2>1, <2>3, Works DEF IInv, TypesOK
<1>4. ASSUME project' = [project EXCEPT !.handoffMode = mode[p]], Refuse(p, "HARNESS-HANDOFF", TRUE)
      PROVE IInv' /\ (WInv => WInv')
  <2>1. project' \in Projects
    BY <1>4 DEF IInv, TypesOK, Projects
  <2> QED
    BY <1>1, <1>2, <1>4, <2>1, Refuses DEF IInv, TypesOK
<1> QED
  BY <1>3, <1>4 DEF BuildHandoff

LEMMA CheckHandoffKeeps ==
  ASSUME IInv, NEW p \in Processes, CheckHandoff(p)
  PROVE  IInv' /\ (WInv => WInv')
<1>1. pc[p] = "built" /\ UNCHANGED <<work, output, args, mode, copy, put>>
  BY DEF CheckHandoff, At
<1>2. "built" \in Inside \ {"done"} /\ "exporting" \in Inside \ {"done"}
  BY DEF Inside, Building, Handing
<1>3. CASE Validates
  <2>1. Goto(p, "exporting") /\ UNCHANGED <<project, state, answer>>
    BY <1>3 DEF CheckHandoff
  <2>2. pc'[p] = "exporting"
    BY <2>1 DEF IInv, TypesOK, Goto
  <2>3. WInv => WorkOK(p)'
    BY <1>1, <1>3, <2>1, <2>2 DEF WInv, WorkOK, Validates, Marking, Building, Handing, Copying
  <2> QED
    BY <1>1, <1>2, <2>1, <2>3, Works DEF IInv, TypesOK
<1>4. CASE ~Validates
  <2>1. /\ project' = [project EXCEPT !.handoff = "none", !.handoffMode = mode[p]]
        /\ Refuse(p, "HARNESS-HANDOFF", TRUE)
    BY <1>4 DEF CheckHandoff
  <2>2. project' \in Projects
    BY <2>1 DEF IInv, TypesOK, Projects
  <2> QED
    BY <1>1, <1>2, <2>1, <2>2, Refuses DEF IInv, TypesOK
<1> QED
  BY <1>3, <1>4

(* What is copied is whole, for the command is alone with the project.     *)
LEMMA CopyProjectKeeps ==
  ASSUME IInv, NEW p \in Processes, CopyProject(p)
  PROVE  IInv' /\ (WInv => WInv')
<1>1. pc[p] = "copy" /\ UNCHANGED <<work, project, output, args, mode, put>>
  BY DEF CopyProject, At
<1>2. "copy" \in Inside \ {"done"} /\ "export" \in Inside \ {"done"}
  BY DEF Inside, Handing, Copying
<1>3. CASE output = None
  <2>1. copy' = [copy EXCEPT ![p] = project] /\ Goto(p, "export") /\ UNCHANGED <<state, answer>>
    BY <1>3 DEF CopyProject
  <2>2. copy' \in [Processes -> Projects] /\ copy'[p] = project /\ \A q \in Processes : q # p => copy'[q] = copy[q]
    BY <2>1 DEF IInv, TypesOK
  <2>3. pc'[p] = "export"
    BY <2>1 DEF IInv, TypesOK, Goto
  <2>4. WInv => WorkOK(p)'
    BY <1>1, <2>2, <2>3 DEF WInv, WorkOK, Whole, Marking, Building, Handing, Copying
  <2> QED
    BY <1>1, <1>2, <2>1, <2>2, <2>4, Works DEF IInv, TypesOK
<1>4. CASE output # None
  <2>1. Refuse(p, "HARNESS-PUBLISH-CONFLICT", TRUE) /\ UNCHANGED copy
    BY <1>4 DEF CopyProject
  <2> QED
    BY <1>1, <2>1, Refuses DEF IInv, TypesOK
<1> QED
  BY <1>3, <1>4

LEMMA PublishKeeps ==
  ASSUME IInv, NEW p \in Processes, Publish(p)
  PROVE  IInv' /\ (WInv => WInv')
<1>1. pc[p] = "rename" /\ UNCHANGED <<work, project, args, mode, copy>>
  BY DEF Publish, At
<1>2. CASE output = None
  <2>1. /\ output' = [run |-> args[p].run, worker |-> args[p].worker, project |-> copy[p]]
        /\ put' = [put EXCEPT ![p] = TRUE]
        /\ Goto(p, "done") /\ UNCHANGED answer /\ state' \in States
    BY <1>1, <1>2, StateTyped DEF Publish
  <2>2. work = args[p].run /\ args[p].run \in Runs /\ args[p].worker \in Workers /\ answer[p].status = "none"
    BY <1>1 DEF IInv, RootOK, OutcomeOK, Inside, Copying
  <2>3. output' \in Outputs
    BY <2>1, <2>2 DEF IInv, TypesOK, Outputs
  <2>4. /\ output'.run = args[p].run /\ output'.worker = args[p].worker /\ output'.project = copy[p]
        /\ output' # None
    BY <2>1, <2>3, EndToEndAssumption
  <2>5. "done" \in Points
    BY DEF Points, Inside
  <2>6. pc' \in [Processes -> Points] /\ pc'[p] = "done"
    BY <2>1, <2>5 DEF IInv, TypesOK, Goto
  <2>7. put' \in [Processes -> BOOLEAN] /\ \A q \in Processes : q # p => put'[q] = put[q]
    BY <2>1 DEF IInv, TypesOK
  <2>8. TypesOK'
    BY <1>1, <2>1, <2>3, <2>6, <2>7 DEF IInv, TypesOK
  <2>9. RootOK(p)' /\ OutcomeOK(p)'
    BY <1>1, <2>1, <2>2, <2>4, <2>6 DEF RootOK, OutcomeOK
  <2>10. IInv'
    BY <1>1, <1>2, <2>1, <2>2, <2>4, <2>5, <2>7, <2>8, <2>9, StepIInv
  <2>11. ASSUME WInv PROVE WInv'
    <3>1. Whole(output'.project)
      BY <1>1, <2>4, <2>11 DEF WInv, WorkOK, Copying
    <3>2. WorkOK(p)'
      BY <2>6 DEF WorkOK, Marking, Building, Handing, Copying
    <3> QED
      BY <1>1, <2>1, <2>5, <2>11, <3>1, <3>2, StepWInv
  <2> QED
    BY <2>10, <2>11
<1>3. CASE output # None
  <2>1. Refuse(p, "HARNESS-PUBLISH-CONFLICT", TRUE) /\ UNCHANGED <<output, put>>
    BY <1>3 DEF Publish
  <2> QED
    BY <1>1, <2>1, Refuses DEF IInv, TypesOK
<1> QED
  BY <1>2, <1>3

LEMMA DoneKeeps ==
  ASSUME IInv, NEW p \in Processes, Done(p)
  PROVE  IInv' /\ (WInv => WInv')
<1>1. pc[p] = "done" /\ Answer(p, "COMPLETE", "none") /\ UNCHANGED <<work, project, output, args, mode, copy, put>>
  BY DEF Done, At
<1>2. state' \in States
  BY <1>1, StateTyped DEF Done
<1>3. output # None /\ output.run = args[p].run /\ output.worker = args[p].worker
  BY <1>1 DEF IInv, OutcomeOK
<1>4. "COMPLETE" \in GoodStatuses /\ "COMPLETE" \notin FailedStatuses
  BY DEF GoodStatuses, FailedStatuses
<1> QED
  BY <1>1, <1>2, <1>3, <1>4, Ends DEF IInv, TypesOK

-----------------------------------------------------------------------------
(* Commands that start and die, and the person who answers.                *)

LEMMA CrashKeeps ==
  ASSUME IInv, NEW p \in Processes, Crash(p)
  PROVE  IInv' /\ (WInv => WInv')
<1>1. /\ pc[p] # "idle" /\ Goto(p, "idle")
      /\ UNCHANGED <<work, state, project, output, args, mode, copy, answer, put>>
  BY DEF Crash, files
<1>2. "idle" \in Points
  BY DEF Points
<1>3. pc' \in [Processes -> Points] /\ pc'[p] = "idle"
  BY <1>1, <1>2 DEF IInv, TypesOK, Goto
<1>4. TypesOK'
  BY <1>1, <1>3 DEF IInv, TypesOK
<1>5. RootOK(p)' /\ OutcomeOK(p)'
  BY <1>1, <1>3 DEF IInv, RootOK, OutcomeOK, GoodStatuses, Inside, Early, Marking, Building, Handing, Copying
<1>6. IInv'
  BY <1>1, <1>2, <1>4, <1>5, StepIInv DEF IInv
<1>7. WorkOK(p)'
  BY <1>3 DEF WorkOK, Marking, Building, Handing, Copying
<1> QED
  BY <1>1, <1>2, <1>6, <1>7, StepWInv DEF WInv

(* A call forgets what the last one answered.  A resumed run looks at the  *)
(* manifest first.                                                         *)
LEMMA CallKeeps ==
  ASSUME IInv, NEW p \in Processes, NEW r \in Runs, NEW w \in Workers, NEW resume \in BOOLEAN, Call(p, r, w, resume)
  PROVE  IInv' /\ (~SameRunTwice /\ WInv => WInv')
<1> DEFINE worker == IF resume /\ work \in Runs /\ state.worker # None THEN state.worker ELSE w
           to == IF resume THEN "manifest" ELSE "existing"
<1>1. /\ pc[p] = "idle" /\ Goto(p, to)
      /\ args' = [args EXCEPT ![p] = [run |-> r, resume |-> resume, worker |-> worker]]
      /\ answer' = [answer EXCEPT ![p] = NoAnswer]
      /\ put' = [put EXCEPT ![p] = FALSE]
      /\ mode' = [mode EXCEPT ![p] = FALSE]
      /\ copy' = [copy EXCEPT ![p] = NoProject]
      /\ UNCHANGED <<work, state, project, output>>
  BY DEF Call, At, files
<1>2. worker \in Workers
  BY DEF IInv, TypesOK, States
<1>3. to \in Points /\ to \notin Inside /\ to # "idle" /\ to # "done"
  BY DEF Points, Outside, Inside, Early, Marking, Building, Handing, Copying
<1>4. pc' \in [Processes -> Points] /\ pc'[p] = to /\ \A q \in Processes : q # p => pc'[q] = pc[q]
  BY <1>1, <1>3 DEF IInv, TypesOK, Goto
<1>5. /\ args' \in [Processes -> Arguments]
      /\ args'[p].run = r /\ args'[p].worker = worker /\ args'[p].resume = resume
      /\ \A q \in Processes : q # p => args'[q] = args[q]
  BY <1>1, <1>2 DEF IInv, TypesOK, Arguments
<1>6. NoProject \in Projects
  BY DEF NoProject, Projects, Qualities
<1>7. /\ copy' \in [Processes -> Projects] /\ mode' \in [Processes -> BOOLEAN] /\ put' \in [Processes -> BOOLEAN]
      /\ ~put'[p] /\ \A q \in Processes : q # p => copy'[q] = copy[q] /\ put'[q] = put[q]
  BY <1>1, <1>6 DEF IInv, TypesOK
<1>8. /\ DOMAIN answer' = Processes /\ answer'[p].status = "none"
      /\ \A q \in Processes : q # p => answer'[q] = answer[q]
  BY <1>1 DEF IInv, TypesOK, NoAnswer
<1>9. TypesOK'
  BY <1>1, <1>4, <1>5, <1>7, <1>8 DEF IInv, TypesOK
<1>10. RootOK(p)'
  BY <1>2, <1>3, <1>4, <1>5 DEF RootOK
<1>11. OutcomeOK(p)'
  BY <1>3, <1>4, <1>7, <1>8 DEF OutcomeOK, GoodStatuses
<1>12. ASSUME NEW q \in Processes, q # p PROVE RootOK(q)' /\ OutcomeOK(q)'
  BY <1>1, <1>4, <1>5, <1>7, <1>8, <1>12 DEF IInv, RootOK, OutcomeOK
<1>13. IInv'
  BY <1>1, <1>9, <1>10, <1>11, <1>12 DEF IInv
<1>14. ASSUME ~SameRunTwice, WInv PROVE WInv'
  <2>1. \A q \in Processes : pc[q] # "idle" => args[q].run # r
    BY <1>14 DEF Call, At
  <2>2. OneCommand'
    BY <1>4, <1>5, <1>14, <2>1, <1>1 DEF WInv, OneCommand
  <2>3. WorkOK(p)'
    BY <1>3, <1>4 DEF WorkOK, Inside
  <2>4. ASSUME NEW q \in Processes, q # p PROVE WorkOK(q)'
    BY <1>1, <1>4, <1>7, <1>14, <2>4 DEF WInv, WorkOK, Whole
  <2> QED
    BY <1>1, <1>14, <2>2, <2>3, <2>4 DEF WInv, Whole
<1> QED
  BY <1>13, <1>14

LEMMA StandsStill ==
  ASSUME IInv, UNCHANGED <<work, state, project, output, pc, args, mode, copy, answer, put>>
  PROVE  IInv' /\ (WInv => WInv')
<1>1. IInv'
  BY DEF IInv, TypesOK, RootOK, OutcomeOK
<1>2. WInv => WInv'
  BY DEF WInv, OneCommand, WorkOK, Whole
<1> QED
  BY <1>1, <1>2

-----------------------------------------------------------------------------
LEMMA InitInvs == Init => IInv /\ WInv
<1> SUFFICES ASSUME Init PROVE IInv /\ WInv
  OBVIOUS
<1>1. NoProject \in Projects /\ NoState \in States /\ "idle" \in Points /\ NoArgs \in Arguments
  BY DEF NoProject, Projects, Qualities, NoState, States, Points, NoArgs, Arguments
<1>2. TypesOK
  BY <1>1 DEF Init, TypesOK
<1>3. \A p \in Processes : RootOK(p) /\ OutcomeOK(p) /\ WorkOK(p)
  BY DEF Init, RootOK, OutcomeOK, WorkOK, NoAnswer, GoodStatuses, Inside, Early, Marking, Building, Handing, Copying
<1> QED
  BY <1>2, <1>3 DEF Init, IInv, WInv, OneCommand

LEMMA NextInvs == IInv /\ [Next]_vars => IInv' /\ (~SameRunTwice /\ WInv => WInv')
<1> SUFFICES ASSUME IInv, [Next]_vars PROVE IInv' /\ (~SameRunTwice /\ WInv => WInv')
  OBVIOUS
<1>1. CASE UNCHANGED vars
  BY <1>1, StandsStill DEF vars
<1>2. CASE PersonAnswers
  BY <1>2, StandsStill DEF PersonAnswers
<1>3. ASSUME NEW p \in Processes, Step(p) PROVE IInv' /\ (WInv => WInv')
  BY <1>3, LoadManifestKeeps, LookAtOutputKeeps, UpdateManifestKeeps, AlreadyPublishedKeeps, BootstrapKeeps,
     PlainKeeps, RmdirKeeps, ReplaceKeeps, SupervisorEndsKeeps, SupervisedKeeps, CompleteKeeps,
     SetHandoffModeKeeps, BuildHandoffKeeps, CheckHandoffKeeps, CopyProjectKeeps, PublishKeeps, DoneKeeps
     DEF Step
<1>4. ASSUME NEW p \in Processes, Crash(p) PROVE IInv' /\ (WInv => WInv')
  BY <1>4, CrashKeeps
<1>5. ASSUME NEW p \in Processes, NEW r \in Runs, NEW w \in Workers, NEW resume \in BOOLEAN, Call(p, r, w, resume)
      PROVE IInv' /\ (~SameRunTwice /\ WInv => WInv')
  BY <1>5, CallKeeps
<1> QED
  BY <1>1, <1>2, <1>3, <1>4, <1>5 DEF Next

THEOREM InvariantHolds == Spec => []IInv
<1>1. Init => IInv
  BY InitInvs
<1>2. IInv /\ [Next]_vars => IInv'
  BY NextInvs
<1> QED
  BY <1>1, <1>2, PTL DEF Spec

(* What a command answers is true of the output root, then and later,      *)
(* whatever other commands do: also when one run is started twice at once. *)
THEOREM OutcomesAreTrue == Spec => []OutcomesTell
<1>1. IInv => OutcomesTell
  BY DEF IInv, OutcomeOK, OutcomesTell, GoodStatuses
<1> QED
  BY <1>1, InvariantHolds, PTL

(* Only four steps touch the work root or the output.                      *)
LEMMA RootsKept ==
  ASSUME Next
  PROVE  (work \in Runs => work' = work) /\ (output # None => output' = output)
<1> DEFINE Kept == (work \in Runs => work' = work) /\ (output # None => output' = output)
<1>1. ASSUME NEW p \in Processes, Bootstrap(p) PROVE Kept
  <2>1. UNCHANGED output
    BY <1>1 DEF Bootstrap
  <2>2. CASE work = args[p].run /\ work \in Runs
    BY <1>1, <2>1, <2>2 DEF Bootstrap, HoldsRun, HoldsOther
  <2>3. CASE work # args[p].run /\ work \in Runs
    BY <1>1, <2>1, <2>3 DEF Bootstrap, HoldsRun, HoldsOther
  <2> QED
    BY <2>1, <2>2, <2>3
<1>2. ASSUME NEW p \in Processes, Rmdir(p) PROVE Kept
  BY <1>2, EndToEndAssumption DEF Rmdir, RemoveRoot
<1>3. ASSUME NEW p \in Processes, Replace(p) PROVE Kept
  BY <1>3 DEF Replace
<1>4. ASSUME NEW p \in Processes, Publish(p) PROVE Kept
  BY <1>4 DEF Publish
<1>5. ASSUME NEW p \in Processes,
             \/ LoadManifest(p) \/ LookAtOutput(p) \/ UpdateManifest(p) \/ AlreadyPublished(p)
             \/ Stage(p) \/ LookAgain(p) \/ Open(p) \/ RunStarted(p)
             \/ Bootstrapped(p) \/ EnterRunning(p) \/ Supervise(p) \/ CreateJournal(p) \/ SupervisorEvent(p)
             \/ Supervised(p) \/ EnterCompleting(p) \/ Complete(p) \/ EnterBuilding(p)
      PROVE Kept
  BY <1>5 DEF LoadManifest, LookAtOutput, UpdateManifest, AlreadyPublished, Stage, LookAgain, Open,
     RunStarted, Bootstrapped, EnterRunning,
     Supervise, CreateJournal, SupervisorEvent, Supervised, EnterCompleting, Complete, EnterBuilding
<1>6. ASSUME NEW p \in Processes,
             \/ SetHandoffMode(p) \/ BuildHandoff(p) \/ CheckHandoff(p) \/ EnterExporting(p) \/ EnterPublishing(p)
             \/ CopyProject(p) \/ Export(p) \/ SayPublished(p) \/ SayComplete(p) \/ Done(p)
             \/ \E s \in FinalStatuses \cup {"SHUTDOWN"}, q \in Qualities : SupervisorEnds(p, s, q)
      PROVE Kept
  BY <1>6 DEF SetHandoffMode, BuildHandoff, CheckHandoff, EnterExporting, EnterPublishing, CopyProject, Export,
     SayPublished, SayComplete, Done, SupervisorEnds
<1>7. CASE PersonAnswers \/ (\E p \in Processes : Crash(p))
           \/ \E p \in Processes, r \in Runs, w \in Workers, resume \in BOOLEAN : Call(p, r, w, resume)
  BY <1>7 DEF PersonAnswers, Crash, Call, files
<1> QED
  BY <1>1, <1>2, <1>3, <1>4, <1>5, <1>6, <1>7 DEF Next, Step

(* No command replaces a work root that holds a run, or a published        *)
(* output, with any number of commands between a look and a rename.        *)
THEOREM RootsStay == Spec => RootsAreKept
<1>1. Next => (work \in Runs => work' = work) /\ (output # None => output' = output)
  BY RootsKept
<1> QED
  BY <1>1, PTL DEF Spec, RootsAreKept

(* What is published is the whole project of the run that owns the work    *)
(* root, if no two commands work on one run at once.                       *)
THEOREM PublishedWhole == ~SameRunTwice => (Spec => []PublishedIsWhole)
<1> SUFFICES ASSUME ~SameRunTwice PROVE Spec => []PublishedIsWhole
  OBVIOUS
<1>1. Init => IInv /\ WInv
  BY InitInvs
<1>2. (IInv /\ WInv) /\ [Next]_vars => (IInv /\ WInv)'
  BY NextInvs
<1>3. IInv /\ WInv => PublishedIsWhole
  BY DEF IInv, WInv, Whole, PublishedIsWhole
<1> QED
  BY <1>1, <1>2, <1>3, PTL DEF Spec
=============================================================================
