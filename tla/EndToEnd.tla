----------------------------- MODULE EndToEnd ------------------------------
(***************************************************************************)
(* tools/harness.py and tools/harness_e2e.py: one command that takes a     *)
(* request to a published handoff.  It makes the work root, has the        *)
(* supervisor finish the tasks, completes the project, builds its handoff  *)
(* and puts a copy of both under the output root in one rename; and it can *)
(* be run again, or resumed, after any of this went wrong.                 *)
(*                                                                         *)
(* A run is a run ID with its request; a worker is a worker fingerprint.   *)
(* The tasks are Supervisor's, and what completion reads is ProjectFiles': *)
(* here they end well or not.  The route is legacy, for the other one has  *)
(* no publication.                                                         *)
(***************************************************************************)
EXTENDS Integers, FiniteSets, SequencesExt

CONSTANTS
  Processes,      \* commands that may be running at once
  Runs,           \* run IDs, each with its request
  Workers,        \* worker fingerprints
  SameRunTwice,   \* whether a run is started again while it runs
  MaxCrashes,     \* bound on the processes that die
  None

VARIABLES
  work,           \* the work root: "missing", "empty", or the run in .harness/run.json
  state,          \* .harness/e2e-run.json
  journal,        \* the supervisor's journal: "none", its directory only, or its status
  waiting,        \* a person has not answered yet
  project,        \* what the project under the work root has come to
  stream,         \* the event stream: its last phase, HANDOFF_BUILT, and whether it replays
  output,         \* <output-root>/<slug>, or None
  litter,         \* whoever died in there left a temporary file
  pc, args,       \* of each process: where it is, and what it was called with
  mem, stale,     \* its copy of the stream, and who appended none of the last events
  mode,           \* the workflow mode it would put back
  copy,           \* the project in its staging directory
  answer,         \* its outcome
  hurt,           \* history: something outside the code failed it, or a person keeps it waiting
  put,            \* history: it published
  crashes         \* of Processes, so far

files == <<work, state, journal, waiting, project, stream, output, litter>>
vars == <<work, state, journal, waiting, project, stream, output, litter, pc, args, mem, stale, mode, copy, answer, hurt, put, crashes>>

PUBLIC_PHASES == <<"PREFLIGHT", "BOOTSTRAPPED", "RUNNING", "COMPLETING", "BUILDING_HANDOFF", "EXPORTING", "PUBLISHING", "COMPLETE">>
PHASE_INDEX == [phase \in ToSet(PUBLIC_PHASES) |-> CHOOSE i \in DOMAIN PUBLIC_PHASES : PUBLIC_PHASES[i] = phase]

FinalStatuses == {"SUCCEEDED", "FAILED", "BLOCKED", "PAUSED", "NO_TASK_READY"}

Qualities == {"raw", "complete", "incomplete", "invalid"}
Projects == [quality : Qualities, completed : BOOLEAN, handoffMode : BOOLEAN, handoff : {"none", "bad", "good"}]
Outputs == [run : Runs, worker : Workers, project : Projects]

ASSUME EndToEndAssumption ==
  /\ MaxCrashes \in Nat
  /\ SameRunTwice \in BOOLEAN
  /\ Runs \cap {"missing", "empty", None} = {}
  /\ None \notin Processes \cup Workers \cup Outputs

NoProject == [quality |-> "raw", completed |-> FALSE, handoffMode |-> FALSE, handoff |-> "none"]
NoState == [there |-> FALSE, worker |-> None]
NewStream == [last |-> 0, built |-> FALSE, replays |-> TRUE]
NoAnswer == [status |-> "none", rule |-> "none"]
NoArgs == [run |-> None, worker |-> None, resume |-> FALSE]

-----------------------------------------------------------------------------
(* Helpers.                                                                *)

Goto(p, to) == pc' = [pc EXCEPT ![p] = to]
At(p, point) == pc[p] = point

(* EventStream.append refuses to go back, by the copy of the process.      *)
MayAppend(p, phase) == PHASE_INDEX[phase] >= mem[p].last

(* It chains the event to the last one of the copy: one that another       *)
(* process has appended since leaves two events with one predecessor.      *)
AppendEvent(p, phase, built) ==
  LET with(s) == [s EXCEPT !.last = PHASE_INDEX[phase], !.built = @ \/ built]
  IN  /\ stream' = [with(stream) EXCEPT !.replays = @ /\ p \notin stale]
      /\ mem' = [mem EXCEPT ![p] = with(@)]
      /\ stale' = stale \cup (Processes \ {p})

NoEvent == UNCHANGED <<stream, mem, stale>>

(* Nothing reads the phase and the status in it.                           *)
WriteState(p) == state' = [there |-> TRUE, worker |-> args[p].worker]

(* _set_phase, and _set_observed_phase, which leaves out the event of a    *)
(* phase that the stream has passed.                                       *)
ObservePhase(p, phase) ==
  /\ WriteState(p)
  /\ IF MayAppend(p, phase) THEN AppendEvent(p, phase, FALSE) ELSE NoEvent

BlockedRules == {"HARNESS-RESUME", "HARNESS-OUTPUT-BOUNDARY", "HARNESS-PUBLISH-CONFLICT",
                 "HARNESS-RUN-LOCKED", "HARNESS-NO-PROGRESS"}

Answer(p, status, rule) ==
  /\ answer' = [answer EXCEPT ![p] = [status |-> status, rule |-> rule]]
  /\ Goto(p, "idle")

(* The handler of run_request: the outcome, RUN_FAILED at the phase the    *)
(* stream has, and the state file, if there is a project, whosever it is.  *)
(* opened says whether the process got as far as its stream.               *)
Refuse(p, rule, opened) ==
  LET status == IF rule \in BlockedRules THEN "BLOCKED" ELSE "FAILED"
  IN  /\ Answer(p, status, rule)
      /\ IF opened /\ mem[p].last # 0 THEN AppendEvent(p, PUBLIC_PHASES[mem[p].last], FALSE) ELSE NoEvent
      /\ state' = [state EXCEPT !.there = @ \/ work \in Runs]

(* What fails a step from outside: a disk, a schema, a subprocess.         *)
Fails(p) == hurt' = [hurt EXCEPT ![p] = TRUE]

(* What validate_repository says of the project: it is sound, and one in   *)
(* the handoff workflow has its handoff.                                   *)
Validates == /\ project.quality # "invalid"
             /\ project.handoffMode => project.handoff = "good"

(* Mutant: whoever did the work.                                           *)
PublishedByAnyone(r, w) == output # None /\ output.run = r

(* _existing_output: what is there is this run's, by this worker.          *)
Published(r, w) == output # None /\ output.run = r /\ output.worker = w

(* It takes four objects at the top and no other: not the temporary file   *)
(* of an update of run-manifest.json, which goes when the update ends.     *)
Littered == litter \/ \E q \in Processes : At(q, "updating")

(* _existing_run: the work root holds this run, or another one.            *)
HoldsRun(p) == work = args[p].run
HoldsOther(p) == work \in Runs \ {args[p].run}

(* load_event_stream: every event follows the one it names.                *)
StreamReads == stream.replays

-----------------------------------------------------------------------------
Init ==
  /\ work \in {"missing", "empty"}
  /\ state = NoState
  /\ journal = "none"
  /\ waiting = FALSE
  /\ project = NoProject
  /\ stream = NewStream
  /\ output = None /\ litter = FALSE
  /\ pc = [p \in Processes |-> "idle"]
  /\ args = [p \in Processes |-> NoArgs]
  /\ mem = [p \in Processes |-> NewStream]
  /\ stale = {}
  /\ mode = [p \in Processes |-> FALSE]
  /\ copy = [p \in Processes |-> NoProject]
  /\ answer = [p \in Processes |-> NoAnswer]
  /\ hurt = [p \in Processes |-> FALSE]
  /\ put = [p \in Processes |-> FALSE]
  /\ crashes = 0

(* harness.py run and resume.  A resume works with the worker the state    *)
(* file names, if it names one.                                            *)
Call(p, r, w, resume) ==
  /\ At(p, "idle")
  /\ SameRunTwice \/ \A q \in Processes : At(q, "idle") \/ args[q].run # r
  /\ args' = [args EXCEPT ![p] = [run |-> r, resume |-> resume,
                                  worker |-> IF resume /\ work \in Runs /\ state.worker # None THEN state.worker ELSE w]]
  /\ answer' = [answer EXCEPT ![p] = NoAnswer]
  /\ hurt' = [hurt EXCEPT ![p] = FALSE]
  /\ put' = [put EXCEPT ![p] = FALSE]
  /\ mode' = [mode EXCEPT ![p] = FALSE]
  /\ copy' = [copy EXCEPT ![p] = NoProject]
  /\ mem' = [mem EXCEPT ![p] = NewStream]
  /\ Goto(p, IF resume THEN "manifest" ELSE "existing")
  /\ UNCHANGED <<files, stale, crashes>>

(* _load_bootstrap_manifest *)
LoadManifest(p) ==
  /\ At(p, "manifest")
  /\ IF work = args[p].run
     THEN Goto(p, "existing") /\ NoEvent /\ UNCHANGED <<state, answer>>
     ELSE Refuse(p, "HARNESS-RESUME", FALSE)
  /\ UNCHANGED <<work, journal, waiting, project, output, litter, args, mode, copy, hurt, put, crashes>>

(* What is under the output root already.                                  *)
LookAtOutput(p) ==
  /\ At(p, "existing")
  /\ CASE output = None -> Goto(p, IF args[p].resume THEN "open" ELSE "bootstrap") /\ NoEvent /\ UNCHANGED <<state, answer>>
       [] Published(args[p].run, args[p].worker) /\ ~Littered -> Goto(p, "update") /\ NoEvent /\ UNCHANGED <<state, answer>>
       [] OTHER -> Refuse(p, "HARNESS-PUBLISH-CONFLICT", FALSE)
  /\ UNCHANGED <<work, journal, waiting, project, output, litter, args, mode, copy, hurt, put, crashes>>

(* _outcome_from_manifest: the outcome that was published, whose status is *)
(* updated in the published run-manifest.json: a temporary file beside it, *)
(* which then replaces it, or goes when that fails.                        *)
UpdateManifest(p) ==
  /\ At(p, "update")
  /\ Goto(p, "updating") /\ NoEvent
  /\ UNCHANGED <<work, state, journal, waiting, project, output, litter, args, mode, copy, answer, hurt, put, crashes>>

AlreadyPublished(p) ==
  /\ At(p, "updating")
  /\ \/ Answer(p, "ALREADY_PUBLISHED", "none") /\ NoEvent /\ UNCHANGED <<state, hurt>>
     \/ Refuse(p, "HARNESS-PHASE", FALSE) /\ Fails(p)
  /\ UNCHANGED <<work, journal, waiting, project, output, litter, args, mode, copy, put, crashes>>

(* bootstrap: what is there already, and ensure_empty_directory, which     *)
(* makes a root that is missing.                                           *)
Bootstrap(p) ==
  /\ At(p, "bootstrap")
  /\ CASE HoldsRun(p) -> Goto(p, "open") /\ NoEvent /\ UNCHANGED <<work, state, answer>>
       [] HoldsOther(p) -> Refuse(p, "HARNESS-BOOTSTRAP-CONFLICT", FALSE) /\ UNCHANGED work
       [] work \notin Runs /\ output # None -> Refuse(p, "HARNESS-BOOTSTRAP-CONFLICT", FALSE) /\ work' = "empty"
       [] OTHER -> work' = "empty" /\ Goto(p, "staging") /\ NoEvent /\ UNCHANGED <<state, answer>>
  /\ UNCHANGED <<journal, waiting, project, output, litter, args, mode, copy, hurt, put, crashes>>

(* The staging copy of the protocol, the accepted request, its runtime and *)
(* the validation of both; all of it goes if one fails.                    *)
Stage(p) ==
  /\ At(p, "staging")
  /\ \/ Goto(p, "look") /\ NoEvent /\ UNCHANGED <<state, answer, hurt>>
     \/ Refuse(p, "HARNESS-BOOTSTRAP-CONTRACT", FALSE) /\ Fails(p)
  /\ UNCHANGED <<work, journal, waiting, project, output, litter, args, mode, copy, put, crashes>>

(* any(work_root.iterdir()), work_root.rmdir(), os.replace(staging, work_root). *)
LookAgain(p) ==
  /\ At(p, "look")
  /\ IF work = "empty" THEN Goto(p, "rmdir") /\ NoEvent /\ UNCHANGED <<state, answer>>
     ELSE Refuse(p, "HARNESS-BOOTSTRAP-CONFLICT", FALSE)
  /\ UNCHANGED <<work, journal, waiting, project, output, litter, args, mode, copy, hurt, put, crashes>>

(* Mutant: whatever is there is cleared away.                              *)
RemoveTree(p) == work' = "missing" /\ Goto(p, "replace") /\ NoEvent /\ UNCHANGED <<state, answer>>

RemoveRoot(p) ==
  IF work = "empty" THEN work' = "missing" /\ Goto(p, "replace") /\ NoEvent /\ UNCHANGED <<state, answer>>
  ELSE Refuse(p, "HARNESS-PHASE", FALSE) /\ UNCHANGED work

Rmdir(p) ==
  /\ At(p, "rmdir")
  /\ RemoveRoot(p)
  /\ UNCHANGED <<journal, waiting, project, output, litter, args, mode, copy, hurt, put, crashes>>

Replace(p) ==
  /\ At(p, "replace")
  /\ IF work \in Runs THEN Refuse(p, "HARNESS-PHASE", FALSE) /\ UNCHANGED work
     ELSE work' = args[p].run /\ Goto(p, "open") /\ NoEvent /\ UNCHANGED <<state, answer>>
  /\ UNCHANGED <<journal, waiting, project, output, litter, args, mode, copy, hurt, put, crashes>>

(* The state file against the arguments, then the stream is read and       *)
(* replayed.                                                               *)
Open(p) ==
  /\ At(p, "open")
  /\ CASE state.there /\ state.worker # args[p].worker ->
            Refuse(p, "HARNESS-RESUME", FALSE)
       [] ~(state.there /\ state.worker # args[p].worker) /\ ~StreamReads ->
            Refuse(p, "HARNESS-PHASE", FALSE)
       [] OTHER -> /\ mem' = [mem EXCEPT ![p] = stream]
                   /\ stale' = stale \ {p}
                   /\ Goto(p, IF stream.last = 0 THEN "started" ELSE "bootstrapped")
                   /\ UNCHANGED <<state, stream, answer>>
  /\ UNCHANGED <<work, journal, waiting, project, output, litter, args, mode, copy, hurt, put, crashes>>

(* RUN_STARTED, then BOOTSTRAPPED.                                         *)
RunStarted(p) ==
  /\ At(p, "started")
  /\ IF mem[p].last = 0 THEN AppendEvent(p, "PREFLIGHT", FALSE) /\ UNCHANGED pc
     ELSE AppendEvent(p, "BOOTSTRAPPED", FALSE) /\ Goto(p, "bootstrapped")
  /\ UNCHANGED <<work, state, journal, waiting, project, output, litter, args, mode, copy, answer, hurt, put, crashes>>

(* _set_phase, the state file, and the phase RUNNING.                      *)
Bootstrapped(p) ==
  /\ At(p, "bootstrapped")
  /\ WriteState(p)
  /\ Goto(p, "run")
  /\ UNCHANGED <<work, journal, waiting, project, stream, output, litter, args, mem, stale, mode, copy, answer, hurt, put, crashes>>

EnterRunning(p) ==
  /\ At(p, "run")
  /\ ObservePhase(p, "RUNNING")
  /\ Goto(p, "supervise")
  /\ UNCHANGED <<work, journal, waiting, project, output, litter, args, mode, copy, answer, hurt, put, crashes>>

(* Supervisor.run under its run lock, to resume if .harness/supervisor is  *)
(* there; a journal with a final status is the answer.                     *)
Supervising(q) == pc[q] \in {"journal", "working"}

Supervise(p) ==
  /\ At(p, "supervise")
  /\ CASE \E q \in Processes \ {p} : Supervising(q) ->
            Refuse(p, "HARNESS-RUN-LOCKED", TRUE) /\ UNCHANGED <<journal, hurt>>
       [] ~(\E q \in Processes \ {p} : Supervising(q)) /\ journal = "directory" ->
            Refuse(p, "HARNESS-JOURNAL", TRUE) /\ UNCHANGED <<journal, hurt>>
       [] OTHER -> /\ journal' = CASE journal = "none" -> "directory"
                                   [] journal \in FinalStatuses -> journal
                                   [] OTHER -> "RUNNING"
                   /\ hurt' = [hurt EXCEPT ![p] = @ \/ waiting \/ journal \in {"FAILED", "BLOCKED", "NO_TASK_READY"}
                                                    \/ project.quality \in {"incomplete", "invalid"}]
                   /\ Goto(p, CASE journal = "none" -> "journal"
                                [] journal \in FinalStatuses -> "supervised"
                                [] OTHER -> "working")
                   /\ NoEvent /\ UNCHANGED <<state, answer>>
  /\ UNCHANGED <<work, waiting, project, output, litter, args, mode, copy, put, crashes>>

(* The first save of a new journal.                                        *)
CreateJournal(p) ==
  /\ At(p, "journal")
  /\ journal' = "RUNNING"
  /\ Goto(p, "working")
  /\ UNCHANGED <<work, state, waiting, project, stream, output, litter, args, mem, stale, mode, copy, answer, hurt, put, crashes>>

(* An event of the supervisor, written to the stream under state.phase     *)
(* RUNNING.                                                                *)
SupervisorEvent(p) ==
  /\ At(p, "working")
  /\ IF MayAppend(p, "RUNNING") THEN AppendEvent(p, "RUNNING", FALSE) /\ UNCHANGED <<pc, answer, state>>
     ELSE Refuse(p, "HARNESS-PHASE", TRUE)
  /\ UNCHANGED <<work, journal, waiting, project, output, litter, args, mode, copy, hurt, put, crashes>>

(* The loop ends.  A project whose tasks all succeeded may still be        *)
(* incomplete, or have files that do not validate.                         *)
SupervisorEnds(p, status, quality) ==
  /\ At(p, "working")
  /\ (status = "SUCCEEDED") = (quality # "raw")
  /\ journal' = status
  /\ waiting' = (status = "PAUSED")
  /\ project' = [project EXCEPT !.quality = quality]
  /\ hurt' = [hurt EXCEPT ![p] = @ \/ quality # "complete"]
  /\ Goto(p, "supervised")
  /\ UNCHANGED <<work, state, stream, output, litter, args, mem, stale, mode, copy, answer, put, crashes>>

(* A person answers what the run waits for.                                *)
PersonAnswers ==
  /\ journal = "PAUSED" /\ waiting
  /\ waiting' = FALSE
  /\ UNCHANGED <<work, state, journal, project, stream, output, litter, pc, args, mem, stale, mode, copy, answer, hurt, put, crashes>>

(* _supervisor_failure, for a journal that did not succeed.                *)
Supervised(p) ==
  LET status == CASE journal \in {"PAUSED", "NO_TASK_READY", "BLOCKED"} -> journal
                  [] OTHER -> "FAILED"
  IN  /\ At(p, "supervised")
      /\ IF journal = "SUCCEEDED"
         THEN Goto(p, "completing") /\ NoEvent /\ UNCHANGED <<state, answer>>
         ELSE /\ AppendEvent(p, PUBLIC_PHASES[mem[p].last], FALSE)
              /\ WriteState(p)
              /\ Answer(p, status, "none")
      /\ UNCHANGED <<work, journal, waiting, project, output, litter, args, mode, copy, hurt, put, crashes>>

EnterCompleting(p) ==
  /\ At(p, "completing")
  /\ ObservePhase(p, "COMPLETING")
  /\ Goto(p, "validate")
  /\ UNCHANGED <<work, journal, waiting, project, output, litter, args, mode, copy, answer, hurt, put, crashes>>

(* Mutant: what complete_project says is not looked at.                    *)
CompletesWhatever == Validates

(* validate_repository finds nothing, and complete_project is content.     *)
Completes == Validates /\ project.quality = "complete"

Complete(p) ==
  /\ At(p, "validate")
  /\ IF Completes
     THEN /\ project' = [project EXCEPT !.completed = (project.quality = "complete")]
          /\ Goto(p, "building") /\ NoEvent /\ UNCHANGED <<state, answer>>
     ELSE Refuse(p, "HARNESS-COMPLETION", TRUE) /\ UNCHANGED project
  /\ UNCHANGED <<work, journal, waiting, output, litter, args, mode, copy, hurt, put, crashes>>

EnterBuilding(p) ==
  /\ At(p, "building")
  /\ ObservePhase(p, "BUILDING_HANDOFF")
  /\ Goto(p, "mode")
  /\ UNCHANGED <<work, journal, waiting, project, output, litter, args, mode, copy, answer, hurt, put, crashes>>

(* _set_handoff_mode writes the manifest; build_handoff comes after it.    *)
SetHandoffMode(p) ==
  /\ At(p, "mode")
  /\ mode' = [mode EXCEPT ![p] = project.handoffMode]
  /\ project' = [project EXCEPT !.handoffMode = TRUE]
  /\ Goto(p, "build")
  /\ UNCHANGED <<work, state, journal, waiting, stream, output, litter, args, mem, stale, copy, answer, hurt, put, crashes>>

(* build_handoff writes the file, unless it refuses to build it.  It       *)
(* builds the same file of the same project.                               *)
BuildHandoff(p) ==
  /\ At(p, "build")
  /\ \/ /\ project' = [project EXCEPT !.handoff = "good"]
        /\ Goto(p, "built") /\ NoEvent /\ UNCHANGED <<state, answer, hurt>>
     \/ /\ project.handoff = "none"
        /\ project' = [project EXCEPT !.handoff = "bad"]
        /\ Fails(p)
        /\ Goto(p, "built") /\ NoEvent /\ UNCHANGED <<state, answer>>
     \/ /\ project' = [project EXCEPT !.handoffMode = mode[p]]
        /\ Refuse(p, "HARNESS-HANDOFF", TRUE)
        /\ Fails(p)
  /\ UNCHANGED <<work, journal, waiting, output, litter, args, mode, copy, put, crashes>>

(* It validates what it wrote, and takes it back; run_request puts the     *)
(* manifest back.                                                          *)
CheckHandoff(p) ==
  /\ At(p, "built")
  /\ IF Validates
     THEN /\ IF mem[p].built THEN NoEvent ELSE AppendEvent(p, "BUILDING_HANDOFF", TRUE)
          /\ Goto(p, "exporting") /\ UNCHANGED <<project, state, answer>>
     ELSE /\ project' = [project EXCEPT !.handoff = "none", !.handoffMode = mode[p]]
          /\ Refuse(p, "HARNESS-HANDOFF", TRUE)
  /\ UNCHANGED <<work, journal, waiting, output, litter, args, mode, copy, hurt, put, crashes>>

EnterExporting(p) ==
  /\ At(p, "exporting")
  /\ ObservePhase(p, "EXPORTING")
  /\ Goto(p, "publishing")
  /\ UNCHANGED <<work, journal, waiting, project, output, litter, args, mode, copy, answer, hurt, put, crashes>>

EnterPublishing(p) ==
  /\ At(p, "publishing")
  /\ ObservePhase(p, "PUBLISHING")
  /\ Goto(p, "copy")
  /\ UNCHANGED <<work, journal, waiting, project, output, litter, args, mode, copy, answer, hurt, put, crashes>>

(* _publish: the target is free, and the project is copied to staging.     *)
CopyProject(p) ==
  /\ At(p, "copy")
  /\ IF output = None
     THEN copy' = [copy EXCEPT ![p] = project] /\ Goto(p, "export") /\ NoEvent /\ UNCHANGED <<state, answer>>
     ELSE Refuse(p, "HARNESS-PUBLISH-CONFLICT", TRUE) /\ UNCHANGED copy
  /\ UNCHANGED <<work, journal, waiting, project, output, litter, args, mode, hurt, put, crashes>>

(* export_handoff, from the work root: it wants the handoff workflow and a *)
(* project that validates.                                                 *)
Export(p) ==
  /\ At(p, "export")
  /\ \/ /\ project.handoffMode /\ Validates
        /\ Goto(p, "published") /\ NoEvent /\ UNCHANGED <<state, answer, hurt>>
     \/ /\ ~(project.handoffMode /\ Validates)
        /\ Refuse(p, "HARNESS-HANDOFF", TRUE) /\ UNCHANGED hurt
     \/ Refuse(p, "HARNESS-HANDOFF", TRUE) /\ Fails(p)
  /\ UNCHANGED <<work, journal, waiting, project, output, litter, args, mode, copy, put, crashes>>

(* OUTPUT_PUBLISHED and RUN_TERMINAL are written before the rename.        *)
SayPublished(p) ==
  /\ At(p, "published")
  /\ IF MayAppend(p, "PUBLISHING")
     THEN AppendEvent(p, "PUBLISHING", FALSE) /\ Goto(p, "terminal") /\ UNCHANGED <<state, answer>>
     ELSE Refuse(p, "HARNESS-PUBLISH-CONFLICT", TRUE)
  /\ UNCHANGED <<work, journal, waiting, project, output, litter, args, mode, copy, hurt, put, crashes>>

SayComplete(p) ==
  /\ At(p, "terminal")
  /\ AppendEvent(p, "COMPLETE", FALSE)
  /\ Goto(p, "rename")
  /\ UNCHANGED <<work, state, journal, waiting, project, output, litter, args, mode, copy, answer, hurt, put, crashes>>

(* os.replace of a directory fails on one that is not empty.               *)
Publish(p) ==
  /\ At(p, "rename")
  /\ IF output = None
     THEN /\ output' = [run |-> args[p].run, worker |-> args[p].worker, project |-> copy[p]]
          /\ put' = [put EXCEPT ![p] = TRUE]
          /\ Goto(p, "done") /\ NoEvent /\ UNCHANGED <<state, answer>>
     ELSE Refuse(p, "HARNESS-PUBLISH-CONFLICT", TRUE) /\ UNCHANGED <<output, put>>
  /\ UNCHANGED <<work, journal, waiting, project, litter, args, mode, copy, hurt, crashes>>

Done(p) ==
  /\ At(p, "done")
  /\ WriteState(p)
  /\ Answer(p, "COMPLETE", "none")
  /\ UNCHANGED <<work, journal, waiting, project, stream, output, litter, args, mem, stale, mode, copy, hurt, put, crashes>>

(* A process dies.  Its staging directories stay, under names that nothing *)
(* looks for; its temporary file in the output stays in the way.           *)
Crash(p) ==
  /\ pc[p] # "idle"
  /\ crashes < MaxCrashes
  /\ crashes' = crashes + 1
  /\ Goto(p, "idle")
  /\ litter' = (litter \/ At(p, "updating"))
  /\ UNCHANGED <<work, state, journal, waiting, project, stream, output, args, mem, stale, mode, copy, answer, hurt, put>>

Step(p) ==
  \/ LoadManifest(p) \/ LookAtOutput(p) \/ UpdateManifest(p) \/ AlreadyPublished(p)
  \/ Bootstrap(p) \/ Stage(p) \/ LookAgain(p) \/ Rmdir(p) \/ Replace(p)
  \/ Open(p) \/ RunStarted(p) \/ Bootstrapped(p) \/ EnterRunning(p) \/ Supervise(p) \/ CreateJournal(p)
  \/ SupervisorEvent(p) \/ Supervised(p) \/ EnterCompleting(p) \/ Complete(p) \/ EnterBuilding(p)
  \/ SetHandoffMode(p) \/ BuildHandoff(p) \/ CheckHandoff(p) \/ EnterExporting(p) \/ EnterPublishing(p)
  \/ CopyProject(p) \/ Export(p) \/ SayPublished(p) \/ SayComplete(p) \/ Publish(p) \/ Done(p)
  \/ \E s \in FinalStatuses \cup {"SHUTDOWN"}, q \in Qualities : SupervisorEnds(p, s, q)

Next ==
  \/ \E p \in Processes : Step(p) \/ Crash(p)
  \/ \E p \in Processes, r \in Runs, w \in Workers, resume \in BOOLEAN : Call(p, r, w, resume)
  \/ PersonAnswers

Spec == Init /\ [][Next]_vars
-----------------------------------------------------------------------------
(* Properties.                                                             *)

(* What is published is a completed project in the handoff workflow, with  *)
(* a handoff that validates, of the run that owns the work root, whatever  *)
(* died, was refused or was tried again on the way (docs/operations.md     *)
(* line 83).                                                               *)
PublishedIsWhole ==
  output # None => /\ output.run = work
                   /\ output.project.quality = "complete" /\ output.project.completed
                   /\ output.project.handoffMode /\ output.project.handoff = "good"

(* An outcome says COMPLETE or ALREADY_PUBLISHED of what is there under    *)
(* the output root for this run and worker, and says something else only   *)
(* if the command has published nothing.                                   *)
OutcomesTell ==
  \A p \in Processes :
    /\ answer[p].status \in {"COMPLETE", "ALREADY_PUBLISHED"} =>
         output # None /\ output.run = args[p].run /\ output.worker = args[p].worker
    /\ answer[p].status \notin {"none", "COMPLETE"} => ~put[p]

(* Nothing replaces a work root that holds a run, nor what is published:   *)
(* the looks at both and the renames are separate steps of two commands.   *)
RootsAreKept == [][/\ work \in Runs => work' = work
                   /\ output # None => output' = output]_vars

(* A run that was interrupted, or paused for a person who has answered     *)
(* since, goes on when it is resumed (docs/operations.md line 85).         *)
ResumedRunGoesOn ==
  \A p \in Processes :
    args[p].resume /\ args[p].run = work /\ ~hurt[p] => answer[p].status \in {"none", "COMPLETE", "ALREADY_PUBLISHED"}

(* The stream replays: every event follows the one it names, and no phase  *)
(* comes after a later one (docs/operations.md line 99).                   *)
StreamReplays == stream.replays
=============================================================================
