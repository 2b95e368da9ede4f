----------------------- MODULE AcceptanceTransaction -----------------------
(***************************************************************************)
(* From a worker's result to an accepted task: complete_attempt and        *)
(* recover_attempt_transaction of tools/acceptance_executor.py, with the   *)
(* promotion of tools/attempt_workspace.py, as tools/harness_supervisor.py *)
(* drives them for one task.                                               *)
(*                                                                         *)
(* The canonical project is one tree, the task runtime's files included.   *)
(* The model keeps of it whose edits it carries (body), the record of the  *)
(* task, and whether a human has answered the question of another task     *)
(* (other): the harness serialises that answer with the runtime's own      *)
(* flock, which the promotion and the rollback do not take.                *)
(*                                                                         *)
(* A step is what lies between two points where the process may die, the   *)
(* lease may run out or the answer may arrive.                             *)
(***************************************************************************)
EXTENDS Naturals

CONSTANTS
  MaxAttempts,    \* of the task
  MaxClaims,      \* bound on the claims, so that expiries stop
  Human,          \* whether the answer to the other task's question arrives
  IOFaults,       \* whether file operations of the transaction may raise
  Gone,           \* the project directory is missing, or only partly rewritten
  None

Attempts == 1..MaxAttempts
TaskRecords ==
  [status : {"PENDING", "RUNNING", "SUCCEEDED", "FAILED"}, attempts : 0..MaxAttempts,
   token : 0..MaxClaims, effect : Attempts \cup {None}]
Trees == [body : 0..MaxAttempts, task : TaskRecords, other : BOOLEAN]
Stages == {"PREPARED", "PROMOTED", "COMMITTED", "ROLLED_BACK"}
Reports == [pass : BOOLEAN]
Dirs ==
  [baseline : Trees, edits : BOOLEAN, report : Reports \cup {None}, before : Trees \cup {None},
   changeset : Trees \cup {None}, stage : Stages \cup {None}, backup : Trees \cup {None}]
Points ==
  {"down", "recover", "claim", "gates", "capture", "inspect", "promote", "swap out", "swap in", "clean up",
   "journal", "validate", "complete", "commit", "undo", "rebuild", "rolled back", "fail", "ended"}

ASSUME AcceptanceAssumption ==
  /\ MaxAttempts \in Nat \ {0}
  /\ MaxClaims \in Nat \ {0}
  /\ Human \in BOOLEAN
  /\ IOFaults \in BOOLEAN
  /\ None \notin Nat \cup Stages
  /\ None \notin Reports
  /\ None \notin Trees
  /\ None \notin Dirs
  /\ Gone \notin Trees

VARIABLES
  tree,           \* the canonical project, or Gone
  dir,            \* the attempt workspaces and what the transaction keeps there
  live,           \* whether the lease in the runtime has not run out
  pc,             \* where the supervisor process is
  named,          \* the attempt its journal names, 0 for none
  resume,         \* whether it was started to resume
  token,          \* the lease token the process holds
  then,           \* where it goes once a rollback is journaled
  refused,        \* history: a recovery refused to decide
  answered        \* history: the human's answer was written

vars == <<tree, dir, live, pc, named, resume, token, then, refused, answered>>

-----------------------------------------------------------------------------
(* Helpers.                                                                *)

Readable == tree # Gone

(* build_changeset: the tree a promotion leaves.  Worker edits never touch *)
(* runtime files, so it is the baseline with the attempt's body.           *)
After(a) == IF dir[a].edits THEN [dir[a].baseline EXCEPT !.body = a] ELSE dir[a].baseline

(* Mutants: an unrelated change needs no restore; PREPARED means that      *)
(* nothing was promoted; a promoted tree is always restored.               *)
VerdictTolerant(stage, current, after, baseline) ==
  IF stage = "PREPARED" /\ current # after THEN "keep"
  ELSE IF current \in {after, baseline} THEN "restore" ELSE "refuse"

VerdictPreparedIsBefore(stage, current, after, baseline) ==
  IF stage = "PREPARED" THEN "keep"
  ELSE IF current \in {after, baseline} THEN "restore" ELSE "refuse"

VerdictUnchecked(stage, current, after, baseline) ==
  IF stage = "PROMOTED" \/ current = after THEN "restore"
  ELSE IF current = baseline THEN "keep" ELSE "refuse"

(* recover_attempt_transaction, on an open transaction.                    *)
Verdict(stage, current, after, baseline) ==
  CASE current = after -> "restore"
    [] current # after /\ current = baseline -> IF stage = "PROMOTED" THEN "restore" ELSE "keep"
    [] OTHER -> "refuse"

(* Mutant: a report is enough, whatever it says.                           *)
AcceptsAny(report) == TRUE

Accepts(report) == report.pass

MayRetry(task) == task.attempts < MaxAttempts

Goto(p) == pc' = p
Set(a, field, value) == dir' = [dir EXCEPT ![a][field] = value]

(* An operation of the runtime: the supervisor's exception handlers know   *)
(* no missing project.                                                     *)
HasLease == tree.task.status = "RUNNING" /\ tree.task.token = token /\ live

-----------------------------------------------------------------------------
Init ==
  /\ tree = [body |-> 0, task |-> [status |-> "PENDING", attempts |-> 0, token |-> 0, effect |-> None], other |-> FALSE]
  /\ dir = [a \in Attempts |-> None]
  /\ live = FALSE
  /\ pc = "down"
  /\ named = 0
  /\ resume = FALSE
  /\ token = 0
  /\ then = "claim"
  /\ refused = FALSE
  /\ answered = FALSE

(* The supervisor starts, or is started again: by run, or by resume once   *)
(* there is a journal.                                                     *)
Start ==
  /\ pc = "down"
  /\ Goto("recover")
  /\ resume' \in {FALSE, named # 0}
  /\ UNCHANGED <<tree, dir, live, named, token, then, refused, answered>>

(* _recover_journal_attempt, at the top of every iteration.                *)
Recover ==
  /\ pc = "recover"
  /\ UNCHANGED <<tree, dir, live, named, resume, token, answered>>
  /\ IF named = 0 \/ dir[named].stage \in {None, "COMMITTED", "ROLLED_BACK"}
     THEN Goto("claim") /\ UNCHANGED <<then, refused>>
     ELSE LET verdict == IF Readable THEN Verdict(dir[named].stage, tree, dir[named].changeset, dir[named].baseline)
                         ELSE "refuse"
          IN  /\ pc' = CASE verdict = "restore" -> "undo"
                         [] verdict = "keep" -> "rolled back"
                         [] verdict = "refuse" -> "down"
              /\ then' = "claim"
              /\ refused' = (refused \/ verdict = "refuse")

(* build_next_action and _attempt: the task is claimed, claimed back after *)
(* its lease ran out, or resumed under the lease in force; its attempt     *)
(* workspace is created, or found.  Then the worker answers; a workspace   *)
(* whose baseline has been refreshed (a heartbeat, or a result found there)*)
(* has the runtime files of this moment, any other those of its creation.  *)
(* A resumed process goes back to the attempt of its journal, whose result *)
(* it finds, however many attempts the task has had since.                 *)
(* With the project gone the process dies here, as it does in Fail: Crash. *)
Claim ==
  /\ pc = "claim"
  /\ Readable
  /\ UNCHANGED <<resume, then, refused, answered>>
  /\ \/ /\ tree.task.status \in {"SUCCEEDED", "FAILED"}
        /\ Goto("ended")
        /\ UNCHANGED <<tree, dir, live, named, token>>
     \/ /\ tree.task.status \in {"PENDING", "RUNNING"}
        /\ LET held == tree.task.status = "RUNNING" /\ live
               task == [tree.task EXCEPT !.status = "RUNNING",
                                         !.attempts = IF tree.task.status = "PENDING" THEN @ + 1 ELSE @,
                                         !.token = IF held THEN @ ELSE @ + 1]
               now == [tree EXCEPT !.task = task]
               Synced(a) == Set(a, "baseline", [now EXCEPT !.body = dir[a].baseline.body])
           IN  /\ task.token <= MaxClaims
               /\ tree' = now
               /\ live' = TRUE
               /\ token' = task.token
               /\ \/ /\ resume
                     /\ named # 0
                     /\ Synced(named)
                     /\ UNCHANGED named
                  \/ LET a == task.attempts
                     IN  /\ named' = a
                         /\ \/ /\ dir[a] = None
                               /\ \E edits \in BOOLEAN :
                                    dir' = [dir EXCEPT ![a] = [baseline |-> now, edits |-> edits, report |-> None,
                                                               before |-> None, changeset |-> None, stage |-> None,
                                                               backup |-> None]]
                            \/ dir[a] # None /\ (Synced(a) \/ UNCHANGED dir)
        /\ Goto("gates")

(* execute_acceptance: a report of an earlier evaluation must be repeated  *)
(* byte for byte, evaluated_at included.  A success delivered again is     *)
(* compared with what the task records and changes nothing: no step.       *)
Gates ==
  /\ pc = "gates"
  /\ UNCHANGED <<tree, live, named, resume, token, then, refused, answered>>
  /\ \E pass \in BOOLEAN, same \in BOOLEAN :
       LET report == [pass |-> pass]
           differs == dir[named].report # None /\ ~(same /\ dir[named].report = report)
       IN  /\ IF differs THEN UNCHANGED dir ELSE Set(named, "report", report)
           /\ pc' = IF differs \/ ~Accepts(report) THEN "fail" ELSE "capture"

(* _capture_tree and _persist_tree.                                        *)
Capture ==
  /\ pc = "capture"
  /\ Readable
  /\ Set(named, "before", tree)
  /\ Goto("inspect")
  /\ UNCHANGED <<tree, live, named, resume, token, then, refused, answered>>

(* inspect_attempt, and the PREPARED journal.                              *)
Inspect ==
  /\ pc = "inspect"
  /\ Readable
  /\ IF tree = dir[named].baseline
     THEN /\ dir' = [dir EXCEPT ![named].changeset = After(named), ![named].stage = "PREPARED"]
          /\ Goto("promote")
     ELSE /\ UNCHANGED dir
          /\ Goto("fail")
  /\ UNCHANGED <<tree, live, named, resume, token, then, refused, answered>>

(* promote_attempt, under the project lock, in the steps a crash or an     *)
(* answer can fall between: the check against the baseline and the copy of *)
(* the candidate; the two renames; the removal of the backup.              *)
Promote ==
  /\ pc = "promote"
  /\ Readable
  /\ pc' = CASE tree # dir[named].baseline -> "fail"
             [] tree = dir[named].baseline /\ ~dir[named].edits -> "journal"
             [] tree = dir[named].baseline /\ dir[named].edits -> IF dir[named].backup = None THEN "swap out" ELSE "fail"
  /\ UNCHANGED <<tree, dir, live, named, resume, token, then, refused, answered>>

SwapOut ==
  /\ pc = "swap out"
  /\ Set(named, "backup", tree)
  /\ tree' = Gone
  /\ Goto("swap in")
  /\ UNCHANGED <<live, named, resume, token, then, refused, answered>>

SwapIn ==
  /\ pc = "swap in"
  /\ \/ /\ tree' = After(named)
        /\ Goto("clean up")
        /\ UNCHANGED dir
     \/ /\ IOFaults
        /\ tree' = dir[named].backup
        /\ Set(named, "backup", None)
        /\ Goto("fail")
  /\ UNCHANGED <<live, named, resume, token, then, refused, answered>>

CleanUp ==
  /\ pc = "clean up"
  /\ \/ Set(named, "backup", None) /\ Goto("journal")
     \/ IOFaults /\ UNCHANGED dir /\ Goto("fail")
  /\ UNCHANGED <<tree, live, named, resume, token, then, refused, answered>>

(* complete_attempt after the promotion: whatever raises from here on      *)
(* rolls the whole tree back.                                              *)
Raise(p) == Goto(p) /\ then' = "fail"

JournalPromoted ==
  /\ pc = "journal"
  /\ \/ Set(named, "stage", "PROMOTED") /\ Goto("validate") /\ UNCHANGED then
     \/ IOFaults /\ UNCHANGED dir /\ Raise("undo")
  /\ UNCHANGED <<tree, live, named, resume, token, refused, answered>>

Validate ==
  /\ pc = "validate"
  /\ \/ Goto("complete") /\ UNCHANGED then
     \/ Raise("undo")
  /\ UNCHANGED <<tree, dir, live, named, resume, token, refused, answered>>

Complete ==
  /\ pc = "complete"
  /\ IF HasLease
     THEN /\ tree' = [tree EXCEPT !.task.status = "SUCCEEDED", !.task.effect = named]
          /\ Goto("commit")
          /\ UNCHANGED then
     ELSE /\ UNCHANGED tree
          /\ Raise("undo")
  /\ UNCHANGED <<dir, live, named, resume, token, refused, answered>>

Commit ==
  /\ pc = "commit"
  /\ \/ Set(named, "stage", "COMMITTED") /\ Goto("recover") /\ UNCHANGED then
     \/ IOFaults /\ UNCHANGED dir /\ Raise("undo")
  /\ UNCHANGED <<tree, live, named, resume, token, refused, answered>>

(* _restore_tree removes the project and writes the preimage, by the       *)
(* rollback of complete_attempt and by the recovery alike.                 *)
Undo ==
  /\ pc = "undo"
  /\ tree' = Gone
  /\ Goto("rebuild")
  /\ UNCHANGED <<dir, live, named, resume, token, then, refused, answered>>

Rebuild ==
  /\ pc = "rebuild"
  /\ tree' = dir[named].before
  /\ Goto("rolled back")
  /\ UNCHANGED <<dir, live, named, resume, token, then, refused, answered>>

JournalRolledBack ==
  /\ pc = "rolled back"
  /\ Set(named, "stage", "ROLLED_BACK")
  /\ Goto(then)
  /\ UNCHANGED <<tree, live, named, resume, token, then, refused, answered>>

(* _handle_failure: the attempt is charged, or the lease is lost and the   *)
(* run is over.                                                            *)
Fail ==
  /\ pc = "fail"
  /\ Readable
  /\ IF HasLease
     THEN /\ tree' = [tree EXCEPT !.task.status = IF MayRetry(tree.task) THEN "PENDING" ELSE "FAILED"]
          /\ Goto("recover")
     ELSE /\ UNCHANGED tree
          /\ Goto("ended")
  /\ UNCHANGED <<dir, live, named, resume, token, then, refused, answered>>

-----------------------------------------------------------------------------
(* The environment.                                                        *)

Crash ==
  /\ pc \notin {"down", "ended"}
  /\ Goto("down")
  /\ UNCHANGED <<tree, dir, live, named, resume, token, then, refused, answered>>

LeaseRunsOut ==
  /\ Readable
  /\ tree.task.status = "RUNNING"
  /\ live
  /\ live' = FALSE
  /\ UNCHANGED <<tree, dir, pc, named, resume, token, then, refused, answered>>

(* resolve_human on the other task, one write of the runtime's files.      *)
HumanAnswers ==
  /\ Human
  /\ Readable
  /\ ~answered
  /\ answered' = TRUE
  /\ tree' = [tree EXCEPT !.other = TRUE]
  /\ UNCHANGED <<dir, live, pc, named, resume, token, then, refused>>

Next ==
  \/ Start \/ Recover \/ Claim \/ Gates \/ Capture \/ Inspect
  \/ Promote \/ SwapOut \/ SwapIn \/ CleanUp
  \/ JournalPromoted \/ Validate \/ Complete \/ Commit
  \/ Undo \/ Rebuild \/ JournalRolledBack \/ Fail
  \/ Crash \/ LeaseRunsOut \/ HumanAnswers

Spec == Init /\ [][Next]_vars

-----------------------------------------------------------------------------
(* Properties.                                                             *)

(* Shapes; a workspace in use exists; the attempts never pass the limit.   *)
TypeOK ==
  /\ tree \in Trees \cup {Gone}
  /\ dir \in [Attempts -> Dirs \cup {None}]
  /\ live \in BOOLEAN
  /\ pc \in Points
  /\ named \in 0..MaxAttempts
  /\ named # 0 => dir[named] # None
  /\ resume \in BOOLEAN
  /\ token \in 0..MaxClaims
  /\ then \in {"claim", "fail"}
  /\ refused \in BOOLEAN
  /\ answered \in BOOLEAN

(* A task that succeeded stands on an accepted attempt, and the project    *)
(* holds exactly that attempt's edits, whatever crashed on the way.        *)
SucceededMeansPromoted ==
  Readable /\ tree.task.status = "SUCCEEDED" =>
    LET a == tree.task.effect
    IN  /\ dir[a].report # None /\ dir[a].report.pass
        /\ tree.body = IF dir[a].edits THEN a ELSE 0

(* No attempt is started from a project that still holds the edits of an   *)
(* attempt nobody accepted.                                                *)
NoAttemptOnUnacceptedTree ==
  \A a \in Attempts : dir[a] # None => dir[a].baseline.body = 0

(* What the transaction journal says of a closed transaction is what the   *)
(* project shows.                                                          *)
StageTellsTree ==
  \A a \in Attempts :
    dir[a] # None /\ Readable =>
      /\ dir[a].stage = "COMMITTED" => tree.task.status = "SUCCEEDED" /\ tree.task.effect = a
      /\ dir[a].stage = "ROLLED_BACK" => tree.body # a

(* Nothing takes a success back, but the transaction that made it, when it *)
(* cannot journal COMMITTED: neither a recovery, however often the process *)
(* dies, nor a lease that ran out, nor the charge of a failure.            *)
SuccessNeverUndone ==
  [][Readable /\ tree.task.status = "SUCCEEDED" =>
       \/ tree' # Gone /\ tree'.task = tree.task
       \/ pc = "undo" /\ then = "fail" /\ IOFaults]_vars

(* acceptance_executor.py, recover_attempt_transaction: "Recover a process *)
(* interrupted after promotion and before commit."                         *)
RecoversAfterPromotion == refused => dir[named].stage # "PROMOTED"

(* docs/agent-runtime-guide.md, line 72: a concurrent change is a baseline *)
(* conflict and is never overwritten.                                      *)
ConcurrentChangeKept == answered /\ Readable => tree.other
=============================================================================
