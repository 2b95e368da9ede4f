--------------------------- MODULE TaskLifecycle ---------------------------
(***************************************************************************)
(* What the task runtime promises to the plan and to its workers, without  *)
(* attempts, leases, clocks or records: each task goes through its life    *)
(* once, over finished dependencies, in the hands of one worker at a time. *)
(* One write may reclaim several tasks and bury several dependents, but it *)
(* starts, finishes or hands back to a human at most one task.             *)
(***************************************************************************)
CONSTANTS Tasks, DependsOn, Workers, None

VARIABLES phase, holder

Phases == {"todo", "active", "asking", "done", "dead"}
vars == <<phase, holder>>

Init ==
  /\ phase = [t \in Tasks |-> "todo"]
  /\ holder = [t \in Tasks |-> None]

(* The task is given to a worker; taken back and given again is one step.  *)
Start(t) ==
  /\ phase[t] \in {"todo", "active"}
  /\ \A d \in DependsOn[t] : phase[d] = "done"
  /\ phase'[t] = "active"
  /\ holder'[t] \in Workers

(* The worker lost the task, or gave it up, or finished it, or asks.       *)
Leave(t) ==
  /\ phase[t] = "active"
  /\ phase'[t] \in {"todo", "done", "asking", "dead"}
  /\ holder'[t] = None

Answered(t) ==
  /\ phase[t] = "asking"
  /\ phase'[t] = "todo"
  /\ holder'[t] = None

Buried(t) ==
  /\ phase[t] = "todo"
  /\ \E d \in DependsOn[t] : phase'[d] = "dead"
  /\ phase'[t] = "dead"
  /\ holder'[t] = None

Same(t) == phase'[t] = phase[t] /\ holder'[t] = holder[t]

Singular(t) == ~Same(t) /\ phase'[t] \in {"active", "done", "asking"}

Next ==
  /\ \A t \in Tasks : Same(t) \/ Start(t) \/ Leave(t) \/ Answered(t) \/ Buried(t)
  /\ \A t, u \in Tasks : Singular(t) /\ Singular(u) => t = u
  /\ \A t \in Tasks : phase'[t] = "todo" => \A d \in DependsOn[t] : phase'[d] # "dead"

Spec == Init /\ [][Next]_vars
=============================================================================
