--------------------------- MODULE MCTaskRuntime ---------------------------
(***************************************************************************)
(* Small instances of TaskRuntime.  MaxExpiries bounds the only counter    *)
(* the code leaves unbounded: a task whose lease expired that often is not *)
(* claimed again.  Crashes switches the crash and restart of workers off   *)
(* for the runs in which only the calls matter: to every other worker a    *)
(* dead one looks like one that makes no call.                             *)
(***************************************************************************)
EXTENDS TaskRuntime, TLC

CONSTANTS Shape, MaxExpiries, Crashes

ASSUME BoundsAssumption == MaxExpiries \in Nat /\ Crashes \in BOOLEAN

(* 1 needs 3 and 3 needs 2, so that a pass over the sorted IDs meets 1 too *)
(* early; 4 runs beside them.                                              *)
Zigzag == [t \in Tasks |-> CASE t = 1 -> {3} [] t = 3 -> {2} [] OTHER -> {}]
MCDependsOn == IF Shape = "zigzag" THEN Zigzag ELSE [t \in Tasks |-> {}]

MCMaxAttempts == [t \in Tasks |-> 2]

Bounded ==
  /\ Crashes \/ alive' = alive
  /\ \A t \in Tasks : tasks'[t].status = "RUNNING" => tasks'[t].lease_expiries < MaxExpiries

Symmetry == Permutations(Workers) \cup Permutations(EffectKeys) \cup Permutations(Requests) \cup Permutations(Responses)

MCSpec == Init /\ [][Next /\ Bounded]_vars
MCFairSpec == MCSpec /\ Fairness
=============================================================================
