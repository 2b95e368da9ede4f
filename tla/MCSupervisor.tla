---------------------------- MODULE MCSupervisor ----------------------------
(***************************************************************************)
(* Small instances of Supervisor.  A lease of a task that ran out          *)
(* MaxExpiries times does not run out again; Chain makes task 2 depend on  *)
(* task 1.  Prompt is a bound on time: a lease does not run out between    *)
(* the claim and the read of the attempts that follows it at once.         *)
(* RivalOnce: the rivals hold a lease once in a behaviour.                 *)
(***************************************************************************)
EXTENDS Supervisor

CONSTANTS Chain, Attempts, MaxExpiries, Prompt

ASSUME BoundsAssumption == Chain \in BOOLEAN /\ Prompt \in BOOLEAN /\ Attempts \in Nat \ {0} /\ MaxExpiries \in Nat

MCDependsOn == [t \in Tasks |-> IF Chain /\ t = 2 THEN {1} ELSE {}]
MCMaxAttempts == [t \in Tasks |-> Attempts]

Bounded ==
  \A t \in Tasks :
    tasks'[t].status = "RUNNING" /\ tasks'[t].lease.left <= 0 => tasks'[t].lease_expiries < MaxExpiries
      /\ ~(Prompt /\ pc' = "record")

RivalOnce ==
  LET held == {t \in Tasks : tasks'[t].status = "RUNNING" /\ tasks'[t].lease.owner # Self}
  IN  Cardinality(held) + Cardinality({r \in retired' : r.owner # Self}) <= 1

MCSpec == Init /\ [][Next /\ Bounded /\ RivalOnce]_vars
MCFairSpec == MCSpec /\ Fairness
=============================================================================
