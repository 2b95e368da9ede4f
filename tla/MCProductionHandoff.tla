------------------------ MODULE MCProductionHandoff ------------------------
(* Instances of ProductionHandoff: a small sound project, what workers may *)
(* make of its records, and what production may report.                    *)
EXTENDS ProductionHandoff

Only(id, rec) == id :> rec

Base ==
  [claims |-> Only("CL1", [evidence |-> {"EV1"}, supporting |-> {}]),
   insights |-> Only("IN1", [claims |-> {"CL1"}]),
   decisions |-> Only("DE1", [status |-> "ADOPTED", medium |-> TRUE, insights |-> {"IN1"}, evidence |-> {"EV1"}, options |-> {"RO1"}]),
   options |-> Only("RO1", [decisions |-> {"DE1"}]),
   hypotheses |->
     [p \in {"PH1", "PH2"} |->
        [status |-> "ACTIVE", decisions |-> {"DE1"}, insights |-> {"IN1"}, rationale |-> FALSE,
         uncertainties |-> IF p = "PH1" THEN Only("UN1", [severe |-> TRUE, plans |-> {"PP1"}, outside |-> FALSE])
                           ELSE Only("UN2", [severe |-> TRUE, plans |-> {}, outside |-> TRUE])]],
   comparisons |-> Only("CM1", [status |-> "COMPLETE", hypotheses |-> {"PH1", "PH2"}, axes |-> TRUE, recommended |-> "PH1"]),
   plans |->
     [q \in {"PP1", "PP2"} |->
        [hypothesis |-> IF q = "PP1" THEN "PH1" ELSE "PH2", status |-> "PLANNED", digital |-> TRUE,
         uncertainties |-> IF q = "PP1" THEN {"UN1"} ELSE {}, tests |-> {"AT1"},
         tasks |-> IF q = "PP1" THEN "PT1" :> {} @@ "PT2" :> {"PT1"} ELSE <<>>]],
   requirements |-> Only("RQ1", [priority |-> "mandatory", status |-> "ADOPTED", decisions |-> {"DE1"}, tests |-> {"AT1"}]),
   tests |-> Only("AT1", [target |-> "RQ1"]),
   relationships |-> {<<"EV1", "CL1">>},
   contradictions |-> Only("CX1", [claims |-> {"CL1"}, resolved |-> TRUE, resolution |-> TRUE]),
   queue |-> [tasks |-> [t \in 1 .. 6 |-> [status |-> IF t = 6 THEN "READY" ELSE "DONE", depends |-> IF t = 6 THEN {5} ELSE {}]],
              next |-> 6, last |-> 5, terminal |-> FALSE],
   question |-> "ANSWERED", blocking |-> FALSE,
   visual |-> [medium |-> "DE1",
               techniques |-> {[decisions |-> {"DE1"}, requirements |-> {"RQ1"}, components |-> {"PH1"}]},
               palette |-> [applicable |-> TRUE, preferred |-> {"a"}, prohibited |-> {"b"}, decisions |-> {"DE1"}, rationale |-> TRUE],
               prohibited |-> {[decisions |-> {"DE1"}, requirements |-> {"RQ1"}]}]]

MCRecords ==
  [base |-> Base,
   \* a person has to select
   human |-> [Base EXCEPT !.comparisons = [m \in {"CM1"} |-> [Base.comparisons[m] EXCEPT !.status = "HUMAN_SELECTION_REQUIRED"]]],
   \* a worker withdrew an adopted decision: not sound
   withdrawn |-> [Base EXCEPT !.decisions = [d \in {"DE1"} |-> [Base.decisions[d] EXCEPT !.status = "ON_HOLD"]]],
   \* a candidate and its comparison were deleted, its plan was not
   dropped |-> [Base EXCEPT !.hypotheses = Only("PH1", [Base.hypotheses["PH1"] EXCEPT !.rationale = TRUE]), !.comparisons = <<>>]]

Report == [level |-> "NONE", gaps |-> FALSE, tests |-> Only("AT1", "PASS"), observations |-> <<>>, changes |-> <<>>, key |-> None]
Failure == [Report EXCEPT !.tests = Only("AT1", "FAIL"), !.changes = Only("DV1", "UNSTATED"), !.key = "k",
                          !.observations = Only("OB1", [about |-> {"RQ1"}, says |-> "x"])]

MCBodies ==
  [passed |-> Report, failed |-> Failure,
   critical |-> [Failure EXCEPT !.changes = Only("IC1", "CRITICAL")]]

\* A result that names an acceptance test the project does not have.
MCStray == [stray |-> [Report EXCEPT !.tests = Only("AT9", "PASS")]]

MCEvidence == <<"EV1", "EV2", "EV3", "EV4", "EV5", "EV6">>
MCLog == <<[Event(<<"MOVE", "first">>, "STATE_TRANSITION") EXCEPT !.from = "READY_FOR_PRODUCTION", !.to = "VALIDATING"]>>

(* The IDs of handoffs are only compared: where a list is made of a set,   *)
(* all members are of one result, and so of one handoff.                   *)
Symmetry == Permutations(HandoffIds)
============================================================================
