--------------------------- MODULE ProjectRecords ---------------------------
(***************************************************************************)
(* The canonical records of a project, and what three programs make of     *)
(* them: validate.py looks for findings, build_handoff.py derives the      *)
(* production handoff, build_graph.py the dependency graph and impact.py   *)
(* what a change reaches.  The three read the same files independently.    *)
(*                                                                         *)
(* A project's records c are a record of functions from IDs:               *)
(*   c.claims        [evidence, supporting]                                *)
(*   c.insights      [claims]                                              *)
(*   c.decisions     [status, medium, insights, evidence, options]         *)
(*   c.options       [decisions]                     (rejected options)    *)
(*   c.hypotheses    [status, decisions, insights, rationale,              *)
(*                    uncertainties: ID -> [severe, plans, outside]]       *)
(*   c.comparisons   [status, hypotheses, axes, recommended]               *)
(*   c.plans         [hypothesis, status, digital, uncertainties, tests,   *)
(*                    tasks: ID -> set of the tasks it depends on]         *)
(*   c.requirements  [priority, status, decisions, tests]                  *)
(*   c.tests         [target]                                              *)
(*   c.contradictions [claims, resolved, resolution]                       *)
(* with c.relationships the set of related pairs of knowledge, c.queue the *)
(* repository's own task queue, c.question the status of the mandatory  *)
(* question, c.blocking whether the completion report has a blocking gap,  *)
(* and c.visual the visual language [medium, techniques, palette,          *)
(* prohibited].  An uncertainty is tested by plans, or outside, if it has  *)
(* an external_validation_reason.  ev is the set of evidence IDs in the    *)
(* ledger, h a handoff or NoHandoff, results the production results        *)
(* imported.                                                               *)
(***************************************************************************)
EXTENDS FiniteSets, Naturals, Sequences

CONSTANT None

NoHandoff == [id |-> None]

Field(rec, name) == [i \in DOMAIN rec |-> rec[i][name]]

(* The nodes that a set of edges leads to from x, x itself only if it is   *)
(* on a cycle: what the depth-first searches of the cycle checks decide.   *)
Reached(edges, x) ==
  LET nodes == {e[1] : e \in edges} \cup {e[2] : e \in edges}
      Grow[n \in 0 .. Cardinality(nodes)] ==
        IF n = 0 THEN {e[2] : e \in {e \in edges : e[1] = x}}
        ELSE Grow[n - 1] \cup {e[2] : e \in {e \in edges : e[1] \in Grow[n - 1]}}
  IN Grow[Cardinality(nodes)]

Cyclic(edges) == \E e \in edges : e[1] \in Reached(edges, e[1])

Pairs(refs) == UNION {{<<i, j>> : j \in refs[i]} : i \in DOMAIN refs}

------------------------------------------------------------------------------
(* What validate.py asks of the records themselves.                        *)

(* The table REFERENCE_FIELDS as the loop over it reads it: lists, and     *)
(* acceptance_test.target_requirement.  The other single references of the *)
(* table (a plan's hypothesis, the recommendation of a comparison) are     *)
(* passed over.                                                            *)
CrossReferences(c, ev) ==
  /\ \A l \in DOMAIN c.claims : c.claims[l].evidence \subseteq ev /\ c.claims[l].supporting \subseteq DOMAIN c.claims
  /\ \A i \in DOMAIN c.insights : c.insights[i].claims \subseteq DOMAIN c.claims
  /\ \A d \in DOMAIN c.decisions :
       /\ c.decisions[d].insights \subseteq DOMAIN c.insights
       /\ c.decisions[d].evidence \subseteq ev
       /\ c.decisions[d].options \subseteq DOMAIN c.options
  /\ \A o \in DOMAIN c.options : c.options[o].decisions \subseteq DOMAIN c.decisions
  /\ \A r \in DOMAIN c.requirements :
       /\ c.requirements[r].decisions \subseteq DOMAIN c.decisions
       /\ c.requirements[r].tests \subseteq DOMAIN c.tests
  /\ \A t \in DOMAIN c.tests : c.tests[t].target \in DOMAIN c.requirements
  /\ \A p \in DOMAIN c.hypotheses :
       /\ c.hypotheses[p].decisions \subseteq DOMAIN c.decisions
       /\ c.hypotheses[p].insights \subseteq DOMAIN c.insights
  /\ \A m \in DOMAIN c.comparisons : c.comparisons[m].hypotheses \subseteq DOMAIN c.hypotheses
  /\ \A q \in DOMAIN c.plans :
       /\ c.plans[q].uncertainties \subseteq UNION {DOMAIN c.hypotheses[p].uncertainties : p \in DOMAIN c.hypotheses}
       /\ c.plans[q].tests \subseteq DOMAIN c.tests

(* A rejected option and its decisions name each other.                    *)
RegistriesAgree(c) ==
  \A o \in DOMAIN c.options, d \in DOMAIN c.decisions : o \in c.decisions[d].options <=> d \in c.options[o].decisions

TerminalStatuses == {"COMPLETE", "COMPLETE_WITH_GAPS", "INCOMPLETE", "BLOCKED", "CANCELLED"}

QuestionsTerminal(c, status) == status \in TerminalStatuses => c.question # "OPEN"

Inactive == {"REJECTED", "INVALIDATED"}

RequirementsTested(c) ==
  /\ \A r \in DOMAIN c.requirements :
       c.requirements[r].priority = "mandatory" /\ c.requirements[r].status \notin Inactive
         => \E t \in c.requirements[r].tests \cap DOMAIN c.tests : c.tests[t].target = r
  /\ \A t \in DOMAIN c.tests :
       c.tests[t].target \in DOMAIN c.requirements => t \in c.requirements[c.tests[t].target].tests

ClaimsAcyclic(c) == ~Cyclic(Pairs(Field(c.claims, "supporting")))

(* From READY_FOR_PRODUCTION on, by the order of the vocabulary, in which  *)
(* every terminal status comes later.                                      *)
ReadyOrLater == {"READY_FOR_PRODUCTION", "VALIDATING"} \cup TerminalStatuses

MediumDecided(c, status) ==
  status \in ReadyOrLater \/ c.visual.medium # None =>
    \E d \in DOMAIN c.decisions :
      /\ {e \in DOMAIN c.decisions : c.decisions[e].medium} = {d}
      /\ c.decisions[d].status = "ADOPTED"
      /\ c.visual.medium \in {d, None}

ConditionStated(c, v, complete) ==
  IF v.applicable
  THEN /\ v.preferred \cap v.prohibited = {}
       /\ \A d \in v.decisions : d \in DOMAIN c.decisions /\ c.decisions[d].status = "ADOPTED"
       /\ complete => v.preferred # {} /\ v.rationale /\ v.decisions # {}
  ELSE /\ v.preferred \cup v.prohibited \cup v.decisions = {}
       /\ complete => v.rationale

(* A technique and a prohibited expression name adopted decisions and      *)
(* known requirements; a technique implements a decision, an insight or a  *)
(* hypothesis.                                                             *)
VisualLanguage(c, status) ==
  LET Sourced(x) == /\ \A d \in x.decisions : d \in DOMAIN c.decisions /\ c.decisions[d].status = "ADOPTED"
                    /\ x.requirements \subseteq DOMAIN c.requirements
  IN /\ MediumDecided(c, status)
     /\ \A t \in c.visual.techniques :
          Sourced(t) /\ t.components \cap (DOMAIN c.decisions \cup DOMAIN c.insights \cup DOMAIN c.hypotheses) # {}
     /\ ConditionStated(c, c.visual.palette, status \in ReadyOrLater \/ c.visual.medium # None)
     /\ \A x \in c.visual.prohibited : Sourced(x)
     /\ status \in ReadyOrLater => c.visual.medium # None /\ c.visual.techniques # {} /\ c.visual.prohibited # {}

(* Relationships join two pieces of knowledge, and a contradiction that is *)
(* resolved says how.                                                      *)
KnowledgeClean(c, ev) ==
  /\ \A e \in c.relationships : e[1] # e[2] /\ {e[1], e[2]} \subseteq ev \cup DOMAIN c.claims
  /\ \A x \in DOMAIN c.contradictions :
       /\ c.contradictions[x].claims \subseteq DOMAIN c.claims
       /\ c.contradictions[x].resolved => c.contradictions[x].resolution

(* The queue of the repository, numbered tasks with 0 for none: a graph of *)
(* tasks without cycles, at most one in progress, ...                      *)
QueueTasks(q) ==
  LET done == {t \in DOMAIN q.tasks : q.tasks[t].status = "DONE"}
  IN /\ \A t \in DOMAIN q.tasks : q.tasks[t].depends \subseteq DOMAIN q.tasks
     /\ ~Cyclic(Pairs(Field(q.tasks, "depends")))
     /\ Cardinality({t \in DOMAIN q.tasks : q.tasks[t].status = "IN_PROGRESS"}) <= 1
     /\ \A t \in DOMAIN q.tasks : q.tasks[t].status \in {"READY", "IN_PROGRESS"} => q.tasks[t].depends \subseteq done

(* ... and a state that names the task in progress, or the lowest one that *)
(* is ready.                                                               *)
QueueNext(q) ==
  LET With(status) == {t \in DOMAIN q.tasks : q.tasks[t].status = status}
      candidates == IF With("IN_PROGRESS") # {} THEN With("IN_PROGRESS") ELSE With("READY")
  IN /\ 1 .. 5 \subseteq DOMAIN q.tasks
     /\ IF candidates = {} THEN q.next = 0 ELSE q.next \in candidates /\ \A t \in candidates : q.next <= t
     /\ q.terminal => With("DONE") = DOMAIN q.tasks
     /\ q.last \in With("DONE") \cup {0}

RecordsClean(c, ev, status) ==
  /\ QueueTasks(c.queue) /\ QueueNext(c.queue)
  /\ KnowledgeClean(c, ev)
  /\ CrossReferences(c, ev)
  /\ RegistriesAgree(c)
  /\ QuestionsTerminal(c, status)
  /\ RequirementsTested(c)
  /\ ClaimsAcyclic(c)
  /\ VisualLanguage(c, status)

------------------------------------------------------------------------------
(* What validate.py asks of the candidates and of the handoff when the     *)
(* workflow mode is PRODUCTION_HANDOFF.                                    *)

HypothesesTraced(c) ==
  /\ DOMAIN c.hypotheses # {}
  /\ \A p \in DOMAIN c.hypotheses : \A d \in c.hypotheses[p].decisions \cap DOMAIN c.decisions :
       c.decisions[d].status = "ADOPTED"

UncertaintiesPlanned(c) ==
  \A p \in DOMAIN c.hypotheses : \A u \in DOMAIN c.hypotheses[p].uncertainties :
    LET x == c.hypotheses[p].uncertainties[u]
    IN /\ x.severe => x.plans # {} \/ x.outside
       /\ \A q \in x.plans : /\ q \in DOMAIN c.plans
                             /\ c.plans[q].hypothesis = p
                             /\ u \in c.plans[q].uncertainties

(* A single candidate says why it is single; several are compared on       *)
(* common axes by one finished comparison of all of them.                  *)
CandidatesCompared(c) ==
  IF Cardinality(DOMAIN c.hypotheses) = 1
  THEN \A p \in DOMAIN c.hypotheses : c.hypotheses[p].rationale
  ELSE \E m \in DOMAIN c.comparisons :
         /\ c.comparisons[m].hypotheses = DOMAIN c.hypotheses
         /\ c.comparisons[m].axes
         /\ c.comparisons[m].status \in {"COMPLETE", "HUMAN_SELECTION_REQUIRED"}

HasDigitalPlan(c, plans) == \E q \in plans \cap DOMAIN c.plans : c.plans[q].digital

TasksAcyclic(c) ==
  \A q \in DOMAIN c.plans :
    /\ \A t \in DOMAIN c.plans[q].tasks : c.plans[q].tasks[t] \subseteq DOMAIN c.plans[q].tasks
    /\ ~Cyclic(Pairs(c.plans[q].tasks))

SelectionConsistent(c, h) ==
  /\ h.selected # None => h.selected \in DOMAIN c.hypotheses \ h.alternatives
  /\ h.alternatives \subseteq DOMAIN c.hypotheses
  /\ h.human = (h.selected = None)

PlansDeclared(c, h) ==
  LET candidates == IF h.selected = None THEN DOMAIN c.hypotheses ELSE {h.selected}
  IN {q \in DOMAIN c.plans : c.plans[q].hypothesis \in candidates /\ c.plans[q].status \notin {"CANCELLED", "FAILED"}}
       \subseteq h.plans

RevisionLawful(h) ==
  /\ h.supersedes # h.id
  /\ h.supersedes # None => h.revision >= 2

RefsResolve(c, ev, h) ==
  /\ h.plans \subseteq DOMAIN c.plans
  /\ h.refs.decisions \subseteq DOMAIN c.decisions
  /\ h.refs.insights \subseteq DOMAIN c.insights
  /\ h.refs.evidence \subseteq ev

RequirementsCopied(c, h) ==
  /\ \A r \in DOMAIN h.requirements :
       /\ r \in DOMAIN c.requirements
       /\ h.requirements[r].priority = c.requirements[r].priority
       /\ h.requirements[r].decisions = c.requirements[r].decisions
       /\ h.requirements[r].tests = c.requirements[r].tests
       /\ \A t \in h.requirements[r].tests : t \in DOMAIN c.tests /\ c.tests[t].target = r
  /\ {r \in DOMAIN c.requirements : c.requirements[r].priority = "mandatory" /\ c.requirements[r].status \notin Inactive}
       \subseteq DOMAIN h.requirements

HandoffClean(c, ev, h) ==
  /\ h # NoHandoff
  /\ HypothesesTraced(c)
  /\ UncertaintiesPlanned(c)
  /\ CandidatesCompared(c)
  /\ HasDigitalPlan(c, h.plans)
  /\ TasksAcyclic(c)
  /\ SelectionConsistent(c, h)
  /\ PlansDeclared(c, h)
  /\ RevisionLawful(h)
  /\ h.status = "READY" => ~h.blocking
  /\ RefsResolve(c, ev, h)
  /\ RequirementsCopied(c, h)

(* project_state_transitions of config/vocabularies.yaml.                  *)
Transitions ==
  LET running == {"DRAFT", "PLANNED", "COLLECTING", "NORMALIZING", "ANALYZING", "DECIDING", "READY_FOR_PRODUCTION", "VALIDATING"}
      stop == {"BLOCKED", "CANCELLED"}
  IN [DRAFT |-> {"PLANNED"} \cup stop,
      PLANNED |-> {"COLLECTING"} \cup stop,
      COLLECTING |-> {"NORMALIZING"} \cup stop,
      NORMALIZING |-> {"ANALYZING"} \cup stop,
      ANALYZING |-> {"DECIDING"} \cup stop,
      DECIDING |-> {"READY_FOR_PRODUCTION", "ANALYZING"} \cup stop,
      READY_FOR_PRODUCTION |-> {"VALIDATING", "ANALYZING"} \cup stop,
      VALIDATING |-> {"COMPLETE", "COMPLETE_WITH_GAPS", "INCOMPLETE", "ANALYZING"} \cup stop,
      COMPLETE |-> {"ANALYZING"},
      COMPLETE_WITH_GAPS |-> {"ANALYZING"},
      INCOMPLETE |-> {"ANALYZING"},
      BLOCKED |-> running \cup {"CANCELLED"},
      CANCELLED |-> {}]

(* The lifecycle: the manifest, the state, the completion report and the   *)
(* transitions of the run log, read in order, tell one story.              *)
LifecycleClean(manifest, state, report, log) ==
  LET moves == {i \in DOMAIN log : log[i].type = "STATE_TRANSITION"}
  IN /\ manifest = state
     /\ manifest \in TerminalStatuses => report = manifest
     /\ \A i, j \in DOMAIN log : i # j => log[i].id # log[j].id
     /\ \A i \in moves : log[i].to \in Transitions[log[i].from]
     /\ \A i, j \in moves : i < j /\ (\A k \in moves : k <= i \/ j <= k) => log[j].from = log[i].to
     /\ \A i \in moves : (\A k \in moves : k <= i) => log[i].to = state

------------------------------------------------------------------------------
(* What build_handoff.py derives from the records.                         *)

ActiveHypotheses(c) == {p \in DOMAIN c.hypotheses : c.hypotheses[p].status \notin {"REJECTED", "ON_HOLD"}}

(* The one recommendation of the finished comparisons, or the one          *)
(* candidate; otherwise a human selects.                                   *)
Selection(c) ==
  LET active == ActiveHypotheses(c)
      recommended == {c.comparisons[m].recommended :
                        m \in {m \in DOMAIN c.comparisons : c.comparisons[m].status = "COMPLETE"}} \cap active
  IN IF Cardinality(recommended) = 1 THEN CHOOSE p \in recommended : TRUE
     ELSE IF Cardinality(active) = 1 THEN CHOOSE p \in active : TRUE
     ELSE None

ActivePlans(c) ==
  {q \in DOMAIN c.plans : c.plans[q].hypothesis \in ActiveHypotheses(c) /\ c.plans[q].status \notin {"CANCELLED", "FAILED"}}

SourceRefs(c) ==
  LET active == ActiveHypotheses(c)
      ds == UNION {c.hypotheses[p].decisions : p \in active}
      is == UNION {c.hypotheses[p].insights : p \in active}
      ls == UNION {c.insights[i].claims : i \in is \cap DOMAIN c.insights}
  IN [decisions |-> ds, insights |-> is, claims |-> ls,
      evidence |-> UNION {c.decisions[d].evidence : d \in ds \cap DOMAIN c.decisions}
                     \cup UNION {c.claims[l].evidence : l \in ls \cap DOMAIN c.claims}]

ActiveRequirements(c) == {r \in DOMAIN c.requirements : c.requirements[r].status \notin Inactive}

(* Everything the builder refuses to guess.                                *)
Buildable(c, ev) ==
  /\ ActiveHypotheses(c) # {}
  /\ \A p \in ActiveHypotheses(c) : c.hypotheses[p].decisions # {} /\ c.hypotheses[p].insights # {}
  /\ SourceRefs(c).decisions \subseteq DOMAIN c.decisions
  /\ SourceRefs(c).insights \subseteq DOMAIN c.insights
  /\ SourceRefs(c).claims \subseteq DOMAIN c.claims
  /\ SourceRefs(c).evidence \subseteq ev
  /\ ActiveRequirements(c) # {}
  /\ \A r \in ActiveRequirements(c) : c.requirements[r].tests \subseteq DOMAIN c.tests
  /\ HasDigitalPlan(c, ActivePlans(c))

IsReady(c, status) ==
  /\ Selection(c) # None
  /\ status \notin {"BLOCKED", "CANCELLED"}
  /\ ~c.blocking
  /\ \A q \in ActivePlans(c) : c.plans[q].status \notin {"BLOCKED", "FAILED"}

Payload(c, status, id, revision, supersedes) ==
  [id |-> id, revision |-> revision, supersedes |-> supersedes,
   status |-> IF IsReady(c, status) THEN "READY" ELSE "DRAFT",
   selected |-> Selection(c),
   alternatives |-> ActiveHypotheses(c) \ {Selection(c)},
   human |-> Selection(c) = None,
   requirements |-> [r \in ActiveRequirements(c) |->
                       [priority |-> c.requirements[r].priority, decisions |-> c.requirements[r].decisions,
                        tests |-> c.requirements[r].tests]],
   plans |-> ActivePlans(c),
   blocking |-> c.blocking,
   refs |-> SourceRefs(c)]

\* Mutant: a superseding handoff may keep the ID and the revision.
MayReplaceSuperseding(previous, h) == previous # NoHandoff /\ previous # h => h.supersedes # None

(* A changed payload needs a new ID or revision, says what it supersedes   *)
(* and increments the revision.                                            *)
MayReplace(previous, h) ==
  previous # NoHandoff /\ previous # h =>
    /\ <<h.id, h.revision>> # <<previous.id, previous.revision>>
    /\ h.supersedes # None
    /\ h.revision > previous.revision

------------------------------------------------------------------------------
(* The edges that build_graph.py asks for; it raises when an end of one is *)
(* not a node.                                                             *)
GraphNodes(c, ev, h, results) ==
  ev \cup DOMAIN c.claims \cup DOMAIN c.contradictions \cup DOMAIN c.insights \cup DOMAIN c.decisions \cup DOMAIN c.options
    \cup DOMAIN c.hypotheses \cup UNION {DOMAIN c.hypotheses[p].uncertainties : p \in DOMAIN c.hypotheses}
    \cup DOMAIN c.comparisons \cup DOMAIN c.plans \cup UNION {DOMAIN c.plans[q].tasks : q \in DOMAIN c.plans}
    \cup DOMAIN c.requirements \cup DOMAIN c.tests \cup {r.id : r \in results}
    \cup ({h.id} \ {None})

Flip(edges) == {<<e[2], e[1]>> : e \in edges}

HandoffEdges(c, h) ==
  IF h = NoHandoff THEN {}
  ELSE {<<x, h.id>> : x \in ({h.selected} \ {None}) \cup h.alternatives \cup h.plans \cup DOMAIN h.requirements
                              \cup UNION {h.requirements[r].tests : r \in DOMAIN h.requirements}
                              \cup h.refs.decisions \cup h.refs.insights \cup h.refs.evidence
                              \cup {m \in DOMAIN c.comparisons :
                                      c.comparisons[m].hypotheses \cap (h.alternatives \cup {h.selected}) # {}}}

(* A result hangs on the tests it reports and, through its observations,   *)
(* on requirements; on its handoff only while that one is current.         *)
ResultEdges(results) ==
  UNION {{<<x, r.id>> : x \in DOMAIN r.tests \cup UNION {r.observations[o].about : o \in DOMAIN r.observations}} : r \in results}

GraphEdges(c, h, results) ==
  Flip(Pairs(Field(c.claims, "evidence"))) \cup Flip(Pairs(Field(c.claims, "supporting")))
    \cup c.relationships \cup Pairs(Field(c.contradictions, "claims"))
    \cup Flip(Pairs(Field(c.insights, "claims")))
    \cup Flip(Pairs(Field(c.decisions, "insights"))) \cup Flip(Pairs(Field(c.decisions, "evidence")))
    \cup Pairs(Field(c.decisions, "options")) \cup Pairs(Field(c.options, "decisions"))
    \cup Flip(Pairs(Field(c.requirements, "decisions")))
    \cup {<<c.tests[t].target, t>> : t \in DOMAIN c.tests}
    \cup Flip(Pairs(Field(c.hypotheses, "decisions"))) \cup Flip(Pairs(Field(c.hypotheses, "insights")))
    \cup Pairs([p \in DOMAIN c.hypotheses |-> DOMAIN c.hypotheses[p].uncertainties])
    \cup Flip(Pairs(Field(c.comparisons, "hypotheses")))
    \cup {<<c.plans[q].hypothesis, q>> : q \in DOMAIN c.plans}
    \cup Flip(Pairs(Field(c.plans, "uncertainties"))) \cup Pairs(Field(c.plans, "tests"))
    \cup UNION {{<<q, t>> : t \in DOMAIN c.plans[q].tasks} \cup Flip(Pairs(c.plans[q].tasks)) : q \in DOMAIN c.plans}
    \cup HandoffEdges(c, h)
    \cup ResultEdges(results)

GraphBuilds(c, ev, h, results) ==
  \A e \in GraphEdges(c, h, results) : {e[1], e[2]} \subseteq GraphNodes(c, ev, h, results)
==============================================================================
