----------------------------- MODULE ProjectFiles -----------------------------
(***************************************************************************)
(* The files of one project that tell where its research stands, and the   *)
(* commands that write several of them: the stage machine                  *)
(* (state_machine.py), the stopping policy (stopping_policy.py), the run    *)
(* log (log_event.py), the search harness (search_harness.py), completion  *)
(* (complete.py), the runtime's _mutate (task_runtime.py), and the answers *)
(* of humans, which call it (human_decisions.py).                          *)
(*                                                                         *)
(* Each command reads the files, decides, and then writes them one by one; *)
(* each write is atomic, the sequence is not.  When a write raises, the    *)
(* command writes back what it had read, again one by one.  A process may  *)
(* die between any two writes.  So a command is a list of writes to do and  *)
(* a list of writes that undo them.                                        *)
(***************************************************************************)
EXTENDS Integers, Sequences, FiniteSets, SequencesExt

CONSTANTS
  Processes,     \* commands that run at the same time
  Questions,     \* numbers of the registered questions
  Goals,         \* statuses a transition is asked for
  Entries,       \* events that log_event appends
  AgentEntries,  \* events that agents and the Stage B engine append
  Requests,      \* search requests: [id, attempt, q, strategy]
  CallerNumbers, \* event numbers that callers of a transition choose
  Decisions,     \* decisions that humans are asked for
  StartStatus,   \* status of the project at the start
  Limits,        \* [answers, strategies, sources, failures, rounds]
  Exclusive,     \* TRUE: commands on one project take turns
  MaxLog,        \* bound: events in the log
  MaxDeaths,     \* bound: processes that die within a command
  MaxFaults      \* bound: writes that raise, and failed validations

NoQuestion == 0       \* the event names no question
NoId == <<"NONE", 0>>
Absent == -1          \* the event lacks the field

Statuses == {"DRAFT", "PLANNED", "COLLECTING", "NORMALIZING", "ANALYZING",
             "DECIDING", "READY_FOR_PRODUCTION", "VALIDATING", "COMPLETE",
             "COMPLETE_WITH_GAPS", "INCOMPLETE", "BLOCKED", "CANCELLED"}
Completed == {"COMPLETE", "COMPLETE_WITH_GAPS", "INCOMPLETE"}
TerminalQuestion == {"ANSWERED", "UNRESOLVED", "BLOCKED", "CANCELLED"}

ASSUME LimitsPositive ==
  Limits \in [{"answers", "strategies", "sources", "failures", "rounds"} -> Nat \ {0}]

\* The registers are finite, a project starts before it is completed, and
\* neither log_event nor an agent writes events of the commands' own types.
ASSUME RegistersAssumption ==
  /\ Questions \subseteq Nat /\ IsFiniteSet(Questions) /\ IsFiniteSet(Requests)
  /\ StartStatus \in Statuses \ Completed
ASSUME EntriesAssumption ==
  \A e \in Entries \cup AgentEntries :
    /\ e = [id |-> e.id, type |-> e.type, q |-> e.q, val |-> e.val]
    /\ e.type \notin {"STATE_TRANSITION", "STOPPING_DECISION", "TASK", "ANSWER"}

VARIABLES
  disk,      \* [manifest, state, questions, report, decisions, log]: the files
  proc,      \* per process: what its command has still to write
  told,      \* history: search requests whose recording returned
  torn,      \* history: a command ended with only some of its files written
  deaths, faults

vars == <<disk, proc, told, torn, deaths, faults>>

----------------------------------------------------------------------------
(* The log. *)

Ids(log) == {log[i].id : i \in DOMAIN log}

NumbersOf(log, family) == {id[2] : id \in {i \in Ids(log) : i[1] = family}}

\* Mutant: every completion has the same event ID.
AlwaysFirst(log, family) == 1

\* The k-th smallest of a set of numbers.
Nth(S, k) == CHOOSE n \in S : Cardinality({m \in S : m <= n}) = k

\* STOP-EVT, COMPLETION and TASK-EVT numbers: the first one not in use, or
\* the first few, when each of several is numbered after those before it.
Unused(log, family, count) == (1 .. Len(log) + count) \ NumbersOf(log, family)
FirstUnused(log, family) == Nth(Unused(log, family, 1), 1)

\* RUN-EVT numbers: one above the highest.
NextNumber(log, family) ==
  1 + CHOOSE n \in NumbersOf(log, family) \cup {0} :
        \A k \in NumbersOf(log, family) : k <= n

\* Mutant: the log is written with the new events only.
WithNewOnly(log, events) == events

\* The log with events added, as the commands that write it whole write it.
With(log, events) == log \o events

TransitionEvent(id, from, to) ==
  [id |-> id, type |-> "STATE_TRANSITION", q |-> NoQuestion, val |-> <<from, to>>]

----------------------------------------------------------------------------
(* The stage machine. *)

Transitions ==
  [s \in Statuses |->
    CASE s = "DRAFT" -> {"PLANNED", "BLOCKED", "CANCELLED"}
      [] s = "PLANNED" -> {"COLLECTING", "BLOCKED", "CANCELLED"}
      [] s = "COLLECTING" -> {"NORMALIZING", "BLOCKED", "CANCELLED"}
      [] s = "NORMALIZING" -> {"ANALYZING", "BLOCKED", "CANCELLED"}
      [] s = "ANALYZING" -> {"DECIDING", "BLOCKED", "CANCELLED"}
      [] s = "DECIDING" ->
           {"READY_FOR_PRODUCTION", "ANALYZING", "BLOCKED", "CANCELLED"}
      [] s = "READY_FOR_PRODUCTION" ->
           {"VALIDATING", "ANALYZING", "BLOCKED", "CANCELLED"}
      [] s = "VALIDATING" ->
           Completed \cup {"ANALYZING", "BLOCKED", "CANCELLED"}
      [] s \in Completed -> {"ANALYZING"}
      [] s = "BLOCKED" -> Statuses \ (Completed \cup {"BLOCKED"})
      [] s = "CANCELLED" -> {}]

IsAllowed(from, to) == to \in Transitions[from]

IsTransition(e) == e.type = "STATE_TRANSITION"

Moves(log) == {i \in DOMAIN log : IsTransition(log[i])}

\* The status after the first n events: where the last move of them led.
StatusAt(initial, log, n) ==
  LET moves == {i \in Moves(log) : i <= n}
  IN  IF moves = {} THEN initial
      ELSE log[CHOOSE i \in moves : \A j \in moves : j <= i].val[2]

\* replay: the status after the log, or "refused".
Replay(initial, log) ==
  IF /\ \A i, j \in DOMAIN log : i # j => log[i].id # log[j].id
     /\ \A i \in Moves(log) : /\ log[i].val[1] = StatusAt(initial, log, i - 1)
                             /\ IsAllowed(log[i].val[1], log[i].val[2])
    THEN StatusAt(initial, log, Len(log))
    ELSE "refused"

\* replay_project starts at the first transition's own from_status.
ReplayProject(d) ==
  LET moves == Moves(d.log)
  IN  Replay(IF moves = {} THEN d.state.status
             ELSE d.log[CHOOSE i \in moves : \A j \in moves : i <= j].val[1],
             d.log)

----------------------------------------------------------------------------
(* The stopping policy. *)

SearchTypes == {"SEARCH_ATTEMPT", "SEARCH_ATTEMPTED"}
SourceTypes == {"SOURCE_REVIEWED", "SOURCE_ACCESSED"}
AnswerTypes == {"ANSWER_FOUND", "QUESTION_ANSWERED"}

\* The events of these types about a question, by their places in the log.
About(q, types, log) ==
  {i \in DOMAIN log : log[i].q = q /\ log[i].type \in types}

Distinct(events, log) == {log[i].val : i \in events}

\* Mutant: all rounds without evidence count, not those at the end.
DryRoundsEver(q, log) ==
  Cardinality({i \in About(q, {"EVIDENCE_ROUND"}, log) : log[i].val = 0})

\* EVIDENCE_ROUND events since the last one that brought anything.
DryRounds(q, log) ==
  LET rounds == About(q, {"EVIDENCE_ROUND"}, log)
  IN  Cardinality({i \in rounds : \A j \in rounds : j >= i => log[j].val = 0})

RepeatedFailure(q, log) ==
  LET failures == About(q, {"SEARCH_FAILED"}, log)
  IN  \E key \in Distinct(failures, log) :
        Cardinality({i \in failures : log[i].val = key}) >= Limits.failures

\* metrics_from_events raises on an event it cannot count.
Countable(e) ==
  \/ e.q = NoQuestion
  \/ e.q \in Questions /\ (e.type = "EVIDENCE_ROUND" => e.val # Absent)
Readable(log) == \A i \in DOMAIN log : Countable(log[i])

\* evaluate_question for an OPEN question.
Verdict(q, log) ==
  LET values(types) == Cardinality(Distinct(About(q, types, log), log))
  IN  IF Cardinality(About(q, AnswerTypes, log)) >= Limits.answers
        THEN "ANSWERED"
      ELSE IF RepeatedFailure(q, log)
        THEN "BLOCKED"
      ELSE IF \/ values(SearchTypes) >= Limits.strategies
              \/ values(SourceTypes) >= Limits.sources
              \/ DryRounds(q, log) >= Limits.rounds
        THEN "UNRESOLVED"
      ELSE "OPEN"

Changed(d) ==
  {q \in Questions : d.questions[q] = "OPEN" /\ Verdict(q, d.log) # "OPEN"}

\* The STOPPING_DECISION events, in the order of the register.
DecisionEvents(d) ==
  LET count == Cardinality(Changed(d))
  IN  [k \in 1 .. count |->
         [id |-> <<"STOP", Nth(Unused(d.log, "STOP", count), k)>>,
          type |-> "STOPPING_DECISION", q |-> Nth(Changed(d), k),
          val |-> Verdict(Nth(Changed(d), k), d.log)]]

----------------------------------------------------------------------------
(* Commands as lists of writes. *)

Idle == [todo |-> <<>>, undo |-> <<>>, mode |-> "idle", locked |-> FALSE,
         acks |-> {}]

W(file, content) == [file |-> file, content |-> content]

\* Mutant: the status is not written back.
BeforeButState(files) ==
  [i \in DOMAIN files |-> IF files[i] = "state" THEN W("check", TRUE)
                          ELSE W(files[i], disk[files[i]])]

\* What restores the files, in the order given.
Before(files) == [i \in DOMAIN files |-> W(files[i], disk[files[i]])]

Put(d, w) ==
  CASE w.file = "check" -> d
    [] w.file = "append" -> [d EXCEPT !.log = Append(@, w.content)]
    [] OTHER -> [d EXCEPT ![w.file] = w.content]

MayStart(p) ==
  /\ proc[p].mode = "idle"
  /\ Exclusive => \A o \in Processes : proc[o].mode = "idle"

Begin(p, writes, restores, locked, acks) ==
  /\ proc' = [proc EXCEPT ![p] = [todo |-> writes, undo |-> restores,
                                  mode |-> "do", locked |-> locked,
                                  acks |-> acks]]
  /\ UNCHANGED <<disk, told, torn, deaths, faults>>

\* transition_project: the caller names the event.
Transition(p, to, n) ==
  LET from == disk.manifest
      id   == <<"CMD", n>>
      log  == With(disk.log, <<TransitionEvent(id, from, to)>>)
  IN  /\ MayStart(p) /\ Len(disk.log) < MaxLog
      /\ from = disk.state.status
      /\ IsAllowed(from, to)
      /\ id \notin Ids(disk.log)
      /\ Begin(p, <<W("manifest", to),
                    W("state", [disk.state EXCEPT !.status = to, !.last = id]),
                    W("log", log)>>,
               Before(<<"manifest", "state", "log">>), FALSE, {})

\* apply_project of the stopping policy.
ApplyStopping(p) ==
  LET events == DecisionEvents(disk)
      status == [q \in Questions |-> IF q \in Changed(disk)
                                       THEN Verdict(q, disk.log)
                                       ELSE disk.questions[q]]
  IN  /\ MayStart(p) /\ Readable(disk.log)
      /\ events # <<>> /\ Len(disk.log) + Len(events) <= MaxLog
      /\ Begin(p, <<W("questions", status),
                    W("state", [disk.state EXCEPT !.last = Last(events).id]),
                    W("log", With(disk.log, events))>>,
               Before(<<"questions", "state", "log">>), FALSE, {})

\* evaluate_project of complete.py: one core check is about the questions;
\* what the other checks find is a choice.
Outcome(core, quality, rest) ==
  IF ~(core /\ \A q \in Questions : disk.questions[q] \in TerminalQuestion)
    THEN "BLOCKED"
  ELSE IF ~quality THEN "INCOMPLETE"
  ELSE IF rest THEN "COMPLETE" ELSE "COMPLETE_WITH_GAPS"

\* complete_project: the report and three more files, then a validation of
\* the repository, whose findings undo all of it.
Complete(p, core, quality, rest) ==
  LET from == disk.manifest
      to   == Outcome(core, quality, rest)
      id   == <<"COMPLETION", FirstUnused(disk.log, "COMPLETION")>>
      log  == With(disk.log, <<TransitionEvent(id, from, to)>>)
  IN  /\ MayStart(p) /\ Len(disk.log) < MaxLog
      /\ from = disk.state.status
      /\ from \in Completed \cup {"VALIDATING"}
      /\ ~(from \in Completed /\ from = to)
      /\ IsAllowed(from, to)
      /\ Begin(p, <<W("manifest", to),
                    W("state", [disk.state EXCEPT !.status = to, !.last = id]),
                    W("report", to), W("log", log), W("check", TRUE)>>,
               Before(<<"manifest", "state", "report", "log">>), FALSE, {})

\* append_event: checked, numbered and appended, with no lock and no undo.
LogEvent(p, e, family) ==
  /\ MayStart(p) /\ Len(disk.log) < MaxLog
  /\ Begin(p, <<W("append", [e EXCEPT !.id =
                               <<family, NextNumber(disk.log, family)>>])>>,
           <<>>, FALSE, {})

\* Mutant: the log is written before the state.
MutateWritesLogFirst(state, events) ==
  (IF events = <<>> THEN <<>> ELSE <<W("log", With(disk.log, events))>>)
    \o <<W("state", state)>>

\* _mutate: under the flock, the state and then the log.
MutateWrites(state, events) ==
  <<W("state", state)>>
    \o (IF events = <<>> THEN <<>> ELSE <<W("log", With(disk.log, events))>>)

Mutate(p, state, events, acks) ==
  /\ MayStart(p) /\ \A o \in Processes : ~proc[o].locked
  /\ Len(disk.log) + Len(events) <= MaxLog
  /\ Begin(p, MutateWrites(state, events), Before(<<"state", "log">>), TRUE, acks)

TaskEvent(type, val) ==
  [id |-> <<"TASK", FirstUnused(disk.log, "TASK")>>, type |-> type,
   q |-> NoQuestion, val |-> val]

\* Any operation of the task runtime that is not an answer: the rev-th change
\* of the task records.
TaskOperation(p) ==
  LET rev == disk.state.rev + 1
  IN  Mutate(p, [disk.state EXCEPT !.rev = rev], <<TaskEvent("TASK", rev)>>, {})

\* What an answer to d writes: resolve_human checks it and writes the state
\* and, for an answer that the task does not have yet, the log (what
\* _reconcile finds is in the same writes); then the response is filed.
AnswerWrites(d) ==
  LET state == W("state", [disk.state EXCEPT !.answered = @ \cup {d}])
      log   == W("log", With(disk.log, <<TaskEvent("ANSWER", d)>>))
      filed == W("decisions", disk.decisions \cup {d})
  IN  IF d \in disk.state.answered THEN <<W("check", TRUE), state, filed>>
      ELSE <<W("check", TRUE), state, log, filed>>

\* resolve_request: a decision with a response on file takes no other; what
\* the runtime refuses, and what raises, is undone by what was read first.
ResolveRequest(p, d) ==
  /\ MayStart(p) /\ \A o \in Processes : ~proc[o].locked
  /\ Len(disk.log) < MaxLog
  /\ d \notin disk.decisions
  /\ Begin(p, AnswerWrites(d), Before(<<"state", "log", "decisions">>), TRUE, {})

SearchEvent(r) ==
  [id |-> <<"SEARCH", r>>, type |-> "SEARCH_ATTEMPT", q |-> r.q,
   val |-> r.strategy]

Recorded(log) == {id[2] : id \in {i \in Ids(log) : i[1] = "SEARCH"}}

\* record_search_requests: what is recorded already is not recorded again,
\* and one request in conflict with a recorded one refuses the batch.
RecordSearches(p, batch) ==
  LET conflict(r) == \E o \in Recorded(disk.log) \cup batch :
                       o.id = r.id /\ o # r
      fresh == batch \ Recorded(disk.log)
  IN  /\ \A r \in batch : r.q \in Questions /\ ~conflict(r)
      /\ Mutate(p, disk.state,
                SetToSeq({SearchEvent(r) : r \in fresh}), batch)

----------------------------------------------------------------------------
(* Their writes, one at a time. *)

\* _mutate holds the flock as long as it has one of its files to write.
InMutate(writes) == \E i \in DOMAIN writes : writes[i].file \in {"state", "log"}

WriteNext(p) ==
  /\ proc[p].todo # <<>>
  /\ disk' = Put(disk, Head(proc[p].todo))
  /\ proc' = [proc EXCEPT ![p].todo = Tail(@),
                          ![p].locked = @ /\ InMutate(Tail(proc[p].todo))]
  /\ UNCHANGED <<told, torn, deaths, faults>>

\* The command returns, or, undone, raises.
Return(p) ==
  /\ proc[p].mode # "idle" /\ proc[p].todo = <<>>
  /\ told' = IF proc[p].mode = "do" THEN told \cup proc[p].acks ELSE told
  /\ proc' = [proc EXCEPT ![p] = Idle]
  /\ UNCHANGED <<disk, torn, deaths, faults>>

\* _mutate undoes an answer first, and resolve_request once more, without
\* the flock.  One list of writes stands for both, unless the first fails.
UndoneAgain(r) == r.locked /\ Last(r.undo).file = "decisions"

\* A write raises, or the validation or the runtime refuses: write back what
\* was read.  A write that raises while undoing ends the command, or begins
\* an answer's second undoing.
Raise(p) ==
  /\ proc[p].todo # <<>> /\ faults < MaxFaults
  /\ faults' = faults + 1
  /\ \/ /\ proc[p].mode = "do"
        /\ proc' = [proc EXCEPT ![p].todo = proc[p].undo, ![p].mode = "undo"]
        /\ UNCHANGED torn
     \/ /\ proc[p].mode = "undo" /\ UndoneAgain(proc[p])
        /\ proc' = [proc EXCEPT ![p].todo = proc[p].undo, ![p].locked = FALSE]
        /\ UNCHANGED torn
     \/ /\ proc[p].mode = "undo" /\ ~UndoneAgain(proc[p])
        /\ proc' = [proc EXCEPT ![p] = Idle]
        /\ torn' = TRUE
  /\ UNCHANGED <<disk, told, deaths>>

Die(p) ==
  /\ proc[p].mode # "idle" /\ deaths < MaxDeaths
  /\ deaths' = deaths + 1
  /\ proc' = [proc EXCEPT ![p] = Idle]
  /\ torn' = TRUE
  /\ UNCHANGED <<disk, told, faults>>

Init ==
  /\ disk = [manifest |-> StartStatus,
             state |-> [status |-> StartStatus, last |-> NoId, rev |-> 0,
                        answered |-> {}],
             questions |-> [q \in Questions |-> "OPEN"],
             report |-> "BLOCKED", decisions |-> {}, log |-> <<>>]
  /\ proc = [p \in Processes |-> Idle]
  /\ told = {} /\ torn = FALSE /\ deaths = 0 /\ faults = 0

Command(p) ==
  \/ \E to \in Goals, n \in CallerNumbers : Transition(p, to, n)
  \/ ApplyStopping(p)
  \/ \E core, quality, rest \in BOOLEAN : Complete(p, core, quality, rest)
  \/ \E e \in Entries : LogEvent(p, e, "RUN")
  \/ \E e \in AgentEntries : LogEvent(p, e, "AGENT")
  \/ TaskOperation(p)
  \/ \E d \in Decisions : ResolveRequest(p, d)
  \/ \E batch \in SUBSET Requests \ {{}} : RecordSearches(p, batch)

Next == \E p \in Processes :
          Command(p) \/ WriteNext(p) \/ Return(p) \/ Raise(p) \/ Die(p)

Spec == Init /\ [][Next]_vars

Quiet == \A p \in Processes : proc[p].mode = "idle"

----------------------------------------------------------------------------
(* Properties. *)

\* Whatever was undone on the way, between commands the manifest, the state
\* and the replayed log name the same status, the state's last event is in
\* the log, and a completed project has a report that says so; unless a
\* process died, or failed to undo, within a command (replay_project).
FilesTellOneStatus ==
  (Quiet /\ ~torn) =>
    /\ disk.manifest = disk.state.status
    /\ ReplayProject(disk) = disk.state.status
    /\ disk.state.last = NoId \/ disk.state.last \in Ids(disk.log)
    /\ disk.manifest \in Completed => disk.report = disk.manifest

\* Through retries after deaths and undone commands, no event ID occurs
\* twice, no search request has two records, and no question is decided
\* twice: applying again adds no stopping event.
NothingTwice ==
  \A i, j \in DOMAIN disk.log :
    i # j => LET e == disk.log[i]
                 f == disk.log[j]
             IN  /\ e.id # f.id
                 /\ ~(/\ e.type = "STOPPING_DECISION"
                      /\ f.type = "STOPPING_DECISION" /\ e.q = f.q)
                 /\ ~(/\ e.id[1] = "SEARCH" /\ f.id[1] = "SEARCH"
                      /\ e.id[2].id = f.id[2].id)

\* What a log says of a question, stated without counters: one of the limits
\* is reached, where a dry spell is a run of the last rounds.
ReachedLimit(q, log) ==
  LET rounds   == About(q, {"EVIDENCE_ROUND"}, log)
      failures == About(q, {"SEARCH_FAILED"}, log)
      values(types) == Cardinality(Distinct(About(q, types, log), log))
  IN  \/ Cardinality(About(q, AnswerTypes, log)) >= Limits.answers
      \/ \E K \in SUBSET failures :
           /\ Cardinality(K) >= Limits.failures
           /\ \A i, j \in K : log[i].val = log[j].val
      \/ values(SearchTypes) >= Limits.strategies
      \/ values(SourceTypes) >= Limits.sources
      \/ \E K \in SUBSET rounds :
           /\ Cardinality(K) >= Limits.rounds
           /\ \A i \in K : log[i].val = 0 /\ \A j \in rounds \ K : j < i

\* No question is closed unless the log, up to some point, had reached a
\* limit, and as ANSWERED only with enough answers, in spite of commands
\* that died between the register and the log.
ClosedOnEvidence ==
  \A q \in Questions :
    disk.questions[q] # "OPEN" =>
      /\ \E n \in 0 .. Len(disk.log) : ReachedLimit(q, SubSeq(disk.log, 1, n))
      /\ (disk.questions[q] = "ANSWERED")
           => Cardinality(About(q, AnswerTypes, disk.log)) >= Limits.answers

\* A search whose recording returned stays in the log, whichever commands
\* are undone or die later (record_search_requests: "durably record").
SearchDurable == \A r \in told : r \in Recorded(disk.log)

\* The log never tells of an operation of the task runtime that the state
\* has not, wherever a process dies in _mutate, which leaves the log behind
\* and not ahead, and whatever is undone.  Answers of humans are excepted:
\* AnswersLoggedOnce is about them.
TaskLogBehind ==
  \A i \in DOMAIN disk.log :
    disk.log[i].type = "TASK" => disk.log[i].val <= disk.state.rev

\* PLANS.md, line 782: a command that is cut short while it files an answer
\* finds the single event in the run log again.  So no answer is logged
\* twice; but resolve_request takes the state back before the log, and what
\* dies between them leaves an event of an answer that the task has not.
AnswersLoggedOnce ==
  \A i, j \in DOMAIN disk.log :
    disk.log[i].type = "ANSWER" /\ disk.log[j].type = "ANSWER" /\ i # j
      => disk.log[i].val # disk.log[j].val

\* log_event checks an event "before it is written", so that the stopping
\* policy can count what it wrote.
LoggedIsCountable ==
  \A i \in DOMAIN disk.log : disk.log[i].id[1] = "RUN" => Countable(disk.log[i])
=============================================================================
