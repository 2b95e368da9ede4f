------------------------- MODULE ProductionHandoff -------------------------
(***************************************************************************)
(* What passes between research and production: build_handoff.py and       *)
(* export_handoff.py send a handoff out, import_production_result.py takes *)
(* a result back in, export_feedback_signals.py passes what it says on.    *)
(* Each is one command of a person at a time; it reads the records of      *)
(* ProjectRecords, asks validate.py, and writes several files, each in one *)
(* replacement.  A write may fail, and the process may die between two.    *)
(*                                                                         *)
(* The records are Records[content], which workers rewrite between the     *)
(* commands.  A result is [id, body, handoff], with Bodies[body] what      *)
(* production measured:                                                    *)
(*   [level, gaps, tests: ID -> result, observations: ID -> [about, says], *)
(*    changes: ID -> its own level or "UNSTATED", key of the viewers'      *)
(*    response or None].                                                   *)
(***************************************************************************)
EXTENDS ProjectRecords, SequencesExt, TLC

CONSTANTS
  Records,        \* name -> the records of the project
  Bodies,         \* name -> what a result says
  ResultIds,
  HandoffIds,
  EvidenceIds,    \* of the ledger, in order, as many as a ledger may hold
  Goals,          \* statuses that the project is moved to
  FirstContent, FirstStatus, FirstLog,
  StageDStart,    \* TRUE: of the element route, and passed the Stage D start rule
  MaxRevision, MaxEdits, MaxMoves, MaxTroubles   \* bounds

VARIABLES
  content,        \* name of the records
  files,          \* what the commands write: path -> value
  signals,        \* the exported signals: result ID -> the body they tell, or "none"
  exported,       \* history: what left in a bundle
  call,           \* the command that runs: the writes it has left, and what it puts back
  edits, moves,   \* so far
  troubles        \* failed writes, deaths and losses so far

vars == <<content, files, signals, exported, call, edits, moves, troubles>>

ASSUME ProductionAssumption ==
  /\ FirstContent \in DOMAIN Records
  /\ {MaxRevision, MaxEdits, MaxMoves, MaxTroubles} \subseteq Nat

(* The IDs that _next_id counts up never repeat, and a result is finite.   *)
ASSUME LedgerAssumption ==
  /\ EvidenceIds \in Seq({EvidenceIds[i] : i \in DOMAIN EvidenceIds}) \ {<<>>}
  /\ \A i, j \in DOMAIN EvidenceIds : EvidenceIds[i] = EvidenceIds[j] => i = j
  /\ \A b \in DOMAIN Bodies :
       IsFiniteSet(DOMAIN Bodies[b].tests) /\ IsFiniteSet(DOMAIN Bodies[b].observations) /\ IsFiniteSet(DOMAIN Bodies[b].changes)

(* A project begins without imports.                                       *)
ASSUME FirstLogAssumption ==
  /\ FirstLog \in Seq({FirstLog[i] : i \in DOMAIN FirstLog})
  /\ \A i \in DOMAIN FirstLog :
       /\ FirstLog[i].type # "PRODUCTION_FEEDBACK_IMPORTED"
       /\ \A id \in ResultIds : FirstLog[i].id \notin {<<"IMPORT", id>>, <<"REOPEN", id>>}

c == Records[content]
Values(s) == {s[i] : i \in DOMAIN s}
Ids(ledger) == {ledger[i].id : i \in DOMAIN ledger}
Said(r) == [id |-> r.id, tests |-> Bodies[r.body].tests, observations |-> Bodies[r.body].observations]

NoBundle == [handoff |-> NoHandoff, content |-> "none"]
Idle == [op |-> "none", todo |-> <<>>, undo |-> <<>>, failing |-> FALSE, began |-> <<>>]
Free == call = Idle

(* validate_repository, which every command here asks.                     *)
Valid(f) ==
  /\ RecordsClean(c, Ids(f.evidence), f.manifest)
  /\ HandoffClean(c, Ids(f.evidence), f.handoff)
  /\ LifecycleClean(f.manifest, f.state, f.report, f.log)

-----------------------------------------------------------------------------
(* A command that writes: what it writes, and what it puts back if a write *)
(* fails or validation refuses the whole.                                  *)

Write(path, value) == <<path, value>>
Put(w) == files' = [files EXCEPT ![w[1]] = w[2]]

Begin(op, todo, undo) ==
  call' = [op |-> op, todo |-> todo, undo |-> undo, failing |-> FALSE, began |-> files]

Undo(paths) == [i \in DOMAIN paths |-> Write(paths[i], files[paths[i]])]

WriteNext ==
  /\ ~call.failing /\ call.todo # <<>>
  /\ Put(Head(call.todo))
  /\ exported' = IF call.op = "export" /\ Len(call.todo) = 1 THEN exported \cup {Head(call.todo)[2]} ELSE exported
  /\ call' = [call EXCEPT !.todo = Tail(@)]
  /\ UNCHANGED <<content, signals, edits, moves, troubles>>

WriteFails ==
  /\ ~call.failing /\ call.todo # <<>>
  /\ troubles < MaxTroubles
  /\ troubles' = troubles + 1
  /\ call' = [call EXCEPT !.failing = TRUE]
  /\ UNCHANGED <<content, files, signals, exported, edits, moves>>

(* The last write is followed by validation, except that of a bundle.      *)
Accept ==
  /\ ~call.failing /\ call.op # "none" /\ call.todo = <<>>
  /\ call.op = "export" \/ Valid(files)
  /\ call' = Idle
  /\ UNCHANGED <<content, files, signals, exported, edits, moves, troubles>>

Reject ==
  /\ ~call.failing /\ call.op \in {"build", "import"} /\ call.todo = <<>>
  /\ ~Valid(files)
  /\ call' = [call EXCEPT !.failing = TRUE]
  /\ UNCHANGED <<content, files, signals, exported, edits, moves, troubles>>

PutBack ==
  /\ call.failing /\ call.undo # <<>>
  /\ Put(Head(call.undo))
  /\ call' = [call EXCEPT !.undo = Tail(@)]
  /\ UNCHANGED <<content, signals, exported, edits, moves, troubles>>

Raise ==
  /\ call.failing /\ call.undo = <<>>
  /\ call' = Idle
  /\ UNCHANGED <<content, files, signals, exported, edits, moves, troubles>>

Die ==
  /\ ~Free
  /\ troubles < MaxTroubles
  /\ troubles' = troubles + 1
  /\ call' = Idle
  /\ UNCHANGED <<content, files, signals, exported, edits, moves>>

-----------------------------------------------------------------------------
(* build_handoff.  Its options override what the last handoff says.        *)
BuildHandoff(id, revision, supersedes) ==
  LET previous == files.handoff
      final == IF supersedes = None /\ previous # NoHandoff THEN previous.supersedes ELSE supersedes
      h == Payload(c, files.manifest, id, revision, final)
  IN /\ Free
     /\ Buildable(c, Ids(files.evidence))
     /\ "INCOMPLETE" \in {files.manifest, files.report} => StageDStart
     /\ final # id
     /\ MayReplace(previous, h)
     /\ Begin("build", <<Write("handoff", h)>>, Undo(<<"handoff">>))
     /\ UNCHANGED <<content, files, signals, exported, edits, moves, troubles>>

\* Mutant: a bundle is made without asking validate.py again.
MayExportUnvalidated == files.handoff # NoHandoff

MayExport == Valid(files)

(* The handoff with a copy of the records it names.                        *)
BundleFiles == [handoff |-> files.handoff, content |-> content]

(* export_handoff.  A bundle that differs is replaced with --force only,   *)
(* by removing it first.                                                   *)
ExportHandoff ==
  /\ Free
  /\ MayExport
  /\ files.bundle # BundleFiles
  /\ Begin("export",
           IF files.bundle = NoBundle THEN <<Write("bundle", BundleFiles)>>
           ELSE <<Write("bundle", NoBundle), Write("bundle", BundleFiles)>>,
           <<>>)
  /\ UNCHANGED <<content, files, signals, exported, edits, moves, troubles>>

-----------------------------------------------------------------------------
(* import_production_result.                                               *)

ImpactRank == [NONE |-> 0, MINOR |-> 1, MAJOR |-> 2, CRITICAL |-> 3]

(* The highest of the levels that it states and that its parts imply.      *)
ImpactLevel(b) ==
  LET implied == (IF b.changes # <<>> THEN {"MAJOR"} ELSE {}) \cup (IF b.gaps THEN {"MINOR"} ELSE {})
                   \cup (IF {"FAIL", "BLOCKED"} \cap {b.tests[t] : t \in DOMAIN b.tests} # {} THEN {"MAJOR"} ELSE {})
                   \cup (IF \E t \in DOMAIN b.tests : b.tests[t] = "EXTERNAL_VALIDATION_REQUIRED" THEN {"MINOR"} ELSE {})
      levels == {b.level} \cup implied \cup ({b.changes[x] : x \in DOMAIN b.changes} \ {"UNSTATED"})
  IN CHOOSE l \in levels : \A m \in levels : ImpactRank[m] <= ImpactRank[l]

(* One piece of evidence for each test and each observation, at a location *)
(* that names the result and the source.                                   *)
Sources(r) ==
  {[loc |-> <<r.id, "observations", o>>, hash |-> Bodies[r.body].observations[o].says] : o \in DOMAIN Bodies[r.body].observations}
    \cup {[loc |-> <<r.id, "test_results", t>>, hash |-> Bodies[r.body].tests[t]] : t \in DOMAIN Bodies[r.body].tests}

CandidateRecords(r) ==
  LET new == SetToSeq({s \in Sources(r) : \A e \in Values(files.evidence) : e.loc # s.loc})
  IN [i \in DOMAIN new |-> [id |-> EvidenceIds[Len(files.evidence) + i], loc |-> new[i].loc, hash |-> new[i].hash]]

ChangeRecords(r) ==
  LET b == Bodies[r.body]
      Level(x) == IF b.changes[x] = "UNSTATED" THEN ImpactLevel(b) ELSE b.changes[x]
      new == SetToSeq({x \in DOMAIN b.changes : \A d \in Values(files.changes) : <<d.result, d.source>> # <<r.id, x>>})
  IN [i \in DOMAIN new |->
        [id |-> Len(files.changes) + i, result |-> r.id, source |-> new[i],
         status |-> IF Level(new[i]) = "CRITICAL" THEN "PENDING_HUMAN_APPROVAL" ELSE "PROPOSED"]]

(* The viewers' response goes to a ledger in another repository, where its *)
(* identity and its key occur once.                                        *)
ViewerRecords(r) ==
  IF Bodies[r.body].key = None THEN {} ELSE {[id |-> r.id, key |-> Bodies[r.body].key, body |-> r.body]}
ViewerConflict(r) ==
  \E row \in ViewerRecords(r), old \in Values(files.viewer) : old # row /\ (old.id = row.id \/ old.key = row.key)
ViewerAdditions(r) == SetToSeq(ViewerRecords(r) \ Values(files.viewer))

Audits(id) == {i \in DOMAIN files.log : files.log[i].type = "PRODUCTION_FEEDBACK_IMPORTED" /\ files.log[i].result = id}
Feedback(id) == {i \in DOMAIN files.feedback : files.feedback[i].id = id}
Recorded(r) == \E i \in Feedback(r.id) : files.feedback[i] = r

ReferencesCurrentHandoff(r) == files.handoff = r.handoff /\ r.handoff.status = "READY"

(* What an import refuses, before it has written anything.                 *)
Acceptable(r) ==
  /\ ~ViewerConflict(r)
  /\ Valid(files)
  /\ ReferencesCurrentHandoff(r)
  /\ \A i \in Feedback(r.id) : files.feedback[i] = r
  /\ \A s \in Sources(r), e \in Values(files.evidence) : e.loc = s.loc => e.hash = s.hash
  /\ \A o \in DOMAIN Bodies[r.body].observations : Bodies[r.body].observations[o].about \subseteq DOMAIN c.requirements
  /\ GraphBuilds(c, Ids(files.evidence), files.handoff, {Said(x) : x \in Values(files.feedback)})

CompleteEffect(r) ==
  /\ Recorded(r)
  /\ \E i \in Audits(r.id) : files.log[i].evidence \subseteq Ids(files.evidence) /\ files.log[i].changes \subseteq Ids(files.changes)
  /\ ViewerAdditions(r) = <<>>

Reopens(r) == ImpactLevel(Bodies[r.body]) = "MAJOR" /\ files.manifest # "ANALYZING"
MayReopen(r) == Reopens(r) => "ANALYZING" \in Transitions[files.manifest]

Event(id, type) == [id |-> id, type |-> type, from |-> None, to |-> None, result |-> None, body |-> None,
                    evidence |-> {}, changes |-> {}, reopened |-> FALSE]
MoveEvent(id, to) == [Event(id, "STATE_TRANSITION") EXCEPT !.from = files.manifest, !.to = to]

(* What the run log says of an import.                                     *)
AuditEvent(r) ==
  LET evidence == files.evidence \o CandidateRecords(r)
      changes == files.changes \o ChangeRecords(r)
  IN [Event(<<"IMPORT", r.id>>, "PRODUCTION_FEEDBACK_IMPORTED") EXCEPT
        !.result = r.id, !.body = r.body, !.reopened = Reopens(r),
        !.evidence = {e.id : e \in {e \in Values(evidence) : \E s \in Sources(r) : e.loc = s.loc}},
        !.changes = {d.id : d \in {d \in Values(changes) : d.result = r.id}}]

(* An event is appended unless its ID is in the log.                       *)
Unlogged(e) == IF e.id \in Ids(files.log) THEN <<>> ELSE <<e>>
NewEvents(r) ==
  (IF Reopens(r) THEN Unlogged(MoveEvent(<<"REOPEN", r.id>>, "ANALYZING")) ELSE <<>>) \o Unlogged(AuditEvent(r))

Appended(path, new) == IF new = <<>> THEN <<>> ELSE <<Write(path, files[path] \o new)>>

\* Mutant: the audit event is written before what it tells of.
ImportWritesLogFirst(r) ==
  Appended("log", NewEvents(r))
    \o (IF Reopens(r) THEN <<Write("manifest", "ANALYZING"), Write("state", "ANALYZING")>> ELSE <<>>)
    \o Appended("evidence", CandidateRecords(r))
    \o Appended("changes", ChangeRecords(r))
    \o Appended("feedback", IF Recorded(r) THEN <<>> ELSE <<r>>)
    \o Appended("viewer", ViewerAdditions(r))

ImportWrites(r) ==
  (IF Reopens(r) THEN <<Write("manifest", "ANALYZING"), Write("state", "ANALYZING")>> ELSE <<>>)
    \o Appended("evidence", CandidateRecords(r))
    \o Appended("changes", ChangeRecords(r))
    \o Appended("feedback", IF Recorded(r) THEN <<>> ELSE <<r>>)
    \o Appended("viewer", ViewerAdditions(r))
    \o Appended("log", NewEvents(r))

\* Mutant: the viewers' ledger is not part of the snapshot.
SnapshotOfProject == <<"manifest", "state", "changes", "evidence", "feedback", "log">>

Snapshot == <<"manifest", "state", "changes", "evidence", "feedback", "log", "viewer">>

(* Whether the project says that it has taken the result, and is sound.    *)
Known(r) == Valid(files) /\ Recorded(r) /\ Audits(r.id) # {}

(* Refused, or ALREADY_APPLIED: the import ends without a write.           *)
Refused(r) == ~Acceptable(r) \/ (~CompleteEffect(r) /\ ~MayReopen(r))

ImportResult(r) ==
  /\ Free
  /\ ~Refused(r) /\ ~CompleteEffect(r)
  /\ Len(files.evidence) + Cardinality(Sources(r)) <= Len(EvidenceIds)
  /\ Begin("import", ImportWrites(r), Undo(Snapshot))
  /\ UNCHANGED <<content, files, signals, exported, edits, moves, troubles>>

-----------------------------------------------------------------------------
\* Mutant: the import log alone is taken as proof of the import.
LoadFromFeedbackOnly(id) == Cardinality(Feedback(id)) = 1

(* export_feedback_signals: from one recorded and audited result, in one   *)
(* rename; what is there already is never replaced.                        *)
LoadImportedResult(id) ==
  /\ Cardinality(Feedback(id)) = 1
  /\ Cardinality(Audits(id)) = 1
  /\ \A i \in Feedback(id), j \in Audits(id) : files.feedback[i].body = files.log[j].body

(* Each test it reports is one of the project's, of a requirement that     *)
(* names it.                                                               *)
SignalsResolve(id) ==
  \A i \in Feedback(id) : \A t \in DOMAIN Bodies[files.feedback[i].body].tests :
    t \in DOMAIN c.tests /\ c.tests[t].target \in DOMAIN c.requirements /\ t \in c.requirements[c.tests[t].target].tests

ExportSignals(id) ==
  /\ Free
  /\ LoadImportedResult(id)
  /\ SignalsResolve(id)
  /\ Valid(files)
  /\ signals[id] = "none"
  /\ signals' = [signals EXCEPT ![id] = files.feedback[CHOOSE i \in Feedback(id) : TRUE].body]
  /\ UNCHANGED <<content, files, exported, call, edits, moves, troubles>>

-----------------------------------------------------------------------------
(* What others do between the commands: workers rewrite records, the stage *)
(* machine moves the project (completion with its report), and the viewer  *)
(* repository is checked out at an earlier commit.                         *)
EditRecords ==
  /\ Free
  /\ edits < MaxEdits
  /\ edits' = edits + 1
  /\ content' \in DOMAIN Records \ {content}
  /\ UNCHANGED <<files, signals, exported, call, moves, troubles>>

Completions == {"COMPLETE", "COMPLETE_WITH_GAPS", "INCOMPLETE"}

Advance(to) ==
  /\ Free
  /\ moves < MaxMoves
  /\ moves' = moves + 1
  /\ files.state = files.manifest /\ to \in Transitions[files.manifest]
  /\ files' = [files EXCEPT !.manifest = to, !.state = to, !.report = IF to \in Completions THEN to ELSE @,
                            !.log = Append(@, MoveEvent(<<"MOVE", ToString(moves)>>, to))]
  /\ UNCHANGED <<content, signals, exported, call, edits, troubles>>

CheckOutViewer ==
  /\ Free
  /\ troubles < MaxTroubles
  /\ troubles' = troubles + 1
  /\ files.viewer # <<>>
  /\ files' = [files EXCEPT !.viewer = Front(@)]
  /\ UNCHANGED <<content, signals, exported, call, edits, moves>>

Init ==
  /\ content = FirstContent
  /\ files = [manifest |-> FirstStatus, state |-> FirstStatus, report |-> "NOT_COMPLETED", evidence |-> <<[id |-> EvidenceIds[1], loc |-> <<>>, hash |-> None]>>,
              changes |-> <<>>, feedback |-> <<>>, viewer |-> <<>>, log |-> FirstLog, handoff |-> NoHandoff, bundle |-> NoBundle]
  /\ signals = [id \in ResultIds |-> "none"]
  /\ exported = {}
  /\ call = Idle
  /\ edits = 0 /\ moves = 0 /\ troubles = 0

Results == {[id |-> id, body |-> b, handoff |-> e.handoff] : id \in ResultIds, b \in DOMAIN Bodies, e \in exported}

Next ==
  \/ \E id \in HandoffIds, revision \in 1 .. MaxRevision, supersedes \in HandoffIds \cup {None} : BuildHandoff(id, revision, supersedes)
  \/ ExportHandoff
  \/ \E r \in Results : ImportResult(r)
  \/ \E id \in ResultIds : ExportSignals(id)
  \/ WriteNext \/ WriteFails \/ Accept \/ Reject \/ PutBack \/ Raise \/ Die
  \/ EditRecords \/ CheckOutViewer
  \/ \E to \in Goals : Advance(to)

Spec == Init /\ [][Next]_vars

-----------------------------------------------------------------------------
(* Properties.                                                             *)

\* Production accepts a handoff by its ID and revision: no two bundles that
\* left under the same ones differ, whatever was rebuilt, rolled back or cut
\* short in between.
OneContentPerRevision ==
  \A x, y \in exported : <<x.handoff.id, x.handoff.revision>> = <<y.handoff.id, y.handoff.revision>> => x.handoff = y.handoff

\* What left is what the records of that moment support: every handoff sent
\* out resolves against the records in its own bundle, also after a death
\* between the writing of a handoff and its validation.
BundleStandsAlone ==
  \A x \in exported : HandoffClean(Records[x.content], Ids(files.evidence), x.handoff)

\* An import told of in the run log is there as a whole, at any moment, after
\* deaths, retries and rollbacks: the result once and as audited, its
\* evidence once, its change requests once, its reopening; and no two
\* pieces of evidence share an ID.
ImportedWhole ==
  /\ \A i \in DOMAIN files.log : files.log[i].type = "PRODUCTION_FEEDBACK_IMPORTED" =>
       LET e == files.log[i]
           stored == {j \in DOMAIN files.feedback : files.feedback[j].id = e.result}
           Told(j) == Sources(files.feedback[j])
       IN /\ Cardinality(stored) = 1
          /\ \A j \in stored :
               /\ files.feedback[j].body = e.body
               /\ \A s \in Told(j) : Cardinality({k \in DOMAIN files.evidence : files.evidence[k].loc = s.loc}) = 1
               /\ Cardinality(Told(j)) = Cardinality(e.evidence) /\ e.evidence \subseteq Ids(files.evidence)
               /\ \A x \in DOMAIN Bodies[e.body].changes :
                    Cardinality({k \in DOMAIN files.changes : <<files.changes[k].result, files.changes[k].source>> = <<e.result, x>>}) = 1
          /\ e.reopened => <<"REOPEN", e.result>> \in Ids(files.log)
  /\ Cardinality(Ids(files.evidence)) = Len(files.evidence)

\* An import that a failed write or validation stops leaves every file, the
\* viewers' ledger in the other repository too, as it found it.
FailedImportLeavesNoTrace ==
  [][call.op = "import" /\ call.failing /\ call' = Idle /\ troubles' = troubles => files' = call.began]_vars

\* Signals passed on rest on a result that the project has, unchanged and
\* audited, for ever after.
SignalsBacked ==
  \A id \in ResultIds : signals[id] # "none" =>
    /\ \E i \in DOMAIN files.feedback : files.feedback[i].id = id /\ files.feedback[i].body = signals[id]
    /\ \E i \in DOMAIN files.log : files.log[i].id = <<"IMPORT", id>> /\ files.log[i].body = signals[id]

\* docs/20260811-agentic-art-research-production-handoff-extension-
\* specification.md, section 12: importing the same result ID with the same hash again succeeds.
ReimportSucceeds == Free => \A r \in Results : Known(r) => ~Refused(r)
============================================================================
