-------------------- MODULE AcceptanceTransaction_proofs --------------------
(***************************************************************************)
(* Proofs about AcceptanceTransaction, for every number of attempts and    *)
(* claims, with crashes, lost leases, failing file operations and the      *)
(* concurrent answer.                                                      *)
(*                                                                         *)
(* The invariant says what the trees kept on disk have in common, what the *)
(* journal of the attempt in hand says of the project at each point where  *)
(* the process may be or may have died, and that the other attempts are    *)
(* closed.                                                                 *)
(***************************************************************************)
EXTENDS AcceptanceTransaction, TLAPS

Open == {"PREPARED", "PROMOTED"}
Closed == {None, "ROLLED_BACK"}

(* A tree as an attempt in progress leaves it, without an attempt's edits. *)
RunningTree(tr) == tr \in Trees /\ tr.task.status = "RUNNING" /\ tr.task.attempts \in Attempts
CleanTree(tr) == RunningTree(tr) /\ tr.body = 0

DirOK(d) ==
  /\ d \in Dirs
  /\ CleanTree(d.baseline)
  /\ d.before # None => CleanTree(d.before)
  /\ d.backup # None => CleanTree(d.backup)
  /\ d.changeset # None => RunningTree(d.changeset)
  /\ d.stage \in Open \cup {"COMMITTED"} =>
       d.before # None /\ d.changeset # None /\ d.report # None /\ d.report.pass

DirsOK ==
  /\ dir \in [Attempts -> Dirs \cup {None}]
  /\ \A a \in Attempts : dir[a] # None => DirOK(dir[a])
  /\ \A a \in Attempts : dir[a] # None /\ a # named => dir[a].stage \in Closed

Stage == dir[named].stage
BodyOf(a) == IF dir[a].edits THEN a ELSE 0

(* The task record and the tree, whoever looks at them.                    *)
TreeOK ==
  tree # Gone =>
    /\ tree.task.status = "PENDING" => tree.task.attempts < MaxAttempts
    /\ tree.task.status = "RUNNING" => tree.task.attempts \in Attempts
    /\ tree.body # 0 =>
         tree.body = named /\ dir[named].edits /\ Stage \in Open \cup {"COMMITTED"}
    /\ tree.task.status = "SUCCEEDED" =>
         /\ named # 0
         /\ tree.task.effect = named
         /\ Stage \in {"PROMOTED", "COMMITTED"}
         /\ tree.body = BodyOf(named)
         /\ pc \in {"commit", "undo", "down", "recover", "claim", "ended"}
         /\ pc = "undo" => then = "fail" /\ IOFaults

Before == {"gates", "capture", "inspect", "promote", "swap out"}
After1 == {"clean up", "journal", "validate", "complete"}

(* Where the process is, and what the journal says there.                  *)
PlaceOK ==
  /\ pc \notin {"down", "recover", "claim", "fail", "ended"} => named # 0
  /\ pc \in Before => CleanTree(tree)
  /\ pc \in After1 => RunningTree(tree) /\ tree.body = BodyOf(named)
  /\ pc \in {"gates", "capture", "inspect"} => Stage \in Closed
  /\ pc \in {"capture", "inspect"} => dir[named].report # None /\ dir[named].report.pass
  /\ pc = "inspect" => dir[named].before # None
  /\ pc \in {"promote", "swap out", "swap in", "clean up", "journal"} => Stage = "PREPARED"
  /\ pc \in {"swap out", "swap in", "clean up"} => dir[named].edits
  /\ pc = "swap in" => dir[named].backup # None
  /\ pc \in {"validate", "complete", "commit"} => Stage = "PROMOTED"
  /\ pc \in {"undo", "rebuild", "rolled back"} => Stage \in Open
  /\ pc = "commit" => tree # Gone /\ tree.task.status = "SUCCEEDED"
  /\ pc = "rolled back" => CleanTree(tree)
  /\ pc = "claim" /\ named # 0 => Stage \in Closed \cup {"COMMITTED"}
  /\ named # 0 /\ Stage = "COMMITTED" =>
       /\ tree # Gone /\ tree.task.status = "SUCCEEDED"
       /\ pc \in {"down", "recover", "claim", "ended"}

ScalarsOK ==
  /\ tree \in Trees \cup {Gone}
  /\ live \in BOOLEAN
  /\ pc \in Points
  /\ named \in 0..MaxAttempts
  /\ named # 0 => dir[named] # None
  /\ resume \in BOOLEAN
  /\ token \in 0..MaxClaims
  /\ then \in {"claim", "fail"}
  /\ refused \in BOOLEAN
  /\ answered \in BOOLEAN

IInv == ScalarsOK /\ DirsOK /\ TreeOK /\ PlaceOK

-----------------------------------------------------------------------------
(* One field of one attempt's directory changes.                           *)

LEMMA BaselineField ==
  ASSUME NEW d \in Dirs, NEW v \in Trees, NEW e, e = [d EXCEPT !.baseline = v]
  PROVE  /\ e \in Dirs /\ e.baseline = v
         /\ e.edits = d.edits /\ e.report = d.report /\ e.before = d.before
         /\ e.changeset = d.changeset /\ e.stage = d.stage /\ e.backup = d.backup
  BY DEF Dirs

LEMMA ReportField ==
  ASSUME NEW d \in Dirs, NEW v \in Reports \cup {None}, NEW e, e = [d EXCEPT !.report = v]
  PROVE  /\ e \in Dirs /\ e.report = v
         /\ e.baseline = d.baseline /\ e.edits = d.edits /\ e.before = d.before
         /\ e.changeset = d.changeset /\ e.stage = d.stage /\ e.backup = d.backup
  BY DEF Dirs

LEMMA BeforeField ==
  ASSUME NEW d \in Dirs, NEW v \in Trees \cup {None}, NEW e, e = [d EXCEPT !.before = v]
  PROVE  /\ e \in Dirs /\ e.before = v
         /\ e.baseline = d.baseline /\ e.edits = d.edits /\ e.report = d.report
         /\ e.changeset = d.changeset /\ e.stage = d.stage /\ e.backup = d.backup
  BY DEF Dirs

LEMMA StageField ==
  ASSUME NEW d \in Dirs, NEW v \in Stages \cup {None}, NEW e, e = [d EXCEPT !.stage = v]
  PROVE  /\ e \in Dirs /\ e.stage = v
         /\ e.baseline = d.baseline /\ e.edits = d.edits /\ e.report = d.report /\ e.before = d.before
         /\ e.changeset = d.changeset /\ e.backup = d.backup
  BY DEF Dirs

LEMMA BackupField ==
  ASSUME NEW d \in Dirs, NEW v \in Trees \cup {None}, NEW e, e = [d EXCEPT !.backup = v]
  PROVE  /\ e \in Dirs /\ e.backup = v
         /\ e.baseline = d.baseline /\ e.edits = d.edits /\ e.report = d.report /\ e.before = d.before
         /\ e.changeset = d.changeset /\ e.stage = d.stage
  BY DEF Dirs

LEMMA PutDir ==
  ASSUME DirsOK, NEW d, DirOK(d), named \in Attempts, dir' = [dir EXCEPT ![named] = d], named' = named
  PROVE  /\ DirsOK'
         /\ dir'[named'] = d
  BY AcceptanceAssumption DEF DirsOK, DirOK

(* Everything a step that leaves the directories alone has to show.        *)
LEMMA SameDirs ==
  ASSUME DirsOK, UNCHANGED <<dir, named>>
  PROVE  DirsOK'
  BY DEF DirsOK

-----------------------------------------------------------------------------
(* IInv is inductive: one lemma per step that moves the journal or a tree. *)

(* The attempt in hand: its directory is sound.                            *)
LEMMA InHand ==
  ASSUME IInv, named # 0
  PROVE  named \in Attempts /\ dir[named] # None /\ DirOK(dir[named]) /\ dir[named] \in Dirs
  BY AcceptanceAssumption DEF IInv, ScalarsOK, DirsOK, DirOK, Attempts

LEMMA NoStage == None \notin {"PREPARED", "PROMOTED", "COMMITTED", "ROLLED_BACK"}
  BY AcceptanceAssumption DEF Stages

LEMMA StartIInv == IInv /\ Start => IInv'
  BY SameDirs DEF IInv, Start, Goto, ScalarsOK, TreeOK, PlaceOK, Stage, BodyOf, Points, Before, After1

LEMMA CrashIInv == IInv /\ Crash => IInv'
<1> SUFFICES ASSUME IInv, Crash PROVE IInv'
  OBVIOUS
<1>1. pc' = "down" /\ UNCHANGED <<tree, dir, live, named, resume, token, then, refused, answered>>
  BY DEF Crash, Goto
<1>2. ScalarsOK'
  BY <1>1 DEF IInv, ScalarsOK, Points
<1>3. TreeOK'
  BY <1>1 DEF IInv, TreeOK, Stage, BodyOf
<1>4. PlaceOK'
  BY <1>1 DEF IInv, PlaceOK, Stage, Before, After1
<1> QED
  BY <1>1, <1>2, <1>3, <1>4, SameDirs DEF IInv

LEMMA LeaseRunsOutIInv == IInv /\ LeaseRunsOut => IInv'
<1> SUFFICES ASSUME IInv, LeaseRunsOut PROVE IInv'
  OBVIOUS
<1>1. live' = FALSE /\ UNCHANGED <<tree, dir, pc, named, resume, token, then, refused, answered>>
  BY DEF LeaseRunsOut
<1>2. ScalarsOK'
  BY <1>1 DEF IInv, ScalarsOK
<1>3. TreeOK'
  BY <1>1 DEF IInv, TreeOK, Stage, BodyOf
<1>4. PlaceOK'
  BY <1>1 DEF IInv, PlaceOK, Stage, BodyOf, CleanTree, RunningTree
<1> QED
  BY <1>1, <1>2, <1>3, <1>4, SameDirs DEF IInv

LEMMA GatesIInv == IInv /\ Gates => IInv'
<1> SUFFICES ASSUME IInv, Gates PROVE IInv'
  OBVIOUS
<1>1. pc = "gates" /\ named # 0 /\ Stage \in Closed /\ CleanTree(tree)
      /\ UNCHANGED <<tree, live, named, resume, token, then, refused, answered>>
  BY DEF Gates, IInv, PlaceOK, Before
<1>2. named \in Attempts /\ dir[named] # None /\ DirOK(dir[named]) /\ dir[named] \in Dirs
  BY <1>1, InHand
<1>3. PICK pass \in BOOLEAN, same \in BOOLEAN :
        LET report == [pass |-> pass]
            differs == dir[named].report # None /\ ~(same /\ dir[named].report = report)
        IN  /\ IF differs THEN UNCHANGED dir ELSE Set(named, "report", report)
            /\ pc' = IF differs \/ ~Accepts(report) THEN "fail" ELSE "capture"
  BY DEF Gates
<1> DEFINE report == [pass |-> pass]
           e == [dir[named] EXCEPT !.report = report]
<1>4. CASE UNCHANGED dir /\ pc' = "fail"
  BY <1>1, <1>4, SameDirs
     DEF IInv, ScalarsOK, TreeOK, PlaceOK, Stage, BodyOf, Points, Before, After1, CleanTree, RunningTree, Closed
<1>5. CASE Set(named, "report", report) /\ pc' \in {"fail", "capture"} /\ (pc' = "capture" => report.pass)
  <2>1. report \in Reports /\ report # None
    BY AcceptanceAssumption DEF Reports
  <2> HIDE DEF report
  <2>2. /\ e \in Dirs /\ e.report = report
        /\ e.baseline = dir[named].baseline /\ e.edits = dir[named].edits /\ e.before = dir[named].before
        /\ e.changeset = dir[named].changeset /\ e.stage = dir[named].stage /\ e.backup = dir[named].backup
    BY <1>2, <2>1, ReportField
  <2>3. dir' = [dir EXCEPT ![named] = e]
    BY <1>5 DEF Set
  <2> HIDE DEF e
  <2>4. DirOK(e)
    BY <1>1, <1>2, <2>2, NoStage DEF DirOK, Stage, Closed, Open
  <2>5. DirsOK' /\ dir'[named'] = e /\ named' = named
    BY <1>1, <1>2, <2>3, <2>4, PutDir DEF IInv
  <2>6. e # None
    BY <2>2, AcceptanceAssumption
  <2>7. ScalarsOK'
    BY <1>1, <1>5, <2>5, <2>6 DEF IInv, ScalarsOK, Points
  <2>8. TreeOK'
    BY <1>1, <1>5, <2>2, <2>5 DEF IInv, TreeOK, Stage, BodyOf, CleanTree, RunningTree
  <2>9. PlaceOK'
    BY <1>1, <1>5, <2>1, <2>2, <2>5, NoStage DEF PlaceOK, Stage, BodyOf, Before, After1, Closed, CleanTree, RunningTree
  <2> QED
    BY <2>5, <2>7, <2>8, <2>9 DEF IInv
<1> QED
  BY <1>3, <1>4, <1>5 DEF Accepts

(* What the steps that write a stage of the journal have in common.        *)
LEMMA StageStep ==
  ASSUME IInv, named # 0, NEW v \in Stages, Set(named, "stage", v), named' = named,
         v \in Open \cup {"COMMITTED"} => DirOK([dir[named] EXCEPT !.stage = v])
  PROVE  /\ DirsOK' /\ dir'[named'] # None /\ dir'[named'].stage = v
         /\ dir'[named'].edits = dir[named].edits
<1> DEFINE e == [dir[named] EXCEPT !.stage = v]
<1>1. named \in Attempts /\ dir[named] # None /\ DirOK(dir[named]) /\ dir[named] \in Dirs
  BY InHand
<1>2. /\ e \in Dirs /\ e.stage = v
      /\ e.baseline = dir[named].baseline /\ e.edits = dir[named].edits /\ e.report = dir[named].report
      /\ e.before = dir[named].before /\ e.changeset = dir[named].changeset /\ e.backup = dir[named].backup
  BY <1>1, StageField
<1>3. dir' = [dir EXCEPT ![named] = e]
  BY DEF Set
<1>4. v \in Open \cup {"COMMITTED"} => DirOK(e)
  OBVIOUS
<1> HIDE DEF e
<1>5. DirOK(e)
  BY <1>1, <1>2, <1>4 DEF DirOK
<1>6. e # None
  BY <1>2, AcceptanceAssumption
<1> QED
  BY <1>1, <1>2, <1>3, <1>5, <1>6, PutDir DEF IInv

(* An open transaction stays sound when its stage moves on.                *)
LEMMA StageMovesOn ==
  ASSUME IInv, named # 0, Stage \in Open, NEW v \in Stages
  PROVE  DirOK([dir[named] EXCEPT !.stage = v])
<1> DEFINE e == [dir[named] EXCEPT !.stage = v]
<1>1. DirOK(dir[named]) /\ dir[named] \in Dirs
  BY InHand
<1>2. /\ e \in Dirs /\ e.stage = v
      /\ e.baseline = dir[named].baseline /\ e.edits = dir[named].edits /\ e.report = dir[named].report
      /\ e.before = dir[named].before /\ e.changeset = dir[named].changeset /\ e.backup = dir[named].backup
  BY <1>1, StageField
<1> HIDE DEF e
<1>3. DirOK(e)
  BY <1>1, <1>2 DEF DirOK, Stage, Open
<1> QED
  BY <1>3 DEF e

LEMMA JournalPromotedIInv == IInv /\ JournalPromoted => IInv'
<1> SUFFICES ASSUME IInv, JournalPromoted PROVE IInv'
  OBVIOUS
<1>1. /\ pc = "journal" /\ named # 0 /\ Stage = "PREPARED"
      /\ RunningTree(tree) /\ tree.body = BodyOf(named)
      /\ UNCHANGED <<tree, live, named, resume, token, refused, answered>>
  BY DEF JournalPromoted, IInv, PlaceOK, After1
<1>2. CASE Set(named, "stage", "PROMOTED") /\ pc' = "validate" /\ UNCHANGED then
  <2>1. DirsOK' /\ dir'[named'] # None /\ dir'[named'].stage = "PROMOTED" /\ dir'[named'].edits = dir[named].edits
    BY <1>1, <1>2, StageMovesOn, StageStep DEF Stages, Open
  <2>2. ScalarsOK'
    BY <1>1, <1>2, <2>1 DEF IInv, ScalarsOK, Points
  <2>3. TreeOK'
    BY <1>1, <1>2, <2>1 DEF IInv, TreeOK, Stage, BodyOf, RunningTree, Open
  <2>4. PlaceOK'
    BY <1>1, <1>2, <2>1 DEF PlaceOK, Stage, BodyOf, Before, After1, RunningTree
  <2> QED
    BY <2>1, <2>2, <2>3, <2>4 DEF IInv
<1>3. CASE UNCHANGED dir /\ pc' = "undo" /\ then' = "fail"
  <2>1. ScalarsOK'
    BY <1>1, <1>3 DEF IInv, ScalarsOK, Points
  <2>2. TreeOK'
    BY <1>1, <1>3 DEF IInv, TreeOK, Stage, BodyOf, RunningTree
  <2>3. PlaceOK'
    BY <1>1, <1>3 DEF PlaceOK, Stage, Before, After1, Open
  <2> QED
    BY <1>1, <1>3, <2>1, <2>2, <2>3, SameDirs DEF IInv
<1> QED
  BY <1>2, <1>3 DEF JournalPromoted, Goto, Raise

LEMMA CommitIInv == IInv /\ Commit => IInv'
<1> SUFFICES ASSUME IInv, Commit PROVE IInv'
  OBVIOUS
<1>1. /\ pc = "commit" /\ named # 0 /\ Stage = "PROMOTED"
      /\ tree # Gone /\ tree.task.status = "SUCCEEDED" /\ tree.body = BodyOf(named)
      /\ UNCHANGED <<tree, live, named, resume, token, refused, answered>>
  BY DEF Commit, IInv, PlaceOK, TreeOK
<1>2. CASE Set(named, "stage", "COMMITTED") /\ pc' = "recover" /\ UNCHANGED then
  <2>1. DirsOK' /\ dir'[named'] # None /\ dir'[named'].stage = "COMMITTED" /\ dir'[named'].edits = dir[named].edits
    BY <1>1, <1>2, StageMovesOn, StageStep DEF Stages, Open
  <2>2. ScalarsOK'
    BY <1>1, <1>2, <2>1 DEF IInv, ScalarsOK, Points
  <2>3. TreeOK'
    BY <1>1, <1>2, <2>1 DEF IInv, TreeOK, Stage, BodyOf
  <2>4. PlaceOK'
    BY <1>1, <1>2, <2>1 DEF PlaceOK, Stage, Before, After1
  <2> QED
    BY <2>1, <2>2, <2>3, <2>4 DEF IInv
<1>3. CASE IOFaults /\ UNCHANGED dir /\ pc' = "undo" /\ then' = "fail"
  <2>1. ScalarsOK'
    BY <1>1, <1>3 DEF IInv, ScalarsOK, Points
  <2>2. TreeOK'
    BY <1>1, <1>3 DEF IInv, TreeOK, Stage, BodyOf
  <2>3. PlaceOK'
    BY <1>1, <1>3 DEF PlaceOK, Stage, Before, After1, Open
  <2> QED
    BY <1>1, <1>3, <2>1, <2>2, <2>3, SameDirs DEF IInv
<1> QED
  BY <1>2, <1>3 DEF Commit, Goto, Raise

LEMMA JournalRolledBackIInv == IInv /\ JournalRolledBack => IInv'
<1> SUFFICES ASSUME IInv, JournalRolledBack PROVE IInv'
  OBVIOUS
<1>1. /\ pc = "rolled back" /\ named # 0 /\ Stage \in Open /\ CleanTree(tree)
      /\ Set(named, "stage", "ROLLED_BACK") /\ pc' = then /\ then \in {"claim", "fail"}
      /\ UNCHANGED <<tree, live, named, resume, token, then, refused, answered>>
  BY DEF JournalRolledBack, Goto, IInv, ScalarsOK, PlaceOK
<1>2. DirsOK' /\ dir'[named'] # None /\ dir'[named'].stage = "ROLLED_BACK" /\ dir'[named'].edits = dir[named].edits
  BY <1>1, StageMovesOn, StageStep DEF Stages
<1>3. ScalarsOK'
  BY <1>1, <1>2 DEF IInv, ScalarsOK, Points
<1>4. TreeOK'
  BY <1>1, <1>2 DEF IInv, TreeOK, CleanTree, RunningTree
<1>5. PlaceOK'
  BY <1>1, <1>2 DEF PlaceOK, Stage, Before, After1, Closed
<1> QED
  BY <1>2, <1>3, <1>4, <1>5 DEF IInv

-----------------------------------------------------------------------------
(* Steps that leave the directories alone.                                 *)

LEMMA TaskStatus ==
  ASSUME NEW tr \in Trees, NEW v \in {"PENDING", "RUNNING", "SUCCEEDED", "FAILED"},
         NEW e, e = [tr EXCEPT !.task.status = v]
  PROVE  e \in Trees /\ e.task.status = v /\ e.task.attempts = tr.task.attempts /\ e.body = tr.body
  BY DEF Trees, TaskRecords

LEMMA OtherAnswered ==
  ASSUME NEW tr \in Trees, NEW e, e = [tr EXCEPT !.other = TRUE]
  PROVE  e \in Trees /\ e.task = tr.task /\ e.body = tr.body
  BY DEF Trees

LEMMA ValidateIInv == IInv /\ Validate => IInv'
<1> SUFFICES ASSUME IInv, Validate PROVE IInv'
  OBVIOUS
<1>1. /\ pc = "validate" /\ named # 0 /\ Stage = "PROMOTED"
      /\ RunningTree(tree) /\ tree.body = BodyOf(named)
      /\ UNCHANGED <<tree, dir, live, named, resume, token, refused, answered>>
      /\ \/ pc' = "complete" /\ UNCHANGED then
         \/ pc' = "undo" /\ then' = "fail"
  BY DEF Validate, Goto, Raise, IInv, PlaceOK, After1
<1>2. ScalarsOK'
  BY <1>1 DEF IInv, ScalarsOK, Points
<1>3. TreeOK'
  BY <1>1 DEF IInv, TreeOK, Stage, BodyOf, RunningTree
<1>4. PlaceOK'
  BY <1>1 DEF PlaceOK, Stage, BodyOf, Before, After1, Open, RunningTree
<1> QED
  BY <1>1, <1>2, <1>3, <1>4, SameDirs DEF IInv

LEMMA CompleteIInv == IInv /\ Complete => IInv'
<1> SUFFICES ASSUME IInv, Complete PROVE IInv'
  OBVIOUS
<1>1. /\ pc = "complete" /\ named # 0 /\ Stage = "PROMOTED"
      /\ RunningTree(tree) /\ tree.body = BodyOf(named)
      /\ UNCHANGED <<dir, live, named, resume, token, refused, answered>>
  BY DEF Complete, IInv, PlaceOK, After1
<1>2. named \in Attempts
  BY <1>1, InHand
<1>3. CASE tree' = [tree EXCEPT !.task.status = "SUCCEEDED", !.task.effect = named] /\ pc' = "commit" /\ UNCHANGED then
  <2>1. tree' \in Trees /\ tree'.task.status = "SUCCEEDED" /\ tree'.task.effect = named /\ tree'.body = tree.body
    <3>1. tree \in Trees
      BY <1>1 DEF RunningTree
    <3> QED
      BY <1>2, <1>3, <3>1 DEF Trees, TaskRecords
  <2>2. tree # Gone /\ tree' # Gone
    BY <1>1, <2>1, AcceptanceAssumption DEF RunningTree
  <2>3. ScalarsOK'
    BY <1>1, <1>3, <2>1 DEF IInv, ScalarsOK, Points
  <2>4. TreeOK'
    BY <1>1, <1>3, <2>1, <2>2 DEF IInv, TreeOK, Stage, BodyOf
  <2>5. PlaceOK'
    BY <1>1, <1>3, <2>1, <2>2 DEF PlaceOK, Stage, Before, After1
  <2> QED
    BY <1>1, <2>3, <2>4, <2>5, SameDirs DEF IInv
<1>4. CASE UNCHANGED tree /\ pc' = "undo" /\ then' = "fail"
  <2>1. ScalarsOK'
    BY <1>1, <1>4 DEF IInv, ScalarsOK, Points
  <2>2. TreeOK'
    BY <1>1, <1>4 DEF IInv, TreeOK, Stage, BodyOf, RunningTree
  <2>3. PlaceOK'
    BY <1>1, <1>4 DEF PlaceOK, Stage, Before, After1, Open
  <2> QED
    BY <1>1, <2>1, <2>2, <2>3, SameDirs DEF IInv
<1> QED
  BY <1>3, <1>4 DEF Complete, Goto, Raise

LEMMA UndoIInv == IInv /\ Undo => IInv'
<1> SUFFICES ASSUME IInv, Undo PROVE IInv'
  OBVIOUS
<1>1. /\ pc = "undo" /\ named # 0 /\ Stage \in Open /\ tree' = Gone /\ pc' = "rebuild"
      /\ UNCHANGED <<dir, live, named, resume, token, then, refused, answered>>
  BY DEF Undo, Goto, IInv, PlaceOK
<1>2. ScalarsOK'
  BY <1>1 DEF IInv, ScalarsOK, Points
<1>3. TreeOK'
  BY <1>1 DEF TreeOK
<1>4. PlaceOK'
  BY <1>1 DEF PlaceOK, Stage, Before, After1, Open
<1> QED
  BY <1>1, <1>2, <1>3, <1>4, SameDirs DEF IInv

(* A clean tree satisfies what is asked of a tree anywhere.                *)
LEMMA CleanTreeOK ==
  ASSUME CleanTree(tree'), named' = named, dir' = dir
  PROVE  TreeOK' /\ tree' # Gone /\ tree' \in Trees
  BY AcceptanceAssumption DEF TreeOK, CleanTree, RunningTree

LEMMA RebuildIInv == IInv /\ Rebuild => IInv'
<1> SUFFICES ASSUME IInv, Rebuild PROVE IInv'
  OBVIOUS
<1>1. /\ pc = "rebuild" /\ named # 0 /\ Stage \in Open /\ tree' = dir[named].before /\ pc' = "rolled back"
      /\ UNCHANGED <<dir, live, named, resume, token, then, refused, answered>>
  BY DEF Rebuild, Goto, IInv, PlaceOK
<1>2. CleanTree(tree')
  BY <1>1, InHand DEF DirOK, Stage
<1>3. TreeOK' /\ tree' # Gone /\ tree' \in Trees
  BY <1>1, <1>2, CleanTreeOK
<1>4. ScalarsOK'
  BY <1>1, <1>3 DEF IInv, ScalarsOK, Points
<1>5. PlaceOK'
  BY <1>1, <1>2 DEF PlaceOK, Stage, Before, After1, Open
<1> QED
  BY <1>1, <1>3, <1>4, <1>5, SameDirs DEF IInv

LEMMA FailIInv == IInv /\ Fail => IInv'
<1> SUFFICES ASSUME IInv, Fail PROVE IInv'
  OBVIOUS
<1>1. /\ pc = "fail" /\ tree # Gone /\ tree \in Trees
      /\ UNCHANGED <<dir, live, named, resume, token, then, refused, answered>>
  BY DEF Fail, Readable, IInv, ScalarsOK
<1>2. CASE /\ tree.task.status = "RUNNING"
           /\ tree' = [tree EXCEPT !.task.status = IF MayRetry(tree.task) THEN "PENDING" ELSE "FAILED"]
           /\ pc' = "recover"
  <2> DEFINE v == IF MayRetry(tree.task) THEN "PENDING" ELSE "FAILED"
  <2>1. v \in {"PENDING", "FAILED"} /\ (v = "PENDING" => tree.task.attempts < MaxAttempts)
    BY DEF MayRetry
  <2> HIDE DEF v
  <2>2. tree' \in Trees /\ tree'.task.status = v /\ tree'.task.attempts = tree.task.attempts /\ tree'.body = tree.body
    BY <1>1, <1>2, <2>1, TaskStatus DEF v
  <2>3. tree' # Gone
    BY <2>2, AcceptanceAssumption
  <2>4. ScalarsOK'
    BY <1>1, <1>2, <2>2 DEF IInv, ScalarsOK, Points
  <2>5. TreeOK'
    BY <1>1, <1>2, <2>1, <2>2, <2>3 DEF IInv, TreeOK, Stage
  <2>6. PlaceOK'
    BY <1>1, <1>2, <2>1, <2>2, <2>3 DEF IInv, PlaceOK, Stage, Before, After1
  <2> QED
    BY <1>1, <2>4, <2>5, <2>6, SameDirs DEF IInv
<1>3. CASE UNCHANGED tree /\ pc' = "ended"
  <2>1. ScalarsOK'
    BY <1>1, <1>3 DEF IInv, ScalarsOK, Points
  <2>2. TreeOK'
    BY <1>1, <1>3 DEF IInv, TreeOK, Stage, BodyOf
  <2>3. PlaceOK'
    BY <1>1, <1>3 DEF IInv, PlaceOK, Stage, Before, After1
  <2> QED
    BY <1>1, <1>3, <2>1, <2>2, <2>3, SameDirs DEF IInv
<1> QED
  BY <1>2, <1>3 DEF Fail, HasLease, Goto

LEMMA HumanAnswersIInv == IInv /\ HumanAnswers => IInv'
<1> SUFFICES ASSUME IInv, HumanAnswers PROVE IInv'
  OBVIOUS
<1>1. /\ tree # Gone /\ tree \in Trees /\ answered' = TRUE /\ tree' = [tree EXCEPT !.other = TRUE]
      /\ UNCHANGED <<dir, live, pc, named, resume, token, then, refused>>
  BY DEF HumanAnswers, Readable, IInv, ScalarsOK
<1>2. tree' \in Trees /\ tree'.task = tree.task /\ tree'.body = tree.body
  BY <1>1, OtherAnswered
<1>3. tree' # Gone
  BY <1>2, AcceptanceAssumption
<1>4. ScalarsOK'
  BY <1>1, <1>2 DEF IInv, ScalarsOK
<1>5. TreeOK'
  BY <1>1, <1>2, <1>3 DEF IInv, TreeOK, Stage, BodyOf
<1>6. PlaceOK'
  BY <1>1, <1>2, <1>3 DEF IInv, PlaceOK, Stage, BodyOf, CleanTree, RunningTree
<1> QED
  BY <1>1, <1>4, <1>5, <1>6, SameDirs DEF IInv

LEMMA PromoteIInv == IInv /\ Promote => IInv'
<1> SUFFICES ASSUME IInv, Promote PROVE IInv'
  OBVIOUS
<1>1. /\ pc = "promote" /\ named # 0 /\ Stage = "PREPARED" /\ CleanTree(tree)
      /\ UNCHANGED <<tree, dir, live, named, resume, token, then, refused, answered>>
  BY DEF Promote, IInv, PlaceOK, Before
<1>2. \/ pc' = "fail"
      \/ pc' = "journal" /\ ~dir[named].edits
      \/ pc' = "swap out" /\ dir[named].edits
  <2>1. dir[named].edits \in BOOLEAN
    BY <1>1, InHand DEF Dirs
  <2>2. CASE tree # dir[named].baseline
    BY <2>2 DEF Promote
  <2>3. CASE tree = dir[named].baseline /\ ~dir[named].edits
    BY <2>3 DEF Promote
  <2>4. CASE tree = dir[named].baseline /\ dir[named].edits
    BY <2>4 DEF Promote
  <2> QED
    BY <2>1, <2>2, <2>3, <2>4
<1>3. ScalarsOK'
  BY <1>1, <1>2 DEF IInv, ScalarsOK, Points
<1>4. TreeOK' /\ tree' # Gone
  BY <1>1, CleanTreeOK
<1>5. PlaceOK'
  BY <1>1, <1>2 DEF PlaceOK, Stage, BodyOf, Before, After1, CleanTree, RunningTree
<1> QED
  BY <1>1, <1>3, <1>4, <1>5, SameDirs DEF IInv

(* _recover_journal_attempt: closed transactions are left alone, an open   *)
(* one is restored only from a tree that no success stands on.             *)
LEMMA RecoverIInv == IInv /\ Recover => IInv'
<1> SUFFICES ASSUME IInv, Recover PROVE IInv'
  OBVIOUS
<1>1. pc = "recover" /\ UNCHANGED <<tree, dir, live, named, resume, token, answered>>
  BY DEF Recover
<1>2. CASE (named = 0 \/ dir[named].stage \in {None, "COMMITTED", "ROLLED_BACK"})
           /\ pc' = "claim" /\ UNCHANGED <<then, refused>>
  <2>1. ScalarsOK'
    BY <1>1, <1>2 DEF IInv, ScalarsOK, Points
  <2>2. TreeOK'
    BY <1>1, <1>2 DEF IInv, TreeOK, Stage, BodyOf
  <2>3. PlaceOK'
    BY <1>1, <1>2 DEF IInv, PlaceOK, Stage, Before, After1, Closed
  <2> QED
    BY <1>1, <2>1, <2>2, <2>3, SameDirs DEF IInv
<1>3. ASSUME named # 0, dir[named].stage \notin {None, "COMMITTED", "ROLLED_BACK"}
      PROVE  IInv'
  <2> DEFINE verdict == IF Readable THEN Verdict(dir[named].stage, tree, dir[named].changeset, dir[named].baseline)
                        ELSE "refuse"
  <2>1. DirOK(dir[named]) /\ dir[named] \in Dirs
    BY <1>3, InHand
  <2>2. Stage \in Open
    BY <1>3, <2>1 DEF Dirs, Stages, Open, Stage
  <2>3. RunningTree(dir[named].changeset) /\ CleanTree(dir[named].baseline)
    BY <2>1, <2>2 DEF DirOK, Stage
  <2>4. /\ verdict \in {"restore", "keep", "refuse"}
        /\ verdict = "restore" => RunningTree(tree)
        /\ verdict = "keep" => CleanTree(tree)
    BY <2>3 DEF Verdict, CleanTree
  <2>5. /\ pc' = CASE verdict = "restore" -> "undo"
                   [] verdict = "keep" -> "rolled back"
                   [] verdict = "refuse" -> "down"
        /\ then' = "claim"
        /\ refused' = (refused \/ verdict = "refuse")
    BY <1>3 DEF Recover
  <2> HIDE DEF verdict
  <2>6. \/ pc' = "undo" /\ RunningTree(tree)
        \/ pc' = "rolled back" /\ CleanTree(tree)
        \/ pc' = "down"
    BY <2>4, <2>5
  <2>7. refused' \in BOOLEAN
    BY <2>5 DEF IInv, ScalarsOK
  <2>8. ScalarsOK'
    BY <1>1, <2>5, <2>6, <2>7 DEF IInv, ScalarsOK, Points
  <2>9. TreeOK'
    BY <1>1, <2>6 DEF IInv, TreeOK, Stage, BodyOf, RunningTree, CleanTree
  <2>10. PlaceOK'
    BY <1>1, <1>3, <2>2, <2>6 DEF IInv, PlaceOK, Stage, Before, After1, Open, CleanTree, RunningTree
  <2> QED
    BY <1>1, <2>8, <2>9, <2>10, SameDirs DEF IInv
<1> QED
  BY <1>2, <1>3 DEF Recover, Goto

-----------------------------------------------------------------------------
(* Steps that write trees into the directory of the attempt.               *)

LEMMA CaptureIInv == IInv /\ Capture => IInv'
<1> SUFFICES ASSUME IInv, Capture PROVE IInv'
  OBVIOUS
<1> DEFINE e == [dir[named] EXCEPT !.before = tree]
<1>1. /\ pc = "capture" /\ named # 0 /\ Stage \in Closed /\ CleanTree(tree)
      /\ dir[named].report # None /\ dir[named].report.pass
      /\ dir' = [dir EXCEPT ![named] = e] /\ pc' = "inspect"
      /\ UNCHANGED <<tree, live, named, resume, token, then, refused, answered>>
  BY DEF Capture, Set, Goto, IInv, PlaceOK, Before
<1>2. named \in Attempts /\ dir[named] # None /\ DirOK(dir[named]) /\ dir[named] \in Dirs
  BY <1>1, InHand
<1>3. tree \in Trees /\ tree # None
  BY <1>1, AcceptanceAssumption DEF CleanTree, RunningTree
<1>4. /\ e \in Dirs /\ e.before = tree
      /\ e.baseline = dir[named].baseline /\ e.edits = dir[named].edits /\ e.report = dir[named].report
      /\ e.changeset = dir[named].changeset /\ e.stage = dir[named].stage /\ e.backup = dir[named].backup
  BY <1>2, <1>3, BeforeField
<1> HIDE DEF e
<1>5. DirOK(e) /\ e # None
  BY <1>1, <1>2, <1>4, NoStage, AcceptanceAssumption DEF DirOK, Stage, Closed, Open
<1>6. DirsOK' /\ dir'[named'] = e
  BY <1>1, <1>2, <1>5, PutDir DEF IInv
<1>7. ScalarsOK'
  BY <1>1, <1>5, <1>6 DEF IInv, ScalarsOK, Points
<1>8. TreeOK'
  BY <1>1 DEF TreeOK, CleanTree, RunningTree
<1>9. PlaceOK'
  BY <1>1, <1>3, <1>4, <1>6, NoStage DEF PlaceOK, Stage, Before, After1, Closed
<1> QED
  BY <1>6, <1>7, <1>8, <1>9 DEF IInv

(* The tree a promotion leaves is a running tree with the attempt's body.  *)
LEMMA AfterTree ==
  ASSUME IInv, named # 0
  PROVE  RunningTree(After(named)) /\ After(named).body = BodyOf(named)
<1>1. named \in Attempts /\ CleanTree(dir[named].baseline)
  BY InHand DEF DirOK
<1> DEFINE b == dir[named].baseline
<1>2. b \in Trees /\ b.body = 0 /\ b.task.status = "RUNNING" /\ b.task.attempts \in Attempts
  BY <1>1 DEF CleanTree, RunningTree
<1>3. named \in 0..MaxAttempts
  BY DEF IInv, ScalarsOK
<1>4. /\ [b EXCEPT !.body = named] \in Trees
      /\ [b EXCEPT !.body = named].body = named
      /\ [b EXCEPT !.body = named].task = b.task
  BY <1>2, <1>3 DEF Trees
<1>5. After(named) = IF dir[named].edits THEN [b EXCEPT !.body = named] ELSE b
  BY DEF After
<1> HIDE DEF b
<1> QED
  BY <1>2, <1>4, <1>5 DEF RunningTree, BodyOf

LEMMA InspectIInv == IInv /\ Inspect => IInv'
<1> SUFFICES ASSUME IInv, Inspect PROVE IInv'
  OBVIOUS
<1>1. /\ pc = "inspect" /\ named # 0 /\ Stage \in Closed /\ CleanTree(tree)
      /\ dir[named].report # None /\ dir[named].report.pass /\ dir[named].before # None
      /\ UNCHANGED <<tree, live, named, resume, token, then, refused, answered>>
  BY DEF Inspect, IInv, PlaceOK, Before
<1>2. named \in Attempts /\ dir[named] # None /\ DirOK(dir[named]) /\ dir[named] \in Dirs
  BY <1>1, InHand
<1>3. TreeOK'
  BY <1>1 DEF TreeOK, CleanTree, RunningTree
<1>4. CASE dir' = [dir EXCEPT ![named].changeset = After(named), ![named].stage = "PREPARED"] /\ pc' = "promote"
  <2> DEFINE c == After(named)
             e == [dir[named] EXCEPT !.changeset = c, !.stage = "PREPARED"]
  <2>1. RunningTree(c) /\ c \in Trees /\ c # None
    BY <1>1, AfterTree, AcceptanceAssumption DEF RunningTree
  <2>2. dir' = [dir EXCEPT ![named] = e]
    BY <1>2, <1>4 DEF IInv, DirsOK
  <2> HIDE DEF c
  <2>3. /\ e \in Dirs /\ e.changeset = c /\ e.stage = "PREPARED"
        /\ e.baseline = dir[named].baseline /\ e.edits = dir[named].edits /\ e.report = dir[named].report
        /\ e.before = dir[named].before /\ e.backup = dir[named].backup
    BY <1>2, <2>1 DEF Dirs, Stages
  <2> HIDE DEF e
  <2>4. DirOK(e) /\ e # None
    BY <1>1, <1>2, <2>1, <2>3, AcceptanceAssumption DEF DirOK
  <2>5. DirsOK' /\ dir'[named'] = e
    BY <1>1, <1>2, <2>2, <2>4, PutDir DEF IInv
  <2>6. ScalarsOK'
    BY <1>1, <1>4, <2>4, <2>5 DEF IInv, ScalarsOK, Points
  <2>7. PlaceOK'
    BY <1>1, <1>4, <2>3, <2>5 DEF PlaceOK, Stage, Before, After1
  <2> QED
    BY <1>3, <2>5, <2>6, <2>7 DEF IInv
<1>5. CASE UNCHANGED dir /\ pc' = "fail"
  <2>1. ScalarsOK'
    BY <1>1, <1>5 DEF IInv, ScalarsOK, Points
  <2>2. PlaceOK'
    BY <1>1, <1>5, NoStage DEF PlaceOK, Stage, Before, After1, Closed
  <2> QED
    BY <1>1, <1>3, <1>5, <2>1, <2>2, SameDirs DEF IInv
<1> QED
  BY <1>4, <1>5 DEF Inspect, Goto

(* A step that only puts a clean backup into the directory, or takes it    *)
(* out again.                                                              *)
LEMMA BackupStep ==
  ASSUME IInv, named # 0, NEW v \in Trees \cup {None}, v # None => CleanTree(v),
         Set(named, "backup", v), named' = named
  PROVE  /\ DirsOK' /\ dir'[named'] # None
         /\ dir'[named'].backup = v
         /\ dir'[named'].edits = dir[named].edits
         /\ dir'[named'].stage = dir[named].stage
<1> DEFINE e == [dir[named] EXCEPT !.backup = v]
<1>1. named \in Attempts /\ dir[named] # None /\ DirOK(dir[named]) /\ dir[named] \in Dirs
  BY InHand
<1>2. /\ e \in Dirs /\ e.backup = v
      /\ e.baseline = dir[named].baseline /\ e.edits = dir[named].edits /\ e.report = dir[named].report
      /\ e.before = dir[named].before /\ e.changeset = dir[named].changeset /\ e.stage = dir[named].stage
  BY <1>1, BackupField
<1>3. dir' = [dir EXCEPT ![named] = e]
  BY DEF Set
<1> HIDE DEF e
<1>4. DirOK(e) /\ e # None
  BY <1>1, <1>2, AcceptanceAssumption DEF DirOK
<1> QED
  BY <1>1, <1>2, <1>3, <1>4, PutDir DEF IInv

LEMMA SwapOutIInv == IInv /\ SwapOut => IInv'
<1> SUFFICES ASSUME IInv, SwapOut PROVE IInv'
  OBVIOUS
<1>1. /\ pc = "swap out" /\ named # 0 /\ Stage = "PREPARED" /\ dir[named].edits /\ CleanTree(tree)
      /\ Set(named, "backup", tree) /\ tree' = Gone /\ pc' = "swap in"
      /\ UNCHANGED <<live, named, resume, token, then, refused, answered>>
  BY DEF SwapOut, Goto, IInv, PlaceOK, Before
<1>2. tree \in Trees /\ tree # None
  BY <1>1, AcceptanceAssumption DEF CleanTree, RunningTree
<1>3. /\ DirsOK' /\ dir'[named'] # None /\ dir'[named'].backup # None
      /\ dir'[named'].edits /\ dir'[named'].stage = "PREPARED"
  <2>1. /\ DirsOK' /\ dir'[named'] # None /\ dir'[named'].backup = tree
        /\ dir'[named'].edits = dir[named].edits /\ dir'[named'].stage = dir[named].stage
    <3> HIDE DEF CleanTree
    <3> QED
      BY <1>1, <1>2, BackupStep
  <2> QED
    BY <1>1, <1>2, <2>1 DEF Stage
<1>4. ScalarsOK'
  BY <1>1, <1>3 DEF IInv, ScalarsOK, Points
<1>5. TreeOK'
  BY <1>1 DEF TreeOK
<1>6. PlaceOK'
  BY <1>1, <1>3 DEF PlaceOK, Stage, Before, After1
<1> QED
  BY <1>3, <1>4, <1>5, <1>6 DEF IInv

LEMMA SwapInIInv == IInv /\ SwapIn => IInv'
<1> SUFFICES ASSUME IInv, SwapIn PROVE IInv'
  OBVIOUS
<1>1. /\ pc = "swap in" /\ named # 0 /\ Stage = "PREPARED" /\ dir[named].edits /\ dir[named].backup # None
      /\ UNCHANGED <<live, named, resume, token, then, refused, answered>>
  BY DEF SwapIn, IInv, PlaceOK
<1>2. CASE tree' = After(named) /\ pc' = "clean up" /\ UNCHANGED dir
  <2>1. RunningTree(tree') /\ tree'.body = named /\ BodyOf(named) = named
    BY <1>1, <1>2, AfterTree DEF BodyOf
  <2>2. tree' # Gone /\ tree' \in Trees
    BY <2>1, AcceptanceAssumption DEF RunningTree
  <2>3. ScalarsOK'
    BY <1>1, <1>2, <2>2 DEF IInv, ScalarsOK, Points
  <2>4. TreeOK'
    BY <1>1, <1>2, <2>1 DEF TreeOK, Stage, RunningTree, Open
  <2>5. PlaceOK'
    BY <1>1, <1>2, <2>1 DEF PlaceOK, Stage, BodyOf, Before, After1, RunningTree
  <2> QED
    BY <1>1, <1>2, <2>3, <2>4, <2>5, SameDirs DEF IInv
<1>3. CASE tree' = dir[named].backup /\ Set(named, "backup", None) /\ pc' = "fail"
  <2>1. CleanTree(tree')
    BY <1>1, <1>3, InHand DEF DirOK
  <2>2. tree' \in Trees
    BY <2>1 DEF CleanTree, RunningTree
  <2>3. DirsOK' /\ dir'[named'] # None /\ dir'[named'].stage = "PREPARED"
    BY <1>1, <1>3, BackupStep DEF Stage
  <2>4. ScalarsOK'
    BY <1>1, <1>3, <2>2, <2>3 DEF IInv, ScalarsOK, Points
  <2>5. TreeOK'
    BY <2>1 DEF TreeOK, CleanTree, RunningTree
  <2>6. PlaceOK'
    BY <1>1, <1>3, <2>3 DEF PlaceOK, Stage, Before, After1
  <2> QED
    BY <2>3, <2>4, <2>5, <2>6 DEF IInv
<1> QED
  BY <1>2, <1>3 DEF SwapIn, Goto

LEMMA CleanUpIInv == IInv /\ CleanUp => IInv'
<1> SUFFICES ASSUME IInv, CleanUp PROVE IInv'
  OBVIOUS
<1>1. /\ pc = "clean up" /\ named # 0 /\ Stage = "PREPARED" /\ dir[named].edits
      /\ RunningTree(tree) /\ tree.body = BodyOf(named)
      /\ UNCHANGED <<tree, live, named, resume, token, then, refused, answered>>
  BY DEF CleanUp, IInv, PlaceOK, After1
<1>2. CASE Set(named, "backup", None) /\ pc' = "journal"
  <2>1. DirsOK' /\ dir'[named'] # None /\ dir'[named'].stage = "PREPARED" /\ dir'[named'].edits = dir[named].edits
    BY <1>1, <1>2, BackupStep DEF Stage
  <2>2. ScalarsOK'
    BY <1>1, <1>2, <2>1 DEF IInv, ScalarsOK, Points
  <2>3. TreeOK'
    BY <1>1, <1>2, <2>1 DEF IInv, TreeOK, Stage, RunningTree, Open
  <2>4. PlaceOK'
    BY <1>1, <1>2, <2>1 DEF PlaceOK, Stage, BodyOf, Before, After1, RunningTree
  <2> QED
    BY <2>1, <2>2, <2>3, <2>4 DEF IInv
<1>3. CASE UNCHANGED dir /\ pc' = "fail"
  <2>1. ScalarsOK'
    BY <1>1, <1>3 DEF IInv, ScalarsOK, Points
  <2>2. TreeOK'
    BY <1>1, <1>3 DEF IInv, TreeOK, Stage, RunningTree
  <2>3. PlaceOK'
    BY <1>1, <1>3 DEF PlaceOK, Stage, Before, After1
  <2> QED
    BY <1>1, <1>3, <2>1, <2>2, <2>3, SameDirs DEF IInv
<1> QED
  BY <1>2, <1>3 DEF CleanUp, Goto

-----------------------------------------------------------------------------
(* A claim changes hands: the attempt it names gets a clean baseline, and  *)
(* the attempt named before it is closed.                                  *)
LEMMA ClaimIInv == IInv /\ Claim => IInv'
<1> SUFFICES ASSUME IInv, Claim PROVE IInv'
  OBVIOUS
<1>1. /\ pc = "claim" /\ tree # Gone /\ tree \in Trees
      /\ UNCHANGED <<resume, then, refused, answered>>
  BY DEF Claim, Readable, IInv, ScalarsOK
<1>2. CASE pc' = "ended" /\ UNCHANGED <<tree, dir, live, named, token>>
  <2>1. ScalarsOK'
    BY <1>1, <1>2 DEF IInv, ScalarsOK, Points
  <2>2. TreeOK'
    BY <1>1, <1>2 DEF IInv, TreeOK, Stage, BodyOf
  <2>3. PlaceOK'
    BY <1>1, <1>2 DEF IInv, PlaceOK, Stage, Before, After1
  <2> QED
    BY <1>2, <2>1, <2>2, <2>3, SameDirs DEF IInv
<1>3. ASSUME tree.task.status \in {"PENDING", "RUNNING"}, pc' = "gates"
      PROVE  IInv'
  <2> DEFINE held == tree.task.status = "RUNNING" /\ live
             task == [tree.task EXCEPT !.status = "RUNNING",
                                       !.attempts = IF tree.task.status = "PENDING" THEN @ + 1 ELSE @,
                                       !.token = IF held THEN @ ELSE @ + 1]
             now == [tree EXCEPT !.task = task]
             Synced(a) == Set(a, "baseline", [now EXCEPT !.body = dir[a].baseline.body])
             a == task.attempts
             New(d, edits) == [baseline |-> now, edits |-> edits, report |-> None, before |-> None,
                               changeset |-> None, stage |-> None, backup |-> None]
  <2>1. /\ task.token <= MaxClaims /\ tree' = now /\ live' = TRUE /\ token' = task.token
        /\ \/ named # 0 /\ Synced(named) /\ UNCHANGED named
           \/ /\ named' = a
              /\ \/ dir[a] = None /\ \E edits \in BOOLEAN : dir' = [dir EXCEPT ![a] = New(dir, edits)]
                 \/ dir[a] # None /\ (Synced(a) \/ UNCHANGED dir)
    BY <1>1, <1>3 DEF Claim
  <2>2. tree.task \in TaskRecords /\ tree.task.attempts \in 0..MaxAttempts /\ tree.task.token \in 0..MaxClaims
    BY <1>1 DEF Trees, TaskRecords
  <2>3. a \in Attempts /\ task.status = "RUNNING" /\ task.token \in 0..MaxClaims /\ task \in TaskRecords
    <3>1. tree.task.status = "PENDING" => tree.task.attempts < MaxAttempts
      BY <1>1 DEF IInv, TreeOK
    <3>2. tree.task.status = "RUNNING" => tree.task.attempts \in Attempts
      BY <1>1 DEF IInv, TreeOK
    <3>3. a = IF tree.task.status = "PENDING" THEN tree.task.attempts + 1 ELSE tree.task.attempts
      BY <2>2 DEF TaskRecords
    <3>4. task.status = "RUNNING" /\ task.token = IF held THEN tree.task.token ELSE tree.task.token + 1
      BY <2>2 DEF TaskRecords
    <3>5. a \in Attempts /\ task.token \in 0..MaxClaims
      BY <1>3, <2>1, <2>2, <3>1, <3>2, <3>3, <3>4, AcceptanceAssumption DEF Attempts
    <3>6. a \in 0..MaxAttempts
      BY <3>5 DEF Attempts
    <3> QED
      BY <2>2, <3>4, <3>5, <3>6 DEF TaskRecords
  <2>4. tree.body = 0
    <3>1. tree.task.status # "SUCCEEDED"
      BY <1>3
    <3>2. named # 0 => Stage \in Closed
      BY <1>1, <3>1 DEF IInv, PlaceOK
    <3>3. tree.body # 0 => named # 0
      BY <1>1 DEF IInv, TreeOK
    <3> QED
      BY <1>1, <3>2, <3>3, NoStage DEF IInv, TreeOK, Open, Closed
  <2>5. CleanTree(now)
    <3> HIDE DEF task
    <3>1. now \in Trees /\ now.task = task /\ now.body = tree.body
      BY <1>1, <2>3 DEF Trees
    <3> QED
      BY <2>3, <2>4, <3>1 DEF CleanTree, RunningTree, a
  <2> HIDE DEF held, task, now
  <2>6. named # 0 => Stage \in Closed
    BY <1>1, <1>3 DEF IInv, PlaceOK
  <2>7. \A b \in Attempts : dir[b] # None => dir[b].stage \in Closed
    <3>1. 0 \notin Attempts
      BY AcceptanceAssumption DEF Attempts
    <3> QED
      BY <2>6, <3>1 DEF IInv, DirsOK, Stage
  (* Whatever the claim does to the directory of n, it leaves it sound.    *)
  <2>8. ASSUME NEW n \in Attempts, named' = n,
               \/ dir[n] # None /\ Synced(n)
               \/ dir[n] # None /\ UNCHANGED dir
               \/ dir[n] = None /\ \E edits \in BOOLEAN : dir' = [dir EXCEPT ![n] = New(dir, edits)]
        PROVE  DirsOK' /\ dir'[n] # None /\ dir'[n].stage \in Closed
    <3>1. ASSUME NEW e, DirOK(e), e # None, e.stage \in Closed, dir' = [dir EXCEPT ![n] = e]
          PROVE  DirsOK' /\ dir'[n] # None /\ dir'[n].stage \in Closed
      <4>1. dir'[n] = e /\ \A b \in Attempts \ {n} : dir'[b] = dir[b]
        BY <3>1 DEF IInv, DirsOK
      <4>2. dir' \in [Attempts -> Dirs \cup {None}]
        BY <3>1 DEF IInv, DirsOK, DirOK
      <4> QED
        BY <2>7, <2>8, <3>1, <4>1, <4>2 DEF IInv, DirsOK
    <3>2. CASE dir[n] # None /\ Synced(n)
      <4> DEFINE v == [now EXCEPT !.body = dir[n].baseline.body]
                 e == [dir[n] EXCEPT !.baseline = v]
      <4>1. DirOK(dir[n]) /\ dir[n] \in Dirs /\ dir[n].stage \in Closed
        BY <2>7, <3>2 DEF IInv, DirsOK, DirOK
      <4>2. dir[n].baseline.body = 0
        BY <4>1 DEF DirOK, CleanTree
      <4>3. CleanTree(v) /\ v \in Trees
        BY <2>5, <4>2 DEF CleanTree, RunningTree, Trees
      <4>4. dir' = [dir EXCEPT ![n] = e]
        BY <3>2 DEF Set
      <4> HIDE DEF v
      <4>5. /\ e \in Dirs /\ e.baseline = v
            /\ e.edits = dir[n].edits /\ e.report = dir[n].report /\ e.before = dir[n].before
            /\ e.changeset = dir[n].changeset /\ e.stage = dir[n].stage /\ e.backup = dir[n].backup
        BY <4>1, <4>3, BaselineField
      <4> HIDE DEF e
      <4>6. DirOK(e) /\ e # None /\ e.stage \in Closed
        BY <4>1, <4>3, <4>5, AcceptanceAssumption DEF DirOK
      <4> QED
        BY <3>1, <4>4, <4>6
    <3>3. CASE dir[n] # None /\ UNCHANGED dir
      BY <2>7, <2>8, <3>3 DEF IInv, DirsOK
    <3>4. ASSUME NEW edits \in BOOLEAN, dir' = [dir EXCEPT ![n] = New(dir, edits)]
          PROVE  DirsOK' /\ dir'[n] # None /\ dir'[n].stage \in Closed
      <4> DEFINE e == New(dir, edits)
      <4>1. now \in Trees
        BY <2>5 DEF CleanTree, RunningTree
      <4>2. e \in Dirs
        BY <4>1 DEF Dirs
      <4>3. e.baseline = now /\ e.before = None /\ e.backup = None /\ e.changeset = None /\ e.stage = None
        OBVIOUS
      <4>4. dir' = [dir EXCEPT ![n] = e]
        BY <3>4
      <4> HIDE DEF e
      <4>5. DirOK(e) /\ e # None /\ e.stage \in Closed
        BY <2>5, <4>2, <4>3, NoStage, AcceptanceAssumption DEF DirOK, Open, Closed
      <4> QED
        BY <3>1, <4>4, <4>5
    <3> QED
      BY <2>8, <3>2, <3>3, <3>4
  <2>9. /\ DirsOK' /\ dir'[named'] # None /\ dir'[named'].stage \in Closed
        /\ named' \in Attempts
    <3>1. named # 0 => named \in Attempts /\ dir[named] # None
      BY InHand
    <3> HIDE DEF a, New, Synced
    <3>2. CASE named # 0 /\ Synced(named) /\ UNCHANGED named
      BY <2>8, <3>1, <3>2
    <3>3. CASE named' = a /\ (dir[a] # None /\ (Synced(a) \/ UNCHANGED dir))
      BY <2>3, <2>8, <3>3
    <3>4. CASE named' = a /\ dir[a] = None /\ \E edits \in BOOLEAN : dir' = [dir EXCEPT ![a] = New(dir, edits)]
      BY <2>3, <2>8, <3>4
    <3> QED
      BY <2>1, <3>2, <3>3, <3>4
  <2>10. CleanTree(tree') /\ tree' \in Trees /\ token' \in 0..MaxClaims
    BY <2>1, <2>3, <2>5 DEF CleanTree, RunningTree
  <2>11. ScalarsOK'
    BY <1>1, <1>3, <2>1, <2>9, <2>10 DEF IInv, ScalarsOK, Points, Attempts
  <2>12. TreeOK'
    BY <2>10 DEF TreeOK, CleanTree, RunningTree
  <2>13. PlaceOK'
    BY <1>3, <2>9, <2>10, NoStage, AcceptanceAssumption DEF PlaceOK, Stage, Before, After1, Attempts, Closed
  <2> QED
    BY <2>9, <2>11, <2>12, <2>13 DEF IInv
<1> QED
  BY <1>2, <1>3 DEF Claim, Goto

LEMMA NextIInv == IInv /\ [Next]_vars => IInv'
<1> SUFFICES ASSUME IInv, [Next]_vars PROVE IInv'
  OBVIOUS
<1>1. CASE UNCHANGED vars
  <2>1. UNCHANGED <<tree, dir, live, pc, named, resume, token, then, refused, answered>>
    BY <1>1 DEF vars
  <2>2. ScalarsOK'
    BY <2>1 DEF IInv, ScalarsOK
  <2>3. TreeOK'
    BY <2>1 DEF IInv, TreeOK, Stage, BodyOf
  <2>4. PlaceOK'
    BY <2>1 DEF IInv, PlaceOK, Stage, BodyOf, CleanTree, RunningTree
  <2> QED
    BY <2>1, <2>2, <2>3, <2>4, SameDirs DEF IInv
<1> QED
  BY <1>1, StartIInv, RecoverIInv, ClaimIInv, GatesIInv, CaptureIInv, InspectIInv, PromoteIInv, SwapOutIInv,
     SwapInIInv, CleanUpIInv, JournalPromotedIInv, ValidateIInv, CompleteIInv, CommitIInv, UndoIInv, RebuildIInv,
     JournalRolledBackIInv, FailIInv, CrashIInv, LeaseRunsOutIInv, HumanAnswersIInv
     DEF Next

LEMMA InitIInv == Init => IInv
<1> SUFFICES ASSUME Init PROVE IInv
  OBVIOUS
<1>1. tree \in Trees /\ tree.body = 0 /\ tree.task.status = "PENDING" /\ tree.task.attempts = 0
  BY AcceptanceAssumption DEF Init, Trees, TaskRecords
<1>2. ScalarsOK
  <2>1. 0 \in 0..MaxAttempts /\ 0 \in 0..MaxClaims
    BY AcceptanceAssumption
  <2> QED
    BY <1>1, <2>1 DEF Init, ScalarsOK, Points
<1>3. DirsOK
  BY DEF Init, DirsOK
<1>4. TreeOK
  BY <1>1, AcceptanceAssumption DEF TreeOK
<1>5. PlaceOK
  BY DEF Init, PlaceOK, Before, After1
<1> QED
  BY <1>2, <1>3, <1>4, <1>5 DEF IInv

(* The inductive invariant holds in every reachable state.                 *)
THEOREM InvariantHolds == Spec => []IInv
  BY InitIInv, NextIInv, PTL DEF Spec

-----------------------------------------------------------------------------
(* What it implies.                                                        *)

(* Type correctness of the tree, the directories and the process.          *)
THEOREM TypeCorrect == Spec => []TypeOK
<1>1. IInv => TypeOK
  BY DEF IInv, ScalarsOK, DirsOK, TypeOK
<1> QED
  BY <1>1, InvariantHolds, PTL

(* A task that succeeded stands on an accepted attempt, and the project    *)
(* holds exactly that attempt's edits, whatever crashed on the way.        *)
THEOREM SuccessIsPromoted == Spec => []SucceededMeansPromoted
<1>1. ASSUME IInv PROVE SucceededMeansPromoted
  <2> SUFFICES ASSUME tree # Gone, tree.task.status = "SUCCEEDED"
               PROVE  LET a == tree.task.effect
                      IN  /\ dir[a].report # None /\ dir[a].report.pass
                          /\ tree.body = IF dir[a].edits THEN a ELSE 0
    BY DEF SucceededMeansPromoted, Readable
  <2>1. named # 0 /\ tree.task.effect = named /\ Stage \in {"PROMOTED", "COMMITTED"} /\ tree.body = BodyOf(named)
    BY <1>1 DEF IInv, TreeOK
  <2>2. dir[named].report # None /\ dir[named].report.pass
    BY <1>1, <2>1, InHand DEF DirOK, Open, Stage
  <2> QED
    BY <2>1, <2>2 DEF BodyOf
<1>2. IInv => SucceededMeansPromoted
  BY <1>1
<1> QED
  BY <1>2, InvariantHolds, PTL

(* No attempt is started from a project that still holds the edits of an   *)
(* attempt nobody accepted.                                                *)
THEOREM AttemptsStartAccepted == Spec => []NoAttemptOnUnacceptedTree
<1>1. IInv => NoAttemptOnUnacceptedTree
  BY DEF IInv, DirsOK, DirOK, CleanTree, NoAttemptOnUnacceptedTree
<1> QED
  BY <1>1, InvariantHolds, PTL

(* What the journal says of a closed transaction is what the project       *)
(* shows.                                                                  *)
THEOREM JournalTellsTree == Spec => []StageTellsTree
<1>1. ASSUME IInv, NEW a \in Attempts, dir[a] # None, tree # Gone
      PROVE  /\ dir[a].stage = "COMMITTED" => tree.task.status = "SUCCEEDED" /\ tree.task.effect = a
             /\ dir[a].stage = "ROLLED_BACK" => tree.body # a
  <2>1. 0 \notin Attempts
    BY AcceptanceAssumption DEF Attempts
  <2>2. CASE a = named
    BY <1>1, <2>1, <2>2, NoStage DEF IInv, PlaceOK, TreeOK, Stage, Open
  <2>3. CASE a # named
    BY <1>1, <2>1, <2>3, NoStage DEF IInv, DirsOK, TreeOK, Closed
  <2> QED
    BY <2>2, <2>3
<1>2. IInv => StageTellsTree
  BY <1>1 DEF StageTellsTree, Readable
<1> QED
  BY <1>2, InvariantHolds, PTL

(* Nothing takes a success back but the transaction that made it, when it  *)
(* cannot journal COMMITTED.                                               *)
THEOREM SuccessStays == Spec => SuccessNeverUndone
<1>1. ASSUME IInv, [Next]_vars, tree # Gone, tree.task.status = "SUCCEEDED"
      PROVE  \/ tree' # Gone /\ tree'.task = tree.task
             \/ pc = "undo" /\ then = "fail" /\ IOFaults
  <2>1. pc \in {"commit", "undo", "down", "recover", "claim", "ended"} /\ (pc = "undo" => then = "fail" /\ IOFaults)
    BY <1>1 DEF IInv, TreeOK
  <2>2. CASE UNCHANGED tree
    BY <1>1, <2>2
  <2>3. CASE HumanAnswers
    <3>1. tree \in Trees /\ tree' = [tree EXCEPT !.other = TRUE]
      BY <1>1, <2>3 DEF HumanAnswers, IInv, ScalarsOK
    <3>2. tree' \in Trees /\ tree'.task = tree.task
      BY <3>1, OtherAnswered
    <3> QED
      BY <3>2, AcceptanceAssumption
  <2>4. CASE Undo
    BY <2>1, <2>4 DEF Undo
  <2>5. CASE Claim
    BY <1>1, <2>2, <2>5 DEF Claim
  <2> QED
    BY <1>1, <2>1, <2>2, <2>3, <2>4, <2>5
       DEF Next, Start, Recover, Gates, Capture, Inspect, Promote, SwapOut, SwapIn, CleanUp, JournalPromoted,
           Validate, Complete, Commit, Rebuild, JournalRolledBack, Fail, Crash, LeaseRunsOut, vars
<1>2. ASSUME IInv, [Next]_vars
      PROVE  Readable /\ tree.task.status = "SUCCEEDED" =>
               \/ tree' # Gone /\ tree'.task = tree.task
               \/ pc = "undo" /\ then = "fail" /\ IOFaults
  BY <1>1, <1>2 DEF Readable
<1> QED
  BY <1>2, InvariantHolds, PTL DEF Spec, SuccessNeverUndone
=============================================================================
