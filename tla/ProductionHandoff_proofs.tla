---------------------- MODULE ProductionHandoff_proofs ----------------------
(***************************************************************************)
(* Proofs about ProductionHandoff, for any records, results, handoffs and  *)
(* numbers of edits, moves and troubles: whatever fails or dies wherever,  *)
(* an import is there as a whole or its files are put back, what left as a *)
(* bundle is never contradicted, and a signal rests on its result.         *)
(*                                                                         *)
(* The invariant says what the files hold together (Good) and, while a     *)
(* command writes, that its remaining writes lead from where the files are *)
(* to one state that is Good, and its undo list back to another.           *)
(***************************************************************************)
EXTENDS ProductionHandoff, FiniteSetTheorems, SequenceTheorems, TLAPS

Paths == {"manifest", "state", "report", "evidence", "changes", "feedback", "viewer", "log", "handoff", "bundle"}

Listed(s) == s \in Seq(Values(s))

-----------------------------------------------------------------------------
(* What the files hold, for their owners one by one and for the run log    *)
(* that tells of the others.                                               *)

EvidenceOK(ev) ==
  /\ Listed(ev)
  /\ Len(ev) <= Len(EvidenceIds)
  /\ \A i \in DOMAIN ev : ev[i].id = EvidenceIds[i]
  /\ \A i, j \in DOMAIN ev : ev[i].loc = ev[j].loc => i = j

ChangesOK(ch) ==
  /\ Listed(ch)
  /\ \A i, j \in DOMAIN ch : ch[i].result = ch[j].result /\ ch[i].source = ch[j].source => i = j

FeedbackOK(fb) ==
  /\ Listed(fb)
  /\ \A i \in DOMAIN fb : fb[i].id \in ResultIds /\ fb[i].body \in DOMAIN Bodies
  /\ \A i, j \in DOMAIN fb : fb[i].id = fb[j].id => i = j

IsImport(e) == e.type = "PRODUCTION_FEEDBACK_IMPORTED"

LogOK(log) ==
  /\ Listed(log)
  /\ \A i \in DOMAIN log : IsImport(log[i]) => log[i].result \in ResultIds /\ log[i].id = <<"IMPORT", log[i].result>>
  /\ \A id \in ResultIds : \A i \in DOMAIN log : log[i].id = <<"IMPORT", id>> => IsImport(log[i])
  /\ \A id \in ResultIds : <<"REOPEN", id>> \in Ids(log) => <<"IMPORT", id>> \in Ids(log)

(* The result e tells of is there, with all that hangs on it.              *)
ToldWhole(ev, ch, fb, ids, e) ==
  /\ \E j \in DOMAIN fb :
       /\ fb[j].id = e.result /\ fb[j].body = e.body
       /\ \A s \in Sources(fb[j]) : \E k \in DOMAIN ev : ev[k].loc = s.loc
       /\ e.evidence = {ev[k].id : k \in {k \in DOMAIN ev : \E s \in Sources(fb[j]) : ev[k].loc = s.loc}}
  /\ \A x \in DOMAIN Bodies[e.body].changes : \E k \in DOMAIN ch : ch[k].result = e.result /\ ch[k].source = x
  /\ e.reopened => <<"REOPEN", e.result>> \in ids

Whole(ev, ch, fb, log) ==
  \A i \in DOMAIN log : IsImport(log[i]) => ToldWhole(ev, ch, fb, Ids(log), log[i])

Sound(ev, ch, fb, log) ==
  EvidenceOK(ev) /\ ChangesOK(ch) /\ FeedbackOK(fb) /\ LogOK(log) /\ Whole(ev, ch, fb, log)

(* What left, and what was passed on, against the files.                   *)
Covers(h, old) == old = h \/ (old.revision \in Nat /\ h.revision \in Nat /\ old.revision < h.revision)
Ahead(h) == exported # {} => h # NoHandoff /\ \A x \in exported : Covers(h, x.handoff)
Revised(h) == h # NoHandoff => h.revision \in Nat
Supported(ev) == \A x \in exported : HandoffClean(Records[x.content], Ids(ev), x.handoff)
Backed(fb, log) ==
  \A id \in ResultIds : signals[id] # "none" =>
    /\ \E i \in DOMAIN fb : fb[i].id = id /\ fb[i].body = signals[id]
    /\ \E i \in DOMAIN log : log[i].id = <<"IMPORT", id>> /\ log[i].body = signals[id]

Good(f) ==
  /\ DOMAIN f = Paths
  /\ Sound(f.evidence, f.changes, f.feedback, f.log)
  /\ Ahead(f.handoff) /\ Revised(f.handoff)
  /\ Supported(f.evidence)
  /\ Backed(f.feedback, f.log)

-----------------------------------------------------------------------------
(* A command in hand: b is how it found the files, t what it makes of them *)
(* if nothing fails.                                                       *)

Pending(writes, p) == \E w \in Values(writes) : w[1] = p

Rollback(b, t) ==
  /\ DOMAIN files = Paths /\ DOMAIN b = Paths /\ DOMAIN t = Paths
  /\ Listed(call.todo) /\ Listed(call.undo)
  /\ \A p \in Paths : files[p] \in {b[p], t[p]}
  /\ \A w \in Values(call.undo) : w[1] \in Paths /\ w[2] = b[w[1]]
  /\ \A p \in Paths : files[p] = b[p] \/ Pending(call.undo, p)
  /\ ~call.failing =>
       /\ \A w \in Values(call.todo) : w[1] \in Paths /\ w[2] = t[w[1]] /\ Pending(call.undo, w[1])
       /\ \A p \in Paths : files[p] = t[p] \/ Pending(call.todo, p)

BuildTarget(b, t) ==
  /\ \A p \in Paths \ {"handoff"} : t[p] = b[p]
  /\ Good(b)
  /\ Ahead(t.handoff) /\ Revised(t.handoff)

BuildCall(t) ==
  /\ call.op = "build"
  /\ Rollback(call.began, t)
  /\ BuildTarget(call.began, t)

(* Any part of the owners' files may have been written while the run log   *)
(* is as it was; the log comes last, and then the whole is valid.          *)
ImportTarget(b, t) ==
  /\ \A p \in {"report", "handoff", "bundle"} : t[p] = b[p]
  /\ \A ev \in {b.evidence, t.evidence}, ch \in {b.changes, t.changes}, fb \in {b.feedback, t.feedback} :
       Sound(ev, ch, fb, b.log)
  /\ Sound(t.evidence, t.changes, t.feedback, t.log)
  /\ t.log # b.log => Valid(t)
  /\ Ahead(b.handoff) /\ Revised(b.handoff)
  /\ Supported(b.evidence) /\ Supported(t.evidence)
  /\ \A fb \in {b.feedback, t.feedback}, log \in {b.log, t.log} : Backed(fb, log)

ImportCall(t) ==
  /\ call.op = "import"
  /\ Rollback(call.began, t)
  /\ ImportTarget(call.began, t)
  /\ call.failing \/ call.todo # <<>> => files.log = call.began.log
  /\ \A i \in DOMAIN call.todo : call.todo[i][1] = "log" => i = Len(call.todo)

ExportCall ==
  /\ call.op = "export"
  /\ Good(files)
  /\ call.undo = <<>>
  /\ Listed(call.todo)
  /\ \A i \in DOMAIN call.todo : call.todo[i][1] = "bundle"
  /\ call.todo # <<>> => call.todo[Len(call.todo)][2] = BundleFiles
  /\ HandoffClean(c, Ids(files.evidence), files.handoff)

(* One of four, as the command in hand is; t is none for two of them.      *)
InHand(t) ==
  \/ call = Idle /\ Good(files)
  \/ BuildCall(t)
  \/ ImportCall(t)
  \/ ExportCall

SentOnce ==
  /\ \A x \in exported : x.handoff # NoHandoff /\ x.handoff.revision \in Nat
  /\ OneContentPerRevision

IInv ==
  /\ DOMAIN call = {"op", "todo", "undo", "failing", "began"} /\ call.failing \in BOOLEAN
  /\ DOMAIN signals = ResultIds
  /\ SentOnce
  /\ \E t : InHand(t)

-----------------------------------------------------------------------------
(* Sequences, known by their values only.                                  *)

LEMMA ListedFacts ==
  ASSUME NEW s, Listed(s)
  PROVE  /\ Len(s) \in Nat /\ DOMAIN s = 1 .. Len(s)
         /\ s = <<>> <=> Len(s) = 0
         /\ \A i \in 1 .. Len(s) : s[i] \in Values(s)
         /\ \A w \in Values(s) : \E i \in 1 .. Len(s) : s[i] = w
<1>1. s \in Seq(Values(s))
  BY DEF Listed
<1>2. Len(s) \in Nat /\ DOMAIN s = 1 .. Len(s)
  BY <1>1, LenProperties
<1>3. s = <<>> <=> Len(s) = 0
  BY <1>1, EmptySeq
<1> QED
  BY <1>2, <1>3 DEF Values

LEMMA SeqIsListed ==
  ASSUME NEW S, NEW s \in Seq(S)
  PROVE  Listed(s)
<1>1. Len(s) \in Nat /\ DOMAIN s = 1 .. Len(s) /\ s \in [1 .. Len(s) -> S]
  BY LenProperties
<1>2. \A i \in 1 .. Len(s) : s[i] \in Values(s)
  BY <1>1 DEF Values
<1>3. s \in [1 .. Len(s) -> Values(s)]
  BY <1>1, <1>2
<1> QED
  BY <1>1, <1>3, SeqDef DEF Listed

LEMMA ShortListed == Listed(<<>>) /\ (\A x : Listed(<<x>>)) /\ (\A x, y : Listed(<<x, y>>))
<1>1. Listed(<<>>)
  BY SeqIsListed, EmptySeq
<1>2. ASSUME NEW x PROVE Listed(<<x>>)
  <2>1. <<x>> \in Seq({x})
    OBVIOUS
  <2> QED
    BY <2>1, SeqIsListed
<1>3. ASSUME NEW x, NEW y PROVE Listed(<<x, y>>)
  <2>1. <<x, y>> \in Seq({x, y})
    OBVIOUS
  <2> QED
    BY <2>1, SeqIsListed
<1> QED
  BY <1>1, <1>2, <1>3

LEMMA ListedConcat ==
  ASSUME NEW s, NEW t, Listed(s), Listed(t)
  PROVE  /\ Listed(s \o t)
         /\ Len(s \o t) = Len(s) + Len(t)
         /\ \A i \in 1 .. Len(s) : (s \o t)[i] = s[i]
         /\ \A i \in 1 .. Len(t) : (s \o t)[Len(s) + i] = t[i]
         /\ \A i \in 1 .. Len(s \o t) : i \in 1 .. Len(s) \/ \E j \in 1 .. Len(t) : i = Len(s) + j
         /\ Values(s \o t) = Values(s) \cup Values(t)
<1> DEFINE S == Values(s) \cup Values(t)
<1>1. s \in Seq(S) /\ t \in Seq(S)
  BY SeqMonotonic DEF Listed
<1> DEFINE u == s \o t
<1>2. /\ u \in Seq(S) /\ Len(u) = Len(s) + Len(t)
      /\ \A i \in 1 .. Len(s) + Len(t) : u[i] = IF i <= Len(s) THEN s[i] ELSE t[i - Len(s)]
  BY <1>1, ConcatProperties
<1>3. /\ Len(s) \in Nat /\ DOMAIN s = 1 .. Len(s)
      /\ Len(t) \in Nat /\ DOMAIN t = 1 .. Len(t)
      /\ DOMAIN u = 1 .. Len(u)
  BY <1>1, <1>2, LenProperties
<1> HIDE DEF S, u
<1>4. Listed(u)
  BY <1>2, SeqIsListed
<1>5. \A i \in 1 .. Len(s) : u[i] = s[i]
  BY <1>2, <1>3
<1>6. \A i \in 1 .. Len(t) : u[Len(s) + i] = t[i]
  BY <1>2, <1>3
<1>7. \A i \in 1 .. Len(u) : i \in 1 .. Len(s) \/ \E j \in 1 .. Len(t) : i = Len(s) + j
  <2> SUFFICES ASSUME NEW i \in 1 .. Len(u), i \notin 1 .. Len(s)
               PROVE  \E j \in 1 .. Len(t) : i = Len(s) + j
    OBVIOUS
  <2>1. i - Len(s) \in 1 .. Len(t) /\ i = Len(s) + (i - Len(s))
    BY <1>2, <1>3
  <2> QED
    BY <2>1
<1>8. Values(u) = Values(s) \cup Values(t)
  <2>1. ASSUME NEW w \in Values(u) PROVE w \in Values(s) \cup Values(t)
    <3>1. PICK i \in 1 .. Len(u) : w = u[i]
      BY <1>3 DEF Values
    <3>2. CASE i \in 1 .. Len(s)
      BY <3>1, <3>2, <1>3, <1>5 DEF Values
    <3>3. ASSUME NEW j \in 1 .. Len(t), i = Len(s) + j PROVE w \in Values(t)
      BY <3>1, <3>3, <1>3, <1>6 DEF Values
    <3> QED
      BY <3>2, <3>3, <1>7
  <2>2. ASSUME NEW w \in Values(s) PROVE w \in Values(u)
    <3>1. PICK i \in 1 .. Len(s) : w = s[i]
      BY <1>3 DEF Values
    <3>2. i \in DOMAIN u /\ u[i] = w
      BY <3>1, <1>2, <1>3, <1>5
    <3> QED
      BY <3>2 DEF Values
  <2>3. ASSUME NEW w \in Values(t) PROVE w \in Values(u)
    <3>1. PICK i \in 1 .. Len(t) : w = t[i]
      BY <1>3 DEF Values
    <3>2. Len(s) + i \in DOMAIN u /\ u[Len(s) + i] = w
      BY <3>1, <1>2, <1>3, <1>6
    <3> QED
      BY <3>2 DEF Values
  <2> QED
    BY <2>1, <2>2, <2>3
<1> QED
  BY <1>2, <1>4, <1>5, <1>6, <1>7, <1>8 DEF u

LEMMA ListedTail ==
  ASSUME NEW s, Listed(s), s # <<>>
  PROVE  /\ Listed(Tail(s))
         /\ Len(s) \in Nat \ {0} /\ Head(s) = s[1]
         /\ Len(Tail(s)) = Len(s) - 1 /\ DOMAIN Tail(s) = 1 .. Len(s) - 1
         /\ \A i \in 1 .. Len(s) - 1 : Tail(s)[i] = s[i + 1]
         /\ Values(s) = {Head(s)} \cup Values(Tail(s))
<1> DEFINE S == Values(s)
           r == Tail(s)
<1>1. s \in Seq(S)
  BY DEF Listed
<1>2. /\ r \in Seq(S) /\ Len(r) = Len(s) - 1
      /\ \A i \in 1 .. Len(r) : r[i] = s[i + 1]
  BY <1>1, HeadTailProperties
<1>3. Len(s) \in Nat \ {0} /\ DOMAIN s = 1 .. Len(s) /\ DOMAIN r = 1 .. Len(r)
  BY <1>1, <1>2, LenProperties, EmptySeq
<1>4. Head(s) = s[1]
  BY <1>1
<1> HIDE DEF S, r
<1>5. Values(s) = {s[1]} \cup Values(r)
  <2>1. ASSUME NEW w \in Values(s) PROVE w \in {s[1]} \cup Values(r)
    <3>1. PICK i \in 1 .. Len(s) : w = s[i]
      BY <1>3 DEF Values
    <3>2. CASE i = 1
      BY <3>1, <3>2
    <3>3. CASE i # 1
      <4>1. i - 1 \in 1 .. Len(r) /\ r[i - 1] = s[i]
        BY <1>2, <1>3, <3>3
      <4> QED
        BY <4>1, <3>1, <1>3 DEF Values
    <3> QED
      BY <3>2, <3>3
  <2>2. ASSUME NEW w \in Values(r) PROVE w \in Values(s)
    <3>1. PICK i \in 1 .. Len(r) : w = r[i]
      BY <1>3 DEF Values
    <3>2. i + 1 \in 1 .. Len(s) /\ s[i + 1] = w
      BY <1>2, <1>3, <3>1
    <3> QED
      BY <3>2, <1>3 DEF Values
  <2>3. s[1] \in Values(s)
    BY <1>3 DEF Values
  <2> QED
    BY <2>1, <2>2, <2>3
<1> QED
  BY <1>2, <1>3, <1>4, <1>5, SeqIsListed DEF r

-----------------------------------------------------------------------------
(* The writes of a command that can put everything back.                   *)

(* What a command writes first about itself.                               *)
LEMMA Started ==
  ASSUME NEW op, NEW todo, NEW undo, Begin(op, todo, undo)
  PROVE  /\ DOMAIN call' = {"op", "todo", "undo", "failing", "began"}
         /\ call'.op = op /\ call'.todo = todo /\ call'.undo = undo
         /\ call'.failing = FALSE /\ call'.began = files
  BY DEF Begin

LEMMA RollbackStarts ==
  ASSUME NEW op, NEW todo, NEW t, NEW paths,
         Begin(op, todo, Undo(paths)), UNCHANGED files,
         DOMAIN files = Paths, DOMAIN t = Paths,
         Listed(paths), Values(paths) \subseteq Paths,
         Listed(todo),
         \A w \in Values(todo) : w[1] \in Values(paths) /\ w[2] = t[w[1]],
         \A p \in Paths : files[p] = t[p] \/ Pending(todo, p)
  PROVE  Rollback(files, t)'
<1> DEFINE undo == Undo(paths)
<1>1. /\ Len(paths) \in Nat /\ DOMAIN paths = 1 .. Len(paths)
      /\ DOMAIN undo = 1 .. Len(paths)
      /\ \A i \in 1 .. Len(paths) : undo[i] = <<paths[i], files[paths[i]]>>
  BY ListedFacts DEF Undo, Write
<1> HIDE DEF undo
<1>2. undo \in [1 .. Len(paths) -> Values(undo)]
  <2>1. undo = [i \in 1 .. Len(paths) |-> undo[i]]
    BY <1>1 DEF undo, Undo, Write
  <2>2. \A i \in 1 .. Len(paths) : undo[i] \in Values(undo)
    BY <1>1 DEF Values
  <2> QED
    BY <2>1, <2>2
<1>3. Listed(undo)
  BY <1>1, <1>2, SeqDef DEF Listed
<1>4. \A w \in Values(undo) : w[1] \in Paths /\ w[2] = files[w[1]]
  <2> SUFFICES ASSUME NEW i \in 1 .. Len(paths) PROVE undo[i][1] \in Paths /\ undo[i][2] = files[undo[i][1]]
    BY <1>1 DEF Values
  <2>1. paths[i] \in Values(paths)
    BY <1>1 DEF Values
  <2> QED
    BY <2>1, <1>1
<1>5. \A p \in Values(paths) : Pending(undo, p)
  <2> SUFFICES ASSUME NEW i \in 1 .. Len(paths) PROVE Pending(undo, paths[i])
    BY <1>1 DEF Values
  <2>1. undo[i] \in Values(undo) /\ undo[i][1] = paths[i]
    BY <1>1 DEF Values
  <2> QED
    BY <2>1 DEF Pending
<1>6. call'.todo = todo /\ call'.undo = undo /\ call'.failing = FALSE /\ call'.began = files
  BY Started DEF undo
<1> QED
  BY <1>3, <1>4, <1>5, <1>6 DEF Rollback, Pending

(* The next write, and the next value put back, each from the head of its  *)
(* list.                                                                   *)
LEMMA RollbackWrites ==
  ASSUME NEW b, NEW t, Rollback(b, t), DOMAIN call = {"op", "todo", "undo", "failing", "began"},
         WriteNext, b' = b
  PROVE  /\ Rollback(b, t)'
         /\ Head(call.todo)[1] \in Paths
         /\ files' = [files EXCEPT ![Head(call.todo)[1]] = t[Head(call.todo)[1]]]
         /\ call' = [call EXCEPT !.todo = Tail(@)]
<1> DEFINE w == Head(call.todo)
           rest == Tail(call.todo)
<1>1. /\ ~call.failing /\ call.todo # <<>>
      /\ files' = [files EXCEPT ![w[1]] = w[2]]
      /\ call' = [call EXCEPT !.todo = rest]
  BY DEF WriteNext, Put
<1>2. call'.todo = rest /\ call'.undo = call.undo /\ call'.failing = call.failing /\ call'.began = call.began
  BY <1>1
<1>3. Listed(rest) /\ Values(call.todo) = {w} \cup Values(rest)
  BY <1>1, ListedTail DEF Rollback
<1> HIDE DEF w, rest
<1>4. w[1] \in Paths /\ w[2] = t[w[1]] /\ Pending(call.undo, w[1])
  BY <1>1, <1>3 DEF Rollback
<1>5. /\ DOMAIN files' = Paths
      /\ \A p \in Paths : files'[p] = IF p = w[1] THEN t[p] ELSE files[p]
  BY <1>1, <1>4 DEF Rollback
<1>6. \A p \in Paths : Pending(call.todo, p) => p = w[1] \/ Pending(rest, p)
  BY <1>3 DEF Pending
<1>7. Rollback(b, t)'
  <2>1. \A p \in Paths : files'[p] = t[p] \/ Pending(rest, p)
    BY <1>1, <1>5, <1>6 DEF Rollback
  <2>2. \A p \in Paths : files'[p] = b[p] \/ Pending(call.undo, p)
    BY <1>4, <1>5 DEF Rollback
  <2>3. \A p \in Paths : files'[p] \in {b[p], t[p]}
    BY <1>5 DEF Rollback
  <2> QED
    BY <1>1, <1>2, <1>3, <1>5, <2>1, <2>2, <2>3 DEF Rollback, Pending
<1> QED
  BY <1>1, <1>4, <1>7 DEF w, rest

LEMMA RollbackPutsBack ==
  ASSUME NEW b, NEW t, Rollback(b, t), DOMAIN call = {"op", "todo", "undo", "failing", "began"},
         PutBack, b' = b
  PROVE  /\ Rollback(b, t)'
         /\ Head(call.undo)[1] \in Paths
         /\ files' = [files EXCEPT ![Head(call.undo)[1]] = b[Head(call.undo)[1]]]
         /\ call' = [call EXCEPT !.undo = Tail(@)]
<1> DEFINE w == Head(call.undo)
           rest == Tail(call.undo)
<1>1. /\ call.failing /\ call.undo # <<>>
      /\ files' = [files EXCEPT ![w[1]] = w[2]]
      /\ call' = [call EXCEPT !.undo = rest]
  BY DEF PutBack, Put
<1>2. call'.todo = call.todo /\ call'.undo = rest /\ call'.failing = call.failing /\ call'.began = call.began
  BY <1>1
<1>3. Listed(rest) /\ Values(call.undo) = {w} \cup Values(rest)
  BY <1>1, ListedTail DEF Rollback
<1> HIDE DEF w, rest
<1>4. w[1] \in Paths /\ w[2] = b[w[1]]
  BY <1>1, <1>3 DEF Rollback
<1>5. /\ DOMAIN files' = Paths
      /\ \A p \in Paths : files'[p] = IF p = w[1] THEN b[p] ELSE files[p]
  BY <1>1, <1>4 DEF Rollback
<1>6. \A p \in Paths : Pending(call.undo, p) => p = w[1] \/ Pending(rest, p)
  BY <1>3 DEF Pending
<1>7. Rollback(b, t)'
  BY <1>1, <1>2, <1>3, <1>5, <1>6 DEF Rollback
<1> QED
  BY <1>1, <1>4, <1>7 DEF w, rest

(* Nothing is left to put back: the files are as they were.                *)
LEMMA RollbackEnds ==
  ASSUME NEW b, NEW t, Rollback(b, t), call.undo = <<>>
  PROVE  \A p \in Paths : files[p] = b[p]
<1>1. Values(call.undo) = {}
  BY DEF Values
<1> QED
  BY <1>1 DEF Rollback, Pending

(* Nothing is left to write: the files are what the command makes of them. *)
LEMMA RollbackDone ==
  ASSUME NEW b, NEW t, Rollback(b, t), call.todo = <<>>, ~call.failing
  PROVE  \A p \in Paths : files[p] = t[p]
<1>1. Values(call.todo) = {}
  BY DEF Values
<1> QED
  BY <1>1 DEF Rollback, Pending

-----------------------------------------------------------------------------
(* What is good stays so while nothing leaves and nothing is passed on.    *)

LEMMA GoodOfParts ==
  ASSUME NEW f, NEW g, Good(f), DOMAIN g = Paths, Ahead(g.handoff), Revised(g.handoff),
         \A p \in {"evidence", "changes", "feedback", "log"} : g[p] = f[p]
  PROVE  Good(g)
<1>1. g.evidence = f.evidence /\ g.changes = f.changes /\ g.feedback = f.feedback /\ g.log = f.log
  OBVIOUS
<1> QED
  BY <1>1 DEF Good

LEMMA GoodStays ==
  ASSUME NEW f, Good(f), exported' = exported, signals' = signals
  PROVE  Good(f)'
  BY DEF Good, Ahead, Revised, Supported, Backed

LEMMA GoodFilesStay ==
  ASSUME Good(files), exported' = exported, signals' = signals, DOMAIN files' = Paths,
         files'.evidence = files.evidence, files'.changes = files.changes, files'.feedback = files.feedback,
         files'.log = files.log, files'.handoff = files.handoff
  PROVE  Good(files)'
<1>1. Sound(files'.evidence, files'.changes, files'.feedback, files'.log)
  BY DEF Good
<1>2. (Ahead(files.handoff) /\ Revised(files.handoff) /\ Supported(files.evidence))'
  BY DEF Good, Ahead, Revised, Supported
<1>3. Backed(files.feedback, files.log)'
  <2>1. Backed(files.feedback, files.log)
    BY DEF Good
  <2> QED
    BY <2>1 DEF Backed
<1> QED
  BY <1>1, <1>2, <1>3 DEF Good

LEMMA BuildTargetStays ==
  ASSUME NEW b, NEW t, BuildTarget(b, t), exported' = exported, signals' = signals
  PROVE  BuildTarget(b, t)'
<1>1. Good(b)'
  BY GoodStays DEF BuildTarget
<1>2. (Ahead(t.handoff) /\ Revised(t.handoff))'
  BY DEF BuildTarget, Ahead, Revised
<1> QED
  BY <1>1, <1>2 DEF BuildTarget

LEMMA ImportTargetStays ==
  ASSUME NEW b, NEW t, ImportTarget(b, t), exported' = exported, signals' = signals, content' = content
  PROVE  ImportTarget(b, t)'
<1>1. ASSUME NEW fb \in {b.feedback, t.feedback}, NEW log \in {b.log, t.log}
      PROVE  Backed(fb, log)'
  <2>1. Backed(fb, log)
    BY DEF ImportTarget
  <2> QED
    BY <2>1 DEF Backed
<1>2. (Ahead(b.handoff) /\ Revised(b.handoff) /\ Supported(b.evidence) /\ Supported(t.evidence))'
  BY DEF ImportTarget, Ahead, Revised, Supported
<1>3. (t.log # b.log => Valid(t))'
  BY DEF ImportTarget, Valid, c
<1> QED
  BY <1>1, <1>2, <1>3 DEF ImportTarget

(* Wherever a command is, its files are good.                              *)
LEMMA BuildIsGood ==
  ASSUME NEW t, BuildCall(t)
  PROVE  Good(files)
<1> DEFINE b == call.began
<1>1. /\ DOMAIN files = Paths
      /\ \A p \in Paths : files[p] \in {b[p], t[p]}
      /\ \A p \in Paths \ {"handoff"} : t[p] = b[p]
      /\ Good(b) /\ Ahead(t.handoff) /\ Revised(t.handoff)
  BY DEF BuildCall, BuildTarget, Rollback
<1>2. \A p \in {"evidence", "changes", "feedback", "log"} : files[p] = b[p]
  BY <1>1 DEF Paths
<1>3. files.handoff = b.handoff \/ files.handoff = t.handoff
  BY <1>1 DEF Paths
<1>4. Ahead(files.handoff) /\ Revised(files.handoff)
  BY <1>1, <1>3 DEF Good
<1> QED
  BY <1>1, <1>2, <1>4, GoodOfParts

LEMMA ImportIsGood ==
  ASSUME NEW t, ImportCall(t)
  PROVE  Good(files)
<1> DEFINE b == call.began
<1>1. /\ DOMAIN files = Paths
      /\ \A p \in Paths : files[p] \in {b[p], t[p]}
      /\ t.handoff = b.handoff
      /\ ImportTarget(b, t)
  BY DEF ImportCall, ImportTarget, Rollback
<1>2. /\ files.evidence \in {b.evidence, t.evidence} /\ files.changes \in {b.changes, t.changes}
      /\ files.feedback \in {b.feedback, t.feedback} /\ files.log \in {b.log, t.log}
      /\ files.handoff = b.handoff
  BY <1>1 DEF Paths
<1>3. CASE files.log = b.log
  BY <1>1, <1>2, <1>3 DEF ImportTarget, Good
<1>4. CASE files.log # b.log
  <2>1. ~call.failing /\ call.todo = <<>>
    BY <1>4 DEF ImportCall
  <2>2. \A p \in Paths : files[p] = t[p]
    BY <2>1, RollbackDone DEF ImportCall
  <2>3. files.evidence = t.evidence /\ files.changes = t.changes /\ files.feedback = t.feedback /\ files.log = t.log
    BY <2>2 DEF Paths
  <2> QED
    BY <1>1, <1>2, <2>3 DEF ImportTarget, Good
<1> QED
  BY <1>3, <1>4

LEMMA InHandIsGood ==
  ASSUME NEW t, InHand(t)
  PROVE  Good(files)
  BY BuildIsGood, ImportIsGood DEF InHand, ExportCall

-----------------------------------------------------------------------------
(* One step of a command in hand.                                          *)

LEMMA InvEnds ==
  ASSUME IInv, call' = Idle, UNCHANGED <<files, signals, exported>>
  PROVE  IInv'
<1>1. Good(files)
  BY InHandIsGood DEF IInv
<1>2. Good(files)'
  BY <1>1 DEF Good, Ahead, Revised, Supported, Backed
<1>3. SentOnce'
  BY DEF IInv, SentOnce, OneContentPerRevision
<1>4. DOMAIN call' = {"op", "todo", "undo", "failing", "began"} /\ call'.failing \in BOOLEAN
  BY DEF Idle
<1> QED
  BY <1>2, <1>3, <1>4 DEF IInv, InHand

LEMMA SentStays ==
  ASSUME SentOnce, exported' = exported
  PROVE  SentOnce'
  BY DEF SentOnce, OneContentPerRevision

LEMMA WriteNextKeeps ==
  ASSUME IInv, WriteNext
  PROVE  IInv'
<1>1. PICK t : InHand(t)
  BY DEF IInv
<1>2. /\ DOMAIN call = {"op", "todo", "undo", "failing", "began"} /\ call.failing \in BOOLEAN
      /\ DOMAIN signals = ResultIds /\ SentOnce
  BY DEF IInv
<1>3. /\ ~call.failing /\ call.todo # <<>> /\ call' = [call EXCEPT !.todo = Tail(call.todo)]
      /\ content' = content /\ signals' = signals
      /\ files' = [files EXCEPT ![Head(call.todo)[1]] = Head(call.todo)[2]]
      /\ exported' = IF call.op = "export" /\ Len(call.todo) = 1 THEN exported \cup {Head(call.todo)[2]} ELSE exported
  BY DEF WriteNext, Put
<1> DEFINE rest == Tail(call.todo)
<1>4. /\ DOMAIN call' = DOMAIN call /\ call'.op = call.op /\ call'.undo = call.undo
      /\ call'.failing = call.failing /\ call'.began = call.began /\ call'.todo = rest
  BY <1>2, <1>3
<1> DEFINE Facts ==
             /\ Listed(rest)
             /\ Len(call.todo) \in Nat \ {0} /\ DOMAIN call.todo = 1 .. Len(call.todo) /\ Head(call.todo) = call.todo[1]
             /\ Len(rest) = Len(call.todo) - 1 /\ DOMAIN rest = 1 .. Len(rest)
             /\ \A i \in 1 .. Len(rest) : rest[i] = call.todo[i + 1]
             /\ rest = <<>> <=> Len(rest) = 0
<1>0. Listed(call.todo) => Facts
  <2> SUFFICES ASSUME Listed(call.todo) PROVE Facts
    OBVIOUS
  <2>1. /\ Listed(rest)
        /\ Len(call.todo) \in Nat \ {0} /\ Head(call.todo) = call.todo[1]
        /\ Len(rest) = Len(call.todo) - 1 /\ DOMAIN rest = 1 .. Len(call.todo) - 1
        /\ \A i \in 1 .. Len(call.todo) - 1 : rest[i] = call.todo[i + 1]
    BY <1>3, ListedTail
  <2>2. DOMAIN call.todo = 1 .. Len(call.todo) /\ (rest = <<>> <=> Len(rest) = 0)
    BY <2>1, ListedFacts
  <2> HIDE DEF rest
  <2> QED
    BY <2>1, <2>2
<1>5. CASE BuildCall(t)
  <2>1. exported' = exported
    BY <1>3, <1>5 DEF BuildCall
  <2>2. PICK b : b = call.began
    OBVIOUS
  <2>3. Rollback(b, t)'
    BY <1>2, <1>5, <2>2, RollbackWrites DEF BuildCall
  <2>4. BuildTarget(b, t)'
    BY <1>3, <1>5, <2>1, <2>2, BuildTargetStays DEF BuildCall
  <2>5. BuildCall(t)'
    BY <1>4, <1>5, <2>2, <2>3, <2>4 DEF BuildCall
  <2> QED
    BY <1>2, <1>3, <1>4, <2>1, <2>5, SentStays DEF IInv, InHand
<1>6. CASE ImportCall(t)
  <2>1. exported' = exported
    BY <1>3, <1>6 DEF ImportCall
  <2>2. PICK b : b = call.began
    OBVIOUS
  <2>3. /\ Rollback(b, t)' /\ Head(call.todo)[1] \in Paths
        /\ files' = [files EXCEPT ![Head(call.todo)[1]] = t[Head(call.todo)[1]]]
    BY <1>2, <1>6, <2>2, RollbackWrites DEF ImportCall
  <2>4. ImportTarget(b, t)'
    BY <1>3, <1>6, <2>1, <2>2, ImportTargetStays DEF ImportCall
  <2>5. Listed(call.todo)
    BY <1>6 DEF ImportCall, Rollback
  <2>6. Facts
    BY <1>3, <2>5, <1>0
  <2>7. \A i \in DOMAIN rest : rest[i][1] = "log" => i = Len(rest)
    <3> HIDE DEF rest
    <3> QED
      BY <1>6, <2>6 DEF ImportCall
  <2>9. ASSUME rest # <<>>
        PROVE  files'.log = b.log
    <3>1. Len(call.todo) # 1
      BY <2>6, <2>9
    <3>2. 1 \in DOMAIN call.todo
      BY <2>6
    <3>3. call.todo[1][1] # "log"
      BY <3>1, <3>2, <1>6 DEF ImportCall
    <3>4. Head(call.todo)[1] # "log"
      BY <3>3, <2>6
    <3> QED
      BY <1>3, <1>6, <2>2, <2>3, <3>4 DEF ImportCall, Rollback, Paths
  <2>8. ImportCall(t)'
    BY <1>3, <1>4, <1>6, <2>2, <2>3, <2>4, <2>7, <2>9 DEF ImportCall
  <2> QED
    BY <1>2, <1>3, <1>4, <2>1, <2>8, SentStays DEF IInv, InHand
<1>7. CASE ExportCall
  <2>1. /\ Good(files) /\ HandoffClean(c, Ids(files.evidence), files.handoff)
        /\ \A i \in DOMAIN call.todo : call.todo[i][1] = "bundle"
        /\ call.todo[Len(call.todo)][2] = BundleFiles
        /\ Listed(call.todo)
    BY <1>3, <1>7 DEF ExportCall
  <2>2. Facts
    BY <1>0, <1>3, <2>1
  <2>3. Head(call.todo)[1] = "bundle"
    BY <2>1, <2>2
  <2>4. DOMAIN files' = Paths /\ \A p \in Paths \ {"bundle"} : files'[p] = files[p]
    BY <1>3, <2>1, <2>3 DEF Good
  <2>5. /\ files'.evidence = files.evidence /\ files'.changes = files.changes /\ files'.feedback = files.feedback
        /\ files'.log = files.log /\ files'.handoff = files.handoff
    BY <2>4 DEF Paths
  <2>6. files.handoff # NoHandoff /\ files.handoff.revision \in Nat
    BY <2>1 DEF HandoffClean, Good, Revised
  <2>7. exported' = exported \/ exported' = exported \cup {BundleFiles}
    BY <1>3, <2>1, <2>2
  <2>8. BundleFiles.handoff = files.handoff /\ BundleFiles.content = content
    BY DEF BundleFiles
  <2>9. Ahead(files.handoff)'
    BY <2>1, <2>5, <2>6, <2>7, <2>8 DEF Ahead, Covers, Good
  <2>10. Supported(files.evidence)'
    BY <2>1, <2>5, <2>7, <2>8 DEF Supported, Good, c
  <2>11. SentOnce'
    BY <1>2, <2>1, <2>6, <2>7, <2>8 DEF SentOnce, OneContentPerRevision, Good, Ahead, Covers
  <2>12. Good(files)'
    <3>1. Sound(files'.evidence, files'.changes, files'.feedback, files'.log)
      BY <2>1, <2>5 DEF Good
    <3>2. Backed(files.feedback, files.log)'
      <4>1. Backed(files.feedback, files.log)
        BY <2>1 DEF Good
      <4>2. files'.feedback = files.feedback /\ files'.log = files.log /\ signals' = signals
        BY <1>3, <2>5
      <4> QED
        BY ONLY <4>1, <4>2 DEF Backed
    <3>3. Revised(files.handoff)'
      BY <2>1, <2>5 DEF Good, Revised
    <3> QED
      BY <2>4, <2>9, <2>10, <3>1, <3>2, <3>3 DEF Good
  <2>13. ASSUME rest # <<>>
         PROVE  rest[Len(rest)][2] = BundleFiles'
    <3> HIDE DEF rest
    <3>1. Len(rest) \in 1 .. Len(rest) /\ Len(rest) + 1 = Len(call.todo)
      BY <2>2, <2>13
    <3>2. rest[Len(rest)] = call.todo[Len(call.todo)]
      BY <2>2, <3>1
    <3> QED
      BY <1>3, <2>1, <2>5, <3>2 DEF BundleFiles
  <2>14. \A i \in DOMAIN rest : rest[i][1] = "bundle"
    <3> HIDE DEF rest
    <3> QED
      BY <2>1, <2>2
  <2>15. HandoffClean(c, Ids(files.evidence), files.handoff)'
    BY <1>3, <2>1, <2>5 DEF c
  <2>16. ExportCall'
    BY <1>4, <1>7, <2>2, <2>12, <2>13, <2>14, <2>15 DEF ExportCall
  <2> QED
    BY <1>2, <1>3, <1>4, <2>11, <2>16 DEF IInv, InHand
<1>8. CASE call = Idle
  BY <1>3, <1>8 DEF Idle
<1> QED
  BY <1>1, <1>5, <1>6, <1>7, <1>8 DEF InHand

LEMMA WriteFailsKeeps ==
  ASSUME IInv, WriteFails
  PROVE  IInv'
<1>1. PICK t : InHand(t)
  BY DEF IInv
<1>2. /\ DOMAIN call = {"op", "todo", "undo", "failing", "began"} /\ call.failing \in BOOLEAN
      /\ DOMAIN signals = ResultIds /\ SentOnce
  BY DEF IInv
<1>3. /\ ~call.failing /\ call.todo # <<>> /\ call' = [call EXCEPT !.failing = TRUE]
      /\ content' = content /\ signals' = signals /\ files' = files /\ exported' = exported
  BY DEF WriteFails
<1>4. /\ DOMAIN call' = DOMAIN call /\ call'.op = call.op /\ call'.undo = call.undo
      /\ call'.failing = TRUE /\ call'.began = call.began /\ call'.todo = call.todo
  BY <1>2, <1>3
<1> PICK b : b = call.began
  OBVIOUS
<1>5. Rollback(b, t) => Rollback(b, t)'
  BY <1>3, <1>4 DEF Rollback
<1>6. CASE BuildCall(t)
  <2>1. BuildTarget(b, t)'
    BY <1>3, <1>6, BuildTargetStays DEF BuildCall
  <2>2. BuildCall(t)'
    BY <1>4, <1>5, <1>6, <2>1 DEF BuildCall
  <2> QED
    BY <1>2, <1>3, <1>4, <2>2, SentStays DEF IInv, InHand
<1>7. CASE ImportCall(t)
  <2>1. ImportTarget(b, t)'
    BY <1>3, <1>7, ImportTargetStays DEF ImportCall
  <2>2. ImportCall(t)'
    BY <1>3, <1>4, <1>5, <1>7, <2>1 DEF ImportCall
  <2> QED
    BY <1>2, <1>3, <1>4, <2>2, SentStays DEF IInv, InHand
<1>8. CASE ExportCall
  <2>1. Good(files)'
    BY <1>3, <1>8 DEF ExportCall, Good, Ahead, Revised, Supported, Backed
  <2>2. ExportCall'
    BY <1>3, <1>4, <1>8, <2>1 DEF ExportCall, BundleFiles, c
  <2> QED
    BY <1>2, <1>3, <1>4, <2>2, SentStays DEF IInv, InHand
<1>9. CASE call = Idle
  BY <1>3, <1>9 DEF Idle
<1> QED
  BY <1>1, <1>6, <1>7, <1>8, <1>9 DEF InHand

(* The log of an import that has written it is valid, so it is not         *)
(* refused any more.                                                       *)
LEMMA RejectKeeps ==
  ASSUME IInv, Reject
  PROVE  IInv'
<1>1. PICK t : InHand(t)
  BY DEF IInv
<1>2. /\ DOMAIN call = {"op", "todo", "undo", "failing", "began"} /\ call.failing \in BOOLEAN
      /\ DOMAIN signals = ResultIds /\ SentOnce
  BY DEF IInv
<1>3. /\ ~call.failing /\ call.todo = <<>> /\ call' = [call EXCEPT !.failing = TRUE]
      /\ call.op \in {"build", "import"} /\ ~Valid(files)
      /\ content' = content /\ signals' = signals /\ files' = files /\ exported' = exported
  BY DEF Reject
<1>4. /\ DOMAIN call' = DOMAIN call /\ call'.op = call.op /\ call'.undo = call.undo
      /\ call'.failing = TRUE /\ call'.began = call.began /\ call'.todo = call.todo
  BY <1>2, <1>3
<1> PICK b : b = call.began
  OBVIOUS
<1>5. Rollback(b, t) => Rollback(b, t)'
  BY <1>3, <1>4 DEF Rollback
<1>6. CASE BuildCall(t)
  <2>1. BuildTarget(b, t)'
    BY <1>3, <1>6, BuildTargetStays DEF BuildCall
  <2>2. BuildCall(t)'
    BY <1>4, <1>5, <1>6, <2>1 DEF BuildCall
  <2> QED
    BY <1>2, <1>3, <1>4, <2>2, SentStays DEF IInv, InHand
<1>7. CASE ImportCall(t)
  <2>1. ImportTarget(b, t)'
    BY <1>3, <1>7, ImportTargetStays DEF ImportCall
  <2>2. \A p \in Paths : files[p] = t[p]
    BY <1>3, <1>7, RollbackDone DEF ImportCall
  <2>3. /\ files.evidence = t.evidence /\ files.manifest = t.manifest /\ files.handoff = t.handoff
        /\ files.state = t.state /\ files.report = t.report /\ files.log = t.log
    BY <2>2 DEF Paths
  <2>4. ~Valid(t)
    BY <1>3, <2>3 DEF Valid
  <2>5. files.log = call.began.log
    BY <1>7, <2>3, <2>4 DEF ImportCall, ImportTarget
  <2>6. ImportCall(t)'
    BY <1>3, <1>4, <1>5, <1>7, <2>1, <2>5 DEF ImportCall
  <2> QED
    BY <1>2, <1>3, <1>4, <2>6, SentStays DEF IInv, InHand
<1>8. CASE ExportCall \/ call = Idle
  BY <1>3, <1>8 DEF Idle, ExportCall
<1> QED
  BY <1>1, <1>6, <1>7, <1>8 DEF InHand

LEMMA PutBackKeeps ==
  ASSUME IInv, PutBack
  PROVE  IInv'
<1>1. PICK t : InHand(t)
  BY DEF IInv
<1>2. /\ DOMAIN call = {"op", "todo", "undo", "failing", "began"} /\ call.failing \in BOOLEAN
      /\ DOMAIN signals = ResultIds /\ SentOnce
  BY DEF IInv
<1>3. /\ call.failing /\ call.undo # <<>> /\ call' = [call EXCEPT !.undo = Tail(@)]
      /\ content' = content /\ signals' = signals /\ exported' = exported
  BY DEF PutBack
<1>4. /\ DOMAIN call' = DOMAIN call /\ call'.op = call.op /\ call'.todo = call.todo
      /\ call'.failing = call.failing /\ call'.began = call.began
  BY <1>2, <1>3
<1> PICK b : b = call.began
  OBVIOUS
<1>5. CASE BuildCall(t)
  <2>1. BuildTarget(b, t)'
    BY <1>3, <1>5, BuildTargetStays DEF BuildCall
  <2>2. Rollback(b, t)'
    BY <1>2, <1>5, RollbackPutsBack DEF BuildCall
  <2>3. BuildCall(t)'
    BY <1>4, <1>5, <2>1, <2>2 DEF BuildCall
  <2> QED
    BY <1>2, <1>3, <1>4, <2>3, SentStays DEF IInv, InHand
<1>6. CASE ImportCall(t)
  <2>1. ImportTarget(b, t)'
    BY <1>3, <1>6, ImportTargetStays DEF ImportCall
  <2>2. /\ Rollback(b, t)' /\ Head(call.undo)[1] \in Paths
        /\ files' = [files EXCEPT ![Head(call.undo)[1]] = b[Head(call.undo)[1]]]
    BY <1>2, <1>6, RollbackPutsBack DEF ImportCall
  <2>3. files.log = b.log
    BY <1>3, <1>6 DEF ImportCall
  <2>4. files'.log = b.log
    BY <1>6, <2>2, <2>3 DEF ImportCall, Rollback, Paths
  <2>5. ImportCall(t)'
    BY <1>4, <1>6, <2>1, <2>2, <2>4 DEF ImportCall
  <2> QED
    BY <1>2, <1>3, <1>4, <2>5, SentStays DEF IInv, InHand
<1>7. CASE ExportCall \/ call = Idle
  BY <1>3, <1>7 DEF Idle, ExportCall
<1> QED
  BY <1>1, <1>5, <1>6, <1>7 DEF InHand

-----------------------------------------------------------------------------
(* The commands that are one step, and what others do between commands.    *)

LEMMA FreeIsGood ==
  ASSUME IInv
  PROVE  Good(files)
  BY InHandIsGood DEF IInv

LEMMA StillFree ==
  ASSUME Free, call' = call, DOMAIN signals' = ResultIds, SentOnce', Good(files)'
  PROVE  IInv'
<1>1. call' = Idle /\ DOMAIN call' = {"op", "todo", "undo", "failing", "began"} /\ call'.failing \in BOOLEAN
  BY DEF Free, Idle
<1> QED
  BY <1>1 DEF IInv, InHand

LEMMA EditRecordsKeeps ==
  ASSUME IInv, EditRecords
  PROVE  IInv'
<1>1. Free /\ UNCHANGED <<files, signals, exported, call>>
  BY DEF EditRecords
<1>2. Good(files)'
  BY <1>1, FreeIsGood DEF Good, Ahead, Revised, Supported, Backed
<1> QED
  BY <1>1, <1>2, StillFree, SentStays DEF IInv

LEMMA CheckOutViewerKeeps ==
  ASSUME IInv, CheckOutViewer
  PROVE  IInv'
<1>1. /\ Free /\ UNCHANGED <<signals, exported, call>>
      /\ files' = [files EXCEPT !.viewer = Front(files.viewer)]
  BY DEF CheckOutViewer
<1>2. Good(files)
  BY FreeIsGood
<1>3. DOMAIN files' = Paths /\ \A p \in Paths \ {"viewer"} : files'[p] = files[p]
  BY <1>1, <1>2 DEF Good
<1>4. /\ files'.evidence = files.evidence /\ files'.changes = files.changes /\ files'.feedback = files.feedback
      /\ files'.log = files.log /\ files'.handoff = files.handoff
  BY <1>3 DEF Paths
<1>5. Good(files)'
  BY <1>1, <1>2, <1>3, <1>4, GoodFilesStay
<1> QED
  BY <1>1, <1>5, StillFree, SentStays DEF IInv

(* An event that is no import, and no reopening, may be appended.          *)
LEMMA AppendUntold ==
  ASSUME NEW ev, NEW ch, NEW fb, NEW log, NEW e,
         LogOK(log), Whole(ev, ch, fb, log),
         e.type = "STATE_TRANSITION", \E x : e.id = <<"MOVE", x>>
  PROVE  /\ LogOK(Append(log, e)) /\ Whole(ev, ch, fb, Append(log, e))
         /\ \A i \in DOMAIN log : i \in DOMAIN Append(log, e) /\ Append(log, e)[i] = log[i]
<1> DEFINE new == Append(log, e)
           n == Len(log) + 1
<1>1. Listed(log) /\ Len(log) \in Nat /\ DOMAIN log = 1 .. Len(log)
  BY ListedFacts DEF LogOK
<1>2. log \in Seq(Values(log) \cup {e})
  BY <1>1, SeqMonotonic DEF Listed
<1>3. /\ new \in Seq(Values(log) \cup {e}) /\ Len(new) = n
      /\ \A i \in 1 .. Len(log) : new[i] = log[i]
      /\ new[n] = e
  BY <1>2, AppendProperties
<1>4. Listed(new) /\ DOMAIN new = 1 .. n
  BY <1>3, SeqIsListed, LenProperties
<1>5. ~IsImport(e) /\ (\A id : e.id # <<"IMPORT", id>> /\ e.id # <<"REOPEN", id>>)
  BY DEF IsImport
<1> HIDE DEF new
<1>6. \A i \in DOMAIN new : i \in DOMAIN log \/ i = n
  BY <1>1, <1>4
<1>7. \A i \in DOMAIN log : i \in DOMAIN new /\ new[i] = log[i]
  BY <1>1, <1>3, <1>4
<1>8. \A i \in DOMAIN new : (IsImport(new[i]) \/ \E id : new[i].id \in {<<"IMPORT", id>>, <<"REOPEN", id>>})
                              => i \in DOMAIN log /\ new[i] = log[i]
  BY <1>3, <1>5, <1>6, <1>7
<1>9. Ids(log) \subseteq Ids(new)
  BY <1>7 DEF Ids
<1>10. \A id : <<"REOPEN", id>> \in Ids(new) => <<"REOPEN", id>> \in Ids(log)
  BY <1>8 DEF Ids
<1>11. LogOK(new)
  BY <1>4, <1>8, <1>9, <1>10 DEF LogOK
<1>12. Whole(ev, ch, fb, new)
  BY <1>8, <1>9 DEF Whole, ToldWhole
<1> QED
  BY <1>7, <1>11, <1>12 DEF new

(* The first part of a move's ID tells it from an import's events.     *)
LEMMA AdvanceKeeps ==
  ASSUME IInv, NEW to \in Goals, Advance(to)
  PROVE  IInv'
<1> DEFINE e == MoveEvent(<<"MOVE", ToString(moves)>>, to)
           log == files.log
<1>1. /\ Free /\ UNCHANGED <<content, signals, exported, call>>
      /\ files' = [files EXCEPT !.manifest = to, !.state = to,
                                !.report = IF to \in Completions THEN to ELSE @,
                                !.log = Append(log, e)]
  BY DEF Advance
<1>2. Good(files)
  BY FreeIsGood
<1>3. DOMAIN files' = Paths
  BY <1>1, <1>2 DEF Good
<1>4. /\ files'.evidence = files.evidence /\ files'.changes = files.changes /\ files'.feedback = files.feedback
      /\ files'.handoff = files.handoff
  BY <1>1, <1>2 DEF Good, Paths
<1>5. files'.log = Append(log, e)
  BY <1>1, <1>2 DEF Good, Paths
<1>6. e.type = "STATE_TRANSITION" /\ \E x : e.id = <<"MOVE", x>>
  BY DEF MoveEvent, Event
<1>7. LogOK(log) /\ Whole(files.evidence, files.changes, files.feedback, log)
  BY <1>2 DEF Good, Sound
<1> HIDE DEF e
<1>8. LogOK(Append(log, e)) /\ Whole(files.evidence, files.changes, files.feedback, Append(log, e))
      /\ \A i \in DOMAIN log : i \in DOMAIN Append(log, e) /\ Append(log, e)[i] = log[i]
  BY <1>6, <1>7, AppendUntold
<1>9. Sound(files'.evidence, files'.changes, files'.feedback, files'.log)
  BY <1>2, <1>4, <1>5, <1>8 DEF Good, Sound
<1>10. (Ahead(files.handoff) /\ Revised(files.handoff) /\ Supported(files.evidence))'
  BY <1>1, <1>2, <1>4 DEF Good, Ahead, Revised, Supported
<1>11. Backed(files.feedback, files.log)'
  <2>1. Backed(files.feedback, log)
    BY <1>2 DEF Good
  <2> QED
    <3>1. /\ files'.feedback = files.feedback /\ signals' = signals
          /\ \A i \in DOMAIN log : i \in DOMAIN files'.log /\ files'.log[i] = log[i]
      BY <1>1, <1>4, <1>5, <1>8
    <3> HIDE DEF log
    <3> QED
      BY <2>1, <3>1 DEF Backed
<1>12. Good(files)'
  BY <1>3, <1>9, <1>10, <1>11 DEF Good
<1> QED
  BY <1>1, <1>12, StillFree, SentStays DEF IInv

(* A signal tells the body of the one recorded and audited result.         *)
LEMMA ExportSignalsKeeps ==
  ASSUME IInv, NEW id \in ResultIds, ExportSignals(id)
  PROVE  IInv'
<1> DEFINE i == CHOOSE i \in Feedback(id) : TRUE
<1>1. /\ Free /\ LoadImportedResult(id) /\ UNCHANGED <<content, files, exported, call>>
      /\ signals' = [signals EXCEPT ![id] = files.feedback[i].body]
  BY DEF ExportSignals
<1>2. Good(files) /\ DOMAIN signals = ResultIds
  BY FreeIsGood DEF IInv
<1>3. Feedback(id) # {} /\ Audits(id) # {}
  BY <1>1, FS_EmptySet DEF LoadImportedResult
<1>4. i \in Feedback(id)
  BY <1>3
<1>5. PICK j \in Audits(id) : files.feedback[i].body = files.log[j].body
  BY <1>1, <1>3, <1>4 DEF LoadImportedResult
<1> HIDE DEF i
<1>6. /\ i \in DOMAIN files.feedback /\ files.feedback[i].id = id
      /\ j \in DOMAIN files.log /\ files.log[j].id = <<"IMPORT", id>>
  BY <1>2, <1>4, <1>5 DEF Feedback, Audits, Good, Sound, LogOK, IsImport
<1>7. Backed(files.feedback, files.log)
  BY <1>2 DEF Good
<1>8. Backed(files.feedback, files.log)'
  BY <1>1, <1>2, <1>5, <1>6, <1>7 DEF Backed
<1>9. Good(files)'
  BY <1>1, <1>2, <1>8 DEF Good, Ahead, Revised, Supported
<1> QED
  BY <1>1, <1>2, <1>9, StillFree, SentStays DEF IInv

(* A handoff that is replaced gives way to a later revision.               *)
LEMMA BuildHandoffKeeps ==
  ASSUME IInv, NEW id \in HandoffIds, NEW revision \in 1 .. MaxRevision, NEW supersedes \in HandoffIds \cup {None},
         BuildHandoff(id, revision, supersedes)
  PROVE  IInv'
<1> DEFINE final == IF supersedes = None /\ files.handoff # NoHandoff THEN files.handoff.supersedes ELSE supersedes
           h == Payload(c, files.manifest, id, revision, final)
           todo == <<Write("handoff", h)>>
           paths == <<"handoff">>
<1>1. /\ Free /\ MayReplace(files.handoff, h)
      /\ Begin("build", todo, Undo(paths))
      /\ UNCHANGED <<content, files, signals, exported>>
  BY DEF BuildHandoff
<1>2. Good(files) /\ DOMAIN signals = ResultIds /\ SentOnce
  BY FreeIsGood DEF IInv
<1>3. h.revision = revision /\ h # NoHandoff
  <2>1. h.revision = revision /\ "revision" \in DOMAIN h
    BY DEF Payload
  <2>2. "revision" \notin DOMAIN NoHandoff
    BY DEF NoHandoff
  <2> QED
    BY <2>1, <2>2
<1>4. revision \in Nat
  BY ProductionAssumption
<1> HIDE DEF h
<1>5. Revised(h) /\ Ahead(h)
  <2>1. Revised(h)
    BY <1>3, <1>4 DEF Revised
  <2>2. ASSUME NEW x \in exported
        PROVE  Covers(h, x.handoff)
    <3>1. files.handoff # NoHandoff /\ Covers(files.handoff, x.handoff) /\ files.handoff.revision \in Nat
      BY <1>2 DEF Good, Ahead, Revised
    <3>2. files.handoff = h \/ h.revision > files.handoff.revision
      BY <1>1, <3>1 DEF MayReplace
    <3> QED
      BY <1>3, <1>4, <3>1, <3>2 DEF Covers
  <2> QED
    BY <1>3, <2>1, <2>2 DEF Ahead
<1>6. PICK t : t = [files EXCEPT !.handoff = h]
  OBVIOUS
<1>7. /\ DOMAIN files = Paths /\ DOMAIN t = Paths
      /\ t.handoff = h /\ \A p \in Paths \ {"handoff"} : t[p] = files[p]
  BY <1>2, <1>6 DEF Good, Paths
<1>8. Rollback(files, t)'
  <2>1. Listed(paths) /\ Listed(todo) /\ Values(paths) = {"handoff"} /\ Values(todo) = {<<"handoff", h>>}
    BY ShortListed DEF Values, Write
  <2>2. \A w \in Values(todo) : w[1] \in Values(paths) /\ w[2] = t[w[1]]
    BY <1>7, <2>1
  <2>3. \A p \in Paths : files[p] = t[p] \/ Pending(todo, p)
    <3>1. <<"handoff", h>> \in Values(todo) /\ <<"handoff", h>>[1] = "handoff"
      BY <2>1
    <3>2. Pending(todo, "handoff")
      BY <3>1 DEF Pending
    <3> QED
      BY <1>7, <3>2
  <2> QED
    BY <1>1, <1>7, <2>1, <2>2, <2>3, RollbackStarts DEF Paths
<1>9. /\ DOMAIN call' = {"op", "todo", "undo", "failing", "began"} /\ call'.failing \in BOOLEAN
      /\ call'.op = "build" /\ call'.began = files
  BY <1>1, Started
<1>10. BuildTarget(files, t)
  BY <1>2, <1>5, <1>7 DEF BuildTarget
<1>11. PICK b : b = files
  OBVIOUS
<1>12. BuildTarget(b, t)'
  BY <1>1, <1>10, <1>11, BuildTargetStays
<1>13. Rollback(b, t)'
  BY <1>1, <1>8, <1>11
<1>14. BuildCall(t)'
  BY <1>9, <1>11, <1>12, <1>13 DEF BuildCall
<1> QED
  BY <1>1, <1>2, <1>9, <1>14, SentStays DEF IInv, InHand

LEMMA ExportHandoffKeeps ==
  ASSUME IInv, ExportHandoff
  PROVE  IInv'
<1> DEFINE todo == IF files.bundle = NoBundle THEN <<Write("bundle", BundleFiles)>>
                   ELSE <<Write("bundle", NoBundle), Write("bundle", BundleFiles)>>
<1>1. /\ MayExport /\ Begin("export", todo, <<>>)
      /\ UNCHANGED <<content, files, signals, exported>>
  BY DEF ExportHandoff
<1>2. Good(files) /\ DOMAIN signals = ResultIds /\ SentOnce
  BY FreeIsGood DEF IInv
<1>3. /\ Listed(todo)
      /\ \A i \in DOMAIN todo : todo[i][1] = "bundle"
      /\ todo[Len(todo)][2] = BundleFiles
  BY ShortListed DEF Write
<1> HIDE DEF todo
<1>4. /\ DOMAIN call' = {"op", "todo", "undo", "failing", "began"} /\ call'.failing \in BOOLEAN
      /\ call'.op = "export" /\ call'.todo = todo /\ call'.undo = <<>>
  BY <1>1, Started
<1>5. HandoffClean(c, Ids(files.evidence), files.handoff)
  BY <1>1 DEF MayExport, Valid
<1>6. Good(files)'
  BY <1>1, <1>2, GoodFilesStay DEF Good
<1>7. ExportCall'
  BY <1>1, <1>3, <1>4, <1>5, <1>6 DEF ExportCall, BundleFiles, c
<1> QED
  BY <1>1, <1>2, <1>4, <1>7, SentStays DEF IInv, InHand

-----------------------------------------------------------------------------
(* What an import adds to each file.                                       *)

LEMMA SetToSeqFacts ==
  ASSUME NEW S, IsFiniteSet(S)
  PROVE  /\ Listed(SetToSeq(S)) /\ Len(SetToSeq(S)) = Cardinality(S)
         /\ Values(SetToSeq(S)) = S
         /\ \A i, j \in DOMAIN SetToSeq(S) : SetToSeq(S)[i] = SetToSeq(S)[j] => i = j
<1> DEFINE n == Cardinality(S)
           s == SetToSeq(S)
<1>1. n \in Nat /\ ExistsBijection(1 .. n, S)
  BY FS_CardinalityType
<1>2. \E f \in [1 .. n -> S] : IsInjective(f)
  BY <1>1 DEF ExistsBijection, Bijection, Injection
<1>3. s \in [1 .. n -> S] /\ IsInjective(s)
  BY <1>2 DEF SetToSeq
<1>4. Cardinality(1 .. n) = n
  BY <1>1, FS_Interval
<1>5. s \in Injection(1 .. n, S)
  BY <1>3 DEF Injection
<1>6. s \in Surjection(1 .. n, S)
  BY <1>4, <1>5, FS_Injection
<1> HIDE DEF s, n
<1>7. s \in Seq(S) /\ Len(s) = n /\ DOMAIN s = 1 .. n
  BY <1>1, <1>3, SeqDef
<1>8. Values(s) = S
  BY <1>3, <1>6, <1>7 DEF Values, Surjection
<1>9. Listed(s)
  BY <1>7, SeqIsListed
<1> QED
  BY <1>3, <1>7, <1>8, <1>9 DEF s, n, IsInjective

LEMMA ImageFinite ==
  ASSUME NEW D, IsFiniteSet(D), NEW f, DOMAIN f = D
  PROVE  IsFiniteSet({f[x] : x \in D}) 
<1> DEFINE T == {f[x] : x \in D}
           g == [x \in D |-> f[x]]
<1>1. g \in Surjection(D, T)
  BY DEF Surjection
<1> QED
  BY <1>1, FS_Surjection

(* A source is known by its location, and a location names its result.     *)
LEMMA SourceFacts ==
  ASSUME NEW r, r.body \in DOMAIN Bodies
  PROVE  /\ IsFiniteSet(Sources(r))
         /\ \A s \in Sources(r) : s.loc[1] = r.id
         /\ \A s1, s2 \in Sources(r) : s1.loc = s2.loc => s1 = s2
<1> DEFINE b == Bodies[r.body]
           f == [o \in DOMAIN b.observations |-> [loc |-> <<r.id, "observations", o>>, hash |-> b.observations[o].says]]
           g == [x \in DOMAIN b.tests |-> [loc |-> <<r.id, "test_results", x>>, hash |-> b.tests[x]]]
           A == {f[o] : o \in DOMAIN b.observations}
           B == {g[x] : x \in DOMAIN b.tests}
<1>1. Sources(r) = A \cup B
  BY DEF Sources
<1>2. IsFiniteSet(DOMAIN b.observations) /\ IsFiniteSet(DOMAIN b.tests)
  BY LedgerAssumption
<1>3. IsFiniteSet(A) /\ IsFiniteSet(B)
  <2>1. DOMAIN f = DOMAIN b.observations /\ DOMAIN g = DOMAIN b.tests
    OBVIOUS
  <2> HIDE DEF f, g
  <2> QED
    BY <1>2, <2>1, ImageFinite
<1>4. IsFiniteSet(Sources(r))
  <2> HIDE DEF A, B
  <2> QED
    BY <1>1, <1>3, FS_Union
<1>5. \A s \in Sources(r) : s.loc[1] = r.id
  BY DEF Sources
<1>6. \A s1, s2 \in Sources(r) : s1.loc = s2.loc => s1 = s2
  BY DEF Sources
<1> QED
  BY <1>4, <1>5, <1>6

LEMMA CandidateFacts ==
  ASSUME NEW r, r.body \in DOMAIN Bodies, Listed(files.evidence)
  PROVE  LET ev == files.evidence
             N == CandidateRecords(r)
         IN /\ Listed(N) /\ Len(N) <= Cardinality(Sources(r))
            /\ \A i \in DOMAIN N :
                 /\ N[i].id = EvidenceIds[Len(ev) + i]
                 /\ \E s \in Sources(r) : N[i].loc = s.loc
                 /\ \A k \in DOMAIN ev : ev[k].loc # N[i].loc
            /\ \A i, j \in DOMAIN N : N[i].loc = N[j].loc => i = j
            /\ \A s \in Sources(r) : (\E k \in DOMAIN ev : ev[k].loc = s.loc) \/ (\E i \in DOMAIN N : N[i].loc = s.loc)
<1> DEFINE ev == files.evidence
           N == CandidateRecords(r)
           S == {s \in Sources(r) : \A e \in Values(ev) : e.loc # s.loc}
           new == SetToSeq(S)
<1>1. IsFiniteSet(Sources(r)) /\ (\A s1, s2 \in Sources(r) : s1.loc = s2.loc => s1 = s2)
  BY SourceFacts
<1>2. IsFiniteSet(S) /\ Cardinality(S) <= Cardinality(Sources(r))
  BY <1>1, FS_Subset
<1>3. N = [i \in DOMAIN new |-> [id |-> EvidenceIds[Len(ev) + i], loc |-> new[i].loc, hash |-> new[i].hash]]
  BY DEF CandidateRecords
<1> HIDE DEF N, new
<1>4. /\ Listed(new) /\ Len(new) = Cardinality(S) /\ Values(new) = S
      /\ \A i, j \in DOMAIN new : new[i] = new[j] => i = j
  BY <1>2, SetToSeqFacts DEF new
<1>5. Len(new) \in Nat /\ DOMAIN new = 1 .. Len(new) /\ (\A i \in DOMAIN new : new[i] \in S)
      /\ \A s \in S : \E i \in DOMAIN new : new[i] = s
  <2> HIDE DEF S
  <2>1. Len(new) \in Nat /\ DOMAIN new = 1 .. Len(new)
    BY <1>4, ListedFacts
  <2> QED
    BY <1>4, <2>1 DEF Values
<1>6. /\ DOMAIN N = DOMAIN new
      /\ \A i \in DOMAIN N : N[i].id = EvidenceIds[Len(ev) + i] /\ N[i].loc = new[i].loc
  BY <1>3
<1>7. Listed(N) /\ Len(N) = Len(new)
  <2>1. N \in [1 .. Len(new) -> Values(N)]
    BY <1>3, <1>5 DEF Values
  <2> QED
    BY <1>5, <2>1, SeqDef DEF Listed
<1>8. \A i \in DOMAIN N : (\E s \in Sources(r) : N[i].loc = s.loc) /\ \A k \in DOMAIN ev : ev[k].loc # N[i].loc
  BY <1>5, <1>6 DEF Values
<1>9. \A i, j \in DOMAIN N : N[i].loc = N[j].loc => i = j
  BY <1>1, <1>4, <1>5, <1>6
<1>10. \A s \in Sources(r) : (\E k \in DOMAIN ev : ev[k].loc = s.loc) \/ (\E i \in DOMAIN N : N[i].loc = s.loc)
  BY <1>5, <1>6 DEF Values
<1> QED
  BY <1>2, <1>4, <1>6, <1>7, <1>8, <1>9, <1>10 DEF N

LEMMA ChangeFacts ==
  ASSUME NEW r, r.body \in DOMAIN Bodies
  PROVE  LET ch == files.changes
             D == ChangeRecords(r)
         IN /\ Listed(D)
            /\ \A i \in DOMAIN D : /\ D[i].result = r.id /\ D[i].source \in DOMAIN Bodies[r.body].changes
                                   /\ \A k \in DOMAIN ch : ch[k].result = r.id => ch[k].source # D[i].source
            /\ \A i, j \in DOMAIN D : D[i].source = D[j].source => i = j
            /\ \A x \in DOMAIN Bodies[r.body].changes :
                 (\E k \in DOMAIN ch : ch[k].result = r.id /\ ch[k].source = x) \/ (\E i \in DOMAIN D : D[i].source = x)
<1> DEFINE ch == files.changes
           D == ChangeRecords(r)
           S == {x \in DOMAIN Bodies[r.body].changes : \A d \in Values(ch) : <<d.result, d.source>> # <<r.id, x>>}
           new == SetToSeq(S)
<1>1. IsFiniteSet(S)
  BY LedgerAssumption, FS_Subset
<1>2. DOMAIN D = DOMAIN new /\ \A i \in DOMAIN D : D[i].result = r.id /\ D[i].source = new[i]
  BY DEF ChangeRecords
<1>3. D = [i \in DOMAIN D |-> D[i]]
  BY DEF ChangeRecords
<1> HIDE DEF D, new
<1>4. /\ Listed(new) /\ Values(new) = S
      /\ \A i, j \in DOMAIN new : new[i] = new[j] => i = j
  BY <1>1, SetToSeqFacts DEF new
<1>5. Len(new) \in Nat /\ DOMAIN new = 1 .. Len(new) /\ (\A i \in DOMAIN new : new[i] \in S)
      /\ \A s \in S : \E i \in DOMAIN new : new[i] = s
  <2> HIDE DEF S
  <2>1. Len(new) \in Nat /\ DOMAIN new = 1 .. Len(new)
    BY <1>4, ListedFacts
  <2> QED
    BY <1>4, <2>1 DEF Values
<1>6. Listed(D)
  <2>1. D \in [1 .. Len(new) -> Values(D)]
    BY <1>2, <1>3, <1>5 DEF Values
  <2> QED
    BY <1>5, <2>1, SeqDef DEF Listed
<1>7. \A i \in DOMAIN D : /\ D[i].source \in DOMAIN Bodies[r.body].changes
                          /\ \A k \in DOMAIN ch : ch[k].result = r.id => ch[k].source # D[i].source
  BY <1>2, <1>5 DEF Values
<1>8. \A x \in DOMAIN Bodies[r.body].changes :
        (\E k \in DOMAIN ch : ch[k].result = r.id /\ ch[k].source = x) \/ (\E i \in DOMAIN D : D[i].source = x)
  BY <1>2, <1>5 DEF Values
<1> QED
  BY <1>2, <1>4, <1>6, <1>7, <1>8 DEF D

Extended(s, new) == IF new = <<>> THEN s ELSE s \o new
Extends(s, u) == DOMAIN s \subseteq DOMAIN u /\ \A k \in DOMAIN s : u[k] = s[k]

LEMMA ExtendedFacts ==
  ASSUME NEW s, NEW new, Listed(s), Listed(new)
  PROVE  LET u == Extended(s, new)
         IN /\ Listed(u) /\ Extends(s, u)
            /\ Len(s) \in Nat /\ Len(new) \in Nat /\ Len(u) = Len(s) + Len(new)
            /\ DOMAIN s = 1 .. Len(s) /\ DOMAIN new = 1 .. Len(new) /\ DOMAIN u = 1 .. Len(u)
            /\ \A i \in DOMAIN new : Len(s) + i \in DOMAIN u /\ u[Len(s) + i] = new[i]
            /\ \A k \in DOMAIN u : k \in DOMAIN s \/ \E i \in DOMAIN new : k = Len(s) + i
            /\ Values(u) = Values(s) \cup Values(new)
<1> DEFINE u == Extended(s, new)
<1>1. u = s \o new
  BY ConcatEmptySeq DEF Extended, Listed
<1>2. /\ Listed(u) /\ Len(u) = Len(s) + Len(new)
      /\ \A i \in 1 .. Len(s) : u[i] = s[i]
      /\ \A i \in 1 .. Len(new) : u[Len(s) + i] = new[i]
      /\ \A i \in 1 .. Len(u) : i \in 1 .. Len(s) \/ \E j \in 1 .. Len(new) : i = Len(s) + j
      /\ Values(u) = Values(s) \cup Values(new)
  BY <1>1, ListedConcat
<1>3. /\ Len(s) \in Nat /\ DOMAIN s = 1 .. Len(s)
      /\ Len(new) \in Nat /\ DOMAIN new = 1 .. Len(new)
      /\ DOMAIN u = 1 .. Len(u)
  BY <1>2, ListedFacts
<1> HIDE DEF u
<1>4. Extends(s, u)
  BY <1>2, <1>3 DEF Extends
<1>5. \A i \in DOMAIN new : Len(s) + i \in DOMAIN u
  BY <1>2, <1>3
<1> QED
  BY <1>2, <1>3, <1>4, <1>5 DEF u

NewEvidence(r) == Extended(files.evidence, CandidateRecords(r))
NewChanges(r) == Extended(files.changes, ChangeRecords(r))
NewFeedback(r) == Extended(files.feedback, IF Recorded(r) THEN <<>> ELSE <<r>>)
NewLog(r) == Extended(files.log, NewEvents(r))

CanImport(r) ==
  /\ Good(files)
  /\ r.id \in ResultIds /\ r.body \in DOMAIN Bodies
  /\ Acceptable(r) /\ MayReopen(r)
  /\ Len(files.evidence) + Cardinality(Sources(r)) <= Len(EvidenceIds)

LEMMA EvidenceAdded ==
  ASSUME NEW r, CanImport(r)
  PROVE  /\ EvidenceOK(NewEvidence(r)) /\ Extends(files.evidence, NewEvidence(r))
         /\ \A k \in DOMAIN NewEvidence(r) \ DOMAIN files.evidence : NewEvidence(r)[k].loc[1] = r.id
         /\ \A s \in Sources(r) : \E k \in DOMAIN NewEvidence(r) : NewEvidence(r)[k].loc = s.loc
<1> DEFINE ev == files.evidence
           N == CandidateRecords(r)
           u == NewEvidence(r)
<1>1. /\ EvidenceOK(ev) /\ r.body \in DOMAIN Bodies
      /\ Len(ev) + Cardinality(Sources(r)) <= Len(EvidenceIds)
  BY DEF CanImport, Good, Sound
<1>2. Listed(ev)
  BY <1>1 DEF EvidenceOK
<1>3. /\ Listed(N) /\ Len(N) <= Cardinality(Sources(r))
      /\ \A i \in DOMAIN N :
           /\ N[i].id = EvidenceIds[Len(ev) + i]
           /\ \E s \in Sources(r) : N[i].loc = s.loc
           /\ \A k \in DOMAIN ev : ev[k].loc # N[i].loc
      /\ \A i, j \in DOMAIN N : N[i].loc = N[j].loc => i = j
      /\ \A s \in Sources(r) : (\E k \in DOMAIN ev : ev[k].loc = s.loc) \/ (\E i \in DOMAIN N : N[i].loc = s.loc)
  BY <1>1, <1>2, CandidateFacts
<1>4. /\ Listed(u) /\ Extends(ev, u)
      /\ Len(ev) \in Nat /\ Len(N) \in Nat /\ Len(u) = Len(ev) + Len(N)
      /\ DOMAIN ev = 1 .. Len(ev) /\ DOMAIN N = 1 .. Len(N) /\ DOMAIN u = 1 .. Len(u)
      /\ \A i \in DOMAIN N : Len(ev) + i \in DOMAIN u /\ u[Len(ev) + i] = N[i]
      /\ \A k \in DOMAIN u : k \in DOMAIN ev \/ \E i \in DOMAIN N : k = Len(ev) + i
  BY <1>2, <1>3, ExtendedFacts DEF NewEvidence
<1>5. IsFiniteSet(Sources(r)) /\ \A s \in Sources(r) : s.loc[1] = r.id
  BY <1>1, SourceFacts
<1>6. Cardinality(Sources(r)) \in Nat /\ Len(EvidenceIds) \in Nat
  <2>1. Len(EvidenceIds) \in Nat
    BY LedgerAssumption
  <2> QED
    BY <1>5, <2>1, FS_CardinalityType
<1> HIDE DEF u, N, ev
<1>7. Len(u) <= Len(EvidenceIds)
  BY <1>1, <1>3, <1>4, <1>6
<1>8. \A k \in DOMAIN u : u[k].id = EvidenceIds[k]
  BY <1>1, <1>3, <1>4 DEF EvidenceOK, Extends
<1>9. ASSUME NEW k \in DOMAIN u, NEW l \in DOMAIN u, u[k].loc = u[l].loc
      PROVE  k = l
  <2>1. CASE k \in DOMAIN ev /\ l \in DOMAIN ev
    BY <1>1, <1>4, <1>9, <2>1 DEF EvidenceOK, Extends
  <2>2. CASE k \in DOMAIN ev /\ l \notin DOMAIN ev
    BY <1>3, <1>4, <1>9, <2>2 DEF Extends
  <2>3. CASE k \notin DOMAIN ev /\ l \in DOMAIN ev
    BY <1>3, <1>4, <1>9, <2>3 DEF Extends
  <2>4. CASE k \notin DOMAIN ev /\ l \notin DOMAIN ev
    <3>1. PICK i \in DOMAIN N, j \in DOMAIN N : k = Len(ev) + i /\ l = Len(ev) + j
      BY <1>4, <2>4
    <3> QED
      BY <1>3, <1>4, <1>9, <3>1
  <2> QED
    BY <2>1, <2>2, <2>3, <2>4
<1>10. EvidenceOK(u)
  BY <1>4, <1>7, <1>8, <1>9 DEF EvidenceOK
<1>11. \A k \in DOMAIN u \ DOMAIN ev : u[k].loc[1] = r.id
  <2> SUFFICES ASSUME NEW k \in DOMAIN u, k \notin DOMAIN ev PROVE u[k].loc[1] = r.id
    OBVIOUS
  <2>1. PICK i \in DOMAIN N : k = Len(ev) + i
    BY <1>4
  <2> QED
    BY <1>3, <1>4, <1>5, <2>1
<1>12. \A s \in Sources(r) : \E k \in DOMAIN u : u[k].loc = s.loc
  BY <1>3, <1>4 DEF Extends
<1> QED
  BY <1>4, <1>10, <1>11, <1>12 DEF u, ev

LEMMA ChangesAdded ==
  ASSUME NEW r, CanImport(r)
  PROVE  /\ ChangesOK(NewChanges(r)) /\ Extends(files.changes, NewChanges(r))
         /\ \A x \in DOMAIN Bodies[r.body].changes :
              \E k \in DOMAIN NewChanges(r) : NewChanges(r)[k].result = r.id /\ NewChanges(r)[k].source = x
<1> DEFINE ch == files.changes
           D == ChangeRecords(r)
           u == NewChanges(r)
<1>1. ChangesOK(ch) /\ r.body \in DOMAIN Bodies
  BY DEF CanImport, Good, Sound
<1>2. Listed(ch)
  BY <1>1 DEF ChangesOK
<1>3. /\ Listed(D)
      /\ \A i \in DOMAIN D : /\ D[i].result = r.id
                             /\ \A k \in DOMAIN ch : ch[k].result = r.id => ch[k].source # D[i].source
      /\ \A i, j \in DOMAIN D : D[i].source = D[j].source => i = j
      /\ \A x \in DOMAIN Bodies[r.body].changes :
           (\E k \in DOMAIN ch : ch[k].result = r.id /\ ch[k].source = x) \/ (\E i \in DOMAIN D : D[i].source = x)
  BY <1>1, ChangeFacts
<1>4. /\ Listed(u) /\ Extends(ch, u)
      /\ \A i \in DOMAIN D : Len(ch) + i \in DOMAIN u /\ u[Len(ch) + i] = D[i]
      /\ \A k \in DOMAIN u : k \in DOMAIN ch \/ \E i \in DOMAIN D : k = Len(ch) + i
  BY <1>2, <1>3, ExtendedFacts DEF NewChanges
<1> HIDE DEF u, D, ch
<1>5. ASSUME NEW k \in DOMAIN u, NEW l \in DOMAIN u, u[k].result = u[l].result, u[k].source = u[l].source
      PROVE  k = l
  <2>1. CASE k \in DOMAIN ch /\ l \in DOMAIN ch
    BY <1>1, <1>4, <1>5, <2>1 DEF ChangesOK, Extends
  <2>2. CASE k \in DOMAIN ch /\ l \notin DOMAIN ch
    BY <1>3, <1>4, <1>5, <2>2 DEF Extends
  <2>3. CASE k \notin DOMAIN ch /\ l \in DOMAIN ch
    BY <1>3, <1>4, <1>5, <2>3 DEF Extends
  <2>4. CASE k \notin DOMAIN ch /\ l \notin DOMAIN ch
    <3>1. PICK i \in DOMAIN D, j \in DOMAIN D : k = Len(ch) + i /\ l = Len(ch) + j
      BY <1>4, <2>4
    <3> QED
      BY <1>3, <1>4, <1>5, <3>1
  <2> QED
    BY <2>1, <2>2, <2>3, <2>4
<1>6. \A x \in DOMAIN Bodies[r.body].changes : \E k \in DOMAIN u : u[k].result = r.id /\ u[k].source = x
  BY <1>3, <1>4 DEF Extends
<1> QED
  BY <1>4, <1>5, <1>6 DEF ChangesOK, u, ch

LEMMA FeedbackAdded ==
  ASSUME NEW r, CanImport(r)
  PROVE  /\ FeedbackOK(NewFeedback(r)) /\ Extends(files.feedback, NewFeedback(r))
         /\ \E j \in DOMAIN NewFeedback(r) : NewFeedback(r)[j] = r
<1> DEFINE fb == files.feedback
           F == IF Recorded(r) THEN <<>> ELSE <<r>>
           u == NewFeedback(r)
<1>1. /\ FeedbackOK(fb) /\ r.id \in ResultIds /\ r.body \in DOMAIN Bodies
      /\ \A i \in DOMAIN fb : fb[i].id = r.id => fb[i] = r
  BY DEF CanImport, Good, Sound, Acceptable, Feedback
<1>2. Listed(fb)
  BY <1>1 DEF FeedbackOK
<1>3. CASE Recorded(r)
  <2>1. u = fb
    BY <1>3 DEF NewFeedback, Extended
  <2>2. \E j \in DOMAIN fb : fb[j] = r
    BY <1>3 DEF Recorded, Feedback
  <2> QED
    BY <1>1, <2>1, <2>2 DEF Extends
<1>4. CASE ~Recorded(r)
  <2>1. \A i \in DOMAIN fb : fb[i].id # r.id
    BY <1>1, <1>4 DEF Recorded, Feedback
  <2>2. F = <<r>> /\ DOMAIN <<r>> = {1} /\ <<r>>[1] = r
    BY <1>4
  <2>3. /\ Listed(u) /\ Extends(fb, u)
        /\ \A i \in DOMAIN F : Len(fb) + i \in DOMAIN u /\ u[Len(fb) + i] = F[i]
        /\ \A k \in DOMAIN u : k \in DOMAIN fb \/ \E i \in DOMAIN F : k = Len(fb) + i
    BY <1>2, <1>4, ShortListed, ExtendedFacts DEF NewFeedback
  <2> HIDE DEF F, u
  <2>4. /\ Len(fb) + 1 \in DOMAIN u /\ u[Len(fb) + 1] = r
        /\ \A k \in DOMAIN u : k \in DOMAIN fb \/ k = Len(fb) + 1
    BY <2>2, <2>3
  <2>5. FeedbackOK(u)
    BY <1>1, <2>1, <2>3, <2>4 DEF FeedbackOK, Extends
  <2> QED
    BY <2>3, <2>4, <2>5 DEF u
<1> QED
  BY <1>3, <1>4

LEMMA EventsAdded ==
  ASSUME NEW r, CanImport(r)
  PROVE  /\ LogOK(NewLog(r)) /\ Extends(files.log, NewLog(r)) /\ Ids(files.log) \subseteq Ids(NewLog(r))
         /\ \A k \in DOMAIN NewLog(r) \ DOMAIN files.log :
              IsImport(NewLog(r)[k]) => NewLog(r)[k] = AuditEvent(r) /\ <<"IMPORT", r.id>> \notin Ids(files.log)
         /\ Reopens(r) => <<"REOPEN", r.id>> \in Ids(NewLog(r))
<1> DEFINE log == files.log
           move == MoveEvent(<<"REOPEN", r.id>>, "ANALYZING")
           audit == AuditEvent(r)
           M == IF Reopens(r) THEN Unlogged(move) ELSE <<>>
           A == Unlogged(audit)
           L == NewEvents(r)
           u == NewLog(r)
<1>1. LogOK(log) /\ r.id \in ResultIds
  BY DEF CanImport, Good, Sound
<1>2. Listed(log)
  BY <1>1 DEF LogOK
<1>3. move.id = <<"REOPEN", r.id>> /\ move.type = "STATE_TRANSITION"
  BY DEF MoveEvent, Event
<1>4. audit.id = <<"IMPORT", r.id>> /\ audit.type = "PRODUCTION_FEEDBACK_IMPORTED" /\ audit.result = r.id
  BY DEF AuditEvent, Event
<1> HIDE DEF move, audit
<1>5. /\ Listed(M) /\ Listed(A)
      /\ \A w \in Values(M) : w = move /\ <<"REOPEN", r.id>> \notin Ids(log)
      /\ \A w \in Values(A) : w = audit /\ <<"IMPORT", r.id>> \notin Ids(log)
      /\ Reopens(r) => <<"REOPEN", r.id>> \in Ids(log) \/ move \in Values(M)
      /\ <<"IMPORT", r.id>> \in Ids(log) \/ audit \in Values(A)
  <2>1. Values(<<>>) = {} /\ \A x : Values(<<x>>) = {x}
    BY DEF Values
  <2>2. /\ Listed(Unlogged(move)) /\ Listed(Unlogged(audit)) /\ Listed(<<>>)
        /\ Values(Unlogged(move)) = IF <<"REOPEN", r.id>> \in Ids(log) THEN {} ELSE {move}
        /\ Values(Unlogged(audit)) = IF <<"IMPORT", r.id>> \in Ids(log) THEN {} ELSE {audit}
    BY <1>3, <1>4, <2>1, ShortListed DEF Unlogged
  <2>3. (Reopens(r) => M = Unlogged(move)) /\ (~Reopens(r) => M = <<>>) /\ A = Unlogged(audit)
    OBVIOUS
  <2> HIDE DEF M, A
  <2>4. Listed(M) /\ Listed(A)
    BY <2>2, <2>3
  <2>5. \A w \in Values(M) : w = move /\ <<"REOPEN", r.id>> \notin Ids(log)
    BY <2>1, <2>2, <2>3
  <2>6. \A w \in Values(A) : w = audit /\ <<"IMPORT", r.id>> \notin Ids(log)
    BY <2>2, <2>3
  <2>7. Reopens(r) => <<"REOPEN", r.id>> \in Ids(log) \/ move \in Values(M)
    BY <2>2, <2>3
  <2>8. <<"IMPORT", r.id>> \in Ids(log) \/ audit \in Values(A)
    BY <2>2, <2>3
  <2> QED
    BY <2>4, <2>5, <2>6, <2>7, <2>8
<1>6. L = M \o A
  BY DEF NewEvents, move, audit
<1> HIDE DEF M, A, L
<1>7. Listed(L) /\ Values(L) = Values(M) \cup Values(A)
  BY <1>5, <1>6, ListedConcat
<1>8. /\ Listed(u) /\ Extends(log, u)
      /\ \A i \in DOMAIN L : Len(log) + i \in DOMAIN u /\ u[Len(log) + i] = L[i]
      /\ \A k \in DOMAIN u : k \in DOMAIN log \/ \E i \in DOMAIN L : k = Len(log) + i
      /\ Values(u) = Values(log) \cup Values(L)
  BY <1>2, <1>7, ExtendedFacts DEF NewLog, L
<1> HIDE DEF u, log
<1>9. \A s : Ids(s) = {w.id : w \in Values(s)}
  BY DEF Ids, Values
<1>10. Ids(log) \subseteq Ids(u) /\ Ids(u) = Ids(log) \cup {w.id : w \in Values(M)} \cup {w.id : w \in Values(A)}
  BY <1>7, <1>8, <1>9
<1>11. \A k \in DOMAIN u : \/ k \in DOMAIN log /\ u[k] = log[k]
                           \/ u[k] = move /\ <<"REOPEN", r.id>> \notin Ids(log)
                           \/ u[k] = audit /\ <<"IMPORT", r.id>> \notin Ids(log)
  <2> SUFFICES ASSUME NEW k \in DOMAIN u, k \notin DOMAIN log
               PROVE  \/ u[k] = move /\ <<"REOPEN", r.id>> \notin Ids(log)
                      \/ u[k] = audit /\ <<"IMPORT", r.id>> \notin Ids(log)
    BY <1>8 DEF Extends
  <2>1. PICK i \in DOMAIN L : k = Len(log) + i
    BY <1>8
  <2>2. u[k] \in Values(L)
    BY <1>8, <2>1 DEF Values
  <2> QED
    BY <1>5, <1>7, <2>2
<1>12. ~IsImport(move) /\ IsImport(audit)
  BY <1>3, <1>4 DEF IsImport
<1>13. <<"IMPORT", r.id>> \in Ids(u) /\ (Reopens(r) => <<"REOPEN", r.id>> \in Ids(u))
  BY <1>3, <1>4, <1>5, <1>10
<1>14. LogOK(u)
  <2>1. \A k \in DOMAIN u : IsImport(u[k]) => u[k].result \in ResultIds /\ u[k].id = <<"IMPORT", u[k].result>>
    BY <1>1, <1>4, <1>11, <1>12 DEF LogOK
  <2>2. \A id \in ResultIds : \A k \in DOMAIN u : u[k].id = <<"IMPORT", id>> => IsImport(u[k])
    BY <1>1, <1>3, <1>11, <1>12 DEF LogOK
  <2>3. ASSUME NEW id \in ResultIds, <<"REOPEN", id>> \in Ids(u)
        PROVE  <<"IMPORT", id>> \in Ids(u)
    <3>1. <<"REOPEN", id>> \in Ids(log) \/ id = r.id
      BY <1>3, <1>4, <1>5, <1>10, <2>3
    <3> QED
      BY <1>1, <1>10, <1>13, <3>1 DEF LogOK
  <2> QED
    BY <1>8, <2>1, <2>2, <2>3 DEF LogOK
<1>15. \A k \in DOMAIN u \ DOMAIN log : IsImport(u[k]) => u[k] = audit /\ <<"IMPORT", r.id>> \notin Ids(log)
  BY <1>11, <1>12
<1> QED
  BY <1>8, <1>10, <1>13, <1>14, <1>15 DEF u, log, audit

(* What the log tells of stays whole while other results' records come.    *)
LEMMA ToldStays ==
  ASSUME NEW ev, NEW ch, NEW fb, NEW ids, NEW e, ToldWhole(ev, ch, fb, ids, e), FeedbackOK(fb),
         NEW ev2, NEW ch2, NEW fb2, NEW ids2,
         Extends(ev, ev2), Extends(ch, ch2), Extends(fb, fb2), ids \subseteq ids2,
         \A k \in DOMAIN ev2 \ DOMAIN ev : ev2[k].loc[1] # e.result
  PROVE  ToldWhole(ev2, ch2, fb2, ids2, e)
<1>1. PICK j \in DOMAIN fb :
        /\ fb[j].id = e.result /\ fb[j].body = e.body
        /\ \A s \in Sources(fb[j]) : \E k \in DOMAIN ev : ev[k].loc = s.loc
        /\ e.evidence = {ev[k].id : k \in {k \in DOMAIN ev : \E s \in Sources(fb[j]) : ev[k].loc = s.loc}}
  BY DEF ToldWhole
<1>2. j \in DOMAIN fb2 /\ fb2[j] = fb[j]
  BY DEF Extends
<1> DEFINE K == {k \in DOMAIN ev : \E s \in Sources(fb[j]) : ev[k].loc = s.loc}
           K2 == {k \in DOMAIN ev2 : \E s \in Sources(fb[j]) : ev2[k].loc = s.loc}
<1>3. \A s \in Sources(fb[j]) : s.loc[1] = e.result
  BY <1>1, SourceFacts DEF FeedbackOK
<1>4. K2 = K
  BY <1>3 DEF Extends
<1>5. {ev2[k].id : k \in K2} = {ev[k].id : k \in K}
  BY <1>4 DEF Extends
<1>6. \A s \in Sources(fb[j]) : \E k \in DOMAIN ev2 : ev2[k].loc = s.loc
  BY <1>1 DEF Extends
<1>7. \E i \in DOMAIN fb2 :
        /\ fb2[i].id = e.result /\ fb2[i].body = e.body
        /\ \A s \in Sources(fb2[i]) : \E k \in DOMAIN ev2 : ev2[k].loc = s.loc
        /\ e.evidence = {ev2[k].id : k \in {k \in DOMAIN ev2 : \E s \in Sources(fb2[i]) : ev2[k].loc = s.loc}}
  <2>1. e.evidence = {ev2[k].id : k \in K2}
    BY <1>1, <1>5
  <2>2. fb2[j].id = e.result /\ fb2[j].body = e.body /\ fb2[j] = fb[j] /\ j \in DOMAIN fb2
    BY <1>1, <1>2
  <2>3. \A s \in Sources(fb2[j]) : \E k \in DOMAIN ev2 : ev2[k].loc = s.loc
    BY <1>6, <2>2
  <2>4. e.evidence = {ev2[k].id : k \in {k \in DOMAIN ev2 : \E s \in Sources(fb2[j]) : ev2[k].loc = s.loc}}
    BY <2>1, <2>2
  <2> QED
    BY <2>2, <2>3, <2>4
<1>8. \A x \in DOMAIN Bodies[e.body].changes : \E k \in DOMAIN ch2 : ch2[k].result = e.result /\ ch2[k].source = x
  BY DEF ToldWhole, Extends
<1>9. e.reopened => <<"REOPEN", e.result>> \in ids2
  BY DEF ToldWhole
<1> QED
  BY <1>7, <1>8, <1>9 DEF ToldWhole

(* A result that the log tells of is complete: nothing is added to it.     *)
LEMMA AuditedAlready ==
  ASSUME NEW r, CanImport(r), NEW i \in DOMAIN files.log, IsImport(files.log[i]), files.log[i].result = r.id
  PROVE  NewEvidence(r) = files.evidence
<1> DEFINE ev == files.evidence
           N == CandidateRecords(r)
<1>1. /\ Whole(ev, files.changes, files.feedback, files.log) /\ EvidenceOK(ev)
      /\ \A j \in DOMAIN files.feedback : files.feedback[j].id = r.id => files.feedback[j] = r
      /\ r.body \in DOMAIN Bodies
  BY DEF CanImport, Good, Sound, Acceptable, Feedback
<1>2. ToldWhole(ev, files.changes, files.feedback, Ids(files.log), files.log[i])
  BY <1>1 DEF Whole
<1>3. \A s \in Sources(r) : \E k \in DOMAIN ev : ev[k].loc = s.loc
  BY <1>1, <1>2 DEF ToldWhole
<1>4. /\ Listed(N)
      /\ \A j \in DOMAIN N : (\E s \in Sources(r) : N[j].loc = s.loc) /\ \A k \in DOMAIN ev : ev[k].loc # N[j].loc
  BY <1>1, CandidateFacts DEF EvidenceOK
<1>5. DOMAIN N = {}
  BY <1>3, <1>4
<1>6. N = <<>>
  <2>1. Len(N) \in Nat /\ DOMAIN N = 1 .. Len(N) /\ (N = <<>> <=> Len(N) = 0)
    BY <1>4, ListedFacts
  <2> HIDE DEF N
  <2> QED
    BY <1>5, <2>1
<1> QED
  BY <1>6 DEF NewEvidence, Extended

(* With the run log as it was, any part of an import leaves it true.       *)
LEMMA PartsAreSound ==
  ASSUME NEW r, CanImport(r),
         NEW ev \in {files.evidence, NewEvidence(r)}, NEW ch \in {files.changes, NewChanges(r)},
         NEW fb \in {files.feedback, NewFeedback(r)}
  PROVE  Sound(ev, ch, fb, files.log)
<1>1. /\ EvidenceOK(files.evidence) /\ ChangesOK(files.changes) /\ FeedbackOK(files.feedback) /\ LogOK(files.log)
      /\ Whole(files.evidence, files.changes, files.feedback, files.log)
  BY DEF CanImport, Good, Sound
<1>2. EvidenceOK(ev) /\ ChangesOK(ch) /\ FeedbackOK(fb)
  BY <1>1, EvidenceAdded, ChangesAdded, FeedbackAdded
<1>3. Extends(files.evidence, ev) /\ Extends(files.changes, ch) /\ Extends(files.feedback, fb)
  BY EvidenceAdded, ChangesAdded, FeedbackAdded DEF Extends
<1>4. ASSUME NEW i \in DOMAIN files.log, IsImport(files.log[i])
      PROVE  ToldWhole(ev, ch, fb, Ids(files.log), files.log[i])
  <2>1. ToldWhole(files.evidence, files.changes, files.feedback, Ids(files.log), files.log[i])
    BY <1>1, <1>4 DEF Whole
  <2>2. \A k \in DOMAIN ev \ DOMAIN files.evidence : ev[k].loc[1] # files.log[i].result
    <3>1. CASE files.log[i].result = r.id
      BY <1>4, <3>1, AuditedAlready
    <3>2. CASE files.log[i].result # r.id
      BY <3>2, EvidenceAdded
    <3> QED
      BY <3>1, <3>2
  <2> QED
    BY <1>1, <1>3, <2>1, <2>2, ToldStays
<1> QED
  BY <1>1, <1>2, <1>4 DEF Sound, Whole

(* And with its last write the import is there as a whole.                 *)
LEMMA AllIsSound ==
  ASSUME NEW r, CanImport(r)
  PROVE  Sound(NewEvidence(r), NewChanges(r), NewFeedback(r), NewLog(r))
<1> DEFINE ev == NewEvidence(r)
           ch == NewChanges(r)
           fb == NewFeedback(r)
           log == NewLog(r)
<1>1. Sound(ev, ch, fb, files.log)
  BY PartsAreSound
<1>2. /\ LogOK(log) /\ Extends(files.log, log) /\ Ids(files.log) \subseteq Ids(log)
      /\ \A k \in DOMAIN log \ DOMAIN files.log : IsImport(log[k]) => log[k] = AuditEvent(r)
      /\ Reopens(r) => <<"REOPEN", r.id>> \in Ids(log)
  BY EventsAdded
<1>3. ASSUME NEW k \in DOMAIN files.log, IsImport(files.log[k])
      PROVE  ToldWhole(ev, ch, fb, Ids(log), files.log[k])
  <2>1. ToldWhole(ev, ch, fb, Ids(files.log), files.log[k])
    BY <1>1, <1>3 DEF Sound, Whole
  <2> QED
    BY <1>2, <2>1 DEF ToldWhole
<1>4. ToldWhole(ev, ch, fb, Ids(log), AuditEvent(r))
  <2> DEFINE e == AuditEvent(r)
  <2>1. /\ e.result = r.id /\ e.body = r.body /\ e.reopened = Reopens(r)
        /\ e.evidence = {x.id : x \in {x \in Values(files.evidence \o CandidateRecords(r)) :
                                        \E s \in Sources(r) : x.loc = s.loc}}
    BY DEF AuditEvent, Event
  <2> HIDE DEF e
  <2>2. PICK j \in DOMAIN fb : fb[j] = r
    BY FeedbackAdded
  <2>3. \A s \in Sources(r) : \E k \in DOMAIN ev : ev[k].loc = s.loc
    BY EvidenceAdded
  <2>4. ev = files.evidence \o CandidateRecords(r)
    <3>1. Listed(files.evidence) /\ Listed(CandidateRecords(r))
      BY CandidateFacts DEF CanImport, Good, Sound, EvidenceOK
    <3> QED
      BY <3>1, ConcatEmptySeq DEF NewEvidence, Extended, Listed
  <2>5. e.evidence = {ev[k].id : k \in {k \in DOMAIN ev : \E s \in Sources(r) : ev[k].loc = s.loc}}
    <3> DEFINE new == {x \in Values(ev) : \E s \in Sources(r) : x.loc = s.loc}
               told == {k \in DOMAIN ev : \E s \in Sources(r) : ev[k].loc = s.loc}
    <3>1. e.evidence = {x.id : x \in new}
      BY <2>1, <2>4
    <3> HIDE DEF ev
    <3>2. \A k \in told : ev[k] \in new
      BY DEF Values
    <3>3. \A x \in new : \E k \in told : x = ev[k]
      BY DEF Values
    <3> HIDE DEF new, told
    <3>4. {x.id : x \in new} = {ev[k].id : k \in told}
      BY <3>2, <3>3
    <3> QED
      BY <3>1, <3>4 DEF told
  <2>6. \A x \in DOMAIN Bodies[r.body].changes : \E k \in DOMAIN ch : ch[k].result = r.id /\ ch[k].source = x
    BY ChangesAdded
  <2> HIDE DEF ev, ch, fb, log
  <2>7. \E i \in DOMAIN fb :
          /\ fb[i].id = e.result /\ fb[i].body = e.body
          /\ \A s \in Sources(fb[i]) : \E k \in DOMAIN ev : ev[k].loc = s.loc
          /\ e.evidence = {ev[k].id : k \in {k \in DOMAIN ev : \E s \in Sources(fb[i]) : ev[k].loc = s.loc}}
    <3>1. fb[j].id = e.result /\ fb[j].body = e.body
      BY <2>1, <2>2
    <3>2. \A s \in Sources(fb[j]) : \E k \in DOMAIN ev : ev[k].loc = s.loc
      BY <2>2, <2>3
    <3>3. e.evidence = {ev[k].id : k \in {k \in DOMAIN ev : \E s \in Sources(fb[j]) : ev[k].loc = s.loc}}
      BY <2>2, <2>5
    <3> QED
      BY <3>1, <3>2, <3>3
  <2>8. \A x \in DOMAIN Bodies[e.body].changes : \E k \in DOMAIN ch : ch[k].result = e.result /\ ch[k].source = x
    BY <2>1, <2>6
  <2>9. e.reopened => <<"REOPEN", e.result>> \in Ids(log)
    BY <1>2, <2>1
  <2>10. ToldWhole(ev, ch, fb, Ids(log), e)
    BY <2>7, <2>8, <2>9 DEF ToldWhole
  <2> QED
    BY <2>10 DEF e
<1>5. Whole(ev, ch, fb, log)
  <2> HIDE DEF ev, ch, fb, log
  <2> SUFFICES ASSUME NEW k \in DOMAIN log, IsImport(log[k])
               PROVE  ToldWhole(ev, ch, fb, Ids(log), log[k])
    BY DEF Whole
  <2>1. CASE k \in DOMAIN files.log
    BY <1>2, <1>3, <2>1 DEF Extends
  <2>2. CASE k \notin DOMAIN files.log
    BY <1>2, <1>4, <2>2
  <2> QED
    BY <2>1, <2>2
<1> QED
  BY <1>1, <1>2, <1>5 DEF Sound


-----------------------------------------------------------------------------
(* What an import makes of a valid project is valid.                       *)

(* More evidence, and a status back in analysis, break no record.          *)
LEMMA RecordsStayClean ==
  ASSUME NEW rec, NEW ev, NEW ev2, ev \subseteq ev2, NEW st, NEW st2 \in {st, "ANALYZING"}, RecordsClean(rec, ev, st)
  PROVE  RecordsClean(rec, ev2, st2)
<1>1. "ANALYZING" \notin ReadyOrLater /\ "ANALYZING" \notin TerminalStatuses
  BY DEF ReadyOrLater, TerminalStatuses
<1>2. KnowledgeClean(rec, ev2)
  BY DEF RecordsClean, KnowledgeClean
<1>3. CrossReferences(rec, ev2)
  BY DEF RecordsClean, CrossReferences
<1>4. QuestionsTerminal(rec, st2)
  BY <1>1 DEF RecordsClean, QuestionsTerminal
<1>5. MediumDecided(rec, st) /\ (st2 \in ReadyOrLater => st \in ReadyOrLater)
  BY <1>1 DEF RecordsClean, VisualLanguage
<1>6. MediumDecided(rec, st2)
  BY <1>5 DEF MediumDecided
<1>7. ConditionStated(rec, rec.visual.palette, st2 \in ReadyOrLater \/ rec.visual.medium # None)
  <2>1. ConditionStated(rec, rec.visual.palette, st \in ReadyOrLater \/ rec.visual.medium # None)
    BY DEF RecordsClean, VisualLanguage
  <2> QED
    BY <1>5, <2>1 DEF ConditionStated
<1>8. VisualLanguage(rec, st2)
  BY <1>5, <1>6, <1>7 DEF RecordsClean, VisualLanguage
<1> QED
  BY <1>2, <1>3, <1>4, <1>8 DEF RecordsClean

(* A handoff that resolves goes on to while evidence comes.                *)
LEMMA HandoffStaysClean ==
  ASSUME NEW rec, NEW ev, NEW ev2, ev \subseteq ev2, NEW h, HandoffClean(rec, ev, h)
  PROVE  HandoffClean(rec, ev2, h)
  BY DEF HandoffClean, RefsResolve

(* One more event, of a new ID: no move, or a lawful move from the state.  *)
LEMMA AppendLawful ==
  ASSUME NEW m, NEW s, NEW rep, NEW log, NEW e,
         LifecycleClean(m, s, rep, log), Listed(log), e.id \notin Ids(log)
  PROVE  /\ Listed(Append(log, e)) /\ Ids(Append(log, e)) = Ids(log) \cup {e.id}
         /\ e.type # "STATE_TRANSITION" => LifecycleClean(m, s, rep, Append(log, e))
         /\ e.type = "STATE_TRANSITION" /\ e.from = s /\ e.to \in Transitions[s] /\ e.to \notin TerminalStatuses
              => LifecycleClean(e.to, e.to, rep, Append(log, e))
<1> DEFINE u == Append(log, e)
           n == Len(log)
           past == {i \in DOMAIN log : log[i].type = "STATE_TRANSITION"}
           later == {i \in DOMAIN u : u[i].type = "STATE_TRANSITION"}
<1>1. n \in Nat /\ DOMAIN log = 1 .. n
  BY ListedFacts
<1>2. log \in Seq(Values(log) \cup {e})
  BY SeqMonotonic DEF Listed
<1>3. /\ u \in Seq(Values(log) \cup {e}) /\ Len(u) = n + 1
      /\ \A i \in 1 .. n : u[i] = log[i]
      /\ u[n + 1] = e
  BY <1>2, AppendProperties
<1>4. Listed(u) /\ DOMAIN u = 1 .. n + 1
  BY <1>3, SeqIsListed, LenProperties
<1> HIDE DEF u, n
<1>5. /\ n + 1 \in DOMAIN u /\ n + 1 \notin DOMAIN log
      /\ \A i \in DOMAIN log : i \in DOMAIN u /\ u[i] = log[i] /\ i < n + 1 /\ ~ (n + 1 <= i) /\ i \in Nat
      /\ \A i \in DOMAIN u : i \in DOMAIN log \/ i = n + 1
  BY <1>1, <1>3, <1>4
<1>6. Ids(u) = Ids(log) \cup {e.id}
  BY <1>3, <1>5 DEF Ids
<1>7. \A i, j \in DOMAIN u : i # j => u[i].id # u[j].id
  <2>1. /\ \A i, j \in DOMAIN log : i # j => log[i].id # log[j].id
        /\ \A i \in DOMAIN log : log[i].id # e.id
    BY DEF LifecycleClean, Ids
  <2> QED
    BY <1>3, <1>5, <2>1
<1>8. /\ m = s /\ (m \in TerminalStatuses => rep = m)
      /\ \A i \in past : log[i].to \in Transitions[log[i].from]
      /\ \A i, j \in past : i < j /\ (\A k \in past : k <= i \/ j <= k) => log[j].from = log[i].to
      /\ \A i \in past : (\A k \in past : k <= i) => log[i].to = s
  BY DEF LifecycleClean
<1>9. ASSUME e.type # "STATE_TRANSITION"
      PROVE  LifecycleClean(m, s, rep, u)
  <2>1. later = past
    BY <1>3, <1>5, <1>9
  <2>2. \A i \in past : u[i] = log[i]
    BY <1>5
  <2> HIDE DEF past, later
  <2>3. \A i \in later : u[i].to \in Transitions[u[i].from]
    BY <1>8, <2>1, <2>2
  <2>4. \A i, j \in later : i < j /\ (\A k \in later : k <= i \/ j <= k) => u[j].from = u[i].to
    BY <1>8, <2>1, <2>2
  <2>5. \A i \in later : (\A k \in later : k <= i) => u[i].to = s
    BY <1>8, <2>1, <2>2
  <2> QED
    BY <1>7, <1>8, <2>3, <2>4, <2>5 DEF LifecycleClean, later
<1>10. ASSUME e.type = "STATE_TRANSITION", e.from = s, e.to \in Transitions[s], e.to \notin TerminalStatuses
       PROVE  LifecycleClean(e.to, e.to, rep, u)
  <2>1. later = past \cup {n + 1}
    BY <1>3, <1>5, <1>10
  <2>2. /\ \A i \in past : u[i] = log[i] /\ i < n + 1 /\ ~ (n + 1 <= i) /\ i \in Nat
        /\ n \in Nat
    BY <1>1, <1>5
  <2> HIDE DEF past, later
  <2>3. \A i \in later : u[i].to \in Transitions[u[i].from]
    BY <1>3, <1>8, <1>10, <2>1, <2>2
  <2>4. ASSUME NEW i \in later, NEW j \in later, i < j, \A k \in later : k <= i \/ j <= k
        PROVE  u[j].from = u[i].to
    <3>1. i \in past
      BY <2>1, <2>2, <2>4
    <3>2. CASE j \in past
      BY <1>8, <2>1, <2>2, <2>4, <3>1, <3>2
    <3>3. CASE j = n + 1
      <4>1. \A k \in past : k <= i
        BY <2>1, <2>2, <2>4, <3>3
      <4> QED
        BY <1>3, <1>8, <1>10, <2>2, <3>1, <3>3, <4>1
    <3> QED
      BY <2>1, <3>2, <3>3
  <2>5. \A i \in later : (\A k \in later : k <= i) => u[i].to = e.to
    BY <1>3, <2>1, <2>2
  <2> QED
    BY <1>7, <1>10, <2>3, <2>4, <2>5 DEF LifecycleClean, later
<1> QED
  BY <1>4, <1>6, <1>9, <1>10 DEF u

(* The state of the project once r is imported.                            *)
NewStatus(r, old) == IF Reopens(r) THEN "ANALYZING" ELSE old

(* Whatever the import adds to the run log goes on with its story.         *)
LEMMA StoryGoesOn ==
  ASSUME NEW r, CanImport(r), NewLog(r) # files.log
  PROVE  LifecycleClean(NewStatus(r, files.manifest), NewStatus(r, files.state), files.report, NewLog(r))
<1> DEFINE log == files.log
           move == MoveEvent(<<"REOPEN", r.id>>, "ANALYZING")
           audit == AuditEvent(r)
<1>1. /\ LifecycleClean(files.manifest, files.state, files.report, log)
      /\ LogOK(log) /\ r.id \in ResultIds
      /\ MayReopen(r)
  BY DEF CanImport, Acceptable, Valid, Good, Sound
<1>2. Listed(log) /\ files.manifest = files.state
  BY <1>1 DEF LogOK, LifecycleClean
<1>3. /\ move.id = <<"REOPEN", r.id>> /\ move.type = "STATE_TRANSITION"
      /\ move.from = files.manifest /\ move.to = "ANALYZING"
  BY DEF MoveEvent, Event
<1>4. audit.id = <<"IMPORT", r.id>> /\ audit.type # "STATE_TRANSITION"
  BY DEF AuditEvent, Event
<1>5. NewEvents(r) = (IF Reopens(r) THEN Unlogged(move) ELSE <<>>) \o Unlogged(audit)
  BY DEF NewEvents
<1>6. "ANALYZING" \notin TerminalStatuses
  BY DEF TerminalStatuses
<1> HIDE DEF move, audit
<1>7. \A x : log \o <<x>> = Append(log, x)
  <2> SUFFICES ASSUME NEW x PROVE log \o <<x>> = Append(log, x)
    OBVIOUS
  <2>1. log \in Seq(Values(log) \cup {x})
    BY <1>2, SeqMonotonic DEF Listed
  <2> QED
    BY <2>1, AppendIsConcat
<1>8. NewLog(r) = log \o NewEvents(r) /\ NewEvents(r) # <<>>
  BY DEF NewLog, Extended
<1>9. CASE ~Reopens(r)
  <2>1. NewEvents(r) = <<audit>> /\ audit.id \notin Ids(log)
    <3>1. <<>> \o Unlogged(audit) = Unlogged(audit)
      BY DEF Unlogged
    <3> QED
      BY <1>5, <1>8, <1>9, <3>1 DEF Unlogged
  <2>2. NewLog(r) = Append(log, audit)
    BY <1>7, <1>8, <2>1
  <2> QED
    BY <1>1, <1>2, <1>4, <1>9, <2>1, <2>2, AppendLawful DEF NewStatus
<1>10. CASE Reopens(r)
  <2>1. move.id \notin Ids(log)
    <3> SUFFICES ASSUME move.id \in Ids(log) PROVE FALSE
      OBVIOUS
    <3>1. audit.id \in Ids(log)
      BY <1>1, <1>3, <1>4 DEF LogOK
    <3>2. NewEvents(r) = <<>> \o <<>>
      BY <1>5, <1>10, <3>1 DEF Unlogged
    <3> QED
      BY <1>8, <3>2
  <2>2. move.to \in Transitions[files.state]
    BY <1>1, <1>2, <1>3, <1>10 DEF MayReopen
  <2>3. /\ LifecycleClean("ANALYZING", "ANALYZING", files.report, Append(log, move))
        /\ Listed(Append(log, move)) /\ Ids(Append(log, move)) = Ids(log) \cup {move.id}
    <3>1. LifecycleClean(files.manifest, files.state, files.report, log) /\ Listed(log)
      BY <1>1, <1>2
    <3>2. move.from = files.state /\ move.to \notin TerminalStatuses
      BY <1>2, <1>3, <1>6
    <3> HIDE DEF log
    <3>3. /\ Listed(Append(log, move)) /\ Ids(Append(log, move)) = Ids(log) \cup {move.id}
          /\ move.type = "STATE_TRANSITION" /\ move.from = files.state /\ move.to \in Transitions[files.state]
               /\ move.to \notin TerminalStatuses
               => LifecycleClean(move.to, move.to, files.report, Append(log, move))
      BY <2>1, <3>1, AppendLawful
    <3> QED
      BY <1>3, <2>2, <3>2, <3>3
  <2>4. CASE audit.id \in Ids(log)
    <3>1. NewEvents(r) = <<move>>
      <4>1. <<move>> \o <<>> = <<move>>
        OBVIOUS
      <4> QED
        BY <1>5, <1>10, <2>1, <2>4, <4>1 DEF Unlogged
    <3> QED
      BY <1>7, <1>8, <1>10, <2>3, <3>1 DEF NewStatus
  <2>5. CASE audit.id \notin Ids(log)
    <3>1. NewEvents(r) = <<move>> \o <<audit>>
      BY <1>5, <1>10, <2>1, <2>5 DEF Unlogged
    <3>2. log \o (<<move>> \o <<audit>>) = (log \o <<move>>) \o <<audit>>
      <4> DEFINE S == Values(log) \cup {move, audit}
      <4>1. log \in Seq(S)
        BY <1>2, SeqMonotonic DEF Listed
      <4>2. <<move>> \in Seq(S) /\ <<audit>> \in Seq(S)
        OBVIOUS
      <4> QED
        BY <4>1, <4>2, ConcatAssociative
    <3>3. NewLog(r) = Append(log, move) \o <<audit>>
      BY <1>7, <1>8, <3>1, <3>2
    <3>4. Append(log, move) \o <<audit>> = Append(Append(log, move), audit)
      <4> DEFINE L == Append(log, move)
      <4>1. L \in Seq(Values(L) \cup {audit})
        BY <2>3, SeqMonotonic DEF Listed
      <4> HIDE DEF L
      <4>2. L \o <<audit>> = Append(L, audit)
        BY <4>1, AppendIsConcat
      <4> QED
        BY <4>2 DEF L
    <3>5. audit.id \notin Ids(Append(log, move))
      BY <1>3, <1>4, <2>3, <2>5
    <3>6. LifecycleClean("ANALYZING", "ANALYZING", files.report, Append(Append(log, move), audit))
      <4> DEFINE L == Append(log, move)
      <4>1. LifecycleClean("ANALYZING", "ANALYZING", files.report, L) /\ Listed(L) /\ audit.id \notin Ids(L)
        BY <2>3, <3>5
      <4> HIDE DEF L
      <4>2. LifecycleClean("ANALYZING", "ANALYZING", files.report, Append(L, audit))
        BY <1>4, <4>1, AppendLawful
      <4> QED
        BY <4>2 DEF L
    <3> QED
      BY <1>10, <3>3, <3>4, <3>6 DEF NewStatus
  <2> QED
    BY <2>4, <2>5
<1> QED
  BY <1>9, <1>10

(* The files as the import of r leaves them, if nothing fails.             *)
Imported(r) ==
  [files EXCEPT !.manifest = NewStatus(r, @), !.state = NewStatus(r, @),
                !.evidence = NewEvidence(r), !.changes = NewChanges(r), !.feedback = NewFeedback(r),
                !.viewer = Extended(@, ViewerAdditions(r)), !.log = NewLog(r)]

LEMMA ImportedFacts ==
  ASSUME NEW r, CanImport(r), NEW t, t = Imported(r)
  PROVE  /\ DOMAIN t = Paths
         /\ t.manifest = NewStatus(r, files.manifest) /\ t.state = NewStatus(r, files.state)
         /\ t.evidence = NewEvidence(r) /\ t.changes = NewChanges(r) /\ t.feedback = NewFeedback(r)
         /\ t.viewer = Extended(files.viewer, ViewerAdditions(r)) /\ t.log = NewLog(r)
         /\ \A p \in {"report", "handoff", "bundle"} : t[p] = files[p]
<1>1. DOMAIN files = Paths
  BY DEF CanImport, Good
<1> QED
  BY <1>1 DEF Imported, Paths

LEMMA ImportedIsValid ==
  ASSUME NEW r, CanImport(r), NEW t, t = Imported(r), t.log # files.log
  PROVE  Valid(t)
<1>1. /\ t.manifest = NewStatus(r, files.manifest) /\ t.state = NewStatus(r, files.state)
      /\ t.evidence = NewEvidence(r) /\ t.log = NewLog(r) /\ t.report = files.report /\ t.handoff = files.handoff
  BY ImportedFacts
<1>2. /\ RecordsClean(c, Ids(files.evidence), files.manifest)
      /\ HandoffClean(c, Ids(files.evidence), files.handoff)
  BY DEF CanImport, Acceptable, Valid
<1>3. Ids(files.evidence) \subseteq Ids(t.evidence)
  BY <1>1, EvidenceAdded DEF Ids, Extends
<1>4. t.manifest \in {files.manifest, "ANALYZING"}
  BY <1>1 DEF NewStatus
<1>5. RecordsClean(c, Ids(t.evidence), t.manifest)
  BY <1>2, <1>3, <1>4, RecordsStayClean
<1>6. HandoffClean(c, Ids(t.evidence), t.handoff)
  BY <1>1, <1>2, <1>3, HandoffStaysClean
<1>7. LifecycleClean(t.manifest, t.state, t.report, t.log)
  BY <1>1, StoryGoesOn
<1> QED
  BY <1>5, <1>6, <1>7 DEF Valid

-----------------------------------------------------------------------------
(* The writes of an import, one group of files at a time: they lead to t,  *)
(* and miss nothing that differs.                                          *)
Part(s, paths, t) ==
  /\ Listed(s)
  /\ \A w \in Values(s) : w[1] \in paths /\ w[2] = t[w[1]]
  /\ \A p \in paths : files[p] = t[p] \/ Pending(s, p)

LEMMA PartsJoin ==
  ASSUME NEW s, NEW u, NEW P, NEW Q, NEW t, Part(s, P, t), Part(u, Q, t)
  PROVE  Part(s \o u, P \cup Q, t)
<1> DEFINE v == s \o u
<1>1. Listed(v) /\ Values(v) = Values(s) \cup Values(u)
  BY ListedConcat DEF Part
<1> HIDE DEF v
<1> QED
  BY <1>1 DEF Part, Pending, v

LEMMA AppendedPart ==
  ASSUME NEW path, NEW new, NEW t, t[path] = Extended(files[path], new)
  PROVE  Part(Appended(path, new), {path}, t) /\ Len(Appended(path, new)) <= 1
<1>1. CASE new = <<>>
  <2>1. Appended(path, new) = <<>> /\ files[path] = t[path] /\ Values(<<>>) = {}
    BY <1>1 DEF Appended, Extended, Values
  <2>2. Part(<<>>, {path}, t)
    BY <2>1, ShortListed DEF Part
  <2>3. Len(<<>>) <= 1
    OBVIOUS
  <2> QED
    BY <2>1, <2>2, <2>3
<1>2. CASE new # <<>>
  <2> DEFINE w == <<path, files[path] \o new>>
  <2>1. Appended(path, new) = <<w>> /\ w[1] = path /\ w[2] = t[path]
    BY <1>2 DEF Appended, Extended, Write
  <2> HIDE DEF w
  <2>2. Listed(<<w>>) /\ Values(<<w>>) = {w} /\ Len(<<w>>) = 1
    BY ShortListed DEF Values
  <2>3. \A v \in Values(<<w>>) : v[1] \in {path} /\ v[2] = t[v[1]]
    BY <2>1, <2>2
  <2>4. Pending(<<w>>, path)
    BY <2>1, <2>2 DEF Pending
  <2>5. Part(<<w>>, {path}, t)
    BY <2>2, <2>3, <2>4 DEF Part
  <2> QED
    BY <2>1, <2>2, <2>5
<1> QED
  BY <1>1, <1>2

LEMMA ReopenPart ==
  ASSUME NEW r, NEW t, t.manifest = NewStatus(r, files.manifest), t.state = NewStatus(r, files.state)
  PROVE  Part(IF Reopens(r) THEN <<Write("manifest", "ANALYZING"), Write("state", "ANALYZING")>> ELSE <<>>,
              {"manifest", "state"}, t)
<1> DEFINE a == <<"manifest", "ANALYZING">>
           b == <<"state", "ANALYZING">>
<1>1. CASE ~Reopens(r)
  <2>1. Values(<<>>) = {} /\ Listed(<<>>)
    BY ShortListed DEF Values
  <2> QED
    BY <1>1, <2>1 DEF Part, NewStatus
<1>2. CASE Reopens(r)
  <2>1. Listed(<<a, b>>) /\ Values(<<a, b>>) = {a, b}
    BY ShortListed DEF Values
  <2>2. t.manifest = "ANALYZING" /\ t.state = "ANALYZING"
    BY <1>2 DEF NewStatus
  <2>3. a[1] = "manifest" /\ b[1] = "state" /\ a[2] = "ANALYZING" /\ b[2] = "ANALYZING"
    OBVIOUS
  <2> HIDE DEF a, b
  <2>4. Part(<<a, b>>, {"manifest", "state"}, t)
    BY <2>1, <2>2, <2>3 DEF Part, Pending
  <2> QED
    BY <1>2, <2>4 DEF a, b, Write
<1> QED
  BY <1>1, <1>2

LEMMA WritesOfImport ==
  ASSUME NEW r, CanImport(r), NEW t, t = Imported(r)
  PROVE  /\ Part(ImportWrites(r), Values(Snapshot), t)
         /\ \A i \in DOMAIN ImportWrites(r) : ImportWrites(r)[i][1] = "log" => i = Len(ImportWrites(r))
<1> DEFINE A == IF Reopens(r) THEN <<Write("manifest", "ANALYZING"), Write("state", "ANALYZING")>> ELSE <<>>
           B == Appended("evidence", CandidateRecords(r))
           C == Appended("changes", ChangeRecords(r))
           D == Appended("feedback", IF Recorded(r) THEN <<>> ELSE <<r>>)
           E == Appended("viewer", ViewerAdditions(r))
           F == Appended("log", NewEvents(r))
           owners == {"manifest", "state"} \cup {"evidence"} \cup {"changes"} \cup {"feedback"} \cup {"viewer"}
           L == A \o B \o C \o D \o E
<1>1. ImportWrites(r) = L \o F
  BY DEF ImportWrites
<1>2. Part(A, {"manifest", "state"}, t)
  BY ImportedFacts, ReopenPart
<1>3. Part(B, {"evidence"}, t) /\ Part(C, {"changes"}, t) /\ Part(D, {"feedback"}, t)
      /\ Part(E, {"viewer"}, t) /\ Part(F, {"log"}, t) /\ Len(F) <= 1
  BY ImportedFacts, AppendedPart DEF NewEvidence, NewChanges, NewFeedback, NewLog
<1> HIDE DEF A, B, C, D, E, F
<1>4. Part(L, owners, t)
  <2>1. Part(A \o B, {"manifest", "state"} \cup {"evidence"}, t)
    BY <1>2, <1>3, PartsJoin
  <2>2. Part(A \o B \o C, {"manifest", "state"} \cup {"evidence"} \cup {"changes"}, t)
    BY <1>3, <2>1, PartsJoin
  <2>3. Part(A \o B \o C \o D, {"manifest", "state"} \cup {"evidence"} \cup {"changes"} \cup {"feedback"}, t)
    BY <1>3, <2>2, PartsJoin
  <2> QED
    BY <1>3, <2>3, PartsJoin
<1> HIDE DEF L
<1>5. Part(L \o F, owners \cup {"log"}, t)
  BY <1>3, <1>4, PartsJoin
<1>6. owners \cup {"log"} = Values(Snapshot)
  <2>1. DOMAIN Snapshot = 1 .. 7
    BY DEF Snapshot
  <2>2. Values(Snapshot) = {Snapshot[1], Snapshot[2], Snapshot[3], Snapshot[4], Snapshot[5], Snapshot[6], Snapshot[7]}
    BY <2>1 DEF Values
  <2> QED
    BY <2>2 DEF Snapshot
<1>7. ASSUME NEW i \in DOMAIN (L \o F), (L \o F)[i][1] = "log"
      PROVE  i = Len(L \o F)
  <2> DEFINE u == L \o F
  <2>1. Listed(L) /\ Listed(F) /\ Listed(u)
    BY <1>3, <1>4, <1>5 DEF Part
  <2>2. /\ Len(u) = Len(L) + Len(F)
        /\ \A k \in 1 .. Len(L) : u[k] = L[k]
        /\ \A k \in 1 .. Len(u) : k \in 1 .. Len(L) \/ \E j \in 1 .. Len(F) : k = Len(L) + j
    BY <2>1, ListedConcat
  <2>3. /\ Len(L) \in Nat /\ Len(F) \in Nat /\ DOMAIN u = 1 .. Len(u)
        /\ \A k \in 1 .. Len(L) : L[k] \in Values(L)
    BY <2>1, ListedFacts
  <2> HIDE DEF u
  <2>4. \A k \in 1 .. Len(L) : L[k][1] # "log"
    BY <1>4, <2>3 DEF Part
  <2>5. i \in 1 .. Len(u) /\ i \notin 1 .. Len(L)
    BY <1>7, <2>2, <2>3, <2>4 DEF u
  <2>6. PICK j \in 1 .. Len(F) : i = Len(L) + j
    BY <2>2, <2>5
  <2>7. i = Len(u)
    BY <1>3, <2>2, <2>3, <2>6
  <2> QED
    BY <2>7 DEF u
<1> QED
  BY <1>1, <1>5, <1>6, <1>7

LEMMA MoreSupported ==
  ASSUME NEW ev, NEW ev2, Extends(ev, ev2), Supported(ev)
  PROVE  Supported(ev2)
<1>1. Ids(ev) \subseteq Ids(ev2)
  BY DEF Ids, Extends
<1> QED
  BY <1>1, HandoffStaysClean DEF Supported

LEMMA MoreBacked ==
  ASSUME NEW fb, NEW fb2, NEW log, NEW log2, Extends(fb, fb2), Extends(log, log2), Backed(fb, log)
  PROVE  Backed(fb2, log2)
  BY DEF Backed, Extends

LEMMA ImportHasTarget ==
  ASSUME NEW r, CanImport(r), NEW t, t = Imported(r)
  PROVE  ImportTarget(files, t)
<1>1. /\ t.evidence = NewEvidence(r) /\ t.changes = NewChanges(r) /\ t.feedback = NewFeedback(r) /\ t.log = NewLog(r)
      /\ \A p \in {"report", "handoff", "bundle"} : t[p] = files[p]
  BY ImportedFacts
<1>2. Good(files)
  BY DEF CanImport
<1>3. \A ev \in {files.evidence, t.evidence}, ch \in {files.changes, t.changes}, fb \in {files.feedback, t.feedback} :
        Sound(ev, ch, fb, files.log)
  BY <1>1, PartsAreSound
<1>4. Sound(t.evidence, t.changes, t.feedback, t.log)
  BY <1>1, AllIsSound
<1>5. t.log # files.log => Valid(t)
  BY ImportedIsValid
<1>6. Ahead(files.handoff) /\ Revised(files.handoff) /\ Supported(files.evidence) /\ Supported(t.evidence)
  BY <1>1, <1>2, EvidenceAdded, MoreSupported DEF Good
<1>7. \A fb \in {files.feedback, t.feedback}, log \in {files.log, t.log} : Backed(fb, log)
  <2>1. Backed(files.feedback, files.log)
    BY <1>2 DEF Good
  <2>2. Extends(files.feedback, files.feedback) /\ Extends(files.log, files.log)
    BY DEF Extends
  <2>3. Extends(files.feedback, t.feedback) /\ Extends(files.log, t.log)
    BY <1>1, FeedbackAdded, EventsAdded
  <2> QED
    BY <2>1, <2>2, <2>3, MoreBacked
<1> QED
  BY <1>1, <1>3, <1>4, <1>5, <1>6, <1>7 DEF ImportTarget

LEMMA ImportResultKeeps ==
  ASSUME IInv, NEW r \in Results, ImportResult(r)
  PROVE  IInv'
<1>1. Good(files) /\ DOMAIN signals = ResultIds /\ SentOnce
  BY FreeIsGood DEF IInv
<1>2. r.id \in ResultIds /\ r.body \in DOMAIN Bodies
  BY DEF Results
<1>3. /\ Acceptable(r) /\ MayReopen(r)
      /\ Len(files.evidence) + Cardinality(Sources(r)) <= Len(EvidenceIds)
      /\ Begin("import", ImportWrites(r), Undo(Snapshot))
      /\ UNCHANGED <<content, files, signals, exported>>
  BY DEF ImportResult, Refused
<1>4. CanImport(r)
  BY <1>1, <1>2, <1>3 DEF CanImport
<1>5. PICK t : t = Imported(r)
  OBVIOUS
<1>6. PICK todo : todo = ImportWrites(r)
  OBVIOUS
<1>7. PICK b : b = files
  OBVIOUS
<1>8. /\ Part(todo, Values(Snapshot), t)
      /\ \A i \in DOMAIN todo : todo[i][1] = "log" => i = Len(todo)
  BY <1>4, <1>5, <1>6, WritesOfImport
<1>9. DOMAIN files = Paths /\ DOMAIN t = Paths /\ \A p \in {"report", "handoff", "bundle"} : t[p] = files[p]
  BY <1>1, <1>4, <1>5, ImportedFacts DEF Good
<1>10. Listed(Snapshot) /\ Values(Snapshot) = Paths \ {"report", "handoff", "bundle"}
  <2>1. Snapshot \in Seq(Paths)
    BY DEF Snapshot, Paths
  <2>2. DOMAIN Snapshot = 1 .. 7
    BY DEF Snapshot
  <2>3. Values(Snapshot) = {Snapshot[1], Snapshot[2], Snapshot[3], Snapshot[4], Snapshot[5], Snapshot[6], Snapshot[7]}
    BY <2>2 DEF Values
  <2>4. Values(Snapshot) = Paths \ {"report", "handoff", "bundle"}
    BY <2>3 DEF Snapshot, Paths
  <2> QED
    BY <2>1, <2>4, SeqIsListed
<1>11. Rollback(files, t)'
  <2>1. Begin("import", todo, Undo(Snapshot)) /\ UNCHANGED files
    BY <1>3, <1>6
  <2>2. Listed(todo) /\ \A w \in Values(todo) : w[1] \in Values(Snapshot) /\ w[2] = t[w[1]]
    BY <1>8 DEF Part
  <2>3. \A p \in Paths : files[p] = t[p] \/ Pending(todo, p)
    BY <1>8, <1>9, <1>10 DEF Part
  <2> QED
    BY <1>9, <1>10, <2>1, <2>2, <2>3, RollbackStarts
<1>12. /\ DOMAIN call' = {"op", "todo", "undo", "failing", "began"} /\ call'.failing \in BOOLEAN
       /\ call'.op = "import" /\ call'.began = files /\ call'.todo = todo
  BY <1>3, <1>6, Started
<1>13. ImportTarget(b, t)'
  BY <1>3, <1>4, <1>5, <1>7, ImportHasTarget, ImportTargetStays
<1>14. Rollback(b, t)' /\ call'.began = b
  BY <1>3, <1>7, <1>11, <1>12
<1>15. files'.log = call'.began.log
  BY <1>3, <1>12
<1>16. ImportCall(t)'
  BY <1>8, <1>12, <1>13, <1>14, <1>15 DEF ImportCall
<1> QED
  BY <1>1, <1>3, <1>12, <1>16, SentStays DEF IInv, InHand

-----------------------------------------------------------------------------
(* The invariant.                                                          *)

LEMMA InitEstablishes ==
  ASSUME Init
  PROVE  IInv
<1> DEFINE first == [id |-> EvidenceIds[1], loc |-> <<>>, hash |-> None]
<1>1. /\ DOMAIN files = Paths
      /\ files.evidence = <<first>> /\ files.changes = <<>> /\ files.feedback = <<>>
      /\ files.log = FirstLog /\ files.handoff = NoHandoff
  BY DEF Init, Paths
<1>2. exported = {} /\ signals = [id \in ResultIds |-> "none"] /\ call = Idle
  BY DEF Init
<1>3. Len(EvidenceIds) \in Nat \ {0}
  BY LedgerAssumption, EmptySeq
<1>4. EvidenceOK(<<first>>)
  <2>1. Listed(<<first>>) /\ Len(<<first>>) = 1 /\ DOMAIN <<first>> = {1} /\ <<first>>[1] = first
    BY ShortListed
  <2>2. first.id = EvidenceIds[1]
    OBVIOUS
  <2> HIDE DEF first
  <2> QED
    BY <1>3, <2>1, <2>2 DEF EvidenceOK
<1>5. ChangesOK(<<>>) /\ FeedbackOK(<<>>)
  BY ShortListed DEF ChangesOK, FeedbackOK
<1>6. LogOK(FirstLog) /\ \A i \in DOMAIN FirstLog : ~IsImport(FirstLog[i])
  <2>1. Listed(FirstLog)
    BY FirstLogAssumption, SeqIsListed
  <2> QED
    BY <2>1, FirstLogAssumption DEF LogOK, IsImport, Ids
<1>7. Sound(files.evidence, files.changes, files.feedback, files.log)
  BY <1>1, <1>4, <1>5, <1>6 DEF Sound, Whole
<1>8. Good(files)
  BY <1>1, <1>2, <1>7 DEF Good, Ahead, Revised, Supported, Backed
<1>9. SentOnce
  BY <1>2 DEF SentOnce, OneContentPerRevision
<1>10. DOMAIN call = {"op", "todo", "undo", "failing", "began"} /\ call.failing \in BOOLEAN
  BY <1>2 DEF Idle
<1> QED
  BY <1>2, <1>8, <1>9, <1>10 DEF IInv, InHand

LEMMA NextKeeps ==
  ASSUME IInv, [Next]_vars
  PROVE  IInv'
<1>1. CASE \E id \in HandoffIds, revision \in 1 .. MaxRevision, supersedes \in HandoffIds \cup {None} :
             BuildHandoff(id, revision, supersedes)
  BY <1>1, BuildHandoffKeeps
<1>2. CASE ExportHandoff
  BY <1>2, ExportHandoffKeeps
<1>3. CASE \E r \in Results : ImportResult(r)
  BY <1>3, ImportResultKeeps
<1>4. CASE \E id \in ResultIds : ExportSignals(id)
  BY <1>4, ExportSignalsKeeps
<1>5. CASE WriteNext
  BY <1>5, WriteNextKeeps
<1>6. CASE WriteFails
  BY <1>6, WriteFailsKeeps
<1>7. CASE Accept
  BY <1>7, InvEnds DEF Accept
<1>8. CASE Reject
  BY <1>8, RejectKeeps
<1>9. CASE PutBack
  BY <1>9, PutBackKeeps
<1>10. CASE Raise
  BY <1>10, InvEnds DEF Raise
<1>11. CASE Die
  BY <1>11, InvEnds DEF Die
<1>12. CASE EditRecords
  BY <1>12, EditRecordsKeeps
<1>13. CASE CheckOutViewer
  BY <1>13, CheckOutViewerKeeps
<1>14. CASE \E to \in Goals : Advance(to)
  BY <1>14, AdvanceKeeps
<1>15. CASE UNCHANGED vars
  <2>1. UNCHANGED <<files, signals, exported, call, content>>
    BY <1>15 DEF vars
  <2>2. PICK t : InHand(t)
    BY DEF IInv
  <2>3. InHand(t)'
    <3>1. CASE call = Idle /\ Good(files)
      BY <2>1, <3>1, GoodFilesStay DEF InHand, Good
    <3>2. CASE BuildCall(t)
      BY <2>1, <3>2 DEF InHand, BuildCall, Rollback, Pending, BuildTarget, Good, Ahead, Revised, Supported, Backed
    <3>3. CASE ImportCall(t)
      <4>1. PICK b : b = call.began
        OBVIOUS
      <4>2. ImportTarget(b, t)'
        BY <2>1, <3>3, <4>1, ImportTargetStays DEF ImportCall
      <4>3. Rollback(b, t)'
        BY <2>1, <3>3, <4>1 DEF ImportCall, Rollback, Pending
      <4> QED
        BY <2>1, <3>3, <4>1, <4>2, <4>3 DEF InHand, ImportCall
    <3>4. CASE ExportCall
      BY <2>1, <3>4 DEF InHand, ExportCall, BundleFiles, c, Good, Ahead, Revised, Supported, Backed
    <3> QED
      BY <2>2, <3>1, <3>2, <3>3, <3>4 DEF InHand
  <2> QED
    BY <2>1, <2>3, SentStays DEF IInv
<1> QED
  BY <1>1, <1>2, <1>3, <1>4, <1>5, <1>6, <1>7, <1>8, <1>9, <1>10, <1>11, <1>12, <1>13, <1>14, <1>15 DEF Next

(* What the commands between research and production keep true in all      *)
(* their steps, failures and deaths.                                       *)
THEOREM InvariantHolds == Spec => []IInv
<1>1. Init => IInv
  BY InitEstablishes
<1>2. IInv /\ [Next]_vars => IInv'
  BY NextKeeps
<1> QED
  BY <1>1, <1>2, PTL DEF Spec

-----------------------------------------------------------------------------
(* What it says of the properties.                                         *)

(* One source of a result is one place of the ledger, and what a set of    *)
(* indices picks one by one is as large as the set.                        *)
LEMMA OneIndex ==
  ASSUME NEW S, \E i : i \in S, \A i, j \in S : i = j
  PROVE  Cardinality(S) = 1
<1>1. PICK i : i \in S
  OBVIOUS
<1>2. S = {i}
  BY <1>1
<1> QED
  BY <1>2, FS_Singleton

LEMMA SameSize ==
  ASSUME NEW S, NEW T, NEW f, DOMAIN f = S, IsFiniteSet(S),
         \A x \in S : f[x] \in T, \A x, y \in S : f[x] = f[y] => x = y, \A y \in T : \E x \in S : f[x] = y,
         f = [x \in S |-> f[x]]
  PROVE  Cardinality(S) = Cardinality(T)
<1>1. f \in Bijection(S, T)
  BY DEF Bijection, Injection, Surjection, IsInjective
<1> QED
  BY <1>1, FS_Bijection DEF ExistsBijection

LEMMA WholeIsImported ==
  ASSUME Good(files)
  PROVE  ImportedWhole
<1> DEFINE ev == files.evidence
           ch == files.changes
           fb == files.feedback
           log == files.log
<1>1. EvidenceOK(ev) /\ ChangesOK(ch) /\ FeedbackOK(fb) /\ LogOK(log) /\ Whole(ev, ch, fb, log)
  BY DEF Good, Sound
<1>2. Len(ev) \in Nat /\ DOMAIN ev = 1 .. Len(ev)
  BY <1>1, ListedFacts DEF EvidenceOK
<1>3. /\ Len(EvidenceIds) \in Nat /\ DOMAIN EvidenceIds = 1 .. Len(EvidenceIds)
      /\ \A i, j \in DOMAIN EvidenceIds : EvidenceIds[i] = EvidenceIds[j] => i = j
  BY LedgerAssumption
<1> HIDE DEF ev, ch, fb, log
<1>4. \A i, j \in DOMAIN ev : ev[i].id = ev[j].id => i = j
  BY <1>1, <1>2, <1>3 DEF EvidenceOK
<1>5. Cardinality(Ids(ev)) = Len(ev)
  <2> DEFINE f == [i \in 1 .. Len(ev) |-> ev[i].id]
  <2>1. DOMAIN f = 1 .. Len(ev) /\ \A i \in 1 .. Len(ev) : f[i] = ev[i].id
    OBVIOUS
  <2>2. f = [i \in 1 .. Len(ev) |-> f[i]]
    OBVIOUS
  <2>3. \A i \in 1 .. Len(ev) : f[i] \in Ids(ev)
    BY <1>2, <2>1 DEF Ids
  <2>4. \A y \in Ids(ev) : \E i \in 1 .. Len(ev) : f[i] = y
    BY <1>2, <2>1 DEF Ids
  <2>5. \A i, j \in 1 .. Len(ev) : f[i] = f[j] => i = j
    BY <1>2, <1>4, <2>1
  <2>6. IsFiniteSet(1 .. Len(ev)) /\ Cardinality(1 .. Len(ev)) = Len(ev)
    <3>1. PICK n \in Nat : n = Len(ev)
      BY <1>2
    <3>2. IsFiniteSet(1 .. n) /\ Cardinality(1 .. n) = IF 1 > n THEN 0 ELSE n - 1 + 1
      BY FS_Interval
    <3>3. Cardinality(1 .. n) = n
      BY <3>2
    <3> QED
      BY <3>1, <3>2, <3>3
  <2> HIDE DEF f
  <2>7. Cardinality(1 .. Len(ev)) = Cardinality(Ids(ev))
    BY <2>1, <2>2, <2>3, <2>4, <2>5, <2>6, SameSize
  <2> QED
    BY <2>6, <2>7
<1>6. ASSUME NEW i \in DOMAIN log, log[i].type = "PRODUCTION_FEEDBACK_IMPORTED"
      PROVE  LET e == log[i]
                 stored == {j \in DOMAIN fb : fb[j].id = e.result}
                 Told(j) == Sources(fb[j])
             IN /\ Cardinality(stored) = 1
                /\ \A j \in stored :
                     /\ fb[j].body = e.body
                     /\ \A s \in Told(j) : Cardinality({k \in DOMAIN ev : ev[k].loc = s.loc}) = 1
                     /\ Cardinality(Told(j)) = Cardinality(e.evidence) /\ e.evidence \subseteq Ids(ev)
                     /\ \A x \in DOMAIN Bodies[e.body].changes :
                          Cardinality({k \in DOMAIN ch : <<ch[k].result, ch[k].source>> = <<e.result, x>>}) = 1
                /\ e.reopened => <<"REOPEN", e.result>> \in Ids(log)
  <2> DEFINE e == log[i]
             stored == {j \in DOMAIN fb : fb[j].id = e.result}
  <2>1. ToldWhole(ev, ch, fb, Ids(log), e)
    BY <1>1, <1>6 DEF Whole, IsImport
  <2> HIDE DEF e
  <2>2. PICK j \in DOMAIN fb :
          /\ fb[j].id = e.result /\ fb[j].body = e.body
          /\ \A s \in Sources(fb[j]) : \E k \in DOMAIN ev : ev[k].loc = s.loc
          /\ e.evidence = {ev[k].id : k \in {k \in DOMAIN ev : \E s \in Sources(fb[j]) : ev[k].loc = s.loc}}
    BY <2>1 DEF ToldWhole
  <2>3. \A i1, i2 \in stored : i1 = i2
    BY <1>1 DEF FeedbackOK
  <2>4. j \in stored
    BY <2>2
  <2>5. Cardinality(stored) = 1
    <3> HIDE DEF stored
    <3> QED
      BY <2>3, <2>4, OneIndex
  <2>6. IsFiniteSet(Sources(fb[j])) /\ \A s1, s2 \in Sources(fb[j]) : s1.loc = s2.loc => s1 = s2
    BY <1>1, SourceFacts DEF FeedbackOK
  <2>7. ASSUME NEW s \in Sources(fb[j])
        PROVE  Cardinality({k \in DOMAIN ev : ev[k].loc = s.loc}) = 1
    <3> DEFINE S == {k \in DOMAIN ev : ev[k].loc = s.loc}
    <3>1. \A k, l \in S : k = l
      BY <1>1 DEF EvidenceOK
    <3>2. \E k : k \in S
      BY <2>2
    <3> HIDE DEF S
    <3>3. Cardinality(S) = 1
      BY <3>1, <3>2, OneIndex
    <3> QED
      BY <3>3 DEF S
  <2>8. Cardinality(Sources(fb[j])) = Cardinality(e.evidence)
    <3> DEFINE At(s) == CHOOSE k \in DOMAIN ev : ev[k].loc = s.loc
               f == [s \in Sources(fb[j]) |-> ev[At(s)].id]
    <3>1. \A s \in Sources(fb[j]) : At(s) \in DOMAIN ev /\ ev[At(s)].loc = s.loc
      BY <2>2
    <3>2. \A s \in Sources(fb[j]), k \in DOMAIN ev : ev[k].loc = s.loc => k = At(s)
      BY <1>1, <3>1 DEF EvidenceOK
    <3>3. DOMAIN f = Sources(fb[j]) /\ f = [s \in Sources(fb[j]) |-> f[s]]
          /\ \A s \in Sources(fb[j]) : f[s] = ev[At(s)].id
      OBVIOUS
    <3> HIDE DEF At, f
    <3>4. \A s \in Sources(fb[j]) : f[s] \in e.evidence
      BY <2>2, <3>1, <3>3
    <3>5. \A s1, s2 \in Sources(fb[j]) : f[s1] = f[s2] => s1 = s2
      BY <1>4, <2>6, <3>1, <3>3
    <3>6. \A y \in e.evidence : \E s \in Sources(fb[j]) : f[s] = y
      BY <2>2, <3>2, <3>3
    <3> QED
      BY <2>6, <3>3, <3>4, <3>5, <3>6, SameSize
  <2>9. e.evidence \subseteq Ids(ev)
    BY <2>2 DEF Ids
  <2>10. ASSUME NEW x \in DOMAIN Bodies[e.body].changes
         PROVE  Cardinality({k \in DOMAIN ch : <<ch[k].result, ch[k].source>> = <<e.result, x>>}) = 1
    <3> DEFINE S == {k \in DOMAIN ch : <<ch[k].result, ch[k].source>> = <<e.result, x>>}
    <3>1. \A k, l \in S : k = l
      BY <1>1 DEF ChangesOK
    <3>2. \E k : k \in S
      BY <2>1 DEF ToldWhole
    <3> HIDE DEF S
    <3>3. Cardinality(S) = 1
      BY <3>1, <3>2, OneIndex
    <3> QED
      BY <3>3 DEF S
  <2>11. e.reopened => <<"REOPEN", e.result>> \in Ids(log)
    BY <2>1 DEF ToldWhole
  <2>12. \A l \in stored : l = j
    BY <2>3, <2>4
  <2> HIDE DEF stored
  <2>13. \A l \in stored :
           /\ fb[l].body = e.body
           /\ \A s \in Sources(fb[l]) : Cardinality({k \in DOMAIN ev : ev[k].loc = s.loc}) = 1
           /\ Cardinality(Sources(fb[l])) = Cardinality(e.evidence) /\ e.evidence \subseteq Ids(ev)
           /\ \A x \in DOMAIN Bodies[e.body].changes :
                Cardinality({k \in DOMAIN ch : <<ch[k].result, ch[k].source>> = <<e.result, x>>}) = 1
    <3> SUFFICES ASSUME NEW l \in stored
                 PROVE  /\ fb[l].body = e.body
                        /\ \A s \in Sources(fb[l]) : Cardinality({k \in DOMAIN ev : ev[k].loc = s.loc}) = 1
                        /\ Cardinality(Sources(fb[l])) = Cardinality(e.evidence) /\ e.evidence \subseteq Ids(ev)
                        /\ \A x \in DOMAIN Bodies[e.body].changes :
                             Cardinality({k \in DOMAIN ch : <<ch[k].result, ch[k].source>> = <<e.result, x>>}) = 1
      OBVIOUS
    <3>1. l = j
      BY <2>12
    <3> QED
      BY <2>2, <2>7, <2>8, <2>9, <2>10, <3>1
  <2> QED
    BY <2>5, <2>11, <2>13 DEF e, stored
<1> QED
  BY <1>5, <1>6 DEF ImportedWhole, ev, ch, fb, log

(* Two bundles that leave with the same ID and revision hold the same      *)
(* handoff (build_handoff.py compares a rebuilt one with the last).        *)
THEOREM OneContent == Spec => []OneContentPerRevision
<1>1. IInv => OneContentPerRevision
  BY DEF IInv, SentOnce
<1> QED
  BY <1>1, InvariantHolds, PTL

(* A handoff that left resolves for ever against the records it left with  *)
(* (export_handoff.py validates, then copies; evidence is only added).     *)
THEOREM BundlesStandAlone == Spec => []BundleStandsAlone
<1>1. IInv => BundleStandsAlone
  BY FreeIsGood DEF Good, Supported, BundleStandsAlone
<1> QED
  BY <1>1, InvariantHolds, PTL

(* What the run log says was imported is there as a whole, and once        *)
(* (import_production_result.py writes its event last).                    *)
THEOREM ImportsAreWhole == Spec => []ImportedWhole
<1>1. IInv => ImportedWhole
  BY FreeIsGood, WholeIsImported
<1> QED
  BY <1>1, InvariantHolds, PTL

(* Signals rest on a result stored and audited (export_feedback_signals.py *)
(* reads both, and an import that rolls back never takes them away).       *)
THEOREM SignalsAreBacked == Spec => []SignalsBacked
<1>1. IInv => SignalsBacked
  BY FreeIsGood DEF Good, Backed, SignalsBacked
<1> QED
  BY <1>1, InvariantHolds, PTL

(* To say so of all the files at once, they have to be a function.         *)
IsFcn(f) == f = [p \in DOMAIN f |-> f[p]]
Shaped == IsFcn(files) /\ IsFcn(call.began)

LEMMA ShapedStays ==
  ASSUME IInv, Shaped, [Next]_vars
  PROVE  Shaped'
<1>1. DOMAIN call = {"op", "todo", "undo", "failing", "began"}
  BY DEF IInv
<1>2. IsFcn(Idle.began)
  BY DEF IsFcn, Idle
<1>3. \A x, v : IsFcn([files EXCEPT ![x] = v])
  BY DEF IsFcn
<1>4. ASSUME NEW op, NEW todo, NEW undo, Begin(op, todo, undo), files' = files
      PROVE  Shaped'
  BY <1>4, Started DEF Shaped
<1>5. ASSUME call' = Idle, files' = files
      PROVE  Shaped'
  BY <1>2, <1>5 DEF Shaped
<1>6. ASSUME call' = call, files' = files
      PROVE  Shaped'
  BY <1>6 DEF Shaped
<1>7. CASE \E id \in HandoffIds, revision \in 1 .. MaxRevision, supersedes \in HandoffIds \cup {None} :
             BuildHandoff(id, revision, supersedes)
  BY <1>4, <1>7 DEF BuildHandoff
<1>8. CASE ExportHandoff
  BY <1>4, <1>8 DEF ExportHandoff
<1>9. CASE \E r \in Results : ImportResult(r)
  BY <1>4, <1>9 DEF ImportResult
<1>10. CASE WriteNext
  <2>1. call'.began = call.began /\ IsFcn(files')
    BY <1>1, <1>3, <1>10 DEF WriteNext, Put
  <2> QED
    BY <2>1 DEF Shaped
<1>11. CASE WriteFails \/ Reject
  <2>1. call'.began = call.began /\ files' = files
    BY <1>1, <1>11 DEF WriteFails, Reject
  <2> QED
    BY <2>1 DEF Shaped
<1>12. CASE PutBack
  <2>1. call'.began = call.began /\ IsFcn(files')
    BY <1>1, <1>3, <1>12 DEF PutBack, Put
  <2> QED
    BY <2>1 DEF Shaped
<1>13. CASE Accept \/ Raise \/ Die
  BY <1>5, <1>13 DEF Accept, Raise, Die
<1>14. CASE EditRecords \/ (\E id \in ResultIds : ExportSignals(id)) \/ UNCHANGED vars
  BY <1>6, <1>14 DEF EditRecords, ExportSignals, vars
<1>15. CASE CheckOutViewer \/ \E to \in Goals : Advance(to)
  <2>1. call' = call /\ IsFcn(files')
    BY <1>15 DEF CheckOutViewer, Advance, IsFcn
  <2> QED
    BY <2>1 DEF Shaped
<1> QED
  BY <1>7, <1>8, <1>9, <1>10, <1>11, <1>12, <1>13, <1>14, <1>15 DEF Next

(* An import that fails with an error, and not by the death of its         *)
(* process, has put every file back.                                       *)
LEMMA FailurePutsBack ==
  ASSUME IInv, Shaped, [Next]_vars, call.op = "import", call.failing, call' = Idle, troubles' = troubles
  PROVE  files' = call.began
<1>1. PICK t : InHand(t)
  BY DEF IInv
<1>2. ImportCall(t)
  BY <1>1 DEF InHand, BuildCall, ExportCall, Idle
<1>3. Raise
  <2>1. call # Idle
    BY DEF Idle
  <2>2. ~ Free
    BY <2>1 DEF Free
  <2>3. ~ WriteNext /\ ~ WriteFails /\ ~ Accept /\ ~ Reject
    BY DEF WriteNext, WriteFails, Accept, Reject
  <2>4. ~ PutBack
    <3>1. call.failing # FALSE
      OBVIOUS
    <3> QED
      BY <3>1, <2>1 DEF PutBack, Idle, IInv
  <2>5. ~ Die
    <3>1. ASSUME Die PROVE troubles' # troubles
      BY <3>1 DEF Die
    <3> QED
      BY <3>1
  <2>6. ~ UNCHANGED vars
    BY <2>1 DEF vars
  <2>7. ~ EditRecords /\ ~ CheckOutViewer /\ ~ ExportHandoff
    BY <2>2 DEF EditRecords, CheckOutViewer, ExportHandoff
  <2>8. /\ \A r : ~ ImportResult(r)
        /\ \A id : ~ ExportSignals(id)
        /\ \A to : ~ Advance(to)
        /\ \A id, revision, supersedes : ~ BuildHandoff(id, revision, supersedes)
    BY <2>2 DEF ImportResult, ExportSignals, Advance, BuildHandoff
  <2> QED
    BY <2>3, <2>4, <2>5, <2>6, <2>7, <2>8 DEF Next
<1>4. /\ files' = files /\ call.undo = <<>>
  BY <1>3 DEF Raise
<1>5. \A p \in Paths : files[p] = call.began[p]
  BY <1>2, <1>4, RollbackEnds DEF ImportCall
<1>6. DOMAIN files = Paths /\ DOMAIN call.began = Paths
  BY <1>2 DEF ImportCall, Rollback
<1>7. files = [p \in Paths |-> files[p]] /\ call.began = [p \in Paths |-> call.began[p]]
  BY <1>6 DEF Shaped, IsFcn
<1>8. files = call.began
  BY <1>5, <1>7
<1> QED
  BY <1>4, <1>8

(* No failed import leaves a trace, in the project or in the viewers'      *)
(* ledger (import_production_result.py restores its snapshots).            *)
THEOREM NoTraceIsLeft == Spec => FailedImportLeavesNoTrace
<1>1. Init => Shaped
  BY DEF Init, Idle, Shaped, IsFcn
<1>2. IInv /\ Shaped /\ [Next]_vars => Shaped'
  BY ShapedStays
<1>3. Spec => []Shaped
  BY <1>1, <1>2, InvariantHolds, PTL DEF Spec
<1>4. IInv /\ Shaped /\ [Next]_vars
        => [call.op = "import" /\ call.failing /\ call' = Idle /\ troubles' = troubles => files' = call.began]_vars
  BY FailurePutsBack
<1> QED
  BY <1>3, <1>4, InvariantHolds, PTL DEF Spec, FailedImportLeavesNoTrace
=============================================================================
