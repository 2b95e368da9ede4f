-------------------------- MODULE ProjectFiles_proofs --------------------------
(***************************************************************************)
(* Proofs about ProjectFiles, when the commands on one project take turns: *)
(* for any questions, requests, events and limits, wherever writes raise   *)
(* and processes die.                                                      *)
(*                                                                         *)
(* A command is a list of writes and a list that undoes them.  Its         *)
(* invariant speaks of the disks that are still to come: whatever part of  *)
(* the one list is done, and whatever part of the other after it, the disk *)
(* is Good; and a command that is let finish, or undo, leaves files that   *)
(* tell one story.  Of decisions it says that each register and each log   *)
(* among those writes agree, whichever of them come to lie side by side.   *)
(***************************************************************************)
EXTENDS ProjectFiles, FiniteSetTheorems, SequenceTheorems, WellFoundedInduction, TLAPS

Files == {"manifest", "state", "questions", "report", "decisions", "log"}
Values(s) == {s[i] : i \in DOMAIN s}
Listed(s) == s \in Seq(Values(s))

-----------------------------------------------------------------------------
(* Disks, and what writes make of them.                                    *)

IsDisk(d) == d = [f \in Files |-> d[f]]

(* A list of writes to different files, or of one event to append.         *)
Prog(ws) ==
  /\ Listed(ws)
  /\ \A i, j \in 1 .. Len(ws) : i # j => ws[i].file # ws[j].file
  /\ \A i \in 1 .. Len(ws) : ws[i].file \in Files \cup {"check"} \/ (ws[i].file = "append" /\ Len(ws) = 1)

(* The disk after the first n writes of a list.                            *)
After(d, ws, n) ==
  [f \in Files |->
     IF \E i \in 1 .. n : ws[i].file = f THEN ws[CHOOSE i \in 1 .. n : ws[i].file = f].content
     ELSE IF f = "log" /\ \E i \in 1 .. n : ws[i].file = "append"
     THEN Append(d.log, ws[CHOOSE i \in 1 .. n : ws[i].file = "append"].content)
     ELSE d[f]]

(* What is true of the events of a log: each by itself, and each two.      *)
Sound(e, rev, qs) ==
  /\ e.type = "STOPPING_DECISION" => e.q \in Questions /\ qs[e.q] # "OPEN"
  /\ e.type = "TASK" => e.val \in Nat /\ e.val <= rev
  /\ e.id[1] \in {"RUN", "AGENT"} => e.id[2] \in Nat

Apart(e, f) ==
  /\ e.id # f.id
  /\ ~(e.type = "STOPPING_DECISION" /\ f.type = "STOPPING_DECISION" /\ e.q = f.q)
  /\ ~(e.id[1] = "SEARCH" /\ f.id[1] = "SEARCH" /\ e.id[2].id = f.id[2].id)

Fine(log, rev, qs, t) ==
  /\ Listed(log) /\ rev \in Nat
  /\ \A i \in DOMAIN log : Sound(log[i], rev, qs)
  /\ \A i, j \in DOMAIN log : i # j => Apart(log[i], log[j])
  /\ t \subseteq Recorded(log)

IsState(s) == s = [status |-> s.status, last |-> s.last, rev |-> s.rev, answered |-> s.answered]

Good(d, t) == IsDisk(d) /\ IsState(d.state) /\ Fine(d.log, d.state.rev, d.questions, t)

Forward(d, A, t) == \A n \in 0 .. Len(A) : Good(After(d, A, n), t)
Back(d, A, B, t) == \A n \in 0 .. Len(A) - 1, m \in 0 .. Len(B) : Good(After(After(d, A, n), B, m), t)

(* A process that goes on with other writes.                               *)
Turned(r, x, m, k) == [todo |-> x, undo |-> r.undo, mode |-> m, locked |-> k, acks |-> r.acks]

IsProc(r) == r = [todo |-> r.todo, undo |-> r.undo, mode |-> r.mode, locked |-> r.locked, acks |-> r.acks]

Safe(d, r, t) ==
  /\ IsProc(r) /\ r.mode \in {"idle", "do", "undo"}
  /\ r.mode = "idle" => r.todo = <<>>
  /\ r.mode # "idle" => Prog(r.todo) /\ Forward(d, r.todo, t)
  /\ r.mode # "idle" => Prog(r.undo) /\ Back(d, r.todo, r.undo, t)
  /\ r.mode = "do" => r.acks \subseteq Recorded(After(d, r.todo, Len(r.todo)).log)

FilesInv ==
  /\ Good(disk, told)
  /\ DOMAIN proc = Processes
  /\ \A p \in Processes : Safe(disk, proc[p], told)
  /\ \A p, q \in Processes : proc[p].mode # "idle" /\ proc[q].mode # "idle" => p = q

(* The files tell one story.                                               *)
Tells(d) ==
  /\ d.manifest = d.state.status /\ d.manifest \in Statuses
  /\ ReplayProject(d) = d.state.status
  /\ d.state.last = NoId \/ d.state.last \in Ids(d.log)
  /\ d.manifest \in Completed => d.report = d.manifest

Ends(d, r) ==
  /\ r.mode # "idle" => Tells(After(d, r.todo, Len(r.todo)))
  /\ r.mode # "idle" => \A n \in 0 .. Len(r.todo) - 1 : Tells(After(After(d, r.todo, n), r.undo, Len(r.undo)))

StoryInv ==
  ~torn => /\ Quiet => Tells(disk)
           /\ \A p \in Processes : Ends(disk, proc[p])

-----------------------------------------------------------------------------
(* Sequences, known by their values only.                                  *)

LEMMA ListedFacts ==
  ASSUME NEW s, Listed(s)
  PROVE  /\ Len(s) \in Nat /\ DOMAIN s = 1 .. Len(s)
         /\ s = <<>> <=> Len(s) = 0
         /\ \A i \in 1 .. Len(s) : s[i] \in Values(s)
         /\ \A w \in Values(s) : \E i \in 1 .. Len(s) : s[i] = w
<1>1. s \in Seq(Values(s))
  BY DEF Listed
<1>2. Len(s) \in Nat /\ DOMAIN s = 1 .. Len(s)
  BY <1>1, LenProperties
<1>3. s = <<>> <=> Len(s) = 0
  BY <1>1, EmptySeq
<1> QED
  BY <1>2, <1>3 DEF Values

LEMMA SeqIsListed ==
  ASSUME NEW S, NEW s \in Seq(S)
  PROVE  Listed(s)
<1>1. Len(s) \in Nat /\ DOMAIN s = 1 .. Len(s) /\ s \in [1 .. Len(s) -> S]
  BY LenProperties
<1>2. \A i \in 1 .. Len(s) : s[i] \in Values(s)
  BY <1>1 DEF Values
<1>3. s \in [1 .. Len(s) -> Values(s)]
  BY <1>1, <1>2
<1> QED
  BY <1>1, <1>3, SeqDef DEF Listed

LEMMA ShortListed == Listed(<<>>) /\ (\A x : Listed(<<x>>)) /\ (\A x, y : Listed(<<x, y>>))
<1>1. Listed(<<>>)
  BY SeqIsListed, EmptySeq
<1>2. ASSUME NEW x PROVE Listed(<<x>>)
  <2>1. <<x>> \in Seq({x})
    OBVIOUS
  <2> QED
    BY <2>1, SeqIsListed
<1>3. ASSUME NEW x, NEW y PROVE Listed(<<x, y>>)
  <2>1. <<x, y>> \in Seq({x, y})
    OBVIOUS
  <2> QED
    BY <2>1, SeqIsListed
<1> QED
  BY <1>1, <1>2, <1>3

LEMMA ListedConcat ==
  ASSUME NEW s, NEW t, Listed(s), Listed(t)
  PROVE  /\ Listed(s \o t)
         /\ Len(s \o t) = Len(s) + Len(t)
         /\ \A i \in 1 .. Len(s) : (s \o t)[i] = s[i]
         /\ \A i \in 1 .. Len(t) : (s \o t)[Len(s) + i] = t[i]
         /\ \A i \in 1 .. Len(s \o t) : i \in 1 .. Len(s) \/ \E j \in 1 .. Len(t) : i = Len(s) + j
         /\ Values(s \o t) = Values(s) \cup Values(t)
<1> DEFINE S == Values(s) \cup Values(t)
<1>1. s \in Seq(S) /\ t \in Seq(S)
  BY SeqMonotonic DEF Listed
<1> DEFINE u == s \o t
<1>2. /\ u \in Seq(S) /\ Len(u) = Len(s) + Len(t)
      /\ \A i \in 1 .. Len(s) + Len(t) : u[i] = IF i <= Len(s) THEN s[i] ELSE t[i - Len(s)]
  BY <1>1, ConcatProperties
<1>3. /\ Len(s) \in Nat /\ DOMAIN s = 1 .. Len(s)
      /\ Len(t) \in Nat /\ DOMAIN t = 1 .. Len(t)
      /\ DOMAIN u = 1 .. Len(u)
  BY <1>1, <1>2, LenProperties
<1> HIDE DEF S, u
<1>4. Listed(u)
  BY <1>2, SeqIsListed
<1>5. \A i \in 1 .. Len(s) : u[i] = s[i]
  BY <1>2, <1>3
<1>6. \A i \in 1 .. Len(t) : u[Len(s) + i] = t[i]
  BY <1>2, <1>3
<1>7. \A i \in 1 .. Len(u) : i \in 1 .. Len(s) \/ \E j \in 1 .. Len(t) : i = Len(s) + j
  <2> SUFFICES ASSUME NEW i \in 1 .. Len(u), i \notin 1 .. Len(s)
               PROVE  \E j \in 1 .. Len(t) : i = Len(s) + j
    OBVIOUS
  <2>1. i - Len(s) \in 1 .. Len(t) /\ i = Len(s) + (i - Len(s))
    BY <1>2, <1>3
  <2> QED
    BY <2>1
<1>8. Values(u) = Values(s) \cup Values(t)
  <2>1. ASSUME NEW w \in Values(u) PROVE w \in Values(s) \cup Values(t)
    <3>1. PICK i \in 1 .. Len(u) : w = u[i]
      BY <1>3 DEF Values
    <3>2. CASE i \in 1 .. Len(s)
      BY <3>1, <3>2, <1>3, <1>5 DEF Values
    <3>3. ASSUME NEW j \in 1 .. Len(t), i = Len(s) + j PROVE w \in Values(t)
      BY <3>1, <3>3, <1>3, <1>6 DEF Values
    <3> QED
      BY <3>2, <3>3, <1>7
  <2>2. ASSUME NEW w \in Values(s) PROVE w \in Values(u)
    <3>1. PICK i \in 1 .. Len(s) : w = s[i]
      BY <1>3 DEF Values
    <3>2. i \in DOMAIN u /\ u[i] = w
      BY <3>1, <1>2, <1>3, <1>5
    <3> QED
      BY <3>2 DEF Values
  <2>3. ASSUME NEW w \in Values(t) PROVE w \in Values(u)
    <3>1. PICK i \in 1 .. Len(t) : w = t[i]
      BY <1>3 DEF Values
    <3>2. Len(s) + i \in DOMAIN u /\ u[Len(s) + i] = w
      BY <3>1, <1>2, <1>3, <1>6
    <3> QED
      BY <3>2 DEF Values
  <2> QED
    BY <2>1, <2>2, <2>3
<1> QED
  BY <1>2, <1>4, <1>5, <1>6, <1>7, <1>8 DEF u

LEMMA ListedTail ==
  ASSUME NEW s, Listed(s), s # <<>>
  PROVE  /\ Listed(Tail(s))
         /\ Len(s) \in Nat \ {0} /\ Head(s) = s[1]
         /\ Len(Tail(s)) = Len(s) - 1 /\ DOMAIN Tail(s) = 1 .. Len(s) - 1
         /\ \A i \in 1 .. Len(s) - 1 : Tail(s)[i] = s[i + 1]
         /\ Values(s) = {Head(s)} \cup Values(Tail(s))
<1> DEFINE S == Values(s)
           r == Tail(s)
<1>1. s \in Seq(S)
  BY DEF Listed
<1>2. /\ r \in Seq(S) /\ Len(r) = Len(s) - 1
      /\ \A i \in 1 .. Len(r) : r[i] = s[i + 1]
  BY <1>1, HeadTailProperties
<1>3. Len(s) \in Nat \ {0} /\ DOMAIN s = 1 .. Len(s) /\ DOMAIN r = 1 .. Len(r)
  BY <1>1, <1>2, LenProperties, EmptySeq
<1>4. Head(s) = s[1]
  BY <1>1
<1> HIDE DEF S, r
<1>5. Values(s) = {s[1]} \cup Values(r)
  <2>1. ASSUME NEW w \in Values(s) PROVE w \in {s[1]} \cup Values(r)
    <3>1. PICK i \in 1 .. Len(s) : w = s[i]
      BY <1>3 DEF Values
    <3>2. CASE i = 1
      BY <3>1, <3>2
    <3>3. CASE i # 1
      <4>1. i - 1 \in 1 .. Len(r) /\ r[i - 1] = s[i]
        BY <1>2, <1>3, <3>3
      <4> QED
        BY <4>1, <3>1, <1>3 DEF Values
    <3> QED
      BY <3>2, <3>3
  <2>2. ASSUME NEW w \in Values(r) PROVE w \in Values(s)
    <3>1. PICK i \in 1 .. Len(r) : w = r[i]
      BY <1>3 DEF Values
    <3>2. i + 1 \in 1 .. Len(s) /\ s[i + 1] = w
      BY <1>2, <1>3, <3>1
    <3> QED
      BY <3>2, <1>3 DEF Values
  <2>3. s[1] \in Values(s)
    BY <1>3 DEF Values
  <2> QED
    BY <2>1, <2>2, <2>3
<1> QED
  BY <1>2, <1>3, <1>4, <1>5, SeqIsListed DEF r

LEMMA SetToSeqFacts ==
  ASSUME NEW S, IsFiniteSet(S)
  PROVE  /\ Listed(SetToSeq(S)) /\ Len(SetToSeq(S)) = Cardinality(S)
         /\ Values(SetToSeq(S)) = S
         /\ \A i, j \in DOMAIN SetToSeq(S) : SetToSeq(S)[i] = SetToSeq(S)[j] => i = j
<1> DEFINE n == Cardinality(S)
           s == SetToSeq(S)
<1>1. n \in Nat /\ ExistsBijection(1 .. n, S)
  BY FS_CardinalityType
<1>2. \E f \in [1 .. n -> S] : IsInjective(f)
  BY <1>1 DEF ExistsBijection, Bijection, Injection
<1>3. s \in [1 .. n -> S] /\ IsInjective(s)
  BY <1>2 DEF SetToSeq
<1>4. Cardinality(1 .. n) = n
  BY <1>1, FS_Interval
<1>5. s \in Injection(1 .. n, S)
  BY <1>3 DEF Injection
<1>6. s \in Surjection(1 .. n, S)
  BY <1>4, <1>5, FS_Injection
<1> HIDE DEF s, n
<1>7. s \in Seq(S) /\ Len(s) = n /\ DOMAIN s = 1 .. n
  BY <1>1, <1>3, SeqDef
<1>8. Values(s) = S
  BY <1>3, <1>6, <1>7 DEF Values, Surjection
<1>9. Listed(s)
  BY <1>7, SeqIsListed
<1> QED
  BY <1>3, <1>7, <1>8, <1>9 DEF s, n, IsInjective

LEMMA ImageFinite ==
  ASSUME NEW D, IsFiniteSet(D), NEW f, DOMAIN f = D
  PROVE  IsFiniteSet({f[x] : x \in D}) 
<1> DEFINE T == {f[x] : x \in D}
           g == [x \in D |-> f[x]]
<1>1. g \in Surjection(D, T)
  BY DEF Surjection
<1> QED
  BY <1>1, FS_Surjection

-----------------------------------------------------------------------------
(* Writes.                                                                 *)

LEMMA AfterNone ==
  ASSUME NEW d, IsDisk(d), NEW ws
  PROVE  After(d, ws, 0) = d
<1>1. 1 .. 0 = {}
  OBVIOUS
<1> QED
  BY <1>1 DEF After, IsDisk

LEMMA AfterIsDisk ==
  ASSUME NEW d, NEW ws, NEW n, NEW a, a = After(d, ws, n)
  PROVE  IsDisk(a)
BY DEF After, IsDisk

(* What is in a file after some writes: what was there, or what the one    *)
(* write to it put there.                                                  *)
Holds(d, ws, n, a, f) ==
  /\ \A i \in 1 .. n : ws[i].file = f => a[f] = ws[i].content
  /\ \/ \E i \in 1 .. n : ws[i].file = f
     \/ \E i \in 1 .. n : ws[i].file = "append" /\ f = "log"
     \/ a[f] = d[f]

LEMMA AfterFile ==
  ASSUME NEW d, NEW ws, Prog(ws), NEW n \in 0 .. Len(ws), NEW a, a = After(d, ws, n), NEW f \in Files
  PROVE  Holds(d, ws, n, a, f)
<1>1. Len(ws) \in Nat /\ \A i, j \in 1 .. Len(ws) : i # j => ws[i].file # ws[j].file
  BY ListedFacts DEF Prog
<1>2. \A i, j \in 1 .. n : i # j => ws[i].file # ws[j].file
  BY <1>1
<1>3. \A i \in 1 .. n : ws[i].file = f => a[f] = ws[i].content
  <2> SUFFICES ASSUME NEW i \in 1 .. n, ws[i].file = f PROVE a[f] = ws[i].content
    OBVIOUS
  <2> DEFINE j == CHOOSE j \in 1 .. n : ws[j].file = f
  <2>1. j \in 1 .. n /\ ws[j].file = f
    OBVIOUS
  <2>2. a[f] = ws[j].content
    BY DEF After
  <2> QED
    BY <1>2, <2>1, <2>2
<1>4. \/ \E i \in 1 .. n : ws[i].file = f
      \/ \E i \in 1 .. n : ws[i].file = "append" /\ f = "log"
      \/ a[f] = d[f]
  BY DEF After
<1> QED
  BY <1>3, <1>4 DEF Holds

LEMMA AfterAppend ==
  ASSUME NEW d, NEW ws, ws[1].file = "append", NEW a, a = After(d, ws, 1)
  PROVE  a.log = Append(d.log, ws[1].content) /\ \A f \in Files \ {"log"} : a[f] = d[f]
<1>1. 1 .. 1 = {1} /\ ws[1].file = "append"
  OBVIOUS
<1>2. (CHOOSE i \in 1 .. 1 : ws[i].file = "append") = 1
  BY <1>1
<1>3. \A i \in 1 .. 1 : ws[i].file = "append"
  BY <1>1
<1> QED
  BY <1>1, <1>2, <1>3 DEF After, Files

(* A write and the rest of them.                                           *)
Writes(d, ws, r, e) == IsDisk(d) /\ Prog(ws) /\ ws # <<>> /\ r = Tail(ws) /\ e = Put(d, Head(ws))

LEMMA AfterStep ==
  ASSUME NEW d, NEW ws, NEW r, NEW e, Writes(d, ws, r, e)
  PROVE  /\ Prog(r) /\ IsDisk(e) /\ Len(ws) \in Nat \ {0} /\ Len(r) = Len(ws) - 1
         /\ \A n \in 0 .. Len(r) : After(e, r, n) = After(d, ws, n + 1)
<1> SUFFICES ASSUME IsDisk(d), Prog(ws), ws # <<>>, r = Tail(ws), e = Put(d, Head(ws))
             PROVE  /\ Prog(r) /\ IsDisk(e) /\ Len(ws) \in Nat \ {0} /\ Len(r) = Len(ws) - 1
                    /\ \A n \in 0 .. Len(r) : After(e, r, n) = After(d, ws, n + 1)
  BY DEF Writes
<1> DEFINE w == ws[1]
<1>1. /\ Listed(r) /\ Len(ws) \in Nat \ {0} /\ Head(ws) = w
      /\ Len(r) = Len(ws) - 1 /\ \A i \in 1 .. Len(ws) - 1 : r[i] = ws[i + 1]
  BY ListedTail DEF Prog
<1>2. /\ \A i, j \in 1 .. Len(ws) : i # j => ws[i].file # ws[j].file
      /\ \A i \in 1 .. Len(ws) : ws[i].file \in Files \cup {"check"} \/ (ws[i].file = "append" /\ Len(ws) = 1)
  BY DEF Prog
<1>3. Prog(r)
  <2>1. \A i \in 1 .. Len(r) : i + 1 \in 1 .. Len(ws) /\ r[i] = ws[i + 1]
    BY <1>1
  <2>2. \A i, j \in 1 .. Len(r) : i # j => r[i].file # r[j].file
    BY <1>1, <1>2, <2>1
  <2>3. \A i \in 1 .. Len(r) : r[i].file \in Files \cup {"check"}
    <3> SUFFICES ASSUME NEW i \in 1 .. Len(r) PROVE r[i].file \in Files \cup {"check"}
      OBVIOUS
    <3>1. Len(ws) # 1
      BY <1>1
    <3> QED
      BY <1>2, <2>1, <3>1
  <2> QED
    BY <1>1, <2>2, <2>3 DEF Prog
<1>4. w.file \in Files \cup {"check"} \/ (w.file = "append" /\ Len(ws) = 1)
  BY <1>1, <1>2
<1>5. /\ DOMAIN d = Files /\ e = [f \in Files |-> e[f]]
      /\ \A f \in Files : e[f] = IF w.file = f THEN w.content
                                 ELSE IF f = "log" /\ w.file = "append" THEN Append(d.log, w.content) ELSE d[f]
  <2>1. DOMAIN d = Files /\ d = [f \in Files |-> d[f]] /\ e = Put(d, w)
    BY <1>1 DEF IsDisk
  <2>2. CASE w.file = "check"
    BY <2>1, <2>2 DEF Put, Files
  <2>3. CASE w.file = "append"
    <3>1. e = [d EXCEPT !.log = Append(d.log, w.content)]
      BY <2>1, <2>3 DEF Put
    <3> DEFINE l == Append(d.log, w.content)
    <3> HIDE DEF l
    <3>2. e = [d EXCEPT !.log = l]
      BY <3>1 DEF l
    <3>3. e = [f \in Files |-> e[f]] /\ \A f \in Files : e[f] = IF f = "log" THEN l ELSE d[f]
      BY <2>1, <3>2 DEF Files
    <3> QED
      BY <2>1, <2>3, <3>3 DEF l, Files
  <2>4. CASE w.file \in Files
    <3>1. w.file # "check" /\ w.file # "append"
      BY <2>4 DEF Files
    <3>2. e = [d EXCEPT ![w.file] = w.content]
      BY <2>1, <3>1 DEF Put
    <3> HIDE DEF w
    <3>3. e = [f \in Files |-> e[f]] /\ \A f \in Files : e[f] = IF w.file = f THEN w.content ELSE d[f]
      BY <2>1, <2>4, <3>2
    <3> QED
      BY <2>1, <3>1, <3>3
  <2> QED
    BY <1>4, <2>2, <2>3, <2>4
<1>6. ASSUME NEW n \in 0 .. Len(r)
      PROVE  After(e, r, n) = After(d, ws, n + 1)
  <2> PICK x : x = After(e, r, n)
    OBVIOUS
  <2> PICK y : y = After(d, ws, n + 1)
    OBVIOUS
  <2>1. IsDisk(x) /\ IsDisk(y)
    BY AfterIsDisk
  <2>2. ASSUME NEW f \in Files PROVE x[f] = y[f]
    <3>1. n + 1 \in 0 .. Len(ws) /\ 1 \in 1 .. n + 1
      BY <1>1
    <3>2. /\ \A i \in 1 .. n : r[i].file = f => x[f] = r[i].content
          /\ \/ \E i \in 1 .. n : r[i].file = f
             \/ \E i \in 1 .. n : r[i].file = "append" /\ f = "log"
             \/ x[f] = e[f]
      <4>1. Holds(e, r, n, x, f)
        BY <1>3, AfterFile
      <4> QED
        BY <4>1 DEF Holds
    <3>3. /\ \A i \in 1 .. n + 1 : ws[i].file = f => y[f] = ws[i].content
          /\ \/ \E i \in 1 .. n + 1 : ws[i].file = f
             \/ \E i \in 1 .. n + 1 : ws[i].file = "append" /\ f = "log"
             \/ y[f] = d[f]
      <4>1. Holds(d, ws, n + 1, y, f)
        BY <3>1, AfterFile
      <4> QED
        BY <4>1 DEF Holds
    <3>4. \A i \in 1 .. n : i + 1 \in 1 .. n + 1 /\ r[i] = ws[i + 1]
      BY <1>1
    <3>5. \A i \in 1 .. n : r[i].file # "append"
      <4> SUFFICES ASSUME NEW i \in 1 .. n PROVE r[i].file # "append"
        OBVIOUS
      <4>1. Len(ws) # 1 /\ i + 1 \in 1 .. Len(ws)
        BY <1>1
      <4> QED
        BY <1>2, <3>4, <4>1 DEF Files
    <3>6. CASE \E i \in 1 .. n : r[i].file = f
      BY <3>2, <3>3, <3>4, <3>6
    <3>7. CASE ~(\E i \in 1 .. n : r[i].file = f) /\ w.file = f
      BY <1>5, <3>1, <3>2, <3>3, <3>5, <3>7
    <3>8. CASE ~(\E i \in 1 .. n : r[i].file = f) /\ w.file # f
      <4>1. x[f] = e[f]
        BY <3>2, <3>5, <3>8
      <4>2. \A i \in 1 .. n + 1 : ws[i].file # f
        <5> SUFFICES ASSUME NEW i \in 1 .. n + 1 PROVE ws[i].file # f
          OBVIOUS
        <5>1. CASE i = 1
          BY <3>8, <5>1
        <5>2. CASE i # 1
          <6>1. i - 1 \in 1 .. n /\ (i - 1) + 1 = i
            BY <1>1, <5>2
          <6> QED
            BY <3>4, <3>8, <6>1
        <5> QED
          BY <5>1, <5>2
      <4>3. CASE w.file = "append" /\ f = "log"
        <5>0. Len(ws) = 1
          BY <1>4, <4>3 DEF Files
        <5>1. n = 0
          <6>1. Len(r) = 0
            BY <1>1, <5>0
          <6>2. n \in 0 .. 0
            BY <6>1
          <6> QED
            BY <6>2
        <5>2. y = After(d, ws, 1)
          BY <5>1
        <5>3. y.log = Append(d.log, w.content)
          BY <4>3, <5>2, AfterAppend
        <5> QED
          BY <1>5, <3>8, <4>1, <4>3, <5>3
      <4>4. CASE ~(w.file = "append" /\ f = "log")
        <5>1. ~ \E i \in 1 .. n + 1 : ws[i].file = "append" /\ f = "log"
          <6> SUFFICES ASSUME NEW i \in 1 .. n + 1, ws[i].file = "append", f = "log" PROVE FALSE
            OBVIOUS
          <6>1. CASE i = 1
            BY <4>4, <6>1
          <6>2. CASE i # 1
            <7>1. i - 1 \in 1 .. n /\ (i - 1) + 1 = i
              BY <1>1, <6>2
            <7> QED
              BY <3>4, <3>5, <7>1
          <6> QED
            BY <6>1, <6>2
        <5>2. y[f] = d[f]
          BY <3>3, <4>2, <5>1
        <5>3. e[f] = d[f]
          BY <1>5, <3>8, <4>4
        <5> QED
          BY <4>1, <5>2, <5>3
      <4> QED
        BY <4>3, <4>4
    <3> QED
      BY <3>6, <3>7, <3>8
  <2> QED
    BY <2>1, <2>2 DEF IsDisk
<1> QED
  BY <1>1, <1>3, <1>5, <1>6 DEF IsDisk

-----------------------------------------------------------------------------
(* Numbers of events, and the order of the register.                       *)

LEMMA LeastNatural ==
  ASSUME NEW T \in SUBSET Nat, T # {}
  PROVE  \E n \in T : \A m \in T : n <= m
<1> DEFINE R == OpToRel(<, Nat)
<1>1. PICK n \in T : \A m \in T : ~(<<m, n>> \in R)
  BY WFMin, NatLessThanWellFounded
<1>2. \A m \in T : <<m, n>> \in R <=> m < n
  BY DEF OpToRel
<1>3. \A m \in T : ~(m < n)
  BY <1>1, <1>2
<1> QED
  BY <1>3

LEMMA LargestNatural ==
  ASSUME NEW S \in SUBSET Nat, IsFiniteSet(S), S # {}
  PROVE  \E x \in S : \A y \in S : y <= x
<1> DEFINE Top(T) == \E x \in T : \A y \in T : y <= x
           B == {n \in Nat : \E T \in SUBSET Nat : IsFiniteSet(T) /\ T # {} /\ Cardinality(T) = n /\ ~Top(T)}
<1>1. ASSUME B # {} PROVE FALSE
  <2>1. PICK n \in B : \A m \in B : n <= m
    BY <1>1, LeastNatural
  <2>2. PICK T \in SUBSET Nat : IsFiniteSet(T) /\ T # {} /\ Cardinality(T) = n /\ ~Top(T)
    OBVIOUS
  <2>3. PICK x \in T : TRUE
    BY <2>2
  <2> DEFINE U == T \ {x}
  <2>4. IsFiniteSet(U) /\ Cardinality(U) = n - 1 /\ n \in Nat
    BY <2>2, FS_RemoveElement
  <2>5. U # {}
    BY <2>2, <2>3
  <2>6. Cardinality(U) \in Nat
    BY <2>4, FS_CardinalityType
  <2>7. n - 1 \notin B /\ n - 1 \in Nat
    <3>1. n - 1 \in Nat
      BY <2>4, <2>6
    <3> HIDE DEF B
    <3> QED
      BY <2>1, <2>4, <3>1
  <2>8. Top(U)
    BY <2>4, <2>5, <2>7
  <2>9. PICK y \in U : \A z \in U : z <= y
    BY <2>8
  <2>10. \A z \in T : z <= IF x <= y THEN y ELSE x
    BY <2>9
  <2>11. Top(T)
    BY <2>9, <2>10
  <2> QED
    BY <2>2, <2>11
<1>2. Cardinality(S) \in Nat
  BY FS_CardinalityType
<1>3. Cardinality(S) \notin B
  BY <1>1
<1> QED
  BY <1>2, <1>3

(* The k-th smallest exists, and no two ranks have the same.               *)
LEMMA NthFacts ==
  ASSUME NEW S \in SUBSET Nat, IsFiniteSet(S), NEW k \in 1 .. Cardinality(S)
  PROVE  Nth(S, k) \in S /\ Cardinality({m \in S : m <= Nth(S, k)}) = k
<1> DEFINE Upto2(n) == {m \in S : m <= n}
           T == {n \in Nat : Cardinality(Upto2(n)) >= k}
<1>1. Cardinality(S) \in Nat
  BY FS_CardinalityType
<1>2. \A n : IsFiniteSet(Upto2(n)) /\ Cardinality(Upto2(n)) \in Nat
  <2>1. \A n : Upto2(n) \in SUBSET S
    OBVIOUS
  <2> QED
    BY <2>1, FS_Subset, FS_CardinalityType
<1>3. S # {}
  BY <1>1, FS_EmptySet
<1>4. PICK x \in S : \A y \in S : y <= x
  BY <1>3, LargestNatural
<1>5. Upto2(x) = S
  BY <1>4
<1>6. x \in T
  BY <1>1, <1>5
<1>7. PICK n \in T : \A m \in T : n <= m
  BY <1>6, LeastNatural
<1>8. n \in S
  <2> SUFFICES ASSUME n \notin S PROVE FALSE
    OBVIOUS
  <2>0. n \in Nat
    BY DEF T
  <2>1. CASE n = 0
    <3>1. Upto2(n) = {}
      <4>1. \A m \in S : m <= 0 => m = 0
        OBVIOUS
      <4> QED
        BY <2>0, <2>1, <4>1
    <3>2. Cardinality(Upto2(n)) = 0
      BY <3>1, FS_EmptySet
    <3> QED
      BY <3>2
  <2>2. CASE n # 0
    <3>1. n - 1 \in Nat
      BY <2>2
    <3>2. Upto2(n) = Upto2(n - 1)
      <4>1. \A m \in S : m <= n <=> m <= n - 1
        BY <2>0, <3>1
      <4> QED
        BY <4>1
    <3>3. n - 1 \in T
      BY <3>1, <3>2
    <3> HIDE DEF T
    <3>4. n \in Nat
      BY DEF T
    <3> QED
      BY <1>7, <3>3, <3>4
  <2> QED
    BY <2>1, <2>2
<1>9. Cardinality(Upto2(n)) = k
  <2>1. Upto2(n) \ {n} = Upto2(n - 1)
    <3>1. \A m \in S : m <= n /\ m # n <=> m <= n - 1
      BY <1>8
    <3> QED
      BY <3>1
  <2>2. n \in Upto2(n)
    BY <1>8
  <2>3. Cardinality(Upto2(n - 1)) = Cardinality(Upto2(n)) - 1
    <3> PICK A : A = Upto2(n)
      OBVIOUS
    <3>1. IsFiniteSet(A) /\ n \in A /\ A \ {n} = Upto2(n - 1)
      BY <1>2, <2>1, <2>2
    <3>2. Cardinality(A \ {n}) = Cardinality(A) - 1
      BY <3>1, FS_RemoveElement
    <3> HIDE DEF Upto2
    <3> QED
      BY <3>1, <3>2
  <2>4. Cardinality(Upto2(n - 1)) < k
    <3>1. CASE n = 0
      <4>1. Upto2(n - 1) = {}
        <5>1. \A m \in S : ~(m <= n - 1)
          BY <3>1
        <5> QED
          BY <5>1
      <4> QED
        BY <4>1, FS_EmptySet
    <3>2. CASE n # 0
      <4>1. n \in Nat /\ n - 1 \in Nat
        BY <3>2
      <4>2. n - 1 \notin T
        <5> HIDE DEF T
        <5> QED
          BY <1>7, <4>1
      <4>3. ~(Cardinality(Upto2(n - 1)) >= k)
        BY <4>1, <4>2
      <4> HIDE DEF Upto2
      <4> QED
        BY <1>2, <4>3
    <3> QED
      BY <3>1, <3>2
  <2>5. Cardinality(Upto2(n)) >= k
    OBVIOUS
  <2> HIDE DEF Upto2
  <2> QED
    BY <1>2, <2>3, <2>4, <2>5
<1> QED
  BY <1>8, <1>9 DEF Nth

LEMMA NthApart ==
  ASSUME NEW S \in SUBSET Nat, IsFiniteSet(S), NEW k \in 1 .. Cardinality(S), NEW j \in 1 .. Cardinality(S), k # j
  PROVE  Nth(S, k) # Nth(S, j)
<1>1. Cardinality({m \in S : m <= Nth(S, k)}) = k /\ Cardinality({m \in S : m <= Nth(S, j)}) = j
  BY NthFacts
<1> QED
  BY <1>1

(* There are as many unused numbers as are wanted.                         *)
LEMMA UnusedFacts ==
  ASSUME NEW log, Listed(log), NEW family, NEW count \in Nat, NEW U, U = Unused(log, family, count)
  PROVE  /\ U \in SUBSET Nat /\ IsFiniteSet(U) /\ Cardinality(U) >= count /\ Cardinality(U) \in Nat
         /\ \A n \in U : <<family, n>> \notin Ids(log)
<1> DEFINE D == 1 .. Len(log)
           R == 1 .. Len(log) + count
           f == [i \in D |-> log[i].id[2]]
           V == {f[i] : i \in D}
           N == NumbersOf(log, family)
<1>1. Len(log) \in Nat /\ DOMAIN log = D
  BY ListedFacts
<1>2. IsFiniteSet(D) /\ Cardinality(D) = Len(log) /\ IsFiniteSet(R) /\ Cardinality(R) = Len(log) + count
  <2>1. IsFiniteSet(D) /\ Cardinality(D) = Len(log)
    <3>1. 1 \in Int /\ Len(log) \in Int /\ (1 <= Len(log) \/ Len(log) = 0)
      BY <1>1
    <3>2. IsFiniteSet(D) /\ Cardinality(D) = IF 1 > Len(log) THEN 0 ELSE Len(log) - 1 + 1
      BY <3>1, FS_Interval
    <3> HIDE DEF D
    <3> QED
      BY <3>1, <3>2
  <2>2. IsFiniteSet(R) /\ Cardinality(R) = Len(log) + count
    <3> DEFINE h == Len(log) + count
    <3>1. 1 \in Int /\ h \in Nat
      BY <1>1
    <3> HIDE DEF h
    <3>2. IsFiniteSet(1 .. h) /\ Cardinality(1 .. h) = IF 1 > h THEN 0 ELSE h - 1 + 1
      BY <3>1, FS_Interval
    <3>3. Cardinality(1 .. h) = h
      BY <3>1, <3>2
    <3> QED
      BY <3>2, <3>3 DEF h
  <2> QED
    BY <2>1, <2>2
<1>3. N \subseteq V
  BY <1>1 DEF NumbersOf, Ids
<1>4. IsFiniteSet(V) /\ Cardinality(V) <= Len(log) /\ Cardinality(V) \in Nat
  <2>1. f \in Surjection(D, V)
    BY DEF Surjection
  <2> HIDE DEF f, V, D
  <2> QED
    BY <1>2, <2>1, FS_Surjection, FS_CardinalityType
<1> HIDE DEF V
<1>5. IsFiniteSet(N) /\ Cardinality(N) <= Len(log) /\ Cardinality(N) \in Nat
  <2>1. N \in SUBSET V
    BY <1>3
  <2>2. IsFiniteSet(N) /\ Cardinality(N) <= Cardinality(V)
    BY <1>4, <2>1, FS_Subset
  <2>3. Cardinality(N) \in Nat
    BY <2>2, FS_CardinalityType
  <2> QED
    BY <1>1, <1>4, <2>2, <2>3
<1>6. U = R \ N
  BY DEF Unused
<1>7. U \in SUBSET Nat /\ U \in SUBSET R
  BY <1>1, <1>6
<1>8. IsFiniteSet(U) /\ Cardinality(U) \in Nat
  BY <1>2, <1>7, FS_Subset, FS_CardinalityType
<1>9. Cardinality(U) >= count
  <2>1. R \subseteq U \cup N
    BY <1>6
  <2>2. IsFiniteSet(U \cup N) /\ Cardinality(U \cup N) = Cardinality(U) + Cardinality(N) - Cardinality(U \cap N)
    BY <1>5, <1>8, FS_Union
  <2>3. Cardinality(R) <= Cardinality(U \cup N)
    <3>1. R \in SUBSET (U \cup N)
      BY <2>1
    <3> QED
      BY <2>2, <3>1, FS_Subset
  <2>4. Cardinality(U \cap N) \in Nat
    BY <1>5, FS_Intersection, FS_CardinalityType
  <2> HIDE DEF N, R, D
  <2> QED
    BY <1>1, <1>2, <1>5, <1>8, <2>2, <2>3, <2>4
<1>10. \A n : <<family, n>> \in Ids(log) => n \in N
  BY DEF NumbersOf
<1> QED
  BY <1>6, <1>7, <1>8, <1>9, <1>10

LEMMA FirstUnusedFacts ==
  ASSUME NEW log, Listed(log), NEW family
  PROVE  <<family, FirstUnused(log, family)>> \notin Ids(log) /\ FirstUnused(log, family) \in Nat
<1> PICK U : U = Unused(log, family, 1)
  OBVIOUS
<1>1. U \in SUBSET Nat /\ IsFiniteSet(U) /\ Cardinality(U) >= 1 /\ Cardinality(U) \in Nat
      /\ \A n \in U : <<family, n>> \notin Ids(log)
  BY UnusedFacts
<1>2. 1 \in 1 .. Cardinality(U)
  BY <1>1
<1>3. Nth(U, 1) \in U
  BY <1>1, <1>2, NthFacts
<1> QED
  BY <1>1, <1>3 DEF FirstUnused

LEMMA NextNumberFacts ==
  ASSUME NEW log, Listed(log), NEW family, NumbersOf(log, family) \subseteq Nat
  PROVE  <<family, NextNumber(log, family)>> \notin Ids(log) /\ NextNumber(log, family) \in Nat
<1> DEFINE D == 1 .. Len(log)
           f == [i \in D |-> log[i].id[2]]
           V == {f[i] : i \in D}
           N == NumbersOf(log, family)
           S == N \cup {0}
<1>1. Len(log) \in Nat /\ DOMAIN log = D
  BY ListedFacts
<1>2. IsFiniteSet(D)
  BY <1>1, FS_Interval
<1>3. N \in SUBSET V
  BY <1>1 DEF NumbersOf, Ids
<1>4. IsFiniteSet(V)
  <2>1. f \in Surjection(D, V)
    BY DEF Surjection
  <2> HIDE DEF f, V, D
  <2> QED
    BY <1>2, <2>1, FS_Surjection
<1> HIDE DEF V
<1>5. IsFiniteSet(S)
  BY <1>3, <1>4, FS_Subset, FS_AddElement
<1>6. PICK x \in S : \A y \in S : y <= x
  BY <1>5, LargestNatural
<1> DEFINE c == CHOOSE n \in N \cup {0} : \A k \in N : k <= n
<1>7. c \in S /\ \A k \in N : k <= c
  <2>1. x \in N \cup {0} /\ \A k \in N : k <= x
    BY <1>6
  <2> QED
    BY <2>1
<1>8. NextNumber(log, family) = 1 + c
  BY DEF NextNumber
<1>9. c \in Nat
  BY <1>7
<1> HIDE DEF c
<1>10. 1 + c \notin N
  BY <1>7, <1>9
<1>11. \A n : <<family, n>> \in Ids(log) => n \in N
  BY DEF NumbersOf
<1> QED
  BY <1>8, <1>9, <1>10, <1>11

-----------------------------------------------------------------------------
(* Logs that grow.                                                         *)

(* A question that is closed stays closed.                                 *)
Closes(qs, qs2) == \A q \in Questions : qs[q] # "OPEN" => qs2[q] # "OPEN"

LEMMA FineLater ==
  ASSUME NEW log, NEW rev, NEW qs, NEW t, Fine(log, rev, qs, t),
         NEW rev2 \in Nat, rev <= rev2, NEW qs2, Closes(qs, qs2)
  PROVE  Fine(log, rev2, qs2, t)
<1>1. rev \in Nat /\ \A i \in DOMAIN log : Sound(log[i], rev, qs)
  BY DEF Fine
<1>2. ASSUME NEW i \in DOMAIN log PROVE Sound(log[i], rev2, qs2)
  BY <1>1 DEF Sound, Closes
<1> QED
  BY <1>2 DEF Fine

LEMMA RecordedGrow ==
  ASSUME NEW log, NEW E, Listed(log), Listed(E), NEW l, l = log \o E
  PROVE  /\ Ids(l) = Ids(log) \cup Ids(E)
         /\ Recorded(l) = Recorded(log) \cup Recorded(E)
<1>1. Len(log) \in Nat /\ DOMAIN log = 1 .. Len(log) /\ Len(E) \in Nat /\ DOMAIN E = 1 .. Len(E)
  BY ListedFacts
<1>2. Len(l) \in Nat /\ DOMAIN l = 1 .. Len(l)
  BY ListedConcat, ListedFacts
<1>3. /\ Len(l) = Len(log) + Len(E)
      /\ \A i \in 1 .. Len(log) : l[i] = log[i]
      /\ \A i \in 1 .. Len(E) : l[Len(log) + i] = E[i]
      /\ \A i \in 1 .. Len(l) : i \in 1 .. Len(log) \/ \E j \in 1 .. Len(E) : i = Len(log) + j
  BY ListedConcat
<1>4. \A i \in 1 .. Len(E) : Len(log) + i \in 1 .. Len(l)
  BY <1>1, <1>3
<1>5. \A i \in 1 .. Len(log) : i \in 1 .. Len(l)
  BY <1>1, <1>3
<1>6. Ids(l) = Ids(log) \cup Ids(E)
  <2>1. ASSUME NEW x \in Ids(l) PROVE x \in Ids(log) \cup Ids(E)
    <3>1. PICK i \in 1 .. Len(l) : x = l[i].id
      BY <1>2 DEF Ids
    <3>2. CASE i \in 1 .. Len(log)
      BY <1>1, <1>3, <3>1, <3>2 DEF Ids
    <3>3. CASE \E j \in 1 .. Len(E) : i = Len(log) + j
      <4>1. PICK j \in 1 .. Len(E) : i = Len(log) + j
        BY <3>3
      <4>2. x = E[j].id
        BY <1>3, <3>1, <4>1
      <4> QED
        BY <1>1, <4>2 DEF Ids
    <3> QED
      BY <1>3, <3>2, <3>3
  <2>2. ASSUME NEW x \in Ids(log) PROVE x \in Ids(l)
    <3>1. PICK i \in 1 .. Len(log) : x = log[i].id
      BY <1>1 DEF Ids
    <3> QED
      BY <1>2, <1>3, <1>5, <3>1 DEF Ids
  <2>3. ASSUME NEW x \in Ids(E) PROVE x \in Ids(l)
    <3>1. PICK i \in 1 .. Len(E) : x = E[i].id
      BY <1>1 DEF Ids
    <3> QED
      BY <1>2, <1>3, <1>4, <3>1 DEF Ids
  <2> QED
    BY <2>1, <2>2, <2>3
<1> QED
  BY <1>6 DEF Recorded

LEMMA FineGrows ==
  ASSUME NEW log, NEW rev, NEW qs, NEW t, Fine(log, rev, qs, t), NEW E, Listed(E), NEW l, l = log \o E,
         \A i \in DOMAIN E : Sound(E[i], rev, qs),
         \A i, j \in DOMAIN E : i # j => Apart(E[i], E[j]),
         \A i \in DOMAIN log, j \in DOMAIN E : Apart(log[i], E[j])
  PROVE  Fine(l, rev, qs, t)
<1>1. Listed(log) /\ rev \in Nat /\ t \subseteq Recorded(log)
  BY DEF Fine
<1>2. Len(log) \in Nat /\ DOMAIN log = 1 .. Len(log) /\ Len(E) \in Nat /\ DOMAIN E = 1 .. Len(E)
  BY <1>1, ListedFacts
<1>3. Listed(l) /\ Len(l) \in Nat /\ DOMAIN l = 1 .. Len(l)
  BY <1>1, ListedConcat, ListedFacts
<1>4. /\ \A i \in 1 .. Len(log) : l[i] = log[i]
      /\ \A i \in 1 .. Len(E) : l[Len(log) + i] = E[i]
      /\ \A i \in 1 .. Len(l) : i \in 1 .. Len(log) \/ \E j \in 1 .. Len(E) : i = Len(log) + j
  BY <1>1, ListedConcat
<1>5. ASSUME NEW i \in DOMAIN l PROVE Sound(l[i], rev, qs)
  <2>1. CASE i \in 1 .. Len(log)
    BY <1>2, <1>4, <2>1 DEF Fine
  <2>2. CASE \E j \in 1 .. Len(E) : i = Len(log) + j
    BY <1>2, <1>4, <2>2
  <2> QED
    BY <1>3, <1>4, <2>1, <2>2
<1>6. ASSUME NEW i \in DOMAIN l, NEW j \in DOMAIN l, i # j PROVE Apart(l[i], l[j])
  <2>1. CASE i \in 1 .. Len(log) /\ j \in 1 .. Len(log)
    BY <1>2, <1>4, <1>6, <2>1 DEF Fine
  <2>2. CASE i \in 1 .. Len(log) /\ \E k \in 1 .. Len(E) : j = Len(log) + k
    BY <1>2, <1>4, <2>2
  <2>3. CASE j \in 1 .. Len(log) /\ \E k \in 1 .. Len(E) : i = Len(log) + k
    <3>1. Apart(l[j], l[i])
      BY <1>2, <1>4, <2>3
    <3> QED
      BY <3>1 DEF Apart
  <2>4. CASE /\ \E k \in 1 .. Len(E) : i = Len(log) + k
             /\ \E k \in 1 .. Len(E) : j = Len(log) + k
    <3>1. PICK m \in 1 .. Len(E) : i = Len(log) + m
      BY <2>4
    <3>2. PICK k \in 1 .. Len(E) : j = Len(log) + k
      BY <2>4
    <3>3. m # k
      BY <1>6, <3>1, <3>2
    <3> QED
      BY <1>2, <1>4, <3>1, <3>2, <3>3
  <2> QED
    BY <1>3, <1>4, <2>1, <2>2, <2>3, <2>4
<1>7. t \subseteq Recorded(l)
  <2>1. Recorded(l) = Recorded(log) \cup Recorded(E)
    BY <1>1, RecordedGrow
  <2> QED
    BY <1>1, <2>1
<1> QED
  BY <1>1, <1>3, <1>5, <1>6, <1>7 DEF Fine

LEMMA AppendIs ==
  ASSUME NEW log, Listed(log), NEW e
  PROVE  log \o <<e>> = Append(log, e)
<1>1. log \in Seq(Values(log) \cup {e})
  BY SeqMonotonic DEF Listed
<1> QED
  BY <1>1, AppendIsConcat

(* One event more.                                                         *)
LEMMA FineGrowsByOne ==
  ASSUME NEW log, NEW rev, NEW qs, NEW t, Fine(log, rev, qs, t), NEW e, NEW l, l = log \o <<e>>,
         Sound(e, rev, qs), \A i \in DOMAIN log : Apart(log[i], e)
  PROVE  Fine(l, rev, qs, t) /\ l = Append(log, e)
<1> DEFINE E == <<e>>
<1>1. DOMAIN E = {1} /\ E[1] = e
  OBVIOUS
<1>2. Listed(E)
  BY ShortListed
<1>3. \A i \in DOMAIN E : E[i] = e
  BY <1>1
<1>4. \A i, j \in DOMAIN E : i = j
  BY <1>1
<1> HIDE DEF E
<1>5. \A i \in DOMAIN E : Sound(E[i], rev, qs)
  BY <1>3
<1>6. \A i \in DOMAIN log, j \in DOMAIN E : Apart(log[i], E[j])
  BY <1>3
<1>7. \A i, j \in DOMAIN E : i # j => Apart(E[i], E[j])
  BY <1>4
<1>8. l = log \o E
  BY DEF E
<1>9. Fine(l, rev, qs, t)
  BY <1>2, <1>5, <1>6, <1>7, <1>8, FineGrows
<1>10. log \o <<e>> = Append(log, e)
  BY AppendIs DEF Fine
<1> QED
  BY <1>9, <1>10

-----------------------------------------------------------------------------
(* Commands that can be undone.                                            *)

(* What a list of writes leaves in each file when it is done.              *)
Leaves(d, A, e) ==
  /\ \A i \in 1 .. Len(A) : A[i].file \in Files => e[A[i].file] = A[i].content
  /\ \A f \in Files : (\A i \in 1 .. Len(A) : A[i].file \notin {f, "append"}) => e[f] = d[f]

LEMMA AfterAll ==
  ASSUME NEW d, NEW A, Prog(A), NEW e, e = After(d, A, Len(A))
  PROVE  IsDisk(e) /\ Leaves(d, A, e)
<1>1. Len(A) \in 0 .. Len(A)
  BY ListedFacts DEF Prog
<1>2. ASSUME NEW f \in Files PROVE Holds(d, A, Len(A), e, f)
  BY <1>1, AfterFile
<1>3. ASSUME NEW i \in 1 .. Len(A), A[i].file \in Files PROVE e[A[i].file] = A[i].content
  <2>1. Holds(d, A, Len(A), e, A[i].file)
    BY <1>2, <1>3
  <2> QED
    BY <2>1 DEF Holds
<1>4. ASSUME NEW f \in Files, \A i \in 1 .. Len(A) : A[i].file \notin {f, "append"} PROVE e[f] = d[f]
  <2>1. Holds(d, A, Len(A), e, f)
    BY <1>2
  <2> QED
    BY <1>4, <2>1 DEF Holds
<1> QED
  BY <1>3, <1>4, AfterIsDisk DEF Leaves

(* Every file of a disk is as it was at one of two others.                 *)
Between(d, e, a) == IsDisk(a) /\ \A f \in Files : a[f] \in {d[f], e[f]}

LEMMA GoodBetween ==
  ASSUME NEW d, NEW e, NEW t, Good(d, t), Good(e, t), NEW a, Between(d, e, a),
         d.state.rev <= e.state.rev, Closes(d.questions, e.questions),
         \/ a.log = d.log
         \/ d.state.rev = e.state.rev /\ d.questions = e.questions
  PROVE  Good(a, t)
<1>1. /\ IsState(d.state) /\ IsState(e.state)
      /\ Fine(d.log, d.state.rev, d.questions, t) /\ Fine(e.log, e.state.rev, e.questions, t)
  BY DEF Good
<1>2. d.state.rev \in Nat /\ e.state.rev \in Nat
  BY <1>1 DEF Fine
<1>3. /\ IsDisk(a) /\ a.state \in {d.state, e.state}
      /\ a.log \in {d.log, e.log} /\ a.questions \in {d.questions, e.questions}
  BY DEF Between, Files
<1>4. IsState(a.state)
  BY <1>1, <1>3
<1>5. Fine(a.log, a.state.rev, a.questions, t)
  <2>1. CASE a.log = d.log
    <3>1. a.state.rev \in Nat /\ d.state.rev <= a.state.rev
      BY <1>2, <1>3
    <3>2. Closes(d.questions, a.questions)
      BY <1>3 DEF Closes
    <3>3. Fine(d.log, a.state.rev, a.questions, t)
      <4> PICK rev : rev = a.state.rev
        OBVIOUS
      <4> PICK qs : qs = a.questions
        OBVIOUS
      <4>1. Fine(d.log, rev, qs, t)
        BY <1>1, <3>1, <3>2, FineLater
      <4> QED
        BY <4>1
    <3> QED
      BY <2>1, <3>3
  <2>2. CASE d.state.rev = e.state.rev /\ d.questions = e.questions
    <3>1. a.state.rev = d.state.rev /\ a.questions = d.questions
      BY <1>3, <2>2
    <3> QED
      BY <1>1, <1>3, <2>2, <3>1
  <2> QED
    BY <2>1, <2>2
<1> QED
  BY <1>3, <1>4, <1>5 DEF Good

(* A list of writes whose undoing writes back what was there, and either   *)
(* writes the log last or changes nothing the log is checked against.      *)
Restores(d, B) == \A i \in 1 .. Len(B) : B[i].file \in Files /\ B[i].content = d[B[i].file]

LogLast(A) == \A i \in 1 .. Len(A) : A[i].file \in {"log", "append"} => i = Len(A)

LEMMA Partly ==
  ASSUME NEW d, IsDisk(d), NEW A, Prog(A), NEW n \in 0 .. Len(A),
         NEW a, a = After(d, A, n), NEW e, e = After(d, A, Len(A))
  PROVE  Between(d, e, a) /\ (LogLast(A) /\ n # Len(A) => a.log = d.log)
<1>1. Len(A) \in Nat /\ \A i \in 1 .. n : i \in 1 .. Len(A)
  BY ListedFacts DEF Prog
<1>2. Leaves(d, A, e)
  BY AfterAll
<1>3. \A i \in 1 .. n : A[i].file = "append" => n = Len(A)
  <2>1. \A i \in 1 .. Len(A) : A[i].file = "append" => Len(A) = 1
    BY DEF Prog, Files
  <2> SUFFICES ASSUME NEW i \in 1 .. n, A[i].file = "append" PROVE n = Len(A)
    OBVIOUS
  <2>2. Len(A) = 1
    BY <1>1, <2>1
  <2>3. n \in 0 .. 1
    BY <2>2
  <2> QED
    BY <2>2, <2>3
<1>4. ASSUME NEW f \in Files PROVE a[f] \in {d[f], e[f]}
  <2>1. Holds(d, A, n, a, f)
    BY AfterFile
  <2>2. \A i \in 1 .. n : A[i].file = f => a[f] = e[f]
    BY <1>1, <1>2, <2>1 DEF Holds, Leaves
  <2>3. n = Len(A) => a[f] = e[f]
    OBVIOUS
  <2> QED
    BY <1>3, <2>1, <2>2, <2>3 DEF Holds
<1>5. ASSUME LogLast(A), n # Len(A) PROVE a.log = d.log
  <2>1. Holds(d, A, n, a, "log")
    BY AfterFile DEF Files
  <2>2. \A i \in 1 .. n : A[i].file \notin {"log", "append"}
    BY <1>1, <1>5 DEF LogLast
  <2> QED
    BY <2>1, <2>2 DEF Holds
<1> QED
  BY <1>4, <1>5, AfterIsDisk DEF Between

LEMMA PartlyUndone ==
  ASSUME NEW d, IsDisk(d), NEW e, NEW a, Between(d, e, a), NEW B, Prog(B), Restores(d, B), NEW m \in 0 .. Len(B),
         NEW b, b = After(a, B, m)
  PROVE  Between(d, e, b) /\ (a.log = d.log => b.log = d.log)
<1>1. Len(B) \in Nat /\ \A i \in 1 .. m : i \in 1 .. Len(B)
  BY ListedFacts DEF Prog
<1>2. \A i \in 1 .. m : B[i].file # "append" /\ B[i].content = d[B[i].file]
  BY <1>1 DEF Restores, Files
<1>3. ASSUME NEW f \in Files PROVE b[f] \in {d[f], a[f]}
  <2>1. Holds(a, B, m, b, f)
    BY AfterFile
  <2> QED
    BY <1>2, <2>1 DEF Holds
<1> QED
  BY <1>3, AfterIsDisk DEF Between, Files

LEMMA Undoable ==
  ASSUME NEW d, NEW t, Good(d, t), NEW A, Prog(A), NEW B, Prog(B), Restores(d, B),
         NEW e, e = After(d, A, Len(A)), Good(e, t), d.state.rev <= e.state.rev, Closes(d.questions, e.questions),
         LogLast(A) \/ (d.state.rev = e.state.rev /\ d.questions = e.questions)
  PROVE  Forward(d, A, t) /\ Back(d, A, B, t)
<1>1. IsDisk(d) /\ Len(A) \in Nat
  BY ListedFacts DEF Good, Prog
<1>2. ASSUME NEW n \in 0 .. Len(A), NEW a, a = After(d, A, n)
      PROVE  Between(d, e, a) /\ (LogLast(A) /\ n # Len(A) => a.log = d.log)
  BY <1>1, <1>2, Partly
<1>3. ASSUME NEW n \in 0 .. Len(A) PROVE Good(After(d, A, n), t)
  <2> PICK a : a = After(d, A, n)
    OBVIOUS
  <2>1. Between(d, e, a) /\ (LogLast(A) /\ n # Len(A) => a.log = d.log)
    BY <1>2
  <2>2. CASE n = Len(A)
    BY <2>2
  <2>3. CASE n # Len(A)
    <3>1. a.log = d.log \/ (d.state.rev = e.state.rev /\ d.questions = e.questions)
      BY <2>1, <2>3
    <3>2. Good(a, t)
      BY <2>1, <3>1, GoodBetween
    <3> QED
      BY <3>2
  <2> QED
    BY <2>2, <2>3
<1>4. ASSUME NEW n \in 0 .. Len(A) - 1, NEW m \in 0 .. Len(B) PROVE Good(After(After(d, A, n), B, m), t)
  <2>0. n \in 0 .. Len(A) /\ n # Len(A)
    BY <1>1
  <2> PICK a : a = After(d, A, n)
    OBVIOUS
  <2> PICK b : b = After(a, B, m)
    OBVIOUS
  <2>1. Between(d, e, a) /\ (LogLast(A) => a.log = d.log)
    BY <1>2, <2>0
  <2>2. Between(d, e, b) /\ (a.log = d.log => b.log = d.log)
    BY <1>1, <2>1, PartlyUndone
  <2>3. b.log = d.log \/ (d.state.rev = e.state.rev /\ d.questions = e.questions)
    BY <2>1, <2>2
  <2>4. Good(b, t)
    BY <2>2, <2>3, GoodBetween
  <2> QED
    BY <2>4
<1> QED
  BY <1>3, <1>4 DEF Forward, Back

(* Undone to the end, nothing has changed.                                 *)
Covers(A, B) ==
  \A i \in 1 .. Len(A) : A[i].file \in Files => \E j \in 1 .. Len(B) : B[j].file = A[i].file

LEMMA Undone ==
  ASSUME NEW d, IsDisk(d), NEW A, Prog(A), NEW B, Prog(B), Restores(d, B), Covers(A, B),
         NEW n \in 0 .. Len(A) - 1
  PROVE  After(After(d, A, n), B, Len(B)) = d
<1>1. Len(A) \in Nat /\ n \in 0 .. Len(A) /\ \A i \in 1 .. n : i \in 1 .. Len(A)
  BY ListedFacts DEF Prog
<1> PICK a : a = After(d, A, n)
  OBVIOUS
<1> PICK b : b = After(a, B, Len(B))
  OBVIOUS
<1>2. Leaves(a, B, b) /\ IsDisk(b)
  BY AfterAll
<1>3. ASSUME NEW f \in Files PROVE b[f] = d[f]
  <2>1. CASE \E j \in 1 .. Len(B) : B[j].file = f
    BY <1>2, <2>1 DEF Leaves, Restores
  <2>2. CASE ~ \E j \in 1 .. Len(B) : B[j].file = f
    <3>1. \A j \in 1 .. Len(B) : B[j].file \notin {f, "append"}
      BY <2>2 DEF Restores, Files
    <3>2. b[f] = a[f]
      BY <1>2, <3>1 DEF Leaves
    <3>3. Holds(d, A, n, a, f)
      BY <1>1, AfterFile
    <3>4. \A i \in 1 .. n : A[i].file # f
      BY <1>1, <2>2 DEF Covers
    <3>5. \A i \in 1 .. n : A[i].file # "append"
      <4>1. \A i \in 1 .. Len(A) : A[i].file = "append" => Len(A) = 1
        BY DEF Prog, Files
      <4>2. Len(A) = 1 => n = 0
        <5> SUFFICES ASSUME Len(A) = 1 PROVE n = 0
          OBVIOUS
        <5>1. n \in 0 .. 0
          OBVIOUS
        <5> QED
          BY <5>1
      <4> QED
        BY <1>1, <4>1, <4>2
    <3> QED
      BY <3>2, <3>3, <3>4, <3>5 DEF Holds
  <2> QED
    BY <2>1, <2>2
<1>4. b = d
  BY <1>2, <1>3 DEF IsDisk
<1> QED
  BY <1>4

-----------------------------------------------------------------------------
(* The log replayed.                                                       *)

(* The status that replay_project starts at.                               *)
First(log, status) ==
  LET moves == Moves(log)
  IN  IF moves = {} THEN status ELSE log[CHOOSE i \in moves : \A j \in moves : i <= j].val[1]

Different(log) == \A i, j \in DOMAIN log : i # j => log[i].id # log[j].id

Still(E) == \A i \in DOMAIN E : E[i].type # "STATE_TRANSITION"

Accepts(s, log) == Replay(s, log) # "refused"

LEMMA ReplayIs ==
  ASSUME NEW d
  PROVE  ReplayProject(d) = Replay(First(d.log, d.state.status), d.log)
BY DEF ReplayProject, First

LEMMA MovesFacts ==
  ASSUME NEW log, Listed(log), NEW n \in Nat, NEW M, M = {i \in Moves(log) : i <= n}, M # {}
  PROVE  /\ (CHOOSE i \in M : \A j \in M : j <= i) \in M
         /\ \A j \in M : j <= (CHOOSE i \in M : \A k \in M : k <= i)
<1>1. Len(log) \in Nat /\ DOMAIN log = 1 .. Len(log)
  BY ListedFacts
<1>2. M \in SUBSET (1 .. Len(log)) /\ M \in SUBSET Nat
  BY <1>1 DEF Moves
<1>3. IsFiniteSet(1 .. Len(log))
  BY <1>1, FS_Interval
<1>4. IsFiniteSet(M)
  BY <1>2, <1>3, FS_Subset
<1>5. \E x \in M : \A y \in M : y <= x
  BY <1>2, <1>4, LargestNatural
<1> QED
  BY <1>5

LEMMA FirstMoveFacts ==
  ASSUME NEW log, Listed(log), Moves(log) # {}
  PROVE  \E c \in Moves(log) : /\ \A j \in Moves(log) : c <= j
                               /\ \A s : First(log, s) = log[c].val[1]
<1> DEFINE M == Moves(log)
           c == CHOOSE i \in M : \A j \in M : i <= j
<1>1. Len(log) \in Nat /\ DOMAIN log = 1 .. Len(log)
  BY ListedFacts
<1>2. M \in SUBSET Nat
  BY <1>1 DEF Moves
<1>3. \E x \in M : \A y \in M : x <= y
  BY <1>2, LeastNatural
<1>4. c \in M /\ \A j \in M : c <= j
  BY <1>3
<1>5. \A s : First(log, s) = log[c].val[1]
  BY DEF First
<1> QED
  BY <1>4, <1>5

LEMMA SameStatus ==
  ASSUME NEW s, NEW log, NEW n, NEW m, \A i \in Moves(log) : i <= n <=> i <= m
  PROVE  StatusAt(s, log, n) = StatusAt(s, log, m)
<1> DEFINE M(k) == {i \in Moves(log) : i <= k}
           At(K) == IF K = {} THEN s ELSE log[CHOOSE i \in K : \A j \in K : j <= i].val[2]
<1>1. M(n) = M(m)
  OBVIOUS
<1>2. StatusAt(s, log, n) = At(M(n)) /\ StatusAt(s, log, m) = At(M(m))
  BY Zenon DEF StatusAt
<1> HIDE DEF M, At
<1> QED
  BY <1>1, <1>2

(* Events that are added leave the moves before them as they were.         *)
Keeps(log, l) ==
  /\ \A i \in 1 .. Len(log) : i \in Moves(l) <=> i \in Moves(log)
  /\ \A s : \A n \in 0 .. Len(log) : StatusAt(s, l, n) = StatusAt(s, log, n)

LEMMA OldMoves ==
  ASSUME NEW log, NEW E, Listed(log), Listed(E), NEW l, l = log \o E
  PROVE  Keeps(log, l)
<1>1. /\ Len(log) \in Nat /\ DOMAIN log = 1 .. Len(log) /\ Len(l) = Len(log) + Len(E) /\ Len(E) \in Nat
      /\ DOMAIN l = 1 .. Len(l) /\ \A i \in 1 .. Len(log) : l[i] = log[i]
  BY ListedConcat, ListedFacts
<1>2. \A i \in 1 .. Len(log) : i \in DOMAIN l /\ i \in DOMAIN log
  BY <1>1
<1>3. \A i \in 1 .. Len(log) : i \in Moves(l) <=> i \in Moves(log)
  BY <1>1, <1>2 DEF Moves
<1>4. ASSUME NEW n \in 0 .. Len(log), NEW s PROVE StatusAt(s, l, n) = StatusAt(s, log, n)
  <2> PICK M : M = {i \in Moves(log) : i <= n}
    OBVIOUS
  <2>1. M = {i \in Moves(l) : i <= n}
    <3>1. \A i \in Moves(l) : i <= n => i \in 1 .. Len(log)
      BY <1>1 DEF Moves
    <3>2. \A i \in Moves(log) : i \in 1 .. Len(log)
      BY <1>1 DEF Moves
    <3> QED
      BY <1>3, <3>1, <3>2
  <2>2. CASE M = {}
    BY <2>1, <2>2 DEF StatusAt
  <2>3. CASE M # {}
    <3> DEFINE c == CHOOSE i \in M : \A j \in M : j <= i
    <3>1. c \in M
      <4>1. n \in Nat
        BY <1>1
      <4> QED
        BY <2>3, <4>1, MovesFacts
    <3>2. StatusAt(s, l, n) = l[c].val[2] /\ StatusAt(s, log, n) = log[c].val[2]
      BY <2>1, <2>3 DEF StatusAt
    <3>3. c \in 1 .. Len(log)
      BY <1>1, <3>1 DEF Moves
    <3> QED
      BY <1>1, <3>2, <3>3
  <2> QED
    BY <2>2, <2>3
<1> QED
  BY <1>3, <1>4 DEF Keeps

LEMMA Accepted ==
  ASSUME NEW s, NEW log, Accepts(s, log)
  PROVE  /\ Replay(s, log) = StatusAt(s, log, Len(log))
         /\ \A i \in Moves(log) : /\ log[i].val[1] = StatusAt(s, log, i - 1)
                                  /\ IsAllowed(log[i].val[1], log[i].val[2])
BY DEF Replay, Accepts

(* Events that are no transitions change nothing of the story.             *)
Pads(log, E, l, s) ==
  Listed(log) /\ Listed(E) /\ l = log \o E /\ Different(l) /\ Still(E) /\ Accepts(First(log, s), log)

LEMMA SameStory ==
  ASSUME NEW log, NEW E, NEW l, NEW s, Pads(log, E, l, s)
  PROVE  Replay(First(l, s), l) = Replay(First(log, s), log)
<1> SUFFICES ASSUME Listed(log), Listed(E), l = log \o E, Different(l), Still(E), Accepts(First(log, s), log)
             PROVE  Replay(First(l, s), l) = Replay(First(log, s), log)
  BY DEF Pads
<1>1. /\ Len(log) \in Nat /\ DOMAIN log = 1 .. Len(log) /\ Len(l) = Len(log) + Len(E) /\ Len(E) \in Nat
      /\ DOMAIN l = 1 .. Len(l) /\ DOMAIN E = 1 .. Len(E)
      /\ \A i \in 1 .. Len(log) : l[i] = log[i]
      /\ \A i \in 1 .. Len(E) : l[Len(log) + i] = E[i]
      /\ \A i \in 1 .. Len(l) : i \in 1 .. Len(log) \/ \E j \in 1 .. Len(E) : i = Len(log) + j
  <2>1. Listed(l)
    BY ListedConcat
  <2>2. Len(log) \in Nat /\ DOMAIN log = 1 .. Len(log) /\ Len(E) \in Nat /\ DOMAIN E = 1 .. Len(E)
    BY ListedFacts
  <2>3. DOMAIN l = 1 .. Len(l)
    BY <2>1, ListedFacts
  <2>4. /\ Len(l) = Len(log) + Len(E)
        /\ \A i \in 1 .. Len(log) : l[i] = log[i]
        /\ \A i \in 1 .. Len(E) : l[Len(log) + i] = E[i]
        /\ \A i \in 1 .. Len(l) : i \in 1 .. Len(log) \/ \E j \in 1 .. Len(E) : i = Len(log) + j
    BY ListedConcat
  <2> QED
    BY <2>2, <2>3, <2>4
<1>2. /\ \A i \in 1 .. Len(log) : i \in Moves(l) <=> i \in Moves(log)
      /\ \A x : \A n \in 0 .. Len(log) : StatusAt(x, l, n) = StatusAt(x, log, n)
  <2>1. Keeps(log, l)
    BY OldMoves
  <2> QED
    BY <2>1 DEF Keeps
<1>3. Moves(l) = Moves(log)
  <2>1. \A i \in Moves(l) : i \in 1 .. Len(log)
    BY <1>1 DEF Moves, IsTransition, Still
  <2>2. \A i \in Moves(log) : i \in 1 .. Len(log)
    BY <1>1 DEF Moves
  <2> QED
    BY <1>2, <2>1, <2>2
<1>4. \A i \in Moves(log) : i \in 1 .. Len(log) /\ i - 1 \in 0 .. Len(log)
  BY <1>1 DEF Moves
<1>5. First(l, s) = First(log, s)
  <2>1. CASE Moves(log) = {}
    BY <1>3, <2>1 DEF First
  <2>2. CASE Moves(log) # {}
    <3> DEFINE c == CHOOSE i \in Moves(log) : \A j \in Moves(log) : i <= j
    <3>1. c \in Moves(log)
      <4>1. \E i \in Moves(log) : \A j \in Moves(log) : i <= j
        BY <2>2, FirstMoveFacts
      <4> QED
        BY <4>1
    <3>2. First(l, s) = l[c].val[1] /\ First(log, s) = log[c].val[1]
      BY <1>3, <2>2 DEF First
    <3>3. l[c] = log[c]
      BY <1>1, <1>4, <3>1
    <3> QED
      BY <3>2, <3>3
  <2> QED
    BY <2>1, <2>2
<1> PICK x : x = First(log, s)
  OBVIOUS
<1>6. /\ Replay(x, log) = StatusAt(x, log, Len(log))
      /\ \A i \in Moves(log) : /\ log[i].val[1] = StatusAt(x, log, i - 1)
                               /\ IsAllowed(log[i].val[1], log[i].val[2])
  BY Accepted
<1>7. \A i \in Moves(l) : /\ l[i].val[1] = StatusAt(x, l, i - 1)
                          /\ IsAllowed(l[i].val[1], l[i].val[2])
  BY <1>1, <1>2, <1>3, <1>4, <1>6
<1>8. Replay(x, l) = StatusAt(x, l, Len(l))
  BY <1>7 DEF Replay, Different
<1>9. StatusAt(x, l, Len(l)) = StatusAt(x, l, Len(log))
  <2>1. \A i \in Moves(l) : i <= Len(l) <=> i <= Len(log)
    BY <1>1, <1>3, <1>4
  <2> HIDE DEF Still, Accepts
  <2> QED
    BY <2>1, SameStatus
<1>10. StatusAt(x, l, Len(log)) = StatusAt(x, log, Len(log))
  <2>1. Len(log) \in 0 .. Len(log)
    BY <1>1
  <2> QED
    BY <1>2, <2>1
<1> QED
  BY <1>5, <1>6, <1>8, <1>9, <1>10

(* A transition from where the log leads to leads on.                      *)
Continues(log, s, id, to, l) ==
  /\ Listed(log) /\ Replay(First(log, s), log) = s /\ s \in Statuses /\ IsAllowed(s, to)
  /\ l = log \o <<TransitionEvent(id, s, to)>> /\ Different(l)

LEMMA NextChapter ==
  ASSUME NEW log, NEW s, NEW id, NEW to, NEW l, Continues(log, s, id, to, l), NEW z
  PROVE  Replay(First(l, z), l) = to
<1> SUFFICES ASSUME Listed(log), Replay(First(log, s), log) = s, s \in Statuses, IsAllowed(s, to),
                    l = log \o <<TransitionEvent(id, s, to)>>, Different(l)
             PROVE  Replay(First(l, z), l) = to
  BY DEF Continues
<1> DEFINE E == <<TransitionEvent(id, s, to)>>
           k == Len(log) + 1
<1>0. Listed(E) /\ Len(E) = 1 /\ E[1] = TransitionEvent(id, s, to)
  BY ShortListed
<1> HIDE DEF E
<1>00. l = log \o E
  BY DEF E
<1>1. /\ Len(log) \in Nat /\ DOMAIN log = 1 .. Len(log) /\ Len(l) = Len(log) + Len(E)
      /\ DOMAIN l = 1 .. Len(l)
      /\ \A i \in 1 .. Len(log) : l[i] = log[i]
      /\ \A i \in 1 .. Len(E) : l[Len(log) + i] = E[i]
  BY <1>0, <1>00, ListedConcat, ListedFacts
<1>2. /\ \A i \in 1 .. Len(log) : i \in Moves(l) <=> i \in Moves(log)
      /\ \A x : \A n \in 0 .. Len(log) : StatusAt(x, l, n) = StatusAt(x, log, n)
  <2>1. Keeps(log, l)
    BY <1>0, <1>00, OldMoves
  <2> QED
    BY <2>1 DEF Keeps
<1>3. /\ Len(l) = k /\ k \in Nat /\ k \in DOMAIN l
      /\ l[k].type = "STATE_TRANSITION" /\ l[k].val[1] = s /\ l[k].val[2] = to
  <2>1. Len(l) = k /\ k \in Nat /\ 1 \in 1 .. Len(E) /\ k \in 1 .. Len(l)
    BY <1>0, <1>1
  <2>2. l[k] = TransitionEvent(id, s, to)
    BY <1>0, <1>1, <2>1
  <2> QED
    BY <1>1, <2>1, <2>2 DEF TransitionEvent
<1>4. \A i \in DOMAIN l : i \in 1 .. Len(log) \/ i = k
  BY <1>1, <1>3
<1> HIDE DEF k
<1>5. \A i \in Moves(log) : i \in 1 .. Len(log) /\ i - 1 \in 0 .. Len(log) /\ i \in Nat
  BY <1>1 DEF Moves
<1>6. Moves(l) = Moves(log) \cup {k}
  <2>1. k \in Moves(l)
    BY <1>3 DEF Moves, IsTransition
  <2>2. \A i \in Moves(l) : i \in Moves(log) \/ i = k
    BY <1>2, <1>4 DEF Moves
  <2>3. \A i \in Moves(log) : i \in Moves(l)
    BY <1>2, <1>5
  <2> QED
    BY <2>1, <2>2, <2>3
<1>7. \A i \in Moves(l) : i <= k /\ i \in Nat
  BY <1>1, <1>3, <1>5, <1>6 DEF k
<1>8. First(l, z) = First(log, s)
  <2>0. Listed(l)
    BY <1>0, <1>00, ListedConcat
  <2>1. PICK c \in Moves(l) : (\A j \in Moves(l) : c <= j) /\ First(l, z) = l[c].val[1]
    BY <1>6, <2>0, FirstMoveFacts
  <2>2. CASE Moves(log) = {}
    <3>1. c = k
      BY <1>6, <2>1, <2>2
    <3> QED
      BY <1>3, <2>1, <2>2, <3>1 DEF First
  <2>3. CASE Moves(log) # {}
    <3>1. PICK b \in Moves(log) : (\A j \in Moves(log) : b <= j) /\ First(log, s) = log[b].val[1]
      BY <2>3, FirstMoveFacts
    <3>2. b = c
      <4>1. c <= b /\ b \in Nat /\ c \in Nat /\ b <= k
        BY <1>5, <1>6, <1>7, <2>1, <3>1
      <4>2. b <= c
        BY <1>6, <3>1, <4>1
      <4> QED
        BY <4>1, <4>2
    <3>3. l[b] = log[b]
      BY <1>1, <1>5
    <3> QED
      BY <2>1, <3>1, <3>2, <3>3
  <2> QED
    BY <2>2, <2>3
<1> PICK x : x = First(log, s)
  OBVIOUS
<1>9. /\ StatusAt(x, log, Len(log)) = s
      /\ \A i \in Moves(log) : /\ log[i].val[1] = StatusAt(x, log, i - 1)
                               /\ IsAllowed(log[i].val[1], log[i].val[2])
  <2>1. Accepts(x, log)
    BY DEF Accepts, Statuses
  <2> QED
    BY <2>1, Accepted
<1>10. \A i \in Moves(l) : /\ l[i].val[1] = StatusAt(x, l, i - 1)
                           /\ IsAllowed(l[i].val[1], l[i].val[2])
  <2>1. ASSUME NEW i \in Moves(log)
        PROVE  l[i].val[1] = StatusAt(x, l, i - 1) /\ IsAllowed(l[i].val[1], l[i].val[2])
    BY <1>1, <1>2, <1>5, <1>9
  <2>2. l[k].val[1] = StatusAt(x, l, k - 1) /\ IsAllowed(l[k].val[1], l[k].val[2])
    <3>1. k - 1 = Len(log) /\ Len(log) \in 0 .. Len(log)
      BY <1>1 DEF k
    <3> QED
      BY <1>2, <1>3, <1>9, <3>1
  <2> QED
    BY <1>6, <2>1, <2>2
<1>11. Replay(x, l) = StatusAt(x, l, Len(l))
  BY <1>10 DEF Replay, Different
<1>12. StatusAt(x, l, k) = to
  <2> PICK M : M = {i \in Moves(l) : i <= k}
    OBVIOUS
  <2>1. k \in M /\ \A i \in M : i <= k /\ i \in Nat
    BY <1>3, <1>6, <1>7
  <2>2. (CHOOSE i \in M : \A j \in M : j <= i) = k
    BY <2>1
  <2>3. StatusAt(x, l, k) = l[CHOOSE i \in M : \A j \in M : j <= i].val[2]
    BY <2>1 DEF StatusAt
  <2> QED
    BY <1>3, <2>2, <2>3
<1> QED
  BY <1>3, <1>8, <1>11, <1>12

-----------------------------------------------------------------------------
(* Decisions on questions and what they rest on.                           *)

(* The log backs what the register says.                                   *)
Backs(qs, log) ==
  \A q \in Questions :
    qs[q] # "OPEN" =>
      /\ \E n \in 0 .. Len(log) : ReachedLimit(q, SubSeq(log, 1, n))
      /\ qs[q] = "ANSWERED" => Cardinality(About(q, AnswerTypes, log)) >= Limits.answers

(* The registers and the logs that a command has still to write, or to     *)
(* write back: whichever of them come to lie side by side agree.           *)
To(f, ws) == {ws[i].content : i \in {j \in DOMAIN ws : ws[j].file = f}}

Registers(d, A, B) == {d.questions} \cup To("questions", A) \cup To("questions", B)

Logs(d, A, B) == {d.log} \cup To("log", A) \cup To("log", B) \cup {Append(d.log, v) : v \in To("append", A)}

Backed(d, A, B) ==
  /\ \A qs \in Registers(d, A, B), l \in Logs(d, A, B) : Backs(qs, l)
  /\ To("append", B) = {}

EvidenceInv ==
  /\ Backs(disk.questions, disk.log)
  /\ \A p \in Processes : proc[p].mode # "idle" => Backed(disk, proc[p].todo, proc[p].undo)

LEMMA AboutFinite ==
  ASSUME NEW q, NEW types, NEW log, Listed(log)
  PROVE  /\ About(q, types, log) \subseteq 1 .. Len(log)
         /\ IsFiniteSet(About(q, types, log)) /\ Cardinality(About(q, types, log)) \in Nat
<1>1. About(q, types, log) \subseteq 1 .. Len(log) /\ Len(log) \in Nat
  BY ListedFacts DEF About
<1>2. IsFiniteSet(1 .. Len(log))
  BY <1>1, FS_Interval
<1> QED
  BY <1>1, <1>2, FS_Subset, FS_CardinalityType

(* evaluate_question closes a question only when a limit is reached.       *)
LEMMA VerdictRests ==
  ASSUME NEW q, NEW log, Listed(log), Verdict(q, log) # "OPEN"
  PROVE  /\ ReachedLimit(q, log)
         /\ Verdict(q, log) = "ANSWERED" => Cardinality(About(q, AnswerTypes, log)) >= Limits.answers
<1> DEFINE rounds == About(q, {"EVIDENCE_ROUND"}, log)
           failures == About(q, {"SEARCH_FAILED"}, log)
<1>1. Verdict(q, log) = "ANSWERED" => Cardinality(About(q, AnswerTypes, log)) >= Limits.answers
  BY DEF Verdict
<1>2. ASSUME RepeatedFailure(q, log) PROVE ReachedLimit(q, log)
  <2>1. PICK key : Cardinality({i \in failures : log[i].val = key}) >= Limits.failures
    BY <1>2 DEF RepeatedFailure
  <2>2. PICK K : K = {i \in failures : log[i].val = key}
    OBVIOUS
  <2>3. K \in SUBSET failures /\ Cardinality(K) >= Limits.failures /\ \A i, j \in K : log[i].val = log[j].val
    BY <2>1, <2>2
  <2> QED
    BY <2>3 DEF ReachedLimit
<1>3. ASSUME DryRounds(q, log) >= Limits.rounds PROVE ReachedLimit(q, log)
  <2>1. PICK K : K = {i \in rounds : \A j \in rounds : j >= i => log[j].val = 0}
    OBVIOUS
  <2>2. K \in SUBSET rounds /\ Cardinality(K) >= Limits.rounds
    BY <1>3, <2>1 DEF DryRounds
  <2>3. rounds \subseteq Int
    BY AboutFinite, ListedFacts
  <2>4. ASSUME NEW i \in K PROVE log[i].val = 0 /\ \A j \in rounds \ K : j < i
    <3>1. log[i].val = 0
      BY <2>1, <2>3
    <3>2. ASSUME NEW j \in rounds \ K PROVE j < i
      <4>1. PICK k \in rounds : k >= j /\ log[k].val # 0
        BY <2>1, <3>2
      <4>2. ~(k >= i)
        BY <2>1, <4>1
      <4> QED
        BY <2>1, <2>3, <4>1, <4>2
    <3> QED
      BY <3>1, <3>2
  <2> HIDE DEF rounds
  <2>5. \E S \in SUBSET rounds : /\ Cardinality(S) >= Limits.rounds
                                 /\ \A i \in S : log[i].val = 0 /\ \A j \in rounds \ S : j < i
    BY <2>2, <2>4
  <2> QED
    BY <2>5 DEF ReachedLimit, rounds
<1>4. \/ Cardinality(About(q, AnswerTypes, log)) >= Limits.answers
      \/ RepeatedFailure(q, log)
      \/ Cardinality(Distinct(About(q, SearchTypes, log), log)) >= Limits.strategies
      \/ Cardinality(Distinct(About(q, SourceTypes, log), log)) >= Limits.sources
      \/ DryRounds(q, log) >= Limits.rounds
  BY DEF Verdict
<1>5. ReachedLimit(q, log)
  BY <1>2, <1>3, <1>4 DEF ReachedLimit
<1> QED
  BY <1>1, <1>5

(* Evidence is not lost by what a log is continued with.                   *)
LEMMA BacksLonger ==
  ASSUME NEW qs, NEW log, NEW E, NEW l, Listed(log), Listed(E), l = log \o E, Backs(qs, log)
  PROVE  Backs(qs, l)
<1>1. PICK S : log \in Seq(S) /\ E \in Seq(S)
  <2>1. PICK T : T = Values(log) \cup Values(E)
    OBVIOUS
  <2>2. log \in Seq(T) /\ E \in Seq(T)
    BY <2>1 DEF Listed
  <2> QED
    BY <2>2
<1>2. /\ Len(log) \in Nat /\ Len(E) \in Nat /\ Len(l) = Len(log) + Len(E) /\ l \in Seq(S)
      /\ \A i \in 1 .. Len(log) : l[i] = log[i]
      /\ DOMAIN log = 1 .. Len(log) /\ DOMAIN l = 1 .. Len(l)
  BY <1>1, ConcatProperties, LenProperties
<1>3. ASSUME NEW n \in 0 .. Len(log) PROVE SubSeq(l, 1, n) = SubSeq(log, 1, n) /\ n \in 0 .. Len(l)
  <2>1. n \in 0 .. Len(l) /\ n \in 1 - 1 .. Len(log)
    BY <1>2
  <2>2. SubSeq(log \o E, 1, n) = SubSeq(log, 1, n)
    BY <1>1, <1>2, <2>1, SubSeqOfConcat1
  <2> QED
    BY <2>1, <2>2
<1>4. ASSUME NEW q PROVE Cardinality(About(q, AnswerTypes, log)) <= Cardinality(About(q, AnswerTypes, l))
  <2>1. Listed(l)
    BY <1>2, SeqIsListed
  <2>2. IsFiniteSet(About(q, AnswerTypes, l))
    BY <2>1, AboutFinite
  <2>3. About(q, AnswerTypes, log) \in SUBSET About(q, AnswerTypes, l)
    BY <1>2 DEF About
  <2> QED
    BY <2>2, <2>3, FS_Subset
<1>5. \A q : /\ Cardinality(About(q, AnswerTypes, log)) \in Nat
             /\ Cardinality(About(q, AnswerTypes, l)) \in Nat
  BY <1>2, SeqIsListed, AboutFinite
<1>6. Limits.answers \in Nat
  BY LimitsPositive
<1> SUFFICES ASSUME NEW q \in Questions, qs[q] # "OPEN"
             PROVE  /\ \E n \in 0 .. Len(l) : ReachedLimit(q, SubSeq(l, 1, n))
                    /\ qs[q] = "ANSWERED" => Cardinality(About(q, AnswerTypes, l)) >= Limits.answers
  BY DEF Backs
<1>7. PICK n \in 0 .. Len(log) : ReachedLimit(q, SubSeq(log, 1, n))
  BY DEF Backs
<1>8. qs[q] = "ANSWERED" => Cardinality(About(q, AnswerTypes, log)) >= Limits.answers
  BY DEF Backs
<1>9. ReachedLimit(q, SubSeq(l, 1, n)) /\ n \in 0 .. Len(l)
  BY <1>3, <1>7
<1>10. qs[q] = "ANSWERED" => Cardinality(About(q, AnswerTypes, l)) >= Limits.answers
  BY <1>4, <1>5, <1>6, <1>8
<1> QED
  BY <1>9, <1>10

LEMMA ToFacts ==
  ASSUME NEW ws, Listed(ws), NEW f
  PROVE  /\ \A i \in 1 .. Len(ws) : ws[i].file = f => ws[i].content \in To(f, ws)
         /\ \A v \in To(f, ws) : \E i \in 1 .. Len(ws) : ws[i].file = f /\ v = ws[i].content
BY ListedFacts DEF To

(* A write does what it does to the files that are told apart here.        *)
LEMMA WriteBacked ==
  ASSUME NEW d, NEW A, NEW u, NEW e, Writes(d, A, u, e), NEW B, Backed(d, A, B)
  PROVE  Backed(e, u, B) /\ Backs(e.questions, e.log)
<1>1. IsDisk(d) /\ Prog(A) /\ A # <<>> /\ u = Tail(A) /\ e = Put(d, Head(A)) /\ Listed(A)
  BY DEF Writes, Prog
<1>2. PICK w : w = A[1]
  OBVIOUS
<1>3. /\ Head(A) = w /\ Len(A) \in Nat \ {0} /\ DOMAIN u = 1 .. Len(A) - 1
      /\ \A i \in DOMAIN u : i + 1 \in 1 .. Len(A) /\ u[i] = A[i + 1]
  BY <1>1, <1>2, ListedTail
<1>4. \A f : To(f, u) \subseteq To(f, A)
  BY <1>1, <1>3, ToFacts DEF To
<1>5. /\ w.content \in To(w.file, A)
      /\ w.file \in Files \cup {"check"} \/ (w.file = "append" /\ Len(A) = 1)
  <2>1. 1 \in 1 .. Len(A)
    BY <1>3
  <2> QED
    BY <1>1, <1>2, <2>1, ToFacts DEF Prog
<1>6. To("append", u) = {}
  <2> SUFFICES ASSUME NEW i \in DOMAIN u, u[i].file = "append" PROVE FALSE
    BY DEF To
  <2>1. i + 1 \in 1 .. Len(A) /\ A[i + 1].file = "append" /\ Len(A) # 1
    BY <1>3
  <2>2. "append" \notin Files \cup {"check"}
    BY DEF Files
  <2> QED
    BY <1>1, <2>1, <2>2 DEF Prog
<1>7. d = [f \in Files |-> d[f]] /\ "questions" \in Files /\ "log" \in Files
  BY <1>1 DEF IsDisk, Files
<1>8. e.questions \in {d.questions} \cup To("questions", A)
      /\ e.log \in {d.log} \cup To("log", A) \cup {Append(d.log, v) : v \in To("append", A)}
  <2>1. CASE w.file = "check"
    <3>1. e = d
      BY <1>1, <1>3, <2>1 DEF Put
    <3> QED
      BY <3>1
  <2>2. CASE w.file = "append"
    <3>1. e = [d EXCEPT !.log = Append(@, w.content)]
      BY <1>1, <1>3, <2>2 DEF Put
    <3>2. e.log = Append(d.log, w.content) /\ e.questions = d.questions
      BY <1>7, <3>1
    <3> QED
      BY <1>5, <2>2, <3>2
  <2>3. CASE w.file \notin {"check", "append"}
    <3>1. e = [d EXCEPT ![w.file] = w.content]
      BY <1>1, <1>3, <2>3 DEF Put
    <3>2. \A f \in Files : e[f] = IF f = w.file THEN w.content ELSE d[f]
      BY <1>7, <3>1
    <3> QED
      BY <1>5, <1>7, <3>2
  <2> QED
    BY <2>1, <2>2, <2>3
<1>9. Registers(e, u, B) \subseteq Registers(d, A, B)
  BY <1>4, <1>8 DEF Registers
<1>10. Logs(e, u, B) \subseteq Logs(d, A, B)
  BY <1>4, <1>6, <1>8 DEF Logs
<1>11. Backed(e, u, B)
  BY <1>9, <1>10 DEF Backed
<1>12. e.questions \in Registers(d, A, B) /\ e.log \in Logs(d, A, B)
  BY <1>8 DEF Registers, Logs
<1> QED
  BY <1>11, <1>12 DEF Backed

(* The undoing of a command writes what the command had left to write.     *)
LEMMA RaiseBacked ==
  ASSUME NEW d, NEW A, NEW B, Backed(d, A, B)
  PROVE  Backed(d, B, B)
BY DEF Backed, Registers, Logs

-----------------------------------------------------------------------------
(* The commands.                                                           *)

Lawful(A, B, acks) ==
  /\ Prog(A) /\ Prog(B) /\ Forward(disk, A, told) /\ Back(disk, A, B, told)
  /\ acks \subseteq Recorded(After(disk, A, Len(A)).log)

Tidy(A, B) ==
  /\ Tells(After(disk, A, Len(A)))
  /\ \A n \in 0 .. Len(A) - 1 : After(After(disk, A, n), B, Len(B)) = disk

LEMMA TuplesListed ==
  /\ \A x, y, z : Listed(<<x, y, z>>)
  /\ \A w, x, y, z : Listed(<<w, x, y, z>>)
  /\ \A v, w, x, y, z : Listed(<<v, w, x, y, z>>)
<1>1. ASSUME NEW x, NEW y, NEW z PROVE Listed(<<x, y, z>>)
  <2>1. <<x, y, z>> \in Seq({x, y, z})
    OBVIOUS
  <2> QED
    BY <2>1, SeqIsListed
<1>2. ASSUME NEW w, NEW x, NEW y, NEW z PROVE Listed(<<w, x, y, z>>)
  <2>1. <<w, x, y, z>> \in Seq({w, x, y, z})
    OBVIOUS
  <2> QED
    BY <2>1, SeqIsListed
<1>3. ASSUME NEW v, NEW w, NEW x, NEW y, NEW z PROVE Listed(<<v, w, x, y, z>>)
  <2>1. <<v, w, x, y, z>> \in Seq({v, w, x, y, z})
    OBVIOUS
  <2> QED
    BY <2>1, SeqIsListed
<1> QED
  BY <1>1, <1>2, <1>3

LEMMA WriteFacts == \A f, c : W(f, c).file = f /\ W(f, c).content = c
BY DEF W

(* A list of different files, and what restores them.                      *)
Puts(fs, B) ==
  /\ Listed(fs) /\ \A i \in 1 .. Len(fs) : fs[i] \in Files
  /\ \A i, j \in 1 .. Len(fs) : i # j => fs[i] # fs[j]
  /\ B = Before(fs)

LEMMA BeforeFacts ==
  ASSUME NEW fs, NEW B, Puts(fs, B)
  PROVE  Prog(B) /\ Restores(disk, B) /\ Len(B) = Len(fs) /\ \A i \in 1 .. Len(fs) : B[i].file = fs[i]
<1> SUFFICES ASSUME Listed(fs), \A i \in 1 .. Len(fs) : fs[i] \in Files,
                    \A i, j \in 1 .. Len(fs) : i # j => fs[i] # fs[j], B = Before(fs)
             PROVE  Prog(B) /\ Restores(disk, B) /\ Len(B) = Len(fs) /\ \A i \in 1 .. Len(fs) : B[i].file = fs[i]
  BY DEF Puts
<1>1. Len(fs) \in Nat /\ DOMAIN fs = 1 .. Len(fs)
  BY ListedFacts
<1> DEFINE k == Len(fs)
<1>2. B = [i \in 1 .. k |-> W(fs[i], disk[fs[i]])]
  BY <1>1 DEF Before
<1>3. \A i \in 1 .. k : B[i].file = fs[i] /\ B[i].content = disk[fs[i]]
  BY <1>2, WriteFacts
<1> DEFINE S == {B[i] : i \in 1 .. k}
<1>4. B \in Seq(S) /\ Len(B) = k
  <2>1. k \in Nat /\ \A i \in 1 .. k : B[i] \in S
    BY <1>1
  <2> HIDE DEF S, k
  <2>2. DOMAIN B = 1 .. k /\ B = [i \in 1 .. k |-> B[i]]
    BY <1>2
  <2>3. [i \in 1 .. k |-> B[i]] \in Seq(S)
    BY <2>1
  <2>4. B \in Seq(S)
    BY <2>2, <2>3
  <2>5. Len(B) \in Nat /\ DOMAIN B = 1 .. Len(B)
    BY <2>4, LenProperties
  <2>6. Len(B) = k
    BY <2>1, <2>2, <2>5
  <2> QED
    BY <2>4, <2>6
<1>5. Listed(B)
  BY <1>4, SeqIsListed
<1>6. Prog(B)
  BY <1>3, <1>4, <1>5 DEF Prog
<1>7. Restores(disk, B)
  BY <1>3, <1>4 DEF Restores
<1> QED
  BY <1>3, <1>4, <1>6, <1>7

(* A list of writes, what undoes it, and the disk when it is done.         *)
Pair(A, B, e) ==
  Prog(A) /\ Prog(B) /\ Restores(disk, B) /\ Covers(A, B) /\ e = After(disk, A, Len(A)) /\ IsDisk(e)

LEMMA Ready ==
  ASSUME NEW A, NEW B, NEW e, Pair(A, B, e), Good(disk, told), Good(e, told),
         disk.state.rev <= e.state.rev, Closes(disk.questions, e.questions),
         LogLast(A) \/ (disk.state.rev = e.state.rev /\ disk.questions = e.questions),
         NEW acks, acks \subseteq Recorded(e.log)
  PROVE  Lawful(A, B, acks) /\ (Tells(e) => Tidy(A, B))
<1>0. Prog(A) /\ Prog(B) /\ Restores(disk, B) /\ Covers(A, B) /\ e = After(disk, A, Len(A))
  BY DEF Pair
<1>1. Forward(disk, A, told) /\ Back(disk, A, B, told)
  <2>1. PICK d : d = disk
    OBVIOUS
  <2>2. PICK t : t = told
    OBVIOUS
  <2>3. /\ Good(d, t) /\ Good(e, t) /\ d.state.rev <= e.state.rev /\ Closes(d.questions, e.questions)
        /\ Restores(d, B) /\ e = After(d, A, Len(A))
        /\ LogLast(A) \/ (d.state.rev = e.state.rev /\ d.questions = e.questions)
    BY <1>0, <2>1, <2>2
  <2>4. Forward(d, A, t) /\ Back(d, A, B, t)
    BY <1>0, <2>3, Undoable
  <2> QED
    BY <2>1, <2>2, <2>4
<1>2. IsDisk(disk)
  BY DEF Good
<1>3. \A n \in 0 .. Len(A) - 1 : After(After(disk, A, n), B, Len(B)) = disk
  BY <1>0, <1>2, Undone
<1> QED
  BY <1>0, <1>1, <1>3 DEF Lawful, Tidy

(* What a command leads to, as far as decisions and evidence go: it adds   *)
(* to the log, and what it decides rests on the log it has read.           *)
Adding(E, e) ==
  /\ Listed(disk.log) /\ Listed(E) /\ e.log = disk.log \o E
  /\ e.questions = disk.questions \/ Backs(e.questions, disk.log)

LEMMA Backing ==
  ASSUME NEW A, NEW B, NEW E, NEW e, Pair(A, B, e), Adding(E, e), Backs(disk.questions, disk.log)
  PROVE  Backed(disk, A, B)
<1>1. Prog(A) /\ Prog(B) /\ Restores(disk, B) /\ e = After(disk, A, Len(A)) /\ Listed(A) /\ Listed(B)
  BY DEF Pair, Prog
<1>2. Leaves(disk, A, e)
  BY <1>1, AfterAll
<1>3. \A f \in Files : To(f, A) \subseteq {e[f]}
  BY <1>1, <1>2, ToFacts DEF Leaves
<1>4. /\ \A f \in Files : To(f, B) \subseteq {disk[f]}
      /\ To("append", B) = {}
  <2>1. "append" \notin Files
    BY DEF Files
  <2> QED
    BY <1>1, <2>1, ToFacts DEF Restores
<1>5. ASSUME NEW v \in To("append", A) PROVE Append(disk.log, v) = e.log
  <2>1. PICK i \in 1 .. Len(A) : A[i].file = "append" /\ v = A[i].content
    BY <1>1, <1>5, ToFacts
  <2>2. "append" \notin Files \cup {"check"}
    BY DEF Files
  <2>3. Len(A) = 1 /\ i = 1
    BY <1>1, <2>1, <2>2 DEF Prog
  <2>4. PICK d : d = disk
    OBVIOUS
  <2>5. A[1].file = "append" /\ e = After(d, A, 1)
    BY <1>1, <2>1, <2>3, <2>4
  <2>6. e.log = Append(d.log, A[1].content)
    BY <2>5, AfterAppend
  <2> QED
    BY <2>1, <2>3, <2>4, <2>6
<1>6. "questions" \in Files /\ "log" \in Files
  BY DEF Files
<1>7. Registers(disk, A, B) \subseteq {disk.questions, e.questions} /\ Logs(disk, A, B) \subseteq {disk.log, e.log}
  BY <1>3, <1>4, <1>5, <1>6 DEF Registers, Logs
<1>8. ASSUME NEW qs \in {disk.questions, e.questions} PROVE Backs(qs, disk.log) /\ Backs(qs, e.log)
  <2>1. Backs(qs, disk.log)
    BY <1>8 DEF Adding
  <2>2. PICK log, l : log = disk.log /\ l = e.log
    OBVIOUS
  <2>3. Listed(log) /\ Listed(E) /\ l = log \o E /\ Backs(qs, log)
    BY <2>1, <2>2 DEF Adding
  <2>4. Backs(qs, l)
    BY <2>3, BacksLonger
  <2> QED
    BY <2>1, <2>2, <2>4
<1> QED
  BY <1>4, <1>7, <1>8 DEF Backed

Three(f, x, g, y, z, A, B, e) ==
  /\ A = <<W(f, x), W(g, y), W("log", z)>> /\ B = Before(<<f, g, "log">>) /\ e = After(disk, A, Len(A))
  /\ f \in Files \ {"log"} /\ g \in Files \ {"log", f}

LEMMA ThreeWrites ==
  ASSUME NEW f, NEW x, NEW g, NEW y, NEW z, NEW A, NEW B, NEW e, Three(f, x, g, y, z, A, B, e)
  PROVE  /\ Pair(A, B, e) /\ LogLast(A) /\ e[f] = x /\ e[g] = y /\ e.log = z
         /\ \A h \in Files \ {f, g, "log"} : e[h] = disk[h]
<1> SUFFICES ASSUME f \in Files, g \in Files, f # g, f # "log", g # "log",
                    A = <<W(f, x), W(g, y), W("log", z)>>, B = Before(<<f, g, "log">>),
                    e = After(disk, A, Len(A))
             PROVE  /\ Pair(A, B, e) /\ LogLast(A) /\ e[f] = x /\ e[g] = y /\ e.log = z
                    /\ \A h \in Files \ {f, g, "log"} : e[h] = disk[h]
  BY DEF Three
<1>1. Listed(A) /\ Len(A) = 3 /\ A[1] = W(f, x) /\ A[2] = W(g, y) /\ A[3] = W("log", z)
  BY TuplesListed
<1>2. /\ A[1].file = f /\ A[1].content = x /\ A[2].file = g /\ A[2].content = y
      /\ A[3].file = "log" /\ A[3].content = z
  BY <1>1, WriteFacts
<1>3. \A i \in 1 .. Len(A) : i = 1 \/ i = 2 \/ i = 3
  BY <1>1
<1>4. 1 \in 1 .. Len(A) /\ 2 \in 1 .. Len(A) /\ 3 \in 1 .. Len(A)
  BY <1>1
<1>5. f # "append" /\ g # "append" /\ "log" \in Files
  BY DEF Files
<1> DEFINE fs == <<f, g, "log">>
<1>6. Listed(fs) /\ Len(fs) = 3 /\ fs[1] = f /\ fs[2] = g /\ fs[3] = "log"
  BY TuplesListed
<1> HIDE DEF fs
<1>7. \A i \in 1 .. Len(fs) : i = 1 \/ i = 2 \/ i = 3
  BY <1>6
<1>8. Prog(B) /\ Restores(disk, B) /\ Len(B) = 3 /\ \A i \in 1 .. Len(fs) : B[i].file = fs[i]
  <2>1. B = Before(fs)
    BY DEF fs
  <2>2. \A i \in 1 .. Len(fs) : fs[i] \in Files
    BY <1>5, <1>6, <1>7
  <2>3. \A i, j \in 1 .. Len(fs) : i # j => fs[i] # fs[j]
    BY <1>6, <1>7
  <2>4. Puts(fs, B)
    BY <1>6, <2>1, <2>2, <2>3 DEF Puts
  <2> QED
    BY <1>6, <2>4, BeforeFacts
<1>9. Prog(A)
  BY <1>1, <1>2, <1>3, <1>5 DEF Prog
<1>10. Covers(A, B)
  <2>1. 1 \in 1 .. Len(B) /\ 2 \in 1 .. Len(B) /\ 3 \in 1 .. Len(B)
    BY <1>8
  <2>2. B[1].file = f /\ B[2].file = g /\ B[3].file = "log"
    BY <1>6, <1>8
  <2>3. \A i \in 1 .. Len(A) : \E j \in 1 .. Len(B) : B[j].file = A[i].file
    BY <1>2, <1>3, <2>1, <2>2
  <2> QED
    BY <2>3 DEF Covers
<1>11. LogLast(A)
  BY <1>1, <1>2, <1>3, <1>5 DEF LogLast
<1>12. IsDisk(e) /\ Leaves(disk, A, e)
  BY <1>9, AfterAll
<1>13. e[f] = x /\ e[g] = y /\ e.log = z
  BY <1>2, <1>4, <1>5, <1>12 DEF Leaves
<1>14. \A h \in Files \ {f, g, "log"} : e[h] = disk[h]
  BY <1>2, <1>3, <1>5, <1>12 DEF Leaves
<1> QED
  BY <1>8, <1>9, <1>10, <1>11, <1>12, <1>13, <1>14 DEF Pair

(* What is left to show for a command that starts.                         *)
Started(p, locked) ==
  \E A, B, acks : /\ Begin(p, A, B, locked, acks)
                  /\ Lawful(A, B, acks)
                  /\ Tells(disk) /\ Goals \cap Completed = {} => Tidy(A, B)
                  /\ Backs(disk.questions, disk.log) => Backed(disk, A, B)

LEMMA MovesWithin ==
  ASSUME NEW s \in Statuses, NEW to, IsAllowed(s, to)
  PROVE  to \in Statuses
<1>1. Transitions[s] \subseteq Statuses
  BY DEF Transitions, Statuses, Completed
<1> QED
  BY <1>1 DEF IsAllowed

LEMMA DifferentFine ==
  ASSUME NEW log, NEW rev, NEW qs, NEW t, Fine(log, rev, qs, t)
  PROVE  Different(log) /\ Listed(log) /\ rev \in Nat
BY DEF Fine, Different, Apart

(* A transition's event is unlike those before it.                         *)
Adds(log, id, from, to, l) ==
  /\ l = With(log, <<TransitionEvent(id, from, to)>>)
  /\ id \notin Ids(log) /\ id[1] \notin {"TASK", "RUN", "AGENT", "SEARCH"}

LEMMA TransitionFine ==
  ASSUME NEW log, NEW id, NEW from, NEW to, NEW l, Adds(log, id, from, to, l),
         NEW rev, NEW qs, NEW t, Fine(log, rev, qs, t)
  PROVE  Fine(l, rev, qs, t) /\ l = log \o <<TransitionEvent(id, from, to)>> /\ id \in Ids(l)
<1> SUFFICES ASSUME l = With(log, <<TransitionEvent(id, from, to)>>), id \notin Ids(log),
                    id[1] \notin {"TASK", "RUN", "AGENT", "SEARCH"}
             PROVE  Fine(l, rev, qs, t) /\ l = log \o <<TransitionEvent(id, from, to)>> /\ id \in Ids(l)
  BY DEF Adds
<1> DEFINE v == TransitionEvent(id, from, to)
<1>1. v.id = id /\ v.type = "STATE_TRANSITION"
  BY DEF TransitionEvent
<1> HIDE DEF v
<1>2. l = log \o <<v>>
  BY DEF With, v
<1>3. Sound(v, rev, qs)
  BY <1>1 DEF Sound
<1>4. \A i \in DOMAIN log : Apart(log[i], v)
  BY <1>1 DEF Apart, Ids
<1>5. Fine(l, rev, qs, t)
  BY <1>2, <1>3, <1>4, FineGrowsByOne
<1>6. id \in Ids(l)
  <2>1. Listed(log) /\ Listed(<<v>>)
    BY ShortListed DEF Fine
  <2>2. Ids(l) = Ids(log) \cup Ids(<<v>>)
    BY <1>2, <2>1, RecordedGrow
  <2>3. id \in Ids(<<v>>)
    <3>1. 1 \in DOMAIN <<v>> /\ <<v>>[1] = v
      OBVIOUS
    <3> QED
      BY <1>1, <3>1 DEF Ids
  <2> QED
    BY <2>2, <2>3
<1> QED
  BY <1>2, <1>5, <1>6 DEF v

LEMMA MovesAdd ==
  ASSUME NEW v, NEW l, l = With(disk.log, <<v>>), NEW e, e.log = l, e.questions = disk.questions, Good(disk, told)
  PROVE  Adding(<<v>>, e)
<1>1. Listed(<<v>>)
  BY ShortListed
<1> QED
  BY <1>1 DEF Adding, With, Good, Fine

(* The disk that a transition, or a completion, leads to.                  *)
MovedTo(id, to, e) ==
  /\ id \notin Ids(disk.log) /\ id[1] \notin {"TASK", "RUN", "AGENT", "SEARCH"}
  /\ disk.manifest = disk.state.status /\ IsAllowed(disk.state.status, to)
  /\ IsDisk(e) /\ e.manifest = to /\ e.state = [disk.state EXCEPT !.status = to, !.last = id]
  /\ e.questions = disk.questions /\ e.log = With(disk.log, <<TransitionEvent(id, disk.state.status, to)>>)

LEMMA Moved ==
  ASSUME NEW id, NEW to, NEW e, MovedTo(id, to, e), Good(disk, told)
  PROVE  /\ Good(e, told) /\ disk.state.rev = e.state.rev /\ disk.state.rev <= e.state.rev
         /\ Closes(disk.questions, e.questions)
         /\ Tells(disk) /\ (to \in Completed => e.report = to) => Tells(e)
<1> SUFFICES ASSUME id \notin Ids(disk.log), id[1] \notin {"TASK", "RUN", "AGENT", "SEARCH"},
                    disk.manifest = disk.state.status, IsAllowed(disk.state.status, to),
                    IsDisk(e), e.manifest = to, e.state = [disk.state EXCEPT !.status = to, !.last = id],
                    e.questions = disk.questions,
                    e.log = With(disk.log, <<TransitionEvent(id, disk.state.status, to)>>)
             PROVE  /\ Good(e, told) /\ disk.state.rev = e.state.rev /\ disk.state.rev <= e.state.rev
                    /\ Closes(disk.questions, e.questions)
                    /\ Tells(disk) /\ (to \in Completed => e.report = to) => Tells(e)
  BY DEF MovedTo
<1> DEFINE from == disk.state.status
<1>1. IsDisk(disk) /\ IsState(disk.state) /\ Fine(disk.log, disk.state.rev, disk.questions, told)
  BY DEF Good
<1>2. IsState(e.state) /\ e.state.rev = disk.state.rev /\ e.state.status = to /\ e.state.last = id
  BY <1>1 DEF IsState
<1>3. /\ Fine(e.log, disk.state.rev, disk.questions, told)
      /\ e.log = disk.log \o <<TransitionEvent(id, from, to)>> /\ id \in Ids(e.log)
  <2>1. PICK l : l = e.log
    OBVIOUS
  <2>2. l = With(disk.log, <<TransitionEvent(id, from, to)>>)
    BY <2>1
  <2>3. /\ Fine(l, disk.state.rev, disk.questions, told)
        /\ l = disk.log \o <<TransitionEvent(id, from, to)>> /\ id \in Ids(l)
    <3>1. PICK a : a = disk.log
      OBVIOUS
    <3>2. PICK b : b = from
      OBVIOUS
    <3>3. Adds(a, id, b, to, l) /\ Fine(a, disk.state.rev, disk.questions, told)
      BY <1>1, <2>2, <3>1, <3>2 DEF Adds
    <3>4. /\ Fine(l, disk.state.rev, disk.questions, told)
          /\ l = a \o <<TransitionEvent(id, b, to)>> /\ id \in Ids(l)
      BY <3>3, TransitionFine
    <3> QED
      BY <3>1, <3>2, <3>4
  <2> QED
    BY <2>1, <2>3
<1>4. Good(e, told)
  BY <1>2, <1>3 DEF Good
<1>5. disk.state.rev \in Nat
  BY <1>1 DEF Fine
<1>6. Closes(disk.questions, e.questions)
  BY DEF Closes
<1>7. ASSUME Tells(disk), to \in Completed => e.report = to PROVE Tells(e)
  <2>1. from \in Statuses /\ Replay(First(disk.log, from), disk.log) = from
    BY <1>7, ReplayIs DEF Tells
  <2>2. to \in Statuses
    BY <2>1, MovesWithin
  <2>3. Different(e.log) /\ Listed(disk.log)
    <3>1. \A rev, qs, t, log : Fine(log, rev, qs, t) => Different(log) /\ Listed(log)
      BY DifferentFine
    <3> QED
      BY <1>1, <1>3, <3>1
  <2>4. Replay(First(e.log, e.state.status), e.log) = to
    <3>1. PICK a, l, z : a = disk.log /\ l = e.log /\ z = e.state.status
      OBVIOUS
    <3>2. PICK b : b = from
      OBVIOUS
    <3>3. Continues(a, b, id, to, l)
      BY <1>3, <2>1, <2>3, <3>1, <3>2 DEF Continues
    <3>4. Replay(First(l, z), l) = to
      BY <3>3, NextChapter
    <3> QED
      BY <3>1, <3>4
  <2>5. ReplayProject(e) = to
    BY <2>4, ReplayIs
  <2> QED
    BY <1>2, <1>3, <1>7, <2>2, <2>5 DEF Tells
<1> QED
  BY <1>2, <1>4, <1>5, <1>6, <1>7

LEMMA TransitionStarts ==
  ASSUME NEW p, NEW to \in Goals, NEW n, Good(disk, told), Transition(p, to, n)
  PROVE  Started(p, FALSE)
<1>a. PICK id : id = <<"CMD", n>>
  OBVIOUS
<1>b. PICK l : l = With(disk.log, <<TransitionEvent(id, disk.state.status, to)>>)
  OBVIOUS
<1>c. PICK s : s = [disk.state EXCEPT !.status = to, !.last = id]
  OBVIOUS
<1>d. PICK A : A = <<W("manifest", to), W("state", s), W("log", l)>>
  OBVIOUS
<1>e. PICK B : B = Before(<<"manifest", "state", "log">>)
  OBVIOUS
<1>f. PICK e : e = After(disk, A, Len(A))
  OBVIOUS
<1>1. /\ disk.manifest = disk.state.status /\ IsAllowed(disk.state.status, to)
      /\ id \notin Ids(disk.log) /\ Begin(p, A, B, FALSE, {})
  BY <1>a, <1>b, <1>c, <1>d, <1>e DEF Transition
<1>3. Three("manifest", to, "state", s, l, A, B, e)
  BY <1>d, <1>e, <1>f DEF Three, Files
<1>4. /\ Pair(A, B, e) /\ LogLast(A) /\ e["manifest"] = to /\ e["state"] = s /\ e.log = l
      /\ \A h \in Files \ {"manifest", "state", "log"} : e[h] = disk[h]
  BY <1>3, ThreeWrites
<1>5. e.questions = disk.questions /\ e.manifest = to /\ e.state = s
  BY <1>4 DEF Files
<1>6. id[1] \notin {"TASK", "RUN", "AGENT", "SEARCH"}
  BY <1>a
<1>7. /\ Good(e, told) /\ disk.state.rev <= e.state.rev /\ Closes(disk.questions, e.questions)
      /\ Tells(disk) /\ (to \in Completed => e.report = to) => Tells(e)
  <2>1. MovedTo(id, to, e)
    BY <1>1, <1>4, <1>5, <1>6, <1>b, <1>c DEF MovedTo, Pair
  <2> QED
    BY <2>1, Moved
<1>8. Lawful(A, B, {}) /\ (Tells(e) => Tidy(A, B))
  <2>1. Pair(A, B, e) /\ Good(e, told) /\ disk.state.rev <= e.state.rev /\ Closes(disk.questions, e.questions)
    BY <1>4, <1>7
  <2>2. LogLast(A) \/ (disk.state.rev = e.state.rev /\ disk.questions = e.questions)
    BY <1>4
  <2>3. {} \subseteq Recorded(e.log)
    OBVIOUS
  <2> QED
    BY <2>1, <2>2, <2>3, Ready
<1>9. Backs(disk.questions, disk.log) => Backed(disk, A, B)
  BY <1>4, <1>5, <1>b, Backing, MovesAdd
<1> QED
  BY <1>1, <1>7, <1>8, <1>9 DEF Started

(* The writes of a completion.                                             *)
Five(x, s, l, A, B, e) ==
  /\ A = <<W("manifest", x), W("state", s), W("report", x), W("log", l), W("check", TRUE)>>
  /\ B = Before(<<"manifest", "state", "report", "log">>) /\ e = After(disk, A, Len(A))

LEMMA FiveWrites ==
  ASSUME NEW x, NEW s, NEW l, NEW A, NEW B, NEW e, Five(x, s, l, A, B, e)
  PROVE  Pair(A, B, e) /\ e.manifest = x /\ e.state = s /\ e.report = x /\ e.log = l /\ e.questions = disk.questions
<1>0. /\ A = <<W("manifest", x), W("state", s), W("report", x), W("log", l), W("check", TRUE)>>
      /\ B = Before(<<"manifest", "state", "report", "log">>) /\ e = After(disk, A, Len(A))
  BY DEF Five
<1>1. PICK fs : fs = <<"manifest", "state", "report", "log">>
  OBVIOUS
<1>2. Listed(fs) /\ Len(fs) = 4 /\ fs[1] = "manifest" /\ fs[2] = "state" /\ fs[3] = "report" /\ fs[4] = "log"
  BY <1>1, TuplesListed
<1>3. \A i \in 1 .. Len(fs) : i = 1 \/ i = 2 \/ i = 3 \/ i = 4
  BY <1>2
<1>4. \A i \in 1 .. Len(fs) : fs[i] \in Files
  BY <1>2, <1>3 DEF Files
<1>5. \A i, j \in 1 .. Len(fs) : i # j => fs[i] # fs[j]
  BY <1>2, <1>3
<1>6. Prog(B) /\ Restores(disk, B) /\ Len(B) = Len(fs) /\ \A i \in 1 .. Len(fs) : B[i].file = fs[i]
  <2>1. Puts(fs, B)
    BY <1>0, <1>1, <1>2, <1>4, <1>5 DEF Puts
  <2> QED
    BY <2>1, BeforeFacts
<1>7. /\ Listed(A) /\ Len(A) = 5 /\ A[1] = W("manifest", x) /\ A[2] = W("state", s) /\ A[3] = W("report", x)
      /\ A[4] = W("log", l) /\ A[5] = W("check", TRUE)
  BY <1>0, TuplesListed
<1>9. /\ A[1].file = "manifest" /\ A[2].file = "state" /\ A[3].file = "report"
      /\ A[4].file = "log" /\ A[5].file = "check"
      /\ A[1].content = x /\ A[2].content = s /\ A[3].content = x /\ A[4].content = l
  <2>1. /\ A[1].file = "manifest" /\ A[2].file = "state" /\ A[3].file = "report"
        /\ A[4].file = "log" /\ A[5].file = "check"
    BY <1>7, WriteFacts
  <2>2. A[1].content = x /\ A[2].content = s /\ A[3].content = x /\ A[4].content = l
    BY <1>7, WriteFacts
  <2> QED
    BY <2>1, <2>2
<1>10. \A i \in 1 .. Len(A) : i = 1 \/ i = 2 \/ i = 3 \/ i = 4 \/ i = 5
  BY <1>7
<1>11. Prog(A)
  <2>1. \A i, j \in 1 .. Len(A) : i # j => A[i].file # A[j].file
    BY <1>9, <1>10
  <2>2. \A i \in 1 .. Len(A) : A[i].file \in Files \cup {"check"}
    BY <1>9, <1>10 DEF Files
  <2> QED
    BY <1>7, <2>1, <2>2 DEF Prog
<1>12. Covers(A, B)
  <2>1. 1 \in 1 .. Len(B) /\ 2 \in 1 .. Len(B) /\ 3 \in 1 .. Len(B) /\ 4 \in 1 .. Len(B)
    BY <1>2, <1>6
  <2>2. B[1].file = "manifest" /\ B[2].file = "state" /\ B[3].file = "report" /\ B[4].file = "log"
    BY <1>2, <1>6, <2>1
  <2> QED
    BY <1>9, <1>10, <2>1, <2>2 DEF Covers, Files
<1>13. IsDisk(e) /\ Leaves(disk, A, e)
  BY <1>0, <1>11, AfterAll
<1>14. 1 \in 1 .. Len(A) /\ 2 \in 1 .. Len(A) /\ 3 \in 1 .. Len(A) /\ 4 \in 1 .. Len(A)
  BY <1>7
<1>15. e.manifest = x /\ e.state = s /\ e.report = x /\ e.log = l
  BY <1>9, <1>13, <1>14 DEF Leaves, Files
<1>16. \A i \in 1 .. Len(A) : A[i].file \notin {"questions", "append"}
  BY <1>9, <1>10
<1>17. e.questions = disk.questions
  BY <1>13, <1>16 DEF Leaves, Files
<1> QED
  BY <1>0, <1>6, <1>11, <1>12, <1>13, <1>15, <1>17 DEF Pair

LEMMA CompleteStarts ==
  ASSUME NEW p, NEW core, NEW quality, NEW rest, Good(disk, told), Complete(p, core, quality, rest)
  PROVE  Started(p, FALSE)
<1>0. PICK to : to = Outcome(core, quality, rest)
  OBVIOUS
<1>a. PICK id : id = <<"COMPLETION", FirstUnused(disk.log, "COMPLETION")>>
  OBVIOUS
<1>b. PICK l : l = With(disk.log, <<TransitionEvent(id, disk.state.status, to)>>)
  OBVIOUS
<1>c. PICK s : s = [disk.state EXCEPT !.status = to, !.last = id]
  OBVIOUS
<1>d. PICK A : A = <<W("manifest", to), W("state", s), W("report", to), W("log", l), W("check", TRUE)>>
  OBVIOUS
<1>e. PICK B : B = Before(<<"manifest", "state", "report", "log">>)
  OBVIOUS
<1>f. PICK e : e = After(disk, A, Len(A))
  OBVIOUS
<1>1. /\ disk.manifest = disk.state.status /\ IsAllowed(disk.state.status, to) /\ Begin(p, A, B, FALSE, {})
  BY <1>0, <1>a, <1>b, <1>c, <1>d, <1>e DEF Complete
<1>3. Five(to, s, l, A, B, e)
  BY <1>d, <1>e, <1>f DEF Five
<1>4. Pair(A, B, e) /\ e.manifest = to /\ e.state = s /\ e.report = to /\ e.log = l /\ e.questions = disk.questions
  BY <1>3, FiveWrites
<1>5. id \notin Ids(disk.log)
  <2>1. Listed(disk.log)
    BY DEF Good, Fine
  <2> QED
    BY <1>a, <2>1, FirstUnusedFacts
<1>6. id[1] \notin {"TASK", "RUN", "AGENT", "SEARCH"}
  BY <1>a
<1>7. /\ Good(e, told) /\ disk.state.rev = e.state.rev /\ disk.state.rev <= e.state.rev
      /\ Closes(disk.questions, e.questions)
      /\ Tells(disk) /\ (to \in Completed => e.report = to) => Tells(e)
  <2>1. MovedTo(id, to, e)
    BY <1>1, <1>4, <1>5, <1>6, <1>b, <1>c DEF MovedTo, Pair
  <2> QED
    BY <2>1, Moved
<1>8. Lawful(A, B, {}) /\ (Tells(e) => Tidy(A, B))
  BY <1>4, <1>7, Ready
<1>9. Backs(disk.questions, disk.log) => Backed(disk, A, B)
  BY <1>4, <1>b, Backing, MovesAdd
<1> QED
  BY <1>1, <1>4, <1>7, <1>8, <1>9 DEF Started

LEMMA OneEvent ==
  ASSUME NEW v, NEW E, E = <<v>>
  PROVE  /\ Listed(E) /\ DOMAIN E = {1} /\ E[1] = v /\ Ids(E) = {v.id}
         /\ (\A i \in DOMAIN E : E[i] = v) /\ (\A i, j \in DOMAIN E : i = j)
<1>1. DOMAIN E = {1} /\ E[1] = v
  OBVIOUS
<1>2. Listed(E)
  BY ShortListed
<1> QED
  BY <1>1, <1>2 DEF Ids

(* The disk to which a command adds events that are no transitions.        *)
Grown(E, e) ==
  /\ IsDisk(e) /\ IsState(e.state) /\ e.state.rev \in Nat /\ disk.state.rev <= e.state.rev
  /\ Closes(disk.questions, e.questions) /\ Listed(E) /\ e.log = disk.log \o E
  /\ \A i \in DOMAIN E : Sound(E[i], e.state.rev, e.questions)
  /\ \A i, j \in DOMAIN E : i # j => Apart(E[i], E[j])
  /\ \A i \in DOMAIN disk.log, j \in DOMAIN E : Apart(disk.log[i], E[j])

Goes(E, e) ==
  /\ Still(E) /\ e.manifest = disk.manifest /\ e.state.status = disk.state.status /\ e.report = disk.report
  /\ e.state.last = disk.state.last \/ e.state.last \in Ids(E)

LEMMA GrownGood ==
  ASSUME NEW E, NEW e, Grown(E, e), Good(disk, told)
  PROVE  /\ Good(e, told) /\ Ids(e.log) = Ids(disk.log) \cup Ids(E)
         /\ Recorded(e.log) = Recorded(disk.log) \cup Recorded(E)
<1>1. PICK a, l, rev, qs, t : a = disk.log /\ l = e.log /\ rev = e.state.rev /\ qs = e.questions /\ t = told
  OBVIOUS
<1>2. /\ IsDisk(e) /\ IsState(e.state) /\ rev \in Nat /\ disk.state.rev <= rev
      /\ Closes(disk.questions, qs) /\ Listed(E) /\ l = a \o E
      /\ \A i \in DOMAIN E : Sound(E[i], rev, qs)
      /\ \A i, j \in DOMAIN E : i # j => Apart(E[i], E[j])
      /\ \A i \in DOMAIN a, j \in DOMAIN E : Apart(a[i], E[j])
  BY <1>1 DEF Grown
<1>3. Fine(a, disk.state.rev, disk.questions, t)
  BY <1>1 DEF Good
<1>4. Fine(a, rev, qs, t)
  <2>1. PICK rev1, qs1 : rev1 = disk.state.rev /\ qs1 = disk.questions
    OBVIOUS
  <2>2. Fine(a, rev1, qs1, t) /\ rev1 <= rev /\ Closes(qs1, qs)
    BY <1>2, <1>3, <2>1
  <2> QED
    BY <1>2, <2>2, FineLater
<1>5. Fine(l, rev, qs, t)
  BY <1>2, <1>4, FineGrows
<1>6. Ids(l) = Ids(a) \cup Ids(E) /\ Recorded(l) = Recorded(a) \cup Recorded(E)
  <2>1. Listed(a)
    BY <1>4 DEF Fine
  <2> QED
    BY <1>2, <2>1, RecordedGrow
<1> QED
  BY <1>1, <1>2, <1>5, <1>6 DEF Good

LEMMA GrownTells ==
  ASSUME NEW E, NEW e, Grown(E, e), Goes(E, e), Good(disk, told), Tells(disk)
  PROVE  Tells(e)
<1>1. PICK a, l, s : a = disk.log /\ l = e.log /\ s = disk.state.status
  OBVIOUS
<1>2. Good(e, told) /\ Ids(l) = Ids(a) \cup Ids(E)
  BY <1>1, GrownGood
<1>3. Different(l) /\ Listed(a) /\ Listed(E) /\ l = a \o E /\ Still(E)
  BY <1>1, <1>2 DEF Good, Fine, Different, Apart, Grown, Goes
<1>4. Replay(First(a, s), a) = s /\ s \in Statuses
  BY <1>1, ReplayIs DEF Tells
<1>5. Accepts(First(a, s), a)
  BY <1>4 DEF Accepts, Statuses
<1>6. Replay(First(l, s), l) = s
  <2>1. Pads(a, E, l, s)
    BY <1>3, <1>5 DEF Pads
  <2> QED
    BY <1>4, <2>1, SameStory
<1>7. ReplayProject(e) = s
  BY <1>1, <1>6, ReplayIs DEF Goes
<1> QED
  BY <1>1, <1>2, <1>4, <1>7 DEF Tells, Goes

LEMMA LogEventStarts ==
  ASSUME NEW p, NEW v \in Entries \cup AgentEntries, NEW family \in {"RUN", "AGENT"}, Good(disk, told),
         LogEvent(p, v, family)
  PROVE  Started(p, FALSE)
<1>a. PICK n : n = NextNumber(disk.log, family)
  OBVIOUS
<1>b. PICK w : w = [v EXCEPT !.id = <<family, n>>]
  OBVIOUS
<1>c. PICK A : A = <<W("append", w)>>
  OBVIOUS
<1>d. PICK B : B = <<>>
  OBVIOUS
<1>e. PICK e : e = After(disk, A, Len(A))
  OBVIOUS
<1>f. PICK E : E = <<w>>
  OBVIOUS
<1>1. Begin(p, A, B, FALSE, {})
  BY <1>a, <1>b, <1>c, <1>d DEF LogEvent
<1>2. IsDisk(disk) /\ IsState(disk.state) /\ Fine(disk.log, disk.state.rev, disk.questions, told) /\ Listed(disk.log)
      /\ disk.state.rev \in Nat
  BY DEF Good, Fine
<1>3. w.id = <<family, n>> /\ w.type = v.type
      /\ w.type \notin {"STATE_TRANSITION", "STOPPING_DECISION", "TASK"}
  <2>1. v = [id |-> v.id, type |-> v.type, q |-> v.q, val |-> v.val]
        /\ v.type \notin {"STATE_TRANSITION", "STOPPING_DECISION", "TASK"}
    BY EntriesAssumption
  <2>2. w.id = <<family, n>> /\ w.type = v.type
    BY <1>b, <2>1
  <2> QED
    BY <2>1, <2>2
<1>4. <<family, n>> \notin Ids(disk.log) /\ n \in Nat
  <2>1. NumbersOf(disk.log, family) \subseteq Nat
    <3>1. \A i \in DOMAIN disk.log : disk.log[i].id[1] = family => disk.log[i].id[2] \in Nat
      BY <1>2 DEF Fine, Sound
    <3> QED
      BY <3>1 DEF NumbersOf, Ids
  <2> QED
    BY <1>2, <1>a, <2>1, NextNumberFacts
<1>5. /\ Listed(A) /\ Len(A) = 1 /\ A[1].file = "append" /\ A[1].content = w
  <2>1. Listed(A) /\ Len(A) = 1 /\ A[1] = W("append", w)
    BY <1>c, ShortListed
  <2> QED
    BY <2>1, WriteFacts
<1>6. \A i \in 1 .. Len(A) : i = 1
  BY <1>5
<1>7. Prog(A) /\ Prog(B) /\ Restores(disk, B) /\ Covers(A, B) /\ LogLast(A)
  <2>1. Listed(B) /\ Len(B) = 0 /\ 1 .. Len(B) = {}
    BY <1>d, ShortListed
  <2>2. Prog(B) /\ Restores(disk, B)
    BY <2>1 DEF Prog, Restores
  <2> QED
    BY <1>5, <1>6, <2>2 DEF Prog, Covers, LogLast, Files
<1>8. Pair(A, B, e) /\ e.log = disk.log \o E /\ \A f \in Files \ {"log"} : e[f] = disk[f]
  <2>1. IsDisk(e)
    BY <1>e, AfterIsDisk
  <2>2. e.log = Append(disk.log, w) /\ \A f \in Files \ {"log"} : e[f] = disk[f]
    <3>1. e = After(disk, A, 1)
      BY <1>5, <1>e
    <3>2. PICK d : d = disk
      OBVIOUS
    <3>3. e.log = Append(d.log, A[1].content) /\ \A f \in Files \ {"log"} : e[f] = d[f]
      BY <1>5, <3>1, <3>2, AfterAppend
    <3> QED
      BY <1>5, <3>2, <3>3
  <2>3. e.log = disk.log \o E
    BY <1>2, <1>f, <2>2, AppendIs
  <2> QED
    BY <1>7, <1>e, <2>1, <2>2, <2>3 DEF Pair
<1>9. e.state = disk.state /\ e.questions = disk.questions /\ e.manifest = disk.manifest /\ e.report = disk.report
  BY <1>8 DEF Files
<1>10. Listed(E) /\ (\A i \in DOMAIN E : E[i] = w) /\ \A i, j \in DOMAIN E : i = j
  BY <1>f, OneEvent
<1>11. Sound(w, disk.state.rev, disk.questions) /\ \A i \in DOMAIN disk.log : Apart(disk.log[i], w)
  <2>1. family \notin {"TASK", "SEARCH"} /\ w.id[1] = family /\ w.id[2] = n
    BY <1>3
  <2>2. Sound(w, disk.state.rev, disk.questions)
    BY <1>3, <1>4, <2>1 DEF Sound
  <2>3. \A i \in DOMAIN disk.log : Apart(disk.log[i], w)
    BY <1>3, <1>4, <2>1 DEF Apart, Ids
  <2> QED
    BY <2>2, <2>3
<1>12. Grown(E, e)
  <2>1. disk.state.rev <= disk.state.rev /\ Closes(disk.questions, disk.questions)
    BY <1>2 DEF Closes
  <2> QED
    BY <1>2, <1>8, <1>9, <1>10, <1>11, <2>1 DEF Grown, Pair
<1>13. Goes(E, e)
  BY <1>3, <1>9, <1>10 DEF Goes, Still
<1>14. Good(e, told) /\ (Tells(disk) => Tells(e))
  BY <1>12, <1>13, GrownGood, GrownTells
<1>15. Lawful(A, B, {}) /\ (Tells(e) => Tidy(A, B))
  <2>1. disk.state.rev <= e.state.rev /\ Closes(disk.questions, e.questions)
    BY <1>12 DEF Grown
  <2>2. LogLast(A) \/ (disk.state.rev = e.state.rev /\ disk.questions = e.questions)
    BY <1>7
  <2>3. {} \subseteq Recorded(e.log)
    OBVIOUS
  <2> QED
    BY <1>8, <1>14, <2>1, <2>2, <2>3, Ready
<1>16. Backs(disk.questions, disk.log) => Backed(disk, A, B)
  <2>1. Adding(E, e)
    BY <1>2, <1>8, <1>9, <1>10 DEF Adding
  <2> QED
    BY <1>8, <2>1, Backing
<1> QED
  BY <1>1, <1>14, <1>15, <1>16 DEF Started

(* The decisions that a command adds are about different open questions.   *)
LEMMA DecisionFacts ==
  ASSUME Listed(disk.log), NEW E, E = DecisionEvents(disk)
  PROVE  /\ Listed(E)
         /\ \A i \in DOMAIN E : /\ E[i].type = "STOPPING_DECISION" /\ E[i].q \in Changed(disk)
                                /\ E[i].id[1] = "STOP" /\ E[i].id \notin Ids(disk.log)
         /\ \A i, j \in DOMAIN E : i # j => E[i].id # E[j].id /\ E[i].q # E[j].q
<1>1. PICK C : C = Changed(disk)
  OBVIOUS
<1>2. PICK n : n = Cardinality(C)
  OBVIOUS
<1>3. PICK U : U = Unused(disk.log, "STOP", n)
  OBVIOUS
<1>4. C \in SUBSET Nat /\ IsFiniteSet(C) /\ n \in Nat
  <2>1. C \in SUBSET Questions
    BY <1>1 DEF Changed
  <2>2. Questions \subseteq Nat /\ IsFiniteSet(Questions)
    BY RegistersAssumption
  <2>3. IsFiniteSet(C)
    BY <2>1, <2>2, FS_Subset
  <2> QED
    BY <1>2, <2>1, <2>2, <2>3, FS_CardinalityType
<1>5. /\ U \in SUBSET Nat /\ IsFiniteSet(U) /\ Cardinality(U) >= n /\ Cardinality(U) \in Nat
      /\ \A m \in U : <<"STOP", m>> \notin Ids(disk.log)
  <2>1. PICK a : a = disk.log
    OBVIOUS
  <2>2. Listed(a) /\ U = Unused(a, "STOP", n)
    BY <1>3, <2>1
  <2>3. /\ U \in SUBSET Nat /\ IsFiniteSet(U) /\ Cardinality(U) >= n /\ Cardinality(U) \in Nat
        /\ \A m \in U : <<"STOP", m>> \notin Ids(a)
    BY <1>4, <2>2, UnusedFacts
  <2> QED
    BY <2>1, <2>3
<1>6. ASSUME NEW k \in 1 .. n
      PROVE  k \in 1 .. Cardinality(U) /\ Nth(C, k) \in C /\ Nth(U, k) \in U
  <2>1. k \in 1 .. Cardinality(U) /\ k \in 1 .. Cardinality(C)
    BY <1>2, <1>4, <1>5
  <2> QED
    BY <1>4, <1>5, <2>1, NthFacts
<1>7. ASSUME NEW k \in 1 .. n, NEW j \in 1 .. n, k # j
      PROVE  Nth(C, k) # Nth(C, j) /\ Nth(U, k) # Nth(U, j)
  <2>1. /\ k \in 1 .. Cardinality(U) /\ k \in 1 .. Cardinality(C)
        /\ j \in 1 .. Cardinality(U) /\ j \in 1 .. Cardinality(C)
    BY <1>2, <1>6
  <2> QED
    BY <1>4, <1>5, <1>7, <2>1, NthApart
<1>8. E = [k \in 1 .. n |-> [id |-> <<"STOP", Nth(U, k)>>, type |-> "STOPPING_DECISION", q |-> Nth(C, k),
                             val |-> Verdict(Nth(C, k), disk.log)]]
  BY <1>1, <1>2, <1>3 DEF DecisionEvents
<1>9. /\ DOMAIN E = 1 .. n
      /\ \A k \in 1 .. n : E[k].id = <<"STOP", Nth(U, k)>> /\ E[k].type = "STOPPING_DECISION" /\ E[k].q = Nth(C, k)
  BY <1>8
<1>10. Listed(E)
  <2>1. PICK S : S = {E[k] : k \in 1 .. n}
    OBVIOUS
  <2>2. \A k \in 1 .. n : E[k] \in S
    BY <2>1
  <2>3. PICK F : F = E
    OBVIOUS
  <2>4. F = [k \in 1 .. n |-> F[k]]
    BY <1>8, <2>3
  <2>5. [k \in 1 .. n |-> F[k]] \in Seq(S)
    BY <1>4, <2>2, <2>3
  <2>6. F \in Seq(S)
    BY <2>4, <2>5
  <2> QED
    BY <2>3, <2>6, SeqIsListed
<1>11. ASSUME NEW i \in DOMAIN E
       PROVE  /\ E[i].type = "STOPPING_DECISION" /\ E[i].q \in Changed(disk)
              /\ E[i].id[1] = "STOP" /\ E[i].id \notin Ids(disk.log)
  <2>1. i \in 1 .. n
    BY <1>9
  <2>2. E[i].id = <<"STOP", Nth(U, i)>> /\ E[i].type = "STOPPING_DECISION" /\ E[i].q = Nth(C, i)
    BY <1>9, <2>1
  <2>3. Nth(C, i) \in C /\ <<"STOP", Nth(U, i)>> \notin Ids(disk.log)
    BY <1>5, <1>6, <2>1
  <2>4. E[i].q \in Changed(disk) /\ E[i].id \notin Ids(disk.log)
    BY <1>1, <2>2, <2>3
  <2>5. E[i].id[1] = "STOP" /\ E[i].type = "STOPPING_DECISION"
    BY <2>2
  <2> QED
    BY <2>4, <2>5
<1>12. ASSUME NEW i \in DOMAIN E, NEW j \in DOMAIN E, i # j
       PROVE  E[i].id # E[j].id /\ E[i].q # E[j].q
  <2>1. i \in 1 .. n /\ j \in 1 .. n
    BY <1>9
  <2>2. Nth(C, i) # Nth(C, j) /\ Nth(U, i) # Nth(U, j)
    BY <1>7, <1>12, <2>1
  <2>3. E[i].id = <<"STOP", Nth(U, i)>> /\ E[j].id = <<"STOP", Nth(U, j)>> /\ E[i].q = Nth(C, i) /\ E[j].q = Nth(C, j)
    BY <1>9, <2>1
  <2> QED
    BY <2>2, <2>3
<1> QED
  BY <1>10, <1>11, <1>12

(* The decisions of a register that is about to be written.                *)
LEMMA DecisionsRest ==
  ASSUME Listed(disk.log), Backs(disk.questions, disk.log), NEW qs,
         qs = [q \in Questions |-> IF q \in Changed(disk) THEN Verdict(q, disk.log) ELSE disk.questions[q]]
  PROVE  Backs(qs, disk.log)
<1>1. PICK log : log = disk.log
  OBVIOUS
<1>2. Len(log) \in 0 .. Len(log) /\ SubSeq(log, 1, Len(log)) = log
  <2>1. log \in Seq(Values(log))
    BY <1>1 DEF Listed
  <2> QED
    BY <2>1, LenProperties, SubSeqFull
<1> SUFFICES ASSUME NEW q \in Questions, qs[q] # "OPEN"
             PROVE  /\ \E n \in 0 .. Len(log) : ReachedLimit(q, SubSeq(log, 1, n))
                    /\ qs[q] = "ANSWERED" => Cardinality(About(q, AnswerTypes, log)) >= Limits.answers
  BY <1>1 DEF Backs
<1>3. CASE q \in Changed(disk)
  <2>1. qs[q] = Verdict(q, log) /\ Verdict(q, log) # "OPEN" /\ Listed(log)
    BY <1>1, <1>3
  <2>2. ReachedLimit(q, log)
        /\ (Verdict(q, log) = "ANSWERED" => Cardinality(About(q, AnswerTypes, log)) >= Limits.answers)
    BY <2>1, VerdictRests
  <2> QED
    BY <1>2, <2>1, <2>2
<1>4. CASE q \notin Changed(disk)
  <2>1. qs[q] = disk.questions[q]
    BY <1>4
  <2> QED
    BY <1>1, <2>1 DEF Backs
<1> QED
  BY <1>3, <1>4

LEMMA ApplyStoppingStarts ==
  ASSUME NEW p, Good(disk, told), ApplyStopping(p)
  PROVE  Started(p, FALSE)
<1>a. PICK E : E = DecisionEvents(disk)
  OBVIOUS
<1>b. PICK qs : qs = [q \in Questions |-> IF q \in Changed(disk) THEN Verdict(q, disk.log) ELSE disk.questions[q]]
  OBVIOUS
<1>c. PICK s : s = [disk.state EXCEPT !.last = Last(E).id]
  OBVIOUS
<1>d. PICK l : l = With(disk.log, E)
  OBVIOUS
<1>e. PICK A : A = <<W("questions", qs), W("state", s), W("log", l)>>
  OBVIOUS
<1>f. PICK B : B = Before(<<"questions", "state", "log">>)
  OBVIOUS
<1>g. PICK e : e = After(disk, A, Len(A))
  OBVIOUS
<1>1. E # <<>> /\ Begin(p, A, B, FALSE, {})
  BY <1>a, <1>b, <1>c, <1>d, <1>e, <1>f DEF ApplyStopping
<1>2. IsDisk(disk) /\ IsState(disk.state) /\ Fine(disk.log, disk.state.rev, disk.questions, told) /\ Listed(disk.log)
      /\ disk.state.rev \in Nat
  BY DEF Good, Fine
<1>3. Three("questions", qs, "state", s, l, A, B, e)
  BY <1>e, <1>f, <1>g DEF Three, Files
<1>4. /\ Pair(A, B, e) /\ LogLast(A) /\ e["questions"] = qs /\ e["state"] = s /\ e.log = l
      /\ \A h \in Files \ {"questions", "state", "log"} : e[h] = disk[h]
  BY <1>3, ThreeWrites
<1>5. e.questions = qs /\ e.state = s /\ e.manifest = disk.manifest /\ e.report = disk.report
  BY <1>4 DEF Files
<1>6. /\ Listed(E)
      /\ \A i \in DOMAIN E : /\ E[i].type = "STOPPING_DECISION" /\ E[i].q \in Changed(disk)
                             /\ E[i].id[1] = "STOP" /\ E[i].id \notin Ids(disk.log)
      /\ \A i, j \in DOMAIN E : i # j => E[i].id # E[j].id /\ E[i].q # E[j].q
  BY <1>2, <1>a, DecisionFacts
<1>7. s.last \in Ids(E) /\ IsState(s) /\ s.rev = disk.state.rev /\ s.status = disk.state.status
  <2>1. IsState(s) /\ s.last = Last(E).id /\ s.rev = disk.state.rev /\ s.status = disk.state.status
    BY <1>2, <1>c DEF IsState
  <2>2. Len(E) \in Nat /\ DOMAIN E = 1 .. Len(E) /\ Len(E) # 0
    BY <1>1, <1>6, ListedFacts
  <2>3. Len(E) \in DOMAIN E
    BY <2>2
  <2> QED
    BY <2>1, <2>3 DEF Last, Ids
<1>8. ASSUME NEW i \in DOMAIN E PROVE Sound(E[i], s.rev, qs)
  <2>1. E[i].q \in Questions /\ disk.questions[E[i].q] = "OPEN" /\ Verdict(E[i].q, disk.log) # "OPEN"
        /\ E[i].q \in Changed(disk)
    BY <1>6 DEF Changed
  <2>2. qs[E[i].q] # "OPEN"
    BY <1>b, <2>1
  <2> QED
    BY <1>6, <2>1, <2>2 DEF Sound
<1>9. \A i, j \in DOMAIN E : i # j => Apart(E[i], E[j])
  BY <1>6 DEF Apart
<1>10. ASSUME NEW i \in DOMAIN disk.log, NEW j \in DOMAIN E PROVE Apart(disk.log[i], E[j])
  <2>1. disk.log[i].id \in Ids(disk.log)
    BY DEF Ids
  <2>2. disk.log[i].id # E[j].id
    BY <1>6, <2>1
  <2>3. disk.log[i].type = "STOPPING_DECISION" => disk.questions[disk.log[i].q] # "OPEN"
    BY <1>2 DEF Fine, Sound
  <2>4. disk.questions[E[j].q] = "OPEN"
    BY <1>6 DEF Changed
  <2>5. E[j].id[1] # "SEARCH"
    BY <1>6
  <2> QED
    BY <2>2, <2>3, <2>4, <2>5 DEF Apart
<1>11. Grown(E, e)
  <2>1. Closes(disk.questions, qs)
    BY <1>b DEF Closes, Changed
  <2>2. l = disk.log \o E
    BY <1>d DEF With
  <2> QED
    BY <1>2, <1>4, <1>5, <1>6, <1>7, <1>8, <1>9, <1>10, <2>1, <2>2 DEF Grown, Pair
<1>12. Goes(E, e)
  BY <1>5, <1>6, <1>7 DEF Goes, Still
<1>13. Good(e, told) /\ (Tells(disk) => Tells(e))
  BY <1>11, <1>12, GrownGood, GrownTells
<1>14. Lawful(A, B, {}) /\ (Tells(e) => Tidy(A, B))
  <2>1. disk.state.rev <= e.state.rev /\ Closes(disk.questions, e.questions)
    BY <1>11 DEF Grown
  <2>2. LogLast(A) \/ (disk.state.rev = e.state.rev /\ disk.questions = e.questions)
    BY <1>4
  <2>3. {} \subseteq Recorded(e.log)
    OBVIOUS
  <2> QED
    BY <1>4, <1>13, <2>1, <2>2, <2>3, Ready
<1>15. Backs(disk.questions, disk.log) => Backed(disk, A, B)
  <2> SUFFICES ASSUME Backs(disk.questions, disk.log) PROVE Backed(disk, A, B)
    OBVIOUS
  <2>1. Backs(qs, disk.log)
    BY <1>2, <1>b, DecisionsRest
  <2>2. Adding(E, e)
    BY <1>2, <1>5, <1>11, <2>1 DEF Adding, Grown
  <2> QED
    BY <1>4, <2>2, Backing
<1> QED
  BY <1>1, <1>13, <1>14, <1>15 DEF Started

(* The writes of the task runtime's commands.                              *)
Mutation(s, E, A, B, e) ==
  /\ A = MutateWrites(s, E) /\ B = Before(<<"state", "log">>) /\ e = After(disk, A, Len(A))
  /\ Listed(E) /\ Listed(disk.log)

LEMMA MutationWrites ==
  ASSUME NEW s, NEW E, NEW A, NEW B, NEW e, Mutation(s, E, A, B, e)
  PROVE  /\ Pair(A, B, e) /\ LogLast(A) /\ e.state = s /\ e.log = disk.log \o E
         /\ e.manifest = disk.manifest /\ e.report = disk.report /\ e.questions = disk.questions
<1>0. /\ A = MutateWrites(s, E) /\ B = Before(<<"state", "log">>) /\ e = After(disk, A, Len(A))
      /\ Listed(E) /\ Listed(disk.log)
  BY DEF Mutation
<1>1. PICK fs : fs = <<"state", "log">>
  OBVIOUS
<1>2. Listed(fs) /\ Len(fs) = 2 /\ fs[1] = "state" /\ fs[2] = "log"
  BY <1>1, ShortListed
<1>3. \A i \in 1 .. Len(fs) : i = 1 \/ i = 2
  BY <1>2
<1>4. Prog(B) /\ Restores(disk, B) /\ Len(B) = Len(fs) /\ \A i \in 1 .. Len(fs) : B[i].file = fs[i]
  <2>1. \A i \in 1 .. Len(fs) : fs[i] \in Files
    BY <1>2, <1>3 DEF Files
  <2>2. \A i, j \in 1 .. Len(fs) : i # j => fs[i] # fs[j]
    BY <1>2, <1>3
  <2>3. Puts(fs, B)
    BY <1>0, <1>1, <1>2, <2>1, <2>2 DEF Puts
  <2> QED
    BY <2>3, BeforeFacts
<1>5. 1 \in 1 .. Len(B) /\ 2 \in 1 .. Len(B) /\ B[1].file = "state" /\ B[2].file = "log"
  BY <1>2, <1>4
<1>6. PICK l : l = With(disk.log, E)
  OBVIOUS
<1>7. l = disk.log \o E
  BY <1>6 DEF With
<1>8. CASE E = <<>>
  <2>1. Listed(A) /\ Len(A) = 1 /\ A[1] = W("state", s)
    <3>1. A = <<W("state", s)>> \o <<>>
      BY <1>0, <1>8 DEF MutateWrites
    <3>2. PICK w : w = W("state", s)
      OBVIOUS
    <3>3. <<w>> \o <<>> = <<w>>
      <4>1. <<w>> \in Seq({w})
        OBVIOUS
      <4> QED
        BY <4>1, ConcatEmptySeq
    <3>4. A = <<w>>
      BY <3>1, <3>2, <3>3
    <3> QED
      BY <3>2, <3>4, ShortListed
  <2>2. A[1].file = "state" /\ A[1].content = s
    BY <2>1, WriteFacts
  <2>3. \A i \in 1 .. Len(A) : i = 1
    BY <2>1
  <2>4. Prog(A) /\ LogLast(A) /\ Covers(A, B)
    BY <1>5, <2>1, <2>2, <2>3 DEF Prog, LogLast, Covers, Files
  <2>5. IsDisk(e) /\ Leaves(disk, A, e)
    BY <1>0, <2>4, AfterAll
  <2>6. 1 \in 1 .. Len(A)
    BY <2>1
  <2>7. e.state = s
    BY <2>2, <2>5, <2>6 DEF Leaves, Files
  <2>8. \A f \in Files \ {"state"} : e[f] = disk[f]
    BY <2>2, <2>3, <2>5 DEF Leaves, Files
  <2>9. e.log = disk.log /\ e.manifest = disk.manifest /\ e.report = disk.report /\ e.questions = disk.questions
    BY <2>8 DEF Files
  <2>10. disk.log \o E = disk.log
    <3>1. disk.log \in Seq(Values(disk.log))
      BY <1>0 DEF Listed
    <3> QED
      BY <1>8, <3>1, ConcatEmptySeq
  <2> QED
    BY <1>0, <1>4, <2>4, <2>5, <2>7, <2>9, <2>10 DEF Pair
<1>9. CASE E # <<>>
  <2>1. Listed(A) /\ Len(A) = 2 /\ A[1] = W("state", s) /\ A[2] = W("log", l)
    <3>1. A = <<W("state", s)>> \o <<W("log", l)>>
      BY <1>0, <1>6, <1>9 DEF MutateWrites
    <3>2. PICK U, X : U = <<W("state", s)>> /\ X = <<W("log", l)>>
      OBVIOUS
    <3>3. /\ Listed(U) /\ Len(U) = 1 /\ U[1] = W("state", s)
          /\ Listed(X) /\ Len(X) = 1 /\ X[1] = W("log", l) /\ A = U \o X
      BY <3>1, <3>2, ShortListed
    <3>4. Listed(A) /\ Len(A) = Len(U) + Len(X)
      BY <3>3, ListedConcat
    <3>5. \A i \in 1 .. Len(U) : A[i] = U[i]
      BY <3>3, ListedConcat
    <3>6. \A i \in 1 .. Len(X) : A[Len(U) + i] = X[i]
      BY <3>3, ListedConcat
    <3>7. 1 \in 1 .. Len(U) /\ 1 \in 1 .. Len(X) /\ Len(U) + 1 = 2
      BY <3>3
    <3>8. A[1] = U[1] /\ A[2] = X[1]
      BY <3>5, <3>6, <3>7
    <3> QED
      BY <3>3, <3>4, <3>8
  <2>2. A[1].file = "state" /\ A[1].content = s /\ A[2].file = "log" /\ A[2].content = l
    BY <2>1, WriteFacts
  <2>3. \A i \in 1 .. Len(A) : i = 1 \/ i = 2
    BY <2>1
  <2>4. Prog(A)
    BY <2>1, <2>2, <2>3 DEF Prog, Files
  <2>5. LogLast(A)
    BY <2>1, <2>2, <2>3 DEF LogLast
  <2>6. Covers(A, B)
    BY <1>5, <2>2, <2>3 DEF Covers, Files
  <2>7. IsDisk(e) /\ Leaves(disk, A, e)
    BY <1>0, <2>4, AfterAll
  <2>8. 1 \in 1 .. Len(A) /\ 2 \in 1 .. Len(A)
    BY <2>1
  <2>9. e.state = s /\ e.log = l
    BY <2>2, <2>7, <2>8 DEF Leaves, Files
  <2>10. \A f \in Files \ {"state", "log"} : e[f] = disk[f]
    BY <2>2, <2>3, <2>7 DEF Leaves, Files
  <2>11. e.manifest = disk.manifest /\ e.report = disk.report /\ e.questions = disk.questions
    BY <2>10 DEF Files
  <2> QED
    BY <1>0, <1>4, <1>7, <2>4, <2>5, <2>6, <2>7, <2>9, <2>11 DEF Pair
<1> QED
  BY <1>8, <1>9

(* A change of the tasks and the events about it.                          *)
Changes(s, E) ==
  /\ IsState(s) /\ s.rev \in Nat /\ disk.state.rev <= s.rev
  /\ s.status = disk.state.status /\ s.last = disk.state.last /\ Listed(E) /\ Still(E)
  /\ \A i \in DOMAIN E : Sound(E[i], s.rev, disk.questions)
  /\ \A i, j \in DOMAIN E : i # j => Apart(E[i], E[j])
  /\ \A i \in DOMAIN disk.log, j \in DOMAIN E : Apart(disk.log[i], E[j])

LEMMA MutateStarts ==
  ASSUME NEW p, NEW s, NEW E, NEW acks, Mutate(p, s, E, acks), Changes(s, E), Good(disk, told),
         acks \subseteq Recorded(disk.log) \cup Recorded(E)
  PROVE  Started(p, TRUE)
<1>a. PICK A : A = MutateWrites(s, E)
  OBVIOUS
<1>b. PICK B : B = Before(<<"state", "log">>)
  OBVIOUS
<1>c. PICK e : e = After(disk, A, Len(A))
  OBVIOUS
<1>1. Begin(p, A, B, TRUE, acks)
  BY <1>a, <1>b DEF Mutate
<1>2. Mutation(s, E, A, B, e)
  BY <1>a, <1>b, <1>c DEF Mutation, Changes, Good, Fine
<1>3. /\ Pair(A, B, e) /\ LogLast(A) /\ e.state = s /\ e.log = disk.log \o E
      /\ e.manifest = disk.manifest /\ e.report = disk.report /\ e.questions = disk.questions
  BY <1>2, MutationWrites
<1>4. Grown(E, e)
  BY <1>3 DEF Grown, Changes, Pair, Closes
<1>5. Goes(E, e)
  BY <1>3 DEF Goes, Changes
<1>6. Good(e, told) /\ (Tells(disk) => Tells(e)) /\ Recorded(e.log) = Recorded(disk.log) \cup Recorded(E)
  BY <1>4, <1>5, GrownGood, GrownTells
<1>7. Lawful(A, B, acks) /\ (Tells(e) => Tidy(A, B))
  <2>1. disk.state.rev <= e.state.rev /\ Closes(disk.questions, e.questions)
    BY <1>4 DEF Grown
  <2>2. LogLast(A) \/ (disk.state.rev = e.state.rev /\ disk.questions = e.questions)
    BY <1>3
  <2>3. acks \subseteq Recorded(e.log)
    BY <1>6
  <2> QED
    BY <1>3, <1>6, <2>1, <2>2, <2>3, Ready
<1>8. Backs(disk.questions, disk.log) => Backed(disk, A, B)
  <2>1. Adding(E, e)
    BY <1>3 DEF Adding, Changes, Good, Fine
  <2> QED
    BY <1>3, <2>1, Backing
<1> QED
  BY <1>1, <1>6, <1>7, <1>8 DEF Started

(* The runtime's events are numbered apart from those before them.         *)
LEMMA TaskEventApart ==
  ASSUME NEW type \in {"TASK", "ANSWER"}, NEW val, NEW v, v = TaskEvent(type, val), Listed(disk.log),
         NEW i \in DOMAIN disk.log
  PROVE  Apart(disk.log[i], v)
<1> PICK n : n = FirstUnused(disk.log, "TASK")
  OBVIOUS
<1>1. v.id = <<"TASK", n>> /\ v.type = type
  BY DEF TaskEvent
<1>2. <<"TASK", n>> \notin Ids(disk.log)
  BY FirstUnusedFacts
<1>3. disk.log[i].id # v.id
  BY <1>1, <1>2 DEF Ids
<1>4. v.id[1] = "TASK" /\ v.type # "STOPPING_DECISION"
  BY <1>1
<1> QED
  BY <1>3, <1>4 DEF Apart

LEMMA TaskOperationStarts ==
  ASSUME NEW p, Good(disk, told), TaskOperation(p)
  PROVE  Started(p, TRUE)
<1>a. PICK n : n = disk.state.rev + 1
  OBVIOUS
<1>b. PICK s : s = [disk.state EXCEPT !.rev = n]
  OBVIOUS
<1>c. PICK v : v = TaskEvent("TASK", n)
  OBVIOUS
<1>d. PICK E : E = <<v>>
  OBVIOUS
<1>1. Mutate(p, s, E, {})
  BY <1>a, <1>b, <1>c, <1>d DEF TaskOperation
<1>2. IsState(disk.state) /\ Fine(disk.log, disk.state.rev, disk.questions, told) /\ disk.state.rev \in Nat
  BY DEF Good, Fine
<1>3. IsState(s) /\ s.rev = n /\ s.status = disk.state.status /\ s.last = disk.state.last
  BY <1>2, <1>b DEF IsState
<1>4. n \in Nat /\ disk.state.rev < n
  BY <1>2, <1>a
<1>5. v.type = "TASK" /\ v.val = n
  BY <1>c DEF TaskEvent
<1>6. Listed(E) /\ (\A i \in DOMAIN E : E[i] = v) /\ \A i, j \in DOMAIN E : i = j
  BY <1>d, OneEvent
<1>7. Sound(v, n, disk.questions)
  <2>1. v.id[1] = "TASK"
    BY <1>c DEF TaskEvent
  <2> QED
    BY <1>4, <1>5, <2>1 DEF Sound
<1>8. ASSUME NEW i \in DOMAIN disk.log PROVE Apart(disk.log[i], v)
  BY <1>2, <1>c, TaskEventApart DEF Fine
<1>9. Changes(s, E)
  <2>1. Still(E)
    BY <1>5, <1>6 DEF Still
  <2> QED
    BY <1>2, <1>3, <1>4, <1>6, <1>7, <1>8, <2>1 DEF Changes
<1> QED
  BY <1>1, <1>9, MutateStarts

(* The writes of an answer, with the events E that it logs, if any.        *)
Filing(s, E, x, A, B, e) ==
  /\ A = IF E = <<>> THEN <<W("check", TRUE), W("state", s), W("decisions", x)>>
         ELSE <<W("check", TRUE), W("state", s), W("log", With(disk.log, E)), W("decisions", x)>>
  /\ B = Before(<<"state", "log", "decisions">>) /\ e = After(disk, A, Len(A))
  /\ Listed(disk.log)

LEMMA FilingWrites ==
  ASSUME NEW s, NEW E, NEW x, NEW A, NEW B, NEW e, Filing(s, E, x, A, B, e)
  PROVE  /\ Pair(A, B, e) /\ e.state = s /\ e.log = disk.log \o E
         /\ e.manifest = disk.manifest /\ e.report = disk.report /\ e.questions = disk.questions
<1>0. /\ E = <<>> => A = <<W("check", TRUE), W("state", s), W("decisions", x)>>
      /\ E # <<>> => A = <<W("check", TRUE), W("state", s), W("log", With(disk.log, E)), W("decisions", x)>>
      /\ B = Before(<<"state", "log", "decisions">>) /\ e = After(disk, A, Len(A)) /\ Listed(disk.log)
  BY DEF Filing
<1>1. PICK fs : fs = <<"state", "log", "decisions">>
  OBVIOUS
<1>2. Listed(fs) /\ Len(fs) = 3 /\ fs[1] = "state" /\ fs[2] = "log" /\ fs[3] = "decisions"
  BY <1>1, TuplesListed
<1>3. \A i \in 1 .. Len(fs) : i = 1 \/ i = 2 \/ i = 3
  BY <1>2
<1>4. Prog(B) /\ Restores(disk, B) /\ Len(B) = Len(fs) /\ \A i \in 1 .. Len(fs) : B[i].file = fs[i]
  <2>1. \A i \in 1 .. Len(fs) : fs[i] \in Files
    BY <1>2, <1>3 DEF Files
  <2>2. \A i, j \in 1 .. Len(fs) : i # j => fs[i] # fs[j]
    BY <1>2, <1>3
  <2>3. Puts(fs, B)
    BY <1>0, <1>1, <1>2, <2>1, <2>2 DEF Puts
  <2> QED
    BY <2>3, BeforeFacts
<1>5. /\ 1 \in 1 .. Len(B) /\ 2 \in 1 .. Len(B) /\ 3 \in 1 .. Len(B)
      /\ B[1].file = "state" /\ B[2].file = "log" /\ B[3].file = "decisions"
  <2>1. 1 \in 1 .. Len(fs) /\ 2 \in 1 .. Len(fs) /\ 3 \in 1 .. Len(fs)
    BY <1>2
  <2> QED
    BY <1>2, <1>4, <2>1
<1>6. PICK l : l = With(disk.log, E)
  OBVIOUS
<1>7. l = disk.log \o E
  BY <1>6 DEF With
<1>8. CASE E = <<>>
  <2>0. A = <<W("check", TRUE), W("state", s), W("decisions", x)>>
    BY <1>0, <1>8
  <2>1. /\ Listed(A) /\ Len(A) = 3
        /\ A[1] = W("check", TRUE) /\ A[2] = W("state", s) /\ A[3] = W("decisions", x)
    BY <2>0, TuplesListed
  <2>a. A[1].file = "check" /\ A[2].file = "state" /\ A[3].file = "decisions"
    BY <2>1, WriteFacts
  <2>b. A[2].content = s
    BY <2>1, WriteFacts
  <2>2. /\ A[1].file = "check" /\ A[2].file = "state" /\ A[3].file = "decisions" /\ A[2].content = s
    BY <2>a, <2>b
  <2>3. \A i \in 1 .. Len(A) : i = 1 \/ i = 2 \/ i = 3
    BY <2>1
  <2>4. Prog(A) /\ Covers(A, B)
    <3>1. Prog(A)
      BY <2>1, <2>2, <2>3 DEF Prog, Files
    <3>2. Covers(A, B)
      BY <1>5, <2>2, <2>3 DEF Covers, Files
    <3> QED
      BY <3>1, <3>2
  <2>5. IsDisk(e) /\ Leaves(disk, A, e)
    BY <1>0, <2>4, AfterAll
  <2>6. 2 \in 1 .. Len(A)
    BY <2>1
  <2>7. e.state = s
    BY <2>2, <2>5, <2>6 DEF Leaves, Files
  <2>8. \A f \in Files \ {"state", "decisions"} : e[f] = disk[f]
    BY <2>2, <2>3, <2>5 DEF Leaves, Files
  <2>9. e.log = disk.log /\ e.manifest = disk.manifest /\ e.report = disk.report /\ e.questions = disk.questions
    BY <2>8 DEF Files
  <2>10. disk.log \o E = disk.log
    <3>1. disk.log \in Seq(Values(disk.log))
      BY <1>0 DEF Listed
    <3> QED
      BY <1>8, <3>1, ConcatEmptySeq
  <2> QED
    BY <1>0, <1>4, <2>4, <2>5, <2>7, <2>9, <2>10 DEF Pair
<1>9. CASE E # <<>>
  <2>0. A = <<W("check", TRUE), W("state", s), W("log", l), W("decisions", x)>>
    BY <1>0, <1>6, <1>9
  <2>1. /\ Listed(A) /\ Len(A) = 4
        /\ A[1] = W("check", TRUE) /\ A[2] = W("state", s) /\ A[3] = W("log", l) /\ A[4] = W("decisions", x)
    BY <2>0, TuplesListed
  <2>a. A[1].file = "check" /\ A[2].file = "state" /\ A[3].file = "log" /\ A[4].file = "decisions"
    BY <2>1, WriteFacts
  <2>b. A[2].content = s /\ A[3].content = l
    BY <2>1, WriteFacts
  <2>2. /\ A[1].file = "check" /\ A[2].file = "state" /\ A[3].file = "log" /\ A[4].file = "decisions"
        /\ A[2].content = s /\ A[3].content = l
    BY <2>a, <2>b
  <2>3. \A i \in 1 .. Len(A) : i = 1 \/ i = 2 \/ i = 3 \/ i = 4
    BY <2>1
  <2>4. Prog(A) /\ Covers(A, B)
    <3>1. Prog(A)
      BY <2>1, <2>2, <2>3 DEF Prog, Files
    <3>2. Covers(A, B)
      BY <1>5, <2>2, <2>3 DEF Covers, Files
    <3> QED
      BY <3>1, <3>2
  <2>5. IsDisk(e) /\ Leaves(disk, A, e)
    BY <1>0, <2>4, AfterAll
  <2>6. 2 \in 1 .. Len(A) /\ 3 \in 1 .. Len(A)
    BY <2>1
  <2>7. e.state = s /\ e.log = l
    BY <2>2, <2>5, <2>6 DEF Leaves, Files
  <2>8. \A f \in Files \ {"state", "log", "decisions"} : e[f] = disk[f]
    BY <2>2, <2>3, <2>5 DEF Leaves, Files
  <2>9. e.manifest = disk.manifest /\ e.report = disk.report /\ e.questions = disk.questions
    BY <2>8 DEF Files
  <2> QED
    BY <1>0, <1>4, <1>7, <2>4, <2>5, <2>7, <2>9 DEF Pair
<1> QED
  BY <1>8, <1>9

(* An answer leaves what the log is checked against as it is, so that its  *)
(* undoing may write the log before the last file.                         *)
LEMMA ResolveRequestStarts ==
  ASSUME NEW p, NEW d, Good(disk, told), ResolveRequest(p, d)
  PROVE  Started(p, TRUE)
<1>a. PICK s : s = [disk.state EXCEPT !.answered = @ \cup {d}]
  OBVIOUS
<1>b. PICK v : v = TaskEvent("ANSWER", d)
  OBVIOUS
<1>c. PICK E : E = IF d \in disk.state.answered THEN <<>> ELSE <<v>>
  OBVIOUS
<1>d. PICK A : A = AnswerWrites(d)
  OBVIOUS
<1>e. PICK B : B = Before(<<"state", "log", "decisions">>)
  OBVIOUS
<1>f. PICK e : e = After(disk, A, Len(A))
  OBVIOUS
<1>g. PICK x : x = disk.decisions \cup {d}
  OBVIOUS
<1>1. Begin(p, A, B, TRUE, {})
  BY <1>d, <1>e DEF ResolveRequest
<1>2. IsState(disk.state) /\ Fine(disk.log, disk.state.rev, disk.questions, told) /\ disk.state.rev \in Nat
      /\ Listed(disk.log) /\ IsDisk(disk)
  BY DEF Good, Fine
<1>3. IsState(s) /\ s.rev = disk.state.rev /\ s.status = disk.state.status /\ s.last = disk.state.last
  BY <1>2, <1>a DEF IsState
<1>4. <<v>> # <<>>
  <2>1. Len(<<v>>) = 1 /\ Len(<<>>) = 0
    OBVIOUS
  <2> QED
    BY <2>1
<1>5. Filing(s, E, x, A, B, e)
  <2>1. CASE d \in disk.state.answered
    <3>1. E = <<>>
      BY <1>c, <2>1
    <3>2. A = <<W("check", TRUE), W("state", s), W("decisions", x)>>
      BY <1>a, <1>d, <1>g, <2>1 DEF AnswerWrites
    <3> QED
      BY <1>2, <1>e, <1>f, <3>1, <3>2 DEF Filing
  <2>2. CASE d \notin disk.state.answered
    <3>1. E = <<v>> /\ E # <<>>
      BY <1>c, <1>4, <2>2
    <3>2. A = <<W("check", TRUE), W("state", s), W("log", With(disk.log, E)), W("decisions", x)>>
      BY <1>a, <1>b, <1>d, <1>g, <2>2, <3>1 DEF AnswerWrites
    <3> QED
      BY <1>2, <1>e, <1>f, <3>1, <3>2 DEF Filing
  <2> QED
    BY <2>1, <2>2
<1>6. /\ Pair(A, B, e) /\ e.state = s /\ e.log = disk.log \o E
      /\ e.manifest = disk.manifest /\ e.report = disk.report /\ e.questions = disk.questions
  BY <1>5, FilingWrites
<1>7. Listed(E) /\ (\A i \in DOMAIN E : E[i] = v) /\ \A i, j \in DOMAIN E : i = j
  <2>1. CASE E = <<>>
    <3>1. Listed(E) /\ Len(E) = 0 /\ DOMAIN E = 1 .. Len(E)
      BY <2>1, ShortListed, ListedFacts
    <3> QED
      BY <3>1
  <2>2. CASE E = <<v>>
    BY <2>2, OneEvent
  <2> QED
    BY <1>c, <2>1, <2>2
<1>8. v.type = "ANSWER" /\ v.id[1] = "TASK"
  BY <1>b DEF TaskEvent
<1>9. Sound(v, s.rev, disk.questions) /\ \A i \in DOMAIN disk.log : Apart(disk.log[i], v)
  <2>1. Sound(v, s.rev, disk.questions)
    BY <1>8 DEF Sound
  <2>2. \A i \in DOMAIN disk.log : Apart(disk.log[i], v)
    BY <1>2, <1>b, TaskEventApart
  <2> QED
    BY <2>1, <2>2
<1>10. Grown(E, e)
  <2>1. e.state.rev <= e.state.rev /\ Closes(disk.questions, e.questions)
    BY <1>2, <1>3, <1>6 DEF Closes
  <2> QED
    BY <1>2, <1>3, <1>6, <1>7, <1>9, <2>1 DEF Grown, Pair
<1>11. Goes(E, e)
  <2>1. Still(E)
    BY <1>7, <1>8 DEF Still
  <2> QED
    BY <1>3, <1>6, <2>1 DEF Goes
<1>12. Good(e, told) /\ (Tells(disk) => Tells(e))
  BY <1>10, <1>11, GrownGood, GrownTells
<1>13. Lawful(A, B, {}) /\ (Tells(e) => Tidy(A, B))
  <2>1. disk.state.rev <= e.state.rev /\ Closes(disk.questions, e.questions)
    BY <1>10 DEF Grown
  <2>2. disk.state.rev = e.state.rev /\ disk.questions = e.questions
    BY <1>3, <1>6
  <2>3. {} \subseteq Recorded(e.log)
    OBVIOUS
  <2> QED
    BY <1>6, <1>12, <2>1, <2>2, <2>3, Ready
<1>14. Backs(disk.questions, disk.log) => Backed(disk, A, B)
  <2>1. Adding(E, e)
    BY <1>2, <1>6, <1>7 DEF Adding
  <2> QED
    BY <1>6, <2>1, Backing
<1> QED
  BY <1>1, <1>12, <1>13, <1>14 DEF Started

LEMMA RecordSearchesStarts ==
  ASSUME NEW p, NEW batch \in SUBSET Requests, Good(disk, told), RecordSearches(p, batch)
  PROVE  Started(p, TRUE)
<1>a. PICK fresh : fresh = batch \ Recorded(disk.log)
  OBVIOUS
<1>b. PICK S : S = {SearchEvent(r) : r \in fresh}
  OBVIOUS
<1>c. PICK E : E = SetToSeq(S)
  OBVIOUS
<1>1. Mutate(p, disk.state, E, batch)
  BY <1>a, <1>b, <1>c DEF RecordSearches
<1>2. \A r \in batch, o \in Recorded(disk.log) \cup batch : o.id = r.id => o = r
  BY DEF RecordSearches
<1>3. IsState(disk.state) /\ Fine(disk.log, disk.state.rev, disk.questions, told) /\ disk.state.rev \in Nat
  BY DEF Good, Fine
<1>4. IsFiniteSet(S)
  <2>1. IsFiniteSet(fresh)
    <3>1. fresh \in SUBSET Requests /\ IsFiniteSet(Requests)
      BY <1>a, RegistersAssumption
    <3> QED
      BY <3>1, FS_Subset
  <2>2. PICK f : f = [r \in fresh |-> SearchEvent(r)]
    OBVIOUS
  <2>3. DOMAIN f = fresh /\ S = {f[x] : x \in fresh}
    BY <1>b, <2>2
  <2>4. IsFiniteSet({f[x] : x \in fresh})
    BY <2>1, <2>3, ImageFinite
  <2> QED
    BY <2>3, <2>4
<1>5. Listed(E) /\ Values(E) = S /\ \A i, j \in DOMAIN E : E[i] = E[j] => i = j
  BY <1>4, <1>c, SetToSeqFacts
<1>6. ASSUME NEW r PROVE LET v == SearchEvent(r) IN v.id[1] = "SEARCH" /\ v.id[2] = r /\ v.type = "SEARCH_ATTEMPT"
  BY DEF SearchEvent
<1>7. ASSUME NEW i \in DOMAIN E PROVE \E r \in fresh : E[i] = SearchEvent(r)
  <2>1. E[i] \in S
    BY <1>5 DEF Values
  <2> QED
    BY <1>b, <2>1
<1>8. ASSUME NEW i \in DOMAIN E PROVE Sound(E[i], disk.state.rev, disk.questions) /\ E[i].type = "SEARCH_ATTEMPT"
  <2>1. PICK r \in fresh : E[i] = SearchEvent(r)
    BY <1>7
  <2>2. E[i].id[1] = "SEARCH" /\ E[i].type = "SEARCH_ATTEMPT"
    BY <1>6, <2>1
  <2> QED
    BY <2>2 DEF Sound
<1>9. ASSUME NEW i \in DOMAIN E, NEW j \in DOMAIN E, i # j PROVE Apart(E[i], E[j])
  <2>1. PICK r \in fresh : E[i] = SearchEvent(r)
    BY <1>7
  <2>2. PICK o \in fresh : E[j] = SearchEvent(o)
    BY <1>7
  <2>3. r # o
    BY <1>5, <1>9, <2>1, <2>2
  <2>4. r.id # o.id
    BY <1>2, <1>a, <2>3
  <2>5. E[i].id[2] = r /\ E[j].id[2] = o /\ E[i].type = "SEARCH_ATTEMPT"
    BY <1>6, <2>1, <2>2
  <2>6. E[i].id # E[j].id
    BY <2>3, <2>5
  <2> QED
    BY <2>4, <2>5, <2>6 DEF Apart
<1>10. ASSUME NEW i \in DOMAIN disk.log, NEW j \in DOMAIN E PROVE Apart(disk.log[i], E[j])
  <2>1. PICK r \in fresh : E[j] = SearchEvent(r)
    BY <1>7
  <2>2. E[j].id[1] = "SEARCH" /\ E[j].id[2] = r /\ E[j].type = "SEARCH_ATTEMPT"
    BY <1>6, <2>1
  <2>3. PICK x : x = disk.log[i].id
    OBVIOUS
  <2>4. x[1] = "SEARCH" => x[2] \in Recorded(disk.log)
    BY <2>3 DEF Recorded, Ids
  <2>5. r \in batch /\ r \notin Recorded(disk.log)
    BY <1>a
  <2>6. x[1] = "SEARCH" => x[2].id # r.id
    BY <1>2, <2>4, <2>5
  <2>7. x # E[j].id
    BY <2>2, <2>4, <2>5
  <2> QED
    BY <2>2, <2>3, <2>6, <2>7 DEF Apart
<1>11. Changes(disk.state, E)
  <2>1. Still(E)
    BY <1>8 DEF Still
  <2>2. disk.state.rev <= disk.state.rev
    BY <1>3
  <2> QED
    BY <1>3, <1>5, <1>8, <1>9, <1>10, <2>1, <2>2 DEF Changes
<1>12. batch \subseteq Recorded(disk.log) \cup Recorded(E)
  <2> SUFFICES ASSUME NEW r \in batch, r \notin Recorded(disk.log) PROVE r \in Recorded(E)
    OBVIOUS
  <2>1. r \in fresh
    BY <1>a
  <2>2. PICK i \in 1 .. Len(E) : E[i] = SearchEvent(r)
    <3>1. SearchEvent(r) \in Values(E)
      BY <1>5, <1>b, <2>1
    <3> QED
      BY <1>5, <3>1, ListedFacts
  <2>3. i \in DOMAIN E /\ E[i].id[1] = "SEARCH" /\ E[i].id[2] = r
    BY <1>5, <1>6, <2>2, ListedFacts
  <2> QED
    BY <2>3 DEF Recorded, Ids
<1> QED
  BY <1>1, <1>11, <1>12, MutateStarts

-----------------------------------------------------------------------------
(* Every step keeps the invariants.                                        *)

LEMMA CommandStarts ==
  ASSUME NEW p, Good(disk, told), Command(p)
  PROVE  MayStart(p) /\ (Started(p, TRUE) \/ Started(p, FALSE))
<1>1. ASSUME NEW to \in Goals, NEW n \in CallerNumbers, Transition(p, to, n)
      PROVE  MayStart(p) /\ Started(p, FALSE)
  BY <1>1, TransitionStarts DEF Transition
<1>2. ASSUME ApplyStopping(p) PROVE MayStart(p) /\ Started(p, FALSE)
  BY <1>2, ApplyStoppingStarts DEF ApplyStopping
<1>3. ASSUME NEW core \in BOOLEAN, NEW quality \in BOOLEAN, NEW rest \in BOOLEAN, Complete(p, core, quality, rest)
      PROVE  MayStart(p) /\ Started(p, FALSE)
  BY <1>3, CompleteStarts DEF Complete
<1>4. ASSUME NEW v \in Entries \cup AgentEntries, NEW f \in {"RUN", "AGENT"}, LogEvent(p, v, f)
      PROVE  MayStart(p) /\ Started(p, FALSE)
  BY <1>4, LogEventStarts DEF LogEvent
<1>5. ASSUME TaskOperation(p) PROVE MayStart(p) /\ Started(p, TRUE)
  BY <1>5, TaskOperationStarts DEF TaskOperation, Mutate
<1>6. ASSUME NEW batch \in SUBSET Requests, RecordSearches(p, batch) PROVE MayStart(p) /\ Started(p, TRUE)
  BY <1>6, RecordSearchesStarts DEF RecordSearches, Mutate
<1>7. ASSUME NEW d \in Decisions, ResolveRequest(p, d) PROVE MayStart(p) /\ Started(p, TRUE)
  BY <1>7, ResolveRequestStarts DEF ResolveRequest
<1> QED
  BY <1>1, <1>2, <1>3, <1>4, <1>5, <1>6, <1>7 DEF Command

LEMMA IdleSafe ==
  ASSUME NEW d, NEW t, NEW r, IsProc(r), r.mode = "idle", r.todo = <<>>
  PROVE  Safe(d, r, t)
BY DEF Safe

LEMMA InitKeeps ==
  ASSUME Init
  PROVE  FilesInv /\ StoryInv
<1>1. disk = [manifest |-> StartStatus,
              state |-> [status |-> StartStatus, last |-> NoId, rev |-> 0, answered |-> {}],
              questions |-> [q \in Questions |-> "OPEN"], report |-> "BLOCKED", decisions |-> {}, log |-> <<>>]
      /\ proc = [p \in Processes |-> Idle] /\ told = {}
  BY DEF Init
<1>2. disk = [f \in Files |-> disk[f]]
  BY <1>1 DEF Files
<1>3. IsState(disk.state) /\ disk.log = <<>> /\ disk.state.rev = 0
  BY <1>1 DEF IsState
<1>4. Listed(disk.log) /\ DOMAIN disk.log = {}
  <2>1. Listed(disk.log) /\ Len(disk.log) = 0
    BY <1>3, ShortListed
  <2>2. DOMAIN disk.log = 1 .. Len(disk.log)
    BY <2>1, ListedFacts
  <2> QED
    BY <2>1, <2>2
<1>5. Good(disk, told)
  BY <1>1, <1>2, <1>3, <1>4 DEF Good, IsDisk, Fine
<1>6. \A p \in Processes : proc[p] = Idle
  BY <1>1
<1>7. IsProc(Idle) /\ Idle.mode = "idle" /\ Idle.todo = <<>>
  BY DEF Idle, IsProc
<1>8. \A p \in Processes : Safe(disk, proc[p], told)
  BY <1>6, <1>7, IdleSafe
<1>9. FilesInv
  BY <1>1, <1>5, <1>6, <1>7, <1>8 DEF FilesInv
<1>10. Tells(disk)
  <2>1. Moves(disk.log) = {}
    BY <1>4 DEF Moves
  <2>2. First(disk.log, StartStatus) = StartStatus
    BY <2>1 DEF First
  <2>3. StatusAt(StartStatus, disk.log, Len(disk.log)) = StartStatus
    <3>1. {i \in Moves(disk.log) : i <= Len(disk.log)} = {}
      BY <2>1
    <3> QED
      BY <3>1 DEF StatusAt
  <2>4. Replay(StartStatus, disk.log) = StartStatus
    BY <1>4, <2>1, <2>3 DEF Replay
  <2>5. ReplayProject(disk) = StartStatus
    BY <1>1, <2>2, <2>4, ReplayIs
  <2>6. StartStatus \in Statuses /\ StartStatus \notin Completed
    BY RegistersAssumption
  <2> QED
    BY <1>1, <2>5, <2>6 DEF Tells
<1>11. \A p \in Processes : Ends(disk, proc[p])
  BY <1>6, <1>7 DEF Ends
<1> QED
  BY <1>9, <1>10, <1>11 DEF StoryInv

(* A command that starts.                                                  *)
LEMMA BeginSafe ==
  ASSUME NEW A, NEW B, NEW acks, Lawful(A, B, acks), NEW k, NEW r,
         r = [todo |-> A, undo |-> B, mode |-> "do", locked |-> k, acks |-> acks]
  PROVE  Safe(disk, r, told) /\ (Tidy(A, B) /\ Tells(disk) => Ends(disk, r))
<1>1. r.todo = A /\ r.undo = B /\ r.mode = "do" /\ r.acks = acks /\ IsProc(r)
  BY DEF IsProc
<1>2. Safe(disk, r, told)
  BY <1>1 DEF Safe, Lawful
<1>3. Tidy(A, B) /\ Tells(disk) => Ends(disk, r)
  BY <1>1 DEF Tidy, Ends
<1> QED
  BY <1>2, <1>3

(* A write that is done.                                                   *)
LEMMA WriteSafe ==
  ASSUME NEW d, IsDisk(d), NEW r, NEW t, Safe(d, r, t), r.todo # <<>>,
         NEW e, e = Put(d, Head(r.todo)), NEW k, NEW s, s = Turned(r, Tail(r.todo), r.mode, k)
  PROVE  /\ Safe(e, s, t) /\ Good(e, t) /\ r.mode # "idle" /\ s.mode = r.mode
         /\ Ends(d, r) => Ends(e, s)
<1>1. PICK A, B, u : A = r.todo /\ B = r.undo /\ u = Tail(A)
  OBVIOUS
<1>2. r.mode \in {"do", "undo"} /\ Prog(A) /\ Forward(d, A, t) /\ IsProc(r) /\ A # <<>>
  BY <1>1 DEF Safe
<1>3. IsProc(s) /\ s.todo = u /\ s.undo = B /\ s.mode = r.mode /\ s.acks = r.acks
  BY <1>1, <1>2 DEF IsProc, Turned
<1>4. /\ Prog(u) /\ IsDisk(e) /\ Len(A) \in Nat \ {0} /\ Len(u) = Len(A) - 1
      /\ \A n \in 0 .. Len(u) : After(e, u, n) = After(d, A, n + 1)
  <2>1. Writes(d, A, u, e)
    BY <1>1, <1>2 DEF Writes
  <2> QED
    BY <2>1, AfterStep
<1>5. \A n \in 0 .. Len(u) : n + 1 \in 0 .. Len(A)
  BY <1>4
<1>6. Forward(e, u, t)
  BY <1>2, <1>4, <1>5 DEF Forward
<1>7. Good(e, t)
  <2>1. 0 \in 0 .. Len(u)
    BY <1>4
  <2>2. After(e, u, 0) = e
    BY <1>4, AfterNone
  <2> QED
    BY <1>6, <2>1, <2>2 DEF Forward
<1>8. \A n \in 0 .. Len(u) - 1 : n \in 0 .. Len(u) /\ n + 1 \in 0 .. Len(A) - 1
  BY <1>4
<1>9. Len(u) \in 0 .. Len(u) /\ Len(u) + 1 = Len(A)
  BY <1>4
<1>10. After(e, u, Len(u)) = After(d, A, Len(A))
  BY <1>4, <1>9
<1>11. /\ Prog(B) /\ Back(e, u, B, t)
       /\ r.mode = "do" => r.acks \subseteq Recorded(After(e, u, Len(u)).log)
  <2>1. /\ Prog(B) /\ Back(d, A, B, t)
        /\ r.mode = "do" => r.acks \subseteq Recorded(After(d, A, Len(A)).log)
    BY <1>1, <1>2 DEF Safe
  <2>2. Back(e, u, B, t)
    BY <1>4, <1>8, <2>1 DEF Back
  <2> QED
    BY <1>10, <2>1, <2>2
<1>12. Safe(e, s, t)
  <2>1. s.mode # "idle" /\ s.mode \in {"idle", "do", "undo"}
    BY <1>2, <1>3
  <2> QED
    BY <1>3, <1>4, <1>6, <1>11, <2>1 DEF Safe
<1>13. ASSUME Ends(d, r) PROVE Ends(e, s)
  <2>1. Tells(After(e, u, Len(u)))
    BY <1>1, <1>2, <1>10, <1>13 DEF Ends
  <2>2. ASSUME NEW n \in 0 .. Len(u) - 1
        PROVE  Tells(After(After(e, u, n), B, Len(B)))
    <3>1. Tells(After(After(d, A, n + 1), B, Len(B)))
      BY <1>1, <1>2, <1>8, <1>13 DEF Ends
    <3> QED
      BY <1>4, <1>8, <3>1
  <2> QED
    BY <1>3, <2>1, <2>2 DEF Ends
<1> QED
  BY <1>2, <1>3, <1>7, <1>12, <1>13

(* To begin the same writes again is to be further in them, or as far.     *)
LEMMA BegunAgain ==
  ASSUME NEW d, IsDisk(d), NEW B, Prog(B), NEW n \in 0 .. Len(B) - 1, NEW m \in 0 .. Len(B)
  PROVE  \E k \in 0 .. Len(B) : After(After(d, B, n), B, m) = After(d, B, k) /\ (m = Len(B) => k = m)
<1>1. Len(B) \in Nat /\ n \in 0 .. Len(B)
  BY ListedFacts DEF Prog
<1>2. CASE n = 0
  BY <1>2, AfterNone
<1>3. CASE n # 0
  <2>1. \A i \in 1 .. Len(B) : B[i].file # "append"
    <3>1. Len(B) # 1
      <4> SUFFICES ASSUME Len(B) = 1 PROVE FALSE
        OBVIOUS
      <4>1. n \in 0 .. 0
        OBVIOUS
      <4> QED
        BY <1>3, <4>1
    <3> QED
      BY <3>1 DEF Prog, Files
  <2>2. PICK k : k = IF n <= m THEN m ELSE n
    OBVIOUS
  <2>3. /\ k \in 0 .. Len(B) /\ (m = Len(B) => k = m)
        /\ \A i : i \in 1 .. k <=> i \in 1 .. n \/ i \in 1 .. m
        /\ \A i \in 1 .. k : i \in 1 .. Len(B)
    BY <1>1, <2>2
  <2>4. PICK a, b, c : a = After(d, B, n) /\ b = After(a, B, m) /\ c = After(d, B, k)
    OBVIOUS
  <2>5. ASSUME NEW f \in Files PROVE b[f] = c[f]
    <3>1. Holds(d, B, n, a, f) /\ Holds(a, B, m, b, f) /\ Holds(d, B, k, c, f)
      BY <1>1, <2>3, <2>4, AfterFile
    <3>2. CASE \E i \in 1 .. m : B[i].file = f
      BY <2>3, <3>1, <3>2 DEF Holds
    <3>3. CASE ~ \E i \in 1 .. m : B[i].file = f
      <4>1. b[f] = a[f]
        BY <2>1, <2>3, <3>1, <3>3 DEF Holds
      <4>2. CASE \E i \in 1 .. n : B[i].file = f
        BY <2>3, <3>1, <4>1, <4>2 DEF Holds
      <4>3. CASE ~ \E i \in 1 .. n : B[i].file = f
        BY <2>1, <2>3, <3>1, <3>3, <4>1, <4>3 DEF Holds
      <4> QED
        BY <4>2, <4>3
    <3> QED
      BY <3>2, <3>3
  <2>6. IsDisk(b) /\ IsDisk(c)
    BY <2>4, AfterIsDisk
  <2>7. b = c
    BY <2>5, <2>6 DEF IsDisk
  <2> QED
    BY <2>3, <2>4, <2>7
<1> QED
  BY <1>2, <1>3

(* A write that raises, in a command or in the first undoing of two.       *)
LEMMA RaiseSafe ==
  ASSUME NEW d, IsDisk(d), NEW r, NEW t, Safe(d, r, t), r.todo # <<>>, r.mode # "idle",
         NEW k, NEW s, s = Turned(r, r.undo, "undo", k)
  PROVE  Safe(d, s, t) /\ s.mode = "undo" /\ (Ends(d, r) => Ends(d, s))
<1>1. PICK A, B : A = r.todo /\ B = r.undo
  OBVIOUS
<1>2. Prog(A) /\ Prog(B) /\ Back(d, A, B, t) /\ IsProc(r) /\ A # <<>>
  BY <1>1 DEF Safe
<1>3. IsProc(s) /\ s.todo = B /\ s.undo = B /\ s.mode = "undo"
  BY <1>1, <1>2 DEF IsProc, Turned
<1>4. 0 \in 0 .. Len(A) - 1 /\ Len(B) \in 0 .. Len(B)
  <2>1. Len(A) \in Nat /\ Len(A) # 0 /\ Len(B) \in Nat
    BY <1>2, ListedFacts DEF Prog
  <2> QED
    BY <2>1
<1>5. After(d, A, 0) = d
  BY AfterNone
<1>6. Forward(d, B, t)
  <2>1. \A m \in 0 .. Len(B) : Good(After(After(d, A, 0), B, m), t)
    BY <1>2, <1>4 DEF Back
  <2> QED
    BY <1>5, <2>1 DEF Forward
<1>7. Back(d, B, B, t)
  <2> SUFFICES ASSUME NEW n \in 0 .. Len(B) - 1, NEW m \in 0 .. Len(B)
               PROVE  Good(After(After(d, B, n), B, m), t)
    BY DEF Back
  <2>1. PICK j \in 0 .. Len(B) : After(After(d, B, n), B, m) = After(d, B, j)
    BY <1>2, BegunAgain
  <2> QED
    BY <1>6, <2>1 DEF Forward
<1>8. Safe(d, s, t)
  BY <1>2, <1>3, <1>6, <1>7 DEF Safe
<1>9. ASSUME Ends(d, r) PROVE Ends(d, s)
  <2>1. Tells(After(After(d, A, 0), B, Len(B)))
    BY <1>1, <1>4, <1>9 DEF Ends
  <2>2. Tells(After(d, B, Len(B)))
    BY <1>5, <2>1
  <2>3. ASSUME NEW n \in 0 .. Len(B) - 1 PROVE Tells(After(After(d, B, n), B, Len(B)))
    <3>1. PICK m \in 0 .. Len(B) : m = Len(B)
      BY <1>4
    <3>2. PICK j \in 0 .. Len(B) : After(After(d, B, n), B, m) = After(d, B, j) /\ (m = Len(B) => j = m)
      BY <1>2, BegunAgain
    <3>3. After(After(d, B, n), B, Len(B)) = After(d, B, Len(B))
      BY <3>1, <3>2
    <3> QED
      BY <2>2, <3>3
  <2> QED
    BY <1>3, <2>2, <2>3 DEF Ends
<1> QED
  BY <1>3, <1>8, <1>9

(* A command that is over.                                                 *)
LEMMA ReturnSafe ==
  ASSUME NEW d, NEW t, Good(d, t), NEW r, Safe(d, r, t), r.mode # "idle", r.todo = <<>>
  PROVE  (r.mode = "do" => Good(d, t \cup r.acks)) /\ (Ends(d, r) => Tells(d))
<1>1. Len(r.todo) = 0 /\ IsDisk(d)
  BY DEF Good
<1>2. After(d, r.todo, Len(r.todo)) = d
  BY <1>1, AfterNone
<1>3. r.mode = "do" => Good(d, t \cup r.acks)
  BY <1>2 DEF Safe, Good, Fine
<1>4. Ends(d, r) => Tells(d)
  BY <1>2 DEF Ends
<1> QED
  BY <1>3, <1>4

(* What is left to show for a step of a process that takes turns.          *)
Alone(p) == \A q \in Processes \ {p} : proc[q].mode = "idle"

LEMMA Resumed ==
  ASSUME FilesInv, NEW p \in Processes, Alone(p), NEW r, proc' = [proc EXCEPT ![p] = r],
         Good(disk', told'), Safe(disk', r, told')
  PROVE  /\ FilesInv'
         /\ (~torn' => Ends(disk', r) /\ (r.mode = "idle" => Tells(disk'))) => StoryInv'
<1>1. DOMAIN proc' = Processes /\ proc'[p] = r /\ \A q \in Processes \ {p} : proc'[q] = proc[q]
  BY DEF FilesInv
<1>2. \A q \in Processes \ {p} : IsProc(proc[q]) /\ proc[q].mode = "idle" /\ proc[q].todo = <<>>
  BY DEF FilesInv, Alone, Safe
<1>3. \A q \in Processes \ {p} : Safe(disk', proc[q], told')
  BY <1>2, IdleSafe
<1>4. \A q \in Processes : Safe(disk', proc'[q], told')
  BY <1>1, <1>3
<1>5. \A q, o \in Processes : proc'[q].mode # "idle" /\ proc'[o].mode # "idle" => q = o
  BY <1>1, <1>2
<1>6. FilesInv'
  BY <1>1, <1>4, <1>5 DEF FilesInv
<1>7. ASSUME ~torn' => Ends(disk', r) /\ (r.mode = "idle" => Tells(disk')) PROVE StoryInv'
  <2>1. \A q \in Processes \ {p} : Ends(disk', proc'[q])
    BY <1>1, <1>2 DEF Ends
  <2>2. Quiet' => r.mode = "idle"
    BY <1>1 DEF Quiet
  <2> QED
    BY <1>1, <1>7, <2>1, <2>2 DEF StoryInv
<1> QED
  BY <1>6, <1>7

LEMMA BeginKeeps ==
  ASSUME FilesInv, NEW p \in Processes, Exclusive, Command(p)
  PROVE  FilesInv' /\ (Goals \cap Completed = {} /\ StoryInv => StoryInv')
<1>1. Good(disk, told)
  BY DEF FilesInv
<1>2. MayStart(p) /\ (Started(p, TRUE) \/ Started(p, FALSE))
  BY <1>1, CommandStarts
<1>3. PICK k \in BOOLEAN : Started(p, k)
  BY <1>2
<1>4. PICK A, B, acks : /\ Begin(p, A, B, k, acks)
                        /\ Lawful(A, B, acks)
                        /\ Tells(disk) /\ Goals \cap Completed = {} => Tidy(A, B)
  BY <1>3 DEF Started
<1>5. PICK r : r = [todo |-> A, undo |-> B, mode |-> "do", locked |-> k, acks |-> acks]
  OBVIOUS
<1>6. /\ proc' = [proc EXCEPT ![p] = r] /\ disk' = disk /\ told' = told /\ torn' = torn
  BY <1>4, <1>5 DEF Begin
<1>7. Safe(disk, r, told) /\ (Tidy(A, B) /\ Tells(disk) => Ends(disk, r))
  BY <1>4, <1>5, BeginSafe
<1>8. Alone(p) /\ Quiet
  BY <1>2 DEF MayStart, Alone, Quiet
<1>9. Good(disk', told') /\ Safe(disk', r, told')
  BY <1>1, <1>6, <1>7
<1>10. r.mode = "do"
  BY <1>5
<1>11. FilesInv' /\ ((~torn' => Ends(disk', r) /\ (r.mode = "idle" => Tells(disk'))) => StoryInv')
  BY <1>6, <1>8, <1>9, Resumed
<1>12. ASSUME Goals \cap Completed = {}, StoryInv PROVE ~torn' => Ends(disk', r)
  BY <1>4, <1>6, <1>7, <1>8, <1>12 DEF StoryInv
<1> QED
  BY <1>10, <1>11, <1>12

LEMMA OneAtATime ==
  ASSUME FilesInv, NEW p \in Processes, proc[p].mode # "idle"
  PROVE  Alone(p) /\ Safe(disk, proc[p], told) /\ Good(disk, told) /\ IsDisk(disk) /\ IsProc(proc[p])
         /\ (StoryInv /\ ~torn => Ends(disk, proc[p]))
BY DEF FilesInv, Alone, StoryInv, Good, Safe

(* What WriteNext and Raise make of a process.                             *)
Becomes(p, s) == proc' = [proc EXCEPT ![p] = s]

Writing(p, x, k) == proc' = [proc EXCEPT ![p].todo = x, ![p].locked = k]

Undoing(p, x) == proc' = [proc EXCEPT ![p].todo = x, ![p].mode = "undo"]

LEMMA WritingTurns ==
  ASSUME NEW p \in Processes, DOMAIN proc = Processes, NEW r, r = proc[p], IsProc(r), NEW x, NEW k,
         Writing(p, x, k)
  PROVE  Becomes(p, Turned(r, x, r.mode, k))
<1>1. PICK s, c : /\ s = [todo |-> x, undo |-> r.undo, mode |-> r.mode, locked |-> k, acks |-> r.acks]
                  /\ c = [todo |-> x, undo |-> r.undo, mode |-> r.mode, locked |-> r.locked, acks |-> r.acks]
  OBVIOUS
<1>2. Turned(r, x, r.mode, k) = s
  BY <1>1 DEF IsProc, Turned
<1>3. [r EXCEPT !.todo = x] = c /\ [c EXCEPT !.locked = k] = s
  <2>1. [r EXCEPT !.todo = x] = c
    BY <1>1 DEF IsProc
  <2>2. [c EXCEPT !.locked = k] = s
    BY <1>1
  <2> QED
    BY <2>1, <2>2
<1>4. PICK f : f = [proc EXCEPT ![p].todo = x]
  OBVIOUS
<1>5. f = [proc EXCEPT ![p] = c] /\ f[p] = c
  BY <1>3, <1>4
<1>6. proc' = [f EXCEPT ![p].locked = k]
  BY <1>4 DEF Writing
<1>7. proc' = [f EXCEPT ![p] = s]
  BY <1>3, <1>5, <1>6
<1>8. proc' = [proc EXCEPT ![p] = s]
  BY <1>5, <1>7
<1> QED
  BY <1>2, <1>8 DEF Becomes

LEMMA UndoingTurns ==
  ASSUME NEW p \in Processes, DOMAIN proc = Processes, NEW r, r = proc[p], IsProc(r), NEW x,
         Undoing(p, x)
  PROVE  Becomes(p, Turned(r, x, "undo", r.locked))
<1>1. PICK s, c : /\ s = [todo |-> x, undo |-> r.undo, mode |-> "undo", locked |-> r.locked, acks |-> r.acks]
                  /\ c = [todo |-> x, undo |-> r.undo, mode |-> r.mode, locked |-> r.locked, acks |-> r.acks]
  OBVIOUS
<1>2. Turned(r, x, "undo", r.locked) = s
  BY <1>1 DEF IsProc, Turned
<1>3. [r EXCEPT !.todo = x] = c /\ [c EXCEPT !.mode = "undo"] = s
  <2>1. [r EXCEPT !.todo = x] = c
    BY <1>1 DEF IsProc
  <2>2. [c EXCEPT !.mode = "undo"] = s
    BY <1>1
  <2> QED
    BY <2>1, <2>2
<1>4. PICK f : f = [proc EXCEPT ![p].todo = x]
  OBVIOUS
<1>5. f = [proc EXCEPT ![p] = c] /\ f[p] = c
  BY <1>3, <1>4
<1>6. proc' = [f EXCEPT ![p].mode = "undo"]
  BY <1>4 DEF Undoing
<1>7. proc' = [f EXCEPT ![p] = s]
  BY <1>3, <1>5, <1>6
<1>8. proc' = [proc EXCEPT ![p] = s]
  BY <1>5, <1>7
<1> QED
  BY <1>2, <1>8 DEF Becomes

LEMMA WriteKeeps ==
  ASSUME FilesInv, NEW p \in Processes, WriteNext(p)
  PROVE  FilesInv' /\ (StoryInv => StoryInv')
<1>1. PICK d, t, r, x, k : /\ d = disk /\ t = told /\ r = proc[p]
                           /\ x = Tail(r.todo) /\ k = (r.locked /\ InMutate(x))
  OBVIOUS
<1>2. PICK e, s : e = Put(d, Head(r.todo)) /\ s = Turned(r, x, r.mode, k)
  OBVIOUS
<1>3. /\ r.todo # <<>> /\ disk' = e /\ proc' = [proc EXCEPT ![p] = s] /\ told' = t /\ torn' = torn
  <2>1. Writing(p, x, k)
    BY <1>1 DEF WriteNext, FilesInv, Writing
  <2>2. DOMAIN proc = Processes /\ IsProc(r)
    BY <1>1 DEF FilesInv, Safe
  <2>3. Becomes(p, s)
    BY <1>1, <1>2, <2>1, <2>2, WritingTurns
  <2> QED
    BY <1>1, <1>2, <2>3 DEF WriteNext, Becomes
<1>4. r.mode # "idle"
  BY <1>1, <1>3 DEF FilesInv, Safe
<1>5. /\ Alone(p) /\ Safe(d, r, t) /\ IsDisk(d)
      /\ StoryInv /\ ~torn => Ends(d, r)
  BY <1>1, <1>4, OneAtATime
<1>6. Safe(e, s, t) /\ Good(e, t) /\ s.mode = r.mode /\ (Ends(d, r) => Ends(e, s))
  BY <1>1, <1>2, <1>3, <1>5, WriteSafe
<1>7. Good(disk', told') /\ Safe(disk', s, told')
  BY <1>3, <1>6
<1>8. FilesInv' /\ ((~torn' => Ends(disk', s) /\ (s.mode = "idle" => Tells(disk'))) => StoryInv')
  BY <1>3, <1>5, <1>7, Resumed
<1>9. ASSUME StoryInv PROVE ~torn' => Ends(disk', s) /\ s.mode # "idle"
  BY <1>3, <1>4, <1>5, <1>6, <1>9
<1> QED
  BY <1>8, <1>9

LEMMA IdleFacts == IsProc(Idle) /\ Idle.mode = "idle" /\ Idle.todo = <<>>
BY DEF Idle, IsProc

LEMMA ReturnKeeps ==
  ASSUME FilesInv, NEW p \in Processes, Return(p)
  PROVE  FilesInv' /\ (StoryInv => StoryInv')
<1>1. PICK d, t, r : d = disk /\ t = told /\ r = proc[p]
  OBVIOUS
<1>2. /\ r.mode # "idle" /\ r.todo = <<>> /\ disk' = d /\ proc' = [proc EXCEPT ![p] = Idle] /\ torn' = torn
      /\ told' = IF r.mode = "do" THEN t \cup r.acks ELSE t
  BY <1>1 DEF Return
<1>3. /\ Alone(p) /\ Safe(d, r, t) /\ Good(d, t) /\ IsDisk(d)
      /\ StoryInv /\ ~torn => Ends(d, r)
  BY <1>1, <1>2, OneAtATime
<1>4. (r.mode = "do" => Good(d, t \cup r.acks)) /\ (Ends(d, r) => Tells(d))
  BY <1>2, <1>3, ReturnSafe
<1>5. Good(disk', told')
  BY <1>2, <1>3, <1>4
<1>6. Safe(disk', Idle, told') /\ Ends(disk', Idle)
  BY IdleFacts DEF Safe, Ends
<1>7. FilesInv' /\ ((~torn' => Ends(disk', Idle) /\ (Idle.mode = "idle" => Tells(disk'))) => StoryInv')
  BY <1>2, <1>3, <1>5, <1>6, Resumed
<1>8. ASSUME StoryInv PROVE ~torn' => Tells(disk')
  BY <1>2, <1>3, <1>4, <1>8
<1> QED
  BY <1>6, <1>7, <1>8

(* A process that goes on to undo, after a write that raises.              *)
LEMMA RaisedProc ==
  ASSUME FilesInv, NEW p \in Processes, Raise(p), NEW r, r = proc[p], r.mode = "do" \/ UndoneAgain(r)
  PROVE  (\E k : Becomes(p, Turned(r, r.undo, "undo", k))) /\ torn' = torn
<1>1. DOMAIN proc = Processes /\ IsProc(r)
  BY DEF FilesInv, Safe
<1>2. PICK x : x = r.undo
  OBVIOUS
<1>3. CASE r.mode = "do"
  <2>1. Undoing(p, x) /\ torn' = torn
    BY <1>2, <1>3 DEF Raise, Undoing
  <2>2. Becomes(p, Turned(r, x, "undo", r.locked))
    BY <1>1, <2>1, UndoingTurns
  <2> QED
    BY <1>2, <2>1, <2>2
<1>4. CASE r.mode # "do"
  <2>1. PICK k : k = FALSE
    OBVIOUS
  <2>2. Writing(p, x, k) /\ torn' = torn /\ r.mode = "undo"
    BY <1>2, <1>4, <2>1 DEF Raise, Writing
  <2>3. Becomes(p, Turned(r, x, r.mode, k))
    BY <1>1, <2>2, WritingTurns
  <2> QED
    BY <1>2, <2>2, <2>3
<1> QED
  BY <1>3, <1>4

LEMMA RaiseKeeps ==
  ASSUME FilesInv, NEW p \in Processes, Raise(p)
  PROVE  FilesInv' /\ (StoryInv => StoryInv')
<1>1. PICK d, t, r : d = disk /\ t = told /\ r = proc[p]
  OBVIOUS
<1>2. r.todo # <<>> /\ disk' = d /\ told' = t /\ p \in DOMAIN proc
  BY <1>1 DEF Raise, FilesInv
<1>3. r.mode # "idle"
  BY <1>1, <1>2 DEF FilesInv, Safe
<1>4. /\ Alone(p) /\ Safe(d, r, t) /\ Good(d, t) /\ IsDisk(d)
      /\ StoryInv /\ ~torn => Ends(d, r)
  BY <1>1, <1>3, OneAtATime
<1>5. ASSUME NEW k, NEW s, s = Turned(r, r.undo, "undo", k),
             Becomes(p, s), torn' = torn
      PROVE  FilesInv' /\ (StoryInv => StoryInv')
  <2>1. Safe(d, s, t) /\ s.mode = "undo" /\ (Ends(d, r) => Ends(d, s))
    BY <1>2, <1>3, <1>4, <1>5, RaiseSafe
  <2>2. Good(disk', told') /\ Safe(disk', s, told')
    BY <1>2, <1>4, <2>1
  <2>3. FilesInv' /\ ((~torn' => Ends(disk', s) /\ (s.mode = "idle" => Tells(disk'))) => StoryInv')
    BY <1>4, <1>5, <2>2, Resumed DEF Becomes
  <2>4. ASSUME StoryInv PROVE ~torn' => Ends(disk', s) /\ s.mode # "idle"
    BY <1>2, <1>4, <1>5, <2>1, <2>4
  <2> QED
    BY <2>3, <2>4
<1>6. CASE (r.mode = "do" \/ UndoneAgain(r))
  <2>1. PICK k : Becomes(p, Turned(r, r.undo, "undo", k)) /\ torn' = torn
    BY <1>1, <1>6, RaisedProc
  <2>2. PICK s : s = Turned(r, r.undo, "undo", k)
    OBVIOUS
  <2> QED
    BY <1>5, <2>1, <2>2
<1>7. CASE ~(r.mode = "do" \/ UndoneAgain(r))
  <2>1. proc' = [proc EXCEPT ![p] = Idle] /\ torn' = TRUE
    BY <1>1, <1>7 DEF Raise
  <2>2. Good(disk', told') /\ Safe(disk', Idle, told')
    BY <1>2, <1>4, IdleFacts DEF Safe
  <2> QED
    BY <1>4, <2>1, <2>2, Resumed
<1> QED
  BY <1>6, <1>7

LEMMA DieKeeps ==
  ASSUME FilesInv, NEW p \in Processes, Die(p)
  PROVE  FilesInv' /\ (StoryInv => StoryInv')
<1>1. /\ proc[p].mode # "idle" /\ proc' = [proc EXCEPT ![p] = Idle] /\ torn' = TRUE
      /\ disk' = disk /\ told' = told
  BY DEF Die
<1>2. Alone(p) /\ Good(disk, told)
  BY <1>1, OneAtATime
<1>3. Good(disk', told') /\ Safe(disk', Idle, told')
  BY <1>1, <1>2, IdleFacts DEF Safe
<1> QED
  BY <1>1, <1>2, <1>3, Resumed

LEMMA StepKeeps ==
  ASSUME FilesInv, Exclusive, [Next]_vars
  PROVE  FilesInv' /\ (Goals \cap Completed = {} /\ StoryInv => StoryInv')
<1>1. CASE Next
  <2>1. PICK p \in Processes : Command(p) \/ WriteNext(p) \/ Return(p) \/ Raise(p) \/ Die(p)
    BY <1>1 DEF Next
  <2> QED
    BY <2>1, BeginKeeps, WriteKeeps, ReturnKeeps, RaiseKeeps, DieKeeps
<1>2. CASE UNCHANGED vars
  BY <1>2 DEF vars, FilesInv, StoryInv, Quiet
<1> QED
  BY <1>1, <1>2

(* What is left to write keeps to the evidence.                            *)
LEMMA EvidenceFollows ==
  ASSUME EvidenceInv, FilesInv, NEW p \in Processes, Alone(p), NEW r, proc' = [proc EXCEPT ![p] = r],
         Backs(disk'.questions, disk'.log), r.mode # "idle" => Backed(disk', r.todo, r.undo)
  PROVE  EvidenceInv'
<1>1. proc'[p] = r /\ \A q \in Processes \ {p} : proc'[q] = proc[q] /\ proc[q].mode = "idle"
  BY DEF FilesInv, Alone
<1> QED
  BY <1>1 DEF EvidenceInv

LEMMA EvidenceKept ==
  ASSUME FilesInv, EvidenceInv, Exclusive, [Next]_vars
  PROVE  EvidenceInv'
<1>1. ASSUME NEW p \in Processes, Command(p) PROVE EvidenceInv'
  <2>1. Good(disk, told) /\ Backs(disk.questions, disk.log)
    BY DEF FilesInv, EvidenceInv
  <2>2. MayStart(p) /\ \E k : Started(p, k)
    BY <1>1, <2>1, CommandStarts
  <2>3. PICK k : Started(p, k)
    BY <2>2
  <2>4. PICK A, B, acks : Begin(p, A, B, k, acks) /\ (Backs(disk.questions, disk.log) => Backed(disk, A, B))
    BY <2>3 DEF Started
  <2>5. PICK r : r = [todo |-> A, undo |-> B, mode |-> "do", locked |-> k, acks |-> acks]
    OBVIOUS
  <2>6. proc' = [proc EXCEPT ![p] = r] /\ disk' = disk /\ r.todo = A /\ r.undo = B
    BY <2>4, <2>5 DEF Begin
  <2>7. Alone(p)
    BY <2>2 DEF MayStart, Alone
  <2> QED
    BY <2>1, <2>4, <2>6, <2>7, EvidenceFollows
<1>2. ASSUME NEW p \in Processes, WriteNext(p) PROVE EvidenceInv'
  <2>1. PICK d, r, x, k : d = disk /\ r = proc[p] /\ x = Tail(r.todo) /\ k = (r.locked /\ InMutate(x))
    OBVIOUS
  <2>2. PICK e, s : e = Put(d, Head(r.todo)) /\ s = Turned(r, x, r.mode, k)
    OBVIOUS
  <2>3. r.todo # <<>> /\ disk' = e /\ proc' = [proc EXCEPT ![p] = s]
    <3>1. Writing(p, x, k)
      BY <1>2, <2>1 DEF WriteNext, FilesInv, Writing
    <3>2. DOMAIN proc = Processes /\ IsProc(r)
      BY <2>1 DEF FilesInv, Safe
    <3>3. Becomes(p, s)
      BY <2>1, <2>2, <3>1, <3>2, WritingTurns
    <3> QED
      BY <1>2, <2>1, <2>2, <3>3 DEF WriteNext, Becomes
  <2>4. r.mode # "idle"
    BY <2>1, <2>3 DEF FilesInv, Safe
  <2>5. Alone(p) /\ Prog(r.todo) /\ IsDisk(d) /\ IsProc(r)
    BY <2>1, <2>4, OneAtATime DEF Safe
  <2>6. s.todo = Tail(r.todo) /\ s.undo = r.undo
    BY <2>1, <2>2, <2>5 DEF IsProc, Turned
  <2>7. Writes(d, r.todo, s.todo, e) /\ Backed(d, r.todo, r.undo)
    BY <2>1, <2>2, <2>3, <2>4, <2>5, <2>6 DEF Writes, EvidenceInv
  <2>8. Backed(e, s.todo, r.undo) /\ Backs(e.questions, e.log)
    BY <2>7, WriteBacked
  <2>9. Backs(disk'.questions, disk'.log) /\ Backed(disk', s.todo, s.undo)
    BY <2>3, <2>6, <2>8
  <2> QED
    BY <2>3, <2>5, <2>9, EvidenceFollows
<1>3. ASSUME NEW p \in Processes, Raise(p), proc[p].mode = "do" \/ UndoneAgain(proc[p]) PROVE EvidenceInv'
  <2>1. PICK r : r = proc[p]
    OBVIOUS
  <2>2. PICK k : Becomes(p, Turned(r, r.undo, "undo", k))
    BY <1>3, <2>1, RaisedProc
  <2>3. PICK s : s = Turned(r, r.undo, "undo", k)
    OBVIOUS
  <2>4. r.mode # "idle" /\ disk' = disk
    BY <1>3, <2>1 DEF Raise, FilesInv, Safe
  <2>5. Alone(p) /\ IsProc(r)
    BY <2>1, <2>4, OneAtATime
  <2>6. s.todo = r.undo /\ s.undo = r.undo
    BY <2>3, <2>5 DEF IsProc, Turned
  <2>7. Backs(disk.questions, disk.log) /\ Backed(disk, r.todo, r.undo)
    BY <2>1, <2>4 DEF EvidenceInv
  <2>8. Backed(disk, r.undo, r.undo)
    BY <2>7, RaiseBacked
  <2> QED
    BY <2>2, <2>3, <2>4, <2>5, <2>6, <2>7, <2>8, EvidenceFollows DEF Becomes
<1>4. ASSUME NEW p \in Processes, proc[p].mode # "idle", proc' = [proc EXCEPT ![p] = Idle], disk' = disk
      PROVE  EvidenceInv'
  <2>1. Alone(p) /\ Backs(disk'.questions, disk'.log)
    BY <1>4, OneAtATime DEF EvidenceInv
  <2> QED
    BY <1>4, <2>1, IdleFacts, EvidenceFollows
<1>5. ASSUME NEW p \in Processes, Return(p) \/ Die(p) \/ (Raise(p) /\ ~(proc[p].mode = "do" \/ UndoneAgain(proc[p])))
      PROVE  EvidenceInv'
  <2>1. proc[p].mode # "idle"
    BY <1>5 DEF Return, Die, Raise, FilesInv, Safe
  <2>2. proc' = [proc EXCEPT ![p] = Idle] /\ disk' = disk
    BY <1>5 DEF Return, Die, Raise
  <2> QED
    BY <1>4, <2>1, <2>2
<1>6. CASE UNCHANGED vars
  BY <1>6 DEF vars, EvidenceInv
<1> QED
  BY <1>1, <1>2, <1>3, <1>5, <1>6 DEF Next

-----------------------------------------------------------------------------
(* The theorems.                                                           *)

LEMMA FilesInvHolds ==
  ASSUME Exclusive
  PROVE  Spec => []FilesInv
<1>1. Init => FilesInv
  BY InitKeeps
<1>2. FilesInv /\ [Next]_vars => FilesInv'
  BY StepKeeps
<1> QED
  BY <1>1, <1>2, PTL DEF Spec

LEMMA StoryInvHolds ==
  ASSUME Exclusive, Goals \cap Completed = {}
  PROVE  Spec => []StoryInv
<1>1. Init => FilesInv /\ StoryInv
  BY InitKeeps
<1>2. FilesInv /\ StoryInv /\ [Next]_vars => FilesInv' /\ StoryInv'
  BY StepKeeps
<1> QED
  BY <1>1, <1>2, PTL DEF Spec

(* Through retries after deaths and undone commands, no event ID occurs    *)
(* twice, no search request has two records, and no question is decided    *)
(* twice, for any questions, requests and numbers of deaths and failures.  *)
THEOREM NothingIsWrittenTwice ==
  ASSUME Exclusive
  PROVE  Spec => []NothingTwice
<1>1. FilesInv => NothingTwice
  <2> SUFFICES ASSUME FilesInv, NEW i \in DOMAIN disk.log, NEW j \in DOMAIN disk.log, i # j
               PROVE  /\ disk.log[i].id # disk.log[j].id
                      /\ ~(/\ disk.log[i].type = "STOPPING_DECISION"
                           /\ disk.log[j].type = "STOPPING_DECISION" /\ disk.log[i].q = disk.log[j].q)
                      /\ ~(/\ disk.log[i].id[1] = "SEARCH" /\ disk.log[j].id[1] = "SEARCH"
                           /\ disk.log[i].id[2].id = disk.log[j].id[2].id)
    BY DEF NothingTwice
  <2>1. Apart(disk.log[i], disk.log[j])
    BY DEF FilesInv, Good, Fine
  <2> QED
    BY <2>1 DEF Apart
<1> QED
  BY <1>1, FilesInvHolds, PTL

(* A search whose recording returned stays in the log, whichever commands  *)
(* are undone or die later (record_search_requests: "durably record").     *)
THEOREM SearchesAreDurable ==
  ASSUME Exclusive
  PROVE  Spec => []SearchDurable
<1>1. FilesInv => SearchDurable
  BY DEF FilesInv, Good, Fine, SearchDurable
<1> QED
  BY <1>1, FilesInvHolds, PTL

(* The log never tells of an operation of the task runtime that the state  *)
(* has not, wherever a process dies in _mutate, has to undo it, or takes a *)
(* human's answer back; only of an answer itself may it tell too early.    *)
THEOREM LogIsBehind ==
  ASSUME Exclusive
  PROVE  Spec => []TaskLogBehind
<1>1. FilesInv => TaskLogBehind
  <2> SUFFICES ASSUME FilesInv, NEW i \in DOMAIN disk.log, disk.log[i].type = "TASK"
               PROVE  disk.log[i].val <= disk.state.rev
    BY DEF TaskLogBehind
  <2>1. Sound(disk.log[i], disk.state.rev, disk.questions)
    BY DEF FilesInv, Good, Fine
  <2> QED
    BY <2>1 DEF Sound
<1> QED
  BY <1>1, FilesInvHolds, PTL

(* Between commands the manifest, the state and the replayed log name the  *)
(* same status, the state's last event is in the log, and a completed      *)
(* project has a report that says so, whatever was undone on the way; when *)
(* only completion closes a project, and unless a command was cut short.   *)
THEOREM OneStatusIsTold ==
  ASSUME Exclusive, Goals \cap Completed = {}
  PROVE  Spec => []FilesTellOneStatus
<1>1. StoryInv => FilesTellOneStatus
  BY DEF StoryInv, FilesTellOneStatus, Tells
<1> QED
  BY <1>1, StoryInvHolds, PTL

(* No question is closed unless the log, up to some point, had reached a   *)
(* limit, and as ANSWERED only with enough answers (apply_project), for    *)
(* any questions, events and limits, and wherever a command dies between   *)
(* the register and the log or has to put them back.                       *)
THEOREM ClosedOnlyOnEvidence ==
  ASSUME Exclusive
  PROVE  Spec => []ClosedOnEvidence
<1>1. Init => FilesInv /\ EvidenceInv
  <2> SUFFICES ASSUME Init PROVE EvidenceInv
    BY InitKeeps
  <2>1. \A q \in Questions : disk.questions[q] = "OPEN"
    BY DEF Init
  <2>2. \A p \in Processes : proc[p].mode = "idle"
    BY IdleFacts DEF Init
  <2> QED
    BY <2>1, <2>2 DEF EvidenceInv, Backs
<1>2. FilesInv /\ EvidenceInv /\ [Next]_vars => FilesInv' /\ EvidenceInv'
  BY StepKeeps, EvidenceKept
<1>3. EvidenceInv => ClosedOnEvidence
  BY DEF EvidenceInv, Backs, ClosedOnEvidence
<1> QED
  BY <1>1, <1>2, <1>3, PTL DEF Spec
=============================================================================
