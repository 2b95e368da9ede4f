------------------------- MODULE ElementEngine_proofs -------------------------
(***************************************************************************)
(* Proofs about ElementEngine, for any numbers of questions, strategies,   *)
(* attempts and edits and any pages: what a command leaves in the files    *)
(* wherever it dies, what becomes of files that somebody else edits, that  *)
(* no accepted answer is lost to a later walk of the schedule, that every  *)
(* search is logged before it is asked for, and how attempts are charged.  *)
(*                                                                         *)
(* The schedule is one long computation over sequences.  What is proved of *)
(* it is one relation, Leads, between the walks over two sets of answers   *)
(* of which the second extends the first: it holds of each piece of the    *)
(* walk, of pieces one after the other (ThenLeads) and of a loop whose     *)
(* turns have it (TurnsLead, by counting the turns).                       *)
(***************************************************************************)
EXTENDS ElementEngine, FiniteSetTheorems, WellFoundedInduction, TLAPS

-----------------------------------------------------------------------------
(* What holds of 0 and passes from each number to the next holds of all    *)
(* numbers: a smallest one it did not hold of would have a predecessor.    *)
LEMMA Counting ==
  ASSUME NEW T, 0 \in T, \A n \in Nat : n \in T => n + 1 \in T
  PROVE  Nat \subseteq T
<1> DEFINE R == OpToRel(<, Nat)
           S == Nat \ T
<1>1. \A x, y \in Nat : x < y => <<x, y>> \in R
  BY DEF OpToRel
<1>2. IsWellFoundedOn(R, Nat)
  BY NatLessThanWellFounded
<1> HIDE DEF R
<1> SUFFICES ASSUME S # {} PROVE FALSE
  OBVIOUS
<1>3. PICK x \in S : \A y \in S : ~(<<y, x>> \in R)
  BY <1>2, WFMin
<1>4. x \in Nat /\ x # 0
  OBVIOUS
<1>5. x - 1 \in Nat /\ x - 1 < x
  BY <1>4
<1>6. x - 1 \notin S
  BY <1>1, <1>3, <1>4, <1>5
<1>7. (x - 1) + 1 \in T
  BY <1>5, <1>6
<1> QED
  BY <1>3, <1>4, <1>7

IsSeq(x) == \E S : x \in Seq(S)

LEMMA SeqFacts ==
  ASSUME NEW x, IsSeq(x)
  PROVE  Len(x) \in Nat /\ DOMAIN x = 1 .. Len(x)
BY DEF IsSeq

LEMMA Appended ==
  ASSUME NEW x, IsSeq(x), NEW e
  PROVE  /\ IsSeq(Append(x, e)) /\ Len(Append(x, e)) = Len(x) + 1
         /\ \A i \in DOMAIN x : Append(x, e)[i] = x[i]
         /\ Append(x, e)[Len(x) + 1] = e
<1>1. PICK S : x \in Seq(S)
  BY DEF IsSeq
<1> DEFINE T == S \cup {e}
<1>2. x \in Seq(T) /\ e \in T
  BY <1>1
<1> HIDE DEF T
<1>3. /\ Append(x, e) \in Seq(T) /\ Len(Append(x, e)) = Len(x) + 1
      /\ \A i \in 1 .. Len(x) : Append(x, e)[i] = x[i]
      /\ Append(x, e)[Len(x) + 1] = e
  BY <1>2
<1> QED
  BY <1>2, <1>3 DEF IsSeq

LEMMA UptoFacts ==
  ASSUME NEW n \in Int
  PROVE  /\ Len(Upto(n)) \in Nat
         /\ \A i \in 1 .. Len(Upto(n)) : Upto(n)[i] = i
<1>1. CASE n \in Nat
  <2>1. Upto(n) \in [1 .. n -> Int]
    BY DEF Upto
  <2>2. Upto(n) \in Seq(Int)
    BY <1>1, <2>1
  <2> QED
    BY <1>1, <2>1, <2>2 DEF Upto
<1>2. CASE n \notin Nat
  <2>1. 1 .. n = 1 .. 0
    BY <1>2
  <2>2. Upto(n) \in [1 .. 0 -> Int]
    BY <2>1 DEF Upto
  <2>3. Upto(n) \in Seq(Int)
    BY <2>2
  <2> QED
    BY <2>1, <2>2, <2>3
<1> QED
  BY <1>1, <1>2

-----------------------------------------------------------------------------
WalkFields == {"pending", "visited", "events", "rows", "seen", "found", "dry", "fetched", "reason",
               "excerpts", "claims"}

Walk(w) ==
  /\ w = [x \in WalkFields |-> w[x]]
  /\ w.fetched \in Nat /\ IsFiniteSet(w.seen)
  /\ IsSeq(w.excerpts) /\ IsSeq(w.claims)

Asking(e) == <<"SEARCH_ATTEMPT", <<"query", e[2], e[3]>>>>

(* A walk over the answers of s has passed settled elements only, and what *)
(* it stops at is not settled; before a search it has logged the query.    *)
Good(s, w) ==
  /\ Walk(w)
  /\ \A e \in w.visited : Settled(s, e)
  /\ ~Open(w) => /\ ~Settled(s, w.pending)
                 /\ w.pending[1] = "search" => Asking(w.pending) \in w.events

Grown(v, w) == v.visited \subseteq w.visited /\ v.events \subseteq w.events

(* The walks a and b over the answers of s and of t, which knows more:     *)
(* they part where a stops, and b goes on from there.                      *)
Leads(s, t, w, a, b) ==
  /\ Good(s, a) /\ Good(t, b)
  /\ Grown(w, a) /\ Grown(a, b)
  /\ Open(a) => b = a
  /\ ~Open(a) /\ Settled(t, a.pending) => a.pending \in b.visited

Known(ledger, url) == \E j \in DOMAIN ledger : ledger[j].url = url
Pinned(ledger) ==
  /\ IsSeq(ledger)
  /\ \A i, j \in DOMAIN ledger : ledger[i].url = ledger[j].url => i = j

Sound(s) ==
  /\ DOMAIN s.answers \cap s.abandoned = {}
  /\ \A e \in s.abandoned : Abandonable(e)
  /\ Pinned(s.ledger)
  /\ \A e \in DOMAIN s.answers : e[1] = "search" =>
        IsSeq(s.answers[e]) /\ \A i \in DOMAIN s.answers[e] : Known(s.ledger, s.answers[e][i].url)

Longer(l, k) == \A i \in DOMAIN l : i \in DOMAIN k /\ k[i] = l[i]

Extends(s, t) ==
  /\ Sound(s) /\ Sound(t)
  /\ DOMAIN s.answers \subseteq DOMAIN t.answers /\ s.abandoned \subseteq t.abandoned
  /\ \A e \in DOMAIN s.answers : t.answers[e] = s.answers[e]
  /\ Longer(s.ledger, t.ledger)

LEMMA ExtendsItself ==
  ASSUME NEW s, NEW t, Extends(s, t)
  PROVE  Extends(s, s) /\ Extends(t, t)
BY DEF Extends, Longer

LEMMA SettledGrows ==
  ASSUME NEW s, NEW t, Extends(s, t), NEW e, Settled(s, e)
  PROVE  Settled(t, e)
BY DEF Extends, Settled

LEMMA GoodAlso ==
  ASSUME NEW s, NEW t, Extends(s, t), NEW w, Good(s, w), Open(w)
  PROVE  Good(t, w)
BY SettledGrows DEF Good

(* Nothing is done to a walk, or what depends on no answer.                *)
LEMMA LocalLeads ==
  ASSUME NEW s, NEW t, Extends(s, t), NEW w, Good(s, w), Open(w),
         NEW c, Walk(c), Open(c), Grown(w, c), \A e \in c.visited : Settled(s, e)
  PROVE  Leads(s, t, w, c, c)
BY SettledGrows DEF Leads, Good, Grown

(* Two stretches of the walk.                                              *)
LEMMA ThenLeads ==
  ASSUME NEW s, NEW t, NEW w, NEW a, NEW b, Leads(s, t, w, a, b),
         NEW c, NEW d,
         Open(a) => Leads(s, t, a, c, d), ~Open(a) => c = a,
         Open(b) => Leads(t, t, b, d, d), ~Open(b) => d = b
  PROVE  Leads(s, t, w, c, d)
BY DEF Leads, Grown

LEMMA YieldLeads ==
  ASSUME NEW s, NEW t, Extends(s, t), NEW w, Good(s, w), Open(w),
         NEW e, e # NoElement, e[1] = "search" => Asking(e) \in w.events
  PROVE  /\ Leads(s, t, w, Yield(s, w, e), Yield(t, w, e))
         /\ Open(Yield(s, w, e)) => Settled(s, e)
<1> DEFINE v == [w EXCEPT !.visited = w.visited \cup {e}]
           p == [w EXCEPT !.pending = e]
<1>1. DOMAIN w = WalkFields /\ Walk(w)
  BY DEF Good, Walk
<1>2. /\ Walk(v) /\ v.visited = w.visited \cup {e} /\ v.pending = w.pending /\ v.events = w.events
  BY <1>1 DEF Walk, WalkFields
<1>3. /\ Walk(p) /\ p.visited = w.visited /\ p.pending = e /\ p.events = w.events
  BY <1>1 DEF Walk, WalkFields
<1>4. /\ Yield(s, w, e) = IF Settled(s, e) THEN v ELSE p
      /\ Yield(t, w, e) = IF Settled(t, e) THEN v ELSE p
  BY DEF Yield
<1>5. /\ Settled(s, e) => Settled(t, e)
      /\ \A x \in w.visited : Settled(s, x) /\ Settled(t, x)
  BY SettledGrows DEF Good
<1> HIDE DEF v, p
<1> QED
  BY <1>2, <1>3, <1>4, <1>5 DEF Leads, Good, Grown, Open

LEMMA GrownLeads ==
  ASSUME NEW s, NEW t, NEW w, NEW v, Grown(w, v), NEW a, NEW b, Leads(s, t, v, a, b)
  PROVE  Leads(s, t, w, a, b)
BY DEF Leads, Grown

(* What the walk writes down.                                              *)
LEMMA EventFacts ==
  ASSUME NEW w, Walk(w), NEW kind, NEW e, NEW c, c = Event(w, kind, e)
  PROVE  /\ Walk(c) /\ Grown(w, c) /\ c.pending = w.pending /\ c.visited = w.visited
         /\ c.events = w.events \cup {<<kind, e>>}
<1>1. c = [w EXCEPT !.events = w.events \cup {<<kind, e>>}] /\ DOMAIN w = WalkFields
  BY DEF Event, Walk
<1>2. /\ c = [x \in WalkFields |-> c[x]] /\ c.events = w.events \cup {<<kind, e>>}
      /\ \A x \in WalkFields \ {"events"} : c[x] = w[x]
  BY <1>1 DEF Walk, WalkFields
<1> QED
  BY <1>2 DEF Walk, WalkFields, Grown

LEMMA RowFacts ==
  ASSUME NEW w, Walk(w), NEW row, NEW c, c = Row(w, row)
  PROVE  Walk(c) /\ Grown(w, c) /\ c.pending = w.pending /\ c.visited = w.visited
<1>1. c = [w EXCEPT !.rows = w.rows \cup {row}] /\ DOMAIN w = WalkFields
  BY DEF Row, Walk
<1>2. c = [x \in WalkFields |-> c[x]] /\ \A x \in WalkFields \ {"rows"} : c[x] = w[x]
  BY <1>1 DEF Walk, WalkFields
<1> QED
  BY <1>2 DEF Walk, WalkFields, Grown

LEMMA RowLeads ==
  ASSUME NEW s, NEW t, Extends(s, t), NEW w, Good(s, w), Open(w), NEW row
  PROVE  Leads(s, t, w, Row(w, row), Row(w, row))
<1>1. PICK c : c = Row(w, row)
  OBVIOUS
<1>2. Walk(c) /\ Grown(w, c) /\ c.pending = w.pending /\ c.visited = w.visited
  BY <1>1, RowFacts DEF Good
<1>3. Leads(s, t, w, c, c)
  BY <1>2, LocalLeads DEF Good, Open
<1> QED
  BY <1>1, <1>3

LEMMA EventLeads ==
  ASSUME NEW s, NEW t, Extends(s, t), NEW w, Good(s, w), Open(w), NEW kind, NEW e
  PROVE  Leads(s, t, w, Event(w, kind, e), Event(w, kind, e))
<1>1. PICK c : c = Event(w, kind, e)
  OBVIOUS
<1>2. Walk(c) /\ Grown(w, c) /\ c.pending = w.pending /\ c.visited = w.visited
  BY <1>1, EventFacts DEF Good
<1>3. Leads(s, t, w, c, c)
  BY <1>2, LocalLeads DEF Good, Open
<1> QED
  BY <1>1, <1>3

LEMMA SkipLeads ==
  ASSUME NEW s, NEW t, Extends(s, t), NEW w, Good(s, w), Open(w), NEW e, Settled(s, e)
  PROVE  Leads(s, t, w, Skip(w, e), Skip(w, e))
<1> DEFINE v == [w EXCEPT !.visited = w.visited \cup {e}]
<1>1. PICK c : c = Skip(w, e)
  OBVIOUS
<1>2. DOMAIN w = WalkFields /\ Walk(w)
  BY DEF Good, Walk
<1>3. /\ Walk(v) /\ v.visited = w.visited \cup {e} /\ v.pending = w.pending /\ v.events = w.events
  BY <1>2 DEF Walk, WalkFields
<1>4. c = Event(v, "ELEMENT_ABANDONED", e)
  BY <1>1 DEF Skip
<1> HIDE DEF v
<1>5. Walk(c) /\ Grown(v, c) /\ c.pending = v.pending /\ c.visited = v.visited
  BY <1>3, <1>4, EventFacts
<1>6. Grown(w, c) /\ Open(c) /\ \A x \in c.visited : Settled(s, x)
  BY <1>3, <1>5 DEF Grown, Open, Good
<1> QED
  BY <1>1, <1>5, <1>6, LocalLeads

LEMMA QuoteLeads ==
  ASSUME NEW s, NEW t, Extends(s, t), NEW w, Good(s, w), Open(w), NEW q, NEW body,
         NEW excerpt \in DOMAIN s.answers
  PROVE  Leads(s, t, w, Quote(s, w, q, body, excerpt), Quote(t, w, q, body, excerpt))
<1> DEFINE quote == [q |-> q, body |-> body, quote |-> s.answers[excerpt]]
           x == Append(w.excerpts, quote)
           v == [w EXCEPT !.excerpts = x, !.found = w.found \cup {body}]
           r == Row(v, <<"evidence", q, body>>)
           c == Event(r, "ANSWER_FOUND", excerpt)
<1>1. t.answers[excerpt] = s.answers[excerpt]
  BY DEF Extends
<1>2. Quote(s, w, q, body, excerpt) = c /\ Quote(t, w, q, body, excerpt) = c
  BY <1>1 DEF Quote
<1>3. DOMAIN w = WalkFields /\ Walk(w)
  BY DEF Good, Walk
<1>4. IsSeq(x)
  BY <1>3, Appended DEF Walk
<1> HIDE DEF x
<1>5. Walk(v) /\ v.visited = w.visited /\ v.pending = w.pending /\ v.events = w.events
  BY <1>3, <1>4 DEF Walk, WalkFields
<1> HIDE DEF v
<1>6. Walk(r) /\ Grown(v, r) /\ r.pending = v.pending /\ r.visited = v.visited
  BY <1>5, RowFacts
<1> HIDE DEF r
<1>7. Walk(c) /\ Grown(r, c) /\ c.pending = r.pending /\ c.visited = r.visited
  BY <1>6, EventFacts
<1> HIDE DEF c
<1>8. Grown(w, c) /\ Open(c) /\ \A e \in c.visited : Settled(s, e)
  BY <1>5, <1>6, <1>7 DEF Grown, Open, Good
<1> QED
  BY <1>2, <1>7, <1>8, LocalLeads

LEMMA AskQuestionLeads ==
  ASSUME NEW s, NEW t, Extends(s, t), NEW w, Good(s, w), Open(w), NEW q
  PROVE  Leads(s, t, w, AskQuestion(s, w, q), AskQuestion(t, w, q))
<1> DEFINE e == <<"question", q, 0>>
           a == Yield(s, w, e)
           b == Yield(t, w, e)
           c == IF Open(a) THEN Row(a, e) ELSE a
           d == IF Open(b) THEN Row(b, e) ELSE b
<1>1. e # NoElement /\ e[1] # "search"
  BY DEF NoElement
<1> HIDE DEF e
<1>2. Leads(s, t, w, a, b)
  BY <1>1, YieldLeads
<1>3. AskQuestion(s, w, q) = c /\ AskQuestion(t, w, q) = d
  BY DEF AskQuestion, Then, e
<1> HIDE DEF a, b
<1>4. ASSUME Open(a) PROVE Leads(s, t, a, c, d)
  BY <1>2, <1>4, RowLeads DEF Leads
<1>5. ASSUME Open(b) PROVE Leads(t, t, b, d, d)
  BY <1>2, <1>5, RowLeads, ExtendsItself DEF Leads
<1> QED
  BY <1>2, <1>3, <1>4, <1>5, ThenLeads

(* A source: what follows the quote, and what follows the judgement.       *)
Excerpted(s, v, q, body, excerpt) ==
  IF excerpt \in s.abandoned THEN Skip(v, excerpt) ELSE Quote(s, v, q, body, excerpt)

Rated(s, v, q, body, relevance, excerpt) ==
  IF relevance \in s.abandoned THEN Skip(v, relevance)
  ELSE IF s.answers[relevance] = "no" THEN v
  ELSE IF Open(Yield(s, v, excerpt)) THEN Excerpted(s, Yield(s, v, excerpt), q, body, excerpt)
  ELSE Yield(s, v, excerpt)

LEMMA ExcerptedLeads ==
  ASSUME NEW s, NEW t, Extends(s, t), NEW w, Good(s, w), Open(w), NEW q, NEW body,
         NEW excerpt, Settled(s, excerpt)
  PROVE  Leads(s, t, w, Excerpted(s, w, q, body, excerpt), Excerpted(t, w, q, body, excerpt))
<1>1. CASE excerpt \in s.abandoned
  <2>1. excerpt \in t.abandoned
    BY <1>1 DEF Extends
  <2> QED
    BY <1>1, <2>1, SkipLeads DEF Excerpted
<1>2. CASE excerpt \notin s.abandoned
  <2>1. excerpt \in DOMAIN s.answers
    BY <1>2 DEF Settled
  <2>2. excerpt \notin t.abandoned
    BY <2>1 DEF Extends, Sound
  <2> QED
    BY <1>2, <2>1, <2>2, QuoteLeads DEF Excerpted
<1> QED
  BY <1>1, <1>2

LEMMA RatedLeads ==
  ASSUME NEW s, NEW t, Extends(s, t), NEW w, Good(s, w), Open(w), NEW q, NEW body,
         NEW relevance, Settled(s, relevance), NEW excerpt, excerpt # NoElement, excerpt[1] # "search"
  PROVE  Leads(s, t, w, Rated(s, w, q, body, relevance, excerpt), Rated(t, w, q, body, relevance, excerpt))
<1>1. CASE relevance \in s.abandoned
  <2>1. relevance \in t.abandoned
    BY <1>1 DEF Extends
  <2> QED
    BY <1>1, <2>1, SkipLeads DEF Rated
<1>2. CASE relevance \notin s.abandoned
  <2>1. relevance \in DOMAIN s.answers
    BY <1>2 DEF Settled
  <2>2. relevance \notin t.abandoned /\ t.answers[relevance] = s.answers[relevance]
    BY <2>1 DEF Extends, Sound
  <2>3. CASE s.answers[relevance] = "no"
    <3>1. Leads(s, t, w, w, w)
      BY LocalLeads DEF Good, Grown
    <3> QED
      BY <1>2, <2>2, <2>3, <3>1 DEF Rated
  <2>4. CASE s.answers[relevance] # "no"
    <3> DEFINE a == Yield(s, w, excerpt)
               b == Yield(t, w, excerpt)
               c == IF Open(a) THEN Excerpted(s, a, q, body, excerpt) ELSE a
               d == IF Open(b) THEN Excerpted(t, b, q, body, excerpt) ELSE b
    <3>1. Leads(s, t, w, a, b) /\ (Open(a) => Settled(s, excerpt))
      BY YieldLeads
    <3>2. Open(b) => Settled(t, excerpt)
      BY GoodAlso, ExtendsItself, YieldLeads
    <3>3. Rated(s, w, q, body, relevance, excerpt) = c /\ Rated(t, w, q, body, relevance, excerpt) = d
      BY <1>2, <2>2, <2>4 DEF Rated
    <3> HIDE DEF a, b
    <3>4. ASSUME Open(a) PROVE Leads(s, t, a, c, d)
      BY <3>1, <3>4, ExcerptedLeads DEF Leads
    <3>5. ASSUME Open(b) PROVE Leads(t, t, b, d, d)
      BY <3>1, <3>2, <3>5, ExcerptedLeads, ExtendsItself DEF Leads
    <3> QED
      BY <3>1, <3>3, <3>4, <3>5, ThenLeads
  <2> QED
    BY <2>3, <2>4
<1> QED
  BY <1>1, <1>2

LEMMA AssessLeads ==
  ASSUME NEW s, NEW t, Extends(s, t), NEW w, Good(s, w), Open(w), NEW q, NEW src, NEW body
  PROVE  Leads(s, t, w, Assess(s, w, q, src, body), Assess(t, w, q, src, body))
<1> DEFINE relevance == <<"relevance", q, src>>
           excerpt == <<"excerpt", q, src>>
           n == w.seen \cup {body}
           m == [w EXCEPT !.seen = n]
           v == Event(m, "SOURCE_REVIEWED", <<"source", q, src>>)
           a == Yield(s, v, relevance)
           b == Yield(t, v, relevance)
           c == IF Open(a) THEN Rated(s, a, q, body, relevance, excerpt) ELSE a
           d == IF Open(b) THEN Rated(t, b, q, body, relevance, excerpt) ELSE b
<1>1. /\ relevance # NoElement /\ relevance[1] # "search"
      /\ excerpt # NoElement /\ excerpt[1] # "search"
  BY DEF NoElement
<1>2. Assess(s, w, q, src, body) = c /\ Assess(t, w, q, src, body) = d
  BY DEF Assess, Then, Rated, Excerpted
<1> HIDE DEF relevance, excerpt
<1>3. IsFiniteSet(n) /\ DOMAIN w = WalkFields /\ Walk(w)
  BY FS_AddElement DEF Good, Walk
<1> HIDE DEF n
<1>4. Walk(m) /\ m.visited = w.visited /\ m.pending = w.pending /\ m.events = w.events
  BY <1>3 DEF Walk, WalkFields
<1> HIDE DEF m
<1>5. Walk(v) /\ Grown(m, v) /\ v.pending = m.pending /\ v.visited = m.visited
  BY <1>4, EventFacts
<1> HIDE DEF v
<1>6. Good(s, v) /\ Open(v) /\ Grown(w, v)
  BY <1>4, <1>5 DEF Good, Open, Grown
<1>7. Leads(s, t, v, a, b) /\ (Open(a) => Settled(s, relevance))
  BY <1>1, <1>6, YieldLeads
<1>8. Open(b) => Settled(t, relevance)
  BY <1>1, <1>6, GoodAlso, ExtendsItself, YieldLeads
<1> HIDE DEF a, b
<1>9. ASSUME Open(a) PROVE Leads(s, t, a, c, d)
  BY <1>1, <1>7, <1>9, RatedLeads DEF Leads
<1>10. ASSUME Open(b) PROVE Leads(t, t, b, d, d)
  BY <1>1, <1>7, <1>8, <1>10, RatedLeads, ExtendsItself DEF Leads
<1>11. Leads(s, t, v, c, d)
  BY <1>7, <1>9, <1>10, ThenLeads
<1> QED
  BY <1>2, <1>6, <1>11, GrownLeads

LEMMA ReviewLeads ==
  ASSUME NEW s, NEW t, Extends(s, t), NEW w, Good(s, w), Open(w), NEW q, NEW src \in DOMAIN s.ledger
  PROVE  Leads(s, t, w, Review(s, w, q, src), Review(t, w, q, src))
<1>1. t.ledger[src] = s.ledger[src]
  BY DEF Extends, Longer
<1>2. CASE s.ledger[src].body \in w.seen
  <2>1. Leads(s, t, w, w, w)
    BY LocalLeads DEF Good, Grown
  <2> QED
    BY <1>1, <1>2, <2>1 DEF Review
<1>3. CASE s.ledger[src].body \notin w.seen
  BY <1>1, <1>3, AssessLeads DEF Review
<1> QED
  BY <1>2, <1>3

LEMMA EndRoundLeads ==
  ASSUME NEW s, NEW t, Extends(s, t), NEW w, Good(s, w), Open(w), NEW n, NEW search
  PROVE  Leads(s, t, w, EndRound(w, n, search), EndRound(w, n, search))
<1> DEFINE dry == IF search[3] = 0 THEN w.dry ELSE IF Cardinality(w.found) = n THEN w.dry + 1 ELSE 0
           v == [w EXCEPT !.dry = dry]
<1>1. EndRound(w, n, search) = Event(v, "EVIDENCE_ROUND", search)
  BY DEF EndRound
<1>2. DOMAIN w = WalkFields /\ Walk(w)
  BY DEF Good, Walk
<1> HIDE DEF dry
<1>3. Walk(v) /\ v.visited = w.visited /\ v.pending = w.pending /\ v.events = w.events
  BY <1>2 DEF Walk, WalkFields
<1> HIDE DEF v
<1>4. Good(s, v) /\ Open(v) /\ Grown(w, v)
  BY <1>3 DEF Good, Open, Grown
<1> QED
  BY <1>1, <1>4, EventLeads, GrownLeads

(* The bodies of the walk's loops, told apart by a name, so that one       *)
(* induction shows of all of them that the recursive function is there.    *)
Observed(s, w, n) ==
  LET e == <<"observation", 0, n>>
  IN  IF Open(Yield(s, w, e)) THEN Row(Yield(s, w, e), e) ELSE Yield(s, w, e)

Turn(loop, s, x, y, v, i) ==
  CASE loop = "asking"   -> AskQuestion(s, v, y[i])
    [] loop = "results"  -> Review(s, v, x, SourceId(s, y[i].url))
    [] loop = "rounds"   -> Round(s, v, x, y[i])
    [] loop = "collect"  -> Collect(s, v, y[i])
    [] loop = "observe"  -> Observed(s, v, y[i])
    [] loop = "claims"   -> Claim(s, v, x[y[i]].q, y[i])
    [] loop = "insights" -> Yield(s, v, <<"insight", x, y[i]>>)
    [] OTHER             -> Decide(s, v, y[i])

(* How f walks through a loop of n turns from b.                           *)
Walks(f, loop, s, x, y, b, n) ==
  /\ f[0] = b
  /\ \A i \in 1 .. n : /\ Open(f[i - 1]) => f[i] = Turn(loop, s, x, y, f[i - 1], i)
                       /\ ~Open(f[i - 1]) => f[i] = f[i - 1]

Recurs(f, loop, s, x, y, b, n) ==
  f = [i \in 0 .. n |-> IF i = 0 THEN b
                       ELSE IF Open(f[i - 1]) THEN Turn(loop, s, x, y, f[i - 1], i) ELSE f[i - 1]]

LEMMA WalkExists ==
  ASSUME NEW loop, NEW s, NEW x, NEW y, NEW b, NEW n \in Nat
  PROVE  \E f : Recurs(f, loop, s, x, y, b, n)
<1> DEFINE Go(v, i) == IF Open(v) THEN Turn(loop, s, x, y, v, i) ELSE v
           Path(g, k) == g[0] = b /\ \A i \in 1 .. k : g[i] = Go(g[i - 1], i)
           T == {k \in Nat : \E g : Path(g, k)}
<1>1. \A g : g = [i \in 0 .. n |-> IF i = 0 THEN b ELSE Go(g[i - 1], i)] => Recurs(g, loop, s, x, y, b, n)
  BY DEF Recurs
<1> HIDE DEF Go
<1>2. 0 \in T
  <2> DEFINE g == [i \in {0} |-> b]
  <2>1. Path(g, 0)
    OBVIOUS
  <2> HIDE DEF g
  <2> QED
    BY <2>1
<1>3. ASSUME NEW k \in Nat, k \in T PROVE k + 1 \in T
  <2>1. PICK g : Path(g, k)
    BY <1>3
  <2> DEFINE h == [i \in 0 .. k + 1 |-> IF i = k + 1 THEN Go(g[k], k + 1) ELSE g[i]]
  <2>2. (\A i \in 0 .. k : h[i] = g[i]) /\ h[k + 1] = Go(g[k], k + 1)
    OBVIOUS
  <2> HIDE DEF h
  <2>3. ASSUME NEW i \in 1 .. k + 1 PROVE h[i] = Go(h[i - 1], i)
    <3>1. CASE i = k + 1
      <4>1. h[i - 1] = g[k]
        BY <2>2, <3>1
      <4> QED
        BY <2>2, <3>1, <4>1
    <3>2. CASE i \in 1 .. k
      <4>1. h[i] = g[i] /\ h[i - 1] = g[i - 1]
        BY <2>2, <3>2
      <4> QED
        BY <2>1, <3>2, <4>1
    <3> QED
      BY <3>1, <3>2
  <2>4. h[0] = b
    BY <2>1, <2>2
  <2> QED
    BY <2>3, <2>4
<1> HIDE DEF T
<1>4. n \in T
  BY <1>2, <1>3, Counting
<1>5. PICK g : Path(g, n)
  BY <1>4 DEF T
<1> DEFINE h == [i \in 0 .. n |-> g[i]]
<1>6. h = [i \in 0 .. n |-> IF i = 0 THEN b ELSE Go(h[i - 1], i)]
  BY <1>5
<1> QED
  BY <1>1, <1>6

(* The walks of a loop lead, when each of its turns does.                  *)
LEMMA TurnsLead ==
  ASSUME NEW s, NEW t, Extends(s, t), NEW w, Good(s, w), Open(w), NEW n \in Nat, NEW loop, NEW x, NEW y,
         NEW f, Walks(f, loop, s, x, y, w, n), NEW g, Walks(g, loop, t, x, y, w, n),
         \A v, i : i \in 1 .. n /\ Good(s, v) /\ Open(v)
                   => Leads(s, t, v, Turn(loop, s, x, y, v, i), Turn(loop, t, x, y, v, i)),
         \A v, i : i \in 1 .. n /\ Good(t, v) /\ Open(v)
                   => Leads(t, t, v, Turn(loop, t, x, y, v, i), Turn(loop, t, x, y, v, i))
  PROVE  Leads(s, t, w, f[n], g[n])
<1> DEFINE T == {k \in Nat : k <= n => Leads(s, t, w, f[k], g[k])}
<1>1. 0 \in T
  <2>1. Leads(s, t, w, w, w)
    BY LocalLeads DEF Good, Grown
  <2> QED
    BY <2>1 DEF Walks
<1>2. ASSUME NEW k \in Nat, k \in T PROVE k + 1 \in T
  <2> SUFFICES ASSUME k + 1 <= n PROVE Leads(s, t, w, f[k + 1], g[k + 1])
    OBVIOUS
  <2>1. Leads(s, t, w, f[k], g[k])
    BY <1>2
  <2>2. k + 1 \in 1 .. n /\ (k + 1) - 1 = k
    OBVIOUS
  <2>3. /\ Open(f[k]) => f[k + 1] = Turn(loop, s, x, y, f[k], k + 1)
        /\ ~Open(f[k]) => f[k + 1] = f[k]
        /\ Open(g[k]) => g[k + 1] = Turn(loop, t, x, y, g[k], k + 1)
        /\ ~Open(g[k]) => g[k + 1] = g[k]
    BY <2>2 DEF Walks
  <2>4. Open(f[k]) => Leads(s, t, f[k], f[k + 1], g[k + 1])
    BY <2>1, <2>2, <2>3 DEF Leads
  <2>5. Open(g[k]) => Leads(t, t, g[k], g[k + 1], g[k + 1])
    BY <2>1, <2>2, <2>3 DEF Leads
  <2> QED
    BY <2>1, <2>3, <2>4, <2>5, ThenLeads
<1> HIDE DEF T
<1>3. n \in T
  BY <1>1, <1>2, Counting
<1> QED
  BY <1>3 DEF T

(* The review of the results of a search.                                  *)
LEMMA ReviewedWalk ==
  ASSUME NEW s, NEW b, NEW q, NEW found, IsSeq(found)
  PROVE  \E f : Walks(f, "results", s, q, found, b, Len(found)) /\ ReviewAll(s, b, q, found) = f[Len(found)]
<1> DEFINE n == Len(found)
           F(f) == [i \in 0 .. n |-> IF i = 0 THEN b
                                    ELSE IF Open(f[i - 1]) THEN Review(s, f[i - 1], q, SourceId(s, found[i].url))
                                    ELSE f[i - 1]]
<1>1. ReviewAll(s, b, q, found) = (CHOOSE f : f = F(f))[n]
  BY DEF ReviewAll, Each
<1>2. n \in Nat
  BY SeqFacts
<1>3. \A v, i : Turn("results", s, q, found, v, i) = Review(s, v, q, SourceId(s, found[i].url))
  BY DEF Turn
<1> HIDE DEF n
<1>4. PICK g : Recurs(g, "results", s, q, found, b, n)
  BY <1>2, WalkExists
<1>5. g = F(g)
  BY <1>3, <1>4 DEF Recurs
<1>6. PICK f : f = F(f) /\ f = (CHOOSE z : z = F(z))
  BY <1>5
<1>7. Walks(f, "results", s, q, found, b, n)
  BY <1>2, <1>3, <1>6 DEF Walks
<1> QED
  BY <1>1, <1>6, <1>7 DEF n

LEMMA SourceFacts ==
  ASSUME NEW s, NEW t, Extends(s, t), NEW url, Known(s.ledger, url)
  PROVE  SourceId(s, url) \in DOMAIN s.ledger /\ SourceId(t, url) = SourceId(s, url)
<1>1. PICK j \in DOMAIN s.ledger : s.ledger[j].url = url
  BY DEF Known
<1>2. \A i \in DOMAIN s.ledger : s.ledger[i].url = url => i = j
  BY <1>1 DEF Extends, Sound, Pinned
<1>3. j \in DOMAIN t.ledger /\ t.ledger[j].url = url
  BY <1>1 DEF Extends, Longer
<1>4. \A i \in DOMAIN t.ledger : t.ledger[i].url = url => i = j
  BY <1>3 DEF Extends, Sound, Pinned
<1>5. SourceId(s, url) = j
  BY <1>1, <1>2 DEF SourceId
<1>6. SourceId(t, url) = j
  BY <1>3, <1>4 DEF SourceId
<1> QED
  BY <1>5, <1>6

LEMMA ReviewedLeads ==
  ASSUME NEW s, NEW t, Extends(s, t), NEW w, Good(s, w), Open(w), NEW q,
         NEW search \in DOMAIN s.answers, search[1] = "search"
  PROVE  Leads(s, t, w, ReviewAll(s, w, q, s.answers[search]), ReviewAll(t, w, q, t.answers[search]))
<1> DEFINE found == s.answers[search]
           n == Len(found)
<1>1. /\ IsSeq(found) /\ t.answers[search] = found
      /\ \A i \in DOMAIN found : Known(s.ledger, found[i].url)
  BY DEF Extends, Sound
<1>2. n \in Nat /\ DOMAIN found = 1 .. n
  BY <1>1, SeqFacts
<1> HIDE DEF found
<1>3. PICK f : Walks(f, "results", s, q, found, w, n) /\ ReviewAll(s, w, q, found) = f[n]
  BY <1>1, ReviewedWalk
<1>4. PICK g : Walks(g, "results", t, q, found, w, n) /\ ReviewAll(t, w, q, found) = g[n]
  BY <1>1, ReviewedWalk
<1>5. ASSUME NEW v, NEW i \in 1 .. n
      PROVE  /\ Good(s, v) /\ Open(v)
                  => Leads(s, t, v, Turn("results", s, q, found, v, i), Turn("results", t, q, found, v, i))
             /\ Good(t, v) /\ Open(v)
                  => Leads(t, t, v, Turn("results", t, q, found, v, i), Turn("results", t, q, found, v, i))
  <2> DEFINE src == SourceId(s, found[i].url)
  <2>1. src \in DOMAIN s.ledger /\ SourceId(t, found[i].url) = src
    BY <1>1, <1>2, SourceFacts
  <2>2. src \in DOMAIN t.ledger
    BY <2>1 DEF Extends, Longer
  <2>3. Turn("results", s, q, found, v, i) = Review(s, v, q, src)
    BY DEF Turn
  <2>4. Turn("results", t, q, found, v, i) = Review(t, v, q, src)
    BY <2>1 DEF Turn
  <2> HIDE DEF src
  <2> QED
    BY <2>1, <2>2, <2>3, <2>4, ReviewLeads, ExtendsItself
<1> HIDE DEF n
<1>6. Leads(s, t, w, f[n], g[n])
  BY <1>2, <1>3, <1>4, <1>5, TurnsLead
<1> QED
  BY <1>1, <1>3, <1>4, <1>6 DEF found

(* The end of a round, and what comes once the query is there.             *)
Finish(s, v, q, n, search) ==
  LET b == [v EXCEPT !.fetched = @ + Len(s.answers[search])]
      u == ReviewAll(s, b, q, s.answers[search])
  IN  IF Open(u) THEN EndRound(u, n, search) ELSE u

Searched(s, v, q, n, query, search) ==
  LET u == Yield(s, Event(v, "SEARCH_ATTEMPT", query), search)
  IN  IF Open(u) THEN Finish(s, u, q, n, search) ELSE u

LEMMA FinishLeads ==
  ASSUME NEW s, NEW t, Extends(s, t), NEW w, Good(s, w), Open(w), NEW q, NEW m,
         NEW search, search[1] = "search", Settled(s, search)
  PROVE  Leads(s, t, w, Finish(s, w, q, m, search), Finish(t, w, q, m, search))
<1> DEFINE n == Len(s.answers[search])
           v == [w EXCEPT !.fetched = w.fetched + n]
           a == ReviewAll(s, v, q, s.answers[search])
           b == ReviewAll(t, v, q, t.answers[search])
           c == IF Open(a) THEN EndRound(a, m, search) ELSE a
           d == IF Open(b) THEN EndRound(b, m, search) ELSE b
<1>1. search \in DOMAIN s.answers
  BY DEF Extends, Sound, Abandonable, Settled
<1>2. t.answers[search] = s.answers[search] /\ IsSeq(s.answers[search])
  BY <1>1 DEF Extends, Sound
<1>3. Finish(s, w, q, m, search) = c /\ Finish(t, w, q, m, search) = d
  BY <1>2 DEF Finish
<1>4. n \in Nat /\ DOMAIN w = WalkFields /\ Walk(w)
  BY <1>2, SeqFacts DEF Good, Walk
<1> HIDE DEF n
<1>5. Walk(v) /\ v.visited = w.visited /\ v.pending = w.pending /\ v.events = w.events
  BY <1>4 DEF Walk, WalkFields
<1> HIDE DEF v
<1>6. Good(s, v) /\ Open(v) /\ Grown(w, v)
  BY <1>5 DEF Good, Open, Grown
<1>7. Leads(s, t, v, a, b)
  BY <1>1, <1>6, ReviewedLeads
<1> HIDE DEF a, b
<1>8. ASSUME Open(a) PROVE Leads(s, t, a, c, d)
  BY <1>7, <1>8, EndRoundLeads DEF Leads
<1>9. ASSUME Open(b) PROVE Leads(t, t, b, d, d)
  BY <1>7, <1>9, EndRoundLeads, ExtendsItself DEF Leads
<1>10. Leads(s, t, v, c, d)
  BY <1>7, <1>8, <1>9, ThenLeads
<1> QED
  BY <1>3, <1>6, <1>10, GrownLeads

(* The query is in the log before the search is asked for.                 *)
LEMMA SearchedLeads ==
  ASSUME NEW s, NEW t, Extends(s, t), NEW w, Good(s, w), Open(w), NEW q, NEW m, NEW query,
         NEW search, search # NoElement, search[1] = "search", Asking(search) = <<"SEARCH_ATTEMPT", query>>
  PROVE  Leads(s, t, w, Searched(s, w, q, m, query, search), Searched(t, w, q, m, query, search))
<1> DEFINE v == Event(w, "SEARCH_ATTEMPT", query)
           a == Yield(s, v, search)
           b == Yield(t, v, search)
           c == IF Open(a) THEN Finish(s, a, q, m, search) ELSE a
           d == IF Open(b) THEN Finish(t, b, q, m, search) ELSE b
<1>1. Searched(s, w, q, m, query, search) = c /\ Searched(t, w, q, m, query, search) = d
  BY DEF Searched
<1>2. Leads(s, t, w, v, v) /\ Open(v) /\ Asking(search) \in v.events
  BY EventFacts, EventLeads DEF Good, Open
<1> HIDE DEF v
<1>3. Leads(s, t, v, a, b) /\ (Open(a) => Settled(s, search))
  BY <1>2, YieldLeads DEF Leads
<1>4. Open(b) => Settled(t, search)
  BY <1>2, ExtendsItself, YieldLeads DEF Leads
<1> HIDE DEF a, b
<1>5. ASSUME Open(a) PROVE Leads(s, t, a, c, d)
  BY <1>3, <1>5, FinishLeads DEF Leads
<1>6. ASSUME Open(b) PROVE Leads(t, t, b, d, d)
  BY <1>3, <1>4, <1>6, FinishLeads, ExtendsItself DEF Leads
<1>7. Leads(s, t, v, c, d)
  BY <1>3, <1>5, <1>6, ThenLeads
<1> QED
  BY <1>1, <1>2, <1>7, GrownLeads DEF Leads

LEMMA RoundLeads ==
  ASSUME NEW s, NEW t, Extends(s, t), NEW w, Good(s, w), Open(w), NEW q, NEW strategy
  PROVE  Leads(s, t, w, Round(s, w, q, strategy), Round(t, w, q, strategy))
<1> DEFINE query == <<"query", q, strategy>>
           search == <<"search", q, strategy>>
           m == Cardinality(w.found)
           a == Yield(s, w, query)
           b == Yield(t, w, query)
           c == IF Open(a) THEN Searched(s, a, q, m, query, search) ELSE a
           d == IF Open(b) THEN Searched(t, b, q, m, query, search) ELSE b
<1>1. CASE Reason(w) # "search_strategy_limit"
  <2> DEFINE r == Reason(w)
             v == [w EXCEPT !.reason = r]
  <2>1. Round(s, w, q, strategy) = v /\ Round(t, w, q, strategy) = v
    BY <1>1 DEF Round
  <2>2. DOMAIN w = WalkFields /\ Walk(w)
    BY DEF Good, Walk
  <2> HIDE DEF r
  <2>3. Walk(v) /\ v.visited = w.visited /\ v.pending = w.pending /\ v.events = w.events
    BY <2>2 DEF Walk, WalkFields
  <2> HIDE DEF v
  <2>4. Leads(s, t, w, v, v)
    BY <2>3, LocalLeads DEF Good, Open, Grown
  <2> QED
    BY <2>1, <2>4
<1>2. CASE Reason(w) = "search_strategy_limit"
  <2>1. Round(s, w, q, strategy) = c /\ Round(t, w, q, strategy) = d
    BY <1>2 DEF Round, Then, Searched, Finish
  <2>2. /\ query # NoElement /\ query[1] # "search"
        /\ search # NoElement /\ search[1] = "search" /\ Asking(search) = <<"SEARCH_ATTEMPT", query>>
    BY DEF NoElement, Asking
  <2> HIDE DEF query, search, m
  <2>3. Leads(s, t, w, a, b)
    BY <2>2, YieldLeads
  <2> HIDE DEF a, b
  <2>4. ASSUME Open(a) PROVE Leads(s, t, a, c, d)
    BY <2>2, <2>3, <2>4, SearchedLeads DEF Leads
  <2>5. ASSUME Open(b) PROVE Leads(t, t, b, d, d)
    BY <2>2, <2>3, <2>5, SearchedLeads, ExtendsItself DEF Leads
  <2> QED
    BY <2>1, <2>3, <2>4, <2>5, ThenLeads
<1> QED
  BY <1>1, <1>2

LEMMA UptoIsSeq ==
  ASSUME NEW n \in Int
  PROVE  IsSeq(Upto(n))
<1> DEFINE m == IF n \in Nat THEN n ELSE 0
<1>1. m \in Nat /\ 1 .. n = 1 .. m
  OBVIOUS
<1> HIDE DEF m
<1>2. Upto(n) \in [1 .. m -> Int]
  BY <1>1 DEF Upto
<1>3. Upto(n) \in Seq(Int)
  BY <1>1, <1>2
<1> QED
  BY <1>3 DEF IsSeq

(* A loop is passed over when the walk has stopped before it.              *)
LEMMA StoppedWalks ==
  ASSUME NEW loop, NEW s, NEW x, NEW y, NEW b, ~Open(b), NEW n \in Nat,
         NEW f, Walks(f, loop, s, x, y, b, n)
  PROVE  f[n] = b
<1> DEFINE T == {k \in Nat : k <= n => f[k] = b}
<1>1. 0 \in T
  BY DEF Walks
<1>2. ASSUME NEW k \in Nat, k \in T PROVE k + 1 \in T
  <2> SUFFICES ASSUME k + 1 <= n PROVE f[k + 1] = b
    OBVIOUS
  <2>1. f[k] = b /\ k + 1 \in 1 .. n /\ (k + 1) - 1 = k
    BY <1>2
  <2> QED
    BY <2>1 DEF Walks
<1> HIDE DEF T
<1>3. n \in T
  BY <1>1, <1>2, Counting
<1> QED
  BY <1>3 DEF T

LEMMA ObservedLeads ==
  ASSUME NEW s, NEW t, Extends(s, t), NEW w, Good(s, w), Open(w), NEW n
  PROVE  Leads(s, t, w, Observed(s, w, n), Observed(t, w, n))
<1> DEFINE e == <<"observation", 0, n>>
           a == Yield(s, w, e)
           b == Yield(t, w, e)
           c == IF Open(a) THEN Row(a, e) ELSE a
           d == IF Open(b) THEN Row(b, e) ELSE b
<1>1. e # NoElement /\ e[1] # "search"
  BY DEF NoElement
<1>2. Observed(s, w, n) = c /\ Observed(t, w, n) = d
  BY DEF Observed
<1> HIDE DEF e
<1>3. Leads(s, t, w, a, b)
  BY <1>1, YieldLeads
<1> HIDE DEF a, b
<1>4. ASSUME Open(a) PROVE Leads(s, t, a, c, d)
  BY <1>3, <1>4, RowLeads DEF Leads
<1>5. ASSUME Open(b) PROVE Leads(t, t, b, d, d)
  BY <1>3, <1>5, RowLeads, ExtendsItself DEF Leads
<1> QED
  BY <1>2, <1>3, <1>4, <1>5, ThenLeads

LEMMA InsightLeads ==
  ASSUME NEW s, NEW t, Extends(s, t), NEW w, Good(s, w), Open(w), NEW q, NEW n
  PROVE  Leads(s, t, w, Yield(s, w, <<"insight", q, n>>), Yield(t, w, <<"insight", q, n>>))
<1> DEFINE e == <<"insight", q, n>>
<1>1. e # NoElement /\ e[1] # "search"
  BY DEF NoElement
<1> HIDE DEF e
<1>2. Leads(s, t, w, Yield(s, w, e), Yield(t, w, e))
  BY <1>1, YieldLeads
<1> QED
  BY <1>2 DEF e

(* A claim that has its type.                                              *)
Typed(v, q, n) == Row([v EXCEPT !.claims = Append(@, q)], <<"claim", q, n>>)

LEMMA TypedLeads ==
  ASSUME NEW s, NEW t, Extends(s, t), NEW w, Good(s, w), Open(w), NEW q, NEW n
  PROVE  Leads(s, t, w, Typed(w, q, n), Typed(w, q, n))
<1> DEFINE x == Append(w.claims, q)
           v == [w EXCEPT !.claims = x]
<1>1. Typed(w, q, n) = Row(v, <<"claim", q, n>>)
  BY DEF Typed
<1>2. DOMAIN w = WalkFields /\ Walk(w)
  BY DEF Good, Walk
<1>3. IsSeq(x)
  BY <1>2, Appended DEF Walk
<1> HIDE DEF x
<1>4. Walk(v) /\ v.visited = w.visited /\ v.pending = w.pending /\ v.events = w.events
  BY <1>2, <1>3 DEF Walk, WalkFields
<1> HIDE DEF v
<1>5. Good(s, v) /\ Open(v) /\ Grown(w, v)
  BY <1>4 DEF Good, Open, Grown
<1> QED
  BY <1>1, <1>5, RowLeads, GrownLeads

TypeOf(s, v, e, q, n) == IF Open(Yield(s, v, e)) THEN Typed(Yield(s, v, e), q, n) ELSE Yield(s, v, e)

LEMMA TypeOfLeads ==
  ASSUME NEW s, NEW t, Extends(s, t), NEW w, Good(s, w), Open(w), NEW q, NEW n,
         NEW e, e # NoElement, e[1] # "search"
  PROVE  Leads(s, t, w, TypeOf(s, w, e, q, n), TypeOf(t, w, e, q, n))
<1> DEFINE a == Yield(s, w, e)
           b == Yield(t, w, e)
           c == IF Open(a) THEN Typed(a, q, n) ELSE a
           d == IF Open(b) THEN Typed(b, q, n) ELSE b
<1>1. TypeOf(s, w, e, q, n) = c /\ TypeOf(t, w, e, q, n) = d
  BY DEF TypeOf
<1>2. Leads(s, t, w, a, b)
  BY YieldLeads
<1> HIDE DEF a, b
<1>3. ASSUME Open(a) PROVE Leads(s, t, a, c, d)
  BY <1>2, <1>3, TypedLeads DEF Leads
<1>4. ASSUME Open(b) PROVE Leads(t, t, b, d, d)
  BY <1>2, <1>4, TypedLeads, ExtendsItself DEF Leads
<1> QED
  BY <1>1, <1>2, <1>3, <1>4, ThenLeads

(* The run may ask for a claim that is skipped later on.                   *)
LEMMA ClaimLeads ==
  ASSUME NEW s, NEW t, Extends(s, t), NEW w, Good(s, w), Open(w), NEW q, NEW n
  PROVE  Leads(s, t, w, Claim(s, w, q, n), Claim(t, w, q, n))
<1> DEFINE claim == <<"claim", 0, n>>
           type == <<"claim-type", 0, n>>
           a == Yield(s, w, claim)
           b == Yield(t, w, claim)
           c == IF Open(a) THEN TypeOf(s, a, type, q, n) ELSE a
           d == IF Open(b) THEN TypeOf(t, b, type, q, n) ELSE b
<1>1. /\ Claim(s, w, q, n) = IF claim \in s.abandoned THEN Skip(w, claim) ELSE c
      /\ Claim(t, w, q, n) = IF claim \in t.abandoned THEN Skip(w, claim) ELSE d
  BY DEF Claim, Then, TypeOf, Typed
<1>2. /\ claim # NoElement /\ claim[1] # "search"
      /\ type # NoElement /\ type[1] # "search"
  BY DEF NoElement
<1> HIDE DEF claim, type
<1>3. Leads(s, t, w, a, b)
  BY <1>2, YieldLeads
<1>4. Good(t, w) /\ Extends(t, t)
  BY GoodAlso, ExtendsItself
<1>5. CASE claim \in s.abandoned
  <2>1. claim \in t.abandoned
    BY <1>5 DEF Extends
  <2>2. Settled(s, claim)
    BY <1>5 DEF Settled
  <2> QED
    BY <1>1, <1>5, <2>1, <2>2, SkipLeads
<1>6. CASE claim \notin t.abandoned
  <2>1. claim \notin s.abandoned
    BY <1>6 DEF Extends
  <2> HIDE DEF a, b
  <2>2. ASSUME Open(a) PROVE Leads(s, t, a, c, d)
    BY <1>2, <1>3, <2>2, TypeOfLeads DEF Leads
  <2>3. ASSUME Open(b) PROVE Leads(t, t, b, d, d)
    BY <1>2, <1>3, <2>3, TypeOfLeads, ExtendsItself DEF Leads
  <2> QED
    BY <1>1, <1>3, <1>6, <2>1, <2>2, <2>3, ThenLeads
<1>7. CASE claim \notin s.abandoned /\ claim \in t.abandoned
  <2>1. ~Settled(s, claim) /\ Settled(t, claim)
    BY <1>7 DEF Settled, Extends, Sound
  <2>2. Leads(t, t, w, Skip(w, claim), Skip(w, claim))
    BY <1>4, <2>1, SkipLeads
  <2>3. DOMAIN w = WalkFields
    BY DEF Good, Walk
  <2>4. a = [w EXCEPT !.pending = claim]
    BY <2>1 DEF Yield
  <2>5. a.pending = claim /\ a.visited = w.visited /\ a.events = w.events
    BY <2>3, <2>4 DEF WalkFields
  <2>6. ~Open(a)
    BY <1>2, <2>5 DEF Open
  <2>7. claim \in Skip(w, claim).visited
    <3> DEFINE v == [w EXCEPT !.visited = w.visited \cup {claim}]
    <3>1. DOMAIN w = WalkFields /\ Walk(w)
      BY DEF Good, Walk
    <3>2. Walk(v) /\ v.visited = w.visited \cup {claim}
      BY <3>1 DEF Walk, WalkFields
    <3>3. Skip(w, claim) = Event(v, "ELEMENT_ABANDONED", claim)
      BY DEF Skip
    <3> HIDE DEF v
    <3> QED
      BY <3>2, <3>3, EventFacts
  <2> HIDE DEF a, b
  <2>8. c = a
    BY <2>6
  <2>9. Leads(s, t, w, a, Skip(w, claim))
    BY <1>3, <2>2, <2>5, <2>6, <2>7 DEF Leads, Grown
  <2> QED
    BY <1>1, <1>7, <2>8, <2>9
<1> QED
  BY <1>5, <1>6, <1>7

(* The quotes that are new, one by one.                                    *)
LEMMA QuotesIsSeq ==
  ASSUME NEW w, IsSeq(w.excerpts)
  PROVE  IsSeq(Quotes(w))
<1> DEFINE n == Len(w.excerpts)
           Kept(k, x) == IF \E i \in DOMAIN k : Same(k[i], x) THEN k ELSE Append(k, x)
           F(f) == [i \in 0 .. n |-> IF i = 0 THEN <<>> ELSE Kept(f[i - 1], w.excerpts[i])]
           T == {k \in Nat : \E g : g[0] = <<>> /\ \A i \in 1 .. k : g[i] = Kept(g[i - 1], w.excerpts[i])}
<1>1. Quotes(w) = (CHOOSE f : f = F(f))[n]
  BY DEF Quotes
<1>2. n \in Nat
  BY SeqFacts
<1>3. \A k, x : IsSeq(k) => IsSeq(Kept(k, x))
  BY Appended
<1> HIDE DEF Kept, n
<1>4. 0 \in T
  <2> DEFINE g == [i \in {0} |-> <<>>]
  <2>1. g[0] = <<>> /\ \A i \in 1 .. 0 : g[i] = Kept(g[i - 1], w.excerpts[i])
    OBVIOUS
  <2> HIDE DEF g
  <2> QED
    BY <2>1
<1>5. ASSUME NEW k \in Nat, k \in T PROVE k + 1 \in T
  <2>1. PICK g : g[0] = <<>> /\ \A i \in 1 .. k : g[i] = Kept(g[i - 1], w.excerpts[i])
    BY <1>5
  <2> DEFINE h == [i \in 0 .. k + 1 |-> IF i = k + 1 THEN Kept(g[k], w.excerpts[k + 1]) ELSE g[i]]
  <2>2. (\A i \in 0 .. k : h[i] = g[i]) /\ h[k + 1] = Kept(g[k], w.excerpts[k + 1])
    OBVIOUS
  <2> HIDE DEF h
  <2>3. ASSUME NEW i \in 1 .. k + 1 PROVE h[i] = Kept(h[i - 1], w.excerpts[i])
    <3>1. CASE i = k + 1
      <4>1. h[i - 1] = g[k]
        BY <2>2, <3>1
      <4> QED
        BY <2>2, <3>1, <4>1
    <3>2. CASE i \in 1 .. k
      <4>1. h[i] = g[i] /\ h[i - 1] = g[i - 1]
        BY <2>2, <3>2
      <4> QED
        BY <2>1, <3>2, <4>1
    <3> QED
      BY <3>1, <3>2
  <2>4. h[0] = <<>>
    BY <2>1, <2>2
  <2> QED
    BY <2>3, <2>4
<1> HIDE DEF T
<1>6. n \in T
  BY <1>2, <1>4, <1>5, Counting
<1>7. PICK g : g[0] = <<>> /\ \A i \in 1 .. n : g[i] = Kept(g[i - 1], w.excerpts[i])
  BY <1>6 DEF T
<1> DEFINE h == [i \in 0 .. n |-> g[i]]
<1>8. h = F(h)
  BY <1>2, <1>7
<1> HIDE DEF h
<1>9. PICK f : f = F(f) /\ f = (CHOOSE x : x = F(x))
  BY <1>8
<1> DEFINE U == {k \in Nat : k <= n => IsSeq(f[k])}
<1>10. 0 \in U
  <2>1. f[0] = <<>>
    BY <1>2, <1>9
  <2>2. <<>> \in Seq({})
    OBVIOUS
  <2> QED
    BY <2>1, <2>2 DEF IsSeq
<1>11. ASSUME NEW k \in Nat, k \in U PROVE k + 1 \in U
  <2> SUFFICES ASSUME k + 1 <= n PROVE IsSeq(f[k + 1])
    OBVIOUS
  <2>1. f[k + 1] = Kept(f[k], w.excerpts[k + 1])
    BY <1>2, <1>9
  <2>2. IsSeq(f[k])
    BY <1>2, <1>11
  <2> QED
    BY <1>3, <2>1, <2>2
<1> HIDE DEF U
<1>12. n \in U
  BY <1>2, <1>10, <1>11, Counting
<1>13. IsSeq(f[n])
  BY <1>2, <1>12 DEF U
<1>14. Quotes(w) = f[n]
  BY <1>1, <1>9
<1> QED
  BY <1>13, <1>14

(* The questions are asked for.                                            *)
AskAll(s, w, y) == Each(w, y, LAMBDA v, e : AskQuestion(s, v, e))

LEMMA AskAllWalk ==
  ASSUME NEW s, NEW b, NEW y, IsSeq(y)
  PROVE  \E f : Walks(f, "asking", s, <<>>, y, b, Len(y)) /\ AskAll(s, b, y) = f[Len(y)]
<1> DEFINE n == Len(y)
           F(f) == [i \in 0 .. n |-> IF i = 0 THEN b
                                    ELSE IF Open(f[i - 1]) THEN AskQuestion(s, f[i - 1], y[i]) ELSE f[i - 1]]
<1>1. AskAll(s, b, y) = (CHOOSE f : f = F(f))[n]
  BY DEF AskAll, Each
<1>2. n \in Nat
  BY SeqFacts
<1>3. \A v, i : Turn("asking", s, <<>>, y, v, i) = AskQuestion(s, v, y[i])
  BY DEF Turn
<1> HIDE DEF n
<1>4. PICK g : Recurs(g, "asking", s, <<>>, y, b, n)
  BY <1>2, WalkExists
<1>5. g = F(g)
  BY <1>3, <1>4 DEF Recurs
<1>6. PICK f : f = F(f) /\ f = (CHOOSE z : z = F(z))
  BY <1>5
<1>7. Walks(f, "asking", s, <<>>, y, b, n)
  BY <1>2, <1>3, <1>6 DEF Walks
<1> QED
  BY <1>1, <1>6, <1>7 DEF n

LEMMA AskAllLeads ==
  ASSUME NEW s, NEW t, Extends(s, t), NEW w, Good(s, w), Open(w), NEW y, IsSeq(y)
  PROVE  Leads(s, t, w, AskAll(s, w, y), AskAll(t, w, y))
<1> DEFINE n == Len(y)
<1>1. n \in Nat
  BY SeqFacts
<1>2. PICK f : Walks(f, "asking", s, <<>>, y, w, n) /\ AskAll(s, w, y) = f[n]
  BY AskAllWalk
<1>3. PICK g : Walks(g, "asking", t, <<>>, y, w, n) /\ AskAll(t, w, y) = g[n]
  BY AskAllWalk
<1>4. ASSUME NEW v, NEW i \in 1 .. n
      PROVE  /\ Good(s, v) /\ Open(v)
                  => Leads(s, t, v, Turn("asking", s, <<>>, y, v, i), Turn("asking", t, <<>>, y, v, i))
             /\ Good(t, v) /\ Open(v)
                  => Leads(t, t, v, Turn("asking", t, <<>>, y, v, i), Turn("asking", t, <<>>, y, v, i))
  <2>1. /\ Turn("asking", s, <<>>, y, v, i) = AskQuestion(s, v, y[i])
        /\ Turn("asking", t, <<>>, y, v, i) = AskQuestion(t, v, y[i])
    BY DEF Turn
  <2> QED
    BY <2>1, AskQuestionLeads, ExtendsItself
<1> HIDE DEF n
<1> QED
  BY <1>1, <1>2, <1>3, <1>4, TurnsLead

(* The rounds of a question.                                               *)
RoundAll(s, w, q, y) == Each(w, y, LAMBDA v, e : Round(s, v, q, e))

LEMMA RoundAllWalk ==
  ASSUME NEW s, NEW b, NEW q, NEW y, IsSeq(y)
  PROVE  \E f : Walks(f, "rounds", s, q, y, b, Len(y)) /\ RoundAll(s, b, q, y) = f[Len(y)]
<1> DEFINE n == Len(y)
           F(f) == [i \in 0 .. n |-> IF i = 0 THEN b
                                    ELSE IF Open(f[i - 1]) THEN Round(s, f[i - 1], q, y[i]) ELSE f[i - 1]]
<1>1. RoundAll(s, b, q, y) = (CHOOSE f : f = F(f))[n]
  BY DEF RoundAll, Each
<1>2. n \in Nat
  BY SeqFacts
<1>3. \A v, i : Turn("rounds", s, q, y, v, i) = Round(s, v, q, y[i])
  BY DEF Turn
<1> HIDE DEF n
<1>4. PICK g : Recurs(g, "rounds", s, q, y, b, n)
  BY <1>2, WalkExists
<1>5. g = F(g)
  BY <1>3, <1>4 DEF Recurs
<1>6. PICK f : f = F(f) /\ f = (CHOOSE z : z = F(z))
  BY <1>5
<1>7. Walks(f, "rounds", s, q, y, b, n)
  BY <1>2, <1>3, <1>6 DEF Walks
<1> QED
  BY <1>1, <1>6, <1>7 DEF n

LEMMA RoundAllLeads ==
  ASSUME NEW s, NEW t, Extends(s, t), NEW w, Good(s, w), Open(w), NEW q, NEW y, IsSeq(y)
  PROVE  Leads(s, t, w, RoundAll(s, w, q, y), RoundAll(t, w, q, y))
<1> DEFINE n == Len(y)
<1>1. n \in Nat
  BY SeqFacts
<1>2. PICK f : Walks(f, "rounds", s, q, y, w, n) /\ RoundAll(s, w, q, y) = f[n]
  BY RoundAllWalk
<1>3. PICK g : Walks(g, "rounds", t, q, y, w, n) /\ RoundAll(t, w, q, y) = g[n]
  BY RoundAllWalk
<1>4. ASSUME NEW v, NEW i \in 1 .. n
      PROVE  /\ Good(s, v) /\ Open(v)
                  => Leads(s, t, v, Turn("rounds", s, q, y, v, i), Turn("rounds", t, q, y, v, i))
             /\ Good(t, v) /\ Open(v)
                  => Leads(t, t, v, Turn("rounds", t, q, y, v, i), Turn("rounds", t, q, y, v, i))
  <2>1. /\ Turn("rounds", s, q, y, v, i) = Round(s, v, q, y[i])
        /\ Turn("rounds", t, q, y, v, i) = Round(t, v, q, y[i])
    BY DEF Turn
  <2> QED
    BY <2>1, RoundLeads, ExtendsItself
<1> HIDE DEF n
<1> QED
  BY <1>1, <1>2, <1>3, <1>4, TurnsLead

(* The observations.                                                       *)
ObserveAll(s, w, y) == Each(w, y, LAMBDA v, e : Observed(s, v, e))

LEMMA ObserveAllWalk ==
  ASSUME NEW s, NEW b, NEW y, IsSeq(y)
  PROVE  \E f : Walks(f, "observe", s, <<>>, y, b, Len(y)) /\ ObserveAll(s, b, y) = f[Len(y)]
<1> DEFINE n == Len(y)
           F(f) == [i \in 0 .. n |-> IF i = 0 THEN b
                                    ELSE IF Open(f[i - 1]) THEN Observed(s, f[i - 1], y[i]) ELSE f[i - 1]]
<1>1. ObserveAll(s, b, y) = (CHOOSE f : f = F(f))[n]
  BY DEF ObserveAll, Each
<1>2. n \in Nat
  BY SeqFacts
<1>3. \A v, i : Turn("observe", s, <<>>, y, v, i) = Observed(s, v, y[i])
  BY DEF Turn
<1> HIDE DEF n
<1>4. PICK g : Recurs(g, "observe", s, <<>>, y, b, n)
  BY <1>2, WalkExists
<1>5. g = F(g)
  BY <1>3, <1>4 DEF Recurs
<1>6. PICK f : f = F(f) /\ f = (CHOOSE z : z = F(z))
  BY <1>5
<1>7. Walks(f, "observe", s, <<>>, y, b, n)
  BY <1>2, <1>3, <1>6 DEF Walks
<1> QED
  BY <1>1, <1>6, <1>7 DEF n

LEMMA ObserveAllLeads ==
  ASSUME NEW s, NEW t, Extends(s, t), NEW w, Good(s, w), Open(w), NEW y, IsSeq(y)
  PROVE  Leads(s, t, w, ObserveAll(s, w, y), ObserveAll(t, w, y))
<1> DEFINE n == Len(y)
<1>1. n \in Nat
  BY SeqFacts
<1>2. PICK f : Walks(f, "observe", s, <<>>, y, w, n) /\ ObserveAll(s, w, y) = f[n]
  BY ObserveAllWalk
<1>3. PICK g : Walks(g, "observe", t, <<>>, y, w, n) /\ ObserveAll(t, w, y) = g[n]
  BY ObserveAllWalk
<1>4. ASSUME NEW v, NEW i \in 1 .. n
      PROVE  /\ Good(s, v) /\ Open(v)
                  => Leads(s, t, v, Turn("observe", s, <<>>, y, v, i), Turn("observe", t, <<>>, y, v, i))
             /\ Good(t, v) /\ Open(v)
                  => Leads(t, t, v, Turn("observe", t, <<>>, y, v, i), Turn("observe", t, <<>>, y, v, i))
  <2>1. /\ Turn("observe", s, <<>>, y, v, i) = Observed(s, v, y[i])
        /\ Turn("observe", t, <<>>, y, v, i) = Observed(t, v, y[i])
    BY DEF Turn
  <2> QED
    BY <2>1, ObservedLeads, ExtendsItself
<1> HIDE DEF n
<1> QED
  BY <1>1, <1>2, <1>3, <1>4, TurnsLead

(* The claims, over the quotes q.                                          *)
ClaimAll(s, w, q, y) == Each(w, y, LAMBDA v, e : Claim(s, v, q[e].q, e))

LEMMA ClaimAllWalk ==
  ASSUME NEW s, NEW b, NEW q, NEW y, IsSeq(y)
  PROVE  \E f : Walks(f, "claims", s, q, y, b, Len(y)) /\ ClaimAll(s, b, q, y) = f[Len(y)]
<1> DEFINE n == Len(y)
           F(f) == [i \in 0 .. n |-> IF i = 0 THEN b
                                    ELSE IF Open(f[i - 1]) THEN Claim(s, f[i - 1], q[y[i]].q, y[i]) ELSE f[i - 1]]
<1>1. ClaimAll(s, b, q, y) = (CHOOSE f : f = F(f))[n]
  BY DEF ClaimAll, Each
<1>2. n \in Nat
  BY SeqFacts
<1>3. \A v, i : Turn("claims", s, q, y, v, i) = Claim(s, v, q[y[i]].q, y[i])
  BY DEF Turn
<1> HIDE DEF n
<1>4. PICK g : Recurs(g, "claims", s, q, y, b, n)
  BY <1>2, WalkExists
<1>5. g = F(g)
  BY <1>3, <1>4 DEF Recurs
<1>6. PICK f : f = F(f) /\ f = (CHOOSE z : z = F(z))
  BY <1>5
<1>7. Walks(f, "claims", s, q, y, b, n)
  BY <1>2, <1>3, <1>6 DEF Walks
<1> QED
  BY <1>1, <1>6, <1>7 DEF n

LEMMA ClaimAllLeads ==
  ASSUME NEW s, NEW t, Extends(s, t), NEW w, Good(s, w), Open(w), NEW q, NEW y, IsSeq(y)
  PROVE  Leads(s, t, w, ClaimAll(s, w, q, y), ClaimAll(t, w, q, y))
<1> DEFINE n == Len(y)
<1>1. n \in Nat
  BY SeqFacts
<1>2. PICK f : Walks(f, "claims", s, q, y, w, n) /\ ClaimAll(s, w, q, y) = f[n]
  BY ClaimAllWalk
<1>3. PICK g : Walks(g, "claims", t, q, y, w, n) /\ ClaimAll(t, w, q, y) = g[n]
  BY ClaimAllWalk
<1>4. ASSUME NEW v, NEW i \in 1 .. n
      PROVE  /\ Good(s, v) /\ Open(v)
                  => Leads(s, t, v, Turn("claims", s, q, y, v, i), Turn("claims", t, q, y, v, i))
             /\ Good(t, v) /\ Open(v)
                  => Leads(t, t, v, Turn("claims", t, q, y, v, i), Turn("claims", t, q, y, v, i))
  <2>1. /\ Turn("claims", s, q, y, v, i) = Claim(s, v, q[y[i]].q, y[i])
        /\ Turn("claims", t, q, y, v, i) = Claim(t, v, q[y[i]].q, y[i])
    BY DEF Turn
  <2> QED
    BY <2>1, ClaimLeads, ExtendsItself
<1> HIDE DEF n
<1> QED
  BY <1>1, <1>2, <1>3, <1>4, TurnsLead

(* The insights of a question.                                             *)
InsightAll(s, w, q, y) == Each(w, y, LAMBDA v, e : Yield(s, v, <<"insight", q, e>>))

LEMMA InsightAllWalk ==
  ASSUME NEW s, NEW b, NEW q, NEW y, IsSeq(y)
  PROVE  \E f : Walks(f, "insights", s, q, y, b, Len(y)) /\ InsightAll(s, b, q, y) = f[Len(y)]
<1> DEFINE n == Len(y)
           Go(v, i) == IF Open(v) THEN Yield(s, v, <<"insight", q, y[i]>>) ELSE v
           F(f) == [i \in 0 .. n |-> IF i = 0 THEN b ELSE Go(f[i - 1], i)]
<1>1. InsightAll(s, b, q, y) = (CHOOSE f : f = F(f))[n]
  BY DEF InsightAll, Each
<1>2. n \in Nat
  BY SeqFacts
<1>3. \A v, i : Turn("insights", s, q, y, v, i) = Yield(s, v, <<"insight", q, y[i]>>)
  BY DEF Turn
<1> HIDE DEF n
<1>4. PICK g : Recurs(g, "insights", s, q, y, b, n)
  BY <1>2, WalkExists
<1>5. g = F(g)
  BY <1>3, <1>4 DEF Recurs
<1>6. PICK f : f = F(f) /\ f = (CHOOSE z : z = F(z))
  BY <1>5
<1>7. Walks(f, "insights", s, q, y, b, n)
  BY <1>2, <1>3, <1>6 DEF Walks
<1> QED
  BY <1>1, <1>6, <1>7 DEF n

LEMMA InsightAllLeads ==
  ASSUME NEW s, NEW t, Extends(s, t), NEW w, Good(s, w), Open(w), NEW q, NEW y, IsSeq(y)
  PROVE  Leads(s, t, w, InsightAll(s, w, q, y), InsightAll(t, w, q, y))
<1> DEFINE n == Len(y)
<1>1. n \in Nat
  BY SeqFacts
<1>2. PICK f : Walks(f, "insights", s, q, y, w, n) /\ InsightAll(s, w, q, y) = f[n]
  BY InsightAllWalk
<1>3. PICK g : Walks(g, "insights", t, q, y, w, n) /\ InsightAll(t, w, q, y) = g[n]
  BY InsightAllWalk
<1>4. ASSUME NEW v, NEW i \in 1 .. n
      PROVE  /\ Good(s, v) /\ Open(v)
                  => Leads(s, t, v, Turn("insights", s, q, y, v, i), Turn("insights", t, q, y, v, i))
             /\ Good(t, v) /\ Open(v)
                  => Leads(t, t, v, Turn("insights", t, q, y, v, i), Turn("insights", t, q, y, v, i))
  <2>1. /\ Turn("insights", s, q, y, v, i) = Yield(s, v, <<"insight", q, y[i]>>)
        /\ Turn("insights", t, q, y, v, i) = Yield(t, v, <<"insight", q, y[i]>>)
    BY DEF Turn
  <2> QED
    BY <2>1, InsightLeads, ExtendsItself
<1> HIDE DEF n
<1> QED
  BY <1>1, <1>2, <1>3, <1>4, TurnsLead

LEMMA FreshLeads ==
  ASSUME NEW s, NEW t, Extends(s, t), NEW w, Good(s, w), Open(w)
  PROVE  Leads(s, t, w, Fresh(w), Fresh(w))
<1> DEFINE v == Fresh(w)
<1>1. DOMAIN w = WalkFields /\ Walk(w)
  BY DEF Good, Walk
<1>2. v = [w EXCEPT !.seen = {}, !.found = {}, !.dry = 0, !.reason = "search_strategy_limit"]
  BY DEF Fresh
<1>3. IsFiniteSet({})
  BY FS_EmptySet
<1>4. Walk(v) /\ v.visited = w.visited /\ v.pending = w.pending /\ v.events = w.events
  BY <1>1, <1>2, <1>3 DEF Walk, WalkFields
<1> HIDE DEF v
<1>5. Leads(s, t, w, v, v)
  BY <1>4, LocalLeads DEF Good, Open, Grown
<1> QED
  BY <1>5 DEF v

LEMMA RoundsIsSeq == IsSeq(Rounds)
<1>1. Strategies \in Nat
  BY EngineAssumption
<1>2. Upto(Strategies) \in [1 .. Strategies -> Int]
  BY <1>1 DEF Upto
<1>3. Upto(Strategies) \in Seq(Int)
  BY <1>1, <1>2
<1>4. <<0>> \in Seq(Int) /\ <<>> \in Seq(Int)
  OBVIOUS
<1>5. Rounds \in Seq(Int)
  BY <1>3, <1>4 DEF Rounds
<1> QED
  BY <1>5 DEF IsSeq

LEMMA CollectLeads ==
  ASSUME NEW s, NEW t, Extends(s, t), NEW w, Good(s, w), Open(w), NEW q
  PROVE  Leads(s, t, w, Collect(s, w, q), Collect(t, w, q))
<1> DEFINE v == Fresh(w)
           a == RoundAll(s, v, q, Rounds)
           b == RoundAll(t, v, q, Rounds)
           c == IF Open(a) THEN Row(a, <<Outcome(a), q, 0>>) ELSE a
           d == IF Open(b) THEN Row(b, <<Outcome(b), q, 0>>) ELSE b
<1>1. Collect(s, w, q) = c
  BY DEF Collect, Then, RoundAll, Each
<1>2. Collect(t, w, q) = d
  BY DEF Collect, Then, RoundAll, Each
<1>3. Leads(s, t, w, v, v) /\ Open(v)
  <2>1. Leads(s, t, w, v, v)
    BY FreshLeads
  <2>2. DOMAIN w = WalkFields
    BY DEF Good, Walk
  <2>3. v.pending = w.pending
    BY <2>2 DEF Fresh, WalkFields
  <2> QED
    BY <2>1, <2>3 DEF Open
<1> HIDE DEF v
<1>4. Leads(s, t, v, a, b)
  BY <1>3, RoundAllLeads, RoundsIsSeq DEF Leads
<1> HIDE DEF a, b
<1>5. ASSUME Open(a) PROVE Leads(s, t, a, c, d)
  BY <1>4, <1>5, RowLeads DEF Leads
<1>6. ASSUME Open(b) PROVE Leads(t, t, b, d, d)
  BY <1>4, <1>6, RowLeads, ExtendsItself DEF Leads
<1>7. Leads(s, t, v, c, d)
  BY <1>4, <1>5, <1>6, ThenLeads
<1> QED
  BY <1>1, <1>2, <1>3, <1>7, GrownLeads DEF Leads

LEMMA DecideLeads ==
  ASSUME NEW s, NEW t, Extends(s, t), NEW w, Good(s, w), Open(w), NEW q
  PROVE  Leads(s, t, w, Decide(s, w, q), Decide(t, w, q))
<1> DEFINE y == Upto(Groups(w, q))
<1>1. Decide(s, w, q) = InsightAll(s, w, q, y) /\ Decide(t, w, q) = InsightAll(t, w, q, y)
  BY DEF Decide, InsightAll, Each
<1>2. Groups(w, q) \in Int
  <2> DEFINE S == {i \in DOMAIN w.claims : w.claims[i] = q}
  <2>1. IsSeq(w.claims)
    BY DEF Good, Walk
  <2>2. DOMAIN w.claims = 1 .. Len(w.claims) /\ Len(w.claims) \in Nat
    BY <2>1, SeqFacts
  <2>3. IsFiniteSet(1 .. Len(w.claims))
    BY <2>2, FS_Interval
  <2>4. IsFiniteSet(S)
    BY <2>2, <2>3, FS_Subset
  <2>5. Cardinality(S) \in Nat
    BY <2>4, FS_CardinalityType
  <2>6. GroupSize \in Nat \ {0}
    BY EngineAssumption
  <2> HIDE DEF S
  <2>7. (Cardinality(S) + GroupSize - 1) \div GroupSize \in Int
    BY <2>5, <2>6
  <2> QED
    BY <2>7 DEF Groups, S
<1>3. IsSeq(y)
  BY <1>2, UptoIsSeq
<1> HIDE DEF y
<1> QED
  BY <1>1, <1>3, InsightAllLeads

(* The rounds of every question.                                           *)
CollectAll(s, w, y) == Each(w, y, LAMBDA v, e : Collect(s, v, e))

LEMMA CollectAllWalk ==
  ASSUME NEW s, NEW b, NEW y, IsSeq(y)
  PROVE  \E f : Walks(f, "collect", s, <<>>, y, b, Len(y)) /\ CollectAll(s, b, y) = f[Len(y)]
<1> DEFINE n == Len(y)
           F(f) == [i \in 0 .. n |-> IF i = 0 THEN b
                                    ELSE IF Open(f[i - 1]) THEN Collect(s, f[i - 1], y[i]) ELSE f[i - 1]]
<1>1. CollectAll(s, b, y) = (CHOOSE f : f = F(f))[n]
  BY DEF CollectAll, Each
<1>2. n \in Nat
  BY SeqFacts
<1>3. \A v, i : Turn("collect", s, <<>>, y, v, i) = Collect(s, v, y[i])
  BY DEF Turn
<1> HIDE DEF n
<1>4. PICK g : Recurs(g, "collect", s, <<>>, y, b, n)
  BY <1>2, WalkExists
<1>5. g = F(g)
  BY <1>3, <1>4 DEF Recurs
<1>6. PICK f : f = F(f) /\ f = (CHOOSE z : z = F(z))
  BY <1>5
<1>7. Walks(f, "collect", s, <<>>, y, b, n)
  BY <1>2, <1>3, <1>6 DEF Walks
<1> QED
  BY <1>1, <1>6, <1>7 DEF n

LEMMA CollectAllLeads ==
  ASSUME NEW s, NEW t, Extends(s, t), NEW w, Good(s, w), Open(w), NEW y, IsSeq(y)
  PROVE  Leads(s, t, w, CollectAll(s, w, y), CollectAll(t, w, y))
<1> DEFINE n == Len(y)
<1>1. n \in Nat
  BY SeqFacts
<1>2. PICK f : Walks(f, "collect", s, <<>>, y, w, n) /\ CollectAll(s, w, y) = f[n]
  BY CollectAllWalk
<1>3. PICK g : Walks(g, "collect", t, <<>>, y, w, n) /\ CollectAll(t, w, y) = g[n]
  BY CollectAllWalk
<1>4. ASSUME NEW v, NEW i \in 1 .. n
      PROVE  /\ Good(s, v) /\ Open(v)
                  => Leads(s, t, v, Turn("collect", s, <<>>, y, v, i), Turn("collect", t, <<>>, y, v, i))
             /\ Good(t, v) /\ Open(v)
                  => Leads(t, t, v, Turn("collect", t, <<>>, y, v, i), Turn("collect", t, <<>>, y, v, i))
  <2>1. /\ Turn("collect", s, <<>>, y, v, i) = Collect(s, v, y[i])
        /\ Turn("collect", t, <<>>, y, v, i) = Collect(t, v, y[i])
    BY DEF Turn
  <2> QED
    BY <2>1, CollectLeads, ExtendsItself
<1> HIDE DEF n
<1> QED
  BY <1>1, <1>2, <1>3, <1>4, TurnsLead

(* The insights of every question.                                         *)
DecideAll(s, w, y) == Each(w, y, LAMBDA v, e : Decide(s, v, e))

LEMMA DecideAllWalk ==
  ASSUME NEW s, NEW b, NEW y, IsSeq(y)
  PROVE  \E f : Walks(f, "decide", s, <<>>, y, b, Len(y)) /\ DecideAll(s, b, y) = f[Len(y)]
<1> DEFINE n == Len(y)
           F(f) == [i \in 0 .. n |-> IF i = 0 THEN b
                                    ELSE IF Open(f[i - 1]) THEN Decide(s, f[i - 1], y[i]) ELSE f[i - 1]]
<1>1. DecideAll(s, b, y) = (CHOOSE f : f = F(f))[n]
  BY DEF DecideAll, Each
<1>2. n \in Nat
  BY SeqFacts
<1>3. \A v, i : Turn("decide", s, <<>>, y, v, i) = Decide(s, v, y[i])
  BY DEF Turn
<1> HIDE DEF n
<1>4. PICK g : Recurs(g, "decide", s, <<>>, y, b, n)
  BY <1>2, WalkExists
<1>5. g = F(g)
  BY <1>3, <1>4 DEF Recurs
<1>6. PICK f : f = F(f) /\ f = (CHOOSE z : z = F(z))
  BY <1>5
<1>7. Walks(f, "decide", s, <<>>, y, b, n)
  BY <1>2, <1>3, <1>6 DEF Walks
<1> QED
  BY <1>1, <1>6, <1>7 DEF n

LEMMA DecideAllLeads ==
  ASSUME NEW s, NEW t, Extends(s, t), NEW w, Good(s, w), Open(w), NEW y, IsSeq(y)
  PROVE  Leads(s, t, w, DecideAll(s, w, y), DecideAll(t, w, y))
<1> DEFINE n == Len(y)
<1>1. n \in Nat
  BY SeqFacts
<1>2. PICK f : Walks(f, "decide", s, <<>>, y, w, n) /\ DecideAll(s, w, y) = f[n]
  BY DecideAllWalk
<1>3. PICK g : Walks(g, "decide", t, <<>>, y, w, n) /\ DecideAll(t, w, y) = g[n]
  BY DecideAllWalk
<1>4. ASSUME NEW v, NEW i \in 1 .. n
      PROVE  /\ Good(s, v) /\ Open(v)
                  => Leads(s, t, v, Turn("decide", s, <<>>, y, v, i), Turn("decide", t, <<>>, y, v, i))
             /\ Good(t, v) /\ Open(v)
                  => Leads(t, t, v, Turn("decide", t, <<>>, y, v, i), Turn("decide", t, <<>>, y, v, i))
  <2>1. /\ Turn("decide", s, <<>>, y, v, i) = Decide(s, v, y[i])
        /\ Turn("decide", t, <<>>, y, v, i) = Decide(t, v, y[i])
    BY DEF Turn
  <2> QED
    BY <2>1, DecideLeads, ExtendsItself
<1> HIDE DEF n
<1> QED
  BY <1>1, <1>2, <1>3, <1>4, TurnsLead

LEMMA CollectAllStopped ==
  ASSUME NEW s, NEW w, ~Open(w), NEW y, IsSeq(y)
  PROVE  CollectAll(s, w, y) = w
<1>1. Len(y) \in Nat
  BY SeqFacts
<1>2. PICK f : Walks(f, "collect", s, <<>>, y, w, Len(y)) /\ CollectAll(s, w, y) = f[Len(y)]
  BY CollectAllWalk
<1> QED
  BY <1>1, <1>2, StoppedWalks

LEMMA DecideAllStopped ==
  ASSUME NEW s, NEW w, ~Open(w), NEW y, IsSeq(y)
  PROVE  DecideAll(s, w, y) = w
<1>1. Len(y) \in Nat
  BY SeqFacts
<1>2. PICK f : Walks(f, "decide", s, <<>>, y, w, Len(y)) /\ DecideAll(s, w, y) = f[Len(y)]
  BY DecideAllWalk
<1> QED
  BY <1>1, <1>2, StoppedWalks

(* The observations and the claims over them.                              *)
Analyzed(s, w) == IF Open(Observe(s, w)) THEN Analyze(s, Observe(s, w)) ELSE Observe(s, w)

LEMMA AnalyzedLeads ==
  ASSUME NEW s, NEW t, Extends(s, t), NEW w, Good(s, w), Open(w)
  PROVE  Leads(s, t, w, Analyzed(s, w), Analyzed(t, w))
<1>1. ASSUME NEW v, Walk(v)
      PROVE  IsSeq(Upto(Len(Quotes(v))))
  <2>1. IsSeq(Quotes(v))
    BY <1>1, QuotesIsSeq DEF Walk
  <2>2. Len(Quotes(v)) \in Int
    BY <2>1, SeqFacts
  <2> QED
    BY <2>2, UptoIsSeq
<1>2. ASSUME NEW x, NEW v
      PROVE  /\ Observe(x, v) = ObserveAll(x, v, Upto(Len(Quotes(v))))
             /\ Analyze(x, v) = ClaimAll(x, v, Quotes(v), Upto(Len(Quotes(v))))
  <2>1. Observe(x, v) = ObserveAll(x, v, Upto(Len(Quotes(v))))
    BY DEF Observe, ObserveAll, Observed, Then, Each
  <2>2. Analyze(x, v) = ClaimAll(x, v, Quotes(v), Upto(Len(Quotes(v))))
    BY DEF Analyze, ClaimAll, Each
  <2> QED
    BY <2>1, <2>2
<1> DEFINE a == Observe(s, w)
           b == Observe(t, w)
           c == IF Open(a) THEN Analyze(s, a) ELSE a
           d == IF Open(b) THEN Analyze(t, b) ELSE b
<1>3. Analyzed(s, w) = c /\ Analyzed(t, w) = d
  BY DEF Analyzed
<1>4. Leads(s, t, w, a, b)
  BY <1>1, <1>2, ObserveAllLeads DEF Good
<1> HIDE DEF a, b
<1>5. ASSUME Open(a) PROVE Leads(s, t, a, c, d)
  <2>1. Good(s, a) /\ b = a /\ IsSeq(Upto(Len(Quotes(a))))
    BY <1>1, <1>4, <1>5 DEF Leads, Good
  <2> QED
    BY <1>2, <1>5, <2>1, ClaimAllLeads
<1>6. ASSUME Open(b) PROVE Leads(t, t, b, d, d)
  <2>1. Good(t, b) /\ Extends(t, t) /\ IsSeq(Upto(Len(Quotes(b))))
    BY <1>1, <1>4, ExtendsItself DEF Leads, Good
  <2> QED
    BY <1>2, <1>6, <2>1, ClaimAllLeads
<1> QED
  BY <1>3, <1>4, <1>5, <1>6, ThenLeads

LEMMA StartGood ==
  ASSUME NEW s
  PROVE  Good(s, Start) /\ Open(Start)
<1> PICK w : w = Start
  OBVIOUS
<1>1. /\ w = [x \in WalkFields |-> w[x]]
      /\ w.pending = NoElement /\ w.visited = {} /\ w.fetched = 0 /\ w.seen = {}
      /\ w.excerpts = <<>> /\ w.claims = <<>>
  BY DEF Start, WalkFields
<1>2. <<>> \in Seq({})
  OBVIOUS
<1>3. IsFiniteSet(w.seen)
  BY <1>1, FS_EmptySet
<1>4. IsSeq(w.excerpts) /\ IsSeq(w.claims)
  BY <1>1, <1>2 DEF IsSeq
<1>5. Walk(w) /\ Open(w)
  BY <1>1, <1>3, <1>4 DEF Walk, Open
<1> QED
  BY <1>1, <1>5 DEF Good

(* The schedule goes on where it stopped, whatever is settled since: it    *)
(* passes what it passed, logs what it logged, and passes what it had      *)
(* asked for.                                                              *)
LEMMA ScheduleLeads ==
  ASSUME NEW s, NEW t, Extends(s, t)
  PROVE  Leads(s, t, Start, Schedule(s), Schedule(t))
<1> DEFINE y == Upto(Questions)
           a1 == AskAll(s, Start, y)
           b1 == AskAll(t, Start, y)
           a2 == CollectAll(s, a1, y)
           b2 == CollectAll(t, b1, y)
           a3 == IF Open(a2) THEN Analyzed(s, a2) ELSE a2
           b3 == IF Open(b2) THEN Analyzed(t, b2) ELSE b2
           a4 == DecideAll(s, a3, y)
           b4 == DecideAll(t, b3, y)
<1>1. Schedule(s) = a4
  BY DEF Schedule, AskAll, CollectAll, Analyzed, DecideAll, Then, Each
<1>2. Schedule(t) = b4
  BY DEF Schedule, AskAll, CollectAll, Analyzed, DecideAll, Then, Each
<1>3. IsSeq(y) /\ Extends(t, t)
  BY UptoIsSeq, EngineAssumption, ExtendsItself
<1> HIDE DEF y
<1>4. Leads(s, t, Start, a1, b1)
  BY <1>3, StartGood, AskAllLeads
<1> HIDE DEF a1, b1
<1>5. Leads(s, t, Start, a2, b2)
  <2>1. Open(a1) => Leads(s, t, a1, a2, b2)
    BY <1>3, <1>4, CollectAllLeads DEF Leads
  <2>2. Open(b1) => Leads(t, t, b1, b2, b2)
    BY <1>3, <1>4, CollectAllLeads DEF Leads
  <2>3. (~Open(a1) => a2 = a1) /\ (~Open(b1) => b2 = b1)
    BY <1>3, CollectAllStopped
  <2> HIDE DEF a2, b2
  <2> QED
    BY <1>4, <2>1, <2>2, <2>3, ThenLeads
<1> HIDE DEF a2, b2
<1>6. Leads(s, t, Start, a3, b3)
  <2>1. Open(a2) => Leads(s, t, a2, a3, b3)
    BY <1>5, AnalyzedLeads DEF Leads
  <2>2. Open(b2) => Leads(t, t, b2, b3, b3)
    BY <1>3, <1>5, AnalyzedLeads DEF Leads
  <2> QED
    BY <1>5, <2>1, <2>2, ThenLeads
<1> HIDE DEF a3, b3
<1>7. Leads(s, t, Start, a4, b4)
  <2>1. Open(a3) => Leads(s, t, a3, a4, b4)
    BY <1>3, <1>6, DecideAllLeads DEF Leads
  <2>2. Open(b3) => Leads(t, t, b3, b4, b4)
    BY <1>3, <1>6, DecideAllLeads DEF Leads
  <2>3. (~Open(a3) => a4 = a3) /\ (~Open(b3) => b4 = b3)
    BY <1>3, DecideAllStopped
  <2> HIDE DEF a4, b4
  <2> QED
    BY <1>6, <2>1, <2>2, <2>3, ThenLeads
<1> QED
  BY <1>1, <1>2, <1>7

-----------------------------------------------------------------------------

Fields == {"answers", "abandoned", "ledger", "history", "attempt", "status", "pending", "limit",
           "files", "previous", "started", "last"}

IsCkpt(s) ==
  /\ s = [x \in Fields |-> s[x]]
  /\ s.status \in {"WAITING", "BLOCKED", "COMPLETED"}

Always == {"records", "log"}

(* What the checkpoint says of the files: the scan comes with the end of   *)
(* the run, and nothing the engine wrote is somebody else's.               *)
Projected(s) ==
  /\ DOMAIN s.files = Always \/ (DOMAIN s.files = FileNames /\ s.status # "WAITING")
  /\ \A f \in DOMAIN s.files : s.files[f] # Foreign
  /\ \A f \in DOMAIN s.previous : s.previous[f] # Foreign

FilesInv ==
  /\ DOMAIN disk = FileNames /\ edited \subseteq FileNames
  /\ EditsKept
  /\ ckpt = NoRun => /\ ~Holding
                     /\ edited \subseteq {"records"}
                     /\ \A f \in FileNames \ edited : disk[f] = Empty
  /\ ckpt # NoRun => /\ IsCkpt(ckpt) /\ Projected(ckpt)
                     /\ \A f \in FileNames \ (DOMAIN ckpt.files \cup edited) : disk[f] = Empty
  /\ FilesRepairable

(* The failures of an element are its first attempts, one by one.          *)
Failed(e, n) == {[element |-> e, attempt |-> k, good |-> FALSE] : k \in 1 .. n}
Closed(s) == DOMAIN s.answers \cup s.abandoned

Accounted(s) ==
  /\ s.attempt \in 1 .. MaxAttempts
  /\ \A h, k \in s.history : h.element = k.element /\ h.attempt = k.attempt => h = k
  /\ {h.element : h \in {h \in s.history : h.good}} = DOMAIN s.answers
  /\ \A e \in s.abandoned : {h \in s.history : h.element = e /\ ~h.good} = Failed(e, MaxAttempts)
  /\ s.status = "WAITING" =>
       /\ s.pending = Schedule(Inputs(s)).pending
       /\ {h \in s.history : h.element = s.pending /\ ~h.good} = Failed(s.pending, s.attempt - 1)
       /\ \A h \in s.history : h.element \in Closed(s) \cup {s.pending}

AttemptsInv == ckpt # NoRun => Accounted(ckpt)

-----------------------------------------------------------------------------
(* The operators of the checkpoint, field by field.                        *)

LEMMA Fielded ==
  ASSUME NEW s, IsCkpt(s)
  PROVE  DOMAIN s = Fields /\ s.status # "NONE" /\ s # NoRun
<1>1. DOMAIN s = Fields /\ s.status # "NONE"
  BY DEF IsCkpt
<1>2. s # NoRun
  BY <1>1 DEF NoRun
<1> QED
  BY <1>1, <1>2

LEMMA ProjectionFacts ==
  ASSUME NEW s, NEW w
  PROVE  /\ \/ DOMAIN Projection(s, w) = Always
            \/ DOMAIN Projection(s, w) = FileNames /\ (Open(w) \/ s.status = "BLOCKED")
         /\ \A f \in DOMAIN Projection(s, w) : Projection(s, w)[f] # Foreign
         /\ Projection(s, w)["log"] = Ours(w.events)
<1>1. \A lines : Ours(lines) # Foreign
  <2>1. \A lines : Ours(lines).by = "engine" /\ Foreign.by = "somebody"
    BY DEF Ours, Foreign
  <2> QED
    BY <2>1
<1> DEFINE sources == {<<"source", i, 0>> : i \in DOMAIN s.ledger}
           given_up == IF s.status = "BLOCKED" THEN {<<"blocked", 0, 0>>} ELSE {}
           r == Ours(w.rows \cup sources \cup given_up)
           l == Ours(w.events)
           x == Ours({<<"scan", 0, 0>>})
<1>2. Projection(s, w) = IF w.claims # <<>> /\ (Open(w) \/ s.status = "BLOCKED")
                         THEN [records |-> r, log |-> l, scan |-> x] ELSE [records |-> r, log |-> l]
  BY DEF Projection
<1>3. r # Foreign /\ l # Foreign /\ x # Foreign
  BY <1>1
<1>4. Projection(s, w)["log"] = l
  BY <1>2
<1> HIDE DEF r, l, x
<1>5. /\ \/ DOMAIN Projection(s, w) = Always
         \/ DOMAIN Projection(s, w) = FileNames /\ (Open(w) \/ s.status = "BLOCKED")
      /\ \A f \in DOMAIN Projection(s, w) : Projection(s, w)[f] # Foreign
  BY <1>2, <1>3 DEF Always, FileNames
<1> QED
  BY <1>4, <1>5 DEF l

(* Advance recomputes what follows from the answers and touches nothing    *)
(* else.                                                                   *)
LEMMA AdvanceFacts ==
  ASSUME NEW s, IsCkpt(s), NEW a, a = Advance(s)
  PROVE  /\ IsCkpt(a) /\ Inputs(a) = Inputs(s)
         /\ a.answers = s.answers /\ a.abandoned = s.abandoned /\ a.history = s.history /\ a.attempt = s.attempt
         /\ a.last = s.last
         /\ s.status = "BLOCKED" => a.status = "BLOCKED"
         /\ a.status = "WAITING" => a.pending = Schedule(Inputs(s)).pending /\ s.status # "BLOCKED"
         /\ DOMAIN a.files = Always \/ (DOMAIN a.files = FileNames /\ a.status # "WAITING")
         /\ \A f \in DOMAIN a.files : a.files[f] # Foreign
         /\ a.previous = IF DOMAIN s.files = {} THEN s.previous ELSE s.files
         /\ a.status = "WAITING" => ~Open(Schedule(Inputs(s)))
         /\ a.status # "WAITING" => a.pending = NoElement
         /\ a.limit \in {0, Remaining(Schedule(Inputs(s)))}
         /\ a.limit # 0 => Schedule(Inputs(s)).pending[1] = "search"
         /\ a.files["log"] = Ours(Schedule(Inputs(s)).events)
<1> DEFINE w == Schedule(Inputs(s))
           blocked == s.status = "BLOCKED"
           v == IF DOMAIN s.files = {} THEN s.previous ELSE s.files
           p == IF blocked THEN NoElement ELSE w.pending
           l == IF blocked THEN 0 ELSE IF w.pending[1] = "search" THEN Remaining(w) ELSE 0
           t == IF blocked THEN "BLOCKED" ELSE IF Open(w) THEN "COMPLETED" ELSE "WAITING"
           g == Projection(s, w)
<1>1. a = [s EXCEPT !.previous = v, !.pending = p, !.limit = l, !.status = t, !.files = g]
  BY DEF Advance
<1>2. /\ DOMAIN g = Always \/ (DOMAIN g = FileNames /\ t # "WAITING")
      /\ \A f \in DOMAIN g : g[f] # Foreign
      /\ g["log"] = Ours(w.events)
  <2>1. Open(w) \/ blocked => t # "WAITING"
    OBVIOUS
  <2> HIDE DEF w
  <2> QED
    BY <2>1, ProjectionFacts
<1>3. t \in {"WAITING", "BLOCKED", "COMPLETED"} /\ (blocked => t = "BLOCKED") /\ (t = "WAITING" => ~blocked)
  OBVIOUS
<1>4. DOMAIN s = Fields /\ s = [x \in Fields |-> s[x]]
  BY DEF IsCkpt
<1>5. /\ t = "WAITING" => p = Schedule(Inputs(s)).pending /\ ~Open(w)
      /\ t # "WAITING" => p = NoElement
      /\ l \in {0, Remaining(w)} /\ (l # 0 => w.pending[1] = "search")
  BY DEF Open
<1> HIDE DEF v, p, l, t, g
<1>6. a = [x \in Fields |-> a[x]]
  BY <1>1, <1>4
<1>7. /\ a.previous = v /\ a.pending = p /\ a.status = t /\ a.files = g /\ a.limit = l
      /\ a.answers = s.answers /\ a.abandoned = s.abandoned /\ a.history = s.history /\ a.attempt = s.attempt
      /\ a.ledger = s.ledger /\ a.last = s.last
  BY <1>1, <1>4 DEF Fields
<1>8. Inputs(a) = Inputs(s)
  BY <1>7 DEF Inputs
<1>9. IsCkpt(a)
  BY <1>3, <1>6, <1>7 DEF IsCkpt
<1> QED
  BY <1>2, <1>3, <1>5, <1>7, <1>8, <1>9 DEF v

LEMMA SeenFacts ==
  ASSUME IsCkpt(ckpt), NEW now, NEW s, s = Seen(now)
  PROVE  /\ IsCkpt(s) /\ Inputs(s) = Inputs(ckpt)
         /\ \A x \in Fields \ {"last"} : s[x] = ckpt[x]
         /\ s.last = now
<1>1. s = [ckpt EXCEPT !.last = now] /\ DOMAIN ckpt = Fields
  BY Fielded DEF Seen
<1>2. s = [x \in Fields |-> s[x]] /\ s.last = now /\ \A x \in Fields \ {"last"} : s[x] = ckpt[x]
  BY <1>1 DEF Fields, IsCkpt
<1> QED
  BY <1>2 DEF IsCkpt, Inputs, Fields

LEMMA BlockFacts ==
  ASSUME NEW s, IsCkpt(s), NEW b, b = Block(s)
  PROVE  /\ IsCkpt(b) /\ b.status = "BLOCKED" /\ Inputs(b) = Inputs(s)
         /\ \A x \in Fields \ {"status", "pending"} : b[x] = s[x]
<1>1. b = [s EXCEPT !.status = "BLOCKED", !.pending = NoElement] /\ DOMAIN s = Fields
  BY Fielded DEF Block
<1>2. /\ b = [x \in Fields |-> b[x]] /\ b.status = "BLOCKED"
      /\ \A x \in Fields \ {"status", "pending"} : b[x] = s[x]
  BY <1>1 DEF Fields, IsCkpt
<1> QED
  BY <1>2 DEF IsCkpt, Inputs, Fields

(* A judged answer, before the schedule is walked again.                   *)
Taken(s, m) ==
  LET entry == [element |-> s.pending, attempt |-> s.attempt, good |-> m.good]
      noted == [s EXCEPT !.history = @ \cup {entry}]
  IN  IF m.good THEN Accept(noted, m) ELSE Reject(noted, m)

LEMMA TakenFacts ==
  ASSUME NEW s, IsCkpt(s), s.status = "WAITING", NEW m, m.element = s.pending, m.good \in BOOLEAN,
         NEW k, k = Taken(s, m)
  PROVE  /\ Judged(s, m) = Advance(k)
         /\ IsCkpt(k) /\ k.files = s.files /\ k.previous = s.previous /\ k.last = s.last
         /\ k.history = s.history \cup {[element |-> s.pending, attempt |-> s.attempt, good |-> m.good]}
         /\ m.good => /\ DOMAIN k.answers = DOMAIN s.answers \cup {s.pending} /\ k.abandoned = s.abandoned
                      /\ k.attempt = 1 /\ k.answers = Answered(s.answers, m)
                      /\ k.ledger = IF m.element[1] = "search" THEN Pin(s.ledger, m.value) ELSE s.ledger
         /\ ~m.good => /\ k.answers = s.answers /\ k.ledger = s.ledger
                       /\ \/ s.attempt < MaxAttempts /\ k.attempt = s.attempt + 1 /\ Inputs(k) = Inputs(s)
                             /\ k.abandoned = s.abandoned
                          \/ ~(s.attempt < MaxAttempts) /\ k.abandoned = s.abandoned \cup {s.pending} /\ k.attempt = 1
                             /\ Abandonable(s.pending)
                          \/ ~(s.attempt < MaxAttempts) /\ k.status = "BLOCKED"
                             /\ k.abandoned = s.abandoned /\ k.attempt = s.attempt
<1> DEFINE entry == [element |-> s.pending, attempt |-> s.attempt, good |-> m.good]
           noted == [s EXCEPT !.history = @ \cup {entry}]
<1>1. k = (IF m.good THEN Accept(noted, m) ELSE Reject(noted, m)) /\ Judged(s, m) = Advance(k)
  BY DEF Taken, Judged
<1>2. DOMAIN s = Fields /\ s = [x \in Fields |-> s[x]]
  BY DEF IsCkpt
<1> HIDE DEF entry
<1>3. /\ noted = [x \in Fields |-> noted[x]] /\ DOMAIN noted = Fields
      /\ noted.history = s.history \cup {entry}
      /\ \A x \in Fields \ {"history"} : noted[x] = s[x]
  BY <1>2 DEF Fields
<1> HIDE DEF noted
<1>4. IsCkpt(noted) /\ Inputs(noted) = Inputs(s)
  BY <1>3 DEF IsCkpt, Inputs, Fields
<1>5. CASE m.good
  <2> DEFINE x == Answered(noted.answers, m)
             y == IF m.element[1] = "search" THEN Pin(noted.ledger, m.value) ELSE noted.ledger
  <2>1. k = [noted EXCEPT !.answers = x, !.ledger = y, !.attempt = 1]
    BY <1>1, <1>5 DEF Accept
  <2>2. /\ DOMAIN x = DOMAIN s.answers \cup {s.pending} /\ x = Answered(s.answers, m)
        /\ y = IF m.element[1] = "search" THEN Pin(s.ledger, m.value) ELSE s.ledger
    BY <1>3 DEF Answered, Fields
  <2> HIDE DEF x, y
  <2>3. /\ k = [z \in Fields |-> k[z]] /\ k.answers = x /\ k.attempt = 1 /\ k.ledger = y
        /\ \A z \in Fields \ {"answers", "ledger", "attempt"} : k[z] = noted[z]
    BY <1>3, <2>1 DEF Fields
  <2> QED
    BY <1>1, <1>3, <1>5, <2>2, <2>3 DEF IsCkpt, Fields, entry
<1>6. CASE ~m.good /\ s.attempt < MaxAttempts
  <2>1. k = [noted EXCEPT !.attempt = noted.attempt + 1]
    <3>1. noted.attempt = s.attempt
      BY <1>3 DEF Fields
    <3> QED
      BY <1>1, <1>6, <3>1 DEF Reject
  <2>2. /\ k = [z \in Fields |-> k[z]] /\ k.attempt = s.attempt + 1
        /\ \A z \in Fields \ {"attempt"} : k[z] = noted[z]
    BY <1>3, <2>1 DEF Fields
  <2>3. Inputs(k) = Inputs(s)
    BY <1>3, <2>2 DEF Inputs, Fields
  <2> QED
    BY <1>1, <1>3, <1>6, <2>2, <2>3 DEF IsCkpt, Fields, entry
<1>7. CASE ~m.good /\ ~(s.attempt < MaxAttempts) /\ Abandonable(m.element)
  <2>1. k = [noted EXCEPT !.abandoned = noted.abandoned \cup {m.element}, !.attempt = 1]
    BY <1>1, <1>3, <1>7 DEF Reject, Fields
  <2>2. /\ k = [z \in Fields |-> k[z]] /\ k.abandoned = s.abandoned \cup {s.pending} /\ k.attempt = 1
        /\ \A z \in Fields \ {"abandoned", "attempt"} : k[z] = noted[z]
    BY <1>3, <2>1 DEF Fields
  <2> QED
    BY <1>1, <1>3, <1>7, <2>2 DEF IsCkpt, Fields, entry
<1>8. CASE ~m.good /\ ~(s.attempt < MaxAttempts) /\ ~Abandonable(m.element)
  <2>1. k = Block(noted)
    BY <1>1, <1>3, <1>8 DEF Reject, Fields
  <2>2. /\ IsCkpt(k) /\ k.status = "BLOCKED" /\ \A z \in Fields \ {"status", "pending"} : k[z] = noted[z]
    BY <1>4, <2>1, BlockFacts
  <2> QED
    BY <1>1, <1>3, <1>8, <2>2 DEF Fields, entry
<1> QED
  BY <1>5, <1>6, <1>7, <1>8

-----------------------------------------------------------------------------
(* The files: what one command, or its death, or an edit makes of them.    *)

LEMMA Initially ==
  ASSUME NEW now, NEW s, s = Initial(now)
  PROVE  /\ IsCkpt(s) /\ s.files = <<>> /\ s.previous = [f \in Always |-> disk[f]]
         /\ s.answers = <<>> /\ s.abandoned = {} /\ s.ledger = <<>> /\ s.history = {} /\ s.attempt = 1
<1> DEFINE p == [f \in {"records", "log"} |-> disk[f]]
<1> HIDE DEF p
<1>1. s = [answers |-> <<>>, abandoned |-> {}, ledger |-> <<>>, history |-> {},
           attempt |-> 1, status |-> "WAITING", pending |-> NoElement, limit |-> 0,
           files |-> <<>>, previous |-> p, started |-> now, last |-> now]
  BY DEF Initial, p
<1>2. s = [x \in Fields |-> s[x]]
  BY <1>1 DEF Fields
<1>3. p = [f \in Always |-> disk[f]]
  BY DEF p, Always
<1> QED
  BY <1>1, <1>2, <1>3 DEF IsCkpt

LEMMA NotForeign == Empty # Foreign
<1>1. Empty.by = "engine" /\ Foreign.by = "somebody"
  BY DEF Empty, Ours, Foreign
<1> QED
  BY <1>1

LEMMA FilesInit == Init => FilesInv
<1> SUFFICES ASSUME Init PROVE FilesInv
  OBVIOUS
<1>1. ckpt = NoRun /\ cmd = "none" /\ edited = {} /\ disk = [f \in FileNames |-> Empty]
  BY DEF Init
<1>2. ~Holding
  BY <1>1 DEF Holding
<1> QED
  BY <1>1, <1>2 DEF FilesInv, EditsKept, FilesRepairable

LEMMA FilesInitialize ==
  ASSUME FilesInv, Initialize
  PROVE  FilesInv'
<1> PICK s : s = Initial(clock)
  OBVIOUS
<1> PICK a : a = Advance(s)
  OBVIOUS
<1>1. /\ ckpt = NoRun /\ ckpt' = a /\ UNCHANGED <<disk, edited>>
      /\ disk["records"] = Empty /\ edited \subseteq {"records"}
      /\ \A f \in FileNames \ edited : disk[f] = Empty
      /\ \A f \in edited : disk[f] = Foreign
      /\ DOMAIN disk = FileNames
  BY DEF Initialize, FilesInv, EditsKept
<1>2. edited = {}
  BY <1>1, NotForeign
<1>3. IsCkpt(s) /\ s.files = <<>> /\ s.previous = [f \in Always |-> disk[f]]
  BY Initially
<1>4. DOMAIN s.files = {}
  BY <1>3
<1>5. /\ IsCkpt(a) /\ a.previous = s.previous
      /\ DOMAIN a.files = Always \/ (DOMAIN a.files = FileNames /\ a.status # "WAITING")
      /\ \A f \in DOMAIN a.files : a.files[f] # Foreign
  BY <1>3, <1>4, AdvanceFacts
<1>6. a # NoRun
  BY <1>5, Fielded
<1>7. DOMAIN a.previous = Always /\ \A f \in Always : a.previous[f] = Empty
  BY <1>1, <1>2, <1>3, <1>5 DEF Always, FileNames
<1>8. Projected(a)
  BY <1>5, <1>7, NotForeign DEF Projected
<1>9. \A f \in FileNames : disk[f] = Empty /\ Held(a.previous, f) = Empty
  BY <1>1, <1>2, <1>7 DEF Held
<1>10. FilesRepairable'
  <2>1. \A f \in DOMAIN a.files : disk[f] = Held(a.previous, f)
    BY <1>5, <1>9 DEF Always, FileNames
  <2> QED
    BY <1>1, <2>1 DEF FilesRepairable
<1> QED
  BY <1>1, <1>2, <1>5, <1>6, <1>8, <1>9, <1>10 DEF FilesInv, EditsKept

(* A save under repaired files: the projection that is remembered is the   *)
(* one on the disk.                                                        *)
LEMMA FilesSave ==
  ASSUME FilesInv, Repaired, ckpt.status = "WAITING", NEW k, IsCkpt(k), k.files = ckpt.files, Save(Advance(k))
  PROVE  FilesInv'
<1> PICK a : a = Advance(k)
  OBVIOUS
<1>1. ckpt' = a /\ UNCHANGED <<disk, edited>> /\ cmd = "repair"
  BY DEF Save, Repaired
<1>2. ckpt # NoRun /\ DOMAIN disk = FileNames /\ edited \subseteq FileNames /\ \A f \in edited : disk[f] = Foreign
  BY <1>1 DEF FilesInv, Holding, EditsKept
<1>3. /\ DOMAIN ckpt.files = Always
      /\ \A f \in DOMAIN ckpt.files : ckpt.files[f] # Foreign
      /\ \A f \in FileNames \ (Always \cup edited) : disk[f] = Empty
  BY <1>2 DEF FilesInv, Projected
<1>4. \A f \in Always : disk[f] = ckpt.files[f]
  BY <1>3 DEF Repaired, Stale
<1>5. /\ IsCkpt(a) /\ a.previous = ckpt.files
      /\ DOMAIN a.files = Always \/ (DOMAIN a.files = FileNames /\ a.status # "WAITING")
      /\ \A f \in DOMAIN a.files : a.files[f] # Foreign
  <2>1. DOMAIN k.files # {}
    BY <1>3 DEF Always
  <2>2. a.previous = IF DOMAIN k.files = {} THEN k.previous ELSE k.files
    BY AdvanceFacts
  <2> QED
    BY <2>1, <2>2, AdvanceFacts
<1>6. a # NoRun
  BY <1>5, Fielded
<1>7. Projected(a)
  BY <1>3, <1>5 DEF Projected
<1>8. FilesRepairable'
  <2> SUFFICES ASSUME NEW f \in DOMAIN a.files \ edited
               PROVE  disk[f] = Held(a.previous, f)
    BY <1>1 DEF FilesRepairable
  <2>1. CASE f \in Always
    BY <1>3, <1>4, <1>5, <2>1 DEF Held
  <2>2. CASE f \notin Always
    <3>1. f \in FileNames
      BY <1>5, <2>2 DEF Always
    <3> QED
      BY <1>3, <1>5, <2>2, <3>1 DEF Held
  <2> QED
    BY <2>1, <2>2
<1>9. \A f \in FileNames \ (DOMAIN a.files \cup edited) : disk[f] = Empty
  BY <1>3, <1>5 DEF Always
<1> QED
  BY <1>1, <1>2, <1>5, <1>6, <1>7, <1>8, <1>9 DEF FilesInv, EditsKept

LEMMA FilesKept ==
  ASSUME FilesInv, Repaired, NEW now, Save(Seen(now))
  PROVE  FilesInv'
<1> PICK s : s = Seen(now)
  OBVIOUS
<1>1. ckpt' = s /\ UNCHANGED <<disk, edited>> /\ ckpt # NoRun
  BY DEF Save, Repaired, FilesInv, Holding
<1>2. IsCkpt(ckpt)
  BY <1>1 DEF FilesInv
<1>3. IsCkpt(s) /\ s.files = ckpt.files /\ s.previous = ckpt.previous /\ s.status = ckpt.status
  BY <1>2, SeenFacts DEF Fields
<1>4. s # NoRun
  BY <1>3, Fielded
<1>5. Projected(s)
  BY <1>1, <1>3 DEF FilesInv, Projected
<1>6. FilesRepairable' /\ EditsKept'
  BY <1>1, <1>3 DEF FilesInv, FilesRepairable, EditsKept
<1> QED
  BY <1>1, <1>3, <1>4, <1>5, <1>6 DEF FilesInv

(* A look at the files that passes finds none that somebody else edited.   *)
LEMMA FilesWrite ==
  ASSUME FilesInv, Write
  PROVE  FilesInv'
<1>1. PICK f \in Stale : disk' = [disk EXCEPT ![f] = ckpt.files[f]]
  BY DEF Write
<1>2. ckpt # NoRun /\ UNCHANGED <<ckpt, cmd, edited>> /\ Preflight
  BY DEF Write, FilesInv
<1>3. f \in DOMAIN ckpt.files /\ disk[f] # ckpt.files[f] /\ disk[f] \in {ckpt.files[f], Held(ckpt.previous, f)}
  BY <1>2 DEF Stale, Preflight
<1>4. /\ Projected(ckpt) /\ IsCkpt(ckpt)
      /\ DOMAIN disk = FileNames /\ edited \subseteq FileNames /\ \A g \in edited : disk[g] = Foreign
      /\ \A g \in FileNames \ (DOMAIN ckpt.files \cup edited) : disk[g] = Empty
      /\ \A g \in DOMAIN ckpt.files \ edited : disk[g] \in {ckpt.files[g], Held(ckpt.previous, g)}
  BY <1>2 DEF FilesInv, EditsKept, FilesRepairable
<1>5. disk[f] # Foreign
  BY <1>3, <1>4, NotForeign DEF Held, Projected
<1>6. f \notin edited
  BY <1>4, <1>5
<1>7. /\ DOMAIN disk' = FileNames /\ \A g \in FileNames \ {f} : disk'[g] = disk[g]
      /\ (f \in FileNames => disk'[f] = ckpt.files[f])
  BY <1>1, <1>4
<1>8. DOMAIN ckpt.files \subseteq FileNames
  BY <1>4 DEF Projected, Always, FileNames
<1>9. EditsKept'
  BY <1>2, <1>4, <1>6, <1>7 DEF EditsKept
<1>10. FilesRepairable'
  BY <1>2, <1>4, <1>7, <1>8 DEF FilesRepairable
<1>11. \A g \in FileNames \ (DOMAIN ckpt.files \cup edited) : disk'[g] = Empty
  BY <1>3, <1>4, <1>7
<1> QED
  BY <1>2, <1>4, <1>7, <1>9, <1>10, <1>11 DEF FilesInv

LEMMA FilesEdit ==
  ASSUME FilesInv, Edit
  PROVE  FilesInv'
<1>1. PICK f \in (IF ckpt = NoRun THEN {"records"} ELSE FileNames) \ edited :
        disk' = [disk EXCEPT ![f] = Foreign] /\ edited' = edited \cup {f}
  BY DEF Edit
<1>2. f \in FileNames /\ (ckpt = NoRun => f = "records") /\ UNCHANGED <<ckpt, cmd>>
  BY <1>1 DEF FileNames, Edit
<1>3. /\ DOMAIN disk = FileNames /\ edited \subseteq FileNames /\ \A g \in edited : disk[g] = Foreign
      /\ ckpt # NoRun => /\ IsCkpt(ckpt) /\ Projected(ckpt)
                         /\ \A g \in FileNames \ (DOMAIN ckpt.files \cup edited) : disk[g] = Empty
      /\ ckpt = NoRun => /\ ~Holding /\ edited \subseteq {"records"}
                         /\ \A g \in FileNames \ edited : disk[g] = Empty
      /\ ckpt # NoRun => \A g \in DOMAIN ckpt.files \ edited : disk[g] \in {ckpt.files[g], Held(ckpt.previous, g)}
  BY DEF FilesInv, EditsKept, FilesRepairable
<1>4. DOMAIN disk' = FileNames /\ disk'[f] = Foreign /\ \A g \in FileNames \ {f} : disk'[g] = disk[g]
  BY <1>1, <1>2, <1>3
<1>5. EditsKept'
  BY <1>1, <1>3, <1>4 DEF EditsKept
<1>6. ckpt # NoRun => DOMAIN ckpt.files \subseteq FileNames
  BY <1>3 DEF Projected, Always, FileNames
<1>7. FilesRepairable'
  BY <1>1, <1>2, <1>3, <1>4, <1>6 DEF FilesRepairable
<1>8. (ckpt = NoRun => /\ ~Holding /\ edited \subseteq {"records"}
                       /\ \A g \in FileNames \ edited : disk[g] = Empty)'
  BY <1>1, <1>2, <1>3, <1>4 DEF Holding
<1>9. (ckpt # NoRun => /\ IsCkpt(ckpt) /\ Projected(ckpt)
                       /\ \A g \in FileNames \ (DOMAIN ckpt.files \cup edited) : disk[g] = Empty)'
  <2>1. ckpt # NoRun => \A g \in FileNames \ (DOMAIN ckpt.files \cup edited') : disk'[g] = Empty
    BY <1>1, <1>3, <1>4
  <2> QED
    BY <1>2, <1>3, <2>1
<1>10. DOMAIN disk' = FileNames /\ edited' \subseteq FileNames
  BY <1>1, <1>2, <1>3, <1>4
<1> QED
  BY <1>5, <1>7, <1>8, <1>9, <1>10 DEF FilesInv

(* The answer that is judged is the one that was asked for.                *)
LEMMA MessageFacts ==
  ASSUME NEW r, NEW good \in BOOLEAN, NEW v, NEW m, m = Message(r, good, v), Matches(ckpt, m)
  PROVE  m.element = ckpt.pending /\ m.attempt = ckpt.attempt /\ m.good = good
<1>1. /\ m.element = r.element /\ m.attempt = r.attempt /\ m.good = good
      /\ [element |-> m.element, attempt |-> m.attempt] = [element |-> ckpt.pending, attempt |-> ckpt.attempt]
  BY DEF Message, Matches, Identity
<1> DEFINE p == [element |-> m.element, attempt |-> m.attempt]
           i == [element |-> ckpt.pending, attempt |-> ckpt.attempt]
<1>2. p.element = i.element /\ p.attempt = i.attempt
  BY <1>1
<1> QED
  BY <1>1, <1>2

(* Every step that changes the checkpoint, and how.                        *)
LEMMA Saves ==
  ASSUME IsCkpt(ckpt), TimeOut \/ TakeGood \/ TakeBad
  PROVE  /\ Repaired /\ ckpt.status = "WAITING"
         /\ \E now : LET s == Seen(now)
                     IN  \/ Save(Advance(Block(s)))
                         \/ \E m : /\ m.element = s.pending /\ m.good \in BOOLEAN /\ ~Replayed(ckpt, m)
                                   /\ Matches(ckpt, m) /\ Save(Judged(s, m))
                                   /\ m.good => \E r \in asked : r.element = m.element /\ m.value \in Values(r)
<1>1. CASE TimeOut
  BY <1>1 DEF TimeOut, Overdue
<1>2. CASE TakeGood
  <2>1. PICK r \in asked, now \in Now : \E m \in GoodAnswers(r) : Judgeable(m) /\ Save(Judged(Seen(now), m))
    BY <1>2 DEF TakeGood
  <2>2. PICK m \in GoodAnswers(r) : Judgeable(m) /\ Save(Judged(Seen(now), m))
    BY <2>1
  <2>3. PICK v \in Values(r) : m = Message(r, TRUE, v)
    BY DEF GoodAnswers
  <2>4. ckpt.status = "WAITING" /\ ~Replayed(ckpt, m) /\ Matches(ckpt, m)
    BY <2>2 DEF Judgeable
  <2>5. m.element = ckpt.pending /\ m.good = TRUE
    BY <2>3, <2>4, MessageFacts
  <2>6. Seen(now).pending = ckpt.pending
    BY SeenFacts DEF Fields
  <2>7. Repaired
    BY <1>2 DEF TakeGood
  <2>8. r.element = m.element /\ m.value = v
    BY <2>3 DEF Message
  <2> QED
    BY <2>2, <2>3, <2>4, <2>5, <2>6, <2>7, <2>8
<1>3. CASE TakeBad
  <2>1. PICK r \in asked, now \in Now : Judgeable(Bad(r)) /\ Save(Judged(Seen(now), Bad(r)))
    BY <1>3 DEF TakeBad
  <2>2. PICK m : m = Bad(r)
    OBVIOUS
  <2>3. m = Message(r, FALSE, "bad")
    BY <2>2 DEF Bad
  <2>4. ckpt.status = "WAITING" /\ ~Replayed(ckpt, m) /\ Matches(ckpt, m)
    BY <2>1, <2>2 DEF Judgeable
  <2>5. m.element = ckpt.pending /\ m.good = FALSE
    BY <2>3, <2>4, MessageFacts
  <2>6. Seen(now).pending = ckpt.pending
    BY SeenFacts DEF Fields
  <2>7. Repaired
    BY <1>3 DEF TakeBad
  <2> QED
    BY <2>1, <2>2, <2>4, <2>5, <2>6, <2>7
<1> QED
  BY <1>1, <1>2, <1>3

LEMMA FilesStep ==
  ASSUME FilesInv, [Next]_vars
  PROVE  FilesInv'
<1>1. CASE Initialize
  BY <1>1, FilesInitialize
<1>2. CASE Write
  BY <1>2, FilesWrite
<1>3. CASE Edit
  BY <1>3, FilesEdit
<1>4. CASE Keep
  BY <1>4, FilesKept DEF Keep
<1>5. CASE TimeOut \/ TakeGood \/ TakeBad
  <2>1. Repaired /\ IsCkpt(ckpt)
    BY <1>5 DEF TimeOut, TakeGood, TakeBad, Repaired, FilesInv, Holding
  <2>2. PICK now : LET s == Seen(now)
                   IN  \/ Save(Advance(Block(s)))
                       \/ \E m : /\ m.element = s.pending /\ m.good \in BOOLEAN /\ ~Replayed(ckpt, m)
                                 /\ Matches(ckpt, m) /\ Save(Judged(s, m))
    BY <1>5, <2>1, Saves
  <2>3. ckpt.status = "WAITING"
    BY <1>5, <2>1, Saves
  <2> PICK s : s = Seen(now)
    OBVIOUS
  <2>4. IsCkpt(s) /\ s.files = ckpt.files /\ s.status = "WAITING"
    BY <2>1, <2>3, SeenFacts DEF Fields
  <2>5. CASE Save(Advance(Block(s)))
    <3> PICK k : k = Block(s)
      OBVIOUS
    <3>1. IsCkpt(k) /\ k.files = ckpt.files
      BY <2>4, BlockFacts DEF Fields
    <3> QED
      BY <2>1, <2>3, <2>5, <3>1, FilesSave
  <2>6. CASE \E m : m.element = s.pending /\ m.good \in BOOLEAN /\ Save(Judged(s, m))
    <3>1. PICK m : m.element = s.pending /\ m.good \in BOOLEAN /\ Save(Judged(s, m))
      BY <2>6
    <3> PICK k : k = Taken(s, m)
      OBVIOUS
    <3>2. IsCkpt(k) /\ k.files = ckpt.files /\ Judged(s, m) = Advance(k)
      BY <2>4, <3>1, TakenFacts
    <3> QED
      BY <2>1, <2>3, <3>1, <3>2, FilesSave
  <2> QED
    BY <2>2, <2>5, <2>6
<1>6. CASE Lock \/ Crash
  BY <1>6 DEF FilesInv, EditsKept, FilesRepairable, Projected, Lock, Crash, Holding, Held
<1>7. CASE Raise \/ Refuse \/ Report
  BY <1>7 DEF FilesInv, EditsKept, FilesRepairable, Projected, Raise, Refuse, Report, Holding, Held
<1>8. CASE Tick \/ UNCHANGED vars
  BY <1>8 DEF FilesInv, EditsKept, FilesRepairable, Projected, Tick, vars, Holding, Held
<1> QED
  BY <1>1, <1>2, <1>3, <1>4, <1>5, <1>6, <1>7, <1>8 DEF Next, Step

(* What a command leaves in the files, wherever it dies: each of them is a *)
(* projection of the checkpoint or of the one before, so that the next     *)
(* command repairs it (materialize of tools/research_elements.py).         *)
THEOREM RepairAlwaysPossible == Spec => []FilesRepairable
<1>1. FilesInv => FilesRepairable
  BY DEF FilesInv
<1> QED
  BY <1>1, FilesInit, FilesStep, PTL DEF Spec

(* What somebody else made of a managed file stays, whatever commands run  *)
(* (the look at the files that materialize takes before it writes).        *)
THEOREM EditsAreKept == Spec => []EditsKept
<1>1. FilesInv => EditsKept
  BY DEF FilesInv
<1> QED
  BY <1>1, FilesInit, FilesStep, PTL DEF Spec

(* A run that is completed or blocked stays what it is: commands move      *)
(* nothing but its last_now.                                               *)
THEOREM Final == Spec => FinalForGood
<1> DEFINE Stays == ckpt # NoRun /\ ckpt.status # "WAITING" => ckpt' = [ckpt EXCEPT !.last = ckpt'.last]
<1>1. ASSUME FilesInv, [Next]_vars, ckpt # NoRun, ckpt.status # "WAITING"
      PROVE  ckpt' = [ckpt EXCEPT !.last = ckpt'.last]
  <2>1. IsCkpt(ckpt) /\ DOMAIN ckpt = Fields /\ ckpt = [x \in Fields |-> ckpt[x]]
    BY <1>1, Fielded DEF FilesInv, IsCkpt
  <2>2. ~(TimeOut \/ TakeGood \/ TakeBad) /\ ~Initialize
    BY <1>1, <2>1, Saves DEF Initialize
  <2>3. CASE Keep
    <3>1. PICK now : ckpt' = [ckpt EXCEPT !.last = now]
      BY <2>3 DEF Keep, Save, Seen
    <3>2. ckpt'.last = now
      BY <2>1, <3>1 DEF Fields
    <3> QED
      BY <3>1, <3>2
  <2>4. CASE ckpt' = ckpt
    BY <2>1, <2>4 DEF Fields
  <2>5. Keep \/ ckpt' = ckpt
    BY <1>1, <2>2 DEF Next, Step, Lock, Write, Raise, Refuse, Report, Crash, Edit, Tick, vars
  <2> QED
    BY <2>3, <2>4, <2>5
<1>2. FilesInv /\ [Next]_vars => [Stays]_vars
  BY <1>1
<1> QED
  BY <1>2, FilesInit, FilesStep, PTL DEF Spec, FinalForGood

-----------------------------------------------------------------------------
(* The schedule from one save to the next.                                 *)

Walked(c) ==
  /\ Sound(Inputs(c))
  /\ Closed(c) \subseteq Schedule(Inputs(c)).visited /\ NoElement \notin Closed(c)
  /\ c.status = "WAITING" => c.pending = Schedule(Inputs(c)).pending /\ ~Open(Schedule(Inputs(c)))
  /\ c.status # "WAITING" => c.pending = NoElement
  /\ c.limit \in Int
  /\ c.files["log"] = Ours(Schedule(Inputs(c)).events)

(* Whoever is asked to search finds the query in the log of the checkpoint *)
(* and in the one on the disk.                                             *)
ScheduleInv ==
  /\ ckpt = NoRun => asked = {}
  /\ ckpt # NoRun => Walked(ckpt)
  /\ \A r \in asked :
       /\ r.limit \in Int
       /\ r.element[1] = "search" => /\ Asking(r.element) \in ckpt.files["log"].lines
                                     /\ "log" \notin edited => Asking(r.element) \in disk["log"].lines

LEMMA OursFacts ==
  ASSUME NEW lines
  PROVE  Ours(lines).lines = lines
BY DEF Ours

LEMMA SettledInputs ==
  ASSUME NEW s, NEW e
  PROVE  /\ Settled(Inputs(s), e) <=> e \in Closed(s)
         /\ Inputs(s).answers = s.answers /\ Inputs(s).abandoned = s.abandoned /\ Inputs(s).ledger = s.ledger
BY DEF Settled, Closed, Inputs

(* The walk over what a checkpoint holds.                                  *)
LEMMA ScheduleGood ==
  ASSUME NEW u, Sound(u)
  PROVE  Good(u, Schedule(u)) /\ Extends(u, u)
<1>1. Extends(u, u)
  BY DEF Extends, Longer
<1> QED
  BY <1>1, ScheduleLeads DEF Leads

LEMMA RemainingInt ==
  ASSUME NEW w, Walk(w)
  PROVE  Remaining(w) \in Int
<1>1. Cardinality(w.seen) \in Nat /\ w.fetched \in Nat
  BY FS_CardinalityType DEF Walk
<1>2. Limit \in Nat /\ MaxTotal \in Nat /\ MaxReviewed \in Nat
  BY EngineAssumption
<1> QED
  BY <1>1, <1>2 DEF Remaining, Least

(* A save after at most the element that was asked for has been settled.   *)
LEMMA AdvanceWalked ==
  ASSUME NEW s, IsCkpt(s), Walked(s), NEW k, IsCkpt(k), Extends(Inputs(s), Inputs(k)),
         Closed(k) \subseteq Closed(s) \cup {Schedule(Inputs(s)).pending}, NoElement \notin Closed(k),
         NEW a, a = Advance(k)
  PROVE  Walked(a) /\ s.files["log"].lines \subseteq a.files["log"].lines
<1> PICK u : u = Inputs(s)
  OBVIOUS
<1> PICK v : v = Inputs(k)
  OBVIOUS
<1>1. /\ IsCkpt(a) /\ Inputs(a) = v /\ a.answers = k.answers /\ a.abandoned = k.abandoned
      /\ a.status = "WAITING" => a.pending = Schedule(v).pending /\ ~Open(Schedule(v))
      /\ a.status # "WAITING" => a.pending = NoElement
      /\ a.limit \in {0, Remaining(Schedule(v))}
      /\ a.files["log"] = Ours(Schedule(v).events)
  BY AdvanceFacts
<1>2. Leads(u, v, Start, Schedule(u), Schedule(v))
  BY ScheduleLeads
<1>3. Sound(v) /\ Good(v, Schedule(v)) /\ Grown(Schedule(u), Schedule(v))
  BY <1>2 DEF Leads, Extends
<1>4. Closed(a) = Closed(k)
  BY <1>1 DEF Closed
<1>5. Closed(k) \subseteq Schedule(v).visited
  <2> SUFFICES ASSUME NEW e \in Closed(k) PROVE e \in Schedule(v).visited
    OBVIOUS
  <2>1. CASE e \in Closed(s)
    BY <1>3, <2>1 DEF Walked, Grown
  <2>2. CASE e \notin Closed(s)
    <3>1. e = Schedule(u).pending /\ e # NoElement
      BY <2>2
    <3>2. Settled(v, e)
      BY SettledInputs
    <3> QED
      BY <1>2, <3>1, <3>2 DEF Leads, Open
  <2> QED
    BY <2>1, <2>2
<1>6. a.limit \in Int
  BY <1>1, <1>3, RemainingInt DEF Good
<1>7. Walked(a)
  BY <1>1, <1>3, <1>4, <1>5, <1>6 DEF Walked
<1>8. s.files["log"].lines = Schedule(u).events /\ a.files["log"].lines = Schedule(v).events
  BY <1>1, OursFacts DEF Walked
<1> QED
  BY <1>3, <1>7, <1>8 DEF Grown

(* The first retrieval of a URL stays, and every URL has one.              *)
LEMMA PinFacts ==
  ASSUME NEW l, Pinned(l), NEW found, IsSeq(found), NEW p, p = Pin(l, found)
  PROVE  /\ Pinned(p) /\ Longer(l, p)
         /\ \A i \in DOMAIN found : Known(p, found[i].url)
<1> DEFINE n == Len(found)
           Put(k, r) == IF \E i \in DOMAIN k : k[i].url = r.url THEN k ELSE Append(k, r)
           F(f) == [i \in 0 .. n |-> IF i = 0 THEN l ELSE Put(f[i - 1], found[i])]
           T == {k \in Nat : \E g : g[0] = l /\ \A i \in 1 .. k : g[i] = Put(g[i - 1], found[i])}
<1>1. Pin(l, found) = (CHOOSE f : f = F(f))[n]
  BY DEF Pin
<1>2. n \in Nat /\ DOMAIN found = 1 .. n
  BY SeqFacts
<1>3. ASSUME NEW k, Pinned(k), NEW r
      PROVE  Pinned(Put(k, r)) /\ Longer(k, Put(k, r)) /\ Known(Put(k, r), r.url)
  <2>1. CASE \E i \in DOMAIN k : k[i].url = r.url
    BY <1>3, <2>1 DEF Longer, Known
  <2>2. CASE ~\E i \in DOMAIN k : k[i].url = r.url
    <3> DEFINE q == Append(k, r)
    <3>1. /\ IsSeq(k) /\ Len(k) \in Nat /\ DOMAIN k = 1 .. Len(k)
          /\ \A i, j \in DOMAIN k : k[i].url = k[j].url => i = j
      BY <1>3, SeqFacts DEF Pinned
    <3>2. /\ IsSeq(q) /\ Len(q) = Len(k) + 1 /\ (\A i \in DOMAIN k : q[i] = k[i]) /\ q[Len(k) + 1] = r
      BY <3>1, Appended
    <3>3. DOMAIN q = 1 .. Len(k) + 1
      BY <3>2, SeqFacts
    <3> HIDE DEF q
    <3>4. \A i \in DOMAIN q : i \in DOMAIN k \/ i = Len(k) + 1
      BY <3>1, <3>3
    <3>5. \A i, j \in DOMAIN q : q[i].url = q[j].url => i = j
      BY <2>2, <3>1, <3>2, <3>4
    <3>6. Len(k) + 1 \in DOMAIN q /\ DOMAIN k \subseteq DOMAIN q
      BY <3>1, <3>3
    <3>7. Pinned(q) /\ Longer(k, q) /\ Known(q, r.url)
      BY <3>2, <3>5, <3>6 DEF Pinned, Longer, Known
    <3> QED
      BY <2>2, <3>7 DEF q
  <2> QED
    BY <2>1, <2>2
<1> HIDE DEF Put, n
<1>4. 0 \in T
  <2> DEFINE g == [i \in {0} |-> l]
  <2>1. g[0] = l /\ \A i \in 1 .. 0 : g[i] = Put(g[i - 1], found[i])
    OBVIOUS
  <2> HIDE DEF g
  <2> QED
    BY <2>1
<1>5. ASSUME NEW k \in Nat, k \in T PROVE k + 1 \in T
  <2>1. PICK g : g[0] = l /\ \A i \in 1 .. k : g[i] = Put(g[i - 1], found[i])
    BY <1>5
  <2> DEFINE h == [i \in 0 .. k + 1 |-> IF i = k + 1 THEN Put(g[k], found[k + 1]) ELSE g[i]]
  <2>2. (\A i \in 0 .. k : h[i] = g[i]) /\ h[k + 1] = Put(g[k], found[k + 1])
    OBVIOUS
  <2> HIDE DEF h
  <2>3. ASSUME NEW i \in 1 .. k + 1 PROVE h[i] = Put(h[i - 1], found[i])
    <3>1. CASE i = k + 1
      <4>1. h[i - 1] = g[k]
        BY <2>2, <3>1
      <4> QED
        BY <2>2, <3>1, <4>1
    <3>2. CASE i \in 1 .. k
      <4>1. h[i] = g[i] /\ h[i - 1] = g[i - 1]
        BY <2>2, <3>2
      <4> QED
        BY <2>1, <3>2, <4>1
    <3> QED
      BY <3>1, <3>2
  <2>4. h[0] = l
    BY <2>1, <2>2
  <2> QED
    BY <2>3, <2>4
<1> HIDE DEF T
<1>6. n \in T
  BY <1>2, <1>4, <1>5, Counting
<1>7. PICK g : g[0] = l /\ \A i \in 1 .. n : g[i] = Put(g[i - 1], found[i])
  BY <1>6 DEF T
<1> DEFINE h == [i \in 0 .. n |-> g[i]]
<1>8. h = F(h)
  BY <1>2, <1>7
<1> HIDE DEF h
<1>9. PICK f : f = F(f) /\ f = (CHOOSE x : x = F(x))
  BY <1>8
<1> DEFINE Has(k, j) == Pinned(k) /\ Longer(l, k) /\ \A i \in 1 .. j : Known(k, found[i].url)
           U == {k \in Nat : k <= n => Has(f[k], k)}
<1>10. 0 \in U
  <2>1. f[0] = l
    BY <1>2, <1>9
  <2>2. Longer(l, l)
    BY DEF Longer
  <2> QED
    BY <2>1, <2>2
<1>11. ASSUME NEW k \in Nat, k \in U PROVE k + 1 \in U
  <2> SUFFICES ASSUME k + 1 <= n PROVE Has(f[k + 1], k + 1)
    OBVIOUS
  <2>1. f[k + 1] = Put(f[k], found[k + 1])
    BY <1>2, <1>9
  <2>2. Has(f[k], k)
    BY <1>2, <1>11
  <2>3. Pinned(f[k + 1]) /\ Longer(f[k], f[k + 1]) /\ Known(f[k + 1], found[k + 1].url)
    BY <1>3, <2>1, <2>2
  <2>4. Longer(l, f[k + 1])
    BY <2>2, <2>3 DEF Longer
  <2>5. \A i \in 1 .. k + 1 : Known(f[k + 1], found[i].url)
    <3>1. \A i \in 1 .. k : Known(f[k + 1], found[i].url)
      BY <2>2, <2>3 DEF Known, Longer
    <3>2. \A i \in 1 .. k + 1 : i \in 1 .. k \/ i = k + 1
      OBVIOUS
    <3> QED
      BY <2>3, <3>1, <3>2
  <2> QED
    BY <2>3, <2>4, <2>5
<1> HIDE DEF U
<1>12. n \in U
  BY <1>2, <1>10, <1>11, Counting
<1>13. Has(f[n], n)
  BY <1>2, <1>12 DEF U
<1>14. p = f[n]
  BY <1>1, <1>9
<1> QED
  BY <1>2, <1>13, <1>14

(* What an accepted answer or a skipped element adds.                      *)
LEMMA TakenExtends ==
  ASSUME NEW s, IsCkpt(s), s.status = "WAITING", Walked(s), NEW m, m.element = s.pending, m.good \in BOOLEAN,
         m.good /\ m.element[1] = "search" => IsSeq(m.value),
         NEW k, k = Taken(s, m)
  PROVE  /\ Extends(Inputs(s), Inputs(k))
         /\ Closed(k) \subseteq Closed(s) \cup {s.pending} /\ NoElement \notin Closed(k)
<1> PICK e : e = s.pending
  OBVIOUS
<1>1. /\ m.good => /\ DOMAIN k.answers = DOMAIN s.answers \cup {e} /\ k.abandoned = s.abandoned
                   /\ k.answers = Answered(s.answers, m)
                   /\ k.ledger = IF e[1] = "search" THEN Pin(s.ledger, m.value) ELSE s.ledger
      /\ ~m.good => /\ k.answers = s.answers /\ k.ledger = s.ledger
                    /\ k.abandoned = s.abandoned \/ (k.abandoned = s.abandoned \cup {e} /\ Abandonable(e))
  BY TakenFacts
<1>2. /\ Sound(Inputs(s)) /\ NoElement \notin Closed(s)
      /\ e = Schedule(Inputs(s)).pending /\ ~Open(Schedule(Inputs(s)))
  BY DEF Walked
<1>3. e \notin Closed(s) /\ e # NoElement
  BY <1>2, ScheduleGood, SettledInputs DEF Good, Open
<1>4. /\ DOMAIN s.answers \cap s.abandoned = {} /\ (\A x \in s.abandoned : Abandonable(x))
      /\ Pinned(s.ledger)
      /\ \A x \in DOMAIN s.answers : x[1] = "search" =>
            IsSeq(s.answers[x]) /\ \A i \in DOMAIN s.answers[x] : Known(s.ledger, s.answers[x][i].url)
  BY <1>2, SettledInputs DEF Sound
<1>5. /\ Pinned(k.ledger) /\ Longer(s.ledger, k.ledger)
      /\ m.good /\ e[1] = "search" => IsSeq(m.value) /\ \A i \in DOMAIN m.value : Known(k.ledger, m.value[i].url)
  <2>1. Longer(s.ledger, s.ledger)
    BY DEF Longer
  <2> QED
    BY <1>1, <1>4, <2>1, PinFacts
<1>6. /\ DOMAIN s.answers \subseteq DOMAIN k.answers
      /\ \A x \in DOMAIN s.answers : k.answers[x] = s.answers[x]
      /\ DOMAIN k.answers \subseteq DOMAIN s.answers \cup {e}
      /\ e \in DOMAIN k.answers => m.good /\ k.answers[e] = m.value
  BY <1>1, <1>3 DEF Answered, Closed
<1>7. \A url : Known(s.ledger, url) => Known(k.ledger, url)
  BY <1>5 DEF Known, Longer
<1>8. \A x \in DOMAIN k.answers : x[1] = "search" =>
         IsSeq(k.answers[x]) /\ \A i \in DOMAIN k.answers[x] : Known(k.ledger, k.answers[x][i].url)
  BY <1>4, <1>5, <1>6, <1>7
<1>9. /\ s.abandoned \subseteq k.abandoned /\ (\A x \in k.abandoned : Abandonable(x))
      /\ DOMAIN k.answers \cap k.abandoned = {}
  BY <1>1, <1>3, <1>4 DEF Closed
<1>10. Sound(Inputs(k))
  BY <1>5, <1>8, <1>9, SettledInputs DEF Sound
<1>11. Extends(Inputs(s), Inputs(k))
  BY <1>2, <1>5, <1>6, <1>9, <1>10, SettledInputs DEF Extends
<1>12. Closed(k) \subseteq Closed(s) \cup {e}
  BY <1>1 DEF Closed
<1> QED
  BY <1>2, <1>3, <1>11, <1>12

LEMMA SearchValues ==
  ASSUME NEW r, r.limit \in Int, r.element[1] = "search", NEW v \in Values(r)
  PROVE  IsSeq(v)
<1>1. v \in Results(r.limit)
  BY DEF Values
<1>2. PICK n \in 0 .. r.limit : v \in [1 .. n -> Web]
  BY <1>1 DEF Results, SeqOf
<1>3. v \in Seq(Web)
  BY <1>2
<1> QED
  BY <1>3 DEF IsSeq

LEMMA SameWalked ==
  ASSUME NEW s, NEW c, Walked(s), Inputs(c) = Inputs(s), c.status = s.status, c.pending = s.pending,
         c.limit = s.limit, c.files = s.files
  PROVE  Walked(c)
<1>1. Closed(c) = Closed(s)
  BY DEF Closed, Inputs
<1> QED
  BY <1>1 DEF Walked

LEMMA ScheduleInit == Init => ScheduleInv
BY DEF Init, ScheduleInv

LEMMA ScheduleStep ==
  ASSUME FilesInv, ScheduleInv, [Next]_vars
  PROVE  ScheduleInv'
<1>1. CASE Initialize
  <2> PICK s : s = Initial(clock)
    OBVIOUS
  <2> PICK a : a = Advance(s)
    OBVIOUS
  <2>1. ckpt' = a /\ asked' = {}
    BY <1>1 DEF Initialize, ScheduleInv
  <2>2. IsCkpt(s) /\ s.answers = <<>> /\ s.abandoned = {} /\ s.ledger = <<>>
    BY Initially
  <2> PICK u : u = Inputs(s)
    OBVIOUS
  <2>3. /\ IsCkpt(a) /\ Inputs(a) = u /\ a.answers = <<>> /\ a.abandoned = {}
        /\ a.status = "WAITING" => a.pending = Schedule(u).pending /\ ~Open(Schedule(u))
        /\ a.status # "WAITING" => a.pending = NoElement
        /\ a.limit \in {0, Remaining(Schedule(u))}
        /\ a.files["log"] = Ours(Schedule(u).events)
    BY <2>2, AdvanceFacts
  <2>4. Sound(u)
    <3>1. u.answers = <<>> /\ u.abandoned = {} /\ u.ledger = <<>>
      BY <2>2, SettledInputs
    <3>2. <<>> \in Seq({})
      OBVIOUS
    <3>3. IsSeq(u.ledger)
      BY <3>1, <3>2 DEF IsSeq
    <3> QED
      BY <3>1, <3>3 DEF Sound, Pinned
  <2>5. a.limit \in Int
    BY <2>3, <2>4, ScheduleGood, RemainingInt DEF Good
  <2>6. Closed(a) = {}
    BY <2>3 DEF Closed
  <2>7. Walked(a)
    BY <2>3, <2>4, <2>5, <2>6 DEF Walked
  <2>8. a # NoRun
    BY <2>3, Fielded
  <2> QED
    BY <2>1, <2>7, <2>8 DEF ScheduleInv
<1>2. CASE Keep
  <2>1. ckpt # NoRun /\ IsCkpt(ckpt)
    BY <1>2 DEF Keep, Repaired, FilesInv, Holding
  <2>2. PICK now : ckpt' = Seen(now)
    BY <1>2 DEF Keep, Save
  <2> PICK s : s = Seen(now)
    OBVIOUS
  <2>3. IsCkpt(s) /\ Inputs(s) = Inputs(ckpt) /\ \A x \in Fields \ {"last"} : s[x] = ckpt[x]
    BY <2>1, SeenFacts
  <2>4. Walked(s)
    BY <2>1, <2>3, SameWalked DEF ScheduleInv, Fields
  <2>5. s # NoRun /\ s.files = ckpt.files
    BY <2>3, Fielded DEF Fields
  <2>6. UNCHANGED <<disk, asked, edited>>
    BY <1>2 DEF Keep, Save
  <2> QED
    BY <2>1, <2>2, <2>4, <2>5, <2>6 DEF ScheduleInv
<1>3. CASE TimeOut \/ TakeGood \/ TakeBad
  <2>1. ckpt # NoRun /\ IsCkpt(ckpt) /\ Walked(ckpt)
    BY <1>3 DEF TimeOut, TakeGood, TakeBad, Repaired, FilesInv, Holding, ScheduleInv
  <2>2. PICK now : LET s == Seen(now)
                   IN  \/ Save(Advance(Block(s)))
                       \/ \E m : /\ m.element = s.pending /\ m.good \in BOOLEAN /\ ~Replayed(ckpt, m)
                                 /\ Matches(ckpt, m) /\ Save(Judged(s, m))
                                 /\ m.good => \E r \in asked : r.element = m.element /\ m.value \in Values(r)
    BY <1>3, <2>1, Saves
  <2>3. ckpt.status = "WAITING"
    BY <1>3, <2>1, Saves
  <2> PICK s : s = Seen(now)
    OBVIOUS
  <2>4. IsCkpt(s) /\ Inputs(s) = Inputs(ckpt) /\ \A x \in Fields \ {"last"} : s[x] = ckpt[x]
    BY <2>1, SeenFacts
  <2>5. s.status = "WAITING" /\ s.files = ckpt.files
    BY <2>3, <2>4 DEF Fields
  <2>6. Walked(s)
    BY <2>1, <2>4, SameWalked DEF Fields
  <2>7. ASSUME NEW k, IsCkpt(k), Extends(Inputs(s), Inputs(k)),
               Closed(k) \subseteq Closed(s) \cup {Schedule(Inputs(s)).pending}, NoElement \notin Closed(k),
               Save(Advance(k))
        PROVE  ScheduleInv'
    <3> PICK a : a = Advance(k)
      OBVIOUS
    <3>1. ckpt' = a /\ UNCHANGED <<disk, asked, edited>>
      BY <2>7 DEF Save
    <3>2. Walked(a) /\ ckpt.files["log"].lines \subseteq a.files["log"].lines
      BY <2>4, <2>5, <2>6, <2>7, AdvanceWalked
    <3>3. a # NoRun
      <4>1. IsCkpt(a)
        BY <2>7, AdvanceFacts
      <4> QED
        BY <4>1, Fielded
    <3> QED
      BY <3>1, <3>2, <3>3 DEF ScheduleInv
  <2>8. CASE Save(Advance(Block(s)))
    <3> PICK k : k = Block(s)
      OBVIOUS
    <3>1. IsCkpt(k) /\ Inputs(k) = Inputs(s)
      BY <2>4, BlockFacts
    <3>2. Extends(Inputs(s), Inputs(k)) /\ NoElement \notin Closed(s)
      BY <2>6, <3>1, ScheduleGood DEF Walked
    <3>3. Closed(k) = Closed(s)
      BY <3>1, SettledInputs DEF Closed
    <3> QED
      BY <2>7, <2>8, <3>1, <3>2, <3>3
  <2>9. CASE \E m : /\ m.element = s.pending /\ m.good \in BOOLEAN /\ Save(Judged(s, m))
                    /\ m.good => \E r \in asked : r.element = m.element /\ m.value \in Values(r)
    <3>1. PICK m : /\ m.element = s.pending /\ m.good \in BOOLEAN /\ Save(Judged(s, m))
                   /\ m.good => \E r \in asked : r.element = m.element /\ m.value \in Values(r)
      BY <2>9
    <3> PICK k : k = Taken(s, m)
      OBVIOUS
    <3>2. IsCkpt(k) /\ Judged(s, m) = Advance(k)
      BY <2>4, <2>5, <3>1, TakenFacts
    <3>3. m.good /\ m.element[1] = "search" => IsSeq(m.value)
      BY <3>1, SearchValues DEF ScheduleInv
    <3>4. /\ Extends(Inputs(s), Inputs(k))
          /\ Closed(k) \subseteq Closed(s) \cup {s.pending} /\ NoElement \notin Closed(k)
      BY <2>4, <2>5, <2>6, <3>1, <3>3, TakenExtends
    <3>5. s.pending = Schedule(Inputs(s)).pending
      BY <2>5, <2>6 DEF Walked
    <3>6. Save(Advance(k))
      BY <3>1, <3>2
    <3>7. Closed(k) \subseteq Closed(s) \cup {Schedule(Inputs(s)).pending}
      BY <3>4, <3>5
    <3>8. Extends(Inputs(s), Inputs(k)) /\ NoElement \notin Closed(k)
      BY <3>4
    <3>9. IsCkpt(k)
      BY <3>2
    <3> QED
      BY ONLY <2>7, <3>6, <3>7, <3>8, <3>9
  <2> QED
    BY <2>2, <2>8, <2>9
<1>4. CASE Write
  <2>1. PICK f \in Stale : disk' = [disk EXCEPT ![f] = ckpt.files[f]]
    BY <1>4 DEF Write
  <2>2. ckpt # NoRun /\ UNCHANGED <<ckpt, asked, edited>> /\ DOMAIN disk = FileNames
    BY <1>4 DEF Write, FilesInv
  <2>3. disk'["log"] = IF f = "log" THEN ckpt.files["log"] ELSE disk["log"]
    BY <2>1, <2>2 DEF FileNames
  <2> QED
    BY <2>2, <2>3 DEF ScheduleInv, Walked, Closed
<1>5. CASE Report
  <2>1. ckpt # NoRun /\ UNCHANGED <<ckpt, disk, edited>> /\ Walked(ckpt) /\ Stale = {}
    BY <1>5 DEF Report, FilesInv, Holding, ScheduleInv
  <2>2. disk["log"] = ckpt.files["log"]
    BY <2>1 DEF FilesInv, Projected, Always, FileNames, Stale
  <2>3. ckpt.pending # NoElement => Good(Inputs(ckpt), Schedule(Inputs(ckpt)))
                                    /\ ckpt.pending = Schedule(Inputs(ckpt)).pending
                                    /\ ~Open(Schedule(Inputs(ckpt)))
    BY <2>1, ScheduleGood DEF Walked
  <2>4. ckpt.pending # NoElement /\ ckpt.pending[1] = "search"
        => Asking(ckpt.pending) \in ckpt.files["log"].lines
    BY <2>1, <2>3, OursFacts DEF Good, Walked
  <2> DEFINE n == [element |-> ckpt.pending, attempt |-> ckpt.attempt, limit |-> ckpt.limit]
  <2>5. asked' = IF ckpt.pending = NoElement THEN asked ELSE asked \cup {n}
    BY <1>5 DEF Report
  <2>6. n.element = ckpt.pending /\ n.limit = ckpt.limit /\ ckpt.limit \in Int
    BY <2>1 DEF Walked
  <2> HIDE DEF n
  <2>7. ASSUME NEW r \in asked'
        PROVE  /\ r.limit \in Int
               /\ r.element[1] = "search" => /\ Asking(r.element) \in ckpt.files["log"].lines
                                             /\ "log" \notin edited => Asking(r.element) \in disk["log"].lines
    <3>1. CASE r \in asked
      BY <3>1 DEF ScheduleInv
    <3>2. CASE r \notin asked
      <4>1. r = n /\ ckpt.pending # NoElement
        BY <2>5, <3>2
      <4> QED
        BY <2>2, <2>4, <2>6, <4>1
    <3> QED
      BY <3>1, <3>2
  <2>8. Walked(ckpt)' /\ ckpt' # NoRun
    BY <2>1 DEF Walked, Closed
  <2> QED
    BY <2>1, <2>7, <2>8 DEF ScheduleInv
<1>6. CASE Edit
  <2>1. PICK f \in (IF ckpt = NoRun THEN {"records"} ELSE FileNames) \ edited :
          disk' = [disk EXCEPT ![f] = Foreign] /\ edited' = edited \cup {f}
    BY <1>6 DEF Edit
  <2>2. UNCHANGED <<ckpt, asked>> /\ DOMAIN disk = FileNames
    BY <1>6 DEF Edit, FilesInv
  <2>3. "log" \notin edited' => "log" \notin edited /\ disk'["log"] = disk["log"]
    BY <2>1, <2>2 DEF FileNames
  <2> QED
    BY <2>2, <2>3 DEF ScheduleInv, Walked, Closed
<1>7. CASE UNCHANGED <<ckpt, disk, asked, edited>>
  BY <1>7 DEF ScheduleInv, Walked, Closed
<1> QED
  BY <1>1, <1>2, <1>3, <1>4, <1>5, <1>6, <1>7
     DEF Next, Step, Lock, Raise, Refuse, Crash, Tick, vars

LEMMA ScheduleKeepsAll ==
  ASSUME ScheduleInv
  PROVE  NothingOrphaned /\ SearchLoggedFirst
<1>1. NothingOrphaned
  <2> SUFFICES ASSUME ckpt # NoRun
               PROVE  Closed(ckpt) = Schedule(Inputs(ckpt)).visited /\ ckpt.pending \notin Closed(ckpt)
    BY DEF NothingOrphaned, Closed
  <2>1. Walked(ckpt)
    BY DEF ScheduleInv
  <2>2. Good(Inputs(ckpt), Schedule(Inputs(ckpt)))
    BY <2>1, ScheduleGood DEF Walked
  <2>3. Schedule(Inputs(ckpt)).visited \subseteq Closed(ckpt)
    BY <2>2, SettledInputs DEF Good
  <2>4. ckpt.pending \notin Closed(ckpt)
    BY <2>1, <2>2, SettledInputs DEF Good, Walked
  <2> QED
    BY <2>1, <2>3, <2>4 DEF Walked
<1>2. SearchLoggedFirst
  <2> SUFFICES ASSUME NEW r \in asked, r.element[1] = "search", "log" \notin edited
               PROVE  Asking(r.element) \in disk["log"].lines
    BY DEF SearchLoggedFirst, Asking
  <2>1. \A x \in asked : x.element[1] = "search" => ("log" \notin edited => Asking(x.element) \in disk["log"].lines)
    BY Zenon DEF ScheduleInv
  <2> QED
    BY <2>1, Zenon
<1> QED
  BY <1>1, <1>2

(* The schedule is walked again after every answer, and still passes by    *)
(* each element that was settled before: nothing is asked for twice and no *)
(* accepted answer is left out, whatever later searches return (collect,   *)
(* analyze and decide of tools/research_element_driver.py).                *)
THEOREM NothingIsOrphaned == Spec => []NothingOrphaned
<1>1. ScheduleInv => NothingOrphaned
  BY ScheduleKeepsAll
<1>2. FilesInv /\ ScheduleInv /\ [Next]_vars => ScheduleInv'
  BY ScheduleStep
<1>3. FilesInv /\ [Next]_vars => FilesInv'
  BY FilesStep
<1> QED
  BY <1>1, <1>2, <1>3, FilesInit, ScheduleInit, PTL DEF Spec

(* Whoever has been asked to search finds the query in the run log, after  *)
(* any crash ("exploration is logged before asking the external agent to   *)
(* search", tools/research_element_driver.py).                             *)
THEOREM SearchesAreLogged == Spec => []SearchLoggedFirst
<1>1. ScheduleInv => SearchLoggedFirst
  BY ScheduleKeepsAll
<1>2. FilesInv /\ ScheduleInv /\ [Next]_vars => ScheduleInv'
  BY ScheduleStep
<1>3. FilesInv /\ [Next]_vars => FilesInv'
  BY FilesStep
<1> QED
  BY <1>1, <1>2, <1>3, FilesInit, ScheduleInit, PTL DEF Spec

-----------------------------------------------------------------------------
(* The attempts.  Of the walk it takes that an element which was answered  *)
(* or skipped is never the one that is asked for: NothingIsOrphaned.       *)

LEMMA CountFailed ==
  ASSUME NEW e, NEW n \in Nat
  PROVE  Cardinality(Failed(e, n)) = n
<1> DEFINE f == [k \in 1 .. n |-> [element |-> e, attempt |-> k, good |-> FALSE]]
<1>1. f \in Bijection(1 .. n, Failed(e, n))
  <2>1. \A k \in 1 .. n : f[k] \in Failed(e, n) /\ f[k].attempt = k
    BY DEF Failed
  <2>2. \A h \in Failed(e, n) : \E k \in 1 .. n : f[k] = h
    BY DEF Failed
  <2>3. f = [k \in 1 .. n |-> f[k]]
    OBVIOUS
  <2> HIDE DEF f
  <2> QED
    BY <2>1, <2>2, <2>3 DEF Bijection, Injection, Surjection, IsInjective
<1>2. IsFiniteSet(1 .. n) /\ Cardinality(1 .. n) = n
  BY FS_Interval
<1> QED
  BY <1>1, <1>2, FS_Bijection DEF ExistsBijection

LEMMA OneMoreFailed ==
  ASSUME NEW e, NEW n \in Nat \ {0}
  PROVE  Failed(e, n) = Failed(e, n - 1) \cup {[element |-> e, attempt |-> n, good |-> FALSE]}
<1>1. 1 .. n = (1 .. n - 1) \cup {n}
  OBVIOUS
<1> QED
  BY <1>1 DEF Failed

LEMMA NoneFailed ==
  ASSUME NEW e
  PROVE  Failed(e, 0) = {}
BY DEF Failed

(* One judged attempt: it is the first of its number, and it counts        *)
(* against its own element.                                                *)
LEMMA TakenAccounted ==
  ASSUME NEW s, IsCkpt(s), s.status = "WAITING", Accounted(s), s.pending \notin Closed(s),
         NEW m, m.element = s.pending, m.good \in BOOLEAN,
         NEW k, k = Taken(s, m), NEW a, a = Advance(k),
         a.pending \notin Closed(a)
  PROVE  Accounted(a)
<1> DEFINE e == s.pending
           entry == [element |-> e, attempt |-> s.attempt, good |-> m.good]
           Wrong(c, x) == {h \in c.history : h.element = x /\ ~h.good}
           Right(c) == {h.element : h \in {h \in c.history : h.good}}
<1>1. /\ IsCkpt(k)
      /\ k.history = s.history \cup {entry}
      /\ m.good => /\ DOMAIN k.answers = DOMAIN s.answers \cup {e} /\ k.abandoned = s.abandoned
                   /\ k.attempt = 1
      /\ ~m.good => /\ k.answers = s.answers
                    /\ \/ s.attempt < MaxAttempts /\ k.attempt = s.attempt + 1 /\ Inputs(k) = Inputs(s)
                          /\ k.abandoned = s.abandoned
                       \/ ~(s.attempt < MaxAttempts) /\ k.abandoned = s.abandoned \cup {e} /\ k.attempt = 1
                       \/ ~(s.attempt < MaxAttempts) /\ k.status = "BLOCKED"
                          /\ k.abandoned = s.abandoned /\ k.attempt = s.attempt
  BY TakenFacts
<1>2. /\ a.answers = k.answers /\ a.abandoned = k.abandoned /\ a.history = k.history /\ a.attempt = k.attempt
      /\ Inputs(a) = Inputs(k)
      /\ k.status = "BLOCKED" => a.status = "BLOCKED"
      /\ a.status = "WAITING" => a.pending = Schedule(Inputs(k)).pending /\ k.status # "BLOCKED"
  BY <1>1, AdvanceFacts
<1>3. /\ s.attempt \in 1 .. MaxAttempts /\ MaxAttempts \in Nat \ {0}
      /\ \A h, g \in s.history : h.element = g.element /\ h.attempt = g.attempt => h = g
      /\ Right(s) = DOMAIN s.answers
      /\ \A x \in s.abandoned : Wrong(s, x) = Failed(x, MaxAttempts)
      /\ e = Schedule(Inputs(s)).pending
      /\ Wrong(s, e) = Failed(e, s.attempt - 1)
      /\ \A h \in s.history : h.element \in Closed(s) \cup {e}
  BY EngineAssumption DEF Accounted
<1>4. entry.element = e /\ entry.attempt = s.attempt /\ entry.good = m.good
  OBVIOUS
<1>5. e \notin DOMAIN s.answers /\ e \notin s.abandoned
  BY DEF Closed
<1> HIDE DEF e
<1>6. \A h \in s.history : h.element = e => ~h.good /\ h.attempt < s.attempt
  <2> SUFFICES ASSUME NEW h \in s.history, h.element = e
               PROVE  ~h.good /\ h.attempt < s.attempt
    OBVIOUS
  <2>1. ~h.good
    BY <1>3, <1>5
  <2>2. h \in Failed(e, s.attempt - 1)
    BY <1>3, <2>1
  <2>3. PICK n \in 1 .. s.attempt - 1 : h = [element |-> e, attempt |-> n, good |-> FALSE]
    BY <2>2 DEF Failed
  <2> QED
    BY <1>3, <2>1, <2>3
<1> HIDE DEF entry
<1>7. \A h, g \in a.history : h.element = g.element /\ h.attempt = g.attempt => h = g
  <2>1. \A h \in s.history : ~(h.element = e /\ h.attempt = s.attempt)
    BY <1>3, <1>6
  <2> QED
    BY <1>1, <1>2, <1>3, <1>4, <2>1
<1>8. Right(a) = DOMAIN a.answers
  <2>1. Right(a) = IF m.good THEN Right(s) \cup {e} ELSE Right(s)
    BY <1>1, <1>2, <1>4
  <2> QED
    BY <1>1, <1>2, <1>3, <2>1
<1>9. \A x : Wrong(a, x) = IF x = e /\ ~m.good THEN Wrong(s, x) \cup {entry} ELSE Wrong(s, x)
  BY <1>1, <1>2, <1>4
<1>10. ~m.good => Wrong(a, e) = Failed(e, s.attempt)
  <2> SUFFICES ASSUME ~m.good PROVE Wrong(a, e) = Failed(e, s.attempt)
    OBVIOUS
  <2>1. entry = [element |-> e, attempt |-> s.attempt, good |-> FALSE]
    BY DEF entry
  <2>2. Failed(e, s.attempt) = Failed(e, s.attempt - 1) \cup {entry}
    BY <1>3, <2>1, OneMoreFailed
  <2> QED
    BY <1>3, <1>9, <2>2
<1>11. \A x \in a.abandoned : Wrong(a, x) = Failed(x, MaxAttempts)
  <2> SUFFICES ASSUME NEW x \in a.abandoned PROVE Wrong(a, x) = Failed(x, MaxAttempts)
    OBVIOUS
  <2>1. CASE x \in s.abandoned
    BY <1>3, <1>5, <1>9, <2>1
  <2>2. CASE x \notin s.abandoned
    <3>1. x = e /\ ~m.good /\ ~(s.attempt < MaxAttempts)
      BY <1>1, <1>2, <2>2
    <3>2. s.attempt = MaxAttempts
      BY <1>3, <3>1
    <3> QED
      BY <1>10, <3>1, <3>2
  <2> QED
    BY <2>1, <2>2
<1>12. a.attempt \in 1 .. MaxAttempts
  BY <1>1, <1>2, <1>3
<1> DEFINE Awaits(c) == /\ c.pending = Schedule(Inputs(c)).pending
                       /\ Wrong(c, c.pending) = Failed(c.pending, c.attempt - 1)
                       /\ \A h \in c.history : h.element \in Closed(c) \cup {c.pending}
<1>13. ASSUME a.status = "WAITING" PROVE Awaits(a)
  <2>1. a.pending = Schedule(Inputs(a)).pending /\ k.status # "BLOCKED"
    BY <1>2, <1>13
  <2>2. CASE m.good \/ e \in a.abandoned
    <3>1. Closed(a) = Closed(s) \cup {e} /\ a.attempt = 1
      BY <1>1, <1>2, <1>5, <2>2 DEF Closed
    <3>2. \A h \in a.history : h.element \in Closed(a)
      BY <1>1, <1>2, <1>3, <1>4, <3>1
    <3>3. Wrong(a, a.pending) = {}
      BY <3>2
    <3>4. Failed(a.pending, a.attempt - 1) = {}
      <4>1. a.attempt - 1 = 0
        BY <3>1
      <4> QED
        BY <4>1, NoneFailed
    <3> QED
      BY <2>1, <3>2, <3>3, <3>4
  <2>3. CASE ~m.good /\ e \notin a.abandoned
    <3>1. k.attempt = s.attempt + 1 /\ Inputs(k) = Inputs(s) /\ k.abandoned = s.abandoned /\ k.answers = s.answers
      BY <1>1, <1>2, <2>1, <2>3
    <3>2. a.pending = e /\ Closed(a) = Closed(s)
      BY <1>2, <1>3, <2>1, <3>1 DEF Closed
    <3>3. \A h \in a.history : h.element \in Closed(a) \cup {e}
      BY <1>1, <1>2, <1>3, <1>4, <3>2
    <3>4. Failed(e, a.attempt - 1) = Failed(e, s.attempt)
      <4>1. a.attempt - 1 = s.attempt
        BY <1>2, <1>3, <3>1
      <4> QED
        BY <4>1
    <3> HIDE DEF Wrong
    <3> QED
      BY <1>10, <2>1, <2>3, <3>2, <3>3, <3>4
  <2> QED
    BY <2>2, <2>3
<1> QED
  BY <1>7, <1>8, <1>11, <1>12, <1>13 DEF Accounted

LEMMA AttemptsInit == Init => AttemptsInv
BY DEF Init, AttemptsInv

(* A checkpoint with the same answers, failures and request.               *)
LEMMA SameAccounted ==
  ASSUME NEW s, NEW c, Accounted(s), Inputs(c) = Inputs(s), c.answers = s.answers, c.abandoned = s.abandoned,
         c.history = s.history, c.attempt = s.attempt,
         c.status = "WAITING" => s.status = "WAITING" /\ c.pending = s.pending
  PROVE  Accounted(c)
BY DEF Accounted, Closed

LEMMA AttemptsStep ==
  ASSUME FilesInv, AttemptsInv, NothingOrphaned, NothingOrphaned', [Next]_vars
  PROVE  AttemptsInv'
<1>1. CASE Initialize
  <2> PICK s : s = Initial(clock)
    OBVIOUS
  <2> PICK a : a = Advance(s)
    OBVIOUS
  <2>1. ckpt' = a
    BY <1>1 DEF Initialize
  <2>2. /\ IsCkpt(s) /\ s.answers = <<>> /\ s.abandoned = {} /\ s.history = {} /\ s.attempt = 1
    BY Initially
  <2>3. /\ a.answers = <<>> /\ a.abandoned = {} /\ a.history = {} /\ a.attempt = 1 /\ Inputs(a) = Inputs(s)
        /\ a.status = "WAITING" => a.pending = Schedule(Inputs(s)).pending
    BY <2>2, AdvanceFacts
  <2>4. Failed(a.pending, 0) = {}
    BY NoneFailed
  <2>5. MaxAttempts \in Nat \ {0}
    BY EngineAssumption
  <2>6. Accounted(a)
    BY <2>3, <2>4, <2>5 DEF Accounted
  <2> QED
    BY <2>1, <2>6 DEF AttemptsInv
<1>2. CASE Keep
  <2>1. ckpt # NoRun /\ IsCkpt(ckpt)
    BY <1>2 DEF Keep, Repaired, FilesInv, Holding
  <2>2. PICK now : ckpt' = Seen(now)
    BY <1>2 DEF Keep, Save
  <2> PICK s : s = Seen(now)
    OBVIOUS
  <2>3. Inputs(s) = Inputs(ckpt) /\ \A x \in Fields \ {"last"} : s[x] = ckpt[x]
    BY <2>1, SeenFacts
  <2>4. Accounted(ckpt)
    BY <2>1 DEF AttemptsInv
  <2>5. Accounted(s)
    BY <2>3, <2>4, SameAccounted DEF Fields
  <2> QED
    BY <2>2, <2>5 DEF AttemptsInv
<1>3. CASE TimeOut \/ TakeGood \/ TakeBad
  <2>1. ckpt # NoRun /\ IsCkpt(ckpt)
    BY <1>3 DEF TimeOut, TakeGood, TakeBad, Repaired, FilesInv, Holding
  <2>2. PICK now : LET s == Seen(now)
                   IN  \/ Save(Advance(Block(s)))
                       \/ \E m : /\ m.element = s.pending /\ m.good \in BOOLEAN /\ ~Replayed(ckpt, m)
                                 /\ Matches(ckpt, m) /\ Save(Judged(s, m))
    BY <1>3, <2>1, Saves
  <2>3. ckpt.status = "WAITING"
    BY <1>3, <2>1, Saves
  <2> PICK s : s = Seen(now)
    OBVIOUS
  <2>4. IsCkpt(s) /\ Inputs(s) = Inputs(ckpt) /\ \A x \in Fields \ {"last"} : s[x] = ckpt[x]
    BY <2>1, SeenFacts
  <2>5. s.status = "WAITING"
    BY <2>3, <2>4 DEF Fields
  <2>6. Accounted(s)
    <3>1. Accounted(ckpt)
      BY <2>1 DEF AttemptsInv
    <3> QED
      BY <2>4, <3>1, SameAccounted DEF Fields
  <2>7. CASE Save(Advance(Block(s)))
    <3> PICK k : k = Block(s)
      OBVIOUS
    <3> PICK a : a = Advance(k)
      OBVIOUS
    <3>1. IsCkpt(k) /\ k.status = "BLOCKED" /\ Inputs(k) = Inputs(s)
          /\ \A x \in Fields \ {"status", "pending"} : k[x] = s[x]
      BY <2>4, BlockFacts
    <3>2. Accounted(k)
      BY <2>6, <3>1, SameAccounted DEF Fields
    <3>3. /\ Inputs(a) = Inputs(k) /\ a.answers = k.answers /\ a.abandoned = k.abandoned /\ a.history = k.history
          /\ a.attempt = k.attempt /\ a.status = "BLOCKED"
      BY <3>1, AdvanceFacts
    <3>4. Accounted(a)
      BY <3>2, <3>3, SameAccounted
    <3> QED
      BY <2>7, <3>4 DEF Save, AttemptsInv
  <2>8. CASE \E m : m.element = s.pending /\ m.good \in BOOLEAN /\ Save(Judged(s, m))
    <3>1. PICK m : m.element = s.pending /\ m.good \in BOOLEAN /\ Save(Judged(s, m))
      BY <2>8
    <3> PICK k : k = Taken(s, m)
      OBVIOUS
    <3> PICK a : a = Advance(k)
      OBVIOUS
    <3>2. IsCkpt(k) /\ Judged(s, m) = a
      BY <2>4, <2>5, <3>1, TakenFacts
    <3>3. ckpt' = a /\ a # NoRun
      <4>1. IsCkpt(a)
        BY <3>2, AdvanceFacts
      <4> QED
        BY <3>1, <3>2, <4>1, Fielded DEF Save
    <3>4. s.pending \notin Closed(s)
      BY <2>1, <2>4 DEF NothingOrphaned, Closed, Fields
    <3>5. a.pending \notin Closed(a)
      BY <3>3 DEF NothingOrphaned, Closed
    <3>6. Accounted(a)
      BY <2>4, <2>5, <2>6, <3>1, <3>4, <3>5, TakenAccounted
    <3> QED
      BY <3>3, <3>6 DEF AttemptsInv
  <2> QED
    BY <2>2, <2>7, <2>8
<1>4. CASE UNCHANGED ckpt
  BY <1>4 DEF AttemptsInv, Accounted, Closed
<1> QED
  BY <1>1, <1>2, <1>3, <1>4
     DEF Next, Step, Lock, Write, Raise, Refuse, Report, Crash, Edit, Tick, vars

LEMMA AttemptsCounted ==
  ASSUME AttemptsInv
  PROVE  AttemptsAccounted
<1> SUFFICES ASSUME ckpt # NoRun
             PROVE  /\ \A h, k \in ckpt.history : h.element = k.element /\ h.attempt = k.attempt => h = k
                    /\ {h.element : h \in {h \in ckpt.history : h.good}} = DOMAIN ckpt.answers
                    /\ \A e \in ckpt.abandoned : Cardinality(Failures(e)) = MaxAttempts
                    /\ ckpt.status = "WAITING" => ckpt.attempt = Cardinality(Failures(ckpt.pending)) + 1
  BY DEF AttemptsAccounted
<1>1. Accounted(ckpt) /\ MaxAttempts \in Nat /\ ckpt.attempt \in 1 .. MaxAttempts
  BY EngineAssumption DEF AttemptsInv, Accounted
<1>2. \A e \in ckpt.abandoned : Cardinality(Failures(e)) = MaxAttempts
  <2>1. \A e \in ckpt.abandoned : Failures(e) = Failed(e, MaxAttempts)
    BY <1>1 DEF Accounted, Failures
  <2> QED
    BY <1>1, <2>1, CountFailed
<1>3. ckpt.status = "WAITING" => ckpt.attempt = Cardinality(Failures(ckpt.pending)) + 1
  <2> SUFFICES ASSUME ckpt.status = "WAITING" PROVE ckpt.attempt = Cardinality(Failures(ckpt.pending)) + 1
    OBVIOUS
  <2>1. Failures(ckpt.pending) = Failed(ckpt.pending, ckpt.attempt - 1)
    BY <1>1 DEF Accounted, Failures
  <2>2. ckpt.attempt - 1 \in Nat
    BY <1>1
  <2>3. Cardinality(Failures(ckpt.pending)) = ckpt.attempt - 1
    BY <2>1, <2>2, CountFailed
  <2> QED
    BY <1>1, <2>3
<1> QED
  BY <1>1, <1>2, <1>3 DEF Accounted

(* Attempts are charged to their own element, each once: what is asked for *)
(* was never settled before, so no attempt counts against an element that  *)
(* is answered or skipped (process_answer and reject of                    *)
(* tools/research_elements.py).                                            *)
THEOREM AttemptsAreCharged == Spec => []AttemptsAccounted
<1>1. ScheduleInv => NothingOrphaned
  BY ScheduleKeepsAll
<1>2. FilesInv /\ AttemptsInv /\ NothingOrphaned /\ NothingOrphaned' /\ [Next]_vars => AttemptsInv'
  BY AttemptsStep
<1>3. AttemptsInv => AttemptsAccounted
  BY AttemptsCounted
<1>4. FilesInv /\ ScheduleInv /\ [Next]_vars => ScheduleInv'
  BY ScheduleStep
<1>5. FilesInv /\ [Next]_vars => FilesInv'
  BY FilesStep
<1> QED
  BY <1>1, <1>2, <1>3, <1>4, <1>5, FilesInit, ScheduleInit, AttemptsInit, PTL DEF Spec
=============================================================================
