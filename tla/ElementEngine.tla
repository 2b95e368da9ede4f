---------------------------- MODULE ElementEngine ----------------------------
(***************************************************************************)
(* The engine of Stage B, which is the program's default route             *)
(* (tools/research_elements.py with tools/research_element_driver.py).     *)
(* One checkpoint holds every accepted answer.  The schedule of elements   *)
(* is computed again from those answers after each of them, up to the      *)
(* first element without one, which becomes the pending request; the       *)
(* project's files are projections of the checkpoint.  A command takes the *)
(* lock, repairs the files an earlier command left behind, judges its      *)
(* answer, saves the checkpoint and writes the files.  It may die between  *)
(* any two writes.  Answers come from outside, late, twice or out of       *)
(* order; somebody else may edit a file while no command runs.             *)
(*                                                                         *)
(* Texts are abstracted: a body is a number, an excerpt is a passage of    *)
(* its body, and a body is one window.  The elements after the claims      *)
(* (pairs, decisions, prior art) are represented by the insights.          *)
(***************************************************************************)
EXTENDS Integers, FiniteSets, SequencesExt

CONSTANTS Questions,     \* budget.question_count
          Strategies,    \* regular search strategies of a question
          ArtRound,      \* BOOLEAN: a first round for the art reference
          Web,           \* what the external search can return: URLs with bodies
          Limit,         \* config.search_limit
          Passages,      \* passages of a body that can be quoted
          Sufficient,    \* budget.sufficient_answers
          Saturation,    \* saturation_rounds_without_new_evidence
          MaxTotal,      \* budget.max_total_sources
          MaxReviewed,   \* max_sources_reviewed per question
          GroupSize,     \* config.insight_group_size
          MaxAttempts,   \* config.max_attempts
          Budget,        \* budget.max_runtime_minutes, in ticks
          Delay,         \* bound: ticks a command may wait for the lock
          MaxBad,        \* bound: answers that fail a check
          Faulty,        \* bound: the kinds of elements they answer
          MaxEdits       \* bound: files edited by somebody else

ASSUME EngineAssumption ==
    /\ {Questions, Strategies, Limit, Passages, Sufficient, Saturation,
        MaxTotal, MaxReviewed, GroupSize, MaxAttempts, Budget} \subseteq Nat \ {0}
    /\ {Delay, MaxBad, MaxEdits} \subseteq Nat
    /\ ArtRound \in BOOLEAN /\ IsFiniteSet(Web)

VARIABLES ckpt,      \* research-elements.json, or NoRun
          disk,      \* the managed files of the project
          cmd,       \* what the command that holds the lock is doing
          clock,     \* the time of day
          asked,     \* requests a command has reported
          edited     \* files somebody else has changed
vars == <<ckpt, disk, cmd, clock, asked, edited>>

NoRun == [status |-> "NONE"]

(* A file holds the lines of a projection, or what somebody else made of  *)
(* it, which no projection equals.                                        *)
Ours(lines) == [by |-> "engine", lines |-> lines]
Empty == Ours({})
Foreign == [by |-> "somebody", lines |-> {}]
FileNames == {"records", "log", "scan"}

(* An element is named by its kind, its question and the strategy, source *)
(* or number within the question, as the element_id is.                   *)
NoElement == <<"none", 0, 0>>

(* max_attempts exhausted on one of these skips it, and ends the run on   *)
(* any other.                                                             *)
Abandonable(e) == e[1] \in {"relevance", "excerpt", "claim"}

-----------------------------------------------------------------------------
(***************************************************************************)
(* The schedule: a walk over the answers, kept in a record.  A walk that   *)
(* meets an element without an answer has it as pending and stops there.   *)
(***************************************************************************)
Start == [pending |-> NoElement, visited |-> {}, events |-> {}, rows |-> {},
          seen |-> {}, found |-> {}, dry |-> 0, fetched |-> 0,
          reason |-> "search_strategy_limit",
          excerpts |-> <<>>, claims |-> <<>>]

Open(w) == w.pending = NoElement
Then(w, Rest(_)) == IF Open(w) THEN Rest(w) ELSE w
Each(w, seq, Body(_, _)) ==
    LET walk[i \in 0..Len(seq)] ==
            IF i = 0 THEN w
            ELSE LET v == walk[i - 1] IN IF Open(v) THEN Body(v, seq[i]) ELSE v
    IN  walk[Len(seq)]
Upto(n) == [i \in 1..n |-> i]

Settled(s, e) == e \in DOMAIN s.answers \/ e \in s.abandoned

(* The request for e is yielded: it is pending unless it is settled.      *)
Yield(s, w, e) ==
    IF Settled(s, e) THEN [w EXCEPT !.visited = @ \cup {e}]
    ELSE [w EXCEPT !.pending = e]

Event(w, kind, e) == [w EXCEPT !.events = @ \cup {<<kind, e>>}]
Row(w, row) == [w EXCEPT !.rows = @ \cup {row}]
Skip(w, e) == Event([w EXCEPT !.visited = @ \cup {e}], "ELEMENT_ABANDONED", e)

AskQuestion(s, w, q) ==
    Then(Yield(s, w, <<"question", q, 0>>), LAMBDA v : Row(v, <<"question", q, 0>>))

(* The source of a result is the pinned one of its URL.                   *)
SourceId(s, url) == CHOOSE i \in DOMAIN s.ledger : s.ledger[i].url = url

Quote(s, w, q, body, excerpt) ==
    LET quote == [q |-> q, body |-> body, quote |-> s.answers[excerpt]]
    IN  Event(Row([w EXCEPT !.excerpts = Append(@, quote), !.found = @ \cup {body}],
                  <<"evidence", q, body>>), "ANSWER_FOUND", excerpt)

(* A source whose body this question has not seen is judged, and quoted   *)
(* when it is relevant.                                                   *)
Assess(s, w, q, src, body) ==
    LET relevance == <<"relevance", q, src>>
        excerpt == <<"excerpt", q, src>>
    IN  Then(Yield(s, Event([w EXCEPT !.seen = @ \cup {body}], "SOURCE_REVIEWED",
                            <<"source", q, src>>), relevance),
             LAMBDA v :
               IF relevance \in s.abandoned THEN Skip(v, relevance)
               ELSE IF s.answers[relevance] = "no" THEN v
               ELSE Then(Yield(s, v, excerpt),
                         LAMBDA u : IF excerpt \in s.abandoned THEN Skip(u, excerpt)
                                    ELSE Quote(s, u, q, body, excerpt)))

Review(s, w, q, src) ==
    IF s.ledger[src].body \in w.seen THEN w
    ELSE Assess(s, w, q, src, s.ledger[src].body)

(* Why a question needs no further search.                                *)
Reason(w) ==
    IF Cardinality(w.found) >= Sufficient THEN "sufficient_answers"
    ELSE IF w.dry >= Saturation THEN "evidence_saturation"
    ELSE IF w.fetched >= MaxTotal THEN "total_source_limit"
    ELSE IF Cardinality(w.seen) >= MaxReviewed THEN "source_review_limit"
    ELSE "search_strategy_limit"

Least(a, b) == IF a < b THEN a ELSE b
Remaining(w) ==
    Least(Limit, Least(MaxTotal - w.fetched, MaxReviewed - Cardinality(w.seen)))

(* A round that found nothing new counts towards saturation, unless it is *)
(* the one for the art reference, strategy 0.                             *)
EndRound(w, before, search) ==
    LET dry == IF search[3] = 0 THEN w.dry
               ELSE IF Cardinality(w.found) = before THEN w.dry + 1 ELSE 0
    IN  Event([w EXCEPT !.dry = dry], "EVIDENCE_ROUND", search)

(* The results of a search, one after the other.                          *)
ReviewAll(s, w, q, results) ==
    Each(w, results, LAMBDA v, r : Review(s, v, q, SourceId(s, r.url)))

(* One round: a query, its search and the review of the results.  The     *)
(* search is logged before it is asked for.                               *)
Round(s, w, q, strategy) ==
    LET query == <<"query", q, strategy>>
        search == <<"search", q, strategy>>
        Results(v) == ReviewAll(s, [v EXCEPT !.fetched = @ + Len(s.answers[search])],
                                q, s.answers[search])
    IN  IF Reason(w) # "search_strategy_limit" THEN [w EXCEPT !.reason = Reason(w)]
        ELSE Then(Yield(s, w, query),
             LAMBDA w1 : Then(Yield(s, Event(w1, "SEARCH_ATTEMPT", query), search),
             LAMBDA w2 : Then(Results(w2),
             LAMBDA w3 : EndRound(w3, Cardinality(w.found), search))))

Rounds == (IF ArtRound THEN <<0>> ELSE <<>>) \o Upto(Strategies)

Fresh(w) == [w EXCEPT !.seen = {}, !.found = {}, !.dry = 0,
                      !.reason = "search_strategy_limit"]

(* A question whose last round found enough is answered.                  *)
Outcome(w) ==
    IF Cardinality(w.found) >= Sufficient THEN "sufficient_answers" ELSE w.reason

(* Mutant: the limit of sources counts the whole ledger. *)
CollectByLedger(s, w, q) ==
    Then(Each([Fresh(w) EXCEPT !.fetched = Len(s.ledger)], Rounds,
              LAMBDA v, strategy : Round(s, v, q, strategy)),
         LAMBDA v : Row(v, <<Outcome(v), q, 0>>))

Collect(s, w, q) ==
    Then(Each(Fresh(w), Rounds,
              LAMBDA v, strategy : Round(s, v, q, strategy)),
         LAMBDA v : Row(v, <<Outcome(v), q, 0>>))

(* The same passage, whatever URL it was reached through.                 *)
Same(x, y) == x.body = y.body /\ x.quote = y.quote

(* Each quote that is new yields an observation and, over those, a claim  *)
(* and its type.  An abandoned claim keeps its number.                    *)
Quotes(w) ==
    LET kept[n \in 0..Len(w.excerpts)] ==
            IF n = 0 THEN <<>>
            ELSE LET k == kept[n - 1]
                     x == w.excerpts[n]
                 IN  IF \E i \in DOMAIN k : Same(k[i], x) THEN k ELSE Append(k, x)
    IN  kept[Len(w.excerpts)]

Observe(s, w) ==
    Each(w, Upto(Len(Quotes(w))), LAMBDA v, n :
         Then(Yield(s, v, <<"observation", 0, n>>),
              LAMBDA u : Row(u, <<"observation", 0, n>>)))

Claim(s, w, q, n) ==
    LET claim == <<"claim", 0, n>>
        Typed(v) == Row([v EXCEPT !.claims = Append(@, q)], <<"claim", q, n>>)
    IN  IF claim \in s.abandoned THEN Skip(w, claim)
        ELSE Then(Yield(s, w, claim),
                  LAMBDA v : Then(Yield(s, v, <<"claim-type", 0, n>>), Typed))

Analyze(s, w) ==
    Each(w, Upto(Len(Quotes(w))), LAMBDA v, n : Claim(s, v, Quotes(w)[n].q, n))

(* One insight for each group of claims of a question.                    *)
Groups(w, q) ==
    (Cardinality({i \in DOMAIN w.claims : w.claims[i] = q}) + GroupSize - 1) \div GroupSize

Decide(s, w, q) ==
    Each(w, Upto(Groups(w, q)), LAMBDA v, n : Yield(s, v, <<"insight", q, n>>))

(* It depends on nothing but the answers, what is skipped and the ledger. *)
Inputs(s) == [answers |-> s.answers, abandoned |-> s.abandoned, ledger |-> s.ledger]

Schedule(s) ==
    LET questions == Upto(Questions)
        asking == Each(Start, questions, LAMBDA v, q : AskQuestion(s, v, q))
        collected == Each(asking, questions, LAMBDA v, q : Collect(s, v, q))
        Analyzed(w) == Then(Observe(s, w), LAMBDA v : Analyze(s, v))
    IN  Each(Then(collected, Analyzed), questions, LAMBDA v, q : Decide(s, v, q))

-----------------------------------------------------------------------------
(***************************************************************************)
(* The checkpoint.                                                         *)
(***************************************************************************)
(* The files as the walk leaves them.  A run that is blocked gives up its *)
(* open questions.  finish() adds the scan once there is nothing to ask.  *)
Projection(s, w) ==
    LET sources == {<<"source", i, 0>> : i \in DOMAIN s.ledger}
        given_up == IF s.status = "BLOCKED" THEN {<<"blocked", 0, 0>>} ELSE {}
        records == Ours(w.rows \cup sources \cup given_up)
    IN  IF w.claims # <<>> /\ (Open(w) \/ s.status = "BLOCKED")
        THEN [records |-> records, log |-> Ours(w.events), scan |-> Ours({<<"scan", 0, 0>>})]
        ELSE [records |-> records, log |-> Ours(w.events)]

(* Mutant: a run that was blocked goes on. *)
AdvanceReopening(s) ==
    LET w == Schedule(Inputs(s))
    IN  [s EXCEPT !.previous = IF DOMAIN s.files = {} THEN @ ELSE s.files,
                  !.pending = w.pending,
                  !.limit = IF w.pending[1] = "search" THEN Remaining(w) ELSE 0,
                  !.status = IF Open(w) THEN "COMPLETED" ELSE "WAITING",
                  !.files = Projection(s, w)]

(* Mutant: the projection on the disk is not remembered. *)
AdvanceForgetful(s) ==
    LET w == Schedule(Inputs(s))
        blocked == s.status = "BLOCKED"
    IN  [s EXCEPT !.pending = IF blocked THEN NoElement ELSE w.pending,
                  !.status = IF blocked THEN "BLOCKED"
                             ELSE IF Open(w) THEN "COMPLETED" ELSE "WAITING",
                  !.limit = IF w.pending[1] = "search" THEN Remaining(w) ELSE 0,
                  !.files = Projection(s, w)]

(* Engine.advance up to save(): the old projection is remembered, because *)
(* it is what a command that dies leaves on the disk.                     *)
Advance(s) ==
    LET w == Schedule(Inputs(s))
        blocked == s.status = "BLOCKED"
        status == IF blocked THEN "BLOCKED" ELSE IF Open(w) THEN "COMPLETED" ELSE "WAITING"
        limit == IF w.pending[1] = "search" THEN Remaining(w) ELSE 0
    IN  [s EXCEPT !.previous = IF DOMAIN s.files = {} THEN @ ELSE s.files,
                  !.pending = IF blocked THEN NoElement ELSE w.pending,
                  !.limit = IF blocked THEN 0 ELSE limit,
                  !.status = status,
                  !.files = Projection(s, w)]

Initial(now) ==
    [answers |-> <<>>, abandoned |-> {}, ledger |-> <<>>, history |-> {},
     attempt |-> 1, status |-> "WAITING", pending |-> NoElement, limit |-> 0,
     files |-> <<>>, previous |-> [f \in {"records", "log"} |-> disk[f]],
     started |-> now, last |-> now]

Block(s) == [s EXCEPT !.status = "BLOCKED", !.pending = NoElement]

(* The first retrieval of a URL stays pinned.                             *)
Pin(ledger, results) ==
    LET pinned[n \in 0..Len(results)] ==
            IF n = 0 THEN ledger
            ELSE LET l == pinned[n - 1]
                 IN  IF \E i \in DOMAIN l : l[i].url = results[n].url THEN l
                     ELSE Append(l, results[n])
    IN  pinned[Len(results)]

Identity(s) == [element |-> s.pending, attempt |-> s.attempt]
Matches(s, m) == [element |-> m.element, attempt |-> m.attempt] = Identity(s)

Answered(answers, m) ==
    [e \in DOMAIN answers \cup {m.element} |-> IF e = m.element THEN m.value ELSE answers[e]]

(* Mutant: the attempt is not reset. *)
AcceptKeepingAttempt(s, m) ==
    [s EXCEPT !.answers = Answered(@, m),
              !.ledger = IF m.element[1] = "search" THEN Pin(@, m.value) ELSE @]

Accept(s, m) ==
    [s EXCEPT !.answers = Answered(@, m),
              !.ledger = IF m.element[1] = "search" THEN Pin(@, m.value) ELSE @,
              !.attempt = 1]

Reject(s, m) ==
    IF s.attempt < MaxAttempts THEN [s EXCEPT !.attempt = @ + 1]
    ELSE IF Abandonable(m.element)
    THEN [s EXCEPT !.abandoned = @ \cup {m.element}, !.attempt = 1]
    ELSE Block(s)

Judged(s, m) ==
    LET entry == [element |-> s.pending, attempt |-> s.attempt, good |-> m.good]
        noted == [s EXCEPT !.history = @ \cup {entry}]
    IN  Advance(IF m.good THEN Accept(noted, m) ELSE Reject(noted, m))

(* The very same answer has been judged before.                           *)
Replayed(s, m) ==
    /\ [element |-> m.element, attempt |-> m.attempt, good |-> m.good] \in s.history
    /\ m.good => s.answers[m.element] = m.value

(* Mutant: a completed run is blocked as well. *)
OverdueAnyStatus(s, now) == now - s.started >= Budget

Overdue(s, now) == s.status = "WAITING" /\ now - s.started >= Budget

-----------------------------------------------------------------------------
(***************************************************************************)
(* Commands.                                                               *)
(***************************************************************************)
Held(files, f) == IF f \in DOMAIN files THEN files[f] ELSE Empty
Stale == {f \in DOMAIN ckpt.files : disk[f] # ckpt.files[f]}

(* Mutant: no look at the files. *)
PreflightNothing == TRUE

(* materialize() looks at every file before it writes one.                *)
Preflight == \A f \in DOMAIN ckpt.files :
                disk[f] \in {ckpt.files[f], Held(ckpt.previous, f)}

(* The time is read before the lock is there, so it may be an old one.    *)
Now == {t \in (clock - Delay)..clock : t >= 0}

(* The kernel frees the lock of a process that dies.                      *)
Holding == cmd \in {"repair", "project"}

(* A command takes the lock.  What it was called with is only looked at   *)
(* once the files are repaired, and is chosen there.                      *)
Lock ==
    /\ ~Holding /\ ckpt # NoRun
    /\ cmd' = "repair"
    /\ UNCHANGED <<ckpt, disk, clock, asked, edited>>

(* next on a project without a run.  Research that is there already is    *)
(* not overwritten.                                                       *)
Initialize ==
    /\ ~Holding /\ ckpt = NoRun
    /\ disk["records"] = Empty
    /\ ckpt' = Advance(Initial(clock))
    /\ cmd' = "project"
    /\ UNCHANGED <<disk, clock, asked, edited>>

Results(limit) ==
    {r \in SeqOf(Web, limit) :
        \A i, j \in DOMAIN r : r[i].url = r[j].url => i = j}

(* What an answerer can return that passes the checks of a request.       *)
Values(r) ==
    CASE r.element[1] = "search" -> Results(r.limit)
      [] r.element[1] = "relevance" -> {"yes", "no"}
      [] r.element[1] = "excerpt" -> 1..Passages
      [] OTHER -> {"text"}

Message(r, good, v) ==
    [element |-> r.element, attempt |-> r.attempt, good |-> good, value |-> v]

(* An answer to any request ever reported, however old, and however often *)
(* it was answered before.                                                *)
Bad(r) == Message(r, FALSE, "bad")
GoodAnswers(r) == {Message(r, TRUE, v) : v \in Values(r)}

(* The files the last save asks for, each replaced whole: in the order of *)
(* the configuration, or of their paths once the checkpoint was read back.*)
Write ==
    /\ Holding /\ Preflight
    /\ \E f \in Stale : disk' = [disk EXCEPT ![f] = ckpt.files[f]]
    /\ UNCHANGED <<ckpt, cmd, clock, asked, edited>>

(* A file was changed by somebody else: the command raises and writes no  *)
(* file, before or after it saved.                                        *)
Raise ==
    /\ Holding /\ ~Preflight
    /\ cmd' = "none"
    /\ UNCHANGED <<ckpt, disk, clock, asked, edited>>

Repaired == cmd = "repair" /\ Preflight /\ Stale = {}
InTime(now) == now >= ckpt.last
Seen(now) == [ckpt EXCEPT !.last = now]

Save(s) ==
    /\ ckpt' = s
    /\ cmd' = "project"
    /\ UNCHANGED <<disk, clock, asked, edited>>

(* The deadline is looked at before the answer is.                        *)
TimeOut ==
    /\ Repaired
    /\ \E now \in Now : /\ InTime(now) /\ Overdue(ckpt, now)
                        /\ Save(Advance(Block(Seen(now))))

(* next, and an answer that was judged already, only move the time.       *)
Keep ==
    /\ Repaired
    /\ \E now \in Now : InTime(now) /\ ~Overdue(ckpt, now) /\ Save(Seen(now))

Judgeable(m) == ckpt.status = "WAITING" /\ ~Replayed(ckpt, m) /\ Matches(ckpt, m)

TakeGood ==
    /\ Repaired
    /\ \E r \in asked, now \in Now :
          /\ InTime(now) /\ ~Overdue(ckpt, now)
          /\ \E m \in GoodAnswers(r) : Judgeable(m) /\ Save(Judged(Seen(now), m))

TakeBad ==
    /\ Repaired /\ Cardinality({h \in ckpt.history : ~h.good}) < MaxBad
    /\ ckpt.pending[1] \in Faulty
    /\ \E r \in asked, now \in Now :
          /\ InTime(now) /\ ~Overdue(ckpt, now)
          /\ Judgeable(Bad(r)) /\ Save(Judged(Seen(now), Bad(r)))

(* The time runs backwards, or the answer is to something not asked now.  *)
Refuse ==
    /\ Repaired
    /\ \E now \in Now :
          \/ ~InTime(now)
          \/ /\ ~Overdue(ckpt, now)
             /\ \E r \in asked : \E m \in GoodAnswers(r) :
                   ~Replayed(ckpt, m) /\ ~Judgeable(m)
    /\ cmd' = "none"
    /\ UNCHANGED <<ckpt, disk, clock, asked, edited>>

(* Mutant: the request is reported before the files are written. *)
ReportAtOnce ==
    /\ cmd = "project"
    /\ asked' = IF ckpt.pending = NoElement THEN asked
                ELSE asked \cup {[element |-> ckpt.pending, attempt |-> ckpt.attempt,
                                  limit |-> ckpt.limit]}
    /\ cmd' = "none"
    /\ UNCHANGED <<ckpt, disk, clock, edited>>

Report ==
    /\ cmd = "project" /\ Preflight /\ Stale = {}
    /\ asked' = IF ckpt.pending = NoElement THEN asked
                ELSE asked \cup {[element |-> ckpt.pending, attempt |-> ckpt.attempt,
                                  limit |-> ckpt.limit]}
    /\ cmd' = "none"
    /\ UNCHANGED <<ckpt, disk, clock, edited>>

Crash ==
    /\ Holding
    /\ cmd' = "dead"
    /\ UNCHANGED <<ckpt, disk, clock, asked, edited>>

Edit == \* by somebody else, while no command runs
    /\ ~Holding /\ Cardinality(edited) < MaxEdits
    /\ \E f \in (IF ckpt = NoRun THEN {"records"} ELSE FileNames) \ edited :
          /\ disk' = [disk EXCEPT ![f] = Foreign]
          /\ edited' = edited \cup {f}
    /\ UNCHANGED <<ckpt, cmd, clock, asked>>

Tick == \* up to the first moment at which even an old time is past the deadline
    /\ ckpt # NoRun /\ clock < Budget + Delay
    /\ clock' = clock + 1
    /\ UNCHANGED <<ckpt, disk, cmd, asked, edited>>

Init ==
    /\ ckpt = NoRun
    /\ disk = [f \in FileNames |-> Empty]
    /\ cmd = "none"
    /\ clock = 0
    /\ asked = {}
    /\ edited = {}

Step == Write \/ Raise \/ TimeOut \/ Keep \/ TakeGood \/ TakeBad \/ Refuse \/ Report

Next == Initialize \/ Lock \/ Step \/ Crash \/ Edit \/ Tick

Spec == Init /\ [][Next]_vars

(* A command that has the lock returns or dies (its steps are finitely    *)
(* many and wait for nothing), commands do not die for ever, the driver   *)
(* calls again and again, and time passes.  Nobody has to answer.         *)
Returns == []<>~Holding
StopsDying == <>[](cmd # "dead")
FairSpec == Spec /\ Returns /\ StopsDying /\ WF_vars(Lock) /\ WF_vars(Tick)

-----------------------------------------------------------------------------
(* Every field of the checkpoint has its shape, and exactly a run that    *)
(* waits has a pending request, within its attempts.                      *)
TypeOK ==
    /\ clock \in 0..(Budget + Delay)
    /\ edited \subseteq FileNames /\ DOMAIN disk = FileNames
    /\ cmd \in {"none", "repair", "project", "dead"}
    /\ ckpt # NoRun =>
          /\ ckpt.status \in {"WAITING", "BLOCKED", "COMPLETED"}
          /\ ckpt.attempt \in 1..MaxAttempts
          /\ ckpt.pending # NoElement <=> ckpt.status = "WAITING"
          /\ DOMAIN ckpt.answers \cap ckpt.abandoned = {}
          /\ ckpt.started <= ckpt.last /\ ckpt.last <= clock
          /\ DOMAIN ckpt.files \subseteq FileNames

(* The schedule is computed again after every answer, and still passes by *)
(* each element that was settled before: no later search, alias of a body *)
(* or skipped element makes the run ask for something earlier again, or   *)
(* leaves an accepted answer out of the records.                          *)
NothingOrphaned ==
    ckpt # NoRun =>
        LET settled == DOMAIN ckpt.answers \cup ckpt.abandoned
        IN  settled = Schedule(Inputs(ckpt)).visited /\ ckpt.pending \notin settled

(* Whenever a command dies, and wherever the ones before it died, every   *)
(* file is the projection of the checkpoint or of the one before, so that *)
(* the next command passes its own look at the files and repairs them.    *)
FilesRepairable ==
    ckpt # NoRun =>
        \A f \in DOMAIN ckpt.files \ edited :
            disk[f] \in {ckpt.files[f], Held(ckpt.previous, f)}

(* Every attempt is judged once and charged to its own element: an element*)
(* that is answered was accepted once, one that is skipped has used all   *)
(* its attempts, and the one that is asked stands one above its failures. *)
Failures(e) == {h \in ckpt.history : h.element = e /\ ~h.good}
AttemptsAccounted ==
    ckpt # NoRun =>
        /\ \A h, k \in ckpt.history :
              h.element = k.element /\ h.attempt = k.attempt => h = k
        /\ {h.element : h \in {h \in ckpt.history : h.good}} = DOMAIN ckpt.answers
        /\ \A e \in ckpt.abandoned : Cardinality(Failures(e)) = MaxAttempts
        /\ ckpt.status = "WAITING" =>
              ckpt.attempt = Cardinality(Failures(ckpt.pending)) + 1

(* "Exploration is logged before asking the external agent to search":    *)
(* whoever has been asked to search finds the query in the run log, after *)
(* any crash.                                                             *)
SearchLoggedFirst ==
    \A r \in asked :
        r.element[1] = "search" /\ "log" \notin edited =>
            <<"SEARCH_ATTEMPT", <<"query", r.element[2], r.element[3]>>>> \in disk["log"].lines

(* Research somebody wrote or changed by hand is never written over.      *)
EditsKept == \A f \in edited : disk[f] = Foreign

(* A run that is COMPLETED or BLOCKED stays what it is; commands move its *)
(* last_now only, which is what Stage C's hash of it leaves out.          *)
FinalForGood ==
    [][ckpt # NoRun /\ ckpt.status # "WAITING" =>
          ckpt' = [ckpt EXCEPT !.last = ckpt'.last]]_vars

(* Every run ends, also when nobody answers and commands die: the runtime *)
(* budget blocks it, unless a file edited by hand stops the commands.     *)
RunEnds == ckpt.status = "WAITING" ~> ckpt.status # "WAITING" \/ edited # {}

=============================================================================
