------------------------------ MODULE Progress ------------------------------
(***************************************************************************)
(* What modules/progress derives for one student from practices and        *)
(* attempts that go on changing: coverage of the curriculum, unfinished,   *)
(* weak and strong topics, repeated mistakes, and the list of results.     *)
(*                                                                         *)
(* A section of the learning profile sends its own queries, side by side   *)
(* with those of the others, so each of them sees the tables as they were  *)
(* at some moment between the request and the answer.  The moments are     *)
(* kept, and an answer takes one for every query.                          *)
(*                                                                         *)
(* Abstracted: titles and order; a node of the curriculum is the set of    *)
(* practices under it; a reader is followed in the sections Looked names,  *)
(* since no property relates more.  Homework is in Timeliness.             *)
(***************************************************************************)
EXTENDS FiniteSetsExt, Sequences

CONSTANTS
    Practice, Event,    \* practices, and formal assessments
    Question,           \* the questions of each of them, by number
    Answers,            \* what an attempt may hold: the questions answered right, and wrong
    Attempt,            \* ids of attempts of the student
    Concept, Primary,   \* concepts, and the primary one of each question that has one
    Under,              \* per node of the curriculum, the practices under it
    Topic,              \* the nodes that are topics
    Looked,             \* bound: the groups of sections that are asked for together
    None,
    MaxMoments          \* bound: the states of the tables one request may see

Work    == Practice \cup Event
Section == {"progress", "unfinished", "weak", "strong", "mistakes", "results"}

\* question_concepts: an index leaves a question one primary concept, and no route writes it.
PrimaryConcept == [Work \X Question -> Concept \cup {None}]

PrimaryFits == Primary \in PrimaryConcept
AnswersHold == Answers \subseteq [right : SUBSET Question, wrong : SUBSET Question]
NodesHold   == Topic \subseteq DOMAIN Under
LooksFit    == Looked \subseteq SUBSET Section /\ MaxMoments \in Nat \ {0}
NoneIsNothing == None \notin Work \cup {"IN_PROGRESS", "SUBMITTED", "COMPLETED", "UNFINISHED"}
Finite      == IsFiniteSet(Practice) /\ IsFiniteSet(Question) /\ IsFiniteSet(Attempt)

VARIABLES
    status,     \* practices.status
    attempt,    \* practice_attempts and assessment_attempts, with their answers
    request,    \* the sections asked for, None when nobody waits
    seen,       \* the states of the tables since the request was sent
    answer      \* per section, what the reader was told, until something changes

tables == <<status, attempt>>
vars   == <<tables, request, seen, answer>>

Blank   == [of |-> None, status |-> None, right |-> {}, wrong |-> {}]
Answered(x) == x.right \cup x.wrong

TypeOK ==
    /\ status \in [Practice -> {"DRAFT", "PUBLISHED", "ARCHIVED"}]
    /\ \A a \in Attempt : attempt[a] # Blank =>
         /\ attempt[a].of \in Work /\ attempt[a].status \in {"IN_PROGRESS", "SUBMITTED"}
         /\ [right |-> attempt[a].right, wrong |-> attempt[a].wrong] \in Answers
    /\ request \in Looked \cup {None}
    /\ Len(seen) <= MaxMoments
    /\ DOMAIN answer = Section

Init ==
    /\ status \in [Practice -> {"DRAFT", "PUBLISHED"}]
    /\ attempt = [a \in Attempt |-> Blank]
    /\ request = None /\ seen = <<>>
    /\ answer = [s \in Section |-> None]

-----------------------------------------------------------------------------
(* The queries, on a state t of the tables *)

\* listAvailablePractices
Available(t) == {p \in Practice : t.status[p] = "PUBLISHED"}

Submitted(t)  == {a \in Attempt : t.attempt[a].status = "SUBMITTED"}
\* listSubmittedAttemptsForStudent, and listFormalResultsForStudent
OfPractice(t) == {a \in Submitted(t) : t.attempt[a].of \in Practice}
OfEvent(t)    == {a \in Submitted(t) : t.attempt[a].of \in Event}

\* listCompletedPracticeIds: each practice once, whatever became of it since.
Completed(t) == {t.attempt[a].of : a \in OfPractice(t)}

AnyEvidence(t, n) ==    \* mutant: no p.status
    {a \in OfPractice(t) : t.attempt[a].of \in Under[n] /\ Answered(t.attempt[a]) # {}}

\* listTopicAnswerRows: answered questions of submitted attempts, of practices that are
\* published now; an attempt without answers has no row.
Evidence(t, n) == {a \in OfPractice(t) : /\ t.attempt[a].of \in Under[n] \cap Available(t)
                                         /\ Answered(t.attempt[a]) # {}}

PublishedMistakes(t, k) ==      \* mutant: p.status here too
    {x \in Submitted(t) \X Question :
       LET a == t.attempt[x[1]]
       IN  x[2] \in a.wrong /\ Primary[<<a.of, x[2]>>] = k /\ a.of \in Event \cup Available(t)}

\* listConceptMistakeRows: practices and formal assessments alike.
Mistakes(t, k) ==
    {x \in Submitted(t) \X Question :
       LET a == t.attempt[x[1]] IN x[2] \in a.wrong /\ Primary[<<a.of, x[2]>>] = k}

-----------------------------------------------------------------------------
(* The derivations *)

CountAll(available, done) ==    \* mutant: the numerator is not intersected
    [n \in DOMAIN Under |-> [completed |-> Cardinality(done \cap Under[n]),
                             available |-> Cardinality(available \cap Under[n])]]

\* buildProgress: a node without published practices has no percentage, otherwise it is
\* the quotient of the two.
BuildProgress(available, done) ==
    [n \in DOMAIN Under |-> [completed |-> Cardinality(available \cap done \cap Under[n]),
                             available |-> Cardinality(available \cap Under[n])]]

\* buildUnfinishedLearning
BuildUnfinished(progress) ==
    [n \in Topic |-> IF progress[n].available = 0 THEN None
                     ELSE IF progress[n].completed = progress[n].available THEN "COMPLETED"
                     ELSE "UNFINISHED"]

\* In hundredths, half up.  Percentages are summed in parts of 2520, which the numbers of
\* answers up to 10 divide (bound on Question).
Round2(numerator, denominator) == (200 * numerator + denominator) \div (2 * denominator)

Performance(t, those) ==
    LET share(a) == (100 * 2520 * Cardinality(t.attempt[a].right))
                      \div Cardinality(Answered(t.attempt[a]))
    IN  Round2(MapThenSumSet(share, those), 2520 * Cardinality(those))

Responses(t, those) == MapThenSumSet(LAMBDA a : Cardinality(Answered(t.attempt[a])), those)

\* buildWeakTopics and buildStrongTopics: the mean of the attempts, on ten answers.
Weak(t) ==
    {n \in Topic : LET those == Evidence(t, n) IN
       those # {} /\ Performance(t, those) < 6000 /\ Responses(t, those) >= 10}

Strong(t) ==
    {n \in Topic : LET those == Evidence(t, n) IN
       those # {} /\ Performance(t, those) >= 9000 /\ Responses(t, those) >= 10}

\* buildRepeatedMistakes: three answers, to three questions, in two attempts.
Repeated(t) ==
    {k \in Concept : LET rows == Mistakes(t, k) IN
       /\ Cardinality(rows) >= 3
       /\ Cardinality({<<t.attempt[x[1]].of, x[2]>> : x \in rows}) >= 3
       /\ Cardinality({x[1] : x \in rows}) >= 2}

-----------------------------------------------------------------------------
(* Practices and attempts go on (Practices, AssessmentExecution).  While a   *)
(* reader waits, the new state is one more that a query may see.             *)

Now == [status |-> status, attempt |-> attempt]

Unasked  == [s \in Section |-> None]
Observed == IF request = None THEN seen' = <<>> /\ answer' = Unasked
            ELSE Len(seen) < MaxMoments /\ seen' = Append(seen, Now') /\ UNCHANGED answer

PracticeMoves(p, to) ==
    /\ \/ status[p] = "DRAFT" /\ to \in {"PUBLISHED", "ARCHIVED"}
       \/ status[p] = "PUBLISHED" /\ to = "ARCHIVED"
    /\ status' = [status EXCEPT ![p] = to]
    /\ UNCHANGED <<attempt, request>> /\ Observed

\* Started and answered, which the queries cannot tell apart from started.
WorkOn(a, w, h) ==
    /\ attempt[a] = Blank
    /\ w \in Practice => status[w] = "PUBLISHED"
    /\ attempt' = [attempt EXCEPT ![a] = [of |-> w, status |-> "IN_PROGRESS",
                                          right |-> h.right, wrong |-> h.wrong]]
    /\ UNCHANGED <<status, request>> /\ Observed

\* Also after the practice is archived.
HandIn(a) ==
    /\ attempt[a].status = "IN_PROGRESS"
    /\ attempt' = [attempt EXCEPT ![a].status = "SUBMITTED"]
    /\ UNCHANGED <<status, request>> /\ Observed

\* Answers are upserted and keys rewritten by calls that found the attempt in progress, or
\* the work in draft, at whatever time that was; a submitted attempt is no exception.  A step
\* may stand for several such writes, the ones that change nothing of this for none.
Save(a, h) ==
    /\ attempt[a] # Blank /\ Answered(attempt[a]) \subseteq Answered(h)
    /\ attempt' = [attempt EXCEPT ![a].right = h.right, ![a].wrong = h.wrong]
    /\ attempt' # attempt
    /\ UNCHANGED <<status, request>> /\ Observed

\* Whoever gave the answer that was the key has given another one than the key is now.
EditKeys(w, new) ==
    LET those == {a \in Attempt : attempt[a].of = w}
        moved == UNION {(attempt[a].right \ new[a].right) \cup (new[a].right \ attempt[a].right) : a \in those}
    IN  /\ moved # {}
        /\ \A a \in those : /\ Answered(new[a]) = Answered(attempt[a])
                           /\ attempt[a].right \cap new[a].right \cap moved = {}
        /\ attempt' = [a \in Attempt |-> IF a \in those
              THEN [attempt[a] EXCEPT !.right = new[a].right, !.wrong = new[a].wrong] ELSE attempt[a]]
        /\ UNCHANGED <<status, request>> /\ Observed

-----------------------------------------------------------------------------
(* The reader *)

Ask(sections) ==
    /\ request = None /\ request' = sections /\ seen' = <<Now>> /\ answer' = Unasked
    /\ UNCHANGED tables

\* progressForStudent
Coverage(t, u) == BuildProgress(Available(t), Completed(u))

\* assessmentPerformanceForStudent: what is stored of each, not computed again.
Results(t, u) == OfPractice(t) \cup OfEvent(u)

\* What a section says, of the states its first and its second query saw.
Says(s, t, u) ==
    CASE s = "progress"   -> Coverage(t, u)
      [] s = "unfinished" -> BuildUnfinished(Coverage(t, u))
      [] s = "weak"       -> Weak(t)
      [] s = "strong"     -> Strong(t)
      [] s = "mistakes"   -> Repeated(t)
      [] s = "results"    -> Results(t, u)

\* learningProfileForStudent, or the route of one section.
Answer ==
    /\ request # None /\ request' = None
    /\ \E first, second \in [request -> DOMAIN seen] :
         answer' = [s \in Section |-> IF s \in request THEN Says(s, seen[first[s]], seen[second[s]])
                                      ELSE None]
    /\ UNCHANGED <<tables, seen>>

Next ==
    \/ \E p \in Practice, to \in {"PUBLISHED", "ARCHIVED"} : PracticeMoves(p, to)
    \/ \E a \in Attempt : HandIn(a)
    \/ \E a \in Attempt, h \in Answers : Save(a, h) \/ \E w \in Work : WorkOn(a, w, h)
    \/ \E w \in Work, new \in [Attempt -> Answers] : EditKeys(w, new)
    \/ \E sections \in Looked : Ask(sections)
    \/ Answer

Spec == Init /\ [][Next]_vars

-----------------------------------------------------------------------------
Answering == request = None /\ seen # <<>>     \* just answered; the moments are there

\* A topic is reported completed only if the student has completed everything that was
\* published in it throughout the request, and unfinished only if at its start something
\* was not, that was published at one of its moments: the practices and the attempts come
\* from two queries, and no smaller claim can be made of the moment of the answer
\* (progressForStudent).
CoverageTimely ==
    Answering /\ answer["unfinished"] # None => \A n \in Topic :
      LET published(i) == Under[n] \cap Available(seen[i]) IN
      /\ answer["unfinished"][n] = "COMPLETED" =>
           \A p \in Under[n] : (\A i \in DOMAIN seen : p \in published(i))
                               => p \in Completed(seen[Len(seen)])
      /\ answer["unfinished"][n] = "UNFINISHED" =>
           \E i \in DOMAIN seen : ~(published(i) \subseteq Completed(seen[1]))

\* Two sections of one profile contradict each other only if something changed while it
\* was put together: otherwise a topic completed has all of its progress, a weak topic
\* is not strong, and either of them has a practice completed.
SectionsAgree ==
    Answering /\ Len(seen) = 1 => \A n \in Topic :
      LET has(s)  == answer[s] # None
          full(x) == x.available > 0 /\ x.completed = x.available
      IN  /\ has("progress") /\ has("unfinished") =>
               (answer["unfinished"][n] = "COMPLETED" <=> full(answer["progress"][n]))
          /\ has("weak") /\ has("strong") => n \notin answer["weak"] \cap answer["strong"]
          /\ has("progress") /\ has("strong") /\ n \in answer["strong"] =>
               answer["progress"][n].completed > 0

\* What is reported of a student's past is not taken back by archiving, starting or handing
\* in: a result stays in the list, and a concept stays a repeated mistake until an answer or a
\* key written late makes right one of the very mistakes that were counted.
PastKept ==
    /\ Submitted(Now) \subseteq Submitted(Now')
    /\ \A k \in Repeated(Now) \ Repeated(Now') :
         \E x \in Mistakes(Now, k) : x[2] \in attempt'[x[1]].right
=============================================================================
