------------------------------ MODULE MCStudy ------------------------------
(* What teachers publish and students do: practices, assignments and the
   calendar, and what is reported of it; a behaviour is one of any of them
   (Parts). *)
EXTENDS Naturals, FiniteSets, TLC, Parts

CONSTANTS
    Gone,                   \* a question that was deleted
    Only, Twin, Double      \* sets of one and of two identities

\* Answers in full, half right, or none.
StudyAnswers == {[right |-> 1..10, wrong |-> {}], [right |-> 1..5, wrong |-> 6..10],
                 [right |-> {}, wrong |-> {}]}

\* The second half of the ten questions is about one concept.
StudyPrimary == [x \in (Twin \cup Only) \X (1..10) |-> IF x[2] > 5 THEN CHOOSE k \in Only : TRUE ELSE None]

\* A topic and its subject.
StudyUnder == [n \in {"topic", "subject"} |-> Twin]

StudyLooked == {{"progress", "unfinished"}, {"progress", "weak", "strong"}, {"mistakes", "results"}}

\* A day, two days, and one that reaches back for ever.
StudyDates == {<<0, 0>>, <<0, 1>>, <<None, 1>>}

\* One question, two authors, two requests of the student, two attempts and one fault.
Pra == INSTANCE Practices WITH
    status <- v1, paper <- v2, editing <- v3, attempt <- v4, sheet <- v5, call <- v6,
    page <- v7, faults <- v8, late <- v9, unsure <- v10,
    Question <- Only, Option <- {"x", "y"}, OptionSets <- {{"x", "y"}}, Marks <- {1}, MaxSeq <- 0,
    Author <- Handler, Request <- Twin, Attempt <- Double, MaxFaults <- 1

\* One assignment, two classes and two students, two teachers' requests.
Ass == INSTANCE Assignments WITH
    row <- v1, work <- v2, subject <- v3, enrolled <- v4, draft <- v5, moved <- v6,
    Assignment <- Only, Class <- Twin, Student <- Double, Teacher <- Handler

\* Two periods of two days, one of which may contain the other, and an event.
Cal == INSTANCE Calendars WITH
    scope <- v1, status <- v2, period <- v3, event <- v4, call <- v5,
    Period <- Twin, Event <- Only, LastDay <- 1, Dates <- StudyDates

\* Two practices of one topic and an assessment, with ten questions each of which the second
\* half is about one concept; two attempts, answered in full, half right, or not at all.
Pro == INSTANCE Progress WITH
    status <- v1, attempt <- v2, request <- v3, seen <- v4, answer <- v5,
    Practice <- Twin, Event <- Only, Question <- 1..10, Attempt <- Double, Concept <- Only,
    Answers <- StudyAnswers, Primary <- StudyPrimary, Under <- StudyUnder, Topic <- {"topic"},
    Looked <- StudyLooked, MaxMoments <- 2

\* Two assignments of one class, three instants.
Tim == INSTANCE Timeliness WITH
    row <- v1, enrolled <- v2, teaching <- v3, now <- v4, reader <- v5, begun <- v6, counts <- v7,
    Assignment <- Twin, Class <- Only, MaxNow <- 2

\* The operations, stages and states of a request on an assessment; None is none of them.
Word == {"add", "update", "delete", "status", "reschedule", "start", "save", "submit", "number",
         "current", "clash", "write", "event", "enrolment", "lookup", "insert", "retry", "paper",
         "apply", "answers", "store", "IN_PROGRESS", "SUBMITTED"}

ASSUME StudyFits ==
    /\ Pra!PaperAssumption /\ Pra!NullIsNoRow /\ Pra!NullIsNoResult
    /\ Pra!FaultBound /\ Pra!NoneIsNothing
    /\ IsFiniteSet(Only) /\ None \notin Word
    /\ Ass!NoneIsNothing
    /\ Cal!DayBound /\ Cal!NoneIsNothing
    /\ Pro!PrimaryFits /\ Pro!NodesHold /\ Pro!LooksFit /\ Pro!NoneIsNothing /\ Pro!Finite
    /\ Pro!AnswersHold
    /\ Tim!ClockBound /\ Tim!NoneIsNothing /\ Tim!Finite

StudyInit ==
    \/ part = "practice" /\ Pra!Init /\ Unused11
    \/ part = "assignment" /\ Ass!Init /\ Unused7
    \/ part = "calendar" /\ Cal!Init /\ Unused6
    \/ part = "progress" /\ Pro!Init /\ Unused6
    \/ part = "homework" /\ Tim!Init /\ v8 = None /\ Unused9

StudyNext ==
    /\ \/ part = "practice" /\ Pra!Next /\ UNCHANGED from11
       \/ part = "assignment" /\ Ass!Next /\ UNCHANGED from7
       \/ part = "calendar" /\ Cal!Next /\ UNCHANGED from6
       \/ part = "progress" /\ Pro!Next /\ UNCHANGED from6
       \/ part = "homework" /\ Tim!Next /\ UNCHANGED <<v8, from9>>
    /\ UNCHANGED part

StudySpec == StudyInit /\ [][StudyNext]_<<part, state>>

StudySymmetry == Permutations(Twin) \cup Permutations(Double) \cup Permutations(Handler)

-----------------------------------------------------------------------------
\* Every variable of the part that runs keeps its type.
StudyTypeOK ==
    /\ part = "practice" => Pra!TypeOK
    /\ part = "assignment" => Ass!TypeOK
    /\ part = "calendar" => Cal!TypeOK
    /\ part = "progress" => Pro!TypeOK
    /\ part = "homework" => Tim!TypeOK

\* What a student is told of an attempt is what is stored and marked: an option shown as
\* saved is stored, unless a save of that question went astray or its reply never came; the
\* score of a practice is the one its review shows, unless an answer or a question was written
\* after the marking had read them; and no answer is left without its question.  The sections
\* of a profile contradict each other only if something changed while it was put together.
MarksAgree ==
    /\ part = "practice" => Pra!SavedIsStored /\ Pra!ReviewAgrees /\ Pra!AnswersHaveQuestions
    /\ part = "progress" => Pro!SectionsAgree

\* What one record says of another holds: handed-in work shows as completed to its student,
\* unless a stale edit moved the assignment; an assignment's class has its subject, a period
\* its parent, an event its period, and none is on a reference calendar still in draft; what
\* is reported of topics and homework was so while the report was made.
RecordsHold ==
    /\ part = "assignment" => Ass!WorkBelongs /\ Ass!SubjectMapped
    /\ part = "calendar" => Cal!PeriodsHeld /\ Cal!EventsOnPublished
    /\ part = "progress" => Pro!CoverageTimely
    /\ part = "homework" => Tim!CountsTruthful

\* What is published or handed in stays: a practice result never changes, a question or an
\* assignment changes after publication only by requests past their check, handed-in work is
\* never lost or handed in again, and a reference calendar only moves forward and keeps what
\* it holds; mistakes and results stay in the report, and an undisturbed count of homework
\* misses nothing.
RecordsStay == [][
    /\ part = "practice" => Pra!ResultKept /\ Pra!PaperSettles
    /\ part = "assignment" => Ass!WorkKept /\ Ass!EditsSettle
    /\ part = "calendar" => Cal!ReferenceKept /\ Cal!ReferenceForward
    /\ part = "progress" => Pro!PastKept
    /\ part = "homework" => Tim!CountsComplete]_state

\* Every period lies within its parent, as the calendar service says when it refuses one
\* ("Period must be contained by its parent.").
PeriodsContained == part = "calendar" => Cal!PeriodsContained
=============================================================================
