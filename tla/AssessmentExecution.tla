------------------------ MODULE AssessmentExecution -------------------------
(***************************************************************************)
(* Formal assessments of the backend: one assessment event, the authors    *)
(* who write its questions and move its status (assessment/service.ts),    *)
(* and the students who attempt it (assessment-execution/service.ts).      *)
(*                                                                         *)
(* Every SQL statement is one step; only submitAttemptWithResult runs in a *)
(* transaction, which its guarded UPDATE makes one step too.  Calls overlap*)
(* freely: whatever a call has read may be stale when it writes.  A call   *)
(* that is refused at its first read changes nothing and is not a step.    *)
(*                                                                         *)
(* Abstracted: organisations, roles and the checks of a request's form,    *)
(* question texts, portions, and dates: the schedule is where the clock    *)
(* stands relative to it.                                                  *)
(***************************************************************************)
EXTENDS Papers, Sequences

CONSTANTS
    Author,    \* calls of teachers and administrators served at a time
    Learner,   \* calls of students served at a time
    Student,
    Attempt,   \* ids attempts may be given
    MaxItems   \* bound on the answers one saveAnswers call carries

Caller == Author \cup Learner

ASSUME CallersAssumption ==
    /\ Author \cap Learner = {}
    /\ None \notin Student \cup Attempt
    /\ MaxItems \in Nat

VARIABLES
    status,    \* assessment_events.status
    schedule,  \* where the clock stands relative to the event's window
    enrolled,  \* students with an ACTIVE enrolment in the event's class
    paper,     \* assessment_questions
    attempts,  \* assessment_attempts
    answers,   \* assessment_answers: a sheet per attempt
    results,   \* assessment_results
    call,      \* per caller: what it is doing and what it has read
    shown,     \* history: the paper each attempt's student was shown last
    overtaken, \* history: attempts with an answer stored after the read that was marked
    exposed    \* history: attempts whose questions changed by a call that had found another status

event == <<status, schedule, enrolled>>
books == <<attempts, answers, results>>
vars  == <<status, schedule, enrolled, paper, attempts, answers, results, call, shown, overtaken, exposed>>

EventStatus == {"DRAFT", "SCHEDULED", "COMPLETED", "CANCELLED"}
Schedule    == {"ahead", "open", "past"}

CanMove(from, to) ==
    \/ from = to
    \/ from = "DRAFT" /\ to = "SCHEDULED"
    \/ from = "SCHEDULED" /\ to \in {"COMPLETED", "CANCELLED"}

NoAttempt  == [student |-> None, status |-> None]
AttemptRow == [student : Student, status : {"IN_PROGRESS", "SUBMITTED"}]

Item  == Question \X Option
Batch == UNION {[1..n -> Item] : n \in 1..MaxItems}

Op    == {"add", "update", "delete", "status", "reschedule", "start", "save", "submit"}
Stage == {"number", "current", "clash", "write", "event", "enrolment",
          "lookup", "insert", "retry", "paper", "apply", "answers", "store"}

ASSUME NoneIsNoOp == None \notin Op \cup Stage \cup {"IN_PROGRESS", "SUBMITTED"}

Idle == [op |-> None, stage |-> None, student |-> None, attempt |-> None, question |-> None,
         row |-> None, to |-> None, items |-> <<>>, paper |-> None, result |-> None, found |-> None]

Open(s)  == {a \in Attempt : attempts[a] = [student |-> s, status |-> "IN_PROGRESS"]}
Unused   == {a \in Attempt : attempts[a] = NoAttempt}
Unasked  == {q \in Question : paper[q] = None}

CallRow == [op : Op \cup {None}, stage : Stage \cup {None}, student : Student \cup {None},
            attempt : Attempt \cup {None}, question : Question \cup {None},
            row : Row \cup {None}, to : EventStatus \cup Schedule \cup {None},
            items : Seq(Item), paper : Paper \cup {None}, result : Result \cup {None},
            found : EventStatus \cup {None}]

TypeOK ==
    /\ status \in EventStatus
    /\ schedule \in Schedule
    /\ enrolled \subseteq Student
    /\ paper \in Paper
    /\ attempts \in [Attempt -> AttemptRow \cup {NoAttempt}]
    /\ answers \in [Attempt -> Sheet]
    /\ results \in [Attempt -> Result \cup {None}]
    /\ call \in [Caller -> CallRow]
    /\ shown \in [Attempt -> Paper \cup {None}]
    /\ overtaken \subseteq Attempt /\ exposed \subseteq Attempt

-----------------------------------------------------------------------------
At(c, op, stage) == call[c].op = op /\ call[c].stage = stage
Enter(c, record) == call[c] = Idle /\ call' = [call EXCEPT ![c] = record]
Goto(c, record)  == call' = [call EXCEPT ![c] = record]
Advance(c, stage) == Goto(c, [call[c] EXCEPT !.stage = stage])
Return(c)        == Goto(c, Idle)

Init ==
    /\ status \in EventStatus
    /\ schedule = "ahead"
    /\ enrolled \in SUBSET Student
    /\ paper = BlankPaper
    /\ attempts = [a \in Attempt |-> NoAttempt]
    /\ answers = [a \in Attempt |-> BlankSheet]
    /\ results = [a \in Attempt |-> None]
    /\ call = [c \in Caller |-> Idle]
    /\ shown = [a \in Attempt |-> None]
    /\ overtaken = {} /\ exposed = {}

-----------------------------------------------------------------------------
(* Authoring.  requireDraftEvent tests the event as the first read found it. *)

Drafting == status = "DRAFT"

\* Mutant: no requireDraftEvent.
AddQuestionAnytime(c) == \E row \in Row :
    /\ Enter(c, [Idle EXCEPT !.op = "add", !.found = status, !.row = row, !.stage = "clash"])
    /\ UNCHANGED <<event, paper, books, shown, overtaken, exposed>>

AddQuestion(c) == \E row \in Row, numbered \in BOOLEAN :
    /\ Drafting
    /\ numbered \/ row.seq = 0
    /\ Enter(c, [Idle EXCEPT !.op = "add", !.found = status, !.row = row,
                             !.stage = IF numbered THEN "clash" ELSE "number"])
    /\ UNCHANGED <<event, paper, books, shown, overtaken, exposed>>

Number(c) == \E n \in 0..MaxSeq :
    /\ At(c, "add", "number")
    /\ n = NextSequence(paper)
    /\ Goto(c, [call[c] EXCEPT !.row = [call[c].row EXCEPT !.seq = n], !.stage = "clash"])
    /\ UNCHANGED <<event, paper, books, shown, overtaken, exposed>>

\* Mutant: no requireDraftEvent.
UpdateQuestionAnytime(c) == \E q \in Question :
    /\ Enter(c, [Idle EXCEPT !.op = "update", !.found = status, !.question = q, !.stage = "current"])
    /\ UNCHANGED <<event, paper, books, shown, overtaken, exposed>>

UpdateQuestion(c) == \E q \in Question :
    /\ Drafting
    /\ Enter(c, [Idle EXCEPT !.op = "update", !.found = status, !.question = q, !.stage = "current"])
    /\ UNCHANGED <<event, paper, books, shown, overtaken, exposed>>

DeleteQuestion(c) == \E q \in Question :
    /\ Drafting
    /\ Enter(c, [Idle EXCEPT !.op = "delete", !.found = status, !.question = q, !.stage = "current"])
    /\ UNCHANGED <<event, paper, books, shown, overtaken, exposed>>

\* An update merges its input into the row it reads; the merged row can be any row.
Current(c) ==
    /\ call[c].stage = "current"
    /\ IF call[c].question \notin Asked(paper) THEN Return(c)
       ELSE IF call[c].op = "delete" THEN Advance(c, "write")
       ELSE \E row \in Row : Goto(c, [call[c] EXCEPT !.row = row, !.stage = "clash"])
    /\ UNCHANGED <<event, paper, books, shown, overtaken, exposed>>

Clash(c) ==
    /\ call[c].stage = "clash"
    /\ IF Taken(paper, call[c].row.seq, call[c].question) THEN Return(c) ELSE Advance(c, "write")
    /\ UNCHANGED <<event, paper, books, shown, overtaken, exposed>>

\* A write comes too late if the event has left the status its call found: then the
\* questions change under the attempts there are.
TooLate(c) == status # call[c].found
Written(c) == exposed' = IF TooLate(c) /\ paper' # paper
                         THEN exposed \cup (Attempt \ Unused) ELSE exposed

\* The write itself tests nothing but the unique index on the sequence number.
InsertQuestion(c) ==
    /\ At(c, "add", "write")
    /\ IF Taken(paper, call[c].row.seq, None) THEN paper' = paper
       ELSE \E q \in Unasked : paper' = [paper EXCEPT ![q] = call[c].row]
    /\ Written(c) /\ Return(c)
    /\ UNCHANGED <<event, books, shown, overtaken>>

RewriteQuestion(c) ==
    /\ At(c, "update", "write")
    /\ paper' = IF call[c].question \notin Asked(paper)
                   \/ Taken(paper, call[c].row.seq, call[c].question)
                THEN paper ELSE [paper EXCEPT ![call[c].question] = call[c].row]
    /\ Written(c) /\ Return(c)
    /\ UNCHANGED <<event, books, shown, overtaken>>

\* The foreign key of assessment_answers restricts the deletion of an answered question.
EraseQuestion(c) ==
    /\ At(c, "delete", "write")
    /\ paper' = IF call[c].question \notin Asked(paper)
                   \/ \E a \in Attempt : answers[a][call[c].question] # None
                THEN paper ELSE [paper EXCEPT ![call[c].question] = Gone]
    /\ Written(c) /\ Return(c)
    /\ UNCHANGED <<event, books, shown, overtaken>>

ChangeEventStatus(c) == \E to \in EventStatus :
    /\ CanMove(status, to)
    /\ Enter(c, [Idle EXCEPT !.op = "status", !.found = status, !.to = to, !.stage = "write"])
    /\ UNCHANGED <<event, paper, books, shown, overtaken, exposed>>

\* The write asks nothing: one that comes too late can take the event back to a draft,
\* and with it every attempt to whatever is then written.
SetEventStatus(c) ==
    /\ At(c, "status", "write")
    /\ status' = call[c].to
    /\ exposed' = IF TooLate(c) /\ call[c].to = "DRAFT" THEN Attempt ELSE exposed
    /\ Return(c)
    /\ UNCHANGED <<schedule, enrolled, paper, books, shown, overtaken>>

UpdateEvent(c) == \E to \in Schedule :
    /\ status \notin {"COMPLETED", "CANCELLED"}
    /\ Enter(c, [Idle EXCEPT !.op = "reschedule", !.to = to, !.stage = "write"])
    /\ UNCHANGED <<event, paper, books, shown, overtaken, exposed>>

SetSchedule(c) ==
    /\ At(c, "reschedule", "write")
    /\ schedule' = call[c].to
    /\ Return(c)
    /\ UNCHANGED <<status, enrolled, paper, books, shown, overtaken, exposed>>

-----------------------------------------------------------------------------
(* Starting or resuming an attempt. *)

Available == status = "SCHEDULED" /\ schedule = "open"

StartAttempt(c) == \E s \in Student :
    /\ Available
    /\ Enter(c, [Idle EXCEPT !.op = "start", !.student = s, !.stage = "enrolment"])
    /\ UNCHANGED <<event, paper, books, shown, overtaken, exposed>>

\* Starting and submitting both require an active enrolment.
CheckEnrolment(c) ==
    /\ call[c].stage = "enrolment"
    /\ IF call[c].student \notin enrolled THEN Return(c)
       ELSE Advance(c, IF call[c].op = "start" THEN "lookup" ELSE "paper")
    /\ UNCHANGED <<event, paper, books, shown, overtaken, exposed>>

\* getOpenAttempt, and again after losing the race to insert: the second time
\* an attempt that is no longer open makes the call fail.
FindOpenAttempt(c) ==
    /\ call[c].op = "start" /\ call[c].stage \in {"lookup", "retry"}
    /\ \/ \E a \in Open(call[c].student) :
             Goto(c, [call[c] EXCEPT !.attempt = a, !.stage = "paper"])
       \/ /\ Open(call[c].student) = {}
          /\ IF call[c].stage = "lookup" THEN Advance(c, "insert") ELSE Return(c)
    /\ UNCHANGED <<event, paper, books, shown, overtaken, exposed>>

\* Mutant: the index on open attempts is not there.
CreateAttemptUnindexed(c) ==
    /\ At(c, "start", "insert")
    /\ \E a \in Unused :
          /\ attempts' = [attempts EXCEPT ![a] = [student |-> call[c].student,
                                                  status  |-> "IN_PROGRESS"]]
          /\ Goto(c, [call[c] EXCEPT !.attempt = a, !.stage = "paper"])
    /\ UNCHANGED <<event, paper, answers, results, shown, overtaken, exposed>>

\* The partial unique index admits one open attempt per event and student.
\* Bound: without an unused id the call waits here.
CreateAttempt(c) ==
    /\ At(c, "start", "insert")
    /\ IF Open(call[c].student) # {}
       THEN Advance(c, "retry") /\ UNCHANGED attempts
       ELSE \E a \in Unused :
              /\ attempts' = [attempts EXCEPT ![a] = [student |-> call[c].student,
                                                      status  |-> "IN_PROGRESS"]]
              /\ Goto(c, [call[c] EXCEPT !.attempt = a, !.stage = "paper"])
    /\ UNCHANGED <<event, paper, answers, results, shown, overtaken, exposed>>

ShowPaper(c) ==
    /\ At(c, "start", "paper")
    /\ shown' = [shown EXCEPT ![call[c].attempt] = paper]
    /\ Return(c)
    /\ UNCHANGED <<event, paper, books, overtaken, exposed>>

-----------------------------------------------------------------------------
(* Saving answers: the status and the questions are read, then each answer *)
(* is upserted by a statement of its own; a refused one keeps the earlier. *)

SaveAnswers(c) == \E a \in Attempt, items \in Batch :
    /\ attempts[a].status = "IN_PROGRESS"
    /\ Enter(c, [Idle EXCEPT !.op = "save", !.student = attempts[a].student, !.attempt = a,
                             !.items = items, !.stage = "paper"])
    /\ UNCHANGED <<event, paper, books, shown, overtaken, exposed>>

ReadPaper(c) ==
    /\ At(c, "save", "paper")
    /\ Goto(c, [call[c] EXCEPT !.paper = paper, !.stage = "apply"])
    /\ UNCHANGED <<event, paper, books, shown, overtaken, exposed>>

\* A mark has been computed from the answers of attempt a and may be stored.
Marking(a) == \E c \in Learner : At(c, "submit", "store") /\ call[c].attempt = a

ApplyAnswer(c) ==
    /\ At(c, "save", "apply")
    /\ LET a == call[c].attempt
           q == Head(call[c].items)[1]
           o == Head(call[c].items)[2]
           fits == q \in Asked(call[c].paper) /\ o \in call[c].paper[q].options
       IN  IF ~ fits \/ q \notin Asked(paper)
           THEN Return(c) /\ UNCHANGED <<answers, overtaken>>
           ELSE /\ answers' = [answers EXCEPT ![a][q] = o]
                /\ overtaken' = IF Marking(a) \/ attempts[a].status = "SUBMITTED"
                                THEN overtaken \cup {a} ELSE overtaken
                /\ IF Len(call[c].items) = 1 THEN Return(c)
                   ELSE Goto(c, [call[c] EXCEPT !.items = Tail(call[c].items)])
    /\ UNCHANGED <<event, paper, attempts, results, shown, exposed>>

-----------------------------------------------------------------------------
(* Submitting: reads, evaluation, then one guarded transaction. *)

SubmitAttempt(c) == \E a \in Attempt :
    /\ attempts[a].status = "IN_PROGRESS"
    /\ Enter(c, [Idle EXCEPT !.op = "submit", !.student = attempts[a].student, !.attempt = a,
                             !.stage = "event"])
    /\ UNCHANGED <<event, paper, books, shown, overtaken, exposed>>

CheckEvent(c) ==
    /\ At(c, "submit", "event")
    /\ IF Available THEN Advance(c, "enrolment") ELSE Return(c)
    /\ UNCHANGED <<event, paper, books, shown, overtaken, exposed>>

LoadPaper(c) ==
    /\ At(c, "submit", "paper")
    /\ IF MarksOf(paper, Asked(paper)) = 0 THEN Return(c)
       ELSE Goto(c, [call[c] EXCEPT !.paper = paper, !.stage = "answers"])
    /\ UNCHANGED <<event, paper, books, shown, overtaken, exposed>>

\* Mutant: the answers of the student, whichever attempt they belong to.
EvaluateByStudent(c) ==
    /\ At(c, "submit", "answers")
    /\ \E a \in Attempt :
          /\ attempts[a].student = call[c].student
          /\ Goto(c, [call[c] EXCEPT !.result = Evaluation(call[c].paper, answers[a]),
                                     !.stage = "store"])
    /\ UNCHANGED <<event, paper, books, shown, overtaken, exposed>>

Evaluate(c) ==
    /\ At(c, "submit", "answers")
    /\ LET sheet == answers[call[c].attempt]
       IN  IF Inconsistent(call[c].paper, sheet) THEN Return(c)
           ELSE Goto(c, [call[c] EXCEPT !.result = Evaluation(call[c].paper, sheet),
                                        !.stage = "store"])
    /\ UNCHANGED <<event, paper, books, shown, overtaken, exposed>>

\* Mutant: two statements without a transaction; the second may fail.
SubmitThenResult(c) ==
    /\ At(c, "submit", "store")
    /\ attempts[call[c].attempt].status = "IN_PROGRESS"
    /\ attempts' = [attempts EXCEPT ![call[c].attempt].status = "SUBMITTED"]
    /\ results' \in {results, [results EXCEPT ![call[c].attempt] = call[c].result]}
    /\ Return(c)
    /\ UNCHANGED <<event, paper, answers, shown, overtaken, exposed>>

\* Mutant: an upsert that does not test the status.
SubmitUnguarded(c) ==
    /\ At(c, "submit", "store")
    /\ attempts' = [attempts EXCEPT ![call[c].attempt].status = "SUBMITTED"]
    /\ results' = [results EXCEPT ![call[c].attempt] = call[c].result]
    /\ Return(c)
    /\ UNCHANGED <<event, paper, answers, shown, overtaken, exposed>>

SubmitAttemptWithResult(c) ==
    /\ At(c, "submit", "store")
    /\ LET a == call[c].attempt
       IN  IF attempts[a].status = "IN_PROGRESS"
           THEN /\ attempts' = [attempts EXCEPT ![a].status = "SUBMITTED"]
                /\ results' = [results EXCEPT ![a] = call[c].result]
           ELSE UNCHANGED <<attempts, results>>
    /\ Return(c)
    /\ UNCHANGED <<event, paper, answers, shown, overtaken, exposed>>

-----------------------------------------------------------------------------
(* The clock, and the administration of enrolments. *)

TimePasses ==
    /\ schedule' = CASE schedule = "ahead" -> "open" [] schedule = "open" -> "past"
                     [] OTHER -> schedule
    /\ UNCHANGED <<status, enrolled, paper, books, call, shown, overtaken, exposed>>

EnrolmentChanges == \E s \in Student :
    /\ enrolled' = IF s \in enrolled THEN enrolled \ {s} ELSE enrolled \cup {s}
    /\ UNCHANGED <<status, schedule, paper, books, call, shown, overtaken, exposed>>

Authoring(c) ==
    \/ AddQuestion(c) \/ Number(c) \/ UpdateQuestion(c) \/ DeleteQuestion(c) \/ Current(c)
    \/ Clash(c) \/ InsertQuestion(c) \/ RewriteQuestion(c) \/ EraseQuestion(c)
    \/ ChangeEventStatus(c) \/ SetEventStatus(c) \/ UpdateEvent(c) \/ SetSchedule(c)

Attempting(c) ==
    \/ StartAttempt(c) \/ CheckEnrolment(c) \/ FindOpenAttempt(c) \/ CreateAttempt(c) \/ ShowPaper(c)
    \/ SaveAnswers(c) \/ ReadPaper(c) \/ ApplyAnswer(c)
    \/ SubmitAttempt(c) \/ CheckEvent(c) \/ LoadPaper(c) \/ Evaluate(c) \/ SubmitAttemptWithResult(c)

Next ==
    \/ \E c \in Author : Authoring(c)
    \/ \E c \in Learner : Attempting(c)
    \/ TimePasses
    \/ EnrolmentChanges

Spec == Init /\ [][Next]_vars

-----------------------------------------------------------------------------
(* Properties. *)

\* A student has at most one open attempt, however many starts race: the check
\* before the insert is not enough, the partial unique index settles it.
OneOpenAttempt == \A s \in Student : Cardinality(Open(s)) <= 1

\* "Never leaves a SUBMITTED attempt without a result or vice versa"
\* (repository.ts, submitAttemptWithResult).
ResultPerSubmission ==
    \A a \in Attempt : results[a] # None <=> attempts[a].status = "SUBMITTED"

\* A stored result never changes and its attempt never reopens, although any number
\* of submissions may have computed marks for the same attempt.
ResultsFinal ==
    [][\A a \in Attempt : results[a] # None =>
          results'[a] = results[a] /\ attempts'[a] = attempts[a]]_vars

\* The result counts the questions and marks the student was last shown, however authors,
\* saves and submissions overlap, unless a question was written under the attempt by a call
\* that had found the event still in draft (requireDraftEvent comes before the write), or
\* another such call took the event back to a draft.
ScoredAsShown ==
    \A a \in Attempt \ exposed : results[a] # None /\ shown[a] # None =>
        LET r == results[a]
        IN  /\ r.max = MarksOf(shown[a], Asked(shown[a]))
            /\ r.correct + r.incorrect + r.unanswered = Cardinality(Asked(shown[a]))

\* Every stored answer is one of its question's options, so that evaluateFormalAttempt
\* meets INCONSISTENT_RESULT_DATA only after such a write: a save is checked against the
\* questions of an earlier read, and nothing else keeps the two together.
AnswersFit == \A a \in Attempt \ exposed : ~ Inconsistent(paper, answers[a])

\* A result is what marking the stored answers by the stored questions gives, with any
\* number of authors, saves and submissions under way, unless an answer was stored after
\* the submission had read them, or a question by such a write.
MarkedAsStored ==
    \A a \in Attempt \ (overtaken \cup exposed) : results[a] # None =>
        results[a] = Evaluation(paper, answers[a])

\* What marking says of an attempt is true of the paper its student was shown and of the
\* answers that are stored, but for the attempts the code wrote to too late.
ResultsTruthful == MarkedAsStored /\ ScoredAsShown /\ AnswersFit
=============================================================================
