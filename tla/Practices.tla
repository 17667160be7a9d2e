----------------------------- MODULE Practices ------------------------------
(***************************************************************************)
(* One practice: its questions and their authors (modules/practice), the   *)
(* attempts of its students, and the page on which a student answers one   *)
(* of them (AttemptPage.tsx).                                              *)
(*                                                                         *)
(* Authors check that the practice is a draft and write later, without a   *)
(* guard; requests of a student read the attempt, then the questions, and  *)
(* then write.  A request goes on when the page that sent it is left.      *)
(* Abstracted: titles, texts, the percentage, enrolment (never ended).     *)
(***************************************************************************)
EXTENDS Papers

CONSTANTS
    Author,     \* authoring requests under way
    Request,    \* requests of the student under way
    Attempt,    \* ids of practice_attempts
    MaxFaults   \* bound on requests that fail, lost replies and reloads of the page

FaultBound == MaxFaults \in Nat
NoneIsNothing ==
    None \notin {"IN_PROGRESS", "SUBMITTED", "save", "submit", "load", "questions", "answers", "apply"}

VARIABLES
    status,     \* practices.status
    paper,      \* practice_questions
    editing,    \* the authoring requests past their check of the status
    attempt,    \* practice_attempts
    sheet,      \* practice_attempt_answers
    call,       \* the requests of the student
    page,       \* AttemptPage
    faults,     \* faults so far
    late,       \* history: attempts whose answers or questions changed after marking read them
    unsure      \* history: answers of which some save is stray or of unknown outcome

authoring == <<status, paper, editing>>
rows      == <<attempt, sheet>>
history   == <<late, unsure>>
vars      == <<authoring, rows, call, page, faults, history>>

Choice == [Question -> Option \cup {None}]
PracticeStatus == {"DRAFT", "PUBLISHED", "ARCHIVED"}
TryStatus   == {None, "IN_PROGRESS", "SUBMITTED"}
SaveState   == {"idle", "saving", "saved", "error"}
SubmitState == {"idle", "submitting", "submitted", "error"}
NoTry  == [status |-> None, result |-> None]
Idle   == [op |-> None, stage |-> None, attempt |-> None, question |-> None, option |-> None,
           paper |-> None, result |-> None, heard |-> FALSE]
\* A page just loaded: it has the questions as they were then, and no selections, whatever
\* the attempt has stored.
Fresh(a, questions) == [attempt |-> a, paper |-> questions, chosen |-> BlankSheet, acked |-> BlankSheet,
                        saves |-> [q \in Question |-> "idle"], submit |-> "idle"]

TypeOK ==
    /\ status \in PracticeStatus
    /\ paper \in Paper
    /\ editing \subseteq Author
    /\ \A a \in Attempt :
         /\ attempt[a].status \in TryStatus
         /\ (attempt[a].result = None) = (attempt[a].status # "SUBMITTED")
    /\ sheet \in [Attempt -> Sheet]
    /\ \A r \in Request :
         /\ call[r].op \in {None, "save", "submit"}
         /\ call[r].stage \in {None, "load", "questions", "answers", "apply"}
    /\ page.attempt \in Attempt \cup {None} /\ page.paper \in Paper
    /\ page.chosen \in Choice /\ page.acked \in Choice
    /\ page.saves \in [Question -> SaveState]
    /\ page.submit \in SubmitState
    /\ faults \in 0..MaxFaults
    /\ late \subseteq Attempt /\ unsure \subseteq Attempt \X Question

Init ==
    /\ status = "DRAFT" /\ paper = BlankPaper /\ editing = {}
    /\ attempt = [a \in Attempt |-> NoTry] /\ sheet = [a \in Attempt |-> BlankSheet]
    /\ call = [r \in Request |-> Idle] /\ page = Fresh(None, BlankPaper)
    /\ faults = 0 /\ late = {} /\ unsure = {}

Submitted == {a \in Attempt : attempt[a].status = "SUBMITTED"}
\* The attempts whose marking has read the questions, or is over.
Marking == {r \in Request : call[r].op = "submit" /\ call[r].stage \in {"answers", "apply"}}
Read    == Submitted \cup {call[r].attempt : r \in Marking}

-----------------------------------------------------------------------------
(* Authors *)

PublishPractice ==
    /\ status = "DRAFT" /\ status' = "PUBLISHED"
    /\ UNCHANGED <<paper, editing, rows, call, page, faults, history>>

ArchivePractice ==
    /\ status \in {"DRAFT", "PUBLISHED"} /\ status' = "ARCHIVED"
    /\ UNCHANGED <<paper, editing, rows, call, page, faults, history>>

OpenAlways(h) ==    \* mutant: no requireEditable
    /\ h \notin editing /\ editing' = editing \cup {h}
    /\ UNCHANGED <<status, paper, rows, call, page, faults, history>>

\* resolvePracticeForAuthor and requireEditable, of each of the three below.
OpenDraft(h) ==
    /\ h \notin editing /\ status = "DRAFT" /\ editing' = editing \cup {h}
    /\ UNCHANGED <<status, paper, rows, call, page, faults, history>>

Written(h, newPaper) ==
    /\ h \in editing /\ editing' = editing \ {h}
    /\ paper' = newPaper
    /\ late' = late \cup Read
    /\ UNCHANGED <<status, rows, call, page, faults, unsure>>

\* The sequence number given, or the next one when it was read; the index has the last word.
AddQuestion(h, q, r) ==
    /\ paper[q] = None /\ ~Taken(paper, r.seq, q)
    /\ Written(h, [paper EXCEPT ![q] = r])

UpdateQuestion(h, q, r) ==
    /\ q \in Asked(paper) /\ ~Taken(paper, r.seq, q)
    /\ Written(h, [paper EXCEPT ![q] = r])

DeleteAnswered(h, q) ==     \* mutant: answers do not hold their question
    /\ q \in Asked(paper)
    /\ Written(h, [paper EXCEPT ![q] = Gone])

\* The foreign key of the answers restricts the delete.
DeleteQuestion(h, q) ==
    /\ q \in Asked(paper) /\ \A a \in Attempt : sheet[a][q] = None
    /\ Written(h, [paper EXCEPT ![q] = Gone])

\* A number taken, no such question, an answered one.
RefuseQuestion(h) ==
    /\ h \in editing /\ editing' = editing \ {h}
    /\ UNCHANGED <<status, paper, rows, call, page, faults, history>>

-----------------------------------------------------------------------------
(* The student's side.  A reply reaches the page that sent the request, or  *)
(* nobody.                                                                  *)

\* getPublishedPracticeForStudent.
OnOffer == status = "PUBLISHED"

StartAttempt(a) ==
    /\ OnOffer /\ attempt[a].status = None
    /\ attempt' = [attempt EXCEPT ![a].status = "IN_PROGRESS"]
    /\ UNCHANGED <<authoring, sheet, call, page, faults, history>>

\* What leaving a page does to its requests: they run on, unheard.
Abandon ==
    /\ call' = [r \in Request |-> [call[r] EXCEPT !.heard = FALSE]]
    /\ unsure' = unsure \cup {<<call[r].attempt, call[r].question>> :
                                r \in {s \in Request : call[s].op = "save"}}

\* The page loads the practice, which must be published; it never asks for the attempt.
OpenPage(a) ==
    /\ attempt[a].status # None /\ OnOffer
    /\ faults < MaxFaults \/ page.attempt = None
    /\ faults' = IF page.attempt = None THEN faults ELSE faults + 1
    /\ page' = Fresh(a, paper) /\ Abandon
    /\ UNCHANGED <<authoring, rows, late>>

Send(r, op, q, o) ==
    /\ call[r] = Idle
    /\ call' = [call EXCEPT ![r] = [Idle EXCEPT !.op = op, !.stage = "load", !.heard = TRUE,
                                    !.attempt = page.attempt, !.question = q, !.option = o]]

PersistOnce(r, q, o) ==     \* mutant: an option is only sent if none was before
    IF page.saves[q] = "idle"
      THEN /\ page' = [page EXCEPT !.chosen[q] = o, !.saves[q] = "saving"]
           /\ Send(r, "save", q, o)
      ELSE /\ page' = [page EXCEPT !.chosen[q] = o, !.saves[q] = IF @ = "saving" THEN @ ELSE "saved"]
           /\ UNCHANGED call

\* persistAnswer, called with option o chosen: nothing is sent while a save of the question
\* runs, nor when the page believes that the option is the one stored.
Persist(r, q, o) ==
    IF page.saves[q] = "saving" \/ page.acked[q] = o
      THEN /\ page' = [page EXCEPT !.chosen[q] = o,
                                   !.saves[q] = IF @ = "saving" THEN @ ELSE "saved"]
           /\ UNCHANGED call
      ELSE /\ page' = [page EXCEPT !.chosen[q] = o, !.saves[q] = "saving"]
           /\ Send(r, "save", q, o)

\* handleSelect.
Select(r, q, o) ==
    /\ page.attempt # None /\ q \in Asked(page.paper) /\ o \in page.paper[q].options
    /\ page.submit \notin {"submitting", "submitted"} /\ page.chosen[q] # o
    /\ Persist(r, q, o)
    /\ UNCHANGED <<authoring, rows, faults, history>>

RetrySave(r, q) ==
    /\ page.saves[q] = "error" /\ Persist(r, q, page.chosen[q])
    /\ UNCHANGED <<authoring, rows, faults, history>>

\* handleConfirmSubmit, from the dialog or by "Try again"; saves may still be running.
ConfirmSubmit(r) ==
    /\ page.attempt # None /\ Asked(page.paper) # {} /\ page.submit \in {"idle", "error"}
    /\ page' = [page EXCEPT !.submit = "submitting"]
    /\ Send(r, "submit", None, None)
    /\ UNCHANGED <<authoring, rows, faults, history>>

\* The page hears that a save was stored, and sends what was chosen meanwhile.
Acknowledge(r) ==
    LET q == call[r].question IN
    IF page.chosen[q] = call[r].option
      THEN /\ page' = [page EXCEPT !.acked[q] = call[r].option, !.saves[q] = "saved"]
           /\ call' = [call EXCEPT ![r] = Idle]
      ELSE /\ page' = [page EXCEPT !.acked[q] = call[r].option]
           /\ call' = [call EXCEPT ![r].stage = "load", ![r].option = page.chosen[q]]

Hear(r, accepted) ==
    CASE call[r].heard /\ call[r].op = "save" /\ accepted -> Acknowledge(r)
      [] call[r].heard /\ call[r].op = "save" /\ ~accepted ->
           /\ page' = [page EXCEPT !.saves[call[r].question] = "error"]
           /\ call' = [call EXCEPT ![r] = Idle]
      [] call[r].heard /\ call[r].op = "submit" ->
           /\ page' = [page EXCEPT !.submit = IF accepted THEN "submitted" ELSE "error"]
           /\ call' = [call EXCEPT ![r] = Idle]
      [] OTHER -> call' = [call EXCEPT ![r] = Idle] /\ UNCHANGED page

-----------------------------------------------------------------------------
(* The server: saveAnswers and submitAttempt, a statement a step *)

\* loadOwnAttempt: a submitted attempt is refused.
LoadAttempt(r) ==
    /\ call[r].stage = "load"
    /\ IF attempt[call[r].attempt].status = "IN_PROGRESS"
         THEN call' = [call EXCEPT ![r].stage = "questions"] /\ UNCHANGED page
         ELSE Hear(r, FALSE)
    /\ UNCHANGED <<authoring, rows, faults, history>>

\* listQuestionsForPractice: a save is checked against the options, marking keeps the paper.
ReadQuestions(r) ==
    /\ call[r].stage = "questions"
    /\ CASE call[r].op = "submit" ->
              /\ call' = [call EXCEPT ![r].stage = "answers", ![r].paper = paper]
              /\ UNCHANGED page
         [] OTHER -> IF call[r].question \in Asked(paper)
                        /\ call[r].option \in paper[call[r].question].options
                       THEN call' = [call EXCEPT ![r].stage = "apply"] /\ UNCHANGED page
                       ELSE Hear(r, FALSE)
    /\ UNCHANGED <<authoring, rows, faults, history>>

\* applyAnswer: one upsert, which needs the question and asks nothing of the attempt.
ApplyAnswer(r) ==
    LET a == call[r].attempt
        q == call[r].question IN
    /\ call[r].op = "save" /\ call[r].stage = "apply"
    /\ IF q \in Asked(paper)
         THEN /\ sheet' = [sheet EXCEPT ![a][q] = call[r].option]
              /\ late' = IF a \in Submitted \/ \E s \in Request : call[s].attempt = a
                                /\ call[s].op = "submit" /\ call[s].stage = "apply"
                           THEN late \cup {a} ELSE late
              /\ Hear(r, TRUE)
         ELSE Hear(r, FALSE) /\ UNCHANGED <<sheet, late>>
    /\ UNCHANGED <<authoring, attempt, faults, unsure>>

EvaluateAll(r) ==    \* mutant: the answers of every attempt are read
    LET of(q) == {sheet[a][q] : a \in Attempt} \ {None} IN
    /\ call[r].stage = "answers"
    /\ call' = [call EXCEPT ![r].stage = "apply", ![r].paper = None,
                            ![r].result = Evaluation(call[r].paper, [q \in Question |->
                                IF of(q) = {} THEN None ELSE CHOOSE o \in of(q) : TRUE])]
    /\ UNCHANGED <<authoring, rows, page, faults, history>>

\* getAnswersForAttempt and evaluateAttempt.
Evaluate(r) ==
    /\ call[r].stage = "answers"
    /\ call' = [call EXCEPT ![r].stage = "apply", ![r].paper = None,
                            ![r].result = Evaluation(call[r].paper, sheet[call[r].attempt])]
    /\ UNCHANGED <<authoring, rows, page, faults, history>>

SubmitAgain(r) ==    \* mutant: the UPDATE does not ask for an attempt in progress
    LET a == call[r].attempt IN
    /\ call[r].op = "submit" /\ call[r].stage = "apply"
    /\ attempt' = [attempt EXCEPT ![a] = [status |-> "SUBMITTED", result |-> call[r].result]]
    /\ Hear(r, TRUE)
    /\ UNCHANGED <<authoring, sheet, faults, history>>

\* The UPDATE of submitAttempt, which only an attempt in progress passes.
Submit(r) ==
    LET a == call[r].attempt IN
    /\ call[r].op = "submit" /\ call[r].stage = "apply"
    /\ IF attempt[a].status = "IN_PROGRESS"
         THEN /\ attempt' = [attempt EXCEPT ![a] = [status |-> "SUBMITTED",
                                                    result |-> call[r].result]]
              /\ Hear(r, TRUE)
         ELSE Hear(r, FALSE) /\ UNCHANGED attempt
    /\ UNCHANGED <<authoring, sheet, faults, history>>

\* A statement fails, or the answer to a save that was stored never arrives.
Fault(r) ==
    /\ call[r] # Idle /\ faults < MaxFaults /\ faults' = faults + 1
    /\ Hear(r, FALSE)
    /\ UNCHANGED <<authoring, rows, history>>

LoseReply(r) ==
    LET a == call[r].attempt
        q == call[r].question IN
    /\ call[r].stage = "apply" /\ faults < MaxFaults /\ faults' = faults + 1
    /\ CASE call[r].op = "save" ->
              /\ q \in Asked(paper) /\ sheet' = [sheet EXCEPT ![a][q] = call[r].option]
              /\ late' = IF a \in Submitted \/ \E s \in Request : call[s].attempt = a
                                /\ call[s].op = "submit" /\ call[s].stage = "apply"
                           THEN late \cup {a} ELSE late
              /\ unsure' = unsure \cup {<<a, q>>}
              /\ UNCHANGED attempt
         [] OTHER ->
              /\ attempt[a].status = "IN_PROGRESS"
              /\ attempt' = [attempt EXCEPT ![a] = [status |-> "SUBMITTED",
                                                    result |-> call[r].result]]
              /\ UNCHANGED <<sheet, history>>
    /\ Hear(r, FALSE)
    /\ UNCHANGED authoring

\* buildPerQuestionReview: each question and answer as they are now.
Review(questions, answers) ==
    [q \in Asked(questions) |->
       LET right == answers[q] = questions[q].correct IN
       [selected |-> answers[q], right |-> right, awarded |-> IF right THEN questions[q].marks ELSE 0]]

\* getResult, of a submitted attempt: the stored summary and the review.
ResultView(a) == [summary |-> attempt[a].result, review |-> Review(paper, sheet[a])]

-----------------------------------------------------------------------------
Authoring ==
    \/ PublishPractice \/ ArchivePractice
    \/ \E h \in Author : OpenDraft(h) \/ RefuseQuestion(h)
    \/ \E h \in Author, q \in Question, r \in Row : AddQuestion(h, q, r) \/ UpdateQuestion(h, q, r)
    \/ \E h \in Author, q \in Question : DeleteQuestion(h, q)

Server(r) ==
    \/ LoadAttempt(r) \/ ReadQuestions(r) \/ ApplyAnswer(r)
    \/ Evaluate(r) \/ Submit(r)

Next ==
    \/ Authoring
    \/ \E a \in Attempt : StartAttempt(a) \/ OpenPage(a)
    \/ \E r \in Request : Server(r) \/ Fault(r) \/ LoseReply(r) \/ ConfirmSubmit(r)
    \/ \E r \in Request, q \in Question : RetrySave(r, q)
    \/ \E r \in Request, q \in Question, o \in Option : Select(r, q, o)

Spec == Init /\ [][Next]_vars

-----------------------------------------------------------------------------
\* Where the page says "Answer saved", the option it shows is the one stored, through changes
\* made while a save runs, errors and retries, unless a save of that question went astray: its
\* page was left, or its answer never came (AttemptPage persistAnswer, applyAnswer).
SavedIsStored ==
    \A q \in Question :
      page.attempt # None /\ page.saves[q] = "saved" /\ <<page.attempt, q>> \notin unsure =>
        sheet[page.attempt][q] = page.chosen[q]

\* The stored score is the one the review shows, question by question, unless an answer
\* or a question was written under a status read before (submitAttempt, getResult).
ReviewAgrees ==
    \A a \in Submitted \ late :
      LET shown == ResultView(a).summary
          of    == ResultView(a).review
          those(P(_)) == Cardinality({q \in DOMAIN of : P(of[q])}) IN
      /\ shown.score = MapThenSumSet(LAMBDA q : of[q].awarded, DOMAIN of)
      /\ shown.correct = those(LAMBDA x : x.right)
      /\ shown.unanswered = those(LAMBDA x : x.selected = None)
      /\ shown.incorrect = those(LAMBDA x : ~x.right /\ x.selected # None)

\* A result, once stored, never changes: attempts are kept, and a second submission,
\* however the two interleave, finds nothing to update (migration 041).
ResultKept ==
    \A a \in Submitted : attempt'[a] = attempt[a]

\* A question is only written after publication by a request that had passed its check
\* before: once those are through, the paper is settled (requireEditable).
PaperSettles ==
    status # "DRAFT" => editing' \subseteq editing
                        /\ (paper' # paper => editing' # editing)

\* No answer is left without its question, whoever deletes it and whenever.
AnswersHaveQuestions ==
    \A a \in Attempt, q \in Question : sheet[a][q] # None => q \in Asked(paper)
=============================================================================
