# Verification of ai-teacher

ai-teacher is a learning platform for schools: an Express backend over PostgreSQL, a React frontend,
and a command-line orchestrator that drives an AI agent through the development of the product
itself. This directory holds TLA+ models of the parts where several actors share state, TLC
configurations that check them on small instances, and TLAPS proofs for the properties that matter
most. `PROJECT.json` maps every definition to the lines it models and lists runs, mutants, findings,
hazards and theorems.

    tlc -workers 2 -config MCConversation_keys.cfg MCConversation
    tlapm ConversationProofs.tla

## 1. Inventory

| Component | State it keeps | Operations | What is hard | Correct means | Model |
|---|---|---|---|---|---|
| AI conversations (`backend/src/modules/ai/conversation.*`, `generation.service.ts`) | conversations, messages, generation attempts, usage events, idempotency keys | create, send, edit, retry, regenerate, delete, replay of a key | two transactions around a provider call that may take minutes; crashes and lost acknowledgements between them; concurrent calls; replays | one effect per key; an attempt ends once, with an answer exactly when it is COMPLETED; nothing enters a deleted conversation | `Conversation`, `GenerationPromise` |
| Branches and editing (same files) | branches, branch points, sequence numbers | edit, activate, history, preview | a history is a chain of branches with cutoffs, read after the attempt was prepared | a branch shows its own messages and its ancestors' up to the branch point; the provider is given one answer per question | `BranchHistory` |
| Conversation page (`AiConversationPage.tsx`) | thread snapshot, pending operation, kept keys, draft, request sequence | send, edit, retry, regenerate, poll, switch thread | answers that arrive late or never, for another thread, or before an older read | a question is stored once; only the newest snapshot of the open thread is shown; what was typed is not lost | `ThreadPage` |
| Formal assessments (`academic/assessment-execution`, `academic/assessment`) | event, questions, attempts, answers, results | author questions, move the event, start, save, submit | almost every call is read, check, write in separate statements | one open attempt; a result per submission, final, and of the paper that was shown | `AssessmentExecution`, `Papers` |
| Practices (`modules/practice`) and the attempt page (`AttemptPage.tsx`) | practice, questions, attempts with their results; unsaved choices | author, publish, archive, start, save, submit, review | the same races; the review is rebuilt from current rows; saves overtaken by choices | what the page calls saved is stored; score and review agree; results stay | `Practices`, `Papers` |
| Assignments (`academic/assignments`) | assignment, submissions | create, edit, publish, close, archive, submit, decide | status checked before, whole row written after | handed-in work is kept and counted; a published assignment keeps what it asked | `Assignments` |
| Academic calendars (`academic/calendar`, migration 020) | calendar, tree of periods, events on them | status changes, periods, scheduling | checks in the service, in triggers and in foreign keys | a reference calendar only moves forward and keeps what it holds; periods nest | `Calendars` |
| Learning resources (`content/learning-resources`) | rows with a lifecycle status | create, edit, move, publish, archive | read, check, write by id | archived stays archived; one title per topic | `Resources` |
| Curriculum (`modules/curriculum`) | boards, syllabi, datasets and their copies, chapters | create, designate, load, publish, materialise | row locks, a partial unique index, immutability triggers | one authoritative syllabus per class; copies are of published data; titles apart | `Syllabi`, `ReferenceData`, `Chapters` |
| Sessions (`auth`, `server.ts`; `frontend/src/auth`, `services/api/client.ts`) | refresh tokens in families; tokens in the browser | login, refresh, logout, start-up check | rotation in three statements; tabs; a lost reply | one live token per family; reuse kills the family; a good session is not signed out | `Sessions` |
| Invitations, enrolment (`server.ts`, `modules/student`) | invitations, enrolments, the current selection | invite, register, join, enrol, revoke, select | use count checked outside the transaction | every use counted; no half-made accounts; once per class and year | `Enrolment` |
| Organisations, people, classes (`server.ts`) | members, profiles, relations, class teachers, subjects | create, link, assign, end | check and write in separate statements | links seen from both ends; one class teacher | `School` |
| Process runner of the orchestrator (`opencode-process.ts`) | one child process, two timers | run with timeout and kill | exit racing timeout; pipes that stay open | one outcome, true of the child, and always one | `ProcessRunner` |
| Orchestrator (`tools/ai-orchestrator`) | workflow runs in memory, approvals, waivers; the git working tree | start, plan, approval, build, test, review, verify, evidence, waivers | operations await the agent and git; calls overlap; time passes; git fails | only forward, only with a human grant; VERIFIED only on evidence; changes only in scope | `WorkflowGraph`, `Orchestrator`, `ApprovedRun` |
| Progress and homework reports (`modules/progress`) | none of its own | coverage, weak and strong topics, repeated mistakes, results, counts of homework, a whole profile | every section has queries of its own, side by side; rows are judged by a later clock; a teacher's class is checked before | what is reported was so while it was put together; the past is not taken back | `Progress`, `Timeliness` |
| Administrators' reports, student views, other pages | none | aggregate queries, one request each | none beyond snapshot reads | agree with the tables | no (read-only) |
| Prompt assembly, language and board parsing, agent output parsing | none | text in, text out | wording | – | no (outcomes are choices in the models) |

Interactions: the frontend calls the backend over HTTP and may repeat any call; the backend's
handlers share nothing but PostgreSQL (and crash together); the conversation service calls the AI
provider and records usage events; attempts of assessments and practices read the enrolments that
invitations create; the AI context is resolved from the authoritative syllabus; progress and
reporting read what the others store. The orchestrator is a separate process that shares the git
working tree with the agent it runs, through the process runner, and with people.

The `hazards` of `PROJECT.json` list where each hard behaviour bites and the properties that would
catch it; a hazard without a property says why, and one that the code meets says in its note what the
property excepts for it.

## 2. Plan

Written, in this order: `Conversation` with `GenerationPromise`; `Orchestrator` over `WorkflowGraph`
with `ApprovedRun`; `AssessmentExecution` over `Papers`; `Practices`; `Sessions`; `BranchHistory`;
`ThreadPage`; `Assignments`, `Calendars`, `Resources`; `Enrolment`, `School`; `Syllabi`,
`ReferenceData`, `Chapters`; `ProcessRunner`; and the proof modules of section 6.

What is left:

- `BranchHistory` and `ThreadPage` composed with `Conversation` through the request and attempt ids,
  the page over `GenerationPromise` in place of its own server.

## 3. Conventions

One database statement is one step. A transaction is one step where a row lock (`FOR UPDATE`), a
guarded UPDATE or a unique index serialises it with everything that could tell the difference; the
module headers say which. A handler, call or caller is a process: between its steps any other may
run, and what it has read is kept in its record and may be stale. In the browser, what runs between
two awaits is one step. Rows are functions of ids; an unused id has a row of `None`s. Constants
named as sets of ids (`Attempt`, `Question`) bound nothing but the number of rows. Variables marked
*history* in their comments are not read by any action; they exist for properties. Definitions whose
comment begins with *Mutant* are faulty variants of the definition that follows; each property of a
passing run has at least one that breaks it, and those that combine several parts one per part.

`MCAdministration`, `MCStudy`, `MCThread` and `MCEndings` each instantiate several components that
share no state. Instead of their product, whose interleavings say nothing new, a behaviour is one of
any of them: `part` says of which, `v1`, `v2`, ... are its variables in the order in which its
module declares them, and each checked property is the conjunction of the parts' own, named in its
body. `Parts` declares these variables and the tails a shorter part leaves unused. Each of the four
names its behaviours and properties apart (`ThreadSpec`, `StudyTypeOK`), so that a module of proofs
can extend several of them; constants that only serve to size an instance are named for their size
(`Only`, `Twin`, `Lone`, `Pair`), and a set of ids may serve several parts.

Texts, names, roles, tenancy and formatting are left out everywhere: no checked property depends on
them. Titles appear where their uniqueness does.

Deadlock checking is off wherever an instance may run out of ids, requests or things to do.

## 4. The models

### Conversation

`conv`, `reqs`, `atts`, `responses`, `usage` and `idem` are the tables of migrations 024, 025, 046
and 047, reduced to the columns the protocol reads. `task[h]` is where an HTTP handler stands in
`runGeneration`; `reply[h]` what it answered. `CreateEmpty`, `CreateWithQuestion`, `SendMessage`,
`Retry` and `Regenerate` are the first transaction of each call, including the idempotency row that
is inserted and linked in the same transaction. `Replay` and `ReplayRespond` answer a known key from
the stored row, in two reads. `AssembleContext` to `Respond` are the generation: context, provider,
completion transaction, failure transaction, the recovery of `finalizeUnexpectedFailure` (three
tries) and the final re-read. `CompletionError` covers both a rollback and a commit whose
acknowledgement is lost; `Crash` ends every handler and leaves the tables. After a crash an attempt
stays PROCESSING: nothing in `server.ts` looks for it, and its conversation takes no new messages.

`GenerationPromise` says the same to a student: threads, questions, keys, and attempts that open,
are answered or fail. `KeepsPromise` is the refinement, with faults; its run has no keys, whose
single use `OneEffectPerKey` states on its own, and the theorem covers both.

| Run | Question | Bounds |
|---|---|---|
| `conversation_lifecycle` | do the tables stay consistent, and is the promise implemented, under retries, regenerations, deletes and one fault | 1 conversation, 2 requests, 3 attempts (original, retry, regeneration of one request, or two of one and one of the other), 2 handlers, 1 fault |
| `conversation_keys` | does a repeated key have one effect, and is every reply true | 1 key for each of two operations, 2 contents (so hashes can disagree), 2 conversations, 2 handlers, 1 fault |
| `endings`, part `conversation` | does every call return, and every attempt end until something fails | 1 conversation, 1 request with two attempts, a key, 2 handlers, 1 fault, fairness |

Two handlers are enough for every race of the code: each check concerns one row and one competitor.
Three attempts are the fewest with an ended original and two that compete. One fault is a crash, a
completion that fails or loses its acknowledgement, or a failed try of a recovery; that all three
tries fail is beyond this bound and covered by the proofs, which have none.

### BranchHistory

`branch`, `active`, `req` and `ans` are the branches and messages of one conversation; `task[h]` is
the attempt a handler works on and the history it has read. `Send`, `Edit`, `Retry` and `Regenerate`
are the transaction that prepares an attempt: it holds the conversation row, so it is one step.
`Edit` opens a branch with its cutoff before the message it replaces. `ReadHistory` comes later, and
`Complete` later still, so other branches may have been opened or activated in between. `Visible` is
the chain of branches cut at each branch point, `History` the rules of `generationHistory` (which
failed questions are kept, which answer stands for a question, the limit), `Preview` the last
message that the list of conversations shows.

`VisibleIsThread` and `ReplacedIsHidden` say that what an ancestor gets later does not enter a
branch, and what an edit replaced never shows; `ContextPaired` that the provider sees an answer only
after its question and one per question.

### ThreadPage

The page's state is its React state and refs: the open thread (`page`), the snapshot it shows
(`thread`, `snap`), the pending operation, the locks, the kept keys, the draft and the read in
flight that counts (`latest`). The server is as much as the page can tell: the requests of each
conversation and the claims of keys. A mutation is `Issue`d, may `Arrive`, `End`s, and is heard
(`Reply`), or is lost on either way (`LoseRequest`, `Lose`), or was sent by a page that has since
opened another conversation. Every mutation is followed by a refresh; `Read` and `Deliver` are its
two halves, and `Usable` is the page's test of the request sequence. A key is kept for a slot: the
conversation, the branch that is shown, the kind of the call, the message an edit replaces, and the
text (`SlotFor`). As an edit begins a branch of its own (`BranchOf`), what is tried again after a
refresh may have another slot and so another key; `strayed` collects the intents whose key the page
lost in this way, or because it came back to a conversation in which a call was still on its way
(`Stray`). `AskedOnce` says that one press of Send is stored once however often it is tried again,
but for these (section 5). `ActsOnSeen`
says that an operation is based on a snapshot that shows the effect of the one before; `DraftKept`
that the input box is emptied only for a stored question, in a conversation that was not left and
opened again.

| Run | Question | Bounds |
|---|---|---|
| `thread` | branches, histories and previews; late, lost and misdirected answers on the page | history: 3 branches, 3 questions, 2 answers, `HistoryLimit` 2, 2 handlers. `page`: 2 keys, 2 presses, 2 calls, 1 read, 2 attempts, 1 fault. `reads`: 2 calls and 2 reads, 1 press. `pages`: 2 conversations, 2 reads, no fault |
| `thread_latest` | is the answer in a history the latest one: see findings | as `thread` |
| `endings`, part `page` | does no operation stay pending and no skeleton stay | 1 conversation, 2 reads, 1 call, 2 attempts, 1 fault, fairness |

Three branches give an edit of an edit and two siblings; two answers are an original and a
regeneration; a limit of 2 cuts every longer history. The page is checked in three instances because
each pair of things in flight (call and call, read and read, conversation and conversation) has its
own races, and their product is out of reach. The liveness instance has one conversation: when a
student goes from a conversation to a second one and back while the first read is out, the late
refresh may abort the new load and leave its skeleton (section 5).

### AssessmentExecution

`Papers` holds what assessments and practices share: question rows, sheets of answers, and
`Evaluation`, which marks a sheet. `AssessmentExecution` is one event with its questions, attempts,
answers and results, `Author` calls that write questions and move status and schedule, and `Learner`
calls that start, save and submit. `addQuestion` is `AddQuestion` (the event is read and must be a
draft), `Number`, `Clash`, `InsertQuestion`: three reads and an insert that only the unique index
guards. `startAttempt` is `StartAttempt`, `CheckEnrolment`, `FindOpenAttempt`, `CreateAttempt`,
`ShowPaper`, with the second lookup after a lost insert. `saveAnswers` reads status and questions
and then writes one answer per step; a refused answer ends the call and the earlier ones stay.
`submitAttempt` is six steps, the last a transaction whose guarded UPDATE decides between concurrent
submissions. The event may be in any status when it is first looked at, as `createEvent` accepts
any; `TimePasses` and `EnrolmentChanges` may happen at any time.

Writes of questions and of the status test nothing: each call keeps the status it `found`, and is
`TooLate` when the event has left it since. Any number of authors may be under way. `exposed`
collects the attempts whose questions changed under such a write, and, when one takes the event back
to a draft, every attempt, as anything may be written from then on; `overtaken` the attempts with an
answer stored after the submission had read them. `ResultsTruthful` joins `ScoredAsShown` and
`AnswersFit`, which except the exposed attempts, and `MarkedAsStored`, which excepts those of
either: what a student was shown is what is marked unless an author wrote too late, and what is
stored is what was marked unless a save did.

| Run | Question | Bounds |
|---|---|---|
| `assessment` | one open attempt, a final result per submission, and is what marking says true of what was shown and stored | 2 authors, 2 student calls, any 2 calls at a time, 2 attempts, 1 question with either of two options, 1 answer per save |

Two calls of one student are every pair of concurrent starts, saves and submissions; a second
student shares no row with the first but the questions. Two author calls are one that writes late
and one that moves the event on, or back; it then ends, and the late write overlaps the student's
calls: two at a time (`TwoAtATime`) are a check, its write and what comes between them. Once there
is a second attempt the authors rest: attempts share nothing but the questions, which the first has
met. A question offers one option, so that an answer need not fit what it is rewritten to. Larger
batches and papers, a third call and authors beside a second attempt are left to the proofs, which
have no bounds.

### Practices

One practice with its `status` and `paper`, the `attempt` rows with their answers and scores
(`sheet`), and the attempt page (`page`: what is chosen, what was last sent, what is shown as saved,
and how far the submission is). An author's call opens the draft and writes later without a guard
(`OpenDraft`, `AddQuestion`, `UpdateQuestion`, `DeleteQuestion`), so a question may change while
attempts run. A student's request reads the attempt (`LoadAttempt`), then the questions
(`ReadQuestions`), marks (`Evaluate`) and then writes (`ApplyAnswer`, `Submit`). `Select` is the
autosave: one save in flight, the last choice sent after it. `Fault`, `LoseReply` and a reload are
the faults. `SavedIsStored` is about what the page tells the student; `late` and `unsure` mark the
attempts whose answers or questions changed after marking had read them, and the answers of which a
save is stray or of unknown outcome. `PaperSettles` and `ResultKept` say what a publication and a
submission freeze.

### Assignments

The lifecycle moves (`Move`) are guarded UPDATEs and one step each; `BeginUpdate` and `Update` are
the edit, which reads a draft and later writes its class and deadline without a guard, whatever the
status is by then. `Submit` is one statement that decides by status and enrolment under a unique
index; `Decide` is the teacher's decision. `draft[t]` is what a request has read and will write; the
history variable `moved` holds the assignments that an edit moved to another class after
publication. `WorkKept` says that work handed in is neither lost nor handed in again.

### Calendars

One calendar. `SetStatus`, `InsertPeriod`, `UpdatePeriod` and `DeletePeriod` write what
`BeginStatus`, `BeginCreate`, `BeginUpdate` and `BeginDelete` checked; for a reference calendar the
triggers of migration 020 judge the write. `Schedule` puts an event on a period; the check of the
service (`assessment/service.ts` 42-63) and the trigger that repeats it are one guard. `Outside` is
the containment test of the service as it runs: a string against a `Date` object.

| Run | Question | Bounds |
|---|---|---|
| `study` | do marks, records, publications and reports hold while authors edit what students work on and work is handed in | practice: 1 question, 2 authors, 2 requests, 2 attempts, 1 fault. assignment: 1 assignment, 2 classes, 2 students, 2 teachers' requests. calendar: 2 periods over 2 days, 1 event, 2 requests. progress: 2 practices and 1 event of 10 questions, 2 attempts, 2 moments. homework: 2 assignments, 1 class, 3 instants |
| `study_contained` | does a period lie within its parent: see findings | as `study` |

Each check of these services concerns one row and one competitor: two requests are every race, and
two classes are an assignment that moves. Two periods are a parent and a child; two days are enough
for a child that begins before or ends after its parent.

### Progress and Timeliness

Both are a reader of tables that go on changing. In `Progress`, `seen` are the states of the tables
since the request was sent, and an `Answer` takes one of them for each query of each section
(`Says(s, t, u)`), as the queries of a profile run side by side. `BuildProgress`, `BuildUnfinished`,
`Weak`, `Strong` and `Repeated` are the derivations of `progress/service.ts` with their thresholds,
in exact hundredths. An attempt that was handed in is not frozen: `Save` stores answers of it that
were sent before, and `EditKeys` rewrites the key of a question that was read as a draft, which
makes right what was wrong and wrong what was right. `CoverageTimely` says what a report of a topic
can promise when its two queries see two states, `SectionsAgree` that the sections contradict each
other only if something changed meanwhile, `PastKept` that a result stays in the list, and that a
repeated mistake goes only when such a save or key has made right one of the mistakes that were
counted. In `Timeliness`, `ReadScope`, `CheckAssigned` and `Refuse` are the search for a class
shared with the teacher, one query per class; `ReadRows` and `Classify` the rows and, later, the
clock they are judged by. `CountsTruthful` compares each count with what really was,
`CountsComplete` says that nothing is missed while nothing changes.

Ten questions are the least evidence a weak or strong topic needs, and attempts answered in full,
half right or not at all give every verdict; two moments are a state before and one after a change.
Two assignments are one on time and one late; three instants are before, at and after a deadline.

### Sessions

`tok` is the table of refresh tokens; `call[h]` where a call of an auth endpoint stands. A refresh
is `LookupReplaced` / `Lookup`, `Reuse` (a revoked token revokes its family), `Revoke`, `Insert`,
`LinkBack`: each statement a step, with a failure after any of them. `storage` is the local storage
the tabs share; `status` and `req` are each tab's decision and its requests. `Share` is the refresh
that several requests of a tab wait for (`client.ts`), `Check` the separate one at start-up
(`auth-context.tsx`). `contended` are the families on which two calls overlapped, `lost` those with
a lost reply or failed statement; the properties that are only true without either say so by them.
`Succession` and `FamilyDies` need no such exception.

### School, Enrolment

`School`: organisations, admins, profiles, parent links, classes, subjects and their teachers, class
teachers. Rows keep their organisation, so a handler that checks only that is one step; mapping
subjects, assigning teachers and designating a class teacher read first (`AskMapping`,
`AskTeaching`, `AskDesignation`) and write later, the designation in three statements. `Enrolment`:
an invitation is looked up and judged (`Look`) before the transaction that uses it (`Join`,
`Register`), which tests neither limit nor withdrawal again. `raced` are the invitations that two
requests used at a time, and `LimitHolds` excepts exactly these; `WithdrawnAdmitsNobody` bounds the
damage by the requests that were past the test already. No handler ends an enrolment.

### Syllabi, ReferenceData, Chapters, Resources

`Syllabi`: a designation checks, locks the class row, checks again, demotes, promotes and commits;
its writes are invisible until `Commit`. `ReferenceData`: a dataset is loaded from a configuration
(`Load`), published and copied into versions (`Materialize`), under the triggers that make published
data immutable. `Chapters`: titles compared before the insert, nothing behind it; `loose` are the
nodes of overlapping requests or made without a comparison. `Resources`: every call reads, checks
and writes by id; `stale` are the rows of requests that overlapped.

| Run | Question | Bounds |
|---|---|---|
| `administration` | do rows stay consistent while requests overlap at every point between check and write | sessions: 2 tabs, 1 request each, 3 tokens, 2 calls, 1 fault. school: 2 organisations, 2 teachers, 1 student, 1 parent, 1 class, 2 subjects, 8 requests. enrolment: 2 users, 1 invitation for one use, 3 enrolments, 6 requests. syllabi: 2 with 2 codes. dataset: 4 configurations, 2 versions, 2 copies. chapters: 3 nodes, 2 titles. resources: 2 in 1 topic with 2 titles. 2 handlers each |
| `endings`, part `session` | is every tab decided and every request answered | 1 tab with 2 requests, 2 tokens, 2 calls, 1 fault, fairness |

Three tokens are a login and two rotations, the fewest where an old token comes back after its
successor was replaced. Eight requests reach a class with two designations by two teachers and its
subjects; six reach an invitation used beyond its limit by two users. The four configurations are a
unit with a chapter, the same reordered, child first, and with another child.

### ProcessRunner

One run of a command: the child (which may end at any moment or never, obey SIGTERM or not, and
leave an heir that holds the pipes), the timer and the forced kill, the output as it is captured,
and the promise as it settles. `OutcomeTruthful` compares the outcome with what became of the child.

| Run | Question | Bounds |
|---|---|---|
| `endings`, part `process` | one outcome, true of the child, and always one | chunks of 1 and 2, 2 kept of at most 4 |

### Orchestrator

`WorkflowGraph` is the transition table of `workflow.ts`. `Orchestrator` is one run: the store's
record (`phase`, `history`, `evidence`, `waivers`), the approval gate's record, the working tree
with HEAD, the clock, and per caller the operation under way with the snapshot and view it has read.
What runs between two awaits is one step: `Build`, `TakeBaseline`, `AgentEnds`, `BuildEnds` are the
four steps of `build()`, and so on. `Edit` is an edit of a file by anyone, the agent's while a build
session is open; `Commit` moves HEAD. `Reading` is what a snapshot may report: a git command that
fails yields an empty list and no error. `Advance` refuses an edge that is not in the graph and
leaves the run unchanged, which is what makes late answers harmless. `RecordEvidence` replaces what
was on record, at any moment and in any phase, as the store does; `Recorded` is what is there from
the start and `Recordable` what is recorded on the way, to whatever standing and as often as it may.
`upheld` are the callers in whose last `verify` there was a moment at which all evidence was in
order: passed, or missing with a waiver in force by the trail. `VerifiedOnEvidence` says that the
call that concluded is one of them, so what was recorded or revoked before it is not relied on,
although what changes after it has read the run is (the contract has it so for a revocation).

`ApprovedRun` is the promise: one phase at a time, into BUILDING only together with the one grant,
and never out of an ended phase. `KeepsPromise` is checked with two overlapping callers.

| Run | Question | Bounds |
|---|---|---|
| `orchestrator_overlap` | is the record one walk through the graph and every report true, with two callers, edits, commits, failing git and an ageing approval | 2 callers, 2 paths (one in scope, one frontend), 1 edit, 1 faulty reading, 1 tick (an approval may expire: `Validity = 0`), 1 note |
| `orchestrator_waivers` | do ledger and trail agree, and does VERIFIED rest on evidence that stood together during the call | 2 callers, 3 actors of whom 2 may waive, 1 evidence recorded again and again (passed, failed, unavailable) and waived, 3 ledger events (grant, revoke, grant again) |
| `orchestrator_protected` | what the contract says of files modified before the build: see findings | 1 caller |

Two callers suffice for the record: a step reads and writes one phase, and any number of late
callers see the same refused edge. No liveness is claimed: a run waits for people.

### Liveness and fairness

The run `endings` checks four components that wait for others, each with weak fairness of what its
scheduler runs and nothing more:

- `ConversationFair`: `Work(h)` for each handler. The event loop of Node resumes a handler whose
  database or provider call has returned, and both return or throw (the provider client has a
  timeout). Nothing is assumed of clients, faults or deletions. After a crash, or when the failure
  transaction fails too, an attempt stays PROCESSING; `GenerationsEnd` therefore excuses the
  attempts of a system that has had a fault, and no others.
- `SessionFair`: a call is served and returns, a tab makes its start-up check, a waiting request
  goes on. No fairness for people, reloads or lost replies (a lost reply is itself an end: the
  request is told the network failed).
- `PageFair`: a call that was sent arrives or is told to have failed, a read is answered and
  delivered, and the polling timer fires. Nothing is assumed of the student; `Lose` may happen up to
  its bound.
- `ProcessFair`: spawning, the two timers, and the events node reports once the child has ended.
  Nothing is assumed of the child, and `Unresolved` excuses the run whose pipes an heir keeps open.

No action needs strong fairness: none is disabled again and again by another that is not its own
progress.

## 5. Findings

Each is a run that TLC refutes, with the sentence it contradicts quoted in `PROJECT.json`.

- `orchestrator_protected`: a file modified before the build and rewritten by the agent is no
  change.
- `thread_latest`: a history gives the provider the first of several answers to a question, though
  the map it is built from is named for the latest.
- `study_contained`: a calendar period is stored outside its parent, as the test compares a string
  with a `Date`.

Met while modelling, in the models' behaviours and without a run of their own:

- Assessments: an answer can be stored after the attempt was submitted and marked; two status
  changes validated against one reading make a move that is refused; with two author calls a
  question changes after the event was scheduled, though `requireDraftEvent` says "Questions can
  only be changed while the assessment is a draft.".
- Orchestrator: a repeated build takes a new baseline, so what a failed session left out of scope
  passes; `test()` compares two snapshots taken after the build and runs no check; a git command
  that fails during a snapshot reads as no changes; an approval that expires just before `build()`
  is reset while the run stays in BUILDING, and no decision can be asked for there again; a VERIFIED
  run takes waivers, because `TERMINAL_PHASES` does not hold VERIFIED.
- Conversation page: an edit whose answer is lost may be stored twice. It is stored and begins a
  branch, the refresh shows that branch, and saving it again computes a new key from it
  (`AiConversationPage.tsx` 807-813), although the failed operation kept its `idempotencyKey` (873)
  and of two tries of a send a test expects one key (`ai-conversation.test.tsx` 368); `strayed` and
  the exception in `AskedOnce` stand for this. The answer to a branch switch is applied without the request sequence
  (`AiConversationPage.tsx`, about 1028-1049); a key kept after an unknown outcome stays when the
  effect at 1208-1249 clears the error, so the same text sent later replays the old answer; that
  effect recognises a request by its text alone; the regenerate branch of `handleRetry` for unknown
  outcomes is unreachable; going from a thread to another and back while a read is out may abort the
  new load and leave its skeleton, and while a send is out, its answer clears what was typed since.
- Attempt page: what is shown as saved may not be stored once a save got lost or its page was left,
  against the comment on `lastSentRef` (`AttemptPage.tsx`, about 56-59).
- Reference data: `loader.ts` compares the checksum of a configuration with the row it has just
  updated, so a conflicting load is never rejected; copying drops the hierarchy of nodes whose
  parent comes later in the sequence, and materialising twice duplicates.
- Enrolment: two enrolments of one student in one class with no academic year, as the unique index
  of migration 010 takes NULLs to be distinct.
- School: two designations of a class teacher that overlap overwrite a row, where `server.ts`
  3295-3313 says it preserves history.
- Process runner: a descendant of the child that keeps the pipes open holds `run()` past its
  timeout.

## 6. Proofs

TLC settles each property on the instances above; the theorems hold for every value of the
constants, under named assumptions that the code justifies: `None` is no id, value or row
(`NoneIsNothing`, `NoneIsNoId`, ...), bounds are naturals (`Bounds`, `FaultBound`,
`ClockBound`, ...), the sets of ids that are counted are finite (`Finite`), authors and students are
different callers. `Conversation`, `Orchestrator`, `AssessmentExecution` and `Papers` ASSUME theirs;
the modules that are put together state them as definitions, which the theorems take as hypotheses
and the composing modules ASSUME of their instances (`ConstantsFit`, `BoundsFit`, `ThreadFits`,
`StudyFits`). TLC evaluates them in every run. None of the invariants below is the property it
serves: the properties alone are not inductive.

`ConversationProofs`. `IInv` joins `TypeOK`, `Linked` and the properties to be proved. That at most
one attempt of a request is in flight needs `AttemptsLinked`: a new request has no attempts yet,
because every attempt that exists refers to a request that exists. One effect per key needs
`KeysLinked`: a key that had an effect is stored, since the transaction that does the work inserts
it. One worker per attempt needs `TasksLinked`. The numbers need that those in use are bounded
(`NextAfterBounded`, by well-founded descent). Each action has a lemma that it preserves `IInv`;
`NextInv` collects them. `StepKind` then sorts every step by what it does to the tables, from which
follow what a deleted conversation and a reply keep and `PromiseKept`, the refinement of
`GenerationPromise`. `RowsCorrect` rests on two more invariants: the attempts of a request and the
variants of its answers are numbered 1 to their count (`Dense`, which `MAX + 1` keeps), and what a
handler carries between its transactions is the usage event of its own attempt (`Recorded`).

`OrchestratorProofs`. `EdgeKinds` says of the graph that an edge goes one phase forward, is the one
grant, or stops the run; `StepKind` of a step that it writes the phase only along an edge and with
its event. `RecordTruthful` is proved as a chain, event by event (`After`, `Onwards`), and with what
callers still have to report. `Kept` (no grant before the build) gives `GrantStands` and
`PromiseKept`, the refinement of `ApprovedRun`. `Ledgered` relates the ledger to the last event of
each check and every event to the one before it on its check. `VerifiedOnEvidence` needs `Founded`:
what a verification has read, if it passes, was true of the record at a moment of that call, which
is when the call became one of `upheld`; and only its own next verification takes it out.

`AssessmentProofs`. `Booked` joins `Typed` (which says what a call has set at which stage),
`ResultPerSubmission` and `SingleOpen`. Only `CreateAttempt` and `SubmitAttemptWithResult` change
attempts or results; the first is safe by the unique index, the second because it moves an open
attempt and stores its result in one step. `NullIsNoResult` is needed there. What results say of
questions rests on `Settled`, for any number of authors: every handler reads the status of the event
before it writes, so a question changes after a student saw it only if the event has left the status
that was read, which is when the attempts there are become `exposed`. `Settled` says that questions
are only asked to be written of a draft (`AskedOfDraft`), that students have touched nothing of a
draft, unless a late write took the event back to it and exposed all (`DraftUntouched`), and of the
attempts that are not exposed that what was read and shown of the paper is the paper
(`PaperCurrent`), and that what submissions carry and results say is the marking of it
(`MarkCurrent`, `ResultOfPaper`). `MarkedTruly` follows from it.

Its second part is on `Practices`. What a page shows as saved is what it was told, and what it was
told is stored, unless a save of that question is unsure; every save on its way is either awaited by
the page, one per question, or unsure (`PageTold`); what marking has read, and every result, are of
the rows as they are, unless one was written since (`MarksRead`). The two, the types and
`AnswersHaveQuestions` make `Practised`, from which `SavedTruly`, `AnswersAsked` and, comparing the
score that marking summed with the sum over the rows of the review, `ReviewedTruly` follow. That
results and papers stay needs no more than that the attempts are there (`AttemptsThere`). The third
part is on `Progress`: `Watched` (what was completed in a moment seen is completed in every later
one) gives `CoverageWatched` and `PastStays`, for which a mistake that is counted no more must have
been made right (`StaysRepeated`); `Profiled` says that every moment seen is a state of the tables
and every answer given while nothing changed is of the one moment there was, from which
`SectionsTruly` follows by the arithmetic of counts and means.

Sums are where these proofs meet induction over data. The library's induction theorems take an
operator as a parameter, which no installed prover instantiates; `SubsetInduction` takes a set of
sets instead, and is proved by a well-founded minimum of their sizes. The fold of the community
modules is a recursive function over subsets (`IsTotal`), of which there is one (`TotalsAgree`,
`TotalOf`); by the induction it does not matter which element is taken first (`TotalSplit`), and a
sum of naturals is one (`TotalNat`).

`SessionProofs`. `Kept`: every token a call or a browser holds has a row and a family that is
founded. `Rotated`: where the live token of a family is, namely with the one call under way, with a
login that has not returned, or in the browser, unless calls overlapped or a reply was lost.
`Browsed`: a tab that checks its session has no other call.

`ThreadProofs`, the page. What the page does next depends on what is still on its way, so `IInv`
says of everything in flight what it may bring. `Shown` and `CallsShaped`: the snapshot, and the
data of every read and call, is the conversation as it was at some time, and a call speaks of a
request that is there. `Newest`: of the reads that may still be applied none is older than the
screen. On keys: a slot has one key (`OneKeyPerSlot`), every call with a key holds it for its slot
until its outcome is known (`KeysOfCalls`, `KeyHeld`), a claim is of the request the key was used
for (`ClaimsHold`, `StoredClaimed`), two calls of one intent share their key (`SameKey`, `OneTry`),
and the failed operation still has the key it would be tried again with (`Retryable`), each but for
strayed intents; together they give `AskedOnce`, which none does alone. `Away`, `Locked` and
`HeardShape`: what the page waits for keeps its controls locked, and the answer heard last is on the
screen or in the refresh that is awaited. The twenty actions are first sorted by what they do to
requests, calls and screen (`Steps`), and each part is shown to survive each kind.

The history. `Threaded` says that branches form a tree (`Rooted`, `Grounded`), where in it
messages and their answers are (`Placed`, `Numbered`, `Topped`, `Attached`, `Counted`), and what
handlers have read (`Worked`, `Remembered`). The code walks from the active branch to the first; the
chain is defined as the least set of branches closed under that step, so that no recursion is
needed, and cuts grow along it. The code stops after 100 steps and the model does not: the theorem
is about it for conversations of at most 101 branches (`Shallow`).

`PartProofs`, one invariant per component: `Admitted` (enrolment: a request under way has found its
user and invitation, and who is not registered has neither profile nor enrolment: registering tests
only that the address is new, and this is why no index has to stand behind it) with `Metered`, which
ties the count of an invitation to the enrolments made by it, as sets whose cardinality grows by
one; `Governed` (school: links from both ends, one class
teacher; an assigned teacher teaches mapped subjects), `Settled` (syllabi: what a transaction has
prepared, and that one at a time holds the class), `Faithful` (reference data: what a copy has still
to write is what its dataset lacks), `Compared` and `Approved` (chapters, resources: what was
compared or read still holds when it is written, unless requests overlapped), `Reported` and
`Counted` (process: what has happened to a child whose time is up, and to its output), `Booked`
(calendar: a new period's id is reserved by one request), `HandedIn` (assignments: work is only on
what was opened) and `Told` (homework: what the rows a reader holds still say of the tables).

`CompositeProofs` and `ThreadCompositeProofs` carry these to the properties the runs check. Two
instances of one module are different definitions to a prover, so each component's `Init`, `Next`
and properties are shown equal by expanding both; sums are expanded to the folds they are. A
behaviour of a composition is one of the component that `part` names (`On`), and PTL combines them.
The theorems about `EndingsSpec` use no fairness.

| Proved of the runs' properties | Only model-checked |
|---|---|
| `Conversation`: all invariants, `EndedIsFinal`, `DeletedIsFrozen`, `KeepsPromise` | – |
| `Orchestrator`: all four invariants, `GrantStands`, `KeepsPromise` | – |
| `AssessmentExecution`: all three invariants, `ResultsFinal`; also `TypeOK`, which no run checks | – |
| `MCAdministration`: all six | – |
| `MCThread`: all three invariants, `PageForward` | – |
| `MCStudy`: all three invariants, `RecordsStay` | – |
| `MCEndings`: `ToolRunTruthful` | `GenerationsEnd`, `SessionSettles`, `PageSettles`, `ToolRunEnds` |

Why: the four of `MCEndings` are liveness, which needs fairness and ENABLED, out of the prover's
reach. That `Answers`, the ways to answer a practice that `Progress` enumerates, are of its
questions is the hypothesis `AnswersHold`, and that a report sees at least the moment it was asked
for is `LooksFit`.

## 7. What is not modelled

Left out: request forms, roles and tenancy (checked once, at the start of a call, against rows that
the models do not change); prompt assembly, language and board parsing, agent output parsing (text,
whose outcomes are choices in the models); the selection of an AI provider and its HTTP; assessment
schemes and portions (rows written once by guarded forms); the reports of administrators and the
student views (they only read; of `modules/progress` the titles, the order of lists and the forms of
the curriculum are left out); pages of one request; the orchestrator's command line, configuration
and report text; build and seeding scripts. `ThreadPage` leaves out the effect that sends an
`initialQuestion` (1167-1173), which no page passes, and the texts that the composer edits;
`Assignments` the feedback text of a decision; `Practices` the edits of its title; `School` and
`Enrolment` lists and filters. Prices and token counts of usage events, percentages (a function of
two stored numbers) and dates other than through the window of an event, a deadline or the days of a
calendar are abstracted. The database is trusted to run a transaction atomically and to enforce the
unique indexes, foreign keys and triggers of the migrations; that two tabs see one local storage at
once is assumed of the browser.
