---------------------------- MODULE Conversation ----------------------------
(***************************************************************************)
(* The AI-teacher conversation lifecycle of the backend:                   *)
(* ConversationService (conversation.service.ts) prepares a student's      *)
(* request and a generation attempt in one database transaction, calls the *)
(* provider outside any transaction, and completes or fails the attempt in *)
(* a second transaction (generation.service.ts).                           *)
(*                                                                         *)
(* A handler is one HTTP request being served.  A database transaction is  *)
(* one action: every transaction that touches a conversation locks its row *)
(* (SELECT ... FOR UPDATE), and two transactions with the same idempotency *)
(* key are serialised by the unique index on the key.  Everything else a   *)
(* handler does (reads, provider call, second transaction) is a step of    *)
(* its own, and the process may crash between any two of them.             *)
(*                                                                         *)
(* Abstracted: one student, the text of messages, titles, scope labels and *)
(* timestamps.  Branches are the subject of module BranchHistory.          *)
(***************************************************************************)
EXTENDS Naturals, FiniteSets

CONSTANTS
    Conversation, Request, Attempt,  \* row identities: fresh ids are drawn from these
    Key,                             \* idempotency keys a client may send
    Question,                        \* message contents, told apart only by the request hash
    Handler,                         \* HTTP requests served at the same time
    None,                            \* SQL NULL / absent
    MaxFaults                        \* bound on crashes and database errors

Operation == {"CREATE_CONVERSATION", "SEND_MESSAGE"}
Slot      == Operation \X Key        \* the unique index of ai_idempotency_keys

ASSUME FaultBound == MaxFaults \in Nat

VARIABLES
    conv,      \* ai_conversations: "absent", "live" or "deleted" (deleted_at set)
    reqs,      \* ai_messages, role user: conversation and status
    atts,      \* ai_generation_attempts
    responses, \* ai_messages, role assistant: attempt, request and variant number
    usage,     \* ai_usage_events: the durable event statuses of each attempt
    idem,      \* ai_idempotency_keys
    task,      \* per handler: where runGeneration or a replay stands
    reply,     \* per handler: what its last call answered
    faults,    \* crashes and database errors so far
    convKey,   \* history: the slot under which each conversation was created
    reqKey     \* history: the slot under which each request was created

tables == <<conv, reqs, atts, responses, usage, idem, convKey, reqKey>>
vars   == <<conv, reqs, atts, responses, usage, idem, task, reply, faults, convKey, reqKey>>

Status      == {"PROCESSING", "COMPLETED", "FAILED"}
Final       == {"COMPLETED", "FAILED"}
AttemptType == {"ORIGINAL", "RETRY", "REGENERATION"}
UsageStatus == {"SUCCESS", "FAILURE"}
Stage       == {"idle", "context", "provider", "complete",
                "record_failure", "finalize", "respond", "replay"}

MaxRecovery == 3   \* finalizeUnexpectedFailure: recoveryAttempt < 3

NoRequest == [conv |-> None, status |-> None]
NoAttempt == [status |-> None, type |-> None, request |-> None, number |-> 0, usage |-> None]
Idle      == [pc |-> "idle", attempt |-> None, usage |-> None, tries |-> 0, seen |-> None]

RequestRow  == [conv : Conversation \cup {None}, status : Status \cup {None}]
AttemptRow  == [status : Status \cup {None}, type : AttemptType \cup {None},
                request : Request \cup {None}, number : Nat,
                usage : UsageStatus \cup {None}]
ResponseRow == [attempt : Attempt, request : Request, variant : Nat]
Hash        == [conv : Conversation \cup {None}, question : Question \cup {None}]
IdemRow     == [hash : Hash, conv : Conversation,
                request : Request \cup {None}, attempt : Attempt \cup {None}]
Task        == [pc : Stage, attempt : Attempt \cup {None}, usage : UsageStatus \cup {None},
                tries : 0..MaxRecovery, seen : Status \cup {None}]
Reply       == [attempt : Attempt, status : Status, response : BOOLEAN]

\* NULL is no identity, no value of a column and no row.
ASSUME NoneIsFresh ==
    /\ None \notin Conversation \cup Request \cup Attempt \cup Question \cup Slot
    /\ None \notin Status \cup AttemptType \cup UsageStatus
    /\ None \notin IdemRow \cup Reply

TypeOK ==
    /\ conv \in [Conversation -> {"absent", "live", "deleted"}]
    /\ reqs \in [Request -> RequestRow]
    /\ atts \in [Attempt -> AttemptRow]
    /\ responses \subseteq ResponseRow
    /\ usage \in [Attempt -> SUBSET UsageStatus]
    /\ idem \in [Slot -> IdemRow \cup {None}]
    /\ task \in [Handler -> Task]
    /\ reply \in [Handler -> Reply \cup {None}]
    /\ faults \in 0..MaxFaults
    /\ convKey \in [Conversation -> Slot \cup {None}]
    /\ reqKey \in [Request -> Slot \cup {None}]

Init ==
    /\ conv = [c \in Conversation |-> "absent"]
    /\ reqs = [r \in Request |-> NoRequest]
    /\ atts = [a \in Attempt |-> NoAttempt]
    /\ responses = {}
    /\ usage = [a \in Attempt |-> {}]
    /\ idem = [s \in Slot |-> None]
    /\ task = [h \in Handler |-> Idle]
    /\ reply = [h \in Handler |-> None]
    /\ faults = 0
    /\ convKey = [c \in Conversation |-> None]
    /\ reqKey = [r \in Request |-> None]

-----------------------------------------------------------------------------
(* Queries *)

ConvOf(a) == reqs[atts[a].request].conv

\* Mutant: only the original attempt blocks a retry or regeneration.
InFlightOriginal(r) ==
    \E a \in Attempt : atts[a].request = r /\ atts[a].type = "ORIGINAL" /\ atts[a].status = "PROCESSING"

InFlight(r) == \E a \in Attempt : atts[a].request = r /\ atts[a].status = "PROCESSING"

InFlightIn(c) == \E a \in Attempt : atts[a].status = "PROCESSING" /\ ConvOf(a) = c

\* SELECT COALESCE(MAX(n), 0) + 1
NextAfter(S) == 1 + CHOOSE m \in S \cup {0} : \A n \in S \cup {0} : n <= m

NextAttemptNumber(r) == NextAfter({atts[a].number : a \in {x \in Attempt : atts[x].request = r}})

\* Mutant: the variant number counts from the original only.
NextVariantFixed(r) == 1

NextVariant(r) == NextAfter({m.variant : m \in {x \in responses : x.request = r}})

-----------------------------------------------------------------------------
(* Rows a preparing transaction inserts *)

InsertAttempt(a, r, type, number) ==
    /\ atts[a] = NoAttempt
    /\ atts' = [atts EXCEPT ![a] = [status |-> "PROCESSING", type |-> type, request |-> r,
                                    number |-> number, usage |-> None]]

InsertRequest(r, c, s) ==
    /\ reqs[r] = NoRequest
    /\ reqs' = [reqs EXCEPT ![r] = [conv |-> c, status |-> "PROCESSING"]]
    /\ reqKey' = [reqKey EXCEPT ![r] = s]

\* Mutant: the key is linked in a transaction of its own, after the work.
LinkAfterwards(s, hash, c, r, a) == idem' = idem

\* Insert the key row and link it, both in the transaction that does the work.
LinkIdempotency(s, hash, c, r, a) ==
    idem' = IF s = None THEN idem
            ELSE [idem EXCEPT ![s] = [hash |-> hash, conv |-> c, request |-> r, attempt |-> a]]

\* Mutant: the existing row is not looked up.
KeyOfOperation(s, operation) == s # None => s[1] = operation

\* The key, if the client sent one, is a key of this operation and not yet used.
KeyUnused(s, operation) == s # None => s[1] = operation /\ idem[s] = None

\* The handler goes on to runGeneration with attempt a.
Generate(h, a) ==
    /\ task' = [task EXCEPT ![h] = [Idle EXCEPT !.pc = "context", !.attempt = a]]
    /\ reply' = [reply EXCEPT ![h] = None]

-----------------------------------------------------------------------------
(* The calls of the API *)

\* createConversation without a question: a conversation and its key, nothing to generate.
CreateEmpty(h, s, c) ==
    /\ task[h] = Idle
    /\ KeyUnused(s, "CREATE_CONVERSATION")
    /\ conv[c] = "absent"
    /\ conv' = [conv EXCEPT ![c] = "live"]
    /\ convKey' = [convKey EXCEPT ![c] = s]
    /\ LinkIdempotency(s, [conv |-> None, question |-> None], c, None, None)
    /\ reply' = [reply EXCEPT ![h] = None]
    /\ UNCHANGED <<reqs, atts, responses, usage, task, faults, reqKey>>

\* createConversation with a first question.
CreateWithQuestion(h, s, q, c, r, a) ==
    /\ task[h] = Idle
    /\ KeyUnused(s, "CREATE_CONVERSATION")
    /\ conv[c] = "absent"
    /\ conv' = [conv EXCEPT ![c] = "live"]
    /\ convKey' = [convKey EXCEPT ![c] = s]
    /\ InsertRequest(r, c, s)
    /\ InsertAttempt(a, r, "ORIGINAL", 1)
    /\ LinkIdempotency(s, [conv |-> None, question |-> q], c, r, a)
    /\ Generate(h, a)
    /\ UNCHANGED <<responses, usage, faults>>

\* sendMessage, also the second half of editMessage: refused while any attempt
\* of the conversation is PROCESSING.
SendMessage(h, s, q, c, r, a) ==
    /\ task[h] = Idle
    /\ KeyUnused(s, "SEND_MESSAGE")
    /\ conv[c] = "live"
    /\ ~InFlightIn(c)
    /\ InsertRequest(r, c, s)
    /\ InsertAttempt(a, r, "ORIGINAL", NextAttemptNumber(r))
    /\ LinkIdempotency(s, [conv |-> c, question |-> q], c, r, a)
    /\ Generate(h, a)
    /\ UNCHANGED <<conv, responses, usage, faults, convKey>>

\* Mutant: a known key runs its generation again.
ReplayGenerates(h, s, hash) ==
    /\ task[h] = Idle
    /\ idem[s] # None
    /\ idem[s].hash = hash
    /\ conv[idem[s].conv] = "live"
    /\ idem[s].attempt # None
    /\ Generate(h, idem[s].attempt)
    /\ UNCHANGED <<tables, faults>>

\* recoverPreparedInTransaction for a create or a send whose key is known: the
\* hash must agree and the conversation must be live.  It answers from the row's
\* attempt; a row without one (empty create) is answered without a further step,
\* and a refused replay changes nothing.
Replay(h, s, hash) ==
    /\ task[h] = Idle
    /\ idem[s] # None
    /\ idem[s].hash = hash
    /\ conv[idem[s].conv] = "live"
    /\ idem[s].attempt # None
    /\ task' = [task EXCEPT ![h] = [Idle EXCEPT !.pc = "replay",
                                                !.attempt = idem[s].attempt,
                                                !.seen = atts[idem[s].attempt].status]]
    /\ reply' = [reply EXCEPT ![h] = None]
    /\ UNCHANGED <<tables, faults>>

\* Mutant: the response is assumed present unless the first read saw a failure.
ReplayAssumesAnswer(h) ==
    LET a == task[h].attempt IN
    /\ task[h].pc = "replay"
    /\ reply' = [reply EXCEPT ![h] = [attempt |-> a, status |-> atts[a].status,
                                      response |-> task[h].seen # "FAILED"]]
    /\ task' = [task EXCEPT ![h] = Idle]
    /\ UNCHANGED <<tables, faults>>

\* recoverPreparedResult and recoverMessageResult: the response comes from the
\* attempt as the transaction saw it, the status from a second read, which finds
\* no attempt once the conversation is deleted.
ReplayRespond(h) ==
    LET a == task[h].attempt IN
    /\ task[h].pc = "replay"
    /\ reply' = [reply EXCEPT ![h] =
            [attempt  |-> a,
             status   |-> IF conv[ConvOf(a)] = "live" THEN atts[a].status ELSE task[h].seen,
             response |-> task[h].seen = "COMPLETED"]]
    /\ task' = [task EXCEPT ![h] = Idle]
    /\ UNCHANGED <<tables, faults>>

\* Mutant: the retry is linked to the attempt instead of its request.
RetryOfAttempt(h, failed, a) ==
    /\ task[h] = Idle
    /\ atts[failed].status = "FAILED"
    /\ conv[ConvOf(failed)] = "live"
    /\ ~InFlight(atts[failed].request)
    /\ InsertAttempt(a, failed, "RETRY", NextAttemptNumber(failed))
    /\ Generate(h, a)
    /\ UNCHANGED <<conv, reqs, responses, usage, idem, faults, convKey, reqKey>>

\* retry: only a FAILED attempt, and none of the same request in flight.
Retry(h, failed, a) ==
    LET r == atts[failed].request IN
    /\ task[h] = Idle
    /\ atts[failed].status = "FAILED"
    /\ conv[ConvOf(failed)] = "live"
    /\ ~InFlight(r)
    /\ InsertAttempt(a, r, "RETRY", NextAttemptNumber(r))
    /\ Generate(h, a)
    /\ UNCHANGED <<conv, reqs, responses, usage, idem, faults, convKey, reqKey>>

\* regenerate: any request of a live conversation with no attempt in flight.
Regenerate(h, r, a) ==
    /\ task[h] = Idle
    /\ reqs[r] # NoRequest
    /\ conv[reqs[r].conv] = "live"
    /\ ~InFlight(r)
    /\ InsertAttempt(a, r, "REGENERATION", NextAttemptNumber(r))
    /\ Generate(h, a)
    /\ UNCHANGED <<conv, reqs, responses, usage, idem, faults, convKey, reqKey>>

\* deleteConversation: a soft delete, allowed at any moment.
DeleteConversation(c) ==
    /\ conv[c] = "live"
    /\ conv' = [conv EXCEPT ![c] = "deleted"]
    /\ UNCHANGED <<reqs, atts, responses, usage, idem, task, reply, faults, convKey, reqKey>>

-----------------------------------------------------------------------------
(* runGeneration and GenerationService.generate *)

Goto(h, stage) == task' = [task EXCEPT ![h].pc = stage]

\* History, learning context and board resolution are read without a lock; the
\* history read refuses a deleted conversation.
AssembleContext(h) ==
    /\ task[h].pc = "context"
    /\ conv[ConvOf(task[h].attempt)] = "live"
    /\ Goto(h, "provider")
    /\ UNCHANGED <<tables, reply, faults>>

\* Any error before generate() is not a GenerationFailedError and leads to
\* finalizeUnexpectedFailure.
ContextFails(h) ==
    /\ task[h].pc = "context"
    /\ Goto(h, "finalize")
    /\ UNCHANGED <<tables, reply, faults>>

\* Mutant: the answer is used without waiting for its usage event.
ProviderAnswersUnrecorded(h) ==
    /\ task[h].pc = "provider"
    /\ Goto(h, "complete")
    /\ UNCHANGED <<tables, reply, faults>>

\* The provider answered and persistUsage(required) stored the SUCCESS event.
ProviderAnswers(h) ==
    /\ task[h].pc = "provider"
    /\ usage' = [usage EXCEPT ![task[h].attempt] = @ \cup {"SUCCESS"}]
    /\ Goto(h, "complete")
    /\ UNCHANGED <<conv, reqs, atts, responses, idem, reply, faults, convKey, reqKey>>

\* The provider failed, or the SUCCESS event could not be confirmed (it may be
\* stored all the same).  A FAILURE event is stored best effort, and the attempt
\* will be linked to it when that is confirmed.
ProviderFails(h) ==
    /\ task[h].pc = "provider"
    /\ \E stored \in SUBSET UsageStatus :
         \E link \in {None} \cup (stored \cap {"FAILURE"}) :
            /\ usage' = [usage EXCEPT ![task[h].attempt] = @ \cup stored]
            /\ task' = [task EXCEPT ![h].pc = "record_failure", ![h].usage = link]
    /\ UNCHANGED <<conv, reqs, atts, responses, idem, reply, faults, convKey, reqKey>>

\* Mutant: every attempt rewrites the request's status.
MirrorAny(a, status) == reqs' = [reqs EXCEPT ![atts[a].request].status = status]

\* The status of the request message follows its ORIGINAL attempt only.
MirrorOriginal(a, status) ==
    reqs' = IF atts[a].type = "ORIGINAL"
            THEN [reqs EXCEPT ![atts[a].request].status = status]
            ELSE reqs

MarkFailed(a, link) ==
    /\ atts' = [atts EXCEPT ![a].status = "FAILED", ![a].usage = link]
    /\ MirrorOriginal(a, "FAILED")

\* Mutant: deleted_at is not looked at when the answer arrives.
CommitIgnoringDeletion(a) ==
    /\ responses' = responses \cup {[attempt |-> a, request |-> atts[a].request,
                                      variant |-> NextVariant(atts[a].request)]}
    /\ atts' = [atts EXCEPT ![a].status = "COMPLETED", ![a].usage = "SUCCESS"]
    /\ MirrorOriginal(a, "COMPLETED")
    /\ UNCHANGED <<conv, usage, idem, convKey, reqKey>>

\* The completion transaction on a PROCESSING attempt: a response and COMPLETED,
\* or FAILED when the conversation was deleted meanwhile.
CommitCompletion(a) ==
    /\ IF conv[ConvOf(a)] = "deleted"
       THEN /\ MarkFailed(a, "SUCCESS")
            /\ UNCHANGED responses
       ELSE /\ responses' = responses \cup {[attempt |-> a, request |-> atts[a].request,
                                             variant |-> NextVariant(atts[a].request)]}
            /\ atts' = [atts EXCEPT ![a].status = "COMPLETED", ![a].usage = "SUCCESS"]
            /\ MirrorOriginal(a, "COMPLETED")
    /\ UNCHANGED <<conv, usage, idem, convKey, reqKey>>

\* An attempt that already ended is refused and handled as a failure of generate().
Complete(h) ==
    LET a == task[h].attempt IN
    /\ task[h].pc = "complete"
    /\ IF atts[a].status = "PROCESSING"
       THEN /\ CommitCompletion(a)
            /\ reply' = [reply EXCEPT ![h] = [attempt |-> a, status |-> atts'[a].status,
                                              response |-> atts'[a].status = "COMPLETED"]]
            /\ task' = [task EXCEPT ![h] = Idle]
       ELSE /\ Goto(h, "record_failure")
            /\ UNCHANGED <<tables, reply>>
    /\ UNCHANGED faults

\* The completion transaction raised an error: it was rolled back, or it was
\* committed and the acknowledgement was lost.
CompletionError(h) ==
    /\ task[h].pc = "complete"
    /\ faults < MaxFaults
    /\ faults' = faults + 1
    /\ \/ UNCHANGED tables
       \/ atts[task[h].attempt].status = "PROCESSING" /\ CommitCompletion(task[h].attempt)
    /\ Goto(h, "record_failure")
    /\ UNCHANGED reply

\* Mutant: the failure transaction does not check that the attempt is PROCESSING.
FailAlways(a, link) ==
    /\ MarkFailed(a, link)
    /\ UNCHANGED <<conv, responses, usage, idem, convKey, reqKey>>

\* Mutant: the failure transaction skips deleted conversations, as lockConversation would.
FailUnlessDeleted(a, link) ==
    /\ IF atts[a].status = "PROCESSING" /\ conv[ConvOf(a)] = "live"
       THEN MarkFailed(a, link)
       ELSE UNCHANGED <<reqs, atts>>
    /\ UNCHANGED <<conv, responses, usage, idem, convKey, reqKey>>

\* Fail the attempt unless it already ended.
FailIfProcessing(a, link) ==
    /\ IF atts[a].status = "PROCESSING"
       THEN MarkFailed(a, link)
       ELSE UNCHANGED <<reqs, atts>>
    /\ UNCHANGED <<conv, responses, usage, idem, convKey, reqKey>>

\* The failure transaction of generate(): tried once, its own error is swallowed.
RecordFailure(h) ==
    /\ task[h].pc = "record_failure"
    /\ FailIfProcessing(task[h].attempt, task[h].usage)
    /\ Goto(h, "respond")
    /\ UNCHANGED <<reply, faults>>

RecordFailureError(h) ==
    /\ task[h].pc = "record_failure"
    /\ faults < MaxFaults
    /\ faults' = faults + 1
    /\ Goto(h, "respond")
    /\ UNCHANGED <<tables, reply>>

\* finalizeUnexpectedFailure: the same transaction, tried up to three times.
Finalize(h) ==
    /\ task[h].pc = "finalize"
    /\ FailIfProcessing(task[h].attempt, None)
    /\ Goto(h, "respond")
    /\ UNCHANGED <<reply, faults>>

FinalizeError(h) ==
    /\ task[h].pc = "finalize" /\ task[h].tries < MaxRecovery
    /\ faults < MaxFaults
    /\ faults' = faults + 1
    /\ task' = [task EXCEPT ![h].tries = task[h].tries + 1,
                            ![h].pc = IF task[h].tries + 1 = MaxRecovery THEN "respond" ELSE "finalize"]
    /\ UNCHANGED <<tables, reply>>

\* Mutant: the answer waits for the attempt to be readable.
RespondLive(h) ==
    LET a == task[h].attempt IN
    /\ task[h].pc = "respond"
    /\ conv[ConvOf(a)] = "live"
    /\ reply' = [reply EXCEPT ![h] = [attempt |-> a, status |-> atts[a].status, response |-> FALSE]]
    /\ task' = [task EXCEPT ![h] = Idle]
    /\ UNCHANGED <<tables, faults>>

\* The catch block of runGeneration answers 502 with the attempt as re-read, or
\* with a FAILED copy when that read fails or the conversation is deleted.
Respond(h) ==
    LET a == task[h].attempt IN
    /\ task[h].pc = "respond"
    /\ \E status \in {"FAILED"} \cup
                     (IF conv[ConvOf(a)] = "live" THEN {atts[a].status} ELSE {}) :
         reply' = [reply EXCEPT ![h] = [attempt |-> a, status |-> status, response |-> FALSE]]
    /\ task' = [task EXCEPT ![h] = Idle]
    /\ UNCHANGED <<tables, faults>>

\* The backend process dies: every handler is gone, the tables stay.  Nothing in
\* server.ts looks for attempts left PROCESSING when it starts again.
Crash ==
    /\ faults < MaxFaults
    /\ faults' = faults + 1
    /\ task' = [h \in Handler |-> Idle]
    /\ reply' = [h \in Handler |-> None]
    /\ UNCHANGED tables

-----------------------------------------------------------------------------
ClientCall(h) ==
    \/ \E s \in Slot \cup {None}, c \in Conversation :
         \/ CreateEmpty(h, s, c)
         \/ \E q \in Question, r \in Request, a \in Attempt :
              \/ CreateWithQuestion(h, s, q, c, r, a)
              \/ SendMessage(h, s, q, c, r, a)
    \/ \E s \in Slot, hash \in Hash : Replay(h, s, hash)
    \/ \E a, b \in Attempt : Retry(h, a, b)
    \/ \E r \in Request, a \in Attempt : Regenerate(h, r, a)

\* The steps a handler takes once its call is under way and nothing breaks.
Work(h) ==
    \/ AssembleContext(h) \/ ContextFails(h)
    \/ ProviderAnswers(h) \/ ProviderFails(h)
    \/ Complete(h)
    \/ RecordFailure(h) \/ Finalize(h)
    \/ Respond(h) \/ ReplayRespond(h)

Fault(h) == CompletionError(h) \/ RecordFailureError(h) \/ FinalizeError(h)

Next ==
    \/ \E h \in Handler : ClientCall(h) \/ Work(h) \/ Fault(h)
    \/ \E c \in Conversation : DeleteConversation(c)
    \/ Crash

Spec == Init /\ [][Next]_vars

\* A handler under way keeps running: the event loop schedules it, database
\* calls return, and the provider call returns or throws.
FairSpec == Spec /\ \A h \in Handler : WF_vars(Work(h))

-----------------------------------------------------------------------------
(* Safety *)

\* However often, and however concurrently, a client repeats a create or a send
\* with the same idempotency key, one conversation and one student message exist
\* for it (createConversation, sendMessage, recoverPreparedInTransaction).
OneEffectPerKey ==
    /\ \A c, d \in Conversation : convKey[c] # None /\ convKey[c] = convKey[d] => c = d
    /\ \A r, t \in Request : reqKey[r] # None /\ reqKey[r] = reqKey[t] => r = t

\* An attempt is COMPLETED exactly when a response is stored for it, and then
\* exactly one, for the attempt's own request.
AnswerMatchesStatus ==
    \A a \in Attempt :
        /\ atts[a].status = "COMPLETED" <=> \E m \in responses : m.attempt = a
        /\ \A m, n \in responses : m.attempt = a /\ n.attempt = a => m = n
        /\ \A m \in responses : m.attempt = a => m.request = atts[a].request

\* At most one attempt of a request is PROCESSING, whatever retries and
\* regenerations race with the original and with each other.
OneInFlightPerRequest ==
    \A a, b \in Attempt :
        /\ atts[a].status = "PROCESSING" /\ atts[b].status = "PROCESSING"
        /\ atts[a].request = atts[b].request
        => a = b

\* A student message has exactly one ORIGINAL attempt and shows its status; a
\* retry or regeneration never rewrites it (generation.service.ts: "The original
\* request's status represents its original attempt").
OriginalMirrored ==
    \A r \in Request : reqs[r] # NoRequest =>
        \E a \in Attempt :
            /\ atts[a].request = r /\ atts[a].type = "ORIGINAL" /\ atts[a].status = reqs[r].status
            /\ \A b \in Attempt : atts[b].request = r /\ atts[b].type = "ORIGINAL" => b = a

\* No answer without durable attribution: a usage link always points to a stored
\* usage event, and a COMPLETED attempt is linked to a SUCCESS event.
AnswersAttributed ==
    \A a \in Attempt :
        /\ atts[a].usage # None => atts[a].usage \in usage[a]
        /\ atts[a].status = "COMPLETED" => atts[a].usage = "SUCCESS"

\* Attempts of a request are numbered 1, 2, ... with the ORIGINAL first, and its
\* responses are variants 1, 2, ...: the unique indexes of migration 046 are
\* never hit, so no completed generation is lost to a constraint error.
NumberedDensely ==
    \A r \in Request :
        LET own == {a \in Attempt : atts[a].request = r}
            ans == {m \in responses : m.request = r}
        IN  /\ {atts[a].number : a \in own} = 1..Cardinality(own)
            /\ {m.variant : m \in ans} = 1..Cardinality(ans)
            /\ \A a \in own : atts[a].type = "ORIGINAL" <=> atts[a].number = 1

\* What the rows say of one another: a request shows its original attempt, attempts and
\* variants are numbered densely, and every answer is attributed (the three above), however
\* retries, regenerations, late completions and failed transactions interleave.
RowsAgree == OriginalMirrored /\ AnswersAttributed /\ NumberedDensely

\* Whatever reached the client as COMPLETED is COMPLETED in the database, and a
\* response it was shown is stored.
RepliesTruthful ==
    \A h \in Handler : reply[h] # None =>
        /\ reply[h].status = "COMPLETED" => atts[reply[h].attempt].status = "COMPLETED"
        /\ reply[h].response => \E m \in responses : m.attempt = reply[h].attempt

\* No two handlers generate for the same attempt, so no provider call is paid
\* twice and no attempt is ended by a handler that did not start it.
OneWorkerPerAttempt ==
    \A g, h \in Handler :
        /\ task[g].pc \notin {"idle", "replay"} /\ task[h].pc \notin {"idle", "replay"}
        /\ task[g].attempt = task[h].attempt
        => g = h

(* What the rows, keys and handlers that exist point to: with the type invariant
   and the properties above, what every step preserves. *)

\* A row is either not there or complete, and its foreign keys hold.
AttemptsLinked ==
    \A a \in Attempt : atts[a] = NoAttempt \/
        /\ atts[a].status \in Status /\ atts[a].type \in AttemptType
        /\ atts[a].request \in Request /\ reqs[atts[a].request] # NoRequest

RequestsLinked ==
    \A r \in Request : reqs[r] = NoRequest \/
        /\ reqs[r].status \in Status
        /\ reqs[r].conv \in Conversation /\ conv[reqs[r].conv] # "absent"

\* A key that had an effect is stored, and its row leads to the attempt.
KeysLinked ==
    /\ \A c \in Conversation : convKey[c] # None => conv[c] # "absent" /\ idem[convKey[c]] # None
    /\ \A r \in Request : reqKey[r] # None => reqs[r] # NoRequest /\ idem[reqKey[r]] # None
    /\ \A s \in Slot : idem[s] # None /\ idem[s].attempt # None => atts[idem[s].attempt] # NoAttempt

\* A handler under way works for an attempt that exists, and a completion it
\* saw is one.
TasksLinked ==
    \A h \in Handler :
        /\ task[h].pc = "idle" => task[h] = Idle
        /\ task[h].pc # "idle" => task[h].attempt \in Attempt /\ atts[task[h].attempt] # NoAttempt
        /\ task[h].pc = "replay" =>
             task[h].seen \in Status /\ (task[h].seen = "COMPLETED" =>
                                          atts[task[h].attempt].status = "COMPLETED")

\* Foreign keys hold, an idempotency key is stored with its effect, and no
\* handler works for a row that was not committed.
Linked == AttemptsLinked /\ RequestsLinked /\ KeysLinked /\ TasksLinked

(* What a step may never do *)

\* An ended attempt is never touched again: a late failure does not undo a
\* completion whose acknowledgement was lost, and the other way round.
EndedIsFinal ==
    [][\A a \in Attempt : atts[a].status \in Final => atts'[a] = atts[a]]_vars

\* A deleted conversation stays deleted and gains no message, response or
\* attempt, though generations may still be running in it.
DeletedIsFrozen ==
    [][\A c \in Conversation : conv[c] = "deleted" =>
         /\ conv'[c] = "deleted"
         /\ \A r \in Request : reqs'[r].conv = c => reqs[r].conv = c
         /\ \A a \in Attempt : atts'[a].request # atts[a].request => reqs'[atts'[a].request].conv # c
         /\ \A m \in responses' \ responses : reqs[m.request].conv # c]_vars

(* Liveness *)

\* Every call is answered, or the process died under it.
EveryCallReturns == \A h \in Handler : task[h] # Idle ~> task[h] = Idle

\* Unless the process or the database failed, every attempt ends, so no
\* conversation stays blocked for new messages.
EveryAttemptEnds ==
    \A a \in Attempt : atts[a].status = "PROCESSING" ~> atts[a].status \in Final \/ faults > 0

(* The promise of GenerationPromise, kept by this protocol. *)

Promise == INSTANCE GenerationPromise WITH
    thread  <- conv,
    asked   <- [r \in Request |-> reqs[r].conv],
    used    <- {s \in Slot : idem[s] # None},
    of      <- [a \in Attempt |-> atts[a].request],
    outcome <- [a \in Attempt |-> CASE atts[a].status = "PROCESSING" -> "open"
                                     [] atts[a].status = "COMPLETED"  -> "answered"
                                     [] atts[a].status = "FAILED"     -> "failed"
                                     [] OTHER                         -> "none"]

\* Handlers, crashes, replays, usage events and database errors are invisible in
\* the promise: every step of them is a step of the promise or none.
KeepsPromise == Promise!Spec
=============================================================================
