----------------------------- MODULE ThreadPage -----------------------------
(***************************************************************************)
(* The conversation page (frontend/src/pages/AiConversationPage.tsx) of one *)
(* student, with as much of the server as it talks to: the requests of each *)
(* conversation and the idempotency records of its sends and edits.         *)
(*                                                                          *)
(* The page shows a snapshot it has read, locks its controls while anything *)
(* is pending, refreshes after every mutation, and polls while an answer is *)
(* being generated.  A call may be lost on either way, be answered after    *)
(* the page gave up on it, or after another conversation was opened in the  *)
(* same page.  Texts of messages, branches, ratings and titles are left out *)
(* except for the question, by which the page recognises a request.         *)
(***************************************************************************)
EXTENDS Naturals, Sequences, FiniteSets, Functions

CONSTANTS
    Conversation, Question,
    Key,          \* idempotency keys, each generated once
    Intent,       \* what the student asked for: one per press of Send or Save
    Call, Fetch,  \* mutations and snapshot reads that can be in flight together
    MaxAttempts, MaxFaults,
    None

Kept == {"send", "edit"}                  \* calls with a claim in the database
Asking == Kept \cup {"regenerate", "retry"}
Settings == {"rename", "delete"}
Kind == Asking \cup Settings \cup {"feedback", "branch", "refresh"}

VARIABLES
    asked,     \* the requests of each conversation, oldest first
    deleted,   \* soft-deleted conversations
    claims,    \* idempotency records: the request and attempt a key stands for
    page,      \* the conversation of the mounted page, None when it is not
    thread,    \* what is rendered
    snap,      \* snapshotRef: the requests as last read
    op,        \* operationRef
    draft,     \* the question in the input box, None when it is empty
    busy,      \* feedbackPendingRef and settingsPendingRef
    required,  \* refreshRequired: the last refresh after a mutation failed
    keys,      \* idempotencyKeysRef: what each key is kept for
    fetches, latest,   \* reads in flight; the one refreshSequenceRef counts
    calls,
    heard,     \* ghost: the attempt the last answer to this page was about
    visited,   \* ghost: conversations that were open before in this page
    strayed,   \* ghost: intents of which the page may have lost the key
    faults

server == <<asked, deleted, claims>>
shown == <<page, thread, snap, op, draft, busy, required, latest, heard, visited>>
vars == <<server, shown, keys, fetches, calls, strayed, faults>>

Idle == [status |-> "idle"]
Pending(kind) == [status |-> "pending", kind |-> kind]

\* The state of an operation that failed: request and attempt stand for the
\* messageId and attemptId it is known by.
Failed(call, request, attempt, unknown) ==
    [status |-> "error", kind |-> call.kind, question |-> call.question, intent |-> call.intent,
     target |-> call.target, slot |-> call.slot, request |-> request, attempt |-> attempt,
     unknown |-> unknown]

-----------------------------------------------------------------------------
(* Requests, and what the page reads off a list of them *)

Last(s) == s[Len(s)]
Original(r) == r.attempts[1]
Latest(r) == Last(r.attempts)
HasResponse(r) == \E n \in DOMAIN r.attempts : r.attempts[n] = "COMPLETED"

\* normalizeSnapshot looks for attempts in progress among the latest of each request.
InProgress(list) == {n \in DOMAIN list : Latest(list[n]) = "PROCESSING"}

\* isProcessingSnapshot
Processing(list) == InProgress(list) # {}

IsFailed(r) == "FAILED" \in {Original(r), Latest(r)}

\* hasUnresolvedFailedRequest
Unresolved(list) == \E n \in DOMAIN list : ~HasResponse(list[n]) /\ IsFailed(list[n])

\* The first of the requests found, or None.
First(hits) == IF hits = {} THEN None ELSE CHOOSE n \in hits : \A k \in hits : n <= k

\* selected_branch_id: every edit begins a branch and makes it the active one.  Going
\* back to an earlier branch is left out.
BranchOf(list) == Cardinality({n \in DOMAIN list : list[n].edited})

\* How far a request has come: every change to it counts one.
Age(r) == 2 * Len(r.attempts) - (IF Latest(r) = "PROCESSING" THEN 1 ELSE 0)

\* What was read as old was not read after new.
NotOlder(old, new) ==
    Len(old) <= Len(new) /\ \A n \in DOMAIN old : Age(old[n]) <= Age(new[n])

-----------------------------------------------------------------------------
(* Opening and leaving the page *)

\* What the page keeps a key for: a text, the message it replaces if it is an edit, and
\* the conversation and branch that were shown.
Slot == Conversation \X Nat \X Kept \X (Nat \cup {None}) \X Question

NoKeys == [k \in Key |-> None]

Init ==
    /\ asked = [c \in Conversation |-> <<>>]
    /\ deleted = {}
    /\ claims = [k \in Key |-> None]
    /\ page = None /\ thread = "none" /\ snap = None
    /\ op = Idle /\ draft = None /\ busy = {} /\ required = FALSE
    /\ keys = NoKeys
    /\ fetches = [f \in Fetch |-> None] /\ latest = None
    /\ calls = [m \in Call |-> None]
    /\ heard = None /\ visited = {} /\ strayed = {} /\ faults = 0

\* refreshSnapshot, forced: the read before it is aborted, and ignored if its
\* answer arrives all the same.
StartFetch(f, c, loading) ==
    /\ fetches[f] = None
    /\ fetches' = [fetches EXCEPT ![f] = [conv |-> c, loading |-> loading, stage |-> "sent", data |-> <<>>,
                                       crossed |-> FALSE]]
    /\ latest' = f

\* The part of a call the page still waits for; a call whose server part has also
\* ended is forgotten.
Forget(m, call) == IF call.server = "done" THEN None ELSE [call EXCEPT !.client = "done"]

\* The effect on conversationId resets the page; refreshes being awaited are
\* aborted, and the operations that wait for them return.
Show(c) ==
    /\ page' = c /\ thread' = "loading" /\ snap' = None
    /\ op' = Idle /\ draft' = None /\ busy' = {} /\ required' = FALSE /\ heard' = None
    /\ \E f \in Fetch : StartFetch(f, c, TRUE)

Open(c) ==
    /\ page = None
    /\ Show(c)
    /\ visited' = {}
    /\ UNCHANGED <<server, keys, calls, strayed, faults>>

\* Another conversation in the same page, by the browser's history.
Switch(c) ==
    /\ page \notin {None, c} /\ page \notin visited
    /\ Show(c)
    /\ visited' = visited \cup {page}
    /\ calls' = [m \in Call |->
                   IF calls[m] # None /\ calls[m].client = "refreshing"
                   THEN Forget(m, calls[m]) ELSE calls[m]]
    /\ UNCHANGED <<server, keys, strayed, faults>>

\* Unmounting drops every reference the page holds, its idempotency keys too.
GoAway ==
    /\ page' = None /\ thread' = "none" /\ snap' = None
    /\ op' = Idle /\ draft' = None /\ busy' = {} /\ required' = FALSE /\ heard' = None /\ visited' = {}
    /\ latest' = None /\ fetches' = [f \in Fetch |-> None]
    /\ keys' = NoKeys

Leave ==
    /\ page # None
    /\ GoAway
    /\ calls' = [m \in Call |-> IF calls[m] = None THEN None ELSE Forget(m, calls[m])]
    /\ UNCHANGED <<server, strayed, faults>>

-----------------------------------------------------------------------------
(* What the student does *)

Live == {m \in Call : calls[m] # None}

\* Operations waiting for a refresh; refreshPending says that there are any.
Waiting == {m \in Live : calls[m].client = "refreshing"}
Refreshing == Waiting # {}

\* Mutant: a refresh that failed does not lock the controls.
UnlockedAnyway ==
    /\ thread = "success" /\ op.status # "pending" /\ busy = {}
    /\ ~Refreshing /\ ~Processing(snap)

\* Mutant: a pending operation locks nothing.
UnlockedWhilePending ==
    /\ thread = "success" /\ busy = {}
    /\ ~Refreshing /\ ~required /\ ~Processing(snap)

\* controlsLocked, and the guards of the handlers it goes with.
Unlocked ==
    /\ thread = "success" /\ op.status # "pending" /\ busy = {}
    /\ ~Refreshing /\ ~required /\ ~Processing(snap)

SlotFor(kind, q, n) == <<page, BranchOf(snap), kind, n, q>>

\* getOrCreateIdempotencyKey.
TakeKey(slot) ==
    IF \E k \in Key : keys[k] = slot
    THEN UNCHANGED keys
    ELSE \E k \in Key :
            /\ claims[k] = None /\ keys[k] = None
            /\ \A m \in Live : calls[m].key # k
            /\ keys' = [keys EXCEPT ![k] = slot]

\* The page loses track of a key when it tries again from another branch, which has
\* keys of its own, or while it still waits for another call with the same key, as a
\* page may that left the conversation and came back.
Stray(i, slot) ==
    LET others == {m \in Live : calls[m].slot = slot /\ calls[m].client # "done"}
        moved == op.status = "error" /\ op.intent = i /\ op.slot # slot
    IN  strayed' = strayed \cup {calls[m].intent : m \in others}
                           \cup (IF others = {} /\ ~moved THEN {} ELSE {i})

\* The bound on generations: attempts stored and calls on their way that may add one.
Attempts(c) == SumFunction([n \in DOMAIN asked[c] |-> Len(asked[c][n].attempts)])
Room ==
    SumFunction([c \in Conversation |-> Attempts(c)])
      + Cardinality({m \in Live : calls[m].server = "onway" /\ calls[m].kind \in Asking}) < MaxAttempts

\* supersedeRefreshes, and the request is on its way.
Issue(m, kind, q, i, n) ==
    /\ calls[m] = None
    /\ kind \in Asking => Room
    /\ calls' = [calls EXCEPT ![m] =
                   [conv |-> page, kind |-> kind, question |-> q, intent |-> i,
                    slot |-> IF kind \in Kept THEN SlotFor(kind, q, n) ELSE None,
                    key |-> IF kind \in Kept THEN CHOOSE k \in Key : keys'[k] = SlotFor(kind, q, n) ELSE None,
                    target |-> n, request |-> n, attempt |-> None, server |-> "onway",
                    result |-> None, data |-> <<>>, client |-> "waiting", told |-> None]]
    /\ latest' = None
    /\ op' = IF kind \in Settings \cup {"feedback"} THEN op ELSE Pending(kind)
    /\ busy' = IF kind \in Settings \cup {"feedback"} THEN {kind} ELSE busy

Fresh(i) ==
    /\ \A c \in Conversation : \A n \in DOMAIN asked[c] : asked[c][n].intent # i
    /\ \A m \in Live : calls[m].intent # i
    /\ op.status = "error" => op.intent # i

\* Send.
Send(m, q, i) ==
    /\ Unlocked /\ Fresh(i)
    /\ ~Unresolved(snap)
    /\ op.status = "error" => op.request = None
    /\ TakeKey(SlotFor("send", q, None)) /\ Stray(i, SlotFor("send", q, None))
    /\ Issue(m, "send", q, i, None)
    /\ draft' = q
    /\ UNCHANGED <<server, page, thread, snap, required, fetches, heard, visited, faults>>

\* Save of an edited message.
Edit(m, q, i, n) ==
    /\ Unlocked /\ Fresh(i)
    /\ n \in DOMAIN snap /\ ~(IsFailed(snap[n]) /\ ~HasResponse(snap[n]))
    /\ TakeKey(SlotFor("edit", q, n)) /\ Stray(i, SlotFor("edit", q, n))
    /\ Issue(m, "edit", q, i, n)
    /\ UNCHANGED <<server, page, thread, snap, draft, required, fetches, heard, visited, faults>>

\* Try again on a failed operation: handleRetry sends the question again when no
\* request is known for it, and retries the request otherwise.
TryAgain(m) ==
    /\ Unlocked /\ op.status = "error"
    /\ IF op.request = None
       THEN /\ op.kind \in Kept /\ op.unknown
            /\ op.kind = "send" => ~Unresolved(snap)
            /\ TakeKey(SlotFor(op.kind, op.question, op.target))
            /\ Stray(op.intent, SlotFor(op.kind, op.question, op.target))
            /\ Issue(m, op.kind, op.question, op.intent, op.target)
       ELSE /\ Issue(m, "retry", op.question, op.intent, op.request)
            /\ UNCHANGED <<keys, strayed>>
    /\ UNCHANGED <<server, page, thread, snap, draft, required, fetches, heard, visited, faults>>

\* The buttons on a request: retry generation, regenerate, rate its response.
OnRequest(m, kind, n) ==
    /\ Unlocked /\ n \in DOMAIN snap
    /\ CASE kind = "retry"      -> IsFailed(snap[n]) /\ ~HasResponse(snap[n])
         [] kind = "regenerate" -> HasResponse(snap[n]) /\ Latest(snap[n]) # "FAILED"
         [] kind = "feedback"   -> HasResponse(snap[n])
    /\ Issue(m, kind, None, None, n)
    /\ UNCHANGED <<server, page, thread, snap, draft, required, keys, fetches, heard, visited, strayed, faults>>

\* The controls of the conversation: switch branch, rename, delete.
OnConversation(m, kind) ==
    /\ Unlocked
    /\ Issue(m, kind, None, None, None)
    /\ UNCHANGED <<server, page, thread, snap, draft, required, keys, fetches, heard, visited, strayed, faults>>

\* handleRefresh: the Refresh button, and Retry on a page that failed to load.
Refresh(m, f) ==
    /\ thread \in {"success", "error"} /\ ~Refreshing
    /\ calls[m] = None
    /\ calls' = [calls EXCEPT ![m] =
                   [conv |-> page, kind |-> "refresh", question |-> None, intent |-> None,
                    slot |-> None, key |-> None, target |-> None, request |-> None, attempt |-> None,
                    server |-> "done",
                    result |-> "ok", data |-> <<>>, client |-> "refreshing", told |-> "ok"]]
    /\ StartFetch(f, page, FALSE)
    /\ UNCHANGED <<server, page, thread, snap, op, draft, busy, required, keys, heard, visited, strayed, faults>>

\* Mutant: the poll waits for the controls to be unlocked.
PollUnlocked(f) ==
    /\ Unlocked /\ latest = None
    /\ StartFetch(f, page, FALSE)
    /\ UNCHANGED <<server, page, thread, snap, op, draft, busy, required, keys, calls, heard, visited, strayed, faults>>

\* The poll: every two seconds while an answer is being generated, unless a read
\* or an operation is in flight.
Poll(f) ==
    /\ thread = "success" /\ Processing(snap)
    /\ latest = None /\ op.status # "pending" /\ busy = {}
    /\ StartFetch(f, page, FALSE)
    /\ UNCHANGED <<server, page, thread, snap, op, draft, busy, required, keys, calls, heard, visited, strayed, faults>>

-----------------------------------------------------------------------------
(* The server *)

Answer(m, result, request, attempt) ==
    [calls[m] EXCEPT !.server = "answered", !.result = result,
                     !.request = request, !.attempt = attempt]

Refuse(m) ==
    /\ calls' = [calls EXCEPT ![m] = Answer(m, "refused", calls[m].request, None)]
    /\ UNCHANGED server

\* A new attempt of request n, the only one that is not ended.
Begin(m, c, n) ==
    /\ asked' = [asked EXCEPT ![c][n].attempts = Append(@, "PROCESSING")]
    /\ calls' = [calls EXCEPT ![m].server = "generating", ![m].request = n,
                              ![m].attempt = Len(asked[c][n].attempts) + 1]
    /\ UNCHANGED <<deleted, claims>>

\* send and editMessage: a known key is answered from what it stands for; a new
\* request is refused while an answer is being generated.
Store(m) ==
    LET call == calls[m]
        c == call.conv
        claim == claims[call.key]
    IN  IF claim # None
        THEN LET status == Original(asked[claim.conv][claim.request])
             IN  /\ calls' = [calls EXCEPT ![m] = Answer(m, IF status = "FAILED" THEN "failed" ELSE "ok",
                                                         claim.request, 1)]
                 /\ UNCHANGED server
        ELSE IF Processing(asked[c])
        THEN Refuse(m)
        ELSE /\ asked' = [asked EXCEPT ![c] = Append(@, [question |-> call.question, intent |-> call.intent,
                                                         edited |-> call.kind = "edit",
                                                         attempts |-> <<"PROCESSING">>])]
             /\ claims' = [claims EXCEPT ![call.key] = [conv |-> c, request |-> Len(asked[c]) + 1]]
             /\ calls' = [calls EXCEPT ![m].server = "generating", ![m].request = Len(asked[c]) + 1,
                                       ![m].attempt = 1]
             /\ UNCHANGED deleted

\* The request reaches the server, whether or not the page still waits.
Arrive(m) ==
    LET call == calls[m]
        c == call.conv
        n == call.request
    IN  /\ call # None /\ call.server = "onway"
        /\ IF c \in deleted THEN Refuse(m)
           ELSE CASE call.kind \in Kept -> Store(m)
                  [] call.kind = "retry" ->
                       IF Latest(asked[c][n]) = "FAILED" THEN Begin(m, c, n) ELSE Refuse(m)
                  [] call.kind = "regenerate" ->
                       IF Latest(asked[c][n]) # "PROCESSING" THEN Begin(m, c, n) ELSE Refuse(m)
                  [] call.kind = "delete" ->
                       /\ deleted' = deleted \cup {c}
                       /\ calls' = [calls EXCEPT ![m] = Answer(m, "ok", n, None)]
                       /\ UNCHANGED <<asked, claims>>
                  [] OTHER ->
                       /\ calls' = [calls EXCEPT ![m] = [Answer(m, "ok", n, None) EXCEPT
                                        !.data = IF call.kind = "branch" THEN asked[c] ELSE <<>>]]
                       /\ UNCHANGED server
        /\ UNCHANGED <<shown, keys, fetches, strayed, faults>>

\* Generation ends in the request that started it.
End(m) ==
    LET call == calls[m] IN
    /\ call # None /\ call.server = "generating"
    /\ \E status \in {"COMPLETED", "FAILED"} :
         /\ asked' = [asked EXCEPT ![call.conv][call.request].attempts[call.attempt] = status]
         /\ calls' = [calls EXCEPT ![m] = Answer(m, IF status = "FAILED" THEN "failed" ELSE "ok",
                                                 call.request, call.attempt)]
    /\ UNCHANGED <<deleted, claims, shown, keys, fetches, strayed, faults>>

\* An answer nobody waits for.
Unheard(m) ==
    /\ calls[m] # None /\ calls[m].client = "done" /\ calls[m].server = "answered"
    /\ calls' = [calls EXCEPT ![m] = None]
    /\ UNCHANGED <<server, shown, keys, fetches, strayed, faults>>

\* getConversation reads the conversation for a snapshot.
Read(f) ==
    /\ fetches[f] # None /\ fetches[f].stage = "sent"
    /\ IF fetches[f].conv \in deleted
       THEN fetches' = [fetches EXCEPT ![f].stage = "gone"]
       ELSE fetches' = [fetches EXCEPT ![f].stage = "read", ![f].data = asked[fetches[f].conv]]
    /\ UNCHANGED <<server, shown, keys, calls, strayed, faults>>

-----------------------------------------------------------------------------
(* What the page does with an answer *)

\* Mutant: the error goes away with the next snapshot that is not processing.
SettleAny(o, list, lock) ==
    IF o.status # "error" \/ list = None \/ lock THEN o
    ELSE IF Processing(list) \/ o.attempt THEN o
    ELSE Idle

\* The effect that clears the error of an operation once the snapshot shows that
\* the operation took place after all.
Settle(o, list, lock) ==
    IF o.status # "error" \/ list = None \/ lock THEN o
    ELSE IF Processing(list) \/ o.attempt THEN o
    ELSE LET n == IF o.request # None THEN o.request
                  ELSE IF o.kind = "send" THEN First({k \in DOMAIN list : list[k].question = o.question})
                  ELSE None
         IN  IF n = None \/ n \notin DOMAIN list THEN o
             ELSE IF /\ Original(list[n]) = "COMPLETED" \/ o.request = None
                     /\ HasResponse(list[n]) THEN Idle
             ELSE o

\* findPersistedFailure and its likes: the request an error is about.  A
\* regeneration always knows the request its response belongs to.
About(call, result, list) ==
    IF result = "failed" THEN call.request
    ELSE IF call.kind \in {"retry", "regenerate"} THEN call.target
    ELSE IF list = None THEN None
    ELSE First({n \in DOMAIN list : list[n].question = call.question /\ IsFailed(list[n])})

\* The state after the refresh that follows a call that went well or badly.
After(call, applied, list) ==
    IF call.told = "ok" /\ applied THEN Idle
    ELSE IF call.told = "ok"
    THEN Failed(call, IF call.kind \in {"retry", "edit"} THEN call.target ELSE None,
                call.kind = "retry", FALSE)
    ELSE LET n == About(call, call.told, list)
             attempt == \/ call.told = "failed"
                        \/ n # None /\ list # None /\ n \in DOMAIN list /\ IsFailed(list[n])
         IN  Failed(call, n, attempt, call.told = "lost" /\ n = None)

\* Mutant: the key is forgotten with every error.
DropKey(call, result, list) ==
    IF call.kind \in Kept
    THEN [k \in Key |-> IF keys[k] = call.slot THEN None ELSE keys[k]]
    ELSE keys

\* A key is kept while the outcome of its call is unknown.
Keys(call, result, list) ==
    IF call.kind \in Kept /\ (result # "lost" \/ About(call, result, list) # None)
    THEN [k \in Key |-> IF keys[k] = call.slot THEN None ELSE keys[k]]
    ELSE keys

\* The page hears an answer, or a network error ("lost").
Hear(m, f, result, stage) ==
    LET call == calls[m]
        then == [call EXCEPT !.told = result,
                             !.server = stage]
    IN  IF call.conv # page
        THEN /\ calls' = [calls EXCEPT ![m] = Forget(m, then)]
             /\ keys' = IF result = "ok" THEN Keys(call, result, None) ELSE keys
             /\ UNCHANGED <<shown, fetches>>
        ELSE /\ heard' = IF call.kind \in Asking /\ result \in {"ok", "failed"}
                         THEN [request |-> call.request, attempt |-> call.attempt] ELSE heard
             /\ CASE call.kind \in Asking \/ (call.kind = "feedback" /\ result = "ok") ->
                       /\ StartFetch(f, page, FALSE)
                       /\ calls' = [calls EXCEPT ![m] = [then EXCEPT !.client = "refreshing"]]
                       /\ keys' = IF result = "ok" THEN Keys(call, result, None) ELSE keys
                       /\ draft' = IF call.kind = "send" /\ result = "ok" THEN None ELSE draft
                       /\ UNCHANGED <<page, thread, snap, op, busy, required, visited>>
                  [] call.kind = "delete" /\ result = "ok" ->
                       FALSE
                  [] OTHER ->
                       /\ calls' = [calls EXCEPT ![m] = Forget(m, then)]
                       /\ busy' = busy \ {call.kind}
                       /\ IF call.kind = "branch" /\ result = "ok"
                          THEN /\ snap' = call.data /\ thread' = "success"
                               /\ fetches' = [g \in Fetch |-> IF fetches[g] = None THEN None
                                                ELSE [fetches[g] EXCEPT !.crossed = TRUE]]
                          ELSE UNCHANGED <<snap, thread, fetches>>
                       /\ op' = IF call.kind = "branch" \/ (call.kind = "rename" /\ result = "ok")
                                THEN Idle ELSE op
                       /\ UNCHANGED <<page, draft, required, latest, visited, keys>>

\* The answer to a deletion: back to the list of conversations.
HearDeleted(m) ==
    LET call == calls[m] IN
    /\ call # None /\ call.client = "waiting" /\ call.server = "answered"
    /\ call.kind = "delete" /\ call.result = "ok" /\ call.conv = page
    /\ GoAway
    /\ calls' = [d \in Call |-> IF d = m \/ calls[d] = None THEN None ELSE Forget(d, calls[d])]
    /\ UNCHANGED <<server, strayed, faults>>

Reply(m, f) ==
    /\ calls[m] # None /\ calls[m].client = "waiting" /\ calls[m].server = "answered"
    /\ Hear(m, f, calls[m].result, "done")
    /\ UNCHANGED <<server, strayed, faults>>

\* The connection fails, before or after the server has done its part.
Lose(m, f) ==
    /\ calls[m] # None /\ calls[m].client = "waiting"
    /\ faults < MaxFaults
    /\ faults' = faults + 1
    /\ Hear(m, f, "lost", IF calls[m].server = "answered" THEN "done" ELSE calls[m].server)
    /\ UNCHANGED <<server, strayed>>

\* ... or the request never got there.
LoseRequest(m, f) ==
    /\ calls[m] # None /\ calls[m].client = "waiting" /\ calls[m].server = "onway"
    /\ faults < MaxFaults
    /\ faults' = faults + 1
    /\ Hear(m, f, "lost", "done")
    /\ UNCHANGED <<server, strayed>>

\* Mutant: a read is used whatever conversation it was for.
UseAny(f) == TRUE

\* Mutant: a superseded read is used when no other is in flight.
UseWhenNoneLater(f) == latest \in {f, None} /\ fetches[f].conv = page

\* Mutant: no read is used while an operation is pending.
UseWhenIdle(f) == f = latest /\ fetches[f].conv = page /\ op.status # "pending"

\* An answer is used when it belongs to the conversation shown and to the latest read.
Usable(f) == f = latest /\ fetches[f].conv = page

\* The read ends and the operations that wait for it go on.
Finish(f, applied, list) ==
    /\ fetches' = [fetches EXCEPT ![f] = None]
    /\ latest' = IF f = latest THEN None ELSE latest
    /\ required' = IF Waiting = {} THEN required ELSE ~applied
    /\ \E o \in IF \E m \in Waiting : calls[m].kind \in Asking
                THEN {After(calls[m], applied, list) : m \in {w \in Waiting : calls[w].kind \in Asking}}
                ELSE {op} :
         /\ op' = Settle(o, list, required')
         /\ draft' = IF /\ o.status = "error" /\ o.kind = "send"
                         /\ (o.request # None \/ op' = Idle)
                     THEN None ELSE draft
    /\ LET ended == {calls[m] : m \in {w \in Waiting : calls[w].kind \in Kept /\ calls[w].told # "ok"}}
       IN  keys' = [k \in Key |-> IF \E call \in ended : Keys(call, call.told, list)[k] = None
                                  THEN None ELSE keys[k]]
    /\ busy' = IF \E m \in Waiting : calls[m].kind = "feedback" THEN busy \ {"feedback"} ELSE busy
    /\ calls' = [m \in Call |-> IF m \in Waiting THEN Forget(m, calls[m]) ELSE calls[m]]

\* A read is answered.
Deliver(f) ==
    /\ fetches[f] # None /\ fetches[f].stage # "sent"
    /\ IF ~Usable(f)
       THEN /\ fetches' = [fetches EXCEPT ![f] = None]
            /\ UNCHANGED <<shown, keys, calls>>
       ELSE IF fetches[f].stage = "gone"
       THEN /\ thread' = "unavailable"
            /\ Finish(f, FALSE, snap)
            /\ UNCHANGED <<page, snap, heard, visited>>
       ELSE /\ snap' = fetches[f].data /\ thread' = "success"
            /\ Finish(f, TRUE, fetches[f].data)
            /\ UNCHANGED <<page, heard, visited>>
    /\ UNCHANGED <<server, strayed, faults>>

\* Mutant: a first load that fails is treated like any other.
LoseReadQuietly(f) ==
    /\ fetches[f] # None /\ faults < MaxFaults
    /\ faults' = faults + 1
    /\ IF ~Usable(f)
       THEN /\ fetches' = [fetches EXCEPT ![f] = None]
            /\ UNCHANGED <<shown, keys, calls>>
       ELSE /\ Finish(f, FALSE, snap)
            /\ UNCHANGED <<page, thread, snap, heard, visited>>
    /\ UNCHANGED <<server, strayed>>

\* A read fails: only a first load shows the error in place of the conversation.
LoseRead(f) ==
    /\ fetches[f] # None /\ faults < MaxFaults
    /\ faults' = faults + 1
    /\ IF ~Usable(f)
       THEN /\ fetches' = [fetches EXCEPT ![f] = None]
            /\ UNCHANGED <<shown, keys, calls>>
       ELSE /\ thread' = IF fetches[f].loading THEN "error" ELSE thread
            /\ Finish(f, FALSE, snap)
            /\ UNCHANGED <<page, snap, heard, visited>>
    /\ UNCHANGED <<server, strayed>>

-----------------------------------------------------------------------------
Student ==
    \E m \in Call :
      \/ \E q \in Question, i \in Intent :
           \/ Send(m, q, i)
           \/ \E n \in 1 .. MaxAttempts : Edit(m, q, i, n)
      \/ TryAgain(m)
      \/ \E n \in 1 .. MaxAttempts, kind \in {"retry", "regenerate", "feedback"} : OnRequest(m, kind, n)
      \/ \E kind \in {"branch", "rename", "delete"} : OnConversation(m, kind)
      \/ \E f \in Fetch : Refresh(m, f)

Moves ==
    \/ \E c \in Conversation : Open(c) \/ Switch(c)
    \/ Leave

Progress ==
    \/ \E m \in Call : Arrive(m) \/ End(m) \/ Unheard(m) \/ HearDeleted(m)
    \/ \E m \in Call, f \in Fetch : Reply(m, f)
    \/ \E f \in Fetch : Read(f) \/ Deliver(f) \/ Poll(f)

Faults ==
    \/ \E m \in Call, f \in Fetch : Lose(m, f) \/ LoseRequest(m, f)
    \/ \E f \in Fetch : LoseRead(f)

Next == Student \/ Moves \/ Progress \/ Faults

Spec == Init /\ [][Next]_vars

-----------------------------------------------------------------------------
Index == Nat \cup {None}
Status == {"PROCESSING", "COMPLETED", "FAILED"}
Request == [question : Question, intent : Intent, edited : BOOLEAN, attempts : Seq(Status) \ {<<>>}]
Requests == Seq(Request)
Claim == [conv : Conversation, request : Nat]

CallRow ==
    [conv : Conversation, kind : Kind, question : Question \cup {None}, intent : Intent \cup {None},
     slot : Slot \cup {None}, key : Key \cup {None}, target : Index, request : Index, attempt : Index,
     server : {"onway", "generating", "answered", "done"}, result : {"ok", "failed", "refused", None},
     data : Requests, client : {"waiting", "refreshing", "done"},
     told : {"ok", "failed", "refused", "lost", None}]

FetchRow ==
    [conv : Conversation, loading : BOOLEAN, stage : {"sent", "read", "gone"}, data : Requests,
     crossed : BOOLEAN]

ErrorRow ==
    [status : {"error"}, kind : Asking, question : Question \cup {None}, intent : Intent \cup {None},
     target : Index, slot : Slot \cup {None}, request : Index, attempt : BOOLEAN, unknown : BOOLEAN]

\* None is none of the values it stands for the lack of.
NoneIsNothing ==
    /\ \A x \in Conversation \cup Question \cup Key \cup Call \cup Fetch : x # None
    /\ None \notin Nat \cup {"ok"}
    /\ None \notin Claim \cup Slot \cup CallRow \cup FetchRow

TypeOK ==
    /\ asked \in [Conversation -> Requests]
    /\ claims \in [Key -> Claim \cup {None}]
    /\ page \in Conversation \cup {None}
    /\ thread \in {"none", "loading", "error", "unavailable", "success"}
    /\ snap \in Requests \cup {None}
    /\ draft \in Question \cup {None}
    /\ op \in {Idle} \cup {Pending(kind) : kind \in Kind} \cup ErrorRow
    /\ busy \subseteq Kind
    /\ required \in BOOLEAN
    /\ keys \in [Key -> Slot \cup {None}]
    /\ calls \in [Call -> CallRow \cup {None}]
    /\ fetches \in [Fetch -> FetchRow \cup {None}]
    /\ latest \in Fetch \cup {None}
    /\ heard \in [request : Index, attempt : Index] \cup {None}

\* A question sent once, or an edit saved once, is stored once, however often the page
\* tries again after a call whose outcome it does not know: unless it lost the key.
AskedOnce ==
    \A c, d \in Conversation : \A n \in DOMAIN asked[c], k \in DOMAIN asked[d] :
        asked[c][n].intent = asked[d][k].intent /\ asked[c][n].intent \notin strayed => c = d /\ n = k

\* The requests on the screen are those of the conversation that is open, as they
\* were at some time.
ShowsOpen ==
    snap # None =>
        /\ page # None
        /\ NotOlder(snap, asked[page])
        /\ \A n \in DOMAIN snap : asked[page][n].intent = snap[n].intent

\* The page waits for the answer to one mutation at a time; only a page that left
\* the conversation and came back can find an older one still on its way.
OneAtATime ==
    page \notin visited =>
        Cardinality({m \in Live : calls[m].client = "waiting" /\ calls[m].conv = page}) <= 1

\* While a conversation stays open, no refresh replaces what was read later.  The
\* answer of a branch switch is applied without a sequence number: one that
\* arrives after a refresh, or before one that was read earlier, is left out.
NeverOlder ==
    \A f \in Fetch :
       (/\ fetches[f] # None /\ fetches'[f] = None /\ ~fetches[f].crossed
        /\ page' = page /\ snap # None /\ snap' # None)
       => NotOlder(snap, snap')

\* An operation starts from a snapshot that shows the request and the attempt the
\* page has last had an answer about: it never acts on a screen its own last
\* operation has made out of date.
ActsOnSeen ==
    (op'.status = "pending" /\ op.status # "pending" /\ page \notin visited)
       => heard = None \/ /\ heard.request \in DOMAIN snap
                          /\ heard.attempt \in DOMAIN snap[heard.request].attempts

\* What the student typed leaves the input box only for a request with that text
\* that the conversation has: nothing typed is lost with a failing call.  In a
\* conversation the student left and came back to, the answer to a call from before
\* clears whatever is typed by then.
DraftKept ==
    (draft # None /\ draft' = None /\ page' = page /\ page \notin visited)
       => \E n \in DOMAIN asked[page] :
            asked[page][n].question = draft

\* What must not last under the fairness of MCEndings: a pending operation, a loading
\* skeleton, an answer shown as being generated.
OperationPending == op.status = "pending"
Loading == thread = "loading"
ShownProcessing == thread = "success" /\ Processing(snap)
=============================================================================
