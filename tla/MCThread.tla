------------------------------ MODULE MCThread ------------------------------
(* A conversation on the server, with its branches, and on the page that shows it; a
   behaviour is one of either, the page being asked three questions (Parts). *)
EXTENDS Naturals, TLC, Parts

CONSTANTS
    Primary, Branch, RequestId, AnswerId, HistoryLimit,     \* BranchHistory
    Lone, Pair, Other,                                  \* sets of one and two identities
    Tries                                               \* ThreadPage, the attempts of a conversation

\* Three questions, two answers and two edits.
His == INSTANCE BranchHistory WITH
    branch <- v1, active <- v2, req <- v3, ans <- v4, task <- v5

\* Two questions asked by two calls, of which an answer may be lost.
Page == INSTANCE ThreadPage WITH
    asked <- v1, deleted <- v2, claims <- v3, page <- v4, thread <- v5, snap <- v6,
    op <- v7, draft <- v8, busy <- v9, required <- v10, keys <- v11, fetches <- v12,
    latest <- v13, calls <- v14, heard <- v15, visited <- v16, strayed <- v17, faults <- v18,
    Conversation <- Lone, Question <- Lone, Key <- Pair, Intent <- Other, Call <- Handler, Fetch <- Lone,
    MaxAttempts <- Tries, MaxFaults <- 1

\* Two reads that overtake each other and calls.
Reads == INSTANCE ThreadPage WITH
    asked <- v1, deleted <- v2, claims <- v3, page <- v4, thread <- v5, snap <- v6,
    op <- v7, draft <- v8, busy <- v9, required <- v10, keys <- v11, fetches <- v12,
    latest <- v13, calls <- v14, heard <- v15, visited <- v16, strayed <- v17, faults <- v18,
    Conversation <- Lone, Question <- Lone, Key <- Lone, Intent <- Lone, Call <- Handler, Fetch <- Pair,
    MaxAttempts <- 1, MaxFaults <- 1

\* Two conversations between which the student goes back and forth.
Pages == INSTANCE ThreadPage WITH
    asked <- v1, deleted <- v2, claims <- v3, page <- v4, thread <- v5, snap <- v6,
    op <- v7, draft <- v8, busy <- v9, required <- v10, keys <- v11, fetches <- v12,
    latest <- v13, calls <- v14, heard <- v15, visited <- v16, strayed <- v17, faults <- v18,
    Conversation <- Other, Question <- Lone, Key <- Lone, Intent <- Lone, Call <- Lone, Fetch <- Pair,
    MaxAttempts <- 1, MaxFaults <- 0

ASSUME ThreadFits ==
    /\ His!PrimaryBranch /\ His!NullIsNoRow /\ His!Shallow /\ His!HistoryBound
    /\ Page!NoneIsNothing /\ Reads!NoneIsNothing /\ Pages!NoneIsNothing

ThreadInit ==
    \/ part = "history" /\ His!Init /\ Unused6
    \/ part = "page" /\ Page!Init
    \/ part = "reads" /\ Reads!Init
    \/ part = "pages" /\ Pages!Init

ThreadNext ==
    /\ \/ part = "history" /\ His!Next /\ UNCHANGED from6
       \/ part = "page" /\ Page!Next
       \/ part = "reads" /\ Reads!Next
       \/ part = "pages" /\ Pages!Next
    /\ UNCHANGED part

ThreadSpec == ThreadInit /\ [][ThreadNext]_<<part, state>>

ThreadSymmetry ==
    Permutations(Branch \ {Primary}) \cup Permutations(RequestId) \cup Permutations(AnswerId)
    \cup Permutations(Pair) \cup Permutations(Other) \cup Permutations(Handler)

-----------------------------------------------------------------------------
\* Every variable of the part that runs keeps its type.
ThreadTypeOK ==
    /\ part = "history" => His!TypeOK
    /\ part = "page" => Page!TypeOK
    /\ part = "reads" => Reads!TypeOK
    /\ part = "pages" => Pages!TypeOK

\* A branch shows the thread it continues, whatever is added to its ancestors later, and
\* never what its edit replaced; its questions are numbered apart, the list of conversations
\* previews the message it ends with, and the provider is given each answer with its
\* question and at most one.
HistorySound ==
    part = "history" =>
        /\ His!VisibleIsThread /\ His!ReplacedIsHidden /\ His!QuestionsNumbered
        /\ His!PreviewIsLast /\ His!ContextPaired

\* A question sent once is stored once, however often the page tries again; the requests on
\* the screen are those of the open conversation, as they were at some time; and the page
\* waits for the answer to one mutation at a time.
PageFaithful ==
    /\ part = "page" => Page!AskedOnce /\ Page!ShowsOpen /\ Page!OneAtATime
    /\ part = "reads" => Reads!AskedOnce /\ Reads!ShowsOpen /\ Reads!OneAtATime
    /\ part = "pages" => Pages!AskedOnce /\ Pages!ShowsOpen /\ Pages!OneAtATime

\* No refresh replaces what was read later, an operation starts from a snapshot that shows
\* what the last one did, and what the student typed leaves the input box only for a request
\* the conversation has.
PageForward == [][
    /\ part = "page" => Page!NeverOlder /\ Page!ActsOnSeen /\ Page!DraftKept
    /\ part = "reads" => Reads!NeverOlder /\ Reads!ActsOnSeen /\ Reads!DraftKept
    /\ part = "pages" => Pages!NeverOlder /\ Pages!ActsOnSeen /\ Pages!DraftKept]_state

\* The answers in a history are the latest ones, as "latestByRequest" and its comparison of
\* variant numbers say (generationHistory).
ContextLatest == part = "history" => His!ContextLatest
=============================================================================
