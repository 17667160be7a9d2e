------------------------ MODULE ThreadCompositeProofs ------------------------
(***************************************************************************)
(* The properties that the run of the thread checks, proved for any values *)
(* of the constants, as CompositeProofs does for the other components: the *)
(* theorems of ThreadProofs are carried over from its instances to those   *)
(* that the run checks.                                                    *)
(***************************************************************************)
EXTENDS MCThread, TLAPS

PageP == INSTANCE ThreadProofs WITH
    asked <- v1, deleted <- v2, claims <- v3, page <- v4, thread <- v5, snap <- v6,
    op <- v7, draft <- v8, busy <- v9, required <- v10, keys <- v11, fetches <- v12,
    latest <- v13, calls <- v14, heard <- v15, visited <- v16, strayed <- v17, faults <- v18,
    branch <- v1, active <- v2, req <- v3, ans <- v4, task <- v5,
    Conversation <- Lone, Question <- Lone, Key <- Pair, Intent <- Other, Call <- Handler, Fetch <- Lone,
    MaxAttempts <- Tries, MaxFaults <- 1

ReadsP == INSTANCE ThreadProofs WITH
    asked <- v1, deleted <- v2, claims <- v3, page <- v4, thread <- v5, snap <- v6,
    op <- v7, draft <- v8, busy <- v9, required <- v10, keys <- v11, fetches <- v12,
    latest <- v13, calls <- v14, heard <- v15, visited <- v16, strayed <- v17, faults <- v18,
    branch <- v1, active <- v2, req <- v3, ans <- v4, task <- v5,
    Conversation <- Lone, Question <- Lone, Key <- Lone, Intent <- Lone, Call <- Handler, Fetch <- Pair,
    MaxAttempts <- 1, MaxFaults <- 1

PagesP == INSTANCE ThreadProofs WITH
    asked <- v1, deleted <- v2, claims <- v3, page <- v4, thread <- v5, snap <- v6,
    op <- v7, draft <- v8, busy <- v9, required <- v10, keys <- v11, fetches <- v12,
    latest <- v13, calls <- v14, heard <- v15, visited <- v16, strayed <- v17, faults <- v18,
    branch <- v1, active <- v2, req <- v3, ans <- v4, task <- v5,
    Conversation <- Other, Question <- Lone, Key <- Lone, Intent <- Lone, Call <- Lone, Fetch <- Pair,
    MaxAttempts <- 1, MaxFaults <- 0

\* A behaviour of the composite in which component p runs.
On(p) == part = p

-----------------------------------------------------------------------------
(* The branches of a conversation *)

LEMMA HistoryBegins == On("history") /\ ThreadInit => PageP!His!Init
BY DEF On, ThreadInit,
        PageP!His!Init, PageP!His!Idle, His!Init, His!Idle

LEMMA HistorySteps ==
    /\ On("history") /\ [ThreadNext]_<<part, state>> => On("history")' /\ [PageP!His!Next]_(PageP!His!vars)
    /\ ~On("history") /\ [ThreadNext]_<<part, state>> => ~On("history")'
<1>1. PageP!His!Next <=> His!Next
    BY DEF
        PageP!His!Next, PageP!His!Activate, PageP!His!Send, PageP!His!Edit, PageP!His!Retry,
        PageP!His!Answers, PageP!His!Regenerate, PageP!His!Complete,
        PageP!His!ReadHistory, PageP!His!FailAttempt, PageP!His!Branches, PageP!His!Generating,
        PageP!His!NewRequest, PageP!His!NextSeq,
        PageP!His!Take, PageP!His!Requests, PageP!His!Idle, PageP!His!History, PageP!His!SeqOf,
        PageP!His!Messages, PageP!His!BranchOf, PageP!His!Visible,
        PageP!His!Last, PageP!His!Kept, PageP!His!ChildIn, PageP!His!Chain, PageP!His!Before,
        PageP!His!AnswerFor, PageP!His!Upward, PageP!His!Cardinality,
        His!Next, His!Activate, His!Send, His!Edit, His!Retry, His!Answers, His!Regenerate,
        His!Complete, His!ReadHistory, His!FailAttempt, His!Branches, His!Generating,
        His!NewRequest, His!NextSeq, His!Take, His!Requests, His!Idle, His!History,
        His!SeqOf, His!Messages, His!BranchOf, His!Visible, His!Last, His!Kept,
        His!ChildIn, His!Chain, His!Before, His!AnswerFor, His!Upward, His!Cardinality
<1>2. CASE UNCHANGED <<part, state>>
    BY <1>2 DEF On, state, from4, PageP!His!vars
<1>3. CASE ThreadNext
    BY <1>1, <1>3 DEF On, ThreadNext
<1> QED
    BY <1>2, <1>3

\* A branch shows the thread it continues, whatever is added to its ancestors later, and
\* never what its edit replaced; its questions are numbered apart, the list of conversations
\* previews the message it ends with, and the provider is given each answer with its
\* question and at most one: for any number of branches, messages and overlapping calls
\* (conversation.service.ts, getActiveBranchChain, getConversation and generationHistory).
THEOREM HistoryAlwaysSound == ThreadSpec => []HistorySound
<1>1. PageP!His!PrimaryBranch /\ PageP!His!NullIsNoRow /\ PageP!His!HistoryBound
    BY ThreadFits DEF
        PageP!His!PrimaryBranch, PageP!His!NullIsNoRow, PageP!His!HistoryBound,
        PageP!His!BranchRow, PageP!His!RequestRow,
        PageP!His!AnswerRow, His!PrimaryBranch, His!NullIsNoRow, His!HistoryBound, His!BranchRow,
        His!RequestRow, His!AnswerRow
<1>2. PageP!His!Spec => [](PageP!His!TypeOK /\ PageP!Faithful)
    BY <1>1, PageP!ThreadsFaithful
<1>3. (On("history") => PageP!His!TypeOK /\ PageP!Faithful) => HistorySound
    BY DEF On, HistorySound, PageP!Faithful,
        PageP!His!VisibleIsThread, PageP!His!ReplacedIsHidden, PageP!His!QuestionsNumbered,
        PageP!His!PreviewIsLast,
        PageP!His!ContextPaired, PageP!His!Branches, PageP!His!Visible, PageP!His!Messages,
        PageP!His!BranchOf, PageP!His!Continued,
        PageP!His!Preview, PageP!His!LatestOf, PageP!His!Before, PageP!His!ChildIn,
        PageP!His!Chain, PageP!His!SeqOf, PageP!His!Requests,
        PageP!His!Answers, PageP!His!Upward, PageP!His!Cardinality, His!VisibleIsThread,
        His!ReplacedIsHidden,
        His!QuestionsNumbered, His!PreviewIsLast, His!ContextPaired, His!Branches,
        His!Visible, His!Messages, His!BranchOf, His!Continued, His!Preview, His!LatestOf,
        His!Before, His!ChildIn, His!Chain, His!SeqOf, His!Requests, His!Answers,
        His!Upward, His!Cardinality
<1>4. ThreadSpec => ThreadInit /\ [][ThreadNext]_<<part, state>>
    BY DEF ThreadSpec
<1> QED
    BY HistoryBegins, HistorySteps, <1>2, <1>3, <1>4, PTL DEF PageP!His!Spec

-----------------------------------------------------------------------------
(* One conversation on its page *)

LEMMA PageBegins == On("page") /\ ThreadInit => PageP!Init
BY DEF On, ThreadInit,
    PageP!Init, PageP!Idle, PageP!NoKeys, Page!Init, Page!Idle, Page!NoKeys

LEMMA PageCounts ==
    /\ \A s : PageP!Cardinality(s) = Page!Cardinality(s)
    /\ \A f : PageP!SumFunction(f) = Page!SumFunction(f)
    /\ \A s : PageP!BranchOf(s) = Page!BranchOf(s)
<1>1. \A s : PageP!Cardinality(s) = Page!Cardinality(s)
    BY DEF PageP!Cardinality, Page!Cardinality
<1>2. \A f : PageP!SumFunction(f) = Page!SumFunction(f)
    BY DEF
        PageP!SumFunction, PageP!SumFunctionOnSet, PageP!FoldFunctionOnSet, PageP!MapThenFoldSet,
        Page!SumFunction, Page!SumFunctionOnSet, Page!FoldFunctionOnSet, Page!MapThenFoldSet
<1>3. \A s : PageP!BranchOf(s) = Page!BranchOf(s)
    BY <1>1 DEF PageP!BranchOf, Page!BranchOf
<1> QED
    BY <1>1, <1>2, <1>3

LEMMA PageIssues ==
    ASSUME NEW m, NEW kind, NEW q, NEW i, NEW n
    PROVE  PageP!Issue(m, kind, q, i, n) <=> Page!Issue(m, kind, q, i, n)
<1>1. PageP!Room <=> Page!Room
    BY PageCounts DEF
        PageP!Room, PageP!Attempts, PageP!Live, PageP!Asking, PageP!Kept, Page!Room,
        Page!Attempts, Page!Live, Page!Asking, Page!Kept
<1> QED
    BY <1>1, PageCounts DEF
        PageP!Issue, PageP!Asking, PageP!Kept, PageP!SlotFor, PageP!server, PageP!Settings,
        PageP!Pending, Page!Issue, Page!Asking, Page!Kept, Page!SlotFor, Page!server,
        Page!Settings, Page!Pending

LEMMA PageNext == PageP!Next <=> Page!Next
<1>1. ASSUME NEW m, NEW q, NEW i
      PROVE  PageP!Send(m, q, i) <=> Page!Send(m, q, i)
    BY PageIssues, PageCounts DEF
        PageP!Send, PageP!Unlocked, PageP!Fresh, PageP!Unresolved, PageP!TakeKey,
        PageP!SlotFor, PageP!Stray, PageP!server, PageP!Refreshing, PageP!Processing,
        PageP!Live, PageP!HasResponse, PageP!IsFailed, PageP!Waiting, PageP!InProgress,
        PageP!Original, PageP!Latest, PageP!Last, Page!Send, Page!Unlocked, Page!Fresh,
        Page!Unresolved, Page!TakeKey, Page!SlotFor, Page!Stray, Page!server,
        Page!Refreshing, Page!Processing, Page!Live, Page!HasResponse, Page!IsFailed,
        Page!Waiting, Page!InProgress, Page!Original, Page!Latest, Page!Last
<1>2. ASSUME NEW m, NEW q, NEW i, NEW n
      PROVE  PageP!Edit(m, q, i, n) <=> Page!Edit(m, q, i, n)
    BY PageIssues, PageCounts DEF
        PageP!Edit, PageP!Unlocked, PageP!Fresh, PageP!IsFailed, PageP!HasResponse,
        PageP!TakeKey, PageP!SlotFor, PageP!Stray, PageP!server, PageP!Refreshing,
        PageP!Processing, PageP!Live, PageP!Original, PageP!Latest, PageP!Waiting,
        PageP!InProgress, PageP!Last, Page!Edit, Page!Unlocked, Page!Fresh, Page!IsFailed,
        Page!HasResponse, Page!TakeKey, Page!SlotFor, Page!Stray, Page!server,
        Page!Refreshing, Page!Processing, Page!Live, Page!Original, Page!Latest,
        Page!Waiting, Page!InProgress, Page!Last
<1>3. ASSUME NEW m
      PROVE  PageP!TryAgain(m) <=> Page!TryAgain(m)
    BY PageIssues, PageCounts DEF
        PageP!TryAgain, PageP!Unlocked, PageP!Kept, PageP!Unresolved, PageP!TakeKey,
        PageP!SlotFor, PageP!Stray, PageP!server, PageP!Refreshing, PageP!Processing,
        PageP!HasResponse, PageP!IsFailed, PageP!Live, PageP!Waiting, PageP!InProgress,
        PageP!Original, PageP!Latest, PageP!Last, Page!TryAgain, Page!Unlocked, Page!Kept,
        Page!Unresolved, Page!TakeKey, Page!SlotFor, Page!Stray, Page!server,
        Page!Refreshing, Page!Processing, Page!HasResponse, Page!IsFailed, Page!Live,
        Page!Waiting, Page!InProgress, Page!Original, Page!Latest, Page!Last
<1>4. ASSUME NEW m, NEW kind, NEW n
      PROVE  PageP!OnRequest(m, kind, n) <=> Page!OnRequest(m, kind, n)
    BY PageIssues, PageCounts DEF
        PageP!OnRequest, PageP!Unlocked, PageP!IsFailed, PageP!HasResponse, PageP!Latest,
        PageP!server, PageP!Refreshing, PageP!Processing, PageP!Original, PageP!Last,
        PageP!Waiting, PageP!InProgress, PageP!Live, Page!OnRequest, Page!Unlocked,
        Page!IsFailed, Page!HasResponse, Page!Latest, Page!server, Page!Refreshing,
        Page!Processing, Page!Original, Page!Last, Page!Waiting, Page!InProgress, Page!Live
<1>5. ASSUME NEW m, NEW kind
      PROVE  PageP!OnConversation(m, kind) <=> Page!OnConversation(m, kind)
    BY PageIssues, PageCounts DEF
        PageP!OnConversation, PageP!Unlocked, PageP!server, PageP!Refreshing,
        PageP!Processing, PageP!Waiting, PageP!InProgress, PageP!Live, PageP!Latest,
        PageP!Last, Page!OnConversation, Page!Unlocked, Page!server, Page!Refreshing,
        Page!Processing, Page!Waiting, Page!InProgress, Page!Live, Page!Latest, Page!Last
<1>6. ASSUME NEW m, NEW f
      PROVE  PageP!Refresh(m, f) <=> Page!Refresh(m, f)
    BY PageIssues, PageCounts DEF
        PageP!Refresh, PageP!Refreshing, PageP!server, PageP!StartFetch, PageP!Waiting,
        PageP!Live, Page!Refresh, Page!Refreshing, Page!server, Page!StartFetch,
        Page!Waiting, Page!Live
<1>7. PageP!Student <=> Page!Student
    BY <1>1, <1>2, <1>3, <1>4, <1>5, <1>6 DEF PageP!Student, Page!Student
<1>8. PageP!Moves <=> Page!Moves
    BY DEF
        PageP!Moves, PageP!Open, PageP!Switch, PageP!Leave, PageP!Show, PageP!server,
        PageP!Forget, PageP!GoAway, PageP!Idle, PageP!StartFetch, PageP!NoKeys, Page!Moves,
        Page!Open, Page!Switch, Page!Leave, Page!Show, Page!server, Page!Forget,
        Page!GoAway, Page!Idle, Page!StartFetch, Page!NoKeys
<1>9. PageP!Progress <=> Page!Progress
    BY DEF
        PageP!Progress, PageP!Arrive, PageP!End, PageP!Unheard, PageP!HearDeleted,
        PageP!Reply, PageP!Read, PageP!Deliver, PageP!Poll, PageP!Refuse, PageP!Kept,
        PageP!Store, PageP!Latest, PageP!Begin, PageP!Answer, PageP!server, PageP!shown,
        PageP!GoAway, PageP!Forget, PageP!Hear, PageP!Usable, PageP!Finish,
        PageP!Processing, PageP!StartFetch, PageP!Original, PageP!Last, PageP!Idle,
        PageP!NoKeys, PageP!Keys, PageP!Asking, PageP!Waiting, PageP!After, PageP!Settle,
        PageP!InProgress, PageP!About, PageP!Live, PageP!Failed, PageP!IsFailed,
        PageP!First, PageP!HasResponse, Page!Progress, Page!Arrive, Page!End, Page!Unheard,
        Page!HearDeleted, Page!Reply, Page!Read, Page!Deliver, Page!Poll, Page!Refuse,
        Page!Kept, Page!Store, Page!Latest, Page!Begin, Page!Answer, Page!server,
        Page!shown, Page!GoAway, Page!Forget, Page!Hear, Page!Usable, Page!Finish,
        Page!Processing, Page!StartFetch, Page!Original, Page!Last, Page!Idle, Page!NoKeys,
        Page!Keys, Page!Asking, Page!Waiting, Page!After, Page!Settle, Page!InProgress,
        Page!About, Page!Live, Page!Failed, Page!IsFailed, Page!First, Page!HasResponse
<1>10. PageP!Faults <=> Page!Faults
    BY DEF
        PageP!Faults, PageP!Lose, PageP!LoseRequest, PageP!LoseRead, PageP!Hear,
        PageP!server, PageP!Usable, PageP!shown, PageP!Finish, PageP!Forget, PageP!Keys,
        PageP!Asking, PageP!StartFetch, PageP!Idle, PageP!Waiting, PageP!After,
        PageP!Settle, PageP!Kept, PageP!About, PageP!Live, PageP!Failed, PageP!IsFailed,
        PageP!Processing, PageP!First, PageP!Original, PageP!HasResponse, PageP!Latest,
        PageP!InProgress, PageP!Last, Page!Faults, Page!Lose, Page!LoseRequest,
        Page!LoseRead, Page!Hear, Page!server, Page!Usable, Page!shown, Page!Finish,
        Page!Forget, Page!Keys, Page!Asking, Page!StartFetch, Page!Idle, Page!Waiting,
        Page!After, Page!Settle, Page!Kept, Page!About, Page!Live, Page!Failed,
        Page!IsFailed, Page!Processing, Page!First, Page!Original, Page!HasResponse,
        Page!Latest, Page!InProgress, Page!Last
<1> QED
    BY <1>7, <1>8, <1>9, <1>10 DEF PageP!Next, Page!Next

LEMMA PageSteps ==
    /\ On("page") /\ [ThreadNext]_<<part, state>> => On("page")' /\ [PageP!Next]_(PageP!vars)
    /\ UNCHANGED PageP!vars => UNCHANGED state
    /\ ~On("page") /\ [ThreadNext]_<<part, state>> => ~On("page")'
<1>1. UNCHANGED PageP!vars <=> UNCHANGED state
    BY DEF
        state, from4, from6, from7, from9, from11, from12, from13, PageP!vars, PageP!server,
        PageP!shown
<1>2. CASE UNCHANGED <<part, state>>
    BY <1>1, <1>2 DEF On
<1>3. CASE ThreadNext
    BY <1>1, <1>3, PageNext DEF On, ThreadNext
<1> QED
    BY <1>1, <1>2, <1>3

LEMMA PageFits == PageP!NoneIsNothing
BY ThreadFits DEF
    PageP!NoneIsNothing, PageP!Claim, PageP!Slot, PageP!CallRow, PageP!FetchRow,
    PageP!Kept, PageP!Kind, PageP!Index, PageP!server, PageP!Requests, PageP!Asking,
    PageP!Settings, PageP!Request, PageP!Status, Page!NoneIsNothing, Page!Claim, Page!Slot,
    Page!CallRow, Page!FetchRow, Page!Kept, Page!Kind, Page!Index, Page!server,
    Page!Requests, Page!Asking, Page!Settings, Page!Request, Page!Status

LEMMA PageTypes == PageP!TypeOK => Page!TypeOK
<1>1. PageP!Requests = Page!Requests
    BY DEF
        PageP!Requests, PageP!Request, PageP!Status, Page!Requests, Page!Request,
        Page!Status
<1>2. PageP!Claim = Page!Claim
    BY DEF
        PageP!Claim, Page!Claim
<1>3. PageP!Slot = Page!Slot
    BY DEF
        PageP!Slot, PageP!Kept, Page!Slot, Page!Kept
<1>4. PageP!ErrorRow = Page!ErrorRow
    BY DEF
        PageP!ErrorRow, PageP!Asking, PageP!Index, PageP!Slot, PageP!Kept, Page!ErrorRow,
        Page!Asking, Page!Index, Page!Slot, Page!Kept
<1>5. PageP!CallRow = Page!CallRow
    BY DEF
        PageP!CallRow, PageP!Kind, PageP!Slot, PageP!Index, PageP!server, PageP!Requests,
        PageP!Asking, PageP!Settings, PageP!Kept, PageP!Request, PageP!Status,
        Page!CallRow, Page!Kind, Page!Slot, Page!Index, Page!server, Page!Requests,
        Page!Asking, Page!Settings, Page!Kept, Page!Request, Page!Status
<1>6. PageP!FetchRow = Page!FetchRow
    BY DEF
        PageP!FetchRow, PageP!Requests, PageP!Request, PageP!Status, Page!FetchRow,
        Page!Requests, Page!Request, Page!Status
<1> QED
    BY <1>1, <1>2, <1>3, <1>4, <1>5, <1>6 DEF
        PageP!TypeOK, PageP!Idle, PageP!Pending, PageP!Kind, PageP!Index, PageP!Asking,
        PageP!Settings, PageP!Kept, Page!TypeOK, Page!Idle, Page!Pending, Page!Kind,
        Page!Index, Page!Asking, Page!Settings, Page!Kept

LEMMA PageHolds ==
    ThreadSpec => [](part = "page" =>
        Page!TypeOK /\ Page!AskedOnce /\ Page!ShowsOpen /\ Page!OneAtATime)
<1>1. PageP!Spec => []PageP!TypeOK
    BY PageFits, PageP!PageTyped
<1>2. PageP!Spec => []PageP!AskedOnce
    BY PageFits, PageP!StoredOnce
<1>3. PageP!Spec => []PageP!ShowsOpen
    BY PageFits, PageP!PageShowsOpen
<1>4. PageP!Spec => []PageP!OneAtATime
    BY PageFits, PageP!WaitsForOne
<1>5. PageP!AskedOnce => Page!AskedOnce
    BY DEF PageP!AskedOnce, Page!AskedOnce
<1>6. PageP!ShowsOpen => Page!ShowsOpen
    BY DEF
        PageP!ShowsOpen, PageP!NotOlder, PageP!Age, PageP!Latest, PageP!Last,
        Page!ShowsOpen, Page!NotOlder, Page!Age, Page!Latest, Page!Last
<1>7. PageP!OneAtATime => Page!OneAtATime
    BY PageCounts DEF PageP!OneAtATime, PageP!Live, Page!OneAtATime, Page!Live
<1>8. (On("page") => PageP!TypeOK /\ PageP!AskedOnce /\ PageP!ShowsOpen /\ PageP!OneAtATime) =>
      (part = "page" => Page!TypeOK /\ Page!AskedOnce /\ Page!ShowsOpen /\ Page!OneAtATime)
    BY PageTypes, <1>5, <1>6, <1>7 DEF On
<1> QED
    BY PageBegins, PageSteps, <1>1, <1>2, <1>3, <1>4, <1>8, PTL DEF ThreadSpec, PageP!Spec

LEMMA PageGoes ==
    ThreadSpec => [][part = "page" =>
        Page!NeverOlder /\ Page!ActsOnSeen /\ Page!DraftKept]_state
<1>1. PageP!Spec => [][PageP!NeverOlder]_(PageP!vars)
    BY PageFits, PageP!PageNeverOlder
<1>2. PageP!Spec => [][PageP!ActsOnSeen]_(PageP!vars)
    BY PageFits, PageP!PageActsOnSeen
<1>3. PageP!Spec => [][PageP!DraftKept]_(PageP!vars)
    BY PageFits, PageP!PageKeepsDraft
<1>4. PageP!NeverOlder /\ PageP!ActsOnSeen /\ PageP!DraftKept =>
      Page!NeverOlder /\ Page!ActsOnSeen /\ Page!DraftKept
    BY DEF
        PageP!NeverOlder, PageP!ActsOnSeen, PageP!DraftKept, PageP!NotOlder, PageP!Age,
        PageP!Latest, PageP!Last, Page!NeverOlder, Page!ActsOnSeen, Page!DraftKept,
        Page!NotOlder, Page!Age, Page!Latest, Page!Last
<1>5. /\ On("page") /\ [ThreadNext]_<<part, state>>
      /\ [PageP!NeverOlder]_(PageP!vars) /\ [PageP!ActsOnSeen]_(PageP!vars) /\ [PageP!DraftKept]_(PageP!vars)
      => [part = "page" => Page!NeverOlder /\ Page!ActsOnSeen /\ Page!DraftKept]_state
    BY <1>4, PageSteps
<1>6. ~On("page") =>
      [part = "page" => Page!NeverOlder /\ Page!ActsOnSeen /\ Page!DraftKept]_state
    BY DEF On
<1> QED
    BY PageBegins, PageSteps, <1>1, <1>2, <1>3, <1>5, <1>6, PTL DEF ThreadSpec, PageP!Spec

-----------------------------------------------------------------------------
(* Reads that overtake each other *)

LEMMA ReadsBegins == On("reads") /\ ThreadInit => ReadsP!Init
BY DEF On, ThreadInit,
    ReadsP!Init, ReadsP!Idle, ReadsP!NoKeys, Reads!Init, Reads!Idle, Reads!NoKeys

LEMMA ReadsCounts ==
    /\ \A s : ReadsP!Cardinality(s) = Reads!Cardinality(s)
    /\ \A f : ReadsP!SumFunction(f) = Reads!SumFunction(f)
    /\ \A s : ReadsP!BranchOf(s) = Reads!BranchOf(s)
<1>1. \A s : ReadsP!Cardinality(s) = Reads!Cardinality(s)
    BY DEF ReadsP!Cardinality, Reads!Cardinality
<1>2. \A f : ReadsP!SumFunction(f) = Reads!SumFunction(f)
    BY DEF
        ReadsP!SumFunction, ReadsP!SumFunctionOnSet, ReadsP!FoldFunctionOnSet,
        ReadsP!MapThenFoldSet,
        Reads!SumFunction, Reads!SumFunctionOnSet, Reads!FoldFunctionOnSet, Reads!MapThenFoldSet
<1>3. \A s : ReadsP!BranchOf(s) = Reads!BranchOf(s)
    BY <1>1 DEF ReadsP!BranchOf, Reads!BranchOf
<1> QED
    BY <1>1, <1>2, <1>3

LEMMA ReadsIssues ==
    ASSUME NEW m, NEW kind, NEW q, NEW i, NEW n
    PROVE  ReadsP!Issue(m, kind, q, i, n) <=> Reads!Issue(m, kind, q, i, n)
<1>1. ReadsP!Room <=> Reads!Room
    BY ReadsCounts DEF
        ReadsP!Room, ReadsP!Attempts, ReadsP!Live, ReadsP!Asking, ReadsP!Kept, Reads!Room,
        Reads!Attempts, Reads!Live, Reads!Asking, Reads!Kept
<1> QED
    BY <1>1, ReadsCounts DEF
        ReadsP!Issue, ReadsP!Asking, ReadsP!Kept, ReadsP!SlotFor, ReadsP!server,
        ReadsP!Settings, ReadsP!Pending, Reads!Issue, Reads!Asking, Reads!Kept,
        Reads!SlotFor, Reads!server, Reads!Settings, Reads!Pending

LEMMA ReadsNext == ReadsP!Next <=> Reads!Next
<1>1. ASSUME NEW m, NEW q, NEW i
      PROVE  ReadsP!Send(m, q, i) <=> Reads!Send(m, q, i)
    BY ReadsIssues, ReadsCounts DEF
        ReadsP!Send, ReadsP!Unlocked, ReadsP!Fresh, ReadsP!Unresolved, ReadsP!TakeKey,
        ReadsP!SlotFor, ReadsP!Stray, ReadsP!server, ReadsP!Refreshing, ReadsP!Processing,
        ReadsP!Live, ReadsP!HasResponse, ReadsP!IsFailed, ReadsP!Waiting,
        ReadsP!InProgress, ReadsP!Original, ReadsP!Latest, ReadsP!Last, Reads!Send,
        Reads!Unlocked, Reads!Fresh, Reads!Unresolved, Reads!TakeKey, Reads!SlotFor,
        Reads!Stray, Reads!server, Reads!Refreshing, Reads!Processing, Reads!Live,
        Reads!HasResponse, Reads!IsFailed, Reads!Waiting, Reads!InProgress, Reads!Original,
        Reads!Latest, Reads!Last
<1>2. ASSUME NEW m, NEW q, NEW i, NEW n
      PROVE  ReadsP!Edit(m, q, i, n) <=> Reads!Edit(m, q, i, n)
    BY ReadsIssues, ReadsCounts DEF
        ReadsP!Edit, ReadsP!Unlocked, ReadsP!Fresh, ReadsP!IsFailed, ReadsP!HasResponse,
        ReadsP!TakeKey, ReadsP!SlotFor, ReadsP!Stray, ReadsP!server, ReadsP!Refreshing,
        ReadsP!Processing, ReadsP!Live, ReadsP!Original, ReadsP!Latest, ReadsP!Waiting,
        ReadsP!InProgress, ReadsP!Last, Reads!Edit, Reads!Unlocked, Reads!Fresh,
        Reads!IsFailed, Reads!HasResponse, Reads!TakeKey, Reads!SlotFor, Reads!Stray,
        Reads!server, Reads!Refreshing, Reads!Processing, Reads!Live, Reads!Original,
        Reads!Latest, Reads!Waiting, Reads!InProgress, Reads!Last
<1>3. ASSUME NEW m
      PROVE  ReadsP!TryAgain(m) <=> Reads!TryAgain(m)
    BY ReadsIssues, ReadsCounts DEF
        ReadsP!TryAgain, ReadsP!Unlocked, ReadsP!Kept, ReadsP!Unresolved, ReadsP!TakeKey,
        ReadsP!SlotFor, ReadsP!Stray, ReadsP!server, ReadsP!Refreshing, ReadsP!Processing,
        ReadsP!HasResponse, ReadsP!IsFailed, ReadsP!Live, ReadsP!Waiting,
        ReadsP!InProgress, ReadsP!Original, ReadsP!Latest, ReadsP!Last, Reads!TryAgain,
        Reads!Unlocked, Reads!Kept, Reads!Unresolved, Reads!TakeKey, Reads!SlotFor,
        Reads!Stray, Reads!server, Reads!Refreshing, Reads!Processing, Reads!HasResponse,
        Reads!IsFailed, Reads!Live, Reads!Waiting, Reads!InProgress, Reads!Original,
        Reads!Latest, Reads!Last
<1>4. ASSUME NEW m, NEW kind, NEW n
      PROVE  ReadsP!OnRequest(m, kind, n) <=> Reads!OnRequest(m, kind, n)
    BY ReadsIssues, ReadsCounts DEF
        ReadsP!OnRequest, ReadsP!Unlocked, ReadsP!IsFailed, ReadsP!HasResponse,
        ReadsP!Latest, ReadsP!server, ReadsP!Refreshing, ReadsP!Processing,
        ReadsP!Original, ReadsP!Last, ReadsP!Waiting, ReadsP!InProgress, ReadsP!Live,
        Reads!OnRequest, Reads!Unlocked, Reads!IsFailed, Reads!HasResponse, Reads!Latest,
        Reads!server, Reads!Refreshing, Reads!Processing, Reads!Original, Reads!Last,
        Reads!Waiting, Reads!InProgress, Reads!Live
<1>5. ASSUME NEW m, NEW kind
      PROVE  ReadsP!OnConversation(m, kind) <=> Reads!OnConversation(m, kind)
    BY ReadsIssues, ReadsCounts DEF
        ReadsP!OnConversation, ReadsP!Unlocked, ReadsP!server, ReadsP!Refreshing,
        ReadsP!Processing, ReadsP!Waiting, ReadsP!InProgress, ReadsP!Live, ReadsP!Latest,
        ReadsP!Last, Reads!OnConversation, Reads!Unlocked, Reads!server, Reads!Refreshing,
        Reads!Processing, Reads!Waiting, Reads!InProgress, Reads!Live, Reads!Latest,
        Reads!Last
<1>6. ASSUME NEW m, NEW f
      PROVE  ReadsP!Refresh(m, f) <=> Reads!Refresh(m, f)
    BY ReadsIssues, ReadsCounts DEF
        ReadsP!Refresh, ReadsP!Refreshing, ReadsP!server, ReadsP!StartFetch,
        ReadsP!Waiting, ReadsP!Live, Reads!Refresh, Reads!Refreshing, Reads!server,
        Reads!StartFetch, Reads!Waiting, Reads!Live
<1>7. ReadsP!Student <=> Reads!Student
    BY <1>1, <1>2, <1>3, <1>4, <1>5, <1>6 DEF ReadsP!Student, Reads!Student
<1>8. ReadsP!Moves <=> Reads!Moves
    BY DEF
        ReadsP!Moves, ReadsP!Open, ReadsP!Switch, ReadsP!Leave, ReadsP!Show, ReadsP!server,
        ReadsP!Forget, ReadsP!GoAway, ReadsP!Idle, ReadsP!StartFetch, ReadsP!NoKeys,
        Reads!Moves, Reads!Open, Reads!Switch, Reads!Leave, Reads!Show, Reads!server,
        Reads!Forget, Reads!GoAway, Reads!Idle, Reads!StartFetch, Reads!NoKeys
<1>9. ReadsP!Progress <=> Reads!Progress
    BY DEF
        ReadsP!Progress, ReadsP!Arrive, ReadsP!End, ReadsP!Unheard, ReadsP!HearDeleted,
        ReadsP!Reply, ReadsP!Read, ReadsP!Deliver, ReadsP!Poll, ReadsP!Refuse, ReadsP!Kept,
        ReadsP!Store, ReadsP!Latest, ReadsP!Begin, ReadsP!Answer, ReadsP!server,
        ReadsP!shown, ReadsP!GoAway, ReadsP!Forget, ReadsP!Hear, ReadsP!Usable,
        ReadsP!Finish, ReadsP!Processing, ReadsP!StartFetch, ReadsP!Original, ReadsP!Last,
        ReadsP!Idle, ReadsP!NoKeys, ReadsP!Keys, ReadsP!Asking, ReadsP!Waiting,
        ReadsP!After, ReadsP!Settle, ReadsP!InProgress, ReadsP!About, ReadsP!Live,
        ReadsP!Failed, ReadsP!IsFailed, ReadsP!First, ReadsP!HasResponse, Reads!Progress,
        Reads!Arrive, Reads!End, Reads!Unheard, Reads!HearDeleted, Reads!Reply, Reads!Read,
        Reads!Deliver, Reads!Poll, Reads!Refuse, Reads!Kept, Reads!Store, Reads!Latest,
        Reads!Begin, Reads!Answer, Reads!server, Reads!shown, Reads!GoAway, Reads!Forget,
        Reads!Hear, Reads!Usable, Reads!Finish, Reads!Processing, Reads!StartFetch,
        Reads!Original, Reads!Last, Reads!Idle, Reads!NoKeys, Reads!Keys, Reads!Asking,
        Reads!Waiting, Reads!After, Reads!Settle, Reads!InProgress, Reads!About,
        Reads!Live, Reads!Failed, Reads!IsFailed, Reads!First, Reads!HasResponse
<1>10. ReadsP!Faults <=> Reads!Faults
    BY DEF
        ReadsP!Faults, ReadsP!Lose, ReadsP!LoseRequest, ReadsP!LoseRead, ReadsP!Hear,
        ReadsP!server, ReadsP!Usable, ReadsP!shown, ReadsP!Finish, ReadsP!Forget,
        ReadsP!Keys, ReadsP!Asking, ReadsP!StartFetch, ReadsP!Idle, ReadsP!Waiting,
        ReadsP!After, ReadsP!Settle, ReadsP!Kept, ReadsP!About, ReadsP!Live, ReadsP!Failed,
        ReadsP!IsFailed, ReadsP!Processing, ReadsP!First, ReadsP!Original,
        ReadsP!HasResponse, ReadsP!Latest, ReadsP!InProgress, ReadsP!Last, Reads!Faults,
        Reads!Lose, Reads!LoseRequest, Reads!LoseRead, Reads!Hear, Reads!server,
        Reads!Usable, Reads!shown, Reads!Finish, Reads!Forget, Reads!Keys, Reads!Asking,
        Reads!StartFetch, Reads!Idle, Reads!Waiting, Reads!After, Reads!Settle, Reads!Kept,
        Reads!About, Reads!Live, Reads!Failed, Reads!IsFailed, Reads!Processing,
        Reads!First, Reads!Original, Reads!HasResponse, Reads!Latest, Reads!InProgress,
        Reads!Last
<1> QED
    BY <1>7, <1>8, <1>9, <1>10 DEF ReadsP!Next, Reads!Next

LEMMA ReadsSteps ==
    /\ On("reads") /\ [ThreadNext]_<<part, state>> => On("reads")' /\ [ReadsP!Next]_(ReadsP!vars)
    /\ UNCHANGED ReadsP!vars => UNCHANGED state
    /\ ~On("reads") /\ [ThreadNext]_<<part, state>> => ~On("reads")'
<1>1. UNCHANGED ReadsP!vars <=> UNCHANGED state
    BY DEF
        state, from4, from6, from7, from9, from11, from12, from13, ReadsP!vars, ReadsP!server,
        ReadsP!shown
<1>2. CASE UNCHANGED <<part, state>>
    BY <1>1, <1>2 DEF On
<1>3. CASE ThreadNext
    BY <1>1, <1>3, ReadsNext DEF On, ThreadNext
<1> QED
    BY <1>1, <1>2, <1>3

LEMMA ReadsFits == ReadsP!NoneIsNothing
BY ThreadFits DEF
    ReadsP!NoneIsNothing, ReadsP!Claim, ReadsP!Slot, ReadsP!CallRow, ReadsP!FetchRow,
    ReadsP!Kept, ReadsP!Kind, ReadsP!Index, ReadsP!server, ReadsP!Requests, ReadsP!Asking,
    ReadsP!Settings, ReadsP!Request, ReadsP!Status, Reads!NoneIsNothing, Reads!Claim,
    Reads!Slot, Reads!CallRow, Reads!FetchRow, Reads!Kept, Reads!Kind, Reads!Index,
    Reads!server, Reads!Requests, Reads!Asking, Reads!Settings, Reads!Request, Reads!Status

LEMMA ReadsTypes == ReadsP!TypeOK => Reads!TypeOK
<1>1. ReadsP!Requests = Reads!Requests
    BY DEF
        ReadsP!Requests, ReadsP!Request, ReadsP!Status, Reads!Requests, Reads!Request,
        Reads!Status
<1>2. ReadsP!Claim = Reads!Claim
    BY DEF
        ReadsP!Claim, Reads!Claim
<1>3. ReadsP!Slot = Reads!Slot
    BY DEF
        ReadsP!Slot, ReadsP!Kept, Reads!Slot, Reads!Kept
<1>4. ReadsP!ErrorRow = Reads!ErrorRow
    BY DEF
        ReadsP!ErrorRow, ReadsP!Asking, ReadsP!Index, ReadsP!Slot, ReadsP!Kept,
        Reads!ErrorRow, Reads!Asking, Reads!Index, Reads!Slot, Reads!Kept
<1>5. ReadsP!CallRow = Reads!CallRow
    BY DEF
        ReadsP!CallRow, ReadsP!Kind, ReadsP!Slot, ReadsP!Index, ReadsP!server,
        ReadsP!Requests, ReadsP!Asking, ReadsP!Settings, ReadsP!Kept, ReadsP!Request,
        ReadsP!Status, Reads!CallRow, Reads!Kind, Reads!Slot, Reads!Index, Reads!server,
        Reads!Requests, Reads!Asking, Reads!Settings, Reads!Kept, Reads!Request,
        Reads!Status
<1>6. ReadsP!FetchRow = Reads!FetchRow
    BY DEF
        ReadsP!FetchRow, ReadsP!Requests, ReadsP!Request, ReadsP!Status, Reads!FetchRow,
        Reads!Requests, Reads!Request, Reads!Status
<1> QED
    BY <1>1, <1>2, <1>3, <1>4, <1>5, <1>6 DEF
        ReadsP!TypeOK, ReadsP!Idle, ReadsP!Pending, ReadsP!Kind, ReadsP!Index,
        ReadsP!Asking, ReadsP!Settings, ReadsP!Kept, Reads!TypeOK, Reads!Idle,
        Reads!Pending, Reads!Kind, Reads!Index, Reads!Asking, Reads!Settings, Reads!Kept

LEMMA ReadsHolds ==
    ThreadSpec => [](part = "reads" =>
        Reads!TypeOK /\ Reads!AskedOnce /\ Reads!ShowsOpen /\ Reads!OneAtATime)
<1>1. ReadsP!Spec => []ReadsP!TypeOK
    BY ReadsFits, ReadsP!PageTyped
<1>2. ReadsP!Spec => []ReadsP!AskedOnce
    BY ReadsFits, ReadsP!StoredOnce
<1>3. ReadsP!Spec => []ReadsP!ShowsOpen
    BY ReadsFits, ReadsP!PageShowsOpen
<1>4. ReadsP!Spec => []ReadsP!OneAtATime
    BY ReadsFits, ReadsP!WaitsForOne
<1>5. ReadsP!AskedOnce => Reads!AskedOnce
    BY DEF ReadsP!AskedOnce, Reads!AskedOnce
<1>6. ReadsP!ShowsOpen => Reads!ShowsOpen
    BY DEF
        ReadsP!ShowsOpen, ReadsP!NotOlder, ReadsP!Age, ReadsP!Latest, ReadsP!Last,
        Reads!ShowsOpen, Reads!NotOlder, Reads!Age, Reads!Latest, Reads!Last
<1>7. ReadsP!OneAtATime => Reads!OneAtATime
    BY ReadsCounts DEF ReadsP!OneAtATime, ReadsP!Live, Reads!OneAtATime, Reads!Live
<1>8. (On("reads") => ReadsP!TypeOK /\ ReadsP!AskedOnce /\ ReadsP!ShowsOpen /\ ReadsP!OneAtATime) =>
      (part = "reads" => Reads!TypeOK /\ Reads!AskedOnce /\ Reads!ShowsOpen /\ Reads!OneAtATime)
    BY ReadsTypes, <1>5, <1>6, <1>7 DEF On
<1> QED
    BY ReadsBegins, ReadsSteps, <1>1, <1>2, <1>3, <1>4, <1>8, PTL DEF ThreadSpec, ReadsP!Spec

LEMMA ReadsGoes ==
    ThreadSpec => [][part = "reads" =>
        Reads!NeverOlder /\ Reads!ActsOnSeen /\ Reads!DraftKept]_state
<1>1. ReadsP!Spec => [][ReadsP!NeverOlder]_(ReadsP!vars)
    BY ReadsFits, ReadsP!PageNeverOlder
<1>2. ReadsP!Spec => [][ReadsP!ActsOnSeen]_(ReadsP!vars)
    BY ReadsFits, ReadsP!PageActsOnSeen
<1>3. ReadsP!Spec => [][ReadsP!DraftKept]_(ReadsP!vars)
    BY ReadsFits, ReadsP!PageKeepsDraft
<1>4. ReadsP!NeverOlder /\ ReadsP!ActsOnSeen /\ ReadsP!DraftKept =>
      Reads!NeverOlder /\ Reads!ActsOnSeen /\ Reads!DraftKept
    BY DEF
        ReadsP!NeverOlder, ReadsP!ActsOnSeen, ReadsP!DraftKept, ReadsP!NotOlder,
        ReadsP!Age, ReadsP!Latest, ReadsP!Last, Reads!NeverOlder, Reads!ActsOnSeen,
        Reads!DraftKept, Reads!NotOlder, Reads!Age, Reads!Latest, Reads!Last
<1>5. /\ On("reads") /\ [ThreadNext]_<<part, state>>
      /\ [ReadsP!NeverOlder]_(ReadsP!vars) /\ [ReadsP!ActsOnSeen]_(ReadsP!vars) /\ [ReadsP!DraftKept]_(ReadsP!vars)
      => [part = "reads" => Reads!NeverOlder /\ Reads!ActsOnSeen /\ Reads!DraftKept]_state
    BY <1>4, ReadsSteps
<1>6. ~On("reads") =>
      [part = "reads" => Reads!NeverOlder /\ Reads!ActsOnSeen /\ Reads!DraftKept]_state
    BY DEF On
<1> QED
    BY ReadsBegins, ReadsSteps, <1>1, <1>2, <1>3, <1>5, <1>6, PTL DEF ThreadSpec, ReadsP!Spec

-----------------------------------------------------------------------------
(* Two conversations in one page *)

LEMMA PagesBegins == On("pages") /\ ThreadInit => PagesP!Init
BY DEF On, ThreadInit,
    PagesP!Init, PagesP!Idle, PagesP!NoKeys, Pages!Init, Pages!Idle, Pages!NoKeys

LEMMA PagesCounts ==
    /\ \A s : PagesP!Cardinality(s) = Pages!Cardinality(s)
    /\ \A f : PagesP!SumFunction(f) = Pages!SumFunction(f)
    /\ \A s : PagesP!BranchOf(s) = Pages!BranchOf(s)
<1>1. \A s : PagesP!Cardinality(s) = Pages!Cardinality(s)
    BY DEF PagesP!Cardinality, Pages!Cardinality
<1>2. \A f : PagesP!SumFunction(f) = Pages!SumFunction(f)
    BY DEF
        PagesP!SumFunction, PagesP!SumFunctionOnSet, PagesP!FoldFunctionOnSet,
        PagesP!MapThenFoldSet,
        Pages!SumFunction, Pages!SumFunctionOnSet, Pages!FoldFunctionOnSet, Pages!MapThenFoldSet
<1>3. \A s : PagesP!BranchOf(s) = Pages!BranchOf(s)
    BY <1>1 DEF PagesP!BranchOf, Pages!BranchOf
<1> QED
    BY <1>1, <1>2, <1>3

LEMMA PagesIssues ==
    ASSUME NEW m, NEW kind, NEW q, NEW i, NEW n
    PROVE  PagesP!Issue(m, kind, q, i, n) <=> Pages!Issue(m, kind, q, i, n)
<1>1. PagesP!Room <=> Pages!Room
    BY PagesCounts DEF
        PagesP!Room, PagesP!Attempts, PagesP!Live, PagesP!Asking, PagesP!Kept, Pages!Room,
        Pages!Attempts, Pages!Live, Pages!Asking, Pages!Kept
<1> QED
    BY <1>1, PagesCounts DEF
        PagesP!Issue, PagesP!Asking, PagesP!Kept, PagesP!SlotFor, PagesP!server,
        PagesP!Settings, PagesP!Pending, Pages!Issue, Pages!Asking, Pages!Kept,
        Pages!SlotFor, Pages!server, Pages!Settings, Pages!Pending

LEMMA PagesNext == PagesP!Next <=> Pages!Next
<1>1. ASSUME NEW m, NEW q, NEW i
      PROVE  PagesP!Send(m, q, i) <=> Pages!Send(m, q, i)
    BY PagesIssues, PagesCounts DEF
        PagesP!Send, PagesP!Unlocked, PagesP!Fresh, PagesP!Unresolved, PagesP!TakeKey,
        PagesP!SlotFor, PagesP!Stray, PagesP!server, PagesP!Refreshing, PagesP!Processing,
        PagesP!Live, PagesP!HasResponse, PagesP!IsFailed, PagesP!Waiting,
        PagesP!InProgress, PagesP!Original, PagesP!Latest, PagesP!Last, Pages!Send,
        Pages!Unlocked, Pages!Fresh, Pages!Unresolved, Pages!TakeKey, Pages!SlotFor,
        Pages!Stray, Pages!server, Pages!Refreshing, Pages!Processing, Pages!Live,
        Pages!HasResponse, Pages!IsFailed, Pages!Waiting, Pages!InProgress, Pages!Original,
        Pages!Latest, Pages!Last
<1>2. ASSUME NEW m, NEW q, NEW i, NEW n
      PROVE  PagesP!Edit(m, q, i, n) <=> Pages!Edit(m, q, i, n)
    BY PagesIssues, PagesCounts DEF
        PagesP!Edit, PagesP!Unlocked, PagesP!Fresh, PagesP!IsFailed, PagesP!HasResponse,
        PagesP!TakeKey, PagesP!SlotFor, PagesP!Stray, PagesP!server, PagesP!Refreshing,
        PagesP!Processing, PagesP!Live, PagesP!Original, PagesP!Latest, PagesP!Waiting,
        PagesP!InProgress, PagesP!Last, Pages!Edit, Pages!Unlocked, Pages!Fresh,
        Pages!IsFailed, Pages!HasResponse, Pages!TakeKey, Pages!SlotFor, Pages!Stray,
        Pages!server, Pages!Refreshing, Pages!Processing, Pages!Live, Pages!Original,
        Pages!Latest, Pages!Waiting, Pages!InProgress, Pages!Last
<1>3. ASSUME NEW m
      PROVE  PagesP!TryAgain(m) <=> Pages!TryAgain(m)
    BY PagesIssues, PagesCounts DEF
        PagesP!TryAgain, PagesP!Unlocked, PagesP!Kept, PagesP!Unresolved, PagesP!TakeKey,
        PagesP!SlotFor, PagesP!Stray, PagesP!server, PagesP!Refreshing, PagesP!Processing,
        PagesP!HasResponse, PagesP!IsFailed, PagesP!Live, PagesP!Waiting,
        PagesP!InProgress, PagesP!Original, PagesP!Latest, PagesP!Last, Pages!TryAgain,
        Pages!Unlocked, Pages!Kept, Pages!Unresolved, Pages!TakeKey, Pages!SlotFor,
        Pages!Stray, Pages!server, Pages!Refreshing, Pages!Processing, Pages!HasResponse,
        Pages!IsFailed, Pages!Live, Pages!Waiting, Pages!InProgress, Pages!Original,
        Pages!Latest, Pages!Last
<1>4. ASSUME NEW m, NEW kind, NEW n
      PROVE  PagesP!OnRequest(m, kind, n) <=> Pages!OnRequest(m, kind, n)
    BY PagesIssues, PagesCounts DEF
        PagesP!OnRequest, PagesP!Unlocked, PagesP!IsFailed, PagesP!HasResponse,
        PagesP!Latest, PagesP!server, PagesP!Refreshing, PagesP!Processing,
        PagesP!Original, PagesP!Last, PagesP!Waiting, PagesP!InProgress, PagesP!Live,
        Pages!OnRequest, Pages!Unlocked, Pages!IsFailed, Pages!HasResponse, Pages!Latest,
        Pages!server, Pages!Refreshing, Pages!Processing, Pages!Original, Pages!Last,
        Pages!Waiting, Pages!InProgress, Pages!Live
<1>5. ASSUME NEW m, NEW kind
      PROVE  PagesP!OnConversation(m, kind) <=> Pages!OnConversation(m, kind)
    BY PagesIssues, PagesCounts DEF
        PagesP!OnConversation, PagesP!Unlocked, PagesP!server, PagesP!Refreshing,
        PagesP!Processing, PagesP!Waiting, PagesP!InProgress, PagesP!Live, PagesP!Latest,
        PagesP!Last, Pages!OnConversation, Pages!Unlocked, Pages!server, Pages!Refreshing,
        Pages!Processing, Pages!Waiting, Pages!InProgress, Pages!Live, Pages!Latest,
        Pages!Last
<1>6. ASSUME NEW m, NEW f
      PROVE  PagesP!Refresh(m, f) <=> Pages!Refresh(m, f)
    BY PagesIssues, PagesCounts DEF
        PagesP!Refresh, PagesP!Refreshing, PagesP!server, PagesP!StartFetch,
        PagesP!Waiting, PagesP!Live, Pages!Refresh, Pages!Refreshing, Pages!server,
        Pages!StartFetch, Pages!Waiting, Pages!Live
<1>7. PagesP!Student <=> Pages!Student
    BY <1>1, <1>2, <1>3, <1>4, <1>5, <1>6 DEF PagesP!Student, Pages!Student
<1>8. PagesP!Moves <=> Pages!Moves
    BY DEF
        PagesP!Moves, PagesP!Open, PagesP!Switch, PagesP!Leave, PagesP!Show, PagesP!server,
        PagesP!Forget, PagesP!GoAway, PagesP!Idle, PagesP!StartFetch, PagesP!NoKeys,
        Pages!Moves, Pages!Open, Pages!Switch, Pages!Leave, Pages!Show, Pages!server,
        Pages!Forget, Pages!GoAway, Pages!Idle, Pages!StartFetch, Pages!NoKeys
<1>9. PagesP!Progress <=> Pages!Progress
    BY DEF
        PagesP!Progress, PagesP!Arrive, PagesP!End, PagesP!Unheard, PagesP!HearDeleted,
        PagesP!Reply, PagesP!Read, PagesP!Deliver, PagesP!Poll, PagesP!Refuse, PagesP!Kept,
        PagesP!Store, PagesP!Latest, PagesP!Begin, PagesP!Answer, PagesP!server,
        PagesP!shown, PagesP!GoAway, PagesP!Forget, PagesP!Hear, PagesP!Usable,
        PagesP!Finish, PagesP!Processing, PagesP!StartFetch, PagesP!Original, PagesP!Last,
        PagesP!Idle, PagesP!NoKeys, PagesP!Keys, PagesP!Asking, PagesP!Waiting,
        PagesP!After, PagesP!Settle, PagesP!InProgress, PagesP!About, PagesP!Live,
        PagesP!Failed, PagesP!IsFailed, PagesP!First, PagesP!HasResponse, Pages!Progress,
        Pages!Arrive, Pages!End, Pages!Unheard, Pages!HearDeleted, Pages!Reply, Pages!Read,
        Pages!Deliver, Pages!Poll, Pages!Refuse, Pages!Kept, Pages!Store, Pages!Latest,
        Pages!Begin, Pages!Answer, Pages!server, Pages!shown, Pages!GoAway, Pages!Forget,
        Pages!Hear, Pages!Usable, Pages!Finish, Pages!Processing, Pages!StartFetch,
        Pages!Original, Pages!Last, Pages!Idle, Pages!NoKeys, Pages!Keys, Pages!Asking,
        Pages!Waiting, Pages!After, Pages!Settle, Pages!InProgress, Pages!About,
        Pages!Live, Pages!Failed, Pages!IsFailed, Pages!First, Pages!HasResponse
<1>10. PagesP!Faults <=> Pages!Faults
    BY DEF
        PagesP!Faults, PagesP!Lose, PagesP!LoseRequest, PagesP!LoseRead, PagesP!Hear,
        PagesP!server, PagesP!Usable, PagesP!shown, PagesP!Finish, PagesP!Forget,
        PagesP!Keys, PagesP!Asking, PagesP!StartFetch, PagesP!Idle, PagesP!Waiting,
        PagesP!After, PagesP!Settle, PagesP!Kept, PagesP!About, PagesP!Live, PagesP!Failed,
        PagesP!IsFailed, PagesP!Processing, PagesP!First, PagesP!Original,
        PagesP!HasResponse, PagesP!Latest, PagesP!InProgress, PagesP!Last, Pages!Faults,
        Pages!Lose, Pages!LoseRequest, Pages!LoseRead, Pages!Hear, Pages!server,
        Pages!Usable, Pages!shown, Pages!Finish, Pages!Forget, Pages!Keys, Pages!Asking,
        Pages!StartFetch, Pages!Idle, Pages!Waiting, Pages!After, Pages!Settle, Pages!Kept,
        Pages!About, Pages!Live, Pages!Failed, Pages!IsFailed, Pages!Processing,
        Pages!First, Pages!Original, Pages!HasResponse, Pages!Latest, Pages!InProgress,
        Pages!Last
<1> QED
    BY <1>7, <1>8, <1>9, <1>10 DEF PagesP!Next, Pages!Next

LEMMA PagesSteps ==
    /\ On("pages") /\ [ThreadNext]_<<part, state>> => On("pages")' /\ [PagesP!Next]_(PagesP!vars)
    /\ UNCHANGED PagesP!vars => UNCHANGED state
    /\ ~On("pages") /\ [ThreadNext]_<<part, state>> => ~On("pages")'
<1>1. UNCHANGED PagesP!vars <=> UNCHANGED state
    BY DEF
        state, from4, from6, from7, from9, from11, from12, from13, PagesP!vars, PagesP!server,
        PagesP!shown
<1>2. CASE UNCHANGED <<part, state>>
    BY <1>1, <1>2 DEF On
<1>3. CASE ThreadNext
    BY <1>1, <1>3, PagesNext DEF On, ThreadNext
<1> QED
    BY <1>1, <1>2, <1>3

LEMMA PagesFits == PagesP!NoneIsNothing
BY ThreadFits DEF
    PagesP!NoneIsNothing, PagesP!Claim, PagesP!Slot, PagesP!CallRow, PagesP!FetchRow,
    PagesP!Kept, PagesP!Kind, PagesP!Index, PagesP!server, PagesP!Requests, PagesP!Asking,
    PagesP!Settings, PagesP!Request, PagesP!Status, Pages!NoneIsNothing, Pages!Claim,
    Pages!Slot, Pages!CallRow, Pages!FetchRow, Pages!Kept, Pages!Kind, Pages!Index,
    Pages!server, Pages!Requests, Pages!Asking, Pages!Settings, Pages!Request, Pages!Status

LEMMA PagesTypes == PagesP!TypeOK => Pages!TypeOK
<1>1. PagesP!Requests = Pages!Requests
    BY DEF
        PagesP!Requests, PagesP!Request, PagesP!Status, Pages!Requests, Pages!Request,
        Pages!Status
<1>2. PagesP!Claim = Pages!Claim
    BY DEF
        PagesP!Claim, Pages!Claim
<1>3. PagesP!Slot = Pages!Slot
    BY DEF
        PagesP!Slot, PagesP!Kept, Pages!Slot, Pages!Kept
<1>4. PagesP!ErrorRow = Pages!ErrorRow
    BY DEF
        PagesP!ErrorRow, PagesP!Asking, PagesP!Index, PagesP!Slot, PagesP!Kept,
        Pages!ErrorRow, Pages!Asking, Pages!Index, Pages!Slot, Pages!Kept
<1>5. PagesP!CallRow = Pages!CallRow
    BY DEF
        PagesP!CallRow, PagesP!Kind, PagesP!Slot, PagesP!Index, PagesP!server,
        PagesP!Requests, PagesP!Asking, PagesP!Settings, PagesP!Kept, PagesP!Request,
        PagesP!Status, Pages!CallRow, Pages!Kind, Pages!Slot, Pages!Index, Pages!server,
        Pages!Requests, Pages!Asking, Pages!Settings, Pages!Kept, Pages!Request,
        Pages!Status
<1>6. PagesP!FetchRow = Pages!FetchRow
    BY DEF
        PagesP!FetchRow, PagesP!Requests, PagesP!Request, PagesP!Status, Pages!FetchRow,
        Pages!Requests, Pages!Request, Pages!Status
<1> QED
    BY <1>1, <1>2, <1>3, <1>4, <1>5, <1>6 DEF
        PagesP!TypeOK, PagesP!Idle, PagesP!Pending, PagesP!Kind, PagesP!Index,
        PagesP!Asking, PagesP!Settings, PagesP!Kept, Pages!TypeOK, Pages!Idle,
        Pages!Pending, Pages!Kind, Pages!Index, Pages!Asking, Pages!Settings, Pages!Kept

LEMMA PagesHolds ==
    ThreadSpec => [](part = "pages" =>
        Pages!TypeOK /\ Pages!AskedOnce /\ Pages!ShowsOpen /\ Pages!OneAtATime)
<1>1. PagesP!Spec => []PagesP!TypeOK
    BY PagesFits, PagesP!PageTyped
<1>2. PagesP!Spec => []PagesP!AskedOnce
    BY PagesFits, PagesP!StoredOnce
<1>3. PagesP!Spec => []PagesP!ShowsOpen
    BY PagesFits, PagesP!PageShowsOpen
<1>4. PagesP!Spec => []PagesP!OneAtATime
    BY PagesFits, PagesP!WaitsForOne
<1>5. PagesP!AskedOnce => Pages!AskedOnce
    BY DEF PagesP!AskedOnce, Pages!AskedOnce
<1>6. PagesP!ShowsOpen => Pages!ShowsOpen
    BY DEF
        PagesP!ShowsOpen, PagesP!NotOlder, PagesP!Age, PagesP!Latest, PagesP!Last,
        Pages!ShowsOpen, Pages!NotOlder, Pages!Age, Pages!Latest, Pages!Last
<1>7. PagesP!OneAtATime => Pages!OneAtATime
    BY PagesCounts DEF PagesP!OneAtATime, PagesP!Live, Pages!OneAtATime, Pages!Live
<1>8. (On("pages") => PagesP!TypeOK /\ PagesP!AskedOnce /\ PagesP!ShowsOpen /\ PagesP!OneAtATime) =>
      (part = "pages" => Pages!TypeOK /\ Pages!AskedOnce /\ Pages!ShowsOpen /\ Pages!OneAtATime)
    BY PagesTypes, <1>5, <1>6, <1>7 DEF On
<1> QED
    BY PagesBegins, PagesSteps, <1>1, <1>2, <1>3, <1>4, <1>8, PTL DEF ThreadSpec, PagesP!Spec

LEMMA PagesGoes ==
    ThreadSpec => [][part = "pages" =>
        Pages!NeverOlder /\ Pages!ActsOnSeen /\ Pages!DraftKept]_state
<1>1. PagesP!Spec => [][PagesP!NeverOlder]_(PagesP!vars)
    BY PagesFits, PagesP!PageNeverOlder
<1>2. PagesP!Spec => [][PagesP!ActsOnSeen]_(PagesP!vars)
    BY PagesFits, PagesP!PageActsOnSeen
<1>3. PagesP!Spec => [][PagesP!DraftKept]_(PagesP!vars)
    BY PagesFits, PagesP!PageKeepsDraft
<1>4. PagesP!NeverOlder /\ PagesP!ActsOnSeen /\ PagesP!DraftKept =>
      Pages!NeverOlder /\ Pages!ActsOnSeen /\ Pages!DraftKept
    BY DEF
        PagesP!NeverOlder, PagesP!ActsOnSeen, PagesP!DraftKept, PagesP!NotOlder,
        PagesP!Age, PagesP!Latest, PagesP!Last, Pages!NeverOlder, Pages!ActsOnSeen,
        Pages!DraftKept, Pages!NotOlder, Pages!Age, Pages!Latest, Pages!Last
<1>5. /\ On("pages") /\ [ThreadNext]_<<part, state>>
      /\ [PagesP!NeverOlder]_(PagesP!vars) /\ [PagesP!ActsOnSeen]_(PagesP!vars) /\ [PagesP!DraftKept]_(PagesP!vars)
      => [part = "pages" => Pages!NeverOlder /\ Pages!ActsOnSeen /\ Pages!DraftKept]_state
    BY <1>4, PagesSteps
<1>6. ~On("pages") =>
      [part = "pages" => Pages!NeverOlder /\ Pages!ActsOnSeen /\ Pages!DraftKept]_state
    BY DEF On
<1> QED
    BY PagesBegins, PagesSteps, <1>1, <1>2, <1>3, <1>5, <1>6, PTL DEF ThreadSpec, PagesP!Spec

-----------------------------------------------------------------------------
(* What the run of MCThread checks, for any values of its constants. *)

LEMMA HistoryTyped == ThreadSpec => [](part = "history" => His!TypeOK)
<1>1. PageP!His!PrimaryBranch /\ PageP!His!NullIsNoRow /\ PageP!His!HistoryBound
    BY ThreadFits DEF
        PageP!His!PrimaryBranch, PageP!His!NullIsNoRow, PageP!His!HistoryBound,
        PageP!His!BranchRow, PageP!His!RequestRow,
        PageP!His!AnswerRow, His!PrimaryBranch, His!NullIsNoRow, His!HistoryBound, His!BranchRow,
        His!RequestRow, His!AnswerRow
<1>2. PageP!His!Spec => [](PageP!His!TypeOK /\ PageP!Faithful)
    BY <1>1, PageP!ThreadsFaithful
<1>3. (On("history") => PageP!His!TypeOK /\ PageP!Faithful) => (part = "history" => His!TypeOK)
    BY DEF On,
        PageP!His!TypeOK, PageP!His!BranchRow, PageP!His!Branches, PageP!His!RequestRow,
        PageP!His!AnswerRow, PageP!His!Idle, PageP!His!Requests,
        PageP!His!Answers, PageP!His!Messages, His!TypeOK, His!BranchRow, His!Branches,
        His!RequestRow,
        His!AnswerRow, His!Idle, His!Requests, His!Answers, His!Messages
<1> QED
    BY HistoryBegins, HistorySteps, <1>2, <1>3, PTL DEF ThreadSpec, PageP!His!Spec

\* Every variable of a conversation, stored or shown, keeps its type.
THEOREM ThreadTyped == ThreadSpec => []ThreadTypeOK
<1>1. /\ part = "history" => His!TypeOK
      /\ part = "page" => Page!TypeOK /\ Page!AskedOnce /\ Page!ShowsOpen /\ Page!OneAtATime
      /\ part = "reads" => Reads!TypeOK /\ Reads!AskedOnce /\ Reads!ShowsOpen /\ Reads!OneAtATime
      /\ part = "pages" => Pages!TypeOK /\ Pages!AskedOnce /\ Pages!ShowsOpen /\ Pages!OneAtATime
      => ThreadTypeOK
    BY DEF ThreadTypeOK
<1> QED
    BY HistoryTyped, PageHolds, ReadsHolds, PagesHolds, <1>1, PTL

\* A question sent once is stored once, however often the page tries again with a key it
\* still has; the requests on the screen are those of the open conversation, as they were at
\* some time; and the page waits for the answer to one mutation at a time: with any number of
\* conversations, questions, calls and reads (AiConversationPage.tsx, handleSubmit,
\* handleRetry and refreshSnapshot).
THEOREM PageAlwaysFaithful == ThreadSpec => []PageFaithful
<1>1. /\ part = "page" => Page!TypeOK /\ Page!AskedOnce /\ Page!ShowsOpen /\ Page!OneAtATime
      /\ part = "reads" => Reads!TypeOK /\ Reads!AskedOnce /\ Reads!ShowsOpen /\ Reads!OneAtATime
      /\ part = "pages" => Pages!TypeOK /\ Pages!AskedOnce /\ Pages!ShowsOpen /\ Pages!OneAtATime
      => PageFaithful
    BY DEF PageFaithful
<1> QED
    BY PageHolds, ReadsHolds, PagesHolds, <1>1, PTL

\* No refresh replaces what was read later, an operation starts from a snapshot that shows
\* what the last one did, and what the student typed leaves the input box only for a request
\* the conversation has (AiConversationPage.tsx, refreshSnapshot, controlsLocked and
\* setDraft).
THEOREM PageAlwaysForward == ThreadSpec => PageForward
<1>1. /\ [part = "page" => Page!NeverOlder /\ Page!ActsOnSeen /\ Page!DraftKept]_state
      /\ [part = "reads" => Reads!NeverOlder /\ Reads!ActsOnSeen /\ Reads!DraftKept]_state
      /\ [part = "pages" => Pages!NeverOlder /\ Pages!ActsOnSeen /\ Pages!DraftKept]_state
      => [/\ part = "page" => Page!NeverOlder /\ Page!ActsOnSeen /\ Page!DraftKept
          /\ part = "reads" => Reads!NeverOlder /\ Reads!ActsOnSeen /\ Reads!DraftKept
          /\ part = "pages" => Pages!NeverOlder /\ Pages!ActsOnSeen /\ Pages!DraftKept]_state
    OBVIOUS
<1> QED
    BY PageGoes, ReadsGoes, PagesGoes, <1>1, PTL DEF PageForward
=============================================================================
