--------------------------- MODULE BranchHistory ----------------------------
(***************************************************************************)
(* The branches of one conversation: what a student sees on each, and the  *)
(* history a generation attempt gives the provider (conversation.service   *)
(* and conversation.repository).                                           *)
(*                                                                         *)
(* An edit opens a branch at the message it replaces; a branch shows its   *)
(* own messages and those of its ancestors up to each one's cutoff.  A     *)
(* handler prepares its attempt in a transaction that holds the            *)
(* conversation, reads the history later, and completes later still.       *)
(* Idempotency, deletion and crashes are the subject of Conversation, and  *)
(* what its own context adds to a prompt is left out.                      *)
(***************************************************************************)
EXTENDS Naturals, FiniteSets

CONSTANTS
    Branch, RequestId, AnswerId,    \* row identities: branches, user and assistant messages
    Primary,                        \* the branch a conversation starts with
    Handler,                        \* HTTP requests under way
    HistoryLimit,                   \* HISTORY_LIMIT
    None                            \* null

PrimaryBranch ==
    /\ Primary \in Branch /\ None \notin Branch \cup RequestId \cup AnswerId
    /\ RequestId \cap AnswerId = {}
Shallow == IsFiniteSet(Branch) /\ Cardinality(Branch) <= 101   \* getActiveBranchChain stops at depth 100
HistoryBound == HistoryLimit \in Nat \ {0}

VARIABLES
    branch,     \* ai_conversation_branches: [parent, point]
    active,     \* ai_conversations.active_branch_id
    req,        \* ai_messages, role user, and what became of their attempts
    ans,        \* ai_messages, role assistant
    task        \* the attempts being worked on: [request, type, chosen, context]

vars == <<branch, active, req, ans, task>>

BranchRow == [parent : Branch \cup {None}, point : RequestId \cup {None}]
RequestRow == [branch : Branch, seq : Nat, status : {"PROCESSING", "COMPLETED", "FAILED"},
               busy : BOOLEAN,       \* it has an attempt that is PROCESSING
               failed : BOOLEAN,     \* it has an attempt that is FAILED
               answered : BOOLEAN]   \* it has an attempt that is COMPLETED
AnswerRow == [request : RequestId, variant : Nat, branch : Branch, seq : Nat]
NullIsNoRow == None \notin BranchRow \cup RequestRow \cup AnswerRow
Idle == [request |-> None, type |-> None, chosen |-> None, context |-> None]

Branches == {b \in Branch : branch[b] # None}
Requests == {r \in RequestId : req[r] # None}
Answers  == {a \in AnswerId : ans[a] # None}
Messages == Requests \cup Answers

TypeOK ==
    /\ branch \in [Branch -> BranchRow \cup {None}] /\ active \in Branches
    /\ req \in [RequestId -> RequestRow \cup {None}] /\ ans \in [AnswerId -> AnswerRow \cup {None}]
    /\ \A h \in Handler : task[h] = Idle \/
         /\ task[h].request \in Requests /\ task[h].type \in {"ORIGINAL", "RETRY", "REGENERATION"}
         /\ task[h].chosen \in Answers \cup {None}
         /\ task[h].context = None \/ task[h].context \subseteq Messages

Init ==
    /\ branch = [b \in Branch |-> IF b = Primary THEN [parent |-> None, point |-> None] ELSE None]
    /\ active = Primary
    /\ req = [r \in RequestId |-> None] /\ ans = [a \in AnswerId |-> None]
    /\ task = [h \in Handler |-> Idle]

-----------------------------------------------------------------------------
(* What a branch shows *)

BranchOf(m) == IF m \in RequestId THEN req[m].branch ELSE ans[m].branch
SeqOf(m)    == IF m \in RequestId THEN req[m].seq ELSE ans[m].seq

\* getActiveBranchChain: the branch and its ancestors.
Upward(S) == \A c \in S : branch[c].parent # None => branch[c].parent \in S
Chain(b)  == {c \in Branches : \A S \in SUBSET Branches : b \in S /\ Upward(S) => c \in S}

ChildIn(chain, b) == {c \in chain : branch[c].parent = b}

VisibleThrough(b) ==    \* mutant: the message a branch replaces is shown too
    {m \in Messages :
       \/ BranchOf(m) = b
       \/ \E c \in ChildIn(Chain(b), BranchOf(m)) : SeqOf(m) <= req[branch[c].point].seq}

\* getConversation: of an ancestor, what is before the point where its child leaves it.
Visible(b) ==
    {m \in Messages :
       \/ BranchOf(m) = b
       \/ \E c \in ChildIn(Chain(b), BranchOf(m)) : SeqOf(m) < req[branch[c].point].seq}

\* sortMessages: by sequence number, questions first, then by variant.
Before(m, n) ==
    \/ SeqOf(m) < SeqOf(n)
    \/ SeqOf(m) = SeqOf(n) /\ m \in RequestId /\ n \in AnswerId
    \/ SeqOf(m) = SeqOf(n) /\ m \in AnswerId /\ n \in AnswerId /\ ans[m].variant < ans[n].variant

LatestOf(S) == {m \in S : ~\E n \in S : Before(m, n)}

PreviewUncut ==         \* mutant: ancestors without their cutoffs
    LatestOf({m \in Messages : BranchOf(m) \in Chain(active)})

\* listConversations: latest_message_preview, by a query of its own.
Preview ==
    LatestOf({m \in Messages :
                /\ BranchOf(m) \in Chain(active)
                /\ BranchOf(m) = active \/
                     \A c \in ChildIn(Chain(active), BranchOf(m)) :
                       SeqOf(m) < req[branch[c].point].seq})

-----------------------------------------------------------------------------
(* generationHistory *)

\* latestByRequest: the chosen answer for its request; for the others the first one in
\* order, since an entry is never replaced.
AnswerFor(r, shown, chosen) ==
    IF chosen \in shown /\ ans[chosen].request = r THEN {chosen}
    ELSE {a \in shown \cap AnswerId :
            ans[a].request = r /\ \A x \in shown \cap AnswerId :
              ans[x].request = r => ans[a].variant <= ans[x].variant}

KeptUnlessFailed(m, r, shown, chosen) ==    \* mutant: a failed question is never sent
    /\ m = chosen \/ (m # r /\ SeqOf(m) < req[r].seq)
    /\ IF m \in RequestId THEN req[m].status = "COMPLETED"
                        ELSE m \in AnswerFor(ans[m].request, shown, chosen)

Kept(m, r, shown, chosen) ==
    /\ m = chosen \/ (m # r /\ SeqOf(m) < req[r].seq)
    /\ IF m \in RequestId
       THEN req[m].status = "COMPLETED" \/ (req[m].status = "FAILED" /\ req[m].answered)
       ELSE m \in AnswerFor(ans[m].request, shown, chosen)

\* slice(-HISTORY_LIMIT)
Last(S) == {m \in S : Cardinality({n \in S : Before(m, n)}) < HistoryLimit}

History(r, chosen) ==
    LET shown == Visible(req[r].branch) IN Last({m \in shown : Kept(m, r, shown, chosen)})

-----------------------------------------------------------------------------
(* Preparing an attempt *)

Generating == \E r \in Requests : req[r].busy

NewRequest(r, b, seq) ==
    /\ req[r] = None
    /\ req' = [req EXCEPT ![r] = [branch |-> b, seq |-> seq, status |-> "PROCESSING",
                                  busy |-> TRUE, failed |-> FALSE, answered |-> FALSE]]

Take(h, r, type, chosen) ==
    /\ task[h] = Idle
    /\ task' = [task EXCEPT ![h] = [request |-> r, type |-> type, chosen |-> chosen,
                                    context |-> None]]

SeqLast(b) ==           \* mutant: the number of the last message
    CHOOSE n \in {SeqOf(m) : m \in {x \in Messages : BranchOf(x) = b}} \cup {1} :
      \A m \in Messages : BranchOf(m) = b => SeqOf(m) <= n

\* getNextSequence: of the messages of this branch alone.
NextSeq(b) ==
    1 + CHOOSE n \in {SeqOf(m) : m \in {x \in Messages : BranchOf(x) = b}} \cup {0} :
          \A m \in Messages : BranchOf(m) = b => SeqOf(m) <= n

\* sendMessage: the branch sent to becomes the active one.
Send(h, r, b) ==
    /\ ~Generating /\ b \in Branches
    /\ NewRequest(r, b, NextSeq(b)) /\ Take(h, r, "ORIGINAL", None)
    /\ active' = b /\ UNCHANGED <<branch, ans>>

\* editMessage: a message of any branch; the new branch leaves the one it is in.
Edit(h, old, r, b) ==
    /\ ~Generating /\ old \in Requests /\ branch[b] = None
    /\ branch' = [branch EXCEPT ![b] = [parent |-> req[old].branch, point |-> old]]
    /\ NewRequest(r, b, req[old].seq) /\ Take(h, r, "ORIGINAL", None)
    /\ active' = b /\ UNCHANGED ans

Retry(h, r) ==
    /\ r \in Requests /\ req[r].failed /\ ~req[r].busy
    /\ req' = [req EXCEPT ![r].busy = TRUE] /\ Take(h, r, "RETRY", None)
    /\ UNCHANGED <<branch, active, ans>>

\* regenerate: by a response (chosen), or by a failed attempt, which has none.
Regenerate(h, r, chosen) ==
    /\ r \in Requests /\ ~req[r].busy
    /\ IF chosen = None THEN req[r].failed ELSE ans[chosen].request = r
    /\ req' = [req EXCEPT ![r].busy = TRUE] /\ Take(h, r, "REGENERATION", chosen)
    /\ UNCHANGED <<branch, active, ans>>

ActivateAny(b) ==       \* mutant: the branch is not looked up
    active' = b /\ UNCHANGED <<branch, req, ans, task>>

\* activateBranch, beside whatever is being generated.
Activate(b) ==
    b \in Branches /\ active' = b /\ UNCHANGED <<branch, req, ans, task>>

-----------------------------------------------------------------------------
(* Working on it *)

\* runGeneration reads the history after the transaction, and others may have moved on.
ReadHistory(h) ==
    /\ task[h] # Idle /\ task[h].context = None
    /\ task' = [task EXCEPT ![h].context = History(task[h].request, task[h].chosen)]
    /\ UNCHANGED <<branch, active, req, ans>>

AnswerOnActive(h, a) ==         \* mutant: the answer goes to the active branch
    LET r == task[h].request IN
    /\ task[h] # Idle /\ task[h].context # None /\ ans[a] = None
    /\ ans' = [ans EXCEPT ![a] =
         [request |-> r, variant |-> 1 + Cardinality({x \in Answers : ans[x].request = r}),
          branch |-> active, seq |-> req[r].seq]]
    /\ req' = [req EXCEPT ![r].busy = FALSE, ![r].answered = TRUE,
                          ![r].status = IF task[h].type = "ORIGINAL" THEN "COMPLETED" ELSE @]
    /\ task' = [task EXCEPT ![h] = Idle] /\ UNCHANGED <<branch, active>>

\* The completing transaction: the answer has the place of its question.
Complete(h, a) ==
    LET r == task[h].request IN
    /\ task[h] # Idle /\ task[h].context # None /\ ans[a] = None
    /\ ans' = [ans EXCEPT ![a] =
         [request |-> r, variant |-> 1 + Cardinality({x \in Answers : ans[x].request = r}),
          branch |-> req[r].branch, seq |-> req[r].seq]]
    /\ req' = [req EXCEPT ![r].busy = FALSE, ![r].answered = TRUE,
                          ![r].status = IF task[h].type = "ORIGINAL" THEN "COMPLETED" ELSE @]
    /\ task' = [task EXCEPT ![h] = Idle] /\ UNCHANGED <<branch, active>>

FailAttempt(h) ==
    LET r == task[h].request IN
    /\ task[h] # Idle
    /\ req' = [req EXCEPT ![r].busy = FALSE, ![r].failed = TRUE,
                          ![r].status = IF task[h].type = "ORIGINAL" THEN "FAILED" ELSE @]
    /\ task' = [task EXCEPT ![h] = Idle] /\ UNCHANGED <<branch, active, ans>>

Next ==
    \/ \E b \in Branch : Activate(b)
    \/ \E h \in Handler :
         \/ \E r \in RequestId, b \in Branch : Send(h, r, b)
         \/ \E old, r \in RequestId : \E b \in Branch : Edit(h, old, r, b)
         \/ \E r \in RequestId : Retry(h, r)
         \/ \E r \in RequestId, a \in Answers \cup {None} : Regenerate(h, r, a)
         \/ \E a \in AnswerId : Complete(h, a)
         \/ ReadHistory(h) \/ FailAttempt(h)

Spec == Init /\ [][Next]_vars

-----------------------------------------------------------------------------
(* What the branches are for *)

\* A branch continues its parent's thread up to the message it replaces.
Continued(b) ==
    {m \in Messages :
       /\ branch[b].parent # None /\ m \in Visible(branch[b].parent)
       /\ SeqOf(m) < req[branch[b].point].seq}

\* Every branch shows the thread it continues and its own messages, however deep it is and
\* whatever is added to its ancestors after it left them; one cutoff for each ancestor is
\* enough.  As its parent was there before it, this says what every branch shows.
VisibleIsThread ==
    \A b \in Branches : Visible(b) = {m \in Messages : BranchOf(m) = b} \cup Continued(b)

\* A branch never shows what its edit replaced: the message, its answers, later ones that
\* a retry or regeneration on the parent adds included.
ReplacedIsHidden ==
    \A b \in Branches \ {Primary} :
      \A m \in Visible(b) :
        m # branch[b].point /\ (m \in AnswerId => ans[m].request # branch[b].point)

\* No two questions of a thread have the same number, by which everything is ordered.
QuestionsNumbered ==
    \A b \in Branches : \A r, q \in Visible(b) \cap RequestId :
      req[r].seq = req[q].seq => r = q

\* The list of conversations previews the message the active branch ends with: two queries
\* walk the branches, each its own way.
PreviewIsLast == Preview = LatestOf(Visible(active))

\* The provider is given at most one answer to a question, and the question with it unless
\* the history was cut there or the question is the one being answered again.
ContextPaired ==
    \A h \in Handler : task[h].context # None =>
      LET c == task[h].context IN
      /\ \A a, x \in c \cap AnswerId : ans[a].request = ans[x].request => a = x
      /\ \A a \in c \cap AnswerId :
           \/ ans[a].request \in c \/ a = task[h].chosen
           \/ Cardinality(c) = HistoryLimit /\ \A m \in c \ {a} : Before(a, m)

\* The answers in a history are the latest ones ("latestByRequest", which compares
\* variant numbers), but for the one being regenerated.
ContextLatest ==
    \A h \in Handler : task[h].context = None /\ task[h] # Idle =>
      \A a \in History(task[h].request, task[h].chosen) \cap AnswerId :
        \/ a = task[h].chosen
        \/ \A x \in Answers : ans[x].request = ans[a].request => ans[x].variant <= ans[a].variant
=============================================================================
