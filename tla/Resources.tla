----------------------------- MODULE Resources ------------------------------
(***************************************************************************)
(* Learning resources (modules/content/learning-resources): titles within  *)
(* a topic, and DRAFT, PUBLISHED, ARCHIVED by unguarded writes.            *)
(*                                                                         *)
(* Every request reads its row, checks, and writes by id alone.  Nothing   *)
(* writes PENDING_APPROVAL.  Files, classes, visibility and roles are left *)
(* out.                                                                    *)
(***************************************************************************)
EXTENDS Naturals

CONSTANTS
    Resource, Topic, Title,
    Handler,    \* requests under way
    None        \* null

NoneIsNothing == None \notin {"DRAFT", "PUBLISHED", "ARCHIVED"} \cup Resource

VARIABLES
    res,        \* learning_resources
    call,       \* the requests past their checks
    stale       \* history: resources written by a request that overlapped another

vars == <<res, call, stale>>

ResourceRow == [status : {"DRAFT", "PUBLISHED", "ARCHIVED"}, topic : Topic \cup {None},
                title : Title, approved : BOOLEAN]
NoRow == [status |-> None, topic |-> None, title |-> None, approved |-> FALSE]
Idle  == [op |-> None, of |-> None, topic |-> None, title |-> None]

TypeOK ==
    /\ \A r \in Resource : res[r] = NoRow \/ res[r] \in ResourceRow
    /\ call \in [Handler -> [op : {None, "create", "update", "publish", "archive"},
                             of : Resource \cup {None}, topic : Topic \cup {None},
                             title : Title \cup {None}]]
    /\ stale \subseteq Resource

Init ==
    /\ res = [r \in Resource |-> NoRow] /\ call = [h \in Handler |-> Idle] /\ stale = {}

Busy == {h \in Handler : call[h] # Idle}

\* findResourceByTopicAndTitle.
Titled(topic, title, but) ==
    \E r \in Resource \ {but} : res[r].topic = topic /\ res[r].title = title

Enter(h, op, r, topic, title) ==
    /\ call[h] = Idle
    /\ call' = [call EXCEPT ![h] = [op |-> op, of |-> r, topic |-> topic, title |-> title]]
    /\ UNCHANGED <<res, stale>>

BeginCreate(h, r, topic, title) ==
    /\ res[r] = NoRow /\ \A g \in Handler : call[g].of # r
    /\ topic # None => ~Titled(topic, title, r)
    /\ Enter(h, "create", r, topic, title)

UpdateUnchecked(h, r, topic, title) ==  \* mutant: titles are only checked on creation
    /\ res[r].status \in {"DRAFT", "PUBLISHED"}
    /\ Enter(h, "update", r, topic, title)

\* A title is compared only when one is given: a resource moved to another topic under
\* the title it has is not.
BeginUpdate(h, r, topic, title) ==
    /\ res[r].status \in {"DRAFT", "PUBLISHED"}
    /\ LET node == IF topic = None THEN res[r].topic ELSE topic IN
         title # None /\ node # None => ~Titled(node, title, r)
    /\ Enter(h, "update", r, topic, title)

PublishAny(h, r) ==     \* mutant: the lifecycle is not checked
    res[r] # NoRow /\ Enter(h, "publish", r, None, None)

BeginPublish(h, r) ==
    res[r].status = "DRAFT" /\ Enter(h, "publish", r, None, None)

BeginArchive(h, r) ==
    res[r].status \in {"DRAFT", "PUBLISHED"} /\ Enter(h, "archive", r, None, None)

GivenBlindly(new, old) == new    \* mutant: what is not given is written as null

Given(new, old) == IF new = None THEN old ELSE new

\* setStatus: the approver and the time of publication go with the status.
StatusOnly(row, op) ==      \* mutant: setStatus forgets them
    [row EXCEPT !.status = IF op = "publish" THEN "PUBLISHED" ELSE "ARCHIVED"]

SetStatus(row, op) ==
    IF op = "publish" THEN [row EXCEPT !.status = "PUBLISHED", !.approved = TRUE]
                      ELSE [row EXCEPT !.status = "ARCHIVED"]

Written(c, row) ==
    CASE c.op = "create" -> [status |-> "DRAFT", topic |-> c.topic, title |-> c.title,
                             approved |-> FALSE]
      [] c.op = "update" -> [row EXCEPT !.topic = Given(c.topic, @), !.title = Given(c.title, @)]
      [] OTHER -> SetStatus(row, c.op)

\* createResource, updateResource and setStatus: one statement by id.
Write(h) ==
    LET c == call[h] IN
    /\ c # Idle
    /\ res' = [res EXCEPT ![c.of] = Written(c, @)]
    /\ stale' = IF Busy = {h} THEN stale ELSE stale \cup {call[g].of : g \in Busy}
    /\ call' = [call EXCEPT ![h] = Idle]

Fail(h) ==
    /\ call[h] # Idle /\ call' = [call EXCEPT ![h] = Idle] /\ UNCHANGED <<res, stale>>

Next ==
    \E h \in Handler :
      \/ Write(h) \/ Fail(h)
      \/ \E r \in Resource : BeginPublish(h, r) \/ BeginArchive(h, r)
      \/ \E r \in Resource, topic \in Topic \cup {None}, title \in Title :
           BeginCreate(h, r, topic, title)
      \/ \E r \in Resource, topic \in Topic \cup {None}, title \in Title \cup {None} :
           BeginUpdate(h, r, topic, title)

Spec == Init /\ [][Next]_vars

-----------------------------------------------------------------------------
\* Archived is the end: a resource comes back only through a request that overlapped the
\* one that archived it (publish and archive write by id alone).
ArchivedStays ==
    \A r \in Resource :
      res[r].status = "ARCHIVED" /\ res[r]' # res[r] => r \in stale \cup stale'

\* What students may see was approved, whatever was edited or archived beside it.
PublishedApproved ==
    \A r \in Resource : res[r].status = "PUBLISHED" => res[r].approved

\* No title is used twice in a topic ("A learning resource with this title already exists
\* for this topic."), unless two requests overlapped or one moved a resource under its
\* old title, which the service does not compare.
TitlesDistinct ==
    \A r, q \in Resource :
      /\ r # q /\ res[r]'.topic # None
      /\ res[r]'.topic = res[q]'.topic /\ res[r]'.title = res[q]'.title
      => \/ res[r].topic = res[q].topic /\ res[r].title = res[q].title
         \/ {r, q} \cap stale' # {}
         \/ \E h \in Handler : call[h].op = "update" /\ call[h].title = None
                               /\ call[h].of \in {r, q} /\ call[h]' = Idle
=============================================================================
