------------------------------ MODULE Chapters ------------------------------
(***************************************************************************)
(* The curriculum structures of one class, their subjects, and the         *)
(* chapters and topics in them (modules/curriculum/chapters and            *)
(* architecture), under the trigger of migration 023.                      *)
(*                                                                         *)
(* A request checks and writes later by id; no index backs the titles.     *)
(* Nodes are never deleted or moved.  Elements, knowledge items, pathways  *)
(* and mapping profiles hang off nodes and decide nothing here.            *)
(***************************************************************************)
CONSTANTS
    Structure, Subject, Node, Title,
    Handler,    \* requests under way
    None        \* null, or not given

VARIABLES
    mapped,     \* class_subjects that are ACTIVE
    subject,    \* curriculum_structures.subject_id
    node,       \* curriculum_nodes: [structure, type, parent, title]
    call,       \* the requests past their checks: [op, of, row]
    loose       \* history: nodes of overlapping requests, or made without a comparison

vars == <<mapped, subject, node, call, loose>>

Row    == [structure : Structure, type : {"CHAPTER", "TOPIC"}, parent : Node \cup {None},
           title : Title]
NoneIsNothing == None \notin Node \cup Subject \cup Row
Links  == [Structure -> Subject \cup {None}]
Nodes  == {n \in Node : node[n] # None}
Idle   == [op |-> None, of |-> None, row |-> None]
Busy   == {h \in Handler : call[h] # Idle}

TypeOK ==
    /\ mapped \subseteq Subject /\ subject \in Links
    /\ node \in [Node -> Row \cup {None}] /\ loose \subseteq Node
    /\ \A h \in Busy : /\ call[h].op \in {"create", "update"} /\ call[h].of \in Node
                       /\ call[h].row \in Row

Init ==
    /\ mapped = {} /\ subject = [s \in Structure |-> None] /\ node = [n \in Node |-> None]
    /\ call = [h \in Handler |-> Idle] /\ loose = {}

\* The class's subjects are given and taken away beside (School).
Map(m) ==
    /\ mapped' = IF m \in mapped THEN mapped \ {m} ELSE mapped \cup {m}
    /\ UNCHANGED <<subject, node, call, loose>>

LinkAny(s, m) ==        \* mutant: a subject may be taken away again
    /\ subject' = [subject EXCEPT ![s] = IF m = @ THEN None ELSE m]
    /\ UNCHANGED <<mapped, node, call, loose>>

\* setStructureSubject and createStructure, the check and the write as one step: the
\* trigger also takes a subject that was unmapped between them.
Link(s, m) ==
    /\ m \in mapped /\ subject' = [subject EXCEPT ![s] = m]
    /\ UNCHANGED <<mapped, node, call, loose>>

-----------------------------------------------------------------------------
(* What the services check *)

\* findChapterByTitle looks among the structure's top chapters, findTopicByTitle below the
\* chapter.
Titled(row, but) ==
    \E n \in Nodes \ {but} :
      /\ node[n].type = row.type /\ node[n].title = row.title
      /\ IF row.type = "CHAPTER" THEN node[n].structure = row.structure /\ node[n].parent = None
                                 ELSE node[n].parent = row.parent

Enter(h, op, n, row) ==
    /\ call[h] = Idle
    /\ call' = [call EXCEPT ![h] = [op |-> op, of |-> n, row |-> row]]
    /\ UNCHANGED <<mapped, subject, node, loose>>

Free(n) == node[n] = None /\ \A h \in Handler : call[h].of # n

Named(s, p, t) == [structure |-> s, type |-> IF p = None THEN "CHAPTER" ELSE "TOPIC",
                   parent |-> p, title |-> t]

BeginUnlinked(h, n, row) ==     \* mutant: the structure need not have a subject
    Free(n) /\ ~Titled(row, n) /\ Enter(h, "create", n, row)

\* requireSubjectLinked and the comparison of titles.
BeginCreate(h, n, row) ==
    /\ Free(n) /\ subject[row.structure] # None
    /\ ~Titled(row, n)
    /\ Enter(h, "create", n, row)

CreateChapter(h, n, s, t) == BeginCreate(h, n, Named(s, None, t))

CreateTopic(h, n, p, t) ==
    /\ p \in Nodes /\ node[p].type = "CHAPTER"
    /\ BeginCreate(h, n, Named(node[p].structure, p, t))

UpdateUnchecked(h, n, t) ==     \* mutant: titles are only compared on creation
    /\ n \in Nodes /\ node[n].type = "CHAPTER"
    /\ Enter(h, "update", n, [node[n] EXCEPT !.title = t])

\* A chapter is compared with the top ones, wherever it is itself.
UpdateChapter(h, n, t) ==
    LET row == [node[n] EXCEPT !.title = t] IN
    /\ n \in Nodes /\ node[n].type = "CHAPTER" /\ ~Titled(row, n)
    /\ Enter(h, "update", n, row)

\* A topic without a parent is not compared.
UpdateTopic(h, n, t) ==
    LET row == [node[n] EXCEPT !.title = t] IN
    /\ n \in Nodes /\ node[n].type = "TOPIC"
    /\ row.parent # None => ~Titled(row, n)
    /\ Enter(h, "update", n, row)

-----------------------------------------------------------------------------
(* What is written, one statement each *)

Write(h) ==
    LET c == call[h] IN
    /\ c # Idle
    /\ node' = IF c.op = "update" THEN [node EXCEPT ![c.of].title = c.row.title]
                                  ELSE [node EXCEPT ![c.of] = c.row]
    /\ loose' = IF Busy = {h} THEN loose ELSE loose \cup {call[g].of : g \in Busy}
    /\ call' = [call EXCEPT ![h] = Idle] /\ UNCHANGED <<mapped, subject>>

\* architecture createNode: any type below any node of the structure, titles not compared.
AddNode(n, row) ==
    /\ Free(n)
    /\ row.parent # None => row.parent \in Nodes /\ node[row.parent].structure = row.structure
    /\ node' = [node EXCEPT ![n] = row] /\ loose' = loose \cup {n}
    /\ UNCHANGED <<mapped, subject, call>>

Fail(h) ==
    /\ call[h] # Idle /\ call' = [call EXCEPT ![h] = Idle]
    /\ UNCHANGED <<mapped, subject, node, loose>>

Next ==
    \/ \E m \in Subject : Map(m) \/ \E s \in Structure : Link(s, m)
    \/ \E h \in Handler :
         \/ Write(h) \/ Fail(h)
         \/ \E n \in Node, t \in Title :
              \/ UpdateChapter(h, n, t) \/ UpdateTopic(h, n, t)
              \/ \E s \in Structure : CreateChapter(h, n, s, t)
              \/ \E p \in Node : CreateTopic(h, n, p, t)
    \/ \E n \in Node, r \in Row : AddNode(n, r)

Spec == Init /\ [][Next]_vars

-----------------------------------------------------------------------------
\* The chapters and topics that were compared have titles of their own beside each other
\* ("A chapter with this title already exists in this curriculum structure."), unless
\* requests overlapped: no index backs the comparison.
TitlesDistinct ==
    \A n, q \in Nodes \ loose :
      /\ n # q /\ <<node[n].structure, node[n].type>> = <<node[q].structure, node[q].type>>
      /\ node[n].parent = node[q].parent
      => node[n].title # node[q].title

\* Where the chapter service has put chapters or topics there is a subject, whatever became
\* of the class's subjects since: subjects are replaced, never taken from a structure.
ChaptersHaveSubject ==
    \A n \in Nodes \ loose : subject[node[n].structure] # None
=============================================================================
